------------------------ MODULE HidEnumerationProofs ------------------------
(***************************************************************************)
(* Theorems about the list of devices and the one that is opened from it,  *)
(* for any devices on any number of ports.  A path is all that is kept of  *)
(* a device meanwhile: the one that hid_enumerate has given to an entry    *)
(* leads to the device that the entry was made for.                        *)
(***************************************************************************)
EXTENDS HidDescriptorProofs

(* No unit is in two ports, and what the system has named is in its port;  *)
(* no two interfaces have a name in common.                                *)
Plugged ==
  /\ system \in Systems /\ plugs \in Nat
  /\ bus \in [Ports -> Devices \cup {None}] /\ DOMAIN names = Ports
  /\ \A p, q \in Ports : bus[p] = bus[q] /\ bus[p] # None => p = q
  /\ \A p \in Ports : DOMAIN names[p] = IF bus[p] = None THEN {} ELSE 1 .. Len(bus[p].interfaces)
  /\ \A p \in Ports : \A i \in DOMAIN names[p] :
       names[p][i] \in IF system = "mac" THEN (0 .. plugs - 1) \X Nat ELSE Nat
  /\ \A p, q \in Ports : \A i \in DOMAIN names[p], j \in DOMAIN names[q] :
       names[p][i] = names[q][j] => p = q /\ i = j

(* What an entry of the list tells of the device that it was made for.     *)
Tells(e, dev) == /\ e.vid = dev.vid /\ e.pid = dev.pid
                 /\ e.product \in {dev.product, Null} /\ e.serial \in {dev.serial, Null}
                 /\ e.product # Null /\ e.serial = Null => dev.serial = ""

(* Where its path leads to.                                                *)
Reused(sys, there, dev) ==
  \/ sys \in {"libusb", "linux", "netbsd"}
  \/ sys = "windows" /\ there.vid = dev.vid /\ there.pid = dev.pid

NameBefore(path, n) == Len(path) = 1 /\ path[1] \in (0 .. n - 1) \X Nat

HasIds(path, dev) == Len(path) \in Nat /\ Len(path) >= 3 /\ path[2] = dev.vid /\ path[3] = dev.pid

Leads(e, dev) ==
  /\ \A p \in Ports : bus[p] # None => \A i \in 1 .. Len(bus[p].interfaces) :
       IsPrefix(Path(p, i), e.path) => bus[p] = dev \/ (swapped /\ Reused(system, bus[p], dev))
  /\ system = "mac" => NameBefore(e.path, plugs)
  /\ system = "windows" => HasIds(e.path, dev)

Listed == /\ Len(list) \in Nat
          /\ \A n \in 1 .. Len(list) : \E dev \in Devices :
               Tells(list[n], dev) /\ Leads(list[n], dev) /\ Matches(Filter[1], Filter[2], dev)

EnumInv ==
  /\ Plugged
  /\ at \in {"idle", "listed", "opened"}
  /\ wanted.product = Null \/ wanted.product \in STRING \ {""}
  /\ at = "listed" => Listed
  /\ at = "idle" => ~swapped
  /\ at # "opened" => opened = None
  /\ OpenedIsWanted

-----------------------------------------------------------------------------
(* Sequences. *)

LEMMA PrefixIs ==
  ASSUME NEW s, NEW t, Len(s) \in Nat, IsPrefix(s, t)
  PROVE  \A k \in 1 .. Len(s) : s[k] = t[k]
<1> SUFFICES ASSUME NEW k \in 1 .. Len(s) PROVE s[k] = t[k]
  OBVIOUS
<1>1. SubSeq(s, 1, Len(s)) = SubSeq(t, 1, Len(s))
  BY DEF IsPrefix
<1>2. SubSeq(s, 1, Len(s))[k] = s[k] /\ SubSeq(t, 1, Len(s))[k] = t[k]
  OBVIOUS
<1> QED
  BY <1>1, <1>2

-----------------------------------------------------------------------------
(* Names. *)

LEMMA UsedIs ==
  ASSUME Plugged
  PROVE  IsFiniteSet(Used)
<1> DEFINE NamesAt(p) == {names[p][i] : i \in DOMAIN names[p]}
           sets == {NamesAt(p) : p \in Ports}
<1>1. ASSUME NEW p \in Ports PROVE IsFiniteSet(NamesAt(p))
  <2> DEFINE f == [i \in DOMAIN names[p] |-> names[p][i]]
  <2>1. IsFiniteSet(DOMAIN names[p])
    <3>1. DOMAIN names[p] = IF bus[p] = None THEN {} ELSE 1 .. Len(bus[p].interfaces)
      BY DEF Plugged
    <3>2. CASE bus[p] = None
      BY <3>1, <3>2, FS_EmptySet
    <3>3. CASE bus[p] # None
      <4>1. bus[p] \in Devices
        BY <3>3 DEF Plugged
      <4>2. Len(bus[p].interfaces) \in Nat
        BY <4>1, InterfacesAssumption
      <4> QED
        BY <3>1, <3>3, <4>2, FS_Interval
    <3> QED
      BY <3>2, <3>3
  <2>2. f \in Surjection(DOMAIN names[p], NamesAt(p))
    BY DEF Surjection
  <2> QED
    BY <2>1, <2>2, FS_Surjection
<1>2. IsFiniteSet(sets)
  <2> DEFINE f == [p \in Ports |-> NamesAt(p)]
  <2>1. IsFiniteSet(Ports)
    <3>1. PortCount \in Nat
      BY EnumerationAssumption
    <3>2. 1 \in Int /\ PortCount \in Int
      BY <3>1
    <3> QED
      BY <3>2, FS_Interval DEF Ports
  <2>2. f \in Surjection(Ports, sets)
    BY DEF Surjection
  <2> QED
    BY <2>1, <2>2, FS_Surjection
<1>3. \A T \in sets : IsFiniteSet(T)
  BY <1>1
<1>4. IsFiniteSet(UNION sets)
  BY <1>2, <1>3, FS_UNION
<1> QED
  BY <1>4 DEF Used

LEMMA UnusedIs ==
  ASSUME IsFiniteSet(Used), NEW n \in Nat
  PROVE  /\ IsFiniteSet(Unused(n)) /\ Cardinality(Unused(n)) \in Nat
         /\ Cardinality(Unused(n)) >= n + 1 - Cardinality(Used)
         /\ n > 0 => Unused(n) = Unused(n - 1) \cup (IF n \in Used THEN {} ELSE {n})
         /\ n = 0 => Unused(n) = IF n \in Used THEN {} ELSE {n}
<1>1. IsFiniteSet(0 .. n) /\ Cardinality(0 .. n) = n + 1
  BY FS_Interval
<1>2. Unused(n) = (0 .. n) \ Used
  BY DEF Unused
<1>3. /\ IsFiniteSet(Unused(n))
      /\ Cardinality(Unused(n)) = Cardinality(0 .. n) - Cardinality((0 .. n) \cap Used)
  BY <1>1, <1>2, FS_Difference
<1>4. /\ Cardinality((0 .. n) \cap Used) \in Nat /\ Cardinality(Used) \in Nat
      /\ Cardinality((0 .. n) \cap Used) <= Cardinality(Used)
  <2>1. (0 .. n) \cap Used \in SUBSET Used
    OBVIOUS
  <2> QED
    BY <2>1, FS_Subset, FS_CardinalityType
<1>5. Cardinality(Unused(n)) \in Nat
  BY <1>3, FS_CardinalityType
<1>6. n > 0 => Unused(n) = Unused(n - 1) \cup (IF n \in Used THEN {} ELSE {n})
  BY DEF Unused
<1>7. n = 0 => Unused(n) = IF n \in Used THEN {} ELSE {n}
  BY DEF Unused
<1> QED
  BY <1>1, <1>3, <1>4, <1>5, <1>6, <1>7

(* The i-th number that is free. *)
LEMMA FreeNumber ==
  ASSUME IsFiniteSet(Used), NEW count \in Nat, NEW i \in 1 .. count
  PROVE  \E n \in 0 .. Cardinality(Used) + count : n \in Unused(n) /\ Cardinality(Unused(n)) = i
<1> DEFINE last == Cardinality(Used) + count
           Enough == {n \in 0 .. last : Cardinality(Unused(n)) >= i}
<1>1. Cardinality(Used) \in Nat /\ last \in Nat /\ i \in Nat \ {0} /\ i <= count
  BY FS_CardinalityType
<1>2. last \in Enough
  BY <1>1, UnusedIs
<1>3. PICK n \in Enough : \A x \in Enough : n <= x
  <2>1. Enough \subseteq Nat /\ Enough # {}
    BY <1>2
  <2> HIDE DEF Enough
  <2> QED
    BY <2>1, SomeLeast
<1>4. n \in Nat /\ n \in 0 .. last /\ Cardinality(Unused(n)) >= i
  BY <1>3
<1>5. CASE n = 0
  <2>1. Unused(n) = IF n \in Used THEN {} ELSE {n}
    BY <1>4, <1>5, UnusedIs
  <2>2. CASE n \in Used
    BY <1>1, <1>4, <2>1, <2>2, FS_EmptySet
  <2>3. CASE n \notin Used
    <3>1. Cardinality(Unused(n)) = 1
      BY <2>1, <2>3, FS_Singleton
    <3>2. i = 1 /\ n \in Unused(n)
      BY <1>1, <1>4, <2>1, <2>3, <3>1
    <3> QED
      BY <1>4, <3>1, <3>2
  <2> QED
    BY <2>2, <2>3
<1>6. CASE n # 0
  <2>1. n - 1 \in Nat /\ n - 1 \in 0 .. last
    BY <1>1, <1>4, <1>6
  <2>2. IsFiniteSet(Unused(n - 1)) /\ Cardinality(Unused(n - 1)) \in Nat
    BY <2>1, UnusedIs
  <2>3. Cardinality(Unused(n - 1)) < i
    <3>1. n - 1 \notin Enough
      <4>1. ~(n <= n - 1)
        BY <1>4
      <4> HIDE DEF Enough
      <4> QED
        BY <1>3, <4>1
    <3> QED
      BY <1>1, <2>1, <2>2, <3>1
  <2>4. Unused(n) = Unused(n - 1) \cup (IF n \in Used THEN {} ELSE {n})
    BY <1>4, <1>6, UnusedIs
  <2>5. n \notin Used
    BY <1>1, <1>4, <2>2, <2>3, <2>4
  <2>6. n \notin Unused(n - 1)
    BY <1>4 DEF Unused
  <2>7. Cardinality(Unused(n)) = Cardinality(Unused(n - 1)) + 1
    BY <2>2, <2>4, <2>5, <2>6, FS_AddElement
  <2>8. n \in Unused(n)
    BY <2>4, <2>5
  <2>9. Cardinality(Unused(n)) = i
    BY <1>1, <1>4, <2>2, <2>3, <2>7
  <2> QED
    BY <1>4, <2>8, <2>9
<1> QED
  BY <1>5, <1>6

LEMMA NewNamesIs ==
  ASSUME Plugged, NEW count \in Nat
  PROVE  /\ DOMAIN NewNames(count) = 1 .. count
         /\ \A i \in 1 .. count : NewNames(count)[i] \notin Used
         /\ \A i \in 1 .. count :
              NewNames(count)[i] \in IF system = "mac" THEN {plugs} \X Nat ELSE Nat
         /\ \A i, j \in 1 .. count : NewNames(count)[i] = NewNames(count)[j] => i = j
<1>1. CASE system = "mac"
  <2>1. NewNames(count) = [i \in 1 .. count |-> <<plugs, i>>]
    BY <1>1 DEF NewNames
  <2>2. \A i \in 1 .. count : <<plugs, i>> \notin Used
    <3>1. \A p \in Ports : \A i \in DOMAIN names[p] : names[p][i] \in (0 .. plugs - 1) \X Nat
      BY <1>1 DEF Plugged
    <3>2. \A x \in Used : x \in (0 .. plugs - 1) \X Nat
      BY <3>1 DEF Used
    <3>3. plugs \notin 0 .. plugs - 1
      BY DEF Plugged
    <3> QED
      BY <3>2, <3>3
  <2> QED
    BY <1>1, <2>1, <2>2 DEF Plugged
<1>2. CASE system # "mac"
  <2> DEFINE Fits(n, i) == n \in Unused(n) /\ Cardinality(Unused(n)) = i
             domain == 0 .. Cardinality(Used) + count
  <2>1. NewNames(count) = [i \in 1 .. count |-> CHOOSE n \in domain : Fits(n, i)]
    BY <1>2 DEF NewNames
  <2>2. ASSUME NEW i \in 1 .. count
        PROVE  NewNames(count)[i] \in domain /\ Fits(NewNames(count)[i], i)
    <3>1. IsFiniteSet(Used)
      BY UsedIs
    <3>2. \E n \in domain : Fits(n, i)
      BY <3>1, FreeNumber
    <3>3. NewNames(count)[i] = CHOOSE n \in domain : Fits(n, i)
      BY <2>1
    <3> HIDE DEF Fits, domain
    <3> QED
      BY <3>2, <3>3
  <2>3. \A i \in 1 .. count : NewNames(count)[i] \in Nat /\ NewNames(count)[i] \notin Used
    <3> SUFFICES ASSUME NEW i \in 1 .. count
                 PROVE  NewNames(count)[i] \in Nat /\ NewNames(count)[i] \notin Used
      OBVIOUS
    <3>1. Cardinality(Used) + count \in Nat
      BY UsedIs, FS_CardinalityType
    <3>2. NewNames(count)[i] \in 0 .. Cardinality(Used) + count
      BY <2>2
    <3>3. NewNames(count)[i] \in Unused(NewNames(count)[i])
      BY <2>2
    <3>4. NewNames(count)[i] \in Nat
      BY <3>1, <3>2
    <3> QED
      BY <3>3, <3>4 DEF Unused
  <2>4. \A i, j \in 1 .. count : NewNames(count)[i] = NewNames(count)[j] => i = j
    BY <2>2
  <2> QED
    BY <1>2, <2>1, <2>3, <2>4
<1> QED
  BY <1>1, <1>2

-----------------------------------------------------------------------------
(* Entries of the list. *)

PathsFrom(p, i) == {Path(p, i)} \cup IF system = "windows" THEN {Path(p, i) \o <<n>> : n \in Nat} ELSE {}

EntriesFrom(p, i) ==
  {Entry(path, bus[p], strings, interface, usage) :
     path \in PathsFrom(p, i), strings \in {KeptStrings(bus[p]), UsbStrings(bus[p])},
     interface \in Int, usage \in Nat \X Nat}

EntriesFor(p) == UNION {EntriesFrom(p, i) : i \in 1 .. Len(bus[p].interfaces)}

LEMMA InterfaceIs ==
  ASSUME Plugged, NEW p \in Ports, bus[p] # None
  PROVE  /\ bus[p] \in Devices /\ Len(bus[p].interfaces) \in Nat
         /\ \A i \in 1 .. Len(bus[p].interfaces) :
              /\ Len(bus[p].interfaces[i].alts) \in Nat \ {0} /\ IsBlock(bus[p].interfaces[i].items)
              /\ DeviceUsages(bus[p].interfaces[i].descriptor) \in Seq(Nat \X Nat)
              /\ DeviceUsages(bus[p].interfaces[i].descriptor) # <<>>
              /\ GetUsage(bus[p].interfaces[i].descriptor) \in Nat \X Nat
<1>1. bus[p] \in Devices
  BY DEF Plugged
<1>2. /\ Len(bus[p].interfaces) \in Nat
      /\ \A i \in 1 .. Len(bus[p].interfaces) :
           /\ Len(bus[p].interfaces[i].alts) \in Nat \ {0}
           /\ bus[p].interfaces[i].descriptor \in Seq(0 .. 255)
           /\ IsBlock(bus[p].interfaces[i].items)
  BY <1>1, InterfacesAssumption
<1> QED
  BY <1>1, <1>2, ParsersEnd

LEMMA EntryIs ==
  ASSUME NEW p \in Ports, NEW i \in 1 .. Len(bus[p].interfaces),
         NEW strings \in {KeptStrings(bus[p]), UsbStrings(bus[p])}, NEW interface \in Int,
         NEW usage \in Nat \X Nat
  PROVE  /\ Entry(Path(p, i), bus[p], strings, interface, usage) \in EntriesFrom(p, i)
         /\ system = "windows" => \A n \in Nat :
              Entry(Path(p, i) \o <<n>>, bus[p], strings, interface, usage) \in EntriesFrom(p, i)
<1> DEFINE extended(m) == Path(p, i) \o <<m>>
<1>1. Path(p, i) \in PathsFrom(p, i)
  BY DEF PathsFrom
<1>2. ASSUME system = "windows", NEW n \in Nat PROVE extended(n) \in PathsFrom(p, i)
  <2>1. PathsFrom(p, i) = {Path(p, i)} \cup {extended(m) : m \in Nat}
    BY <1>2 DEF PathsFrom
  <2> HIDE DEF extended
  <2> QED
    BY <1>2, <2>1
<1>3. \A path \in PathsFrom(p, i) : Entry(path, bus[p], strings, interface, usage) \in EntriesFrom(p, i)
  BY DEF EntriesFrom
<1> QED
  BY <1>1, <1>2, <1>3

LEMMA EntriesAre ==
  ASSUME Plugged, NEW p \in Ports, bus[p] # None, NEW i \in 1 .. Len(bus[p].interfaces)
  PROVE  EntriesOf(p, i) \in Seq(EntriesFrom(p, i))
<1> DEFINE dev == bus[p]
           d == dev.interfaces[i].descriptor
           pairs == DeviceUsages(d)
           number == IF dev.bus = "usb" THEN i - 1 ELSE -1
           entry(usage) == Entry(Path(p, i), dev, KeptStrings(dev), number, usage)
<1>1. /\ pairs \in Seq(Nat \X Nat) /\ pairs # <<>> /\ Len(pairs) \in Nat \ {0}
      /\ \A n \in 1 .. Len(pairs) : pairs[n] \in Nat \X Nat
      /\ GetUsage(d) \in Nat \X Nat
  <2>1. pairs \in Seq(Nat \X Nat) /\ pairs # <<>> /\ GetUsage(d) \in Nat \X Nat
    BY InterfaceIs
  <2> HIDE DEF pairs, d
  <2> QED
    BY <2>1
<1>2. number \in Int /\ i - 1 \in Int /\ -1 \in Int
  <2>1. i \in Int
    BY InterfaceIs
  <2> QED
    BY <2>1
<1>3. \A n \in 1 .. Len(pairs) : entry(pairs[n]) \in EntriesFrom(p, i)
  BY <1>1, <1>2, EntryIs
<1>4. <<>> \in Seq(EntriesFrom(p, i))
  OBVIOUS
<1> HIDE DEF pairs, d, number
<1>5. CASE system = "libusb"
  <2>1. EntriesOf(p, i) = UsbEntries(dev, i, Path(p, i))
    BY <1>5 DEF EntriesOf
  <2> DEFINE usage == IF Invasive /\ dev.answers THEN GetUsage(d) ELSE <<0, 0>>
  <2>2. usage \in Nat \X Nat
    BY <1>1
  <2> HIDE DEF usage
  <2> DEFINE e == Entry(Path(p, i), dev, UsbStrings(dev), i - 1, usage)
  <2>3. e \in EntriesFrom(p, i)
    BY <1>2, <2>2, EntryIs
  <2>4. EntriesOf(p, i) \in {<<>>, <<e>>}
    BY <2>1 DEF UsbEntries, usage, d
  <2> HIDE DEF e
  <2> QED
    <3>1. <<e>> \in Seq(EntriesFrom(p, i))
      BY <2>3
    <3> QED
      BY <1>4, <2>4, <3>1
<1>6. CASE system # "libusb" /\ ~IsHid(dev.interfaces[i])
  BY <1>4, <1>6 DEF EntriesOf
<1>7. CASE system = "linux" /\ IsHid(dev.interfaces[i])
  <2>1. EntriesOf(p, i) = LinuxEntries(dev, i, Path(p, i), pairs)
    BY <1>7 DEF EntriesOf, HidEntries, pairs, d
  <2>2. EntriesOf(p, i) \in {<<>>, [n \in 1 .. Len(pairs) |-> entry(pairs[n])]}
    BY <2>1 DEF LinuxEntries, ForEach, number
  <2>3. [n \in 1 .. Len(pairs) |-> entry(pairs[n])] \in Seq(EntriesFrom(p, i))
    <3> HIDE DEF entry
    <3> QED
      BY <1>1, <1>3
  <2> QED
    BY <1>4, <2>2, <2>3
<1>8. CASE system = "netbsd" /\ IsHid(dev.interfaces[i])
  <2> DEFINE unnumbered(usage) == Entry(Path(p, i), dev, KeptStrings(dev), -1, usage)
             usages == IF dev.answers THEN pairs ELSE <<<<0, 0>>>>
  <2>1. EntriesOf(p, i) = NetbsdEntries(dev, i, Path(p, i), pairs)
    BY <1>8 DEF EntriesOf, HidEntries, pairs, d
  <2>2. EntriesOf(p, i) \in {<<>>, [n \in 1 .. Len(usages) |-> unnumbered(usages[n])]}
    BY <2>1 DEF NetbsdEntries, ForEach
  <2>3. Len(usages) \in Nat /\ \A n \in 1 .. Len(usages) : usages[n] \in Nat \X Nat
    <3>1. CASE dev.answers
      BY <1>1, <1>2, <3>1
    <3>2. CASE ~dev.answers
      BY <1>2, <3>2
    <3> QED
      BY <3>1, <3>2
  <2> HIDE DEF usages
  <2>4. \A n \in 1 .. Len(usages) : unnumbered(usages[n]) \in EntriesFrom(p, i)
    BY <1>2, <2>3, EntryIs
  <2>5. [n \in 1 .. Len(usages) |-> unnumbered(usages[n])] \in Seq(EntriesFrom(p, i))
    <3> HIDE DEF unnumbered
    <3> QED
      BY <2>3, <2>4
  <2> QED
    BY <1>4, <2>2, <2>5
<1>9. CASE system = "mac" /\ IsHid(dev.interfaces[i])
  <2> DEFINE others(usage) == IF usage = pairs[1] THEN <<>> ELSE <<entry(usage)>>
             more == [n \in 1 .. Len(pairs) |-> others(pairs[n])]
  <2>1. EntriesOf(p, i) = MacEntries(dev, i, Path(p, i), pairs)
    BY <1>9 DEF EntriesOf, HidEntries, pairs, d
  <2>2. EntriesOf(p, i) = <<entry(pairs[1])>> \o FlattenSeq(more)
    BY <2>1 DEF MacEntries, ForEach, number
  <2>3. \A n \in 1 .. Len(pairs) : others(pairs[n]) \in Seq(EntriesFrom(p, i))
    <3> HIDE DEF entry
    <3> QED
      BY <1>3
  <2>4. more \in Seq(Seq(EntriesFrom(p, i)))
    <3> HIDE DEF others
    <3> QED
      BY <1>1, <2>3
  <2> HIDE DEF more
  <2>5. FlattenSeq(more) \in Seq(EntriesFrom(p, i))
    BY <2>4, FlattenIs
  <2>6. 1 \in 1 .. Len(pairs)
    BY <1>1
  <2>7. <<entry(pairs[1])>> \in Seq(EntriesFrom(p, i))
    <3> HIDE DEF entry
    <3> QED
      BY <1>3, <2>6
  <2> HIDE DEF entry
  <2> QED
    BY <2>2, <2>5, <2>7
<1>10. CASE system = "windows" /\ IsHid(dev.interfaces[i])
  <2> DEFINE own(n) == Entry(Path(p, i) \o <<n>>, dev, KeptStrings(dev), number, pairs[n])
  <2>1. EntriesOf(p, i) = WindowsEntries(dev, i, Path(p, i), pairs)
    BY <1>10 DEF EntriesOf, HidEntries, pairs, d
  <2>2. EntriesOf(p, i) \in {<<>>, [n \in 1 .. Len(pairs) |-> own(n)]}
    BY <2>1 DEF WindowsEntries, number
  <2>3. ASSUME NEW n \in 1 .. Len(pairs) PROVE own(n) \in EntriesFrom(p, i)
    <3>1. n \in Nat /\ pairs[n] \in Nat \X Nat
      BY <1>1, <1>2
    <3> QED
      BY <1>2, <1>10, <3>1, EntryIs
  <2>4. [n \in 1 .. Len(pairs) |-> own(n)] \in Seq(EntriesFrom(p, i))
    <3> HIDE DEF own
    <3> QED
      BY <1>1, <2>3
  <2> QED
    BY <1>4, <2>2, <2>4
<1> QED
  BY <1>5, <1>6, <1>7, <1>8, <1>9, <1>10 DEF Plugged, Systems

Passing(vid, pid) == {p \in Ports : bus[p] # None /\ Matches(vid, pid, bus[p])}

OwnEntries(p) == [i \in 1 .. Len(bus[p].interfaces) |-> EntriesOf(p, i)]

LEMMA InPortIs ==
  ASSUME Plugged, NEW vid, NEW pid, NEW p \in Ports
  PROVE  /\ p \notin Passing(vid, pid) => InPort(vid, pid, p) = <<>>
         /\ p \in Passing(vid, pid) =>
              /\ OwnEntries(p) \in Seq(Seq(EntriesFor(p)))
              /\ Len(OwnEntries(p)) = Len(bus[p].interfaces)
              /\ InPort(vid, pid, p) = FlattenSeq(OwnEntries(p))
              /\ InPort(vid, pid, p) \in Seq(EntriesFor(p))
<1>1. p \notin Passing(vid, pid) => InPort(vid, pid, p) = <<>>
  BY DEF InPort, Passing
<1> SUFFICES ASSUME p \in Passing(vid, pid)
             PROVE  /\ OwnEntries(p) \in Seq(Seq(EntriesFor(p)))
                    /\ Len(OwnEntries(p)) = Len(bus[p].interfaces)
                    /\ InPort(vid, pid, p) = FlattenSeq(OwnEntries(p))
                    /\ InPort(vid, pid, p) \in Seq(EntriesFor(p))
  BY <1>1
<1>2. bus[p] # None /\ Matches(vid, pid, bus[p])
  BY DEF Passing
<1>3. Len(bus[p].interfaces) \in Nat
  BY <1>2, InterfaceIs
<1>4. ASSUME NEW i \in 1 .. Len(bus[p].interfaces) PROVE EntriesOf(p, i) \in Seq(EntriesFor(p))
  <2>1. EntriesOf(p, i) \in Seq(EntriesFrom(p, i))
    BY <1>2, EntriesAre
  <2>2. EntriesFrom(p, i) \subseteq EntriesFor(p)
    BY DEF EntriesFor
  <2> QED
    BY <2>1, <2>2
<1>5. OwnEntries(p) \in Seq(Seq(EntriesFor(p))) /\ Len(OwnEntries(p)) = Len(bus[p].interfaces)
  BY <1>3, <1>4 DEF OwnEntries
<1>6. InPort(vid, pid, p) = FlattenSeq(OwnEntries(p))
  BY <1>2 DEF InPort, OwnEntries
<1> QED
  BY <1>5, <1>6, FlattenIs

(* A list is made of every port once. *)
LEMMA OrderIs ==
  ASSUME NEW order \in Orders
  PROVE  /\ \A n \in Ports : order[n] \in Ports
         /\ \A n, m \in Ports : order[n] = order[m] => n = m
         /\ \A p \in Ports : \E n \in Ports : order[n] = p
<1>1. CASE system = "mac"
  <2>1. PortCount \in Nat
    BY EnumerationAssumption
  <2>2. IsFiniteSet(Ports) /\ Cardinality(Ports) = PortCount
    <3>1. 1 \in Int /\ PortCount \in Int
      BY <2>1
    <3>2. IsFiniteSet(Ports) /\ Cardinality(Ports) = IF 1 > PortCount THEN 0 ELSE PortCount - 1 + 1
      BY <3>1, FS_Interval DEF Ports
    <3> QED
      BY <2>1, <3>2
  <2>3. order \in [Ports -> Ports] /\ \A n, m \in Ports : n # m => order[n] # order[m]
    <3>1. 1 .. Cardinality(Ports) = Ports
      BY <2>2 DEF Ports
    <3>2. order \in SetToSeqs(Ports)
      BY <1>1 DEF Orders
    <3>3. /\ order \in [1 .. Cardinality(Ports) -> Ports]
          /\ \A n, m \in 1 .. Cardinality(Ports) : n # m => order[n] # order[m]
      BY <3>2 DEF SetToSeqs
    <3> QED
      BY <3>1, <3>3
  <2>4. order \in Injection(Ports, Ports)
    BY <2>3 DEF Injection, IsInjective
  <2>5. order \in Surjection(Ports, Ports)
    BY <2>2, <2>4, FS_Injection
  <2> QED
    BY <2>3, <2>5 DEF Surjection
<1>2. CASE system # "mac"
  BY <1>2 DEF Orders
<1> QED
  BY <1>1, <1>2

LEMMA EnumerateIs ==
  ASSUME Plugged, NEW vid, NEW pid, Enumerate(vid, pid)
  PROVE  list' \in Seq(UNION {EntriesFor(p) : p \in Passing(vid, pid)})
<1> DEFINE All == UNION {EntriesFor(p) : p \in Passing(vid, pid)}
<1>1. ASSUME NEW p \in Ports PROVE InPort(vid, pid, p) \in Seq(All)
  <2>1. CASE p \notin Passing(vid, pid)
    <3>1. InPort(vid, pid, p) = <<>>
      BY <2>1, InPortIs
    <3> HIDE DEF All
    <3> QED
      BY <3>1
  <2>2. CASE p \in Passing(vid, pid)
    <3>1. EntriesFor(p) \subseteq All
      BY <2>2
    <3>2. InPort(vid, pid, p) \in Seq(EntriesFor(p))
      BY <2>2, InPortIs
    <3> HIDE DEF All
    <3> QED
      BY <3>1, <3>2
  <2> QED
    BY <2>1, <2>2
<1>2. PICK order \in Orders : list' = FlattenSeq([n \in Ports |-> InPort(vid, pid, order[n])])
  BY DEF Enumerate
<1>3. PortCount \in Nat
  BY EnumerationAssumption
<1>4. \A n \in Ports : order[n] \in Ports
  BY OrderIs
<1> DEFINE seqs == [n \in Ports |-> InPort(vid, pid, order[n])]
<1>5. \A n \in Ports : InPort(vid, pid, order[n]) \in Seq(All)
  <2> HIDE DEF All
  <2> QED
    BY <1>1, <1>4
<1> HIDE DEF All
<1>6. seqs \in Seq(Seq(All))
  BY <1>3, <1>5 DEF Ports
<1>7. list' = FlattenSeq(seqs)
  BY <1>2
<1> HIDE DEF seqs
<1>8. list' \in Seq(All)
  BY <1>6, <1>7, FlattenIs
<1> QED
  BY <1>8 DEF All

-----------------------------------------------------------------------------
(* Where paths lead to. *)

(* What Windows numbers an instance with that has no serial number.        *)
Number(p) == IF bus[p].serial = "" THEN p ELSE 0

Parts(p, i) == {bus[p].bus, bus[p].vid, bus[p].pid, i, bus[p].serial, p, 0}

LEMMA SixParts ==
  ASSUME NEW S, NEW a \in S, NEW b \in S, NEW c \in S, NEW d \in S, NEW e \in S, NEW f \in S
  PROVE  /\ Len(<<a, b, c, d, e, f>>) = 6 /\ <<a, b, c, d, e, f>> \in Seq(S)
         /\ <<a, b, c, d, e, f>>[1] = a /\ <<a, b, c, d, e, f>>[2] = b
         /\ <<a, b, c, d, e, f>>[3] = c /\ <<a, b, c, d, e, f>>[4] = d
         /\ <<a, b, c, d, e, f>>[5] = e /\ <<a, b, c, d, e, f>>[6] = f
OBVIOUS

LEMMA WindowsPath ==
  ASSUME NEW p, NEW i, system = "windows"
  PROVE  /\ Len(Path(p, i)) = 6 /\ Path(p, i) \in Seq(Parts(p, i))
         /\ Path(p, i)[1] = bus[p].bus /\ Path(p, i)[2] = bus[p].vid
         /\ Path(p, i)[3] = bus[p].pid /\ Path(p, i)[4] = i
         /\ Path(p, i)[5] = bus[p].serial /\ Path(p, i)[6] = Number(p)
<1> DEFINE dev == bus[p]
           last == Number(p)
<1>1. Path(p, i) = <<dev.bus, dev.vid, dev.pid, i, dev.serial, last>>
  BY DEF Path, Number
<1>2. /\ dev.bus \in Parts(p, i) /\ dev.vid \in Parts(p, i) /\ dev.pid \in Parts(p, i)
      /\ i \in Parts(p, i) /\ dev.serial \in Parts(p, i) /\ last \in Parts(p, i)
  BY DEF Parts, Number
<1> HIDE DEF last, dev
<1>3. /\ Len(Path(p, i)) = 6 /\ Path(p, i) \in Seq(Parts(p, i))
      /\ Path(p, i)[1] = dev.bus /\ Path(p, i)[2] = dev.vid
      /\ Path(p, i)[3] = dev.pid /\ Path(p, i)[4] = i
      /\ Path(p, i)[5] = dev.serial /\ Path(p, i)[6] = last
  BY <1>1, <1>2, SixParts
<1> QED
  BY <1>3 DEF dev, last

LEMMA UsbPath ==
  ASSUME NEW p, NEW i, system = "libusb"
  PROVE  /\ Path(p, i) = <<p, i>> /\ Len(Path(p, i)) = 2
         /\ Path(p, i)[1] = p /\ Path(p, i)[2] = i
<1>1. Path(p, i) = <<p, i>>
  BY DEF Path
<1> QED
  BY <1>1

LEMMA NamedPath ==
  ASSUME NEW p, NEW i, system \notin {"libusb", "windows"}
  PROVE  /\ Path(p, i) = <<names[p][i]>> /\ Len(Path(p, i)) = 1 /\ Path(p, i)[1] = names[p][i]
<1>1. Path(p, i) = <<names[p][i]>>
  BY DEF Path
<1> QED
  BY <1>1

(* The path of an entry begins with that of the interface.                 *)
LEMMA EntryPath ==
  ASSUME NEW q, NEW j, NEW path \in PathsFrom(q, j)
  PROVE  /\ path = Path(q, j) \/ system = "windows"
         /\ system = "windows" => /\ Len(path) \in {6, 7}
                                  /\ \A k \in 1 .. 6 : path[k] = Path(q, j)[k]
<1> DEFINE extended(m) == Path(q, j) \o <<m>>
<1>1. CASE path = Path(q, j)
  <2>1. system = "windows" => Len(path) = 6
    BY <1>1, WindowsPath
  <2> QED
    BY <1>1, <2>1
<1>2. CASE system = "windows" /\ \E n \in Nat : path = extended(n)
  <2>1. PICK n \in Nat : path = extended(n)
    BY <1>2
  <2>2. Len(Path(q, j)) = 6 /\ Path(q, j) \in Seq(Parts(q, j))
    BY <1>2, WindowsPath
  <2> DEFINE T == Parts(q, j) \cup {n}
  <2>3. Parts(q, j) \subseteq T /\ n \in T
    OBVIOUS
  <2>4. Path(q, j) \in Seq(T) /\ <<n>> \in Seq(T) /\ Len(<<n>>) = 1
    <3> HIDE DEF T
    <3> QED
      BY <2>2, <2>3
  <2> HIDE DEF T
  <2>5. /\ Len(path) = Len(Path(q, j)) + Len(<<n>>)
        /\ \A k \in 1 .. Len(Path(q, j)) : path[k] = Path(q, j)[k]
    BY <2>1, <2>4, JoinedIs
  <2>6. Len(path) = 7 /\ \A k \in 1 .. 6 : path[k] = Path(q, j)[k]
    BY <2>2, <2>4, <2>5
  <2> QED
    BY <1>2, <2>6
<1>3. path = Path(q, j) \/ (system = "windows" /\ \E n \in Nat : path = extended(n))
  <2>1. PathsFrom(q, j) = {Path(q, j)} \cup IF system = "windows" THEN {extended(n) : n \in Nat} ELSE {}
    BY DEF PathsFrom
  <2> HIDE DEF extended
  <2> QED
    BY <2>1
<1> QED
  BY <1>1, <1>2, <1>3

(* No two units that are plugged in have a path in common, nor have two    *)
(* interfaces of one.                                                      *)
LEMMA SameInterface ==
  ASSUME Plugged, NEW p \in Ports, NEW q \in Ports, bus[p] # None, bus[q] # None,
         NEW i \in 1 .. Len(bus[p].interfaces), NEW j \in 1 .. Len(bus[q].interfaces),
         NEW path \in PathsFrom(q, j), IsPrefix(Path(p, i), path)
  PROVE  p = q /\ i = j
<1>1. /\ path = Path(q, j) \/ system = "windows"
      /\ system = "windows" => /\ Len(path) \in {6, 7}
                               /\ \A k \in 1 .. 6 : path[k] = Path(q, j)[k]
  BY EntryPath
<1>2. CASE system = "libusb"
  <2>1. /\ Path(p, i)[1] = p /\ Path(p, i)[2] = i /\ path[1] = q /\ path[2] = j
        /\ Len(Path(p, i)) = 2
    BY <1>1, <1>2, UsbPath
  <2>2. Len(Path(p, i)) \in Nat /\ 1 \in 1 .. Len(Path(p, i)) /\ 2 \in 1 .. Len(Path(p, i))
    BY <2>1
  <2>3. Path(p, i)[1] = path[1] /\ Path(p, i)[2] = path[2]
    BY <2>2, PrefixIs
  <2> QED
    BY <2>1, <2>3
<1>3. CASE system = "windows"
  <2> DEFINE dev == bus[p]
             other == bus[q]
  <2>1. /\ Path(p, i)[1] = dev.bus /\ Path(p, i)[2] = dev.vid /\ Path(p, i)[3] = dev.pid
        /\ Path(p, i)[4] = i /\ Path(p, i)[5] = dev.serial /\ Path(p, i)[6] = Number(p)
        /\ Path(q, j)[1] = other.bus /\ Path(q, j)[2] = other.vid /\ Path(q, j)[3] = other.pid
        /\ Path(q, j)[4] = j /\ Path(q, j)[5] = other.serial /\ Path(q, j)[6] = Number(q)
        /\ Len(Path(p, i)) = 6
    BY <1>3, WindowsPath
  <2>2. Len(Path(p, i)) \in Nat
    BY <2>1
  <2>3. \A k \in 1 .. 6 : Path(p, i)[k] = Path(q, j)[k]
    <3>1. \A k \in 1 .. 6 : Path(p, i)[k] = path[k]
      <4>1. \A k \in 1 .. Len(Path(p, i)) : Path(p, i)[k] = path[k]
        BY <2>2, PrefixIs
      <4> QED
        BY ONLY <2>1, <4>1
    <3> QED
      BY <1>1, <1>3, <3>1
  <2>4. /\ dev.bus = other.bus /\ dev.vid = other.vid /\ dev.pid = other.pid
        /\ dev.serial = other.serial /\ i = j
        /\ Number(p) = Number(q)
    BY <2>1, <2>3
  <2>5. CASE dev.serial = ""
    BY <2>4, <2>5 DEF Number
  <2>6. CASE dev.serial # ""
    <3>1. dev \in Devices /\ other \in Devices
      BY InterfaceIs
    <3>2. dev = other
      BY <2>4, <2>6, <3>1, EnumerationAssumption
    <3> QED
      BY <2>4, <3>2 DEF Plugged
  <2> QED
    BY <2>5, <2>6
<1>4. CASE system \notin {"libusb", "windows"}
  <2>1. Path(p, i)[1] = names[p][i] /\ path[1] = names[q][j] /\ Len(Path(p, i)) = 1
    BY <1>1, <1>4, NamedPath
  <2>2. Len(Path(p, i)) \in Nat /\ 1 \in 1 .. Len(Path(p, i))
    BY <2>1
  <2>3. Path(p, i)[1] = path[1]
    BY <2>2, PrefixIs
  <2>4. names[p][i] = names[q][j]
    BY <2>1, <2>3
  <2>5. i \in DOMAIN names[p] /\ j \in DOMAIN names[q]
    BY DEF Plugged
  <2> QED
    BY <2>4, <2>5 DEF Plugged
<1> QED
  BY <1>2, <1>3, <1>4

LEMMA NewEntry ==
  ASSUME Plugged, NEW q \in Ports, bus[q] # None, NEW e \in EntriesFor(q)
  PROVE  Tells(e, bus[q]) /\ Leads(e, bus[q])
<1>0. PICK j \in 1 .. Len(bus[q].interfaces) : e \in EntriesFrom(q, j)
  BY DEF EntriesFor
<1>1. PICK path \in PathsFrom(q, j), strings \in {KeptStrings(bus[q]), UsbStrings(bus[q])},
           interface \in Int, usage \in Nat \X Nat :
        e = Entry(path, bus[q], strings, interface, usage)
  BY <1>0 DEF EntriesFrom
<1>2. /\ e.vid = bus[q].vid /\ e.pid = bus[q].pid /\ e.path = path
      /\ e.product = strings.product /\ e.serial = strings.serial
  BY <1>1 DEF Entry
<1>3. Tells(e, bus[q])
  <2>1. bus[q] \in Devices
    BY InterfaceIs
  <2>2. bus[q].product # Null /\ bus[q].serial # Null
    BY <2>1, EnumerationAssumption
  <2>3. CASE strings = KeptStrings(bus[q])
    BY <1>2, <2>2, <2>3 DEF Tells, KeptStrings
  <2>4. CASE strings = UsbStrings(bus[q])
    BY <1>2, <2>2, <2>4 DEF Tells, UsbStrings
  <2> QED
    BY <2>3, <2>4
<1>4. ASSUME NEW p \in Ports, bus[p] # None, NEW i \in 1 .. Len(bus[p].interfaces),
             IsPrefix(Path(p, i), e.path)
      PROVE  bus[p] = bus[q]
  BY <1>2, <1>4, SameInterface
<1>5. /\ path = Path(q, j) \/ system = "windows"
      /\ system = "windows" => /\ Len(path) \in {6, 7}
                               /\ \A k \in 1 .. 6 : path[k] = Path(q, j)[k]
  BY EntryPath
<1>6. CASE system = "mac"
  <2>1. path = <<names[q][j]>>
    BY <1>5, <1>6, NamedPath
  <2>2. names[q][j] \in (0 .. plugs - 1) \X Nat
    BY <1>6 DEF Plugged
  <2>3. NameBefore(e.path, plugs)
    BY <1>2, <2>1, <2>2 DEF NameBefore
  <2> QED
    BY <1>3, <1>4, <1>6, <2>3 DEF Leads
<1>7. CASE system = "windows"
  <2>1. Path(q, j)[2] = bus[q].vid /\ Path(q, j)[3] = bus[q].pid
    BY <1>7, WindowsPath
  <2>2. path[2] = bus[q].vid /\ path[3] = bus[q].pid /\ Len(path) \in Nat /\ Len(path) >= 3
    BY <1>5, <1>7, <2>1
  <2>3. HasIds(e.path, bus[q])
    BY <1>2, <2>2 DEF HasIds
  <2> QED
    BY <1>3, <1>4, <1>7, <2>3 DEF Leads
<1> QED
  BY <1>3, <1>4, <1>6, <1>7 DEF Leads

LEMMA PathKept ==
  ASSUME NEW p, NEW i, UNCHANGED system, bus'[p] = bus[p], names'[p] = names[p]
  PROVE  Path(p, i)' = Path(p, i)
<1>1. CASE system = "libusb"
  <2>1. Path(p, i) = <<p, i>> /\ Path(p, i)' = <<p, i>>
    BY <1>1 DEF Path
  <2> QED
    BY <2>1
<1>2. CASE system = "windows"
  <2>1. Path(p, i) = <<bus[p].bus, bus[p].vid, bus[p].pid, i, bus[p].serial, Number(p)>>
    BY <1>2 DEF Path, Number
  <2>2. Path(p, i)' = <<bus'[p].bus, bus'[p].vid, bus'[p].pid, i, bus'[p].serial, Number(p)'>>
    BY <1>2 DEF Path, Number
  <2>3. Number(p)' = Number(p)
    BY DEF Number
  <2> QED
    BY <2>1, <2>2, <2>3
<1>3. CASE system \notin {"libusb", "windows"}
  <2>1. Path(p, i) = <<names[p][i]>> /\ Path(p, i)' = <<names'[p][i]>>
    BY <1>3 DEF Path
  <2> QED
    BY <2>1
<1> QED
  BY <1>1, <1>2, <1>3

(* Leads', of a constant.                                                  *)
LeadsThen(e, dev) ==
  /\ \A p \in Ports : bus'[p] # None => \A i \in 1 .. Len(bus'[p].interfaces) :
       IsPrefix(Path(p, i)', e.path) => bus'[p] = dev \/ (swapped' /\ Reused(system', bus'[p], dev))
  /\ system' = "mac" => NameBefore(e.path, plugs')
  /\ system' = "windows" => HasIds(e.path, dev)

LEMMA LeadsKept ==
  ASSUME NEW e, NEW dev, UNCHANGED <<system, bus, names, plugs, swapped>>, Leads(e, dev)
  PROVE  LeadsThen(e, dev)
<1>1. \A p, i : Path(p, i)' = Path(p, i)
  BY PathKept
<1>2. ASSUME NEW p \in Ports, bus'[p] # None, NEW i \in 1 .. Len(bus'[p].interfaces),
             IsPrefix(Path(p, i)', e.path)
      PROVE  bus'[p] = dev \/ (swapped' /\ Reused(system', bus'[p], dev))
  <2>1. IsPrefix(Path(p, i), e.path) /\ bus'[p] = bus[p] /\ swapped' = swapped /\ system' = system
    BY <1>1, <1>2
  <2>2. bus[p] = dev \/ (swapped /\ Reused(system, bus[p], dev))
    BY <1>2, <2>1 DEF Leads
  <2> QED
    BY <2>1, <2>2
<1>3. system' = "mac" => NameBefore(e.path, plugs')
  BY DEF Leads
<1>4. system' = "windows" => HasIds(e.path, dev)
  BY DEF Leads
<1> QED
  BY <1>2, <1>3, <1>4 DEF LeadsThen

LEMMA NewList ==
  ASSUME Plugged, NEW vid, NEW pid, Enumerate(vid, pid), Filter' = <<vid, pid>>
  PROVE  Listed'
<1> DEFINE All == UNION {EntriesFor(p) : p \in Passing(vid, pid)}
<1>1. list' \in Seq(All)
  BY EnumerateIs
<1>2. UNCHANGED <<system, bus, names, plugs, swapped>>
  BY DEF Enumerate
<1>3. Len(list') \in Nat /\ \A n \in 1 .. Len(list') : list'[n] \in All
  <2> HIDE DEF All
  <2> QED
    BY <1>1
<1>4. ASSUME NEW n \in 1 .. Len(list')
      PROVE  \E dev \in Devices :
               Tells(list'[n], dev) /\ Leads(list'[n], dev) /\ Matches(vid, pid, dev)
  <2>1. PICK q \in Passing(vid, pid) : list'[n] \in EntriesFor(q)
    <3>1. list'[n] \in All
      BY <1>3
    <3> DEFINE e == list'[n]
    <3> HIDE DEF e
    <3> QED
      BY <3>1 DEF e
  <2>2. q \in Ports /\ bus[q] # None /\ Matches(vid, pid, bus[q]) /\ bus[q] \in Devices
    BY InterfaceIs DEF Passing
  <2>3. Tells(list'[n], bus[q]) /\ Leads(list'[n], bus[q])
    BY <2>1, <2>2, NewEntry
  <2> QED
    BY <2>2, <2>3
<1>5. Filter'[1] = vid /\ Filter'[2] = pid
  OBVIOUS
<1> QED
  <2>1. Listed' <=> /\ Len(list') \in Nat
                    /\ \A n \in 1 .. Len(list') : \E dev \in Devices :
                         Tells(list'[n], dev) /\ LeadsThen(list'[n], dev) /\ Matches(vid, pid, dev)
    BY <1>5 DEF Listed, Leads, LeadsThen
  <2>2. \A e, dev : Leads(e, dev) => LeadsThen(e, dev)
    BY <1>2, LeadsKept
  <2> QED
    BY <1>3, <1>4, <2>1, <2>2

-----------------------------------------------------------------------------
(* What is plugged in. *)

LEMMA PlugInPlugged ==
  ASSUME Plugged, PlugIn
  PROVE  Plugged'
<1>1. PICK q \in Ports, dev \in Devices :
        /\ bus[q] = None /\ \A p \in Ports : bus[p] # dev
        /\ bus' = [bus EXCEPT ![q] = dev]
        /\ names' = [names EXCEPT ![q] = NewNames(Len(dev.interfaces))]
  BY DEF PlugIn
<1>2. plugs' = plugs + 1 /\ system' = system
  BY DEF PlugIn
<1>3. Len(dev.interfaces) \in Nat /\ dev # None
  BY EnumerationAssumption, InterfacesAssumption
<1> DEFINE new == NewNames(Len(dev.interfaces))
           Kind == IF system = "mac" THEN (0 .. plugs - 1) \X Nat ELSE Nat
           KindThen == IF system = "mac" THEN (0 .. plugs) \X Nat ELSE Nat
<1>4. /\ DOMAIN new = 1 .. Len(dev.interfaces)
      /\ \A i \in 1 .. Len(dev.interfaces) : new[i] \notin Used
      /\ \A i \in 1 .. Len(dev.interfaces) : new[i] \in IF system = "mac" THEN {plugs} \X Nat ELSE Nat
      /\ \A i, j \in 1 .. Len(dev.interfaces) : new[i] = new[j] => i = j
  BY <1>3, NewNamesIs
<1> HIDE DEF new
<1>5. bus \in [Ports -> Devices \cup {None}] /\ DOMAIN names = Ports /\ plugs \in Nat
  BY DEF Plugged
<1>6. /\ bus'[q] = dev /\ names'[q] = new
      /\ \A p \in Ports : p # q => bus'[p] = bus[p] /\ names'[p] = names[p]
  BY <1>1, <1>5 DEF new
<1>7. /\ system' \in Systems /\ plugs' \in Nat
      /\ bus' \in [Ports -> Devices \cup {None}] /\ DOMAIN names' = Ports
  <2>1. system' \in Systems /\ plugs' \in Nat
    BY <1>2 DEF Plugged
  <2>2. bus' \in [Ports -> Devices \cup {None}]
    BY <1>1, <1>5
  <2>3. DOMAIN names' = Ports
    BY <1>1, <1>5
  <2> QED
    BY <2>1, <2>2, <2>3
<1>8. \A p, r \in Ports : bus'[p] = bus'[r] /\ bus'[p] # None => p = r
  BY <1>1, <1>6 DEF Plugged
<1>9. \A p \in Ports : DOMAIN names'[p] = IF bus'[p] = None THEN {} ELSE 1 .. Len(bus'[p].interfaces)
  <2> SUFFICES ASSUME NEW p \in Ports
               PROVE  DOMAIN names'[p] = IF bus'[p] = None THEN {} ELSE 1 .. Len(bus'[p].interfaces)
    OBVIOUS
  <2>1. CASE p = q
    BY <1>3, <1>4, <1>6, <2>1
  <2>2. CASE p # q
    BY <1>6, <2>2 DEF Plugged
  <2> QED
    BY <2>1, <2>2
<1>10. \A p \in Ports : \A i \in DOMAIN names'[p] : names'[p][i] \in KindThen
  <2> SUFFICES ASSUME NEW p \in Ports, NEW i \in DOMAIN names'[p]
               PROVE  names'[p][i] \in KindThen
    OBVIOUS
  <2>1. CASE p = q
    <3>1. new[i] \in IF system = "mac" THEN {plugs} \X Nat ELSE Nat
      BY <1>4, <1>6, <2>1
    <3>2. {plugs} \subseteq 0 .. plugs
      BY <1>5
    <3> QED
      BY <1>6, <2>1, <3>1, <3>2
  <2>2. CASE p # q
    <3>1. names[p][i] \in Kind
      BY <1>6, <2>2 DEF Plugged
    <3>2. 0 .. plugs - 1 \subseteq 0 .. plugs
      BY <1>5
    <3> QED
      BY <1>6, <2>2, <3>1, <3>2
  <2> QED
    BY <2>1, <2>2
<1>11. ASSUME NEW p \in Ports, NEW r \in Ports, NEW i \in DOMAIN names'[p], NEW j \in DOMAIN names'[r],
              names'[p][i] = names'[r][j]
       PROVE  p = r /\ i = j
  <2>1. \A x \in Ports : \A k \in DOMAIN names[x] : names[x][k] \in Used
    BY DEF Used
  <2>2. CASE p = q /\ r = q
    BY <1>4, <1>6, <1>11, <2>2
  <2>3. CASE p = q /\ r # q
    BY <1>4, <1>6, <1>11, <2>1, <2>3
  <2>4. CASE p # q /\ r = q
    BY <1>4, <1>6, <1>11, <2>1, <2>4
  <2>5. CASE p # q /\ r # q
    BY <1>6, <1>11, <2>5 DEF Plugged
  <2> QED
    BY <2>2, <2>3, <2>4, <2>5
<1>12. KindThen = IF system' = "mac" THEN (0 .. plugs' - 1) \X Nat ELSE Nat
  BY <1>2, <1>5
<1> HIDE DEF KindThen
<1>13. \A p, r \in Ports : \A i \in DOMAIN names'[p], j \in DOMAIN names'[r] :
         names'[p][i] = names'[r][j] => p = r /\ i = j
  BY <1>11
<1> QED
  BY ONLY <1>7, <1>8, <1>9, <1>10, <1>12, <1>13 DEF Plugged

LEMMA PullOutPlugged ==
  ASSUME Plugged, PullOut
  PROVE  Plugged'
<1>1. PICK q \in Ports : /\ bus[q] # None
                         /\ bus' = [bus EXCEPT ![q] = None]
                         /\ names' = [names EXCEPT ![q] = <<>>]
  BY DEF PullOut
<1>2. plugs' = plugs /\ system' = system
  BY DEF PullOut
<1>3. bus \in [Ports -> Devices \cup {None}] /\ DOMAIN names = Ports /\ plugs \in Nat
  BY DEF Plugged
<1>4. /\ bus'[q] = None /\ DOMAIN names'[q] = {}
      /\ \A p \in Ports : p # q => bus'[p] = bus[p] /\ names'[p] = names[p]
  <2>1. bus'[q] = None /\ names'[q] = <<>>
    BY <1>1, <1>3
  <2>2. \A p \in Ports : p # q => bus'[p] = bus[p] /\ names'[p] = names[p]
    BY <1>1, <1>3
  <2>3. DOMAIN <<>> = {}
    OBVIOUS
  <2> QED
    BY <2>1, <2>2, <2>3
<1>5. bus' \in [Ports -> Devices \cup {None}] /\ DOMAIN names' = Ports
  BY <1>1, <1>3
<1>6. \A p \in Ports : DOMAIN names'[p] = IF bus'[p] = None THEN {} ELSE 1 .. Len(bus'[p].interfaces)
  <2> SUFFICES ASSUME NEW p \in Ports
               PROVE  DOMAIN names'[p] = IF bus'[p] = None THEN {} ELSE 1 .. Len(bus'[p].interfaces)
    OBVIOUS
  <2>1. CASE p = q
    BY <1>4, <2>1
  <2>2. CASE p # q
    BY <1>4, <2>2 DEF Plugged
  <2> QED
    BY <2>1, <2>2
<1>7. \A p \in Ports : \A i \in DOMAIN names'[p] :
        names'[p][i] \in IF system' = "mac" THEN (0 .. plugs' - 1) \X Nat ELSE Nat
  <2> SUFFICES ASSUME NEW p \in Ports, NEW i \in DOMAIN names'[p]
               PROVE  names'[p][i] \in IF system' = "mac" THEN (0 .. plugs' - 1) \X Nat ELSE Nat
    OBVIOUS
  <2>1. names'[p] = names[p]
    BY <1>4
  <2>2. names[p][i] \in IF system = "mac" THEN (0 .. plugs - 1) \X Nat ELSE Nat
    BY <2>1 DEF Plugged
  <2> QED
    BY <1>2, <2>1, <2>2
<1>8. ASSUME NEW p \in Ports, NEW r \in Ports, NEW i \in DOMAIN names'[p], NEW j \in DOMAIN names'[r],
             names'[p][i] = names'[r][j]
      PROVE  p = r /\ i = j
  <2>1. p # q /\ r # q
    BY <1>4, <1>8
  <2> QED
    BY <1>4, <1>8, <2>1 DEF Plugged
<1>9. \A p, r \in Ports : bus'[p] = bus'[r] /\ bus'[p] # None => p = r
  BY <1>4 DEF Plugged
<1> QED
  BY <1>2, <1>3, <1>5, <1>6, <1>7, <1>8, <1>9 DEF Plugged

LEMMA ListKept ==
  ASSUME Listed, UNCHANGED <<list, wanted>>, \A e, dev : Leads(e, dev) => LeadsThen(e, dev)
  PROVE  Listed'
<1>1. Filter' = Filter
  BY DEF Filter
<1>2. Listed' <=> /\ Len(list') \in Nat
                  /\ \A n \in 1 .. Len(list') : \E dev \in Devices :
                       Tells(list'[n], dev) /\ LeadsThen(list'[n], dev) /\ Matches(Filter[1], Filter[2], dev)
  BY <1>1 DEF Listed, Leads, LeadsThen
<1>3. /\ Len(list) \in Nat
      /\ \A n \in 1 .. Len(list) : \E dev \in Devices :
           Tells(list[n], dev) /\ LeadsThen(list[n], dev) /\ Matches(Filter[1], Filter[2], dev)
  BY DEF Listed
<1> QED
  BY <1>2, <1>3

(* A device that comes may be given the path of one that has gone, but not *)
(* by macOS, nor by Windows unless it has the same ids.                    *)
LEMMA PlugInLeads ==
  ASSUME Plugged, PlugIn, at = "listed", NEW e, NEW dev, Leads(e, dev)
  PROVE  LeadsThen(e, dev)
<1>1. PICK q \in Ports, new \in Devices :
        /\ bus[q] = None
        /\ bus' = [bus EXCEPT ![q] = new]
        /\ names' = [names EXCEPT ![q] = NewNames(Len(new.interfaces))]
  BY DEF PlugIn
<1>2. plugs' = plugs + 1 /\ system' = system /\ swapped' = TRUE /\ plugs \in Nat /\ system \in Systems
  BY DEF PlugIn, Plugged
<1>3. bus \in [Ports -> Devices \cup {None}] /\ DOMAIN names = Ports
  BY DEF Plugged
<1>4. /\ bus'[q] = new /\ names'[q] = NewNames(Len(new.interfaces))
      /\ \A p \in Ports : p # q => bus'[p] = bus[p] /\ names'[p] = names[p]
  BY <1>1, <1>3
<1>5. ASSUME NEW p \in Ports, bus'[p] # None, NEW i \in 1 .. Len(bus'[p].interfaces),
             IsPrefix(Path(p, i)', e.path)
      PROVE  bus'[p] = dev \/ Reused(system, bus'[p], dev)
  <2>1. CASE p # q
    <3>1. bus'[p] = bus[p] /\ names'[p] = names[p]
      BY <1>4, <2>1
    <3>2. Path(p, i)' = Path(p, i)
      BY <1>2, <3>1, PathKept
    <3>3. IsPrefix(Path(p, i), e.path) /\ bus[p] # None /\ i \in 1 .. Len(bus[p].interfaces)
      BY <1>5, <3>1, <3>2
    <3> QED
      BY <3>1, <3>3 DEF Leads
  <2>2. CASE p = q /\ system = "windows"
    <3> DEFINE there == bus'[q]
               last == Number(q)'
               S == {there.bus, there.vid, there.pid, i, there.serial, last}
    <3>1. Path(p, i)' = <<there.bus, there.vid, there.pid, i, there.serial, last>>
      BY <1>2, <2>2 DEF Path, Number
    <3>2. Len(Path(p, i)') = 6 /\ Path(p, i)'[2] = there.vid /\ Path(p, i)'[3] = there.pid
      <4>1. /\ there.bus \in S /\ there.vid \in S /\ there.pid \in S
            /\ i \in S /\ there.serial \in S /\ last \in S
        OBVIOUS
      <4> HIDE DEF there, last, S
      <4> QED
        BY <3>1, <4>1, SixParts
    <3> DEFINE path == Path(p, i)'
    <3>3. IsPrefix(path, e.path) /\ Len(path) \in Nat /\ 2 \in 1 .. Len(path) /\ 3 \in 1 .. Len(path)
      BY <1>5, <3>2
    <3>4. path[2] = e.path[2] /\ path[3] = e.path[3]
      <4> HIDE DEF path
      <4> QED
        BY <3>3, PrefixIs
    <3>5. HasIds(e.path, dev)
      BY <2>2 DEF Leads
    <3> QED
      BY <2>2, <3>2, <3>4, <3>5 DEF HasIds, Reused
  <2>3. CASE p = q /\ system = "mac"
    <3> DEFINE path == Path(p, i)'
               name == NewNames(Len(new.interfaces))[i]
    <3>1. Len(new.interfaces) \in Nat /\ i \in 1 .. Len(new.interfaces)
      BY <1>4, <1>5, <2>3, InterfacesAssumption
    <3>2. name \in {plugs} \X Nat
      BY <2>3, <3>1, NewNamesIs
    <3>3. path = <<name>>
      BY <1>2, <1>4, <2>3 DEF Path
    <3>4. Len(path) \in Nat /\ 1 \in 1 .. Len(path) /\ path[1] = name /\ IsPrefix(path, e.path)
      <4> HIDE DEF name
      <4> QED
        BY <1>5, <3>3
    <3>5. e.path[1] = name
      <4> HIDE DEF path, name
      <4> QED
        BY <3>4, PrefixIs
    <3>6. e.path[1] \in (0 .. plugs - 1) \X Nat
      BY <2>3 DEF Leads, NameBefore
    <3>7. plugs \notin 0 .. plugs - 1
      BY <1>2
    <3> QED
      BY <3>2, <3>5, <3>6, <3>7
  <2>4. CASE system \in {"libusb", "linux", "netbsd"}
    BY <2>4 DEF Reused
  <2> QED
    BY <1>2, <2>1, <2>2, <2>3, <2>4 DEF Systems
<1>6. system' = "mac" => NameBefore(e.path, plugs')
  <2>1. 0 .. plugs - 1 \subseteq 0 .. plugs' - 1
    BY <1>2
  <2>2. system = "mac" => NameBefore(e.path, plugs)
    BY DEF Leads
  <2> QED
    BY <1>2, <2>1, <2>2 DEF NameBefore
<1>7. system' = "windows" => HasIds(e.path, dev)
  BY <1>2 DEF Leads
<1> QED
  BY <1>2, <1>5, <1>6, <1>7 DEF LeadsThen

LEMMA PullOutLeads ==
  ASSUME Plugged, PullOut, NEW e, NEW dev, Leads(e, dev)
  PROVE  LeadsThen(e, dev)
<1>1. PICK q \in Ports : /\ bus' = [bus EXCEPT ![q] = None]
                         /\ names' = [names EXCEPT ![q] = <<>>]
  BY DEF PullOut
<1>2. plugs' = plugs /\ system' = system /\ swapped' = swapped
  BY DEF PullOut
<1>3. bus'[q] = None /\ \A p \in Ports : p # q => bus'[p] = bus[p] /\ names'[p] = names[p]
  BY <1>1 DEF Plugged
<1>4. ASSUME NEW p \in Ports, bus'[p] # None, NEW i \in 1 .. Len(bus'[p].interfaces),
             IsPrefix(Path(p, i)', e.path)
      PROVE  bus'[p] = dev \/ (swapped' /\ Reused(system', bus'[p], dev))
  <2>1. bus'[p] = bus[p] /\ names'[p] = names[p]
    BY <1>3, <1>4
  <2>2. Path(p, i)' = Path(p, i)
    BY <1>2, <2>1, PathKept
  <2>3. IsPrefix(Path(p, i), e.path) /\ bus[p] # None /\ i \in 1 .. Len(bus[p].interfaces)
    BY <1>4, <2>1, <2>2
  <2>4. bus[p] = dev \/ (swapped /\ Reused(system, bus[p], dev))
    BY <2>3 DEF Leads
  <2> QED
    BY <1>2, <2>1, <2>4
<1>5. system' = "mac" => NameBefore(e.path, plugs')
  BY <1>2 DEF Leads
<1>6. system' = "windows" => HasIds(e.path, dev)
  BY <1>2 DEF Leads
<1> QED
  BY <1>4, <1>5, <1>6 DEF LeadsThen

-----------------------------------------------------------------------------
(* What is opened. *)

(* The first entry that is wanted, and its path.                           *)
LEMMA FirstPathIs ==
  ASSUME Len(list) \in Nat, NEW found \in SUBSET (1 .. Len(list)), found # {}
  PROVE  Min(found) \in found /\ Min(found) \in 1 .. Len(list)
<1>1. found \subseteq Nat
  OBVIOUS
<1>2. Min(found) \in found
  BY <1>1, SomeLeast
<1> QED
  BY <1>2

LEMMA OpenWanted ==
  ASSUME EnumInv, OpenPath
  PROVE  OpenedIsWanted'
<1>1. Listed /\ Len(list) \in Nat /\ at = "listed"
  BY DEF EnumInv, OpenPath, Listed
<1>2. UNCHANGED <<system, wanted, swapped>> /\ Filter' = Filter
  BY DEF OpenPath, Filter
<1> DEFINE path == CASE wanted.product = Null -> PathToOpen
                     [] wanted.product # Null /\ wanted.serial = Null -> GetPathByName
                     [] OTHER -> GetPathByNameAndSerial
           Suits(e) == CASE wanted.product = Null ->
                              wanted.serial # Null => e.serial = wanted.serial
                         [] wanted.product # Null /\ wanted.serial = Null ->
                              StringOf(e.product) = wanted.product
                         [] OTHER -> /\ StringOf(e.product) = wanted.product
                                     /\ StringOf(e.serial) = wanted.serial
<1>3. ASSUME path # Null
      PROVE  \E n \in 1 .. Len(list) : path = list[n].path /\ Suits(list[n])
  <2>1. CASE wanted.product = Null
    <3> DEFINE found == {n \in 1 .. Len(list) :
                           /\ list[n].vid = wanted.vid /\ list[n].pid = wanted.pid
                           /\ wanted.serial # Null => list[n].serial = wanted.serial}
    <3>1. path = IF found = {} THEN Null ELSE list[Min(found)].path
      BY <2>1 DEF PathToOpen, FirstPath
    <3>2. Min(found) \in found /\ Min(found) \in 1 .. Len(list)
      BY <1>1, <1>3, <3>1, FirstPathIs
    <3> QED
      BY <1>3, <2>1, <3>1, <3>2
  <2>2. CASE wanted.product # Null /\ wanted.serial = Null
    <3> DEFINE found == {n \in 1 .. Len(list) : StringOf(list[n].product) = wanted.product}
    <3>1. path = IF found = {} THEN Null ELSE list[Min(found)].path
      BY <2>2 DEF GetPathByName, FirstPath
    <3>2. Min(found) \in found /\ Min(found) \in 1 .. Len(list)
      BY <1>1, <1>3, <3>1, FirstPathIs
    <3> QED
      BY <1>3, <2>2, <3>1, <3>2
  <2>3. CASE wanted.product # Null /\ wanted.serial # Null
    <3> DEFINE found == {n \in 1 .. Len(list) : /\ StringOf(list[n].product) = wanted.product
                                                /\ StringOf(list[n].serial) = wanted.serial}
    <3>1. path = IF found = {} THEN Null ELSE list[Min(found)].path
      BY <2>3 DEF GetPathByNameAndSerial, FirstPath
    <3>2. Min(found) \in found /\ Min(found) \in 1 .. Len(list)
      BY <1>1, <1>3, <3>1, FirstPathIs
    <3> QED
      BY <1>3, <2>3, <3>1, <3>2
  <2> QED
    BY <2>1, <2>2, <2>3
<1>4. wanted.product = Null \/ wanted.product \in STRING \ {""}
  BY DEF EnumInv
<1>5. SUFFICES ASSUME opened' # None
               PROVE  OpenedIsWanted'
  BY DEF OpenedIsWanted
<1>6. PICK p \in Ports : /\ opened' = bus[p] /\ bus[p] # None
                        /\ \E i \in 1 .. Len(bus[p].interfaces) :
                             path # Null /\ IsPrefix(Path(p, i), path)
  BY <1>5 DEF OpenPath
<1>7. PICK i \in 1 .. Len(bus[p].interfaces) : path # Null /\ IsPrefix(Path(p, i), path)
  BY <1>6
<1>8. PICK n \in 1 .. Len(list) : path = list[n].path /\ Suits(list[n])
  BY <1>3, <1>7
<1>9. PICK dev \in Devices :
        Tells(list[n], dev) /\ Leads(list[n], dev) /\ Matches(Filter[1], Filter[2], dev)
  BY <1>1, <1>8 DEF Listed
<1>10. bus[p] = dev \/ (swapped /\ Reused(system, bus[p], dev))
  <2> HIDE DEF path
  <2>1. IsPrefix(Path(p, i), list[n].path)
    BY <1>7, <1>8
  <2> QED
    BY <1>6, <1>9, <2>1 DEF Leads
<1>11. wanted.product \in {Null, dev.product} /\ wanted.serial \in {Null, dev.serial}
  <2> DEFINE e == list[n]
  <2>1. /\ e.product \in {dev.product, Null} /\ e.serial \in {dev.serial, Null}
        /\ e.product # Null /\ e.serial = Null => dev.serial = ""
    BY <1>9 DEF Tells
  <2> HIDE DEF e, path
  <2>2. Suits(e)
    BY <1>8 DEF e
  <2>3. CASE wanted.product = Null
    BY <2>1, <2>2, <2>3
  <2>4. CASE wanted.product # Null /\ wanted.serial = Null
    BY <1>4, <2>1, <2>2, <2>4 DEF StringOf
  <2>5. CASE wanted.product # Null /\ wanted.serial # Null
    <3>1. StringOf(e.product) = wanted.product /\ StringOf(e.serial) = wanted.serial
      BY <2>2, <2>5
    <3>2. e.product # Null /\ wanted.product = dev.product
      BY <1>4, <2>1, <2>5, <3>1 DEF StringOf
    <3> QED
      BY <2>1, <3>1, <3>2 DEF StringOf
  <2> QED
    BY <2>3, <2>4, <2>5
<1>12. CASE bus[p] = dev
  <2>1. IsWanted(opened)'
    BY <1>2, <1>6, <1>9, <1>11, <1>12 DEF IsWanted
  <2> QED
    BY <2>1 DEF OpenedIsWanted
<1>13. CASE swapped /\ Reused(system, bus[p], dev)
  <2>1. CASE system \in {"libusb", "linux", "netbsd"}
    BY <1>2, <1>13, <2>1 DEF OpenedIsWanted
  <2>2. CASE system = "windows" /\ bus[p].vid = dev.vid /\ bus[p].pid = dev.pid
    <3>1. Matches(Filter[1], Filter[2], bus[p])
      BY <1>9, <2>2 DEF Matches
    <3> QED
      BY <1>2, <1>6, <1>13, <2>2, <3>1 DEF OpenedIsWanted
  <2> QED
    BY <1>13, <2>1, <2>2 DEF Reused
<1> QED
  BY <1>10, <1>12, <1>13

-----------------------------------------------------------------------------

LEMMA StillPlugged ==
  ASSUME Plugged, UNCHANGED <<system, bus, names, plugs>>
  PROVE  Plugged'
BY DEF Plugged

LEMMA EnumKept ==
  ASSUME EnumInv, UNCHANGED <<system, bus, names, plugs, swapped, opened>>, at = "idle", at' = "listed",
         Listed', wanted'.product = Null \/ wanted'.product \in STRING \ {""}
  PROVE  EnumInv'
<1>1. Plugged'
  BY StillPlugged DEF EnumInv
<1>2. opened' = None
  BY DEF EnumInv
<1> QED
  BY <1>1, <1>2 DEF EnumInv, OpenedIsWanted

LEMMA InitEnum ==
  ASSUME EnumInit, system \in Systems
  PROVE  EnumInv
<1>1. Plugged
  <2>1. bus = [p \in Ports |-> None] /\ names = [p \in Ports |-> <<>>] /\ plugs = 0
    BY DEF EnumInit
  <2>2. \A p \in Ports : bus[p] = None /\ DOMAIN names[p] = {}
    <3>1. DOMAIN <<>> = {}
      OBVIOUS
    <3> QED
      BY <2>1, <3>1
  <2> QED
    BY <2>1, <2>2 DEF Plugged
<1>2. at = "idle" /\ wanted.product = Null /\ swapped = FALSE /\ opened = None
  BY DEF EnumInit, Nobody
<1> QED
  BY <1>1, <1>2 DEF EnumInv, OpenedIsWanted

LEMMA ListingIs ==
  ASSUME HidOpen \/ UpdateDeviceList
  PROVE  /\ \E vid, pid : Enumerate(vid, pid) /\ Filter' = <<vid, pid>>
         /\ wanted'.product = Null \/ wanted'.product \in STRING \ {""}
<1>1. CASE HidOpen
  <2>1. PICK vid, pid, serial :
          /\ wanted' = [Nobody EXCEPT !.vid = vid, !.pid = pid, !.serial = serial]
          /\ Enumerate(vid, pid)
    BY <1>1 DEF HidOpen
  <2>2. wanted'.product = Null /\ wanted'.vid = vid /\ wanted'.pid = pid
    BY <2>1 DEF Nobody
  <2>3. Filter' = <<vid, pid>>
    BY <2>2 DEF Filter
  <2> QED
    BY <2>1, <2>2, <2>3
<1>2. CASE UpdateDeviceList
  <2>1. PICK dev \in Devices : \E serial :
          wanted' = [Nobody EXCEPT !.product = dev.product, !.serial = serial]
    BY <1>2 DEF UpdateDeviceList
  <2>2. wanted'.product = dev.product /\ dev.product \in STRING \ {""} /\ Null \notin STRING
    BY <2>1, EnumerationAssumption DEF Nobody
  <2>3. Filter' = <<ToolbitVid, ToolbitPid>> /\ Enumerate(ToolbitVid, ToolbitPid)
    BY <1>2, <2>2 DEF Filter, UpdateDeviceList
  <2> QED
    BY <2>2, <2>3
<1> QED
  BY <1>1, <1>2

LEMMA EnumStep ==
  ASSUME EnumInv, EnumNext
  PROVE  EnumInv'
<1>1. Plugged
  BY DEF EnumInv
<1>2. CASE PlugIn
  <2>1. Plugged'
    BY <1>1, <1>2, PlugInPlugged
  <2>2. at # "opened" /\ swapped' = (at = "listed") /\ UNCHANGED <<at, wanted, list, opened>>
    BY <1>2 DEF PlugIn
  <2>3. at' = "listed" => Listed'
    <3> SUFFICES ASSUME at = "listed" PROVE Listed'
      BY <2>2
    <3>1. \A e, dev : Leads(e, dev) => LeadsThen(e, dev)
      BY <1>1, <1>2, PlugInLeads
    <3>2. Listed
      BY DEF EnumInv
    <3> QED
      BY <2>2, <3>1, <3>2, ListKept
  <2> QED
    BY <2>1, <2>2, <2>3 DEF EnumInv, OpenedIsWanted
<1>3. CASE PullOut
  <2>1. Plugged'
    BY <1>1, <1>3, PullOutPlugged
  <2>2. at # "opened" /\ UNCHANGED <<at, wanted, list, swapped, opened>>
    BY <1>3 DEF PullOut
  <2>3. at' = "listed" => Listed'
    <3> SUFFICES ASSUME at = "listed" PROVE Listed'
      BY <2>2
    <3>1. \A e, dev : Leads(e, dev) => LeadsThen(e, dev)
      BY <1>1, <1>3, PullOutLeads
    <3>2. Listed
      BY DEF EnumInv
    <3> QED
      BY <2>2, <3>1, <3>2, ListKept
  <2> QED
    BY <2>1, <2>2, <2>3 DEF EnumInv, OpenedIsWanted
<1>4. CASE HidOpen \/ UpdateDeviceList
  <2>1. PICK vid, pid : Enumerate(vid, pid) /\ Filter' = <<vid, pid>>
    BY <1>4, ListingIs
  <2>2. Listed'
    BY <1>1, <2>1, NewList
  <2>3. at' = "listed" /\ UNCHANGED <<system, bus, names, plugs, swapped, opened>> /\ at = "idle"
    BY <1>4, <2>1 DEF Enumerate, HidOpen, UpdateDeviceList
  <2>4. wanted'.product = Null \/ wanted'.product \in STRING \ {""}
    BY <1>4, ListingIs
  <2> QED
    BY <2>2, <2>3, <2>4, EnumKept
<1>5. CASE OpenPath
  <2>1. OpenedIsWanted'
    BY <1>5, OpenWanted
  <2>2. Plugged'
    BY <1>1, <1>5, StillPlugged DEF OpenPath
  <2> QED
    BY <1>5, <2>1, <2>2 DEF EnumInv, OpenPath
<1>6. CASE Done
  <2>1. Plugged'
    BY <1>1, <1>6, StillPlugged DEF Done
  <2> QED
    BY <1>6, <2>1 DEF EnumInv, Done, OpenedIsWanted, Nobody
<1> QED
  BY <1>2, <1>3, <1>4, <1>5, <1>6 DEF EnumNext

LEMMA EnumUnchanged ==
  ASSUME EnumInv, UNCHANGED enumVars
  PROVE  EnumInv'
<1>1. /\ UNCHANGED <<system, bus, names, plugs, swapped>> /\ UNCHANGED <<list, wanted>>
      /\ UNCHANGED <<at, opened>>
  BY DEF enumVars
<1>2. Plugged'
  BY <1>1, StillPlugged DEF EnumInv
<1>3. at' = "listed" => Listed'
  <2> SUFFICES ASSUME at = "listed" PROVE Listed'
    BY <1>1
  <2>1. \A e, dev : Leads(e, dev) => LeadsThen(e, dev)
    BY <1>1, LeadsKept
  <2>2. Listed
    BY DEF EnumInv
  <2> QED
    BY <1>1, <2>1, <2>2, ListKept
<1>4. OpenedIsWanted'
  <2>1. Filter' = Filter
    BY <1>1 DEF Filter
  <2>2. OpenedIsWanted
    BY DEF EnumInv
  <2> QED
    BY <1>1, <2>1, <2>2 DEF OpenedIsWanted, IsWanted
<1> QED
  BY <1>1, <1>2, <1>3, <1>4 DEF EnumInv

(* The TbiDeviceManager, and hid_open, open what they look for: the path   *)
(* that they take from the list leads to the device that it was listed     *)
(* for, unless another has been plugged in since and was given the same.   *)
THEOREM OpenedIsWantedAlways == Spec => []OpenedIsWanted
<1>1. Init => EnumInv
  BY InitEnum DEF Init, Systems
<1>2. EnumInv /\ [Next]_vars => EnumInv'
  <2> SUFFICES ASSUME EnumInv, [Next]_vars
               PROVE  EnumInv'
    OBVIOUS
  <2>1. EnumNext \/ UNCHANGED enumVars
    BY DEF Next, vars
  <2> QED
    BY <2>1, EnumStep, EnumUnchanged
<1>3. EnumInv => OpenedIsWanted
  BY DEF EnumInv
<1> QED
  BY <1>1, <1>2, <1>3, PTL DEF Spec

-----------------------------------------------------------------------------
(* What the list is made of. *)

LEMMA IsPrefixIf ==
  ASSUME NEW S, NEW s \in Seq(S), NEW t \in Seq(S), Len(s) <= Len(t),
         \A k \in 1 .. Len(s) : s[k] = t[k]
  PROVE  IsPrefix(s, t)
<1>1. Len(s) \in Nat /\ Len(t) \in Nat
  OBVIOUS
<1>2. SubSeq(s, 1, Len(s)) = SubSeq(t, 1, Len(s))
  BY <1>1
<1> QED
  BY <1>2 DEF IsPrefix

LEMMA OwnPrefix ==
  ASSUME NEW S, NEW s \in Seq(S), NEW n
  PROVE  IsPrefix(s, s) /\ IsPrefix(s, s \o <<n>>)
<1> DEFINE T == S \cup {n}
<1>1. s \in Seq(T) /\ <<n>> \in Seq(T) /\ Len(<<n>>) = 1
  <2>1. S \subseteq T /\ n \in T
    OBVIOUS
  <2> HIDE DEF T
  <2> QED
    BY <2>1
<1> HIDE DEF T
<1>2. Len(s) \in Nat
  OBVIOUS
<1>3. IsPrefix(s, s)
  BY <1>2, IsPrefixIf
<1>4. /\ s \o <<n>> \in Seq(T) /\ Len(s \o <<n>>) = Len(s) + 1
      /\ \A k \in 1 .. Len(s) : (s \o <<n>>)[k] = s[k]
  BY <1>1, JoinedIs
<1> DEFINE longer == s \o <<n>>
<1>5. IsPrefix(s, longer)
  <2>1. Len(s) <= Len(longer)
    BY <1>2, <1>4
  <2>2. longer \in Seq(T) /\ \A k \in 1 .. Len(s) : s[k] = longer[k]
    BY <1>4
  <2> HIDE DEF longer
  <2> QED
    BY <1>1, <2>1, <2>2, IsPrefixIf
<1> QED
  BY <1>3, <1>5

LEMMA PathIsSequence ==
  ASSUME NEW p, NEW i
  PROVE  \E S : Path(p, i) \in Seq(S)
<1>1. CASE system = "windows"
  BY <1>1, WindowsPath
<1>2. CASE system = "libusb"
  <2>1. Path(p, i) = <<p, i>>
    BY <1>2, UsbPath
  <2>2. <<p, i>> \in Seq({p, i})
    OBVIOUS
  <2> QED
    BY <2>1, <2>2
<1>3. CASE system \notin {"libusb", "windows"}
  <2>1. Path(p, i) = <<names[p][i]>>
    BY <1>3, NamedPath
  <2> DEFINE name == names[p][i]
  <2>2. <<name>> \in Seq({name})
    OBVIOUS
  <2> QED
    BY <2>1, <2>2
<1> QED
  BY <1>1, <1>2, <1>3

LEMMA EntryLeads ==
  ASSUME NEW p, NEW i, NEW path \in PathsFrom(p, i)
  PROVE  IsPrefix(Path(p, i), path)
<1> DEFINE extended(m) == Path(p, i) \o <<m>>
<1>1. PathsFrom(p, i) = {Path(p, i)} \cup IF system = "windows" THEN {extended(m) : m \in Nat} ELSE {}
  BY DEF PathsFrom
<1>2. path = Path(p, i) \/ \E n \in Nat : path = extended(n)
  <2> HIDE DEF extended
  <2> QED
    BY <1>1
<1>3. IsPrefix(Path(p, i), Path(p, i)) /\ \A n : IsPrefix(Path(p, i), extended(n))
  BY PathIsSequence, OwnPrefix
<1> QED
  BY <1>2, <1>3

(* NothingElse', of what hid_enumerate has left alone.                     *)
LEMMA NewListOnly ==
  ASSUME Plugged, NEW vid, NEW pid, Enumerate(vid, pid), Filter' = <<vid, pid>>
  PROVE  NothingElse'
<1> DEFINE All == UNION {EntriesFor(p) : p \in Passing(vid, pid)}
<1>1. \A p, i : Path(p, i)' = Path(p, i)
  <2>1. UNCHANGED <<system, bus, names>>
    BY DEF Enumerate
  <2> QED
    BY <2>1, PathKept
<1>2. bus' = bus
  BY DEF Enumerate
<1>3. \A n \in 1 .. Len(list') : list'[n] \in All
  <2>1. list' \in Seq(All)
    BY EnumerateIs
  <2> HIDE DEF All
  <2> QED
    BY <2>1
<1>4. ASSUME NEW n \in 1 .. Len(list')
      PROVE  \E p \in Ports :
               /\ bus[p] # None /\ Matches(vid, pid, bus[p])
               /\ list'[n].vid = bus[p].vid /\ list'[n].pid = bus[p].pid
               /\ \E i \in 1 .. Len(bus[p].interfaces) : IsPrefix(Path(p, i), list'[n].path)
  <2> DEFINE e == list'[n]
  <2>1. e \in All
    BY <1>3
  <2> HIDE DEF e
  <2>2. PICK p \in Passing(vid, pid) : e \in EntriesFor(p)
    BY <2>1
  <2>3. p \in Ports /\ bus[p] # None /\ Matches(vid, pid, bus[p])
    BY DEF Passing
  <2>4. PICK i \in 1 .. Len(bus[p].interfaces) : e \in EntriesFrom(p, i)
    BY <2>2 DEF EntriesFor
  <2>5. PICK path \in PathsFrom(p, i) : e.path = path /\ e.vid = bus[p].vid /\ e.pid = bus[p].pid
    BY <2>4 DEF EntriesFrom, Entry
  <2>6. IsPrefix(Path(p, i), e.path)
    BY <2>5, EntryLeads
  <2> QED
    BY <2>3, <2>5, <2>6 DEF e
<1>5. \A p : Matches(vid, pid, bus[p]) => <<vid, pid>> \in {0, bus[p].vid} \X {0, bus[p].pid}
  BY DEF Matches
<1> QED
  BY <1>1, <1>2, <1>4, <1>5 DEF NothingElse

LEMMA SameList ==
  ASSUME NothingElse, UNCHANGED enumVars
  PROVE  NothingElse'
<1>1. \A p, i : Path(p, i)' = Path(p, i)
  <2>1. UNCHANGED <<system, bus, names>>
    BY DEF enumVars
  <2> QED
    BY <2>1, PathKept
<1>2. UNCHANGED <<bus, list, wanted>>
  BY DEF enumVars
<1>3. Filter' = Filter
  BY <1>2 DEF Filter
<1> QED
  BY <1>1, <1>2, <1>3 DEF NothingElse

(* The half of ListIsComplete that needs no descriptor: hid_enumerate      *)
(* lists nothing but what passes its filter, and the path of an entry      *)
(* leads to one of the interfaces of the device with its ids.              *)
THEOREM NothingElseAlways == Spec => [](at = "listed" /\ ~changed => NothingElse)
<1> DEFINE Only == at = "listed" /\ ~changed => NothingElse
<1>1. Init => EnumInv /\ Only
  <2>1. Init => EnumInv
    BY InitEnum DEF Init, Systems
  <2> QED
    BY <2>1 DEF Init, EnumInit
<1>2. EnumInv /\ Only /\ [Next]_vars => (EnumInv /\ Only)'
  <2> SUFFICES ASSUME EnumInv, Only, [Next]_vars
               PROVE  EnumInv' /\ Only'
    OBVIOUS
  <2>1. EnumNext \/ UNCHANGED enumVars
    BY DEF Next, vars
  <2>2. EnumInv'
    BY <2>1, EnumStep, EnumUnchanged
  <2>3. Plugged
    BY DEF EnumInv
  <2>4. CASE PlugIn \/ PullOut
    <3>1. at' = at /\ changed' = (at = "listed")
      BY <2>4 DEF PlugIn, PullOut
    <3> QED
      BY <2>2, <3>1
  <2>5. CASE HidOpen \/ UpdateDeviceList
    <3>1. PICK vid, pid : Enumerate(vid, pid) /\ Filter' = <<vid, pid>>
      BY <2>5, ListingIs
    <3> QED
      BY <2>2, <2>3, <3>1, NewListOnly
  <2>6. CASE OpenPath \/ Done
    BY <2>2, <2>6 DEF OpenPath, Done
  <2>7. CASE UNCHANGED enumVars
    <3>1. at' = at /\ changed' = changed
      BY <2>7 DEF enumVars
    <3> QED
      BY <2>2, <2>7, <3>1, SameList
  <2> QED
    BY <2>1, <2>4, <2>5, <2>6, <2>7 DEF EnumNext
<1> QED
  BY <1>1, <1>2, PTL DEF Spec

-----------------------------------------------------------------------------
(* What an interface is listed with. *)

LEMMA ButFirst ==
  ASSUME NEW S, NEW seqs \in Seq(Seq(S)), Len(seqs) # 0, seqs[1] = <<>>,
         \A k \in 2 .. Len(seqs) : Len(seqs[k]) = 1
  PROVE  /\ FlattenSeq(seqs) \in Seq(S) /\ Len(FlattenSeq(seqs)) = Len(seqs) - 1
         /\ \A k \in 2 .. Len(seqs) : FlattenSeq(seqs)[k - 1] = seqs[k][1]
<1> DEFINE n == Len(seqs)
           flat == FlattenSeq(seqs)
           L(k) == Len(seqs[k])
<1>1. n \in Nat /\ n # 0 /\ 1 \in 1 .. n /\ 1 \in Nat
  OBVIOUS
<1>2. PICK p : Offsets(p, seqs)
  BY FlattenAt
<1>3. /\ p[0] = 0 /\ p[n] = Len(flat) /\ \A k \in 1 .. n : p[k] = p[k - 1] + L(k)
  BY <1>2 DEF Offsets
<1>4. L(1) = 0 /\ \A k \in 2 .. n : L(k) = 1
  OBVIOUS
<1> HIDE DEF n, L
<1> DEFINE T == {k \in 1 .. n : p[k] = k - 1}
<1>5. 1 \in T
  <2>1. p[1] = p[1 - 1] + L(1) /\ 1 - 1 = 0
    BY <1>1, <1>3
  <2>2. p[1] = 0
    BY <1>3, <1>4, <2>1
  <2> QED
    BY <1>1, <2>2
<1>6. ASSUME NEW k \in 1 .. n, k + 1 \in 1 .. n, k \in T
      PROVE  k + 1 \in T
  <2>1. k + 1 \in 2 .. n /\ (k + 1) - 1 = k
    BY <1>6
  <2>2. p[k + 1] = p[k] + L(k + 1) /\ L(k + 1) = 1 /\ p[k] = k - 1
    <3> DEFINE m == k + 1
    <3>1. p[m] = p[m - 1] + L(m) /\ L(m) = 1 /\ m - 1 = k
      BY <1>3, <1>4, <1>6, <2>1
    <3> QED
      BY <1>6, <3>1
  <2>3. p[k + 1] = k
    BY <2>2
  <2> QED
    BY <1>6, <2>1, <2>3
<1>7. \A k \in 1 .. n : k \in T
  <2>1. 1 <= n => 1 \in T
    BY <1>5
  <2> HIDE DEF T
  <2> QED
    BY ONLY <1>1, <1>6, <2>1, Upward
<1>8. n \in 1 .. n
  BY <1>1
<1>9. Len(flat) = n - 1
  BY <1>3, <1>7, <1>8
<1>10. flat \in Seq(S)
  BY FlattenIs
<1>11. ASSUME NEW k \in 2 .. n PROVE flat[k - 1] = seqs[k][1]
  <2>1. k \in 1 .. n /\ k - 1 \in 1 .. n /\ L(k) = 1
    BY <1>1, <1>4
  <2>2. p[k - 1] + 1 = k - 1
    <3> DEFINE m == k - 1
    <3>1. m \in Int /\ p[m] = m - 1
      BY <1>7, <2>1
    <3> HIDE DEF m
    <3>2. p[m] + 1 = m
      BY <3>1
    <3> QED
      BY <3>2 DEF m
  <2>3. \A o \in 1 .. Len(seqs[k]) : flat[p[k - 1] + o] = seqs[k][o]
    BY <1>2, <2>1 DEF Offsets, n
  <2>4. 1 \in 1 .. Len(seqs[k])
    BY <2>1 DEF L
  <2>5. flat[p[k - 1] + 1] = seqs[k][1]
    BY <2>3, <2>4
  <2> QED
    BY <2>2, <2>5
<1> QED
  BY <1>9, <1>10, <1>11 DEF n

(* The usages of a proper descriptor.                                      *)
LEMMA ManyUsages ==
  ASSUME NEW s, IsBlock(s), Proper(s)
  PROVE  \E S : TopUsages(s) \in Seq(S) /\ Len(TopUsages(s)) \in Nat \ {0}
<1>1. Len(s) \in Nat
  BY DEF IsBlock
<1>2. PICK S : TopUsages(s) \in Seq(S) /\ Len(TopUsages(s)) = Cardinality(Collections(s))
  BY <1>1, TopUsagesIs
<1> DEFINE c == Min(Collections(s))
           u == TopUsages(s)
<1>3. c \in Collections(s)
  BY <1>1, FirstIs
<1> HIDE DEF c
<1>4. Cardinality(UpTo(s, c)) \in 1 .. Cardinality(Collections(s)) /\ Cardinality(Collections(s)) \in Nat
  BY <1>1, <1>3, RankIs, CollectionsIs
<1>5. Cardinality(Collections(s)) # 0
  BY <1>4
<1> QED
  BY <1>2, <1>4, <1>5

(* The entries that macOS makes for an interface, after the primary one.   *)
Differing(u, entry) == [n \in 1 .. Len(u) |-> IF u[n] = u[1] THEN <<>> ELSE <<entry[n]>>]

FirstAndOthers(u, entry) == <<entry[1]>> \o FlattenSeq(Differing(u, entry))

NoneAgain(u) == \A n \in 2 .. Len(u) : u[n] # u[1]

LEMMA PrimaryFirst ==
  ASSUME NEW S, NEW u, Len(u) \in Nat \ {0}, NoneAgain(u), NEW entry \in Seq(S), Len(entry) = Len(u),
         NEW all, all = FirstAndOthers(u, entry)
  PROVE  Len(all) = Len(u) /\ \A n \in 1 .. Len(u) : all[n] = entry[n]
<1> DEFINE N == Len(u)
           more == Differing(u, entry)
           rest == FlattenSeq(more)
<1>0. more = [n \in 1 .. N |-> IF u[n] = u[1] THEN <<>> ELSE <<entry[n]>>]
  BY DEF Differing
<1> HIDE DEF more
<1>1. N \in Nat /\ N # 0 /\ 1 \in 1 .. N /\ \A n \in 2 .. N : n \in 1 .. N
  OBVIOUS
<1>2. more \in Seq(Seq(S)) /\ Len(more) = N
  <2>1. ASSUME NEW n \in 1 .. N PROVE <<>> \in Seq(S) /\ <<entry[n]>> \in Seq(S)
    <3> DEFINE e == entry[n]
    <3>1. e \in S
      OBVIOUS
    <3> HIDE DEF e
    <3>2. <<>> \in Seq(S) /\ <<e>> \in Seq(S)
      BY ONLY <3>1
    <3> QED
      BY <3>2 DEF e
  <2>2. \A n \in 1 .. N : more[n] \in Seq(S)
    BY <1>0, <2>1
  <2>3. more \in [1 .. N -> Seq(S)]
    BY <1>0, <2>2
  <2> HIDE DEF N
  <2> QED
    BY <1>1, <2>3
<1>3. more[1] = <<>> /\ \A n \in 2 .. N : more[n] = <<entry[n]>>
  BY <1>0, <1>1 DEF NoneAgain
<1> HIDE DEF N
<1>4. ASSUME NEW n \in 2 .. N PROVE Len(more[n]) = 1 /\ more[n][1] = entry[n]
  <2> DEFINE e == entry[n]
  <2>1. more[n] = <<e>>
    BY <1>3
  <2> HIDE DEF e
  <2>2. Len(<<e>>) = 1 /\ <<e>>[1] = e
    OBVIOUS
  <2> QED
    BY <2>1, <2>2 DEF e
<1>5. rest \in Seq(S) /\ Len(rest) = N - 1 /\ \A n \in 2 .. N : rest[n - 1] = entry[n]
  <2>1. Len(more) # 0 /\ \A n \in 2 .. Len(more) : Len(more[n]) = 1
    BY <1>1, <1>2, <1>4
  <2>2. /\ FlattenSeq(more) \in Seq(S) /\ Len(FlattenSeq(more)) = Len(more) - 1
        /\ \A n \in 2 .. Len(more) : FlattenSeq(more)[n - 1] = more[n][1]
    BY ONLY <1>2, <1>3, <2>1, ButFirst
  <2> QED
    BY <1>2, <1>4, <2>2
<1>6. <<entry[1]>> \in Seq(S) /\ Len(<<entry[1]>>) = 1 /\ <<entry[1]>>[1] = entry[1]
  BY <1>1 DEF N
<1> DEFINE first == <<entry[1]>>
<1> HIDE DEF rest
<1>7. /\ Len(all) = Len(first) + Len(rest)
      /\ \A k \in 1 .. Len(first) : all[k] = first[k]
      /\ \A k \in 1 .. Len(rest) : all[Len(first) + k] = rest[k]
  <2>1. first \in Seq(S)
    BY <1>6
  <2>2. all = first \o rest
    BY DEF rest, more, FirstAndOthers
  <2> HIDE DEF first
  <2>3. rest \in Seq(S)
    BY <1>5
  <2> QED
    BY ONLY <2>1, <2>2, <2>3, JoinedIs
<1>8. Len(all) = N
  <2>1. Len(all) = 1 + (N - 1)
    BY <1>5, <1>6, <1>7
  <2> QED
    BY <1>1, <2>1
<1>9. ASSUME NEW n \in 1 .. N PROVE all[n] = entry[n]
  <2>1. CASE n = 1
    BY <1>6, <1>7, <2>1
  <2>2. CASE n # 1
    <3>1. n \in 2 .. N /\ n - 1 \in 1 .. N - 1 /\ 1 + (n - 1) = n
      BY <1>1, <2>2
    <3>2. all[1 + (n - 1)] = rest[n - 1]
      BY <1>5, <1>6, <1>7, <3>1
    <3> QED
      BY <1>5, <3>1, <3>2
  <2> QED
    BY <2>1, <2>2
<1> QED
  BY ONLY <1>8, <1>9 DEF N

LEMMA MeantIs ==
  ASSUME Plugged, NEW p \in Ports, bus[p] # None, bus[p].answers, bus[p].bus = "usb",
         NEW i \in 1 .. Len(bus[p].interfaces),
         NEW interface, interface = bus[p].interfaces[i]
  PROVE  /\ ~IsHid(interface) /\ system # "libusb" => EntriesOf(p, i) = <<>>
         /\ IsHid(interface) /\ Described(interface) =>
              /\ Len(EntriesOf(p, i)) = Len(Meant(interface))
              /\ \A n \in 1 .. Len(Meant(interface)) : EntriesOf(p, i)[n].usage = Meant(interface)[n]
<1>1. ~IsHid(interface) /\ system # "libusb" => EntriesOf(p, i) = <<>>
  BY DEF EntriesOf
<1> SUFFICES ASSUME IsHid(interface), Described(interface)
             PROVE  /\ Len(EntriesOf(p, i)) = Len(Meant(interface))
                    /\ \A n \in 1 .. Len(Meant(interface)) : EntriesOf(p, i)[n].usage = Meant(interface)[n]
  BY <1>1
<1> DEFINE dev == bus[p]
           s == interface.items
           u == TopUsages(s)
           pairs == DeviceUsages(interface.descriptor)
           entry(usage) == Entry(Path(p, i), dev, KeptStrings(dev), i - 1, usage)
<1>2. /\ IsBlock(s) /\ Proper(s) /\ interface.descriptor = BytesOf(s)
      /\ Len(interface.alts) \in Nat \ {0}
  BY InterfaceIs DEF Described
<1>3. Len(u) \in Nat \ {0}
  BY <1>2, ManyUsages
<1>4. pairs = u
  BY <1>2, EveryUsageListed
<1> HIDE DEF s, u, pairs
<1>5. \A usage : entry(usage).usage = usage
  BY DEF Entry
<1>6. system # "libusb" => Meant(interface) = u
  BY DEF Meant, u, s
<1>7. ASSUME EntriesOf(p, i) = [n \in 1 .. Len(u) |-> entry(u[n])], system # "libusb"
      PROVE  /\ Len(EntriesOf(p, i)) = Len(Meant(interface))
             /\ \A n \in 1 .. Len(Meant(interface)) : EntriesOf(p, i)[n].usage = Meant(interface)[n]
  <2> HIDE DEF entry
  <2>1. Len([n \in 1 .. Len(u) |-> entry(u[n])]) = Len(u)
    BY <1>3
  <2> QED
    BY <1>5, <1>6, <1>7, <2>1
<1>8. CASE system = "libusb"
  <2> DEFINE usage == IF Invasive THEN u[1] ELSE <<0, 0>>
             e == Entry(Path(p, i), dev, UsbStrings(dev), i - 1, usage)
  <2>1. EntriesOf(p, i) = UsbEntries(dev, i, Path(p, i))
    BY <1>8 DEF EntriesOf
  <2>2. \E k \in 1 .. Len(interface.alts) : ShouldEnumerate(dev, i, interface.alts[k])
    <3>1. 1 \in 1 .. Len(interface.alts) /\ interface.alts[1] = "hid"
      BY <1>2 DEF IsHid
    <3> QED
      BY <3>1 DEF ShouldEnumerate
  <2>3. GetUsage(interface.descriptor) = u[1]
    BY <1>2, <1>8, FirstUsageListed DEF Described, u, s
  <2>4. EntriesOf(p, i) = <<e>>
    BY <2>1, <2>2, <2>3 DEF UsbEntries
  <2>5. e.usage = usage
    BY DEF Entry
  <2>6. Meant(interface) = <<usage>>
    BY <1>8 DEF Meant, u, s
  <2> HIDE DEF e, usage
  <2>7. Len(<<e>>) = 1 /\ Len(<<usage>>) = 1 /\ <<e>>[1] = e /\ <<usage>>[1] = usage
    OBVIOUS
  <2> QED
    BY <2>4, <2>5, <2>6, <2>7
<1>9. CASE system = "linux"
  <2>1. EntriesOf(p, i) = LinuxEntries(dev, i, Path(p, i), u)
    BY <1>4, <1>9 DEF EntriesOf, HidEntries, pairs
  <2>2. EntriesOf(p, i) = [n \in 1 .. Len(u) |-> entry(u[n])]
    BY <2>1 DEF LinuxEntries, ForEach
  <2> QED
    BY <1>7, <1>9, <2>2
<1>10. CASE system = "netbsd"
  <2> DEFINE unnumbered(usage) == Entry(Path(p, i), dev, KeptStrings(dev), -1, usage)
  <2>1. EntriesOf(p, i) = NetbsdEntries(dev, i, Path(p, i), u)
    BY <1>4, <1>10 DEF EntriesOf, HidEntries, pairs
  <2>2. EntriesOf(p, i) = [n \in 1 .. Len(u) |-> unnumbered(u[n])]
    BY <2>1 DEF NetbsdEntries, ForEach
  <2>3. \A usage : unnumbered(usage).usage = usage
    BY DEF Entry
  <2> HIDE DEF unnumbered
  <2>4. Len([n \in 1 .. Len(u) |-> unnumbered(u[n])]) = Len(u)
    BY <1>3
  <2> QED
    BY <1>6, <1>10, <2>2, <2>3, <2>4
<1>11. CASE system = "mac"
  <2> DEFINE more == [n \in 1 .. Len(u) |-> IF u[n] = u[1] THEN <<>> ELSE <<entry(u[n])>>]
             entries == [n \in 1 .. Len(u) |-> entry(u[n])]
  <2>1. EntriesOf(p, i) = MacEntries(dev, i, Path(p, i), u)
    BY <1>4, <1>11 DEF EntriesOf, HidEntries, pairs
  <2>2. EntriesOf(p, i) = <<entry(u[1])>> \o FlattenSeq(more)
    BY <2>1 DEF MacEntries, ForEach
  <2>3. NoneAgain(u)
    BY <1>11 DEF Described, NoneAgain, u, s
  <2> HIDE DEF entry
  <2>4. /\ 1 \in 1 .. Len(u) /\ entries[1] = entry(u[1])
        /\ more = Differing(u, entries)
    BY <1>3 DEF Differing
  <2> DEFINE S == {entry(u[n]) : n \in 1 .. Len(u)}
  <2>5. entries \in Seq(S) /\ Len(entries) = Len(u)
    BY <1>3
  <2> HIDE DEF more, S
  <2>6. \A n \in 1 .. Len(u) : entries[n] = entry(u[n])
    OBVIOUS
  <2> HIDE DEF entries
  <2> DEFINE all == EntriesOf(p, i)
  <2>7. all = FirstAndOthers(u, entries)
    BY <2>2, <2>4 DEF FirstAndOthers
  <2> HIDE DEF all
  <2>8. Len(all) = Len(u) /\ \A n \in 1 .. Len(u) : all[n] = entries[n]
    BY ONLY <1>3, <2>3, <2>5, <2>7, PrimaryFirst
  <2> QED
    BY <1>5, <1>6, <1>11, <2>6, <2>8 DEF all, entry
<1>12. CASE system = "windows"
  <2> DEFINE own(n) == Entry(Path(p, i) \o <<n>>, dev, KeptStrings(dev), i - 1, u[n])
  <2>1. EntriesOf(p, i) = WindowsEntries(dev, i, Path(p, i), u)
    BY <1>4, <1>12 DEF EntriesOf, HidEntries, pairs
  <2>2. EntriesOf(p, i) = [n \in 1 .. Len(u) |-> own(n)]
    BY <2>1 DEF WindowsEntries
  <2>3. \A n : own(n).usage = u[n]
    BY DEF Entry
  <2> HIDE DEF own
  <2>4. Len([n \in 1 .. Len(u) |-> own(n)]) = Len(u)
    BY <1>3
  <2> QED
    BY <1>6, <1>12, <2>2, <2>3, <2>4
<1> QED
  BY <1>8, <1>9, <1>10, <1>11, <1>12 DEF Plugged, Systems

-----------------------------------------------------------------------------
(* Where in the list an interface has its entries. *)

HasPart(whole, seqs, k) ==
  /\ Len(seqs[k]) \in Nat /\ Len(whole) \in Nat
  /\ \E a \in Nat :
       /\ a + Len(seqs[k]) <= Len(whole)
       /\ \A o \in 1 .. Len(seqs[k]) : whole[a + o] = seqs[k][o]
       /\ \A n \in 1 .. Len(whole) :
            \/ n \in a + 1 .. a + Len(seqs[k])
            \/ \E j \in 1 .. Len(seqs) \ {k} : \E o \in 1 .. Len(seqs[j]) : whole[n] = seqs[j][o]

LEMMA PartIs ==
  ASSUME NEW S, NEW seqs \in Seq(Seq(S)), NEW k \in 1 .. Len(seqs)
  PROVE  HasPart(FlattenSeq(seqs), seqs, k)
<1>1. PICK p : Offsets(p, seqs)
  BY FlattenAt
<1> DEFINE a == p[k - 1]
           l == Len(seqs[k])
           whole == FlattenSeq(seqs)
<1>2. /\ a \in Nat /\ l \in Nat /\ Len(whole) \in Nat /\ a + l <= Len(whole)
      /\ \A o \in 1 .. l : whole[a + o] = seqs[k][o]
  <2>1. seqs \in Seq(Seq(S)) /\ k \in 1 .. Len(seqs)
    OBVIOUS
  <2> QED
    BY ONLY <1>1, <2>1, SegmentIs
<1>3. ASSUME NEW n \in 1 .. Len(whole)
      PROVE  \/ n \in a + 1 .. a + l
             \/ \E j \in 1 .. Len(seqs) \ {k} : \E o \in 1 .. Len(seqs[j]) : whole[n] = seqs[j][o]
  <2>0. PICK j \in 1 .. Len(seqs) : \E o \in 1 .. Len(seqs[j]) : n = p[j - 1] + o /\ whole[n] = seqs[j][o]
    <3>1. seqs \in Seq(Seq(S)) /\ n \in 1 .. Len(FlattenSeq(seqs))
      OBVIOUS
    <3>2. InOneOf(seqs, p, n)
      BY ONLY <1>1, <3>1, InSegment
    <3> QED
      BY <3>2 DEF InOneOf
  <2>1. PICK o \in 1 .. Len(seqs[j]) : n = p[j - 1] + o /\ whole[n] = seqs[j][o]
    BY <2>0
  <2>2. CASE j = k
    <3>1. n = a + o /\ o \in 1 .. l
      BY <2>1, <2>2
    <3> HIDE DEF a, l
    <3>2. n \in a + 1 .. a + l
      BY <1>2, <3>1
    <3> QED
      BY <3>2
  <2>3. CASE j # k
    BY <2>1, <2>3
  <2> QED
    BY <2>2, <2>3
<1> HIDE DEF a, l, whole
<1>4. HasPart(whole, seqs, k)
  BY <1>2, <1>3 DEF HasPart, l
<1> QED
  BY <1>4 DEF whole

(* The entries from s are those of the whole that lead to the interface.   *)
Holds(whole, s, p, i) ==
  \E a \in Nat :
    /\ a + Len(s) <= Len(whole)
    /\ \A o \in 1 .. Len(s) : whole[a + o] = s[o]
    /\ \A n \in 1 .. Len(whole) : n \in a + 1 .. a + Len(s) <=> IsPrefix(Path(p, i), whole[n].path)

LEMMA EntryOf ==
  ASSUME Plugged, NEW p \in Ports, NEW q \in Ports, bus[p] # None, bus[q] # None,
         NEW i \in 1 .. Len(bus[p].interfaces), NEW j \in 1 .. Len(bus[q].interfaces),
         NEW o \in 1 .. Len(EntriesOf(q, j))
  PROVE  IsPrefix(Path(p, i), EntriesOf(q, j)[o].path) <=> p = q /\ i = j
<1> DEFINE s == EntriesOf(q, j)
<1>1. s \in Seq(EntriesFrom(q, j))
  BY EntriesAre
<1> HIDE DEF s
<1>2. s[o] \in EntriesFrom(q, j)
  BY <1>1 DEF s
<1> DEFINE e == s[o]
<1> HIDE DEF e
<1>3. PICK path \in PathsFrom(q, j) : e.path = path
  BY <1>2 DEF e, EntriesFrom, Entry
<1>4. IsPrefix(Path(q, j), path)
  BY EntryLeads
<1>5. IsPrefix(Path(p, i), path) => p = q /\ i = j
  BY SameInterface
<1> QED
  BY <1>3, <1>4, <1>5 DEF e, s

LEMMA PortHolds ==
  ASSUME Plugged, NEW vid, NEW pid, NEW p \in Passing(vid, pid),
         NEW i \in 1 .. Len(bus[p].interfaces)
  PROVE  Holds(InPort(vid, pid, p), EntriesOf(p, i), p, i)
<1> DEFINE seqs == OwnEntries(p)
           whole == InPort(vid, pid, p)
           s == EntriesOf(p, i)
<1>1. p \in Ports /\ bus[p] # None
  BY DEF Passing
<1>2. /\ seqs \in Seq(Seq(EntriesFor(p))) /\ Len(seqs) = Len(bus[p].interfaces)
      /\ whole = FlattenSeq(seqs)
  BY <1>1, InPortIs
<1>3. \A j \in 1 .. Len(bus[p].interfaces) : seqs[j] = EntriesOf(p, j)
  BY DEF OwnEntries
<1>4. ASSUME NEW j \in 1 .. Len(bus[p].interfaces), NEW o \in 1 .. Len(EntriesOf(p, j))
      PROVE  IsPrefix(Path(p, i), EntriesOf(p, j)[o].path) <=> i = j
  BY <1>1, EntryOf
<1>5. i \in 1 .. Len(seqs) /\ seqs[i] = s
  BY <1>2, <1>3
<1> HIDE DEF seqs, whole, s
<1>6. HasPart(whole, seqs, i) /\ Len(s) \in Nat
  <2>1. HasPart(whole, seqs, i)
    BY ONLY <1>2, <1>5, PartIs
  <2> QED
    BY <1>5, <2>1 DEF HasPart
<1>7. PICK a \in Nat :
        /\ a + Len(s) <= Len(whole)
        /\ \A o \in 1 .. Len(s) : whole[a + o] = s[o]
        /\ \A n \in 1 .. Len(whole) :
             \/ n \in a + 1 .. a + Len(s)
             \/ \E j \in 1 .. Len(seqs) \ {i} : \E o \in 1 .. Len(seqs[j]) : whole[n] = seqs[j][o]
  BY <1>5, <1>6 DEF HasPart
<1>8. ASSUME NEW n \in 1 .. Len(whole)
      PROVE  n \in a + 1 .. a + Len(s) <=> IsPrefix(Path(p, i), whole[n].path)
  <2>1. CASE n \in a + 1 .. a + Len(s)
    <3> DEFINE o == n - a
    <3>1. o \in 1 .. Len(s) /\ a + o = n
      BY <1>6, <2>1
    <3>2. whole[n] = s[o]
      BY <1>7, <3>1
    <3> HIDE DEF o
    <3>3. IsPrefix(Path(p, i), s[o].path)
      BY <1>4, <3>1 DEF s
    <3> QED
      BY <2>1, <3>2, <3>3
  <2>2. CASE n \notin a + 1 .. a + Len(s)
    <3>1. PICK j \in 1 .. Len(seqs) \ {i} : \E o \in 1 .. Len(seqs[j]) : whole[n] = seqs[j][o]
      BY <1>7, <2>2
    <3>2. PICK o \in 1 .. Len(seqs[j]) : whole[n] = seqs[j][o]
      BY <3>1
    <3>3. j \in 1 .. Len(bus[p].interfaces) /\ seqs[j] = EntriesOf(p, j) /\ j # i
      BY <1>2, <1>3, <3>1
    <3>4. ~IsPrefix(Path(p, i), EntriesOf(p, j)[o].path)
      BY <1>4, <3>2, <3>3
    <3> QED
      BY <2>2, <3>2, <3>3, <3>4
  <2> QED
    BY <2>1, <2>2
<1> QED
  BY <1>7, <1>8 DEF Holds, whole, s

LEMMA ListHolds ==
  ASSUME Plugged, NEW vid, NEW pid, Enumerate(vid, pid), NEW p \in Passing(vid, pid),
         NEW i \in 1 .. Len(bus[p].interfaces)
  PROVE  Len(list') \in Nat /\ Holds(list', EntriesOf(p, i), p, i)
<1> DEFINE All == UNION {EntriesFor(q) : q \in Passing(vid, pid)}
           s == EntriesOf(p, i)
           own == InPort(vid, pid, p)
<1>1. PICK order \in Orders : list' = FlattenSeq([n \in Ports |-> InPort(vid, pid, order[n])])
  BY DEF Enumerate
<1> DEFINE seqs == [n \in Ports |-> InPort(vid, pid, order[n])]
<1>2. PortCount \in Nat
  BY EnumerationAssumption
<1>3. /\ \A n \in Ports : order[n] \in Ports
      /\ \A n, m \in Ports : order[n] = order[m] => n = m
      /\ \A q \in Ports : \E n \in Ports : order[n] = q
  BY OrderIs
<1>4. p \in Ports /\ bus[p] # None
  BY DEF Passing
<1>5. PICK k \in Ports : order[k] = p
  BY <1>3, <1>4
<1>6. ASSUME NEW q \in Ports PROVE InPort(vid, pid, q) \in Seq(All)
  <2>1. CASE q \notin Passing(vid, pid)
    <3>1. InPort(vid, pid, q) = <<>>
      BY <2>1, InPortIs
    <3> HIDE DEF All
    <3> QED
      BY <3>1
  <2>2. CASE q \in Passing(vid, pid)
    <3>1. EntriesFor(q) \subseteq All
      BY <2>2
    <3>2. InPort(vid, pid, q) \in Seq(EntriesFor(q))
      BY <2>2, InPortIs
    <3> HIDE DEF All
    <3> QED
      BY <3>1, <3>2
  <2> QED
    BY <2>1, <2>2
<1> HIDE DEF All
<1>7. seqs \in Seq(Seq(All)) /\ Len(seqs) = PortCount
  <2>1. \A n \in Ports : InPort(vid, pid, order[n]) \in Seq(All)
    BY <1>3, <1>6
  <2> QED
    BY <1>2, <2>1 DEF Ports
<1>8. \A n \in Ports : seqs[n] = InPort(vid, pid, order[n])
  OBVIOUS
<1>9. seqs[k] = own /\ 1 .. Len(seqs) = Ports /\ list' = FlattenSeq(seqs)
  BY <1>1, <1>5, <1>7 DEF Ports
<1> HIDE DEF seqs, own, s
<1>10. ASSUME NEW j \in Ports \ {k}, NEW o \in 1 .. Len(seqs[j])
       PROVE  ~IsPrefix(Path(p, i), seqs[j][o].path)
  <2> DEFINE q == order[j]
             t == InPort(vid, pid, q)
  <2>1. q \in Ports /\ q # p /\ seqs[j] = t
    BY <1>3, <1>5, <1>8
  <2>2. q \in Passing(vid, pid)
    <3>1. CASE q \notin Passing(vid, pid)
      <4>1. t = <<>>
        BY <2>1, <3>1, InPortIs
      <4> HIDE DEF t
      <4>2. o \in 1 .. 0
        BY <2>1, <4>1
      <4> QED
        BY <4>2
    <3> QED
      BY <3>1
  <2>3. t \in Seq(EntriesFor(q))
    BY <2>1, <2>2, InPortIs
  <2> HIDE DEF q
  <2>4. o \in 1 .. Len(t)
    BY <2>1
  <2> HIDE DEF t
  <2>5. t[o] \in EntriesFor(q)
    BY <2>3, <2>4
  <2>6. PICK m \in 1 .. Len(bus[q].interfaces) : t[o] \in EntriesFrom(q, m)
    BY <2>5 DEF EntriesFor
  <2>7. PICK path \in PathsFrom(q, m) : t[o].path = path
    BY <2>6 DEF EntriesFrom, Entry
  <2>8. bus[q] # None
    BY <2>2 DEF Passing
  <2>9. ~IsPrefix(Path(p, i), path)
    BY <1>4, <2>1, <2>8, SameInterface
  <2> QED
    BY <2>1, <2>7, <2>9
<1>11. HasPart(list', seqs, k) /\ Len(own) \in Nat /\ Len(list') \in Nat
  <2>1. seqs \in Seq(Seq(All)) /\ k \in 1 .. Len(seqs)
    BY <1>7, <1>9
  <2>2. HasPart(FlattenSeq(seqs), seqs, k)
    BY ONLY <2>1, PartIs
  <2>3. HasPart(list', seqs, k)
    BY <1>9, <2>2
  <2> QED
    BY <1>9, <2>3 DEF HasPart
<1>12. PICK a \in Nat :
         /\ a + Len(own) <= Len(list')
         /\ \A o \in 1 .. Len(own) : list'[a + o] = own[o]
         /\ \A n \in 1 .. Len(list') :
              \/ n \in a + 1 .. a + Len(own)
              \/ \E j \in 1 .. Len(seqs) \ {k} : \E o \in 1 .. Len(seqs[j]) : list'[n] = seqs[j][o]
  BY <1>9, <1>11 DEF HasPart
<1>13. PICK b \in Nat :
         /\ b + Len(s) <= Len(own)
         /\ \A o \in 1 .. Len(s) : own[b + o] = s[o]
         /\ \A n \in 1 .. Len(own) :
              n \in b + 1 .. b + Len(s) <=> IsPrefix(Path(p, i), own[n].path)
  BY PortHolds DEF Holds, s, own
<1>14. Len(s) \in Nat
  <2>1. s \in Seq(EntriesFrom(p, i))
    BY <1>4, EntriesAre DEF s
  <2> QED
    BY <2>1
<1> DEFINE c == a + b
<1>15. c \in Nat /\ c + Len(s) <= Len(list')
  BY <1>11, <1>12, <1>13, <1>14
<1>16. ASSUME NEW o \in 1 .. Len(s) PROVE list'[c + o] = s[o]
  <2>1. b + o \in 1 .. Len(own) /\ c + o = a + (b + o)
    BY <1>11, <1>13, <1>14
  <2>2. list'[a + (b + o)] = own[b + o]
    BY <1>12, <2>1
  <2> QED
    BY <1>13, <2>1, <2>2
<1>17. ASSUME NEW n \in 1 .. Len(list')
       PROVE  n \in c + 1 .. c + Len(s) <=> IsPrefix(Path(p, i), list'[n].path)
  <2>1. CASE n \in a + 1 .. a + Len(own)
    <3> DEFINE m == n - a
    <3>1. m \in 1 .. Len(own) /\ a + m = n /\ (n \in c + 1 .. c + Len(s) <=> m \in b + 1 .. b + Len(s))
      BY <1>11, <1>13, <1>14, <2>1
    <3> HIDE DEF m
    <3>2. list'[n] = own[m]
      BY <1>12, <3>1
    <3>3. m \in b + 1 .. b + Len(s) <=> IsPrefix(Path(p, i), own[m].path)
      BY <1>13, <3>1
    <3> QED
      BY <3>1, <3>2, <3>3
  <2>2. CASE n \notin a + 1 .. a + Len(own)
    <3>1. PICK j \in 1 .. Len(seqs) \ {k} : \E o \in 1 .. Len(seqs[j]) : list'[n] = seqs[j][o]
      BY <1>12, <2>2
    <3>2. PICK o \in 1 .. Len(seqs[j]) : list'[n] = seqs[j][o]
      BY <3>1
    <3>3. ~IsPrefix(Path(p, i), list'[n].path)
      BY <1>9, <1>10, <3>1, <3>2
    <3>4. n \notin c + 1 .. c + Len(s)
      BY <1>11, <1>13, <1>14, <2>2
    <3> QED
      BY <3>3, <3>4
  <2> QED
    BY <2>1, <2>2
<1> HIDE DEF c
<1> QED
  BY <1>11, <1>15, <1>16, <1>17 DEF Holds, s

(* What ListIsComplete says of an interface, and of the list in between.   *)
OwnIn(whole, p, i) == {n \in 1 .. Len(whole) : IsPrefix(Path(p, i), whole[n].path)}

ListedWith(own, whole, usages) ==
  \E a \in 0 .. Len(whole) : /\ own = a + 1 .. a + Len(usages)
                             /\ \A n \in 1 .. Len(usages) : whole[a + n].usage = usages[n]

LEMMA InterfaceListed ==
  ASSUME Plugged, NEW vid, NEW pid, Enumerate(vid, pid), NEW p \in Passing(vid, pid),
         bus[p].answers, bus[p].bus = "usb",
         NEW i \in 1 .. Len(bus[p].interfaces), NEW interface, interface = bus[p].interfaces[i]
  PROVE  /\ ~IsHid(interface) /\ system # "libusb" => OwnIn(list', p, i) = {}
         /\ IsHid(interface) /\ Described(interface) =>
              ListedWith(OwnIn(list', p, i), list', Meant(interface))
<1> DEFINE s == EntriesOf(p, i)
           own == OwnIn(list', p, i)
           u == Meant(interface)
<1>1. p \in Ports /\ bus[p] # None
  BY DEF Passing
<1>2. /\ ~IsHid(interface) /\ system # "libusb" => s = <<>>
      /\ IsHid(interface) /\ Described(interface) =>
           Len(s) = Len(u) /\ \A n \in 1 .. Len(u) : s[n].usage = u[n]
  BY <1>1, MeantIs
<1>3. Len(s) \in Nat
  <2>1. s \in Seq(EntriesFrom(p, i))
    BY <1>1, EntriesAre
  <2> HIDE DEF s
  <2> QED
    BY <2>1
<1>4. Len(list') \in Nat
  BY ListHolds
<1>5. PICK a \in Nat :
        /\ a + Len(s) <= Len(list')
        /\ \A o \in 1 .. Len(s) : list'[a + o] = s[o]
        /\ \A n \in 1 .. Len(list') : n \in a + 1 .. a + Len(s) <=> IsPrefix(Path(p, i), list'[n].path)
  BY ListHolds DEF Holds
<1> HIDE DEF s, u
<1>6. own = a + 1 .. a + Len(s) /\ a \in 0 .. Len(list')
  <2>1. \A n \in a + 1 .. a + Len(s) : n \in 1 .. Len(list')
    BY <1>3, <1>4, <1>5
  <2>2. own = a + 1 .. a + Len(s)
    BY <1>5, <2>1 DEF OwnIn
  <2> QED
    BY <1>3, <1>4, <1>5, <2>2
<1> HIDE DEF own
<1>7. CASE ~IsHid(interface) /\ system # "libusb"
  <2>1. Len(s) = 0
    BY <1>2, <1>7
  <2>2. own = {}
    BY <1>5, <1>6, <2>1
  <2> QED
    BY <1>7, <2>2 DEF own
<1>8. CASE IsHid(interface) /\ Described(interface)
  <2>1. ListedWith(own, list', u)
    <3>1. own = a + 1 .. a + Len(u)
      BY <1>2, <1>6, <1>8
    <3>2. \A n \in 1 .. Len(u) : list'[a + n].usage = u[n]
      BY <1>2, <1>5, <1>8
    <3> QED
      BY <1>6, <3>1, <3>2 DEF ListedWith
  <2> QED
    BY <1>8, <2>1 DEF own, u
<1> QED
  BY <1>7, <1>8

(* The same, said of a system and a list that may be those of the next     *)
(* state.                                                                  *)
DescribedOn(sys, interface) ==
  LET s == interface.items
  IN  /\ interface.descriptor = BytesOf(s) /\ Proper(s)
      /\ sys = "libusb" => PageComesFirst(s)
      /\ sys = "mac" => \A n \in 2 .. Len(TopUsages(s)) : TopUsages(s)[n] # TopUsages(s)[1]

MeantOn(sys, interface) ==
  LET usages == TopUsages(interface.items)
  IN  IF sys # "libusb" THEN usages ELSE <<IF Invasive THEN usages[1] ELSE <<0, 0>>>>

ListedAs(sys, interface, own, whole) ==
  IF ~IsHid(interface) THEN sys # "libusb" => own = {}
  ELSE DescribedOn(sys, interface) => ListedWith(own, whole, MeantOn(sys, interface))

(* ListIsComplete', of what hid_enumerate has left alone.                  *)
LEMMA NewListComplete ==
  ASSUME Plugged, NEW vid, NEW pid, Enumerate(vid, pid), Filter' = <<vid, pid>>
  PROVE  ListIsComplete'
<1>1. system' = system /\ bus' = bus /\ names' = names
  BY DEF Enumerate
<1>2. \A p, i : Path(p, i)' = Path(p, i)
  BY <1>1, PathKept
<1>3. NothingElse'
  BY NewListOnly
<1>4. ASSUME NEW p \in Ports, bus'[p] # None, Filter' \in {0, bus'[p].vid} \X {0, bus'[p].pid},
             bus'[p].answers, bus'[p].bus = "usb", NEW i \in 1 .. Len(bus'[p].interfaces)
      PROVE  ListedAs(system', bus'[p].interfaces[i], OwnIn(list, p, i)', list')
  <2> DEFINE interface == bus[p].interfaces[i]
  <2>1. bus' = bus /\ system' = system
    BY <1>1
  <2>2. p \in Passing(vid, pid)
    <3>1. <<vid, pid>> \in {0, bus[p].vid} \X {0, bus[p].pid}
      BY <1>4, <2>1
    <3>2. Matches(vid, pid, bus[p])
      BY <3>1 DEF Matches
    <3> QED
      BY <1>4, <2>1, <3>2 DEF Passing
  <2>3. i \in 1 .. Len(bus[p].interfaces) /\ bus[p].answers /\ bus[p].bus = "usb"
    BY <1>4, <2>1
  <2>4. /\ ~IsHid(interface) /\ system # "libusb" => OwnIn(list', p, i) = {}
        /\ IsHid(interface) /\ Described(interface) =>
             ListedWith(OwnIn(list', p, i), list', Meant(interface))
    BY <2>2, <2>3, InterfaceListed
  <2>5. OwnIn(list, p, i)' = OwnIn(list', p, i)
    BY <1>2 DEF OwnIn
  <2>6. /\ Described(interface) <=> DescribedOn(system, interface)
        /\ Meant(interface) = MeantOn(system, interface)
    BY DEF Described, Meant, DescribedOn, MeantOn
  <2>7. interface = bus'[p].interfaces[i]
    BY <2>1
  <2> HIDE DEF interface
  <2>8. ListedAs(system, interface, OwnIn(list', p, i), list')
    BY <2>4, <2>6 DEF ListedAs
  <2> QED
    BY <2>1, <2>5, <2>7, <2>8
<1> QED
  BY <1>3, <1>4
  DEF ListIsComplete, ListedAs, ListedWith, DescribedOn, MeantOn, Described, Meant, OwnIn

LEMMA SameListComplete ==
  ASSUME ListIsComplete, UNCHANGED enumVars
  PROVE  ListIsComplete'
<1>1. system' = system /\ bus' = bus /\ names' = names /\ list' = list /\ wanted' = wanted
  BY DEF enumVars
<1>2. \A p, i : Path(p, i)' = Path(p, i)
  BY <1>1, PathKept
<1>3. Filter' = Filter
  BY <1>1 DEF Filter
<1> SUFFICES ASSUME at' = "listed", ~changed'
             PROVE  ListIsComplete'
  BY DEF ListIsComplete
<1>4. at = "listed" /\ ~changed
  BY DEF enumVars
<1>5. NothingElse'
  BY <1>4, SameList DEF ListIsComplete
<1>6. ASSUME NEW p \in Ports, bus[p] # None, Filter \in {0, bus[p].vid} \X {0, bus[p].pid},
             bus[p].answers, bus[p].bus = "usb", NEW i \in 1 .. Len(bus[p].interfaces)
      PROVE  ListedAs(system, bus[p].interfaces[i], OwnIn(list, p, i), list)
  BY <1>4, <1>6
  DEF ListIsComplete, ListedAs, ListedWith, DescribedOn, MeantOn, Described, Meant, OwnIn
<1>7. ASSUME NEW p \in Ports, bus'[p] # None, Filter' \in {0, bus'[p].vid} \X {0, bus'[p].pid},
             bus'[p].answers, bus'[p].bus = "usb", NEW i \in 1 .. Len(bus'[p].interfaces)
      PROVE  ListedAs(system', bus'[p].interfaces[i], OwnIn(list, p, i)', list')
  <2>1. OwnIn(list, p, i)' = OwnIn(list, p, i)
    BY <1>1, <1>2 DEF OwnIn
  <2>2. ListedAs(system, bus[p].interfaces[i], OwnIn(list, p, i), list)
    BY <1>1, <1>3, <1>6, <1>7
  <2> QED
    BY <1>1, <2>1, <2>2
<1> QED
  BY <1>5, <1>7
  DEF ListIsComplete, ListedAs, ListedWith, DescribedOn, MeantOn, Described, Meant, OwnIn

(* hid_enumerate lists every interface with the usages of its top-level    *)
(* collections, in their order and without others in between, and nothing  *)
(* that does not pass: for any devices, of which every interface has any   *)
(* block for its items, on every implementation.                           *)
THEOREM ListIsCompleteAlways == Spec => []ListIsComplete
<1>1. Init => EnumInv /\ ListIsComplete
  <2>1. Init => EnumInv
    BY InitEnum DEF Init, Systems
  <2>2. Init => at = "idle"
    BY DEF Init, EnumInit
  <2> QED
    BY <2>1, <2>2 DEF ListIsComplete
<1>2. EnumInv /\ ListIsComplete /\ [Next]_vars => (EnumInv /\ ListIsComplete)'
  <2> SUFFICES ASSUME EnumInv, ListIsComplete, [Next]_vars
               PROVE  EnumInv' /\ ListIsComplete'
    OBVIOUS
  <2>1. EnumNext \/ UNCHANGED enumVars
    BY DEF Next, vars
  <2>2. EnumInv'
    BY <2>1, EnumStep, EnumUnchanged
  <2>3. Plugged
    BY DEF EnumInv
  <2>4. at' # "listed" \/ changed' => ListIsComplete'
    BY DEF ListIsComplete
  <2>5. CASE PlugIn \/ PullOut
    <3>1. at' = at /\ changed' = (at = "listed")
      BY <2>5 DEF PlugIn, PullOut
    <3> QED
      BY <2>2, <2>4, <3>1
  <2>6. CASE HidOpen \/ UpdateDeviceList
    <3>1. PICK vid, pid : Enumerate(vid, pid) /\ Filter' = <<vid, pid>>
      BY <2>6, ListingIs
    <3> QED
      BY <2>2, <2>3, <3>1, NewListComplete
  <2>7. CASE OpenPath \/ Done
    <3>1. at' # "listed"
      BY <2>7 DEF OpenPath, Done
    <3> QED
      BY <2>2, <2>4, <3>1
  <2>8. CASE UNCHANGED enumVars
    BY <2>2, <2>8, SameListComplete
  <2> QED
    BY <2>1, <2>5, <2>6, <2>7, <2>8 DEF EnumNext
<1> QED
  BY <1>1, <1>2, PTL DEF Spec
=============================================================================

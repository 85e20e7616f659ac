---------------------------- MODULE HidEnumeration ----------------------------
(***************************************************************************)
(* How the five implementations list the devices that are plugged in, and  *)
(* how a device is opened from that list, by hid_open and by the           *)
(* TbiDeviceManager.  A path is all that is kept of a device meanwhile.    *)
(***************************************************************************)
EXTENDS HidDescriptor

CONSTANTS
  Devices,   \* what may be plugged in
  PortCount, \* where
  MaxPlugs,  \* bounds how often
  Invasive,  \* libusb is built with INVASIVE_GET_USAGE
  None,      \* no device
  Null       \* no string, or any

(* A name or a serial number is a string, and a product has a name.  What  *)
(* Windows knows a device by tells it from others that are plugged in.     *)
ASSUME EnumerationAssumption ==
  /\ PortCount \in Nat /\ None \notin Devices /\ Null \notin STRING
  /\ \A dev \in Devices : dev.product \in STRING \ {""} /\ dev.serial \in STRING
  /\ \A dev, other \in Devices :
       /\ <<dev.bus, dev.vid, dev.pid, dev.serial>> = <<other.bus, other.vid, other.pid, other.serial>>
       /\ dev.serial # ""
       => dev = other

ASSUME InterfacesAssumption ==
  \A dev \in Devices :
    /\ Len(dev.interfaces) \in Nat
    /\ \A i \in 1 .. Len(dev.interfaces) :
         /\ Len(dev.interfaces[i].alts) \in Nat \ {0}
         /\ dev.interfaces[i].descriptor \in Seq(0 .. 255)
         /\ IsBlock(dev.interfaces[i].items)

VARIABLES
  system,   \* the implementation: "libusb", "mac", "linux", "netbsd" or "windows"
  bus,      \* the device in every port
  names,    \* the names that the system has given to their interfaces
  plugs,    \* how often something has been plugged in
  at,       \* "idle", "listed" between listing and opening, "opened" after it
  wanted,   \* what the program looks for
  list,     \* the result of hid_enumerate
  changed,  \* the bus has changed since
  swapped,  \* something has been plugged in since
  opened    \* the device that was opened, None if that has failed

enumVars == <<system, bus, names, plugs, at, wanted, list, changed, swapped, opened>>

Ports == 1 .. PortCount

Nobody == [vid |-> 0, pid |-> 0, product |-> Null, serial |-> Null]

EnumInit == /\ bus = [p \in Ports |-> None] /\ names = [p \in Ports |-> <<>>] /\ plugs = 0
            /\ at = "idle" /\ wanted = Nobody /\ list = <<>>
            /\ changed = FALSE /\ swapped = FALSE /\ opened = None

-----------------------------------------------------------------------------
(* A device has vid, pid, product, serial, bus ("usb", "bluetooth" or      *)
(* "other"); it answers, or not, when it is opened to be asked; of every   *)
(* interface it has alts, the classes of its alternate settings, the bytes *)
(* of the report descriptor as they are read, and its items as they are    *)
(* meant.                                                                  *)

(* Wrong (for ListIsComplete): a 0 is an id like others. *)
MatchesExactly(vid, pid, dev) == vid = dev.vid /\ pid = dev.pid

(* What a filter of 0 lets pass. *)
Matches(vid, pid, dev) == (vid = 0 \/ vid = dev.vid) /\ (pid = 0 \/ pid = dev.pid)

Entry(path, dev, strings, interface, usage) ==
  [path |-> path, vid |-> dev.vid, pid |-> dev.pid, bus |-> dev.bus, interface |-> interface,
   product |-> strings.product, serial |-> strings.serial, usage |-> usage]

(* libusb. *)

Xbox360Vendors == {\h0079, \h044f, \h045e, \h046d, \h056e, \h06a3, \h0738, \h07ff, \h0e6f,
  \h0f0d, \h1038, \h11c9, \h12ab, \h1430, \h146b, \h1532, \h15e4, \h162e, \h1689, \h1949,
  \h1bad, \h20d6, \h24c6, \h2c22, \h2dc8, \h9886}

XboxOneVendors == {\h044f, \h045e, \h0738, \h0e6f, \h0f0d, \h10f5, \h1532, \h20d6, \h24c6,
  \h2dc8, \h2e24, \h3537}

ShouldEnumerate(dev, i, alt) ==
  \/ alt = "hid"
  \/ alt = "xbox360" /\ dev.vid \in Xbox360Vendors
  \/ alt = "xboxone" /\ dev.vid \in XboxOneVendors /\ i = 1

(* get_usb_string needs the device opened, and an index that is not 0. *)
UsbStrings(dev) ==
  [product |-> IF dev.answers THEN dev.product ELSE Null,
   serial |-> IF dev.answers /\ dev.serial # "" THEN dev.serial ELSE Null]

(* The first alternate setting that qualifies stands for the interface. *)
UsbEntries(dev, i, path) ==
  IF dev.bus # "usb" \/ ~ \E k \in 1 .. Len(dev.interfaces[i].alts) :
                            ShouldEnumerate(dev, i, dev.interfaces[i].alts[k])
  THEN <<>>
  ELSE <<Entry(path, dev, UsbStrings(dev), i - 1,
               IF Invasive /\ dev.answers THEN GetUsage(dev.interfaces[i].descriptor) ELSE <<0, 0>>)>>

(* The others see what the system's HID driver has taken. *)
IsHid(interface) == interface.alts[1] = "hid"

KeptStrings(dev) == [product |-> dev.product, serial |-> dev.serial]

ForEach(usages, EntryOf(_)) == [n \in 1 .. Len(usages) |-> EntryOf(usages[n])]

(* linux: the number of the interface is only known for USB. *)
LinuxEntries(dev, i, path, pairs) ==
  IF dev.bus \notin {"usb", "bluetooth"} THEN <<>>
  ELSE LET EntryOf(usage) == Entry(path, dev, KeptStrings(dev),
                                   IF dev.bus = "usb" THEN i - 1 ELSE -1, usage)
       IN  ForEach(pairs, EntryOf)

(* netbsd: the node has to be opened for its descriptor. *)
NetbsdEntries(dev, i, path, pairs) ==
  LET EntryOf(usage) == Entry(path, dev, KeptStrings(dev), -1, usage)
  IN  IF dev.bus # "usb" THEN <<>>
      ELSE ForEach(IF dev.answers THEN pairs ELSE <<<<0, 0>>>>, EntryOf)

(* mac: the primary usage first, and then the pairs that differ from it. *)
MacEntries(dev, i, path, pairs) ==
  LET EntryOf(usage) == Entry(path, dev, KeptStrings(dev),
                              IF dev.bus = "usb" THEN i - 1 ELSE -1, usage)
      Others(usage) == IF usage = pairs[1] THEN <<>> ELSE <<EntryOf(usage)>>
  IN  <<EntryOf(pairs[1])>> \o FlattenSeq(ForEach(pairs, Others))

(* windows: every top-level collection has a path of its own.  What does   *)
(* not open is left out; a serial number that the device does not tell is  *)
(* that of its instance.                                                   *)
WindowsEntries(dev, i, path, pairs) ==
  IF ~dev.answers THEN <<>>
  ELSE [n \in 1 .. Len(pairs) |-> Entry(path \o <<n>>, dev, KeptStrings(dev),
                                        IF dev.bus = "usb" THEN i - 1 ELSE -1, pairs[n])]

-----------------------------------------------------------------------------
(* Paths.  libusb has the port and the interface, Windows what identifies  *)
(* the instance; the others have a name that the system gives when the     *)
(* device comes: a number for a node in /dev is given again, that of a     *)
(* registry entry of macOS is not.                                         *)

Path(p, i) ==
  CASE system = "libusb" -> <<p, i>>
    [] system = "windows" -> <<bus[p].bus, bus[p].vid, bus[p].pid, i,
                               bus[p].serial, IF bus[p].serial = "" THEN p ELSE 0>>
    [] OTHER -> <<names[p][i]>>

Used == UNION {{names[p][i] : i \in DOMAIN names[p]} : p \in Ports}

Unused(n) == {m \in 0 .. n : m \notin Used}

NewNames(count) ==
  IF system = "mac" THEN [i \in 1 .. count |-> <<plugs, i>>]
  ELSE [i \in 1 .. count |-> CHOOSE n \in 0 .. Cardinality(Used) + count :
                                n \in Unused(n) /\ Cardinality(Unused(n)) = i]

PlugIn == /\ plugs < MaxPlugs /\ at # "opened"
          /\ \E p \in Ports, dev \in Devices :
               /\ bus[p] = None
               /\ \A q \in Ports : bus[q] # dev
               /\ bus' = [bus EXCEPT ![p] = dev]
               /\ names' = [names EXCEPT ![p] = NewNames(Len(dev.interfaces))]
          /\ plugs' = plugs + 1 /\ changed' = (at = "listed") /\ swapped' = (at = "listed")
          /\ UNCHANGED <<system, at, wanted, list, opened>>

PullOut == /\ at # "opened"
           /\ \E p \in Ports : /\ bus[p] # None
                               /\ bus' = [bus EXCEPT ![p] = None]
                               /\ names' = [names EXCEPT ![p] = <<>>]
           /\ changed' = (at = "listed")
           /\ UNCHANGED <<system, plugs, at, wanted, list, swapped, opened>>

-----------------------------------------------------------------------------
(* hid_enumerate. *)

(* Those of one interface, from the usages in its descriptor.  macOS and   *)
(* Windows have parsed it themselves; they are taken to have found what    *)
(* Linux and NetBSD find.                                                  *)
HidEntries(dev, i, path, pairs) ==
  CASE system = "linux" -> LinuxEntries(dev, i, path, pairs)
    [] system = "netbsd" -> NetbsdEntries(dev, i, path, pairs)
    [] system = "mac" -> MacEntries(dev, i, path, pairs)
    [] system = "windows" -> WindowsEntries(dev, i, path, pairs)

EntriesOf(p, i) ==
  LET dev == bus[p]
      interface == dev.interfaces[i]
  IN  CASE system = "libusb" -> UsbEntries(dev, i, Path(p, i))
        [] system # "libusb" /\ ~IsHid(interface) -> <<>>
        [] system # "libusb" /\ IsHid(interface) ->
             HidEntries(dev, i, Path(p, i), DeviceUsages(interface.descriptor))

InPort(vid, pid, p) ==
  IF bus[p] = None \/ ~Matches(vid, pid, bus[p]) THEN <<>>
  ELSE FlattenSeq([i \in 1 .. Len(bus[p].interfaces) |-> EntriesOf(p, i)])

(* The set that macOS returns has no order. *)
Orders == IF system = "mac" THEN SetToSeqs(Ports) ELSE {[p \in Ports |-> p]}

Enumerate(vid, pid) ==
  /\ \E order \in Orders : list' = FlattenSeq([n \in Ports |-> InPort(vid, pid, order[n])])
  /\ at' = "listed"
  /\ UNCHANGED <<system, bus, names, plugs, changed, swapped, opened>>

(* hid_open lists the devices of the ids it is to open.  With an id of 0,  *)
(* which opens nothing, it stands for hid_enumerate alone.                 *)
HidOpen == /\ at = "idle"
           /\ \E dev \in Devices : \E vid \in {0, dev.vid}, pid \in {0, dev.pid} :
              \E serial \in IF vid = 0 \/ pid = 0 THEN {Null} ELSE {dev.serial, Null} :
                /\ wanted' = [Nobody EXCEPT !.vid = vid, !.pid = pid, !.serial = serial]
                /\ Enumerate(vid, pid)

ToolbitVid == \h04d8
ToolbitPid == \hecd0

(* The TbiDeviceManager lists the devices with the ids of Toolbit, and     *)
(* looks for a product by its name.                                        *)
UpdateDeviceList ==
  /\ at = "idle"
  /\ \E dev \in Devices : \E serial \in {dev.serial, Null} :
       wanted' = [Nobody EXCEPT !.product = dev.product, !.serial = serial]
  /\ Enumerate(ToolbitVid, ToolbitPid)

-----------------------------------------------------------------------------
(* The first entry of the list that is wanted. *)

FirstPath(Wanted(_)) ==
  LET found == {n \in 1 .. Len(list) : Wanted(list[n])}
  IN  IF found = {} THEN Null ELSE list[Min(found)].path

(* Wrong (for OpenedIsWanted): takes the first of that kind. *)
PathOfAny ==
  LET Wanted(e) == e.vid = wanted.vid /\ e.pid = wanted.pid
  IN  FirstPath(Wanted)

PathToOpen ==
  LET Wanted(e) == /\ e.vid = wanted.vid /\ e.pid = wanted.pid
                   /\ wanted.serial # Null => e.serial = wanted.serial
  IN  FirstPath(Wanted)

(* A string that is not there counts as an empty one. *)
StringOf(string) == IF string = Null THEN "" ELSE string

GetPathByName ==
  LET Wanted(e) == StringOf(e.product) = wanted.product
  IN  FirstPath(Wanted)

GetPathByNameAndSerial ==
  LET Wanted(e) == StringOf(e.product) = wanted.product /\ StringOf(e.serial) = wanted.serial
  IN  FirstPath(Wanted)

(* The interface that has the path now, whatever it had when it was        *)
(* listed; it may refuse.                                                  *)
OpenPath ==
  /\ at = "listed" /\ at' = "opened" /\ list' = <<>>
  /\ LET path == CASE wanted.product = Null -> PathToOpen
                   [] wanted.product # Null /\ wanted.serial = Null -> GetPathByName
                   [] OTHER -> GetPathByNameAndSerial
         there == {p \in Ports : bus[p] # None /\ \E i \in 1 .. Len(bus[p].interfaces) :
                     path # Null /\ IsPrefix(Path(p, i), path) /\ EntriesOf(p, i) # <<>>}
     IN  opened' \in {None} \cup {bus[p] : p \in there}
  /\ UNCHANGED <<system, bus, names, plugs, wanted, changed, swapped>>

(* The program closes the device, and may look for another. *)
Done == /\ at = "opened" /\ at' = "idle"
        /\ wanted' = Nobody /\ changed' = FALSE /\ swapped' = FALSE /\ opened' = None
        /\ UNCHANGED <<system, bus, names, plugs, list>>

EnumNext == PlugIn \/ PullOut \/ HidOpen \/ UpdateDeviceList \/ OpenPath \/ Done

-----------------------------------------------------------------------------
(* What hid_enumerate was asked for. *)
Filter == IF wanted.product = Null THEN <<wanted.vid, wanted.pid>> ELSE <<ToolbitVid, ToolbitPid>>

(* Every entry is one of a device that passes, and its path leads to it.   *)
NothingElse ==
  \A n \in 1 .. Len(list) : \E p \in Ports :
    /\ bus[p] # None /\ Filter \in {0, bus[p].vid} \X {0, bus[p].pid}
    /\ list[n].vid = bus[p].vid /\ list[n].pid = bus[p].pid
    /\ \E i \in 1 .. Len(bus[p].interfaces) : IsPrefix(Path(p, i), list[n].path)

(* A descriptor that is read as it is meant, and that means something:     *)
(* libusb only reads to the first usage, and macOS gives the usage of the  *)
(* first collection once more.                                             *)
Described(interface) ==
  LET s == interface.items
  IN  /\ interface.descriptor = BytesOf(s) /\ Proper(s)
      /\ system = "libusb" => PageComesFirst(s)
      /\ system = "mac" => \A n \in 2 .. Len(TopUsages(s)) : TopUsages(s)[n] # TopUsages(s)[1]

(* What the entries of an interface tell.                                  *)
Meant(interface) ==
  LET usages == TopUsages(interface.items)
  IN  IF system # "libusb" THEN usages ELSE <<IF Invasive THEN usages[1] ELSE <<0, 0>>>>

(* hid_enumerate, with any ids or none, lists every HID interface of the   *)
(* devices that pass, once for each of its top-level collections and in    *)
(* their order - libusb only for the first -, without others in between,   *)
(* and nothing else.  Said of USB devices that answer.                     *)
ListIsComplete ==
  at = "listed" /\ ~changed =>
    /\ NothingElse
    /\ \A p \in Ports :
         bus[p] # None /\ Filter \in {0, bus[p].vid} \X {0, bus[p].pid}
           /\ bus[p].answers /\ bus[p].bus = "usb"
         => \A i \in 1 .. Len(bus[p].interfaces) :
              LET interface == bus[p].interfaces[i]
                  own == {n \in 1 .. Len(list) : IsPrefix(Path(p, i), list[n].path)}
                  usages == Meant(interface)
              IN  IF ~IsHid(interface) THEN system # "libusb" => own = {}
                  ELSE Described(interface) => \E a \in 0 .. Len(list) :
                         /\ own = a + 1 .. a + Len(usages)
                         /\ \A n \in 1 .. Len(usages) : list[a + n].usage = usages[n]

(* A device that has been opened is one that was wanted.  When another was *)
(* plugged in after the list was made this rests on the path: only macOS   *)
(* never gives one again, and on Windows it still has the ids.             *)
IsWanted(dev) ==
  /\ Matches(Filter[1], Filter[2], dev)
  /\ wanted.product \in {Null, dev.product}
  /\ wanted.serial \in {Null, dev.serial}

OpenedIsWanted ==
  opened # None =>
    \/ IsWanted(opened)
    \/ swapped /\ system \in {"libusb", "linux", "netbsd"}
    \/ swapped /\ system = "windows" /\ Matches(Filter[1], Filter[2], opened)
=============================================================================

---------------------------- MODULE HidDescriptor ----------------------------
(***************************************************************************)
(* How hidapi finds the usages of a device in its report descriptor: Linux *)
(* and NetBSD list those of every top-level collection, libusb stops at    *)
(* the first usage.  A descriptor is a sequence of bytes; offsets in it    *)
(* start at 0, as in the code.  An access beyond its end is an error of    *)
(* TLC, so the parsers are also run on descriptors that are cut off.       *)
(***************************************************************************)
EXTENDS Integers, Sequences, SequencesExt

CONSTANTS
  Blocks,    \* pieces of descriptors: their bytes, and what these mean
  MaxBlocks  \* bounds how many of them make a descriptor

VARIABLE blocks  \* what makes up the descriptor

At(d, i) == d[i + 1]

(* An item is a key and its data.  The low two bits of a key code the      *)
(* length of the data; a long item has a byte for it.                      *)
Command(key) == key - (key % 4)
LongItem(key) == key >= 240
ShortLength(key) == IF key % 4 = 3 THEN 4 ELSE key % 4

UsagePage == 4
Usage == 8
Collection == 160
EndCollection == 192

(* Little endian; 0 when the data are cut off.  Of page and usage the code *)
(* keeps 16 bits.                                                          *)
GetBytes(d, size, i) ==
  IF i + size >= Len(d) \/ size = 0 THEN 0
  ELSE IF size = 1 THEN At(d, i + 1) ELSE At(d, i + 1) + 256 * At(d, i + 2)

-----------------------------------------------------------------------------
(* libusb. *)

UsbDataLength(d, i) ==
  IF ~LongItem(At(d, i)) THEN ShortLength(At(d, i))
  ELSE IF i + 1 < Len(d) THEN At(d, i + 1) ELSE 0

UsbNextItem(d, i) == i + UsbDataLength(d, i) + (IF LongItem(At(d, i)) THEN 3 ELSE 1)

(* What is known on the way to offset i, the page and the usage; it ends   *)
(* when both are, and what is not known then is 0.                         *)
Known == {s \in Seq(Nat) : Len(s) <= 1}

GetUsage(d) ==
  LET scan[x \in Nat \X Known \X Known] ==
        LET i == x[1]
            page == x[2]
            usage == x[3]
            cmd == Command(At(d, i))
            size == UsbDataLength(d, i)
            long == cmd = Usage /\ size = 4
        IN  IF i >= Len(d) \/ (page # <<>> /\ usage # <<>>)
            THEN <<IF page = <<>> THEN 0 ELSE Head(page), IF usage = <<>> THEN 0 ELSE Head(usage)>>
            ELSE scan[<<UsbNextItem(d, i),
                        IF cmd = UsagePage THEN <<GetBytes(d, size, i)>>
                        ELSE IF long THEN <<GetBytes(d, 2, i + 2)>> ELSE page,
                        IF cmd = Usage THEN <<GetBytes(d, IF long THEN 2 ELSE size, i)>> ELSE usage>>]
  IN  scan[<<0, <<>>, <<>>>>]

-----------------------------------------------------------------------------
(* Linux, and NetBSD with the same text. *)

(* A long item that is cut off counts as a short one. *)
ItemSize(d, i) ==
  IF LongItem(At(d, i)) /\ i + 1 < Len(d) THEN At(d, i + 1) + 3 ELSE ShortLength(At(d, i)) + 1

(* Wrong (for DescriptorUsages): stops at the first end, of whatever is    *)
(* inside.                                                                 *)
FirstEnd(d, start) ==
  LET walk[i \in Nat] == IF i >= Len(d) \/ Command(At(d, i)) = EndCollection THEN i
                         ELSE walk[i + ItemSize(d, i)]
  IN  walk[start]

(* The offset of the item that ends the collection that begins at i; Len(d)*)
(* or more if none does.                                                   *)
EndOfCollection(d, start) ==
  LET walk[x \in Nat \X Int] ==
        LET i == x[1]
            level == x[2]
            after == CASE Command(At(d, i)) = Collection -> level + 1
                       [] Command(At(d, i)) = EndCollection -> level - 1
                       [] OTHER -> level
        IN  IF i >= Len(d) \/ after = 0 THEN i ELSE walk[<<i + ItemSize(d, i), after>>]
  IN  walk[<<start, 0>>]

(* get_next_hid_usage, from the offset where the last call has stopped and *)
(* with the page it has left: the pair, if there is one, and where this    *)
(* call stops.  A descriptor without collections may still have a pair,    *)
(* for the first call.                                                     *)
NextUsage(d, start, pageLeft) ==
  LET scan[x \in Nat \X Known \X Known] ==
        LET i == x[1]
            page == x[2]
            usage == x[3]
            cmd == Command(At(d, i))
            size == ItemSize(d, i) - 1
            end == EndOfCollection(d, i)
        IN  IF i >= Len(d)
            THEN [pair |-> IF start = 0 THEN page \o usage ELSE <<>>, pos |-> i, page |-> page]
            ELSE
            CASE cmd = UsagePage -> scan[<<i + size + 1, <<GetBytes(d, size, i)>>, usage>>]
              [] cmd = Usage /\ size = 4 ->
                   scan[<<i + 5, <<GetBytes(d, 2, i + 2)>>, <<GetBytes(d, 2, i)>>>>]
              [] cmd = Usage /\ size # 4 -> scan[<<i + size + 1, page, <<GetBytes(d, size, i)>>>>]
              [] cmd = Collection /\ (end >= Len(d) \/ Len(page \o usage) = 2) ->
                   [pair |-> IF end >= Len(d) THEN <<>> ELSE page \o usage, pos |-> end, page |-> page]
              [] cmd = Collection /\ end < Len(d) /\ Len(page \o usage) < 2 ->
                   scan[<<end + ItemSize(d, end), page, usage>>]
              [] OTHER -> scan[<<i + size + 1, page, usage>>]
  IN  scan[<<start, pageLeft, <<>>>>]

(* The usages that a device is listed with: one entry without a usage when *)
(* the first call finds none.                                              *)
DeviceUsages(d) ==
  LET more[x \in Nat \X Known] ==
        LET next == NextUsage(d, x[1], x[2])
        IN  IF Len(next.pair) < 2 THEN <<>> ELSE <<next.pair>> \o more[<<next.pos, next.page>>]
      first == NextUsage(d, 0, <<>>)
  IN  <<IF Len(first.pair) < 2 THEN <<0, 0>> ELSE first.pair>> \o more[<<first.pos, first.page>>]
-----------------------------------------------------------------------------
(* Descriptors.  An item has its bytes, and what these mean: a page, a     *)
(* usage, a usage that has its page with it ("long"), the begin or the end *)
(* of a collection ("open", "close"), or nothing of concern.               *)

(* Little endian, 16 bits; a short item. *)
Value(d) == CASE Len(d) = 1 -> 0
               [] Len(d) = 2 -> d[2]
               [] OTHER -> d[2] + 256 * d[3]

IsItem(item) ==
  LET d == item.bytes
      cmd == Command(d[1])
  IN  /\ d \in Seq(0 .. 255) /\ Len(d) > 0
      /\ IF LongItem(d[1]) THEN Len(d) > 2 /\ Len(d) = 3 + d[2] ELSE Len(d) = 1 + ShortLength(d[1])
      /\ item.kind = CASE cmd = UsagePage -> "page"
                       [] cmd = Usage -> IF Len(d) = 5 THEN "long" ELSE "usage"
                       [] cmd = Collection -> "open"
                       [] cmd = EndCollection -> "close"
                       [] OTHER -> "other"
      /\ item.kind = "page" => item.page = Value(d)
      /\ item.kind = "usage" => item.usage = Value(d)
      /\ item.kind = "long" => item.usage = d[2] + 256 * d[3] /\ item.page = d[4] + 256 * d[5]

IsBlock(block) == block \in Seq(Range(block)) /\ \A i \in 1 .. Len(block) : IsItem(block[i])

ASSUME BlocksAssumption == \A block \in Blocks : IsBlock(block)

ParserInit == blocks = <<>>

AddBlock == /\ Len(blocks) < MaxBlocks
            /\ \E block \in Blocks : blocks' = Append(blocks, block)

BytesOf(s) == FlattenSeq([i \in 1 .. Len(s) |-> s[i].bytes])

(* How many collections have begun and not ended after the n-th item.  One *)
(* that ends and has not begun counts for nothing.                         *)
Level(s) ==
  LET level[n \in 0 .. Len(s)] ==
        IF n = 0 THEN 0
        ELSE CASE s[n].kind = "open" -> level[n - 1] + 1
               [] s[n].kind = "close" -> Max({0, level[n - 1] - 1})
               [] OTHER -> level[n - 1]
  IN  level

(* The items that are inside no collection; those that begin one.          *)
Top(s) == {i \in 1 .. Len(s) : Level(s)[i - 1] = 0}

Collections(s) == {i \in Top(s) : s[i].kind = "open"}

(* The usages for the i-th item, since the last collection; its pages.     *)
UsagesFor(s, i) == {j \in Top(s) : /\ j < i /\ s[j].kind \in {"usage", "long"}
                                   /\ \A k \in j .. i - 1 : s[k].kind # "open"}

PagesFor(s, i) == {j \in Top(s) : j < i /\ s[j].kind \in {"page", "long"}}

(* Every collection ends.  It has one usage, and its page is stated before *)
(* it.  A usage with a page of its own changes the page of those that      *)
(* follow, which the HID standard does not say: the two are not mixed.  A  *)
(* page inside a collection is allowed, and does not count here after it,  *)
(* as in the code, which skips what is inside.  By linux/hid.c:361 a page  *)
(* is global; what it is then for the collections that follow is not told. *)
Proper(s) == /\ Level(s)[Len(s)] = 0 /\ Collections(s) # {}
             /\ \A i \in Collections(s) : Cardinality(UsagesFor(s, i)) = 1 /\ PagesFor(s, i) # {}
             /\ ~ \E i, j \in Top(s) : s[i].kind = "page" /\ s[j].kind = "long"

UsageOf(s, i) == <<s[Max(PagesFor(s, i))].page, s[Max(UsagesFor(s, i))].usage>>

(* The usages of the top-level collections in their order.                 *)
TopUsages(s) ==
  [n \in 1 .. Cardinality(Collections(s)) |->
     UsageOf(s, CHOOSE i \in Collections(s) : Cardinality({j \in Collections(s) : j <= i}) = n)]

(* The page of the first one does not change after its usage.              *)
PageComesFirst(s) ==
  LET first == Min(Collections(s))
  IN  \/ Max(PagesFor(s, first)) <= Max(UsagesFor(s, first))
      \/ Cardinality(PagesFor(s, first)) = 1

(* In a proper descriptor Linux and NetBSD find the usage of every         *)
(* top-level collection, in their order, whatever is inside them; and      *)
(* libusb finds the first one, when its page does not change after the     *)
(* usage.                                                                  *)
AllFound(s, d) ==
  Proper(s) => /\ DeviceUsages(d) = TopUsages(s)
               /\ PageComesFirst(s) => GetUsage(d) = TopUsages(s)[1]

(* A descriptor that is cut off anywhere is read within its bounds and has *)
(* no more usages than collections that begin, or one for the device.      *)
NoneInvented(s, d) ==
  /\ Len(DeviceUsages(d)) \in 1 .. Max({1, Cardinality(Collections(s))})
  /\ GetUsage(d) \in Nat \X Nat

(* Of every descriptor; of those that are cut off, in the last block, as   *)
(* shorter ones are states before.                                         *)
DescriptorUsages ==
  LET s == FlattenSeq(blocks)
      least == Len(BytesOf(FlattenSeq(SubSeq(blocks, 1, Len(blocks) - 1))))
  IN  /\ AllFound(s, BytesOf(s))
      /\ \A n \in least .. Len(BytesOf(s)) : NoneInvented(s, SubSeq(BytesOf(s), 1, n))
=============================================================================

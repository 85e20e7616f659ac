----------------------------- MODULE HidReports -----------------------------
(***************************************************************************)
(* The data of one report on their way through hidapi.  The program's      *)
(* buffer begins with the report id, 0 for a device without ids; the       *)
(* systems differ in whether they want that 0, whether they count it, and  *)
(* what lengths they take.                                                 *)
(***************************************************************************)
EXTENDS Integers, Sequences, SequencesExt

CONSTANTS
  ReportIds,  \* the sets of ids that a device may have: {0}, or others
  Payloads,   \* what a report of it may have
  Room,       \* how long a buffer may be
  UcrSize     \* netbsd: sizeof(ucr_data)

ASSUME ReportsAssumption ==
  /\ ReportIds \subseteq SUBSET (0 .. 255)
  /\ Payloads \subseteq Seq(0 .. 255)
  /\ \E p \in Payloads : \A q \in Payloads : Len(p) >= Len(q)
  /\ Room \in Nat /\ UcrSize \in Nat

VARIABLES
  io,       \* the transfer: os, function, the ids of the device, the buffer
            \* when it is called, the report that comes from the device
  pending,  \* it is not over
  got,      \* the report that the device has received, if any
  buffer,   \* the program's
  returned  \* by the call

reportVars == <<io, pending, got, buffer, returned>>

Sends == {"hid_write", "hid_send_feature_report"}

Zeros(n) == [i \in 1 .. n |-> 0]
Upto(n, bytes) == SubSeq(bytes, 1, IF n < Len(bytes) THEN n ELSE Len(bytes))
Onto(old, offset, bytes) ==
  Upto(offset, old) \o bytes \o SubSeq(old, offset + Len(bytes) + 1, Len(old))

(* The program names an id of the device, and passes no bytes only to what *)
(* looks for that.  What NetBSD delivers for hid_read when there are ids   *)
(* is up to its kernel.                                                    *)
ReportsInit ==
  /\ \E os \in {"libusb", "mac", "linux", "netbsd", "windows"}, ids \in ReportIds,
        function \in Sends \cup {"get_report", "hid_read"}, p \in Payloads, n \in 0 .. Room :
     \E id, from \in ids :
       io = [os |-> os, function |-> function, ids |-> ids, report |-> <<from>> \o p,
             data |-> Upto(n, <<id>> \o IF function \in Sends THEN p \o p ELSE Zeros(Room))]
  /\ io.function = "get_report" /\ io.data # <<>> => Head(io.report) = Head(io.data)
  /\ io.data = <<>> => \/ io.function \in {"hid_write", "hid_read"}
                       \/ io.os \in {"netbsd", "windows"}
                       \/ io.os = "mac" /\ io.function \in Sends
  /\ io.os = "netbsd" /\ io.function = "hid_read" => io.ids = {0}
  /\ pending = TRUE /\ got = <<>> /\ buffer = io.data /\ returned = 0

-----------------------------------------------------------------------------
(* What the system and the device do. *)

(* A report is sent with its id, unless that is 0. *)
OnWire(report) == IF Head(report) = 0 THEN Tail(report) ELSE report
OffWire(id, bytes) == IF id = 0 THEN <<0>> \o bytes ELSE bytes

Longest == Len(CHOOSE p \in Payloads : \A q \in Payloads : Len(p) >= Len(q)) + 1

-----------------------------------------------------------------------------
Returns(n) == returned' = n /\ pending' = FALSE /\ UNCHANGED io

Fail == Returns(-1) /\ UNCHANGED <<got, buffer>>

Skipped == IF Head(io.data) = 0 THEN 1 ELSE 0

SendAs(report, n) == got' = report /\ Returns(n) /\ UNCHANGED buffer

Deliver(offset, bytes, n) == buffer' = Onto(io.data, offset, bytes) /\ Returns(n) /\ UNCHANGED got

(* libusb and mac tell the id apart from the data, and leave out a 0. *)
UsbSend == LET sent == SubSeq(io.data, 1 + Skipped, Len(io.data))
           IN  SendAs(OffWire(Head(io.data), sent), Len(sent) + Skipped)

MacSend == SendAs(OffWire(Head(io.data), SubSeq(io.data, 1 + Skipped, Len(io.data))), Len(io.data))

(* linux leaves all to the kernel. *)
LinuxSend == SendAs(io.data, Len(io.data))

(* netbsd has a node for the id.  How long the data are the kernel is not  *)
(* told: it takes as much as the report has, out of ucr_data, whose rest   *)
(* is undefined.                                                           *)
NetbsdSend ==
  IF Len(io.data) - 1 > UcrSize THEN Fail
  ELSE \E n \in 0 .. UcrSize, rest \in [1 .. UcrSize -> {0, 1}] :
         SendAs(Upto(n + 1, io.data \o rest), Len(io.data))

(* windows wants as much as the longest report has.  hid_write counts what *)
(* is added; HidD_SetFeature cuts off what is more, and does not tell.     *)
WindowsSend ==
  LET sent == io.data \o Zeros(IF Len(io.data) < Longest THEN Longest - Len(io.data) ELSE 0)
  IN  IF io.function = "hid_write" THEN SendAs(sent, Len(sent))
                                   ELSE SendAs(Upto(Longest, sent), Len(io.data))

Send == /\ io.function \in Sends /\ io.data # <<>>
        /\ CASE io.os = "libusb" -> UsbSend [] io.os = "mac" -> MacSend
             [] io.os = "linux" -> LinuxSend [] io.os = "netbsd" -> NetbsdSend
             [] io.os = "windows" -> WindowsSend

-----------------------------------------------------------------------------
(* Wrong (for ReportIsWhole): does not count the id. *)
UncountedGet == LET bytes == Upto(Len(io.data) - Skipped, OnWire(io.report))
                IN  Deliver(Skipped, bytes, Len(bytes))

(* hid_get_feature_report and hid_get_input_report. *)
UsbGet == LET bytes == Upto(Len(io.data) - Skipped, OnWire(io.report))
          IN  Deliver(Skipped, bytes, Len(bytes) + Skipped)

LinuxGet == LET bytes == Upto(Len(io.data), io.report) IN Deliver(0, bytes, Len(bytes))

(* netbsd: what is left of ucr_data is undefined, and is delivered and     *)
(* counted.                                                                *)
NetbsdGet ==
  \E rest \in [1 .. UcrSize -> {0, 1}] :
    LET bytes == Upto(Len(io.data) - 1, Upto(UcrSize, Tail(io.report) \o rest))
    IN  Deliver(1, bytes, Len(bytes) + 1)

(* windows counts a 0 only afterwards. *)
WindowsGet == IF Len(io.data) < Longest THEN Fail
              ELSE Deliver(0, io.report, Len(OnWire(io.report)) + Skipped)

GetReport == /\ io.function = "get_report" /\ io.data # <<>>
             /\ CASE io.os \in {"libusb", "mac"} -> UsbGet [] io.os = "linux" -> LinuxGet
                  [] io.os = "netbsd" -> NetbsdGet [] io.os = "windows" -> WindowsGet

(* hid_read, of a report that has come. *)
GiveData == LET bytes == Upto(Len(io.data), OnWire(io.report)) IN Deliver(0, bytes, Len(bytes))

(* windows puts even a 0 before it, and fills it up. *)
WindowsData ==
  LET read_buf == io.report \o Zeros(Longest - Len(io.report))
      bytes == Upto(Len(io.data), IF Head(read_buf) = 0 THEN Tail(read_buf) ELSE read_buf)
  IN  Deliver(0, bytes, Len(bytes))

HidRead == /\ io.function = "hid_read"
           /\ IF io.os = "windows" THEN io.data # <<>> /\ WindowsData ELSE GiveData

(* An error of the system, or a device that is gone; or no bytes. *)
Transfer == pending /\ (Send \/ GetReport \/ HidRead \/ Fail)
-----------------------------------------------------------------------------
IsPadded(bytes, report) == \E n \in 0 .. Longest : bytes = report \o Zeros(n)

(* One begins with the other. *)
Agree(a, b) == Upto(Len(a), b) = Upto(Len(b), a)

(* What a call that succeeds has moved is one whole report: its id, and    *)
(* its data at the place that the id leaves them, wherever the id is told  *)
(* apart.  Of data that are not as long as the report Windows sends as     *)
(* many as a feature report has, or zeros at their end, and NetBSD the     *)
(* beginning, or undefined bytes at their end.  A shorter buffer gets the  *)
(* beginning of a report, and nothing is written behind the buffer.  What  *)
(* the call returns is the length of it in the buffer, id included, but    *)
(* for three: hid_write and hid_read on Windows count the zeros; and where *)
(* hidapi.h:441 and 469 say "This function returns the number of bytes     *)
(* read plus one for the report ID", NetBSD returns what was asked for, at *)
(* most all of ucr_data, so that only bounds can be claimed of it.         *)
ReportIsWhole ==
  /\ Len(buffer) = Len(io.data)
  /\ ~pending /\ returned >= 0 /\ io.function \in Sends =>
       /\ CASE io.os = "netbsd" -> Agree(got, io.data)
            [] io.os = "windows" /\ io.function = "hid_write" -> IsPadded(got, io.data)
            [] io.os = "windows" /\ io.function # "hid_write" -> IsPadded(got, Upto(Longest, io.data))
            [] OTHER -> got = io.data
       /\ returned = IF io.os = "windows" /\ io.function = "hid_write" THEN Len(got) ELSE Len(io.data)
  /\ ~pending /\ returned >= 0 /\ io.function \notin Sends =>
       LET whole == CASE io.function = "hid_read" -> OnWire(io.report)
                      [] io.function # "hid_read" /\ io.os = "netbsd" -> Upto(UcrSize + 1, io.report)
                      [] OTHER -> io.report
           moved == Upto(Len(io.data), whole)
       IN  /\ Upto(Len(moved), buffer) = moved
           /\ \/ returned = Len(moved)
              \/ io.os = "windows" /\ io.function = "hid_read" /\ returned \in Len(moved) .. Len(io.data)
              \/ io.os = "netbsd" /\ io.function = "get_report" /\ returned \in Len(moved) .. Len(io.data)
=============================================================================

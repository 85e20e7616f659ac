------------------------------ MODULE HidPosix ------------------------------
(***************************************************************************)
(* The Linux (hidraw) and NetBSD (uhid) implementations: the kernel keeps  *)
(* the reports, hid_read_timeout polls and reads.  A Linux device is one   *)
(* file, a NetBSD device one node for each report id.                      *)
(***************************************************************************)
EXTENDS HidCalls, SequencesExt

(* The files of the device. *)
Files == IF backend = "linux" THEN <<"hidraw">> ELSE Uhids

FileOf(report) == Files[(report % Len(Files)) + 1]

(* The oldest report in a file. *)
IsFirst(i, file) == /\ FileOf(queue[i]) = file
                    /\ \A j \in 1 .. i - 1 : FileOf(queue[j]) # file

Readable == {FileOf(queue[i]) : i \in 1 .. Len(queue)}

(* The kernel's buffer; Linux drops what comes when it is full. *)
KernelReceives ==
  /\ Connected /\ ~broken /\ sent < MaxReports
  /\ FileOf(sent + 1) \in owned
  /\ sent' = sent + 1
  /\ queue' = IF Len(queue) < Limit THEN Append(queue, sent + 1) ELSE queue
  /\ UNCHANGED <<backend, broken, owner, readVars, owned, threadVars>>

-----------------------------------------------------------------------------
(* hid_open_path. *)

(* netbsd: a device that is no uhid parent gives everything back. *)
OpenStarts ==
  /\ owner = "closed" /\ ~broken /\ owner' = "starting" /\ sent' = 0
  /\ owned' = owned \cup {"dev"} \cup (IF backend = "linux" THEN {} ELSE {"drvctl"})
  /\ UNCHANGED <<backend, broken, queue, readVars, threadVars>>

AllOpen == \A i \in 1 .. Len(Files) : Files[i] \in owned

OpenFile ==
  /\ owner = "starting" /\ ~AllOpen
  /\ \E i \in 1 .. Len(Files) : /\ Files[i] \notin owned
                                /\ \A j \in 1 .. i - 1 : Files[j] \in owned
                                /\ owned' = owned \cup {Files[i]}
  /\ UNCHANGED <<backend, broken, sent, queue, owner, readVars, threadVars>>

(* A file that cannot be opened, or that does not answer as a HID file     *)
(* does.                                                                   *)
OpenFails ==
  /\ owner = "starting" /\ owner' = "closed"
  /\ owned' = owned \ ({"dev", "drvctl"} \cup {Files[i] : i \in 1 .. Len(Files)})
  /\ queue' = <<>>
  /\ UNCHANGED <<backend, broken, sent, readVars, threadVars>>

(* netbsd: drvctl stays open, and its number is forgotten. *)
OpenDone ==
  /\ owner = "starting" /\ AllOpen /\ owner' = "open"
  /\ owned' = (owned \ {"drvctl"}) \cup (IF "drvctl" \in owned THEN {"lost_drvctl"} ELSE {})
  /\ UNCHANGED <<backend, broken, sent, queue, readVars, threadVars>>

-----------------------------------------------------------------------------
(* hid_read_timeout. *)

(* linux: a blocking read is a read(); otherwise poll() comes first, and   *)
(* tells of a device that is gone even when reports are left.              *)
PollFails ==
  /\ reader = "entered" /\ broken
  /\ backend = "netbsd" \/ wait # "block"
  /\ Return(-1)
  /\ UNCHANGED <<backend, broken, sent, queue, owner, owned, threadVars>>

PollTimesOut ==
  /\ reader = "entered" /\ wait # "block"
  /\ queue = <<>> /\ ~broken
  /\ Return(0)
  /\ UNCHANGED <<backend, broken, sent, queue, owner, owned, threadVars>>

PollReady ==
  /\ reader = "entered" /\ queue # <<>> /\ ~broken /\ reader' = "ready"
  /\ UNCHANGED <<backend, broken, sent, queue, owner, wait, result, owned, threadVars>>

(* The first file in the array that has something. *)
PosixRead ==
  /\ reader = "ready" \/ (reader = "entered" /\ wait = "block" /\ backend = "linux")
  /\ \/ \E i \in 1 .. Len(queue), n \in 1 .. Len(Files) :
          /\ IsFirst(i, Files[n])
          /\ \A j \in 1 .. n - 1 : Files[j] \notin Readable
          /\ Return(queue[i]) /\ queue' = RemoveAt(queue, i)
     \/ queue = <<>> /\ broken /\ Return(-1) /\ UNCHANGED queue
  /\ UNCHANGED <<backend, broken, sent, owner, owned, threadVars>>

PosixLook == PollFails \/ PollTimesOut \/ PollReady \/ PosixRead

-----------------------------------------------------------------------------
PosixClose ==
  /\ owner = "open" /\ reader = "idle" /\ owner' = "closed"
  /\ owned' = owned \ ({"dev"} \cup {Files[i] : i \in 1 .. Len(Files)})
  /\ queue' = <<>>
  /\ UNCHANGED <<backend, broken, sent, readVars, threadVars>>

PosixNext == \/ KernelReceives \/ PosixClose
             \/ OpenStarts \/ OpenFile \/ OpenFails \/ OpenDone
             \/ PosixLook
=============================================================================

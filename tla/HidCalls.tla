------------------------------ MODULE HidCalls ------------------------------
(***************************************************************************)
(* What the implementations of hid_device (src/src/hidapi, one per         *)
(* platform) share: a device that sends numbered reports, a thread that    *)
(* opens and closes it, a thread that reads it, and in two of them a       *)
(* thread of the library that receives.  As TbiDevice does, the program    *)
(* closes a device only when its reader has returned.                      *)
(***************************************************************************)
EXTENDS Integers, Sequences, FiniteSets

CONSTANTS
  Backends,    \* the implementations that are checked
  MaxReports,  \* bounds what the device sends while it is open
  MaxQueued,   \* 30 in the code
  Uhids        \* netbsd: the names of the device's uhid nodes, one per report id

ASSUME HidAssumption == /\ Backends \subseteq {"libusb", "mac", "linux", "netbsd", "windows"}
                        /\ MaxQueued \in Nat
                        /\ Uhids \in Seq(STRING) /\ Uhids # <<>>

VARIABLES
  backend,   \* the implementation that is built
  broken,    \* the device is unplugged, or I/O with it has failed
  sent,      \* the reports 1 .. sent have been received
  queue,     \* those that wait for a read, oldest first
  owner,     \* where the thread is that opens and closes
  reader,    \* where the thread is that reads
  wait,      \* the time limit of its call, "none" between calls
  result,    \* of its last call: a report, 0 for none, -1 for an error
  owned,     \* what is acquired for the device and not given back
  thread,    \* where the library's read thread is
  shutdown   \* shutdown_thread

readVars == <<reader, wait, result>>
threadVars == <<thread, shutdown>>
callVars == <<backend, broken, sent, queue, owner, readVars, owned, threadVars>>

CallsInit == /\ backend \in Backends /\ broken = FALSE
             /\ sent = 0 /\ queue = <<>>
             /\ owner = "closed" /\ owned = {}
             /\ reader = "idle" /\ wait = "none" /\ result = 0
             /\ thread = "none" /\ shutdown = FALSE

(* The linked list of libusb and macOS, with the names of its fields: one  *)
(* is popped when more than 30 follow the first.                           *)
Limit == MaxQueued + 2

Attached(report) ==
  LET num_queued == Len(queue) - 1
  IN  IF num_queued > MaxQueued THEN Append(Tail(queue), report)
                                ELSE Append(queue, report)

(* Reports come in from here on. *)
Connected == owner \in {"starting", "open", "writing"}

-----------------------------------------------------------------------------
(* The device and the program. *)

Unplug == /\ ~broken /\ broken' = TRUE
          /\ UNCHANGED <<backend, sent, queue, owner, readVars, owned, threadVars>>

Plug == /\ broken /\ owner = "closed" /\ broken' = FALSE
        /\ UNCHANGED <<backend, sent, queue, owner, readVars, owned, threadVars>>

(* hid_read calls hid_read_timeout with -1 or 0, as hid_set_nonblocking    *)
(* has told.                                                               *)
Read == /\ owner \in {"open", "writing"} /\ reader = "idle"
        /\ reader' = "entered" /\ wait' \in {"block", "time", "poll"}
        /\ UNCHANGED <<backend, broken, sent, queue, owner, result, owned, threadVars>>

Return(r) == reader' = "idle" /\ wait' = "none" /\ result' = r

ReturnData == Return(Head(queue)) /\ queue' = Tail(queue)

(* pthread_cond_signal and pthread_cond_broadcast, with one reader. *)
Signal == /\ reader' = IF reader = "waiting" THEN "woken" ELSE reader
          /\ UNCHANGED <<wait, result>>
=============================================================================

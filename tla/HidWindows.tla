----------------------------- MODULE HidWindows -----------------------------
(***************************************************************************)
(* The Windows implementation (src/src/hidapi/windows/hid.c).  Reads and   *)
(* writes are overlapped: a read that times out stays pending for the next *)
(* call, a write for nobody; every write uses the one OVERLAPPED of the    *)
(* device.  hid_close waits for neither.                                   *)
(***************************************************************************)
EXTENDS HidCalls

CONSTANT MaxWrites  \* bounds the writes while the device is open

VARIABLES
  readPending,  \* dev->read_pending
  reading,      \* the system still has the read, and will put a report into read_buf
  readBuf,      \* what it has put there: a report, 0 for nothing yet, -1 for an error
  issued,       \* the writes 1 .. issued have been given to the system
  written,      \* so many of these have been written
  failed,       \* and so many have ended otherwise
  event,        \* write_ol.hEvent: "reset", or how the write ended that has signalled it
  writeResult,  \* of the last hid_write: "none", "busy", "ok" or "error"
  writeTimeout  \* a hid_write has timed out on this device

winVars == <<readPending, reading, readBuf, issued, written, failed, event, writeResult, writeTimeout>>
winReads == <<readPending, reading, readBuf>>
winWrites == <<issued, written, failed, event, writeResult, writeTimeout>>

WinInit == /\ readPending = FALSE /\ reading = FALSE /\ readBuf = 0
           /\ issued = 0 /\ written = 0 /\ failed = 0 /\ event = "reset"
           /\ writeResult = "none" /\ writeTimeout = FALSE

(* A write that the system still has. *)
Running == written + failed < issued

Held == {queue[i] : i \in 1 .. Len(queue)} \cup ({readBuf} \ {0, -1})

(* The system's buffers for input reports. *)
DriverReceives ==
  /\ Connected /\ ~broken /\ sent < MaxReports /\ "handle" \in owned
  /\ sent' = sent + 1
  /\ queue' = IF Cardinality(Held) < Limit \/ queue = <<>>
              THEN Append(queue, sent + 1) ELSE Append(Tail(queue), sent + 1)
  /\ UNCHANGED <<backend, broken, owner, readVars, owned, threadVars, winVars>>

-----------------------------------------------------------------------------
(* hid_open_path. *)

(* With new_hid_device, whose fields nobody sees before.  What was left    *)
(* running for an earlier device is not followed any further.              *)
OpenWinHandle ==
  /\ owner = "closed" /\ ~broken
  /\ owner' = "starting" /\ owned' = owned \cup {"handle"} /\ sent' = 0
  /\ readPending' = FALSE /\ reading' = FALSE /\ readBuf' = 0
  /\ issued' = 0 /\ written' = 0 /\ failed' = 0 /\ event' = "reset"
  /\ writeResult' = "none" /\ writeTimeout' = FALSE
  /\ UNCHANGED <<backend, broken, queue, readVars, threadVars>>

GetPreparsedData ==
  /\ owner = "starting" /\ "ppdata" \notin owned
  /\ owned' = owned \cup {"ppdata"}
  /\ UNCHANGED <<backend, broken, sent, queue, owner, readVars, threadVars, winVars>>

WinOpenFails ==
  /\ owner = "starting" /\ owner' = "closed"
  /\ owned' = owned \ {"handle", "ppdata"} /\ queue' = <<>>
  /\ UNCHANGED <<backend, broken, sent, readVars, threadVars, winVars>>

NewDevice ==
  /\ owner = "starting" /\ "ppdata" \in owned
  /\ owner' = "open"
  /\ owned' = (owned \ {"ppdata"}) \cup {"dev", "read_buf", "events"}
  /\ UNCHANGED <<backend, broken, sent, queue, readVars, threadVars, winVars>>

WinOpen == OpenWinHandle \/ GetPreparsedData \/ WinOpenFails \/ NewDevice

-----------------------------------------------------------------------------
(* hid_read_timeout. *)

ReadFile ==
  /\ reader = "entered"
  /\ \/ /\ ~readPending /\ queue # <<>> /\ ReturnData /\ UNCHANGED winReads
     \/ /\ ~readPending /\ broken /\ Return(-1) /\ UNCHANGED <<queue, winReads>>
     \/ /\ readPending' = TRUE /\ reading' = (reading \/ ~readPending)
        /\ readBuf' = IF readPending THEN readBuf ELSE 0
        /\ reader' = "waiting" /\ UNCHANGED <<wait, result, queue>>
  /\ UNCHANGED <<backend, broken, sent, owner, owned, threadVars, winWrites>>

(* The system completes the read, also between two calls. *)
CompleteRead ==
  /\ reading /\ reading' = FALSE /\ "handle" \in owned
  /\ \/ queue # <<>> /\ readBuf' = Head(queue) /\ queue' = Tail(queue)
     \/ queue = <<>> /\ broken /\ readBuf' = -1 /\ UNCHANGED queue
  /\ UNCHANGED <<backend, broken, sent, owner, readVars, owned, threadVars, readPending, winWrites>>

(* GetOverlappedResult. *)
TakeRead ==
  /\ reader = "waiting" /\ readBuf # 0
  /\ Return(readBuf) /\ readBuf' = 0 /\ readPending' = FALSE
  /\ UNCHANGED <<backend, broken, sent, queue, owner, owned, threadVars, reading, winWrites>>

(* Wrong (for ImplementsHandle): the read is left running and forgotten. *)
TimeOutAndForget ==
  /\ reader = "waiting" /\ wait # "block" /\ readBuf = 0
  /\ Return(0) /\ readPending' = FALSE
  /\ UNCHANGED <<backend, broken, sent, queue, owner, owned, threadVars, reading, readBuf, winWrites>>

(* WaitForSingleObject times out: the read is left running. *)
WinTimeOut ==
  /\ reader = "waiting" /\ wait # "block" /\ readBuf = 0
  /\ Return(0)
  /\ UNCHANGED <<backend, broken, sent, queue, owner, owned, threadVars, winVars>>

WinRead == ReadFile \/ TakeRead \/ WinTimeOut

-----------------------------------------------------------------------------
(* hid_write. *)

(* WriteFile clears the event.  When it is done at once the result is -1   *)
(* all the same.                                                           *)
WriteFile ==
  /\ owner = "open" /\ issued < MaxWrites /\ owned' = owned \cup {"write_buf"}
  /\ \/ /\ issued' = issued + 1 /\ event' = "reset"
        /\ owner' = "writing" /\ writeResult' = "busy" /\ UNCHANGED written
     \/ /\ ~Running /\ ~broken
        /\ issued' = issued + 1 /\ written' = written + 1 /\ event' = "written"
        /\ writeResult' = "error" /\ UNCHANGED owner
     \/ /\ broken /\ writeResult' = "error" /\ UNCHANGED <<issued, written, event, owner>>
  /\ UNCHANGED <<backend, broken, sent, queue, readVars, threadVars, winReads, failed, writeTimeout>>

(* The system ends its writes in the order of the calls. *)
CompleteWrite ==
  /\ Running /\ ~broken /\ "handle" \in owned
  /\ written' = written + 1 /\ event' = "written"
  /\ UNCHANGED <<callVars, winReads, issued, failed, writeResult, writeTimeout>>

FailWrite ==
  /\ Running /\ broken /\ "handle" \in owned
  /\ failed' = failed + 1 /\ event' = "failed"
  /\ UNCHANGED <<callVars, winReads, issued, written, writeResult, writeTimeout>>

(* Wrong (for WriteTaken): nobody waits for the event. *)
DoneAtOnce ==
  /\ owner = "writing" /\ event' = "reset"
  /\ owner' = "open" /\ writeResult' = "ok"
  /\ UNCHANGED <<backend, broken, sent, queue, readVars, owned, threadVars, winReads,
                 issued, written, failed, writeTimeout>>

(* The event resets itself.  GetOverlappedResult tells how the write has   *)
(* ended that set it.                                                      *)
WriteDone ==
  /\ owner = "writing" /\ event # "reset" /\ event' = "reset"
  /\ owner' = "open" /\ writeResult' = IF event = "written" THEN "ok" ELSE "error"
  /\ UNCHANGED <<backend, broken, sent, queue, readVars, owned, threadVars, winReads,
                 issued, written, failed, writeTimeout>>

(* After a second.  The write is left running. *)
WriteTimesOut ==
  /\ owner = "writing" /\ event = "reset"
  /\ owner' = "open" /\ writeResult' = "error" /\ writeTimeout' = TRUE
  /\ UNCHANGED <<backend, broken, sent, queue, readVars, owned, threadVars, winReads,
                 issued, written, failed, event>>

-----------------------------------------------------------------------------
(* hid_close. *)

(* CancelIo only asks the system to end what is pending, *)
CancelIo ==
  /\ owner = "open" /\ reader = "idle" /\ owner' = "cancelled"
  /\ UNCHANGED <<backend, broken, sent, queue, readVars, owned, threadVars, winVars>>

(* and nobody waits until it has. *)
EndCancelled ==
  /\ owner \in {"cancelled", "closing", "closed"}
  /\ \/ reading /\ reading' = FALSE /\ UNCHANGED failed
     \/ Running /\ failed' = failed + 1 /\ UNCHANGED reading
  /\ UNCHANGED <<callVars, readPending, readBuf, issued, written, event, writeResult, writeTimeout>>

CloseHandles ==
  /\ owner = "cancelled" /\ owner' = "closing"
  /\ owned' = owned \ {"events", "handle"}
  /\ UNCHANGED <<backend, broken, sent, queue, readVars, threadVars, winVars>>

FreeBuffers ==
  /\ owner = "closing" /\ owner' = "closed"
  /\ owned' = owned \ {"read_buf", "write_buf", "dev"} /\ queue' = <<>> /\ readBuf' = 0
  /\ UNCHANGED <<backend, broken, sent, readVars, threadVars, readPending, reading, winWrites>>

WinClose == CloseHandles \/ FreeBuffers

-----------------------------------------------------------------------------
WinNext == \/ WinOpen \/ WinRead \/ CancelIo \/ WinClose
           \/ DriverReceives \/ CompleteRead \/ EndCancelled
           \/ WriteFile \/ CompleteWrite \/ FailWrite \/ WriteDone \/ WriteTimesOut

(* The system uses the OVERLAPPED, in the hid_device, and the buffer of    *)
(* what is pending; a call waits for an event.                             *)
WinInUse == (IF reading \/ reader # "idle" THEN {"read_buf", "dev"} ELSE {})
            \cup (IF Running THEN {"write_buf", "dev"} ELSE {})
            \cup (IF reader # "idle" \/ owner = "writing" THEN {"dev", "handle", "events"} ELSE {})

(* A call has timed out and left running what it was waiting for. *)
LeftRunning == readPending \/ writeTimeout
=============================================================================

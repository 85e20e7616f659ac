---------------------------- MODULE HidapiProofs ----------------------------
(***************************************************************************)
(* Theorems about an open hid_device in each of the five implementations,  *)
(* for any number of reports, writes and nodes.  Every invariant has one   *)
(* part per implementation: where the threads can be, and what is owned    *)
(* there.  At last, that each keeps the promise of HidHandle, for any size *)
(* of the queue and any report ids.                                        *)
(***************************************************************************)
EXTENDS HidProgram, FiniteSetTheorems, SequenceTheorems, TLAPS

(* libusb.  The transfer is submitted or its callback runs, or neither;    *)
(* once the loop is told that it has finished, neither again.              *)
UsbInv ==
  /\ flying \in BOOLEAN /\ finished \in BOOLEAN
  /\ thread \in {"none", "starting", "running", "leaving", "draining", "ended"}
  /\ owner \in {"closed", "wrapped", "opened", "detached", "claimed", "starting", "open",
                "stopping", "joining", "joined"}
  /\ thread = "none" <=> owner \in {"closed", "wrapped", "opened", "detached", "claimed", "joined"}
  /\ thread = "starting" => owner = "starting"
  /\ reader # "idle" => owner = "open"
  /\ callback # "none" => ~flying
  /\ flying \/ callback # "none" => thread \in {"running", "leaving", "draining"} /\ ~finished
  /\ thread = "starting" \/ owner \in {"wrapped", "opened", "detached", "claimed"} => ~finished
  /\ thread = "ended" => finished
  /\ owned \subseteq {"devs", "conf_desc", "lost_conf_desc", "dev", "handle", "driver", "interface", "transfer"}
  /\ owner = "closed" => owned \subseteq {"lost_conf_desc"}
  /\ owner # "closed" => {"dev", "handle"} \subseteq owned
  /\ "interface" \in owned => owner \notin {"closed", "wrapped", "opened", "detached"}
  /\ "devs" \in owned \/ "conf_desc" \in owned
       => owner \in {"opened", "detached", "claimed", "starting"}
  /\ "transfer" \in owned <=> thread \notin {"none", "starting"}

(* mac.  The run loop and its source are there from the start of the       *)
(* thread on, the one until it ends, the other until the device is freed.  *)
MacInv ==
  /\ thread \in {"none", "starting", "testing", "running", "stopped", "leaving", "parked", "ended"}
  /\ owner \in {"closed", "opened", "created", "starting", "open", "unregistered", "stopping", "joining", "joined"}
  /\ thread = "none" <=> owner \in {"closed", "opened", "created", "joined"}
  /\ thread = "starting" => owner = "starting"
  /\ thread = "ended" => owner = "joining"
  /\ reader # "idle" => owner = "open"
  /\ macos \in {"old", "new"}
  /\ owned \subseteq {"dev", "entry", "handle", "opened", "lost_opened", "source", "loop"}
  /\ owner # "closed" <=> "dev" \in owned
  /\ "handle" \in owned <=> owner \notin {"closed", "opened"}
  /\ "entry" \in owned <=> owner \in {"opened", "created", "starting"}
  /\ "source" \in owned <=> thread \notin {"none", "starting"} \/ owner = "joined"
  /\ "loop" \in owned <=> thread \notin {"none", "starting", "ended"}
  /\ "opened" \in owned => owner \in {"starting", "open", "unregistered", "stopping", "joining"}
  /\ "lost_opened" \in owned => macos = "old"

(* linux and netbsd. *)
PosixInv ==
  /\ owner \in {"closed", "starting", "open"}
  /\ reader # "idle" => owner = "open"
  /\ owner # "closed" => "dev" \in owned
  /\ owned \subseteq {"dev", "drvctl", "lost_drvctl"} \cup {Files[i] : i \in 1 .. Len(Files)}
  /\ backend = "linux" \/ owner # "starting" => "drvctl" \notin owned
  /\ backend = "linux" => "lost_drvctl" \notin owned
  /\ owner = "closed" => owned \subseteq {"lost_drvctl"}

(* windows.  A read may be pending from the opening on, also after the     *)
(* call that began it has timed out, and a write too.                      *)
WinInv ==
  /\ reading \in BOOLEAN /\ readPending \in BOOLEAN
  /\ issued \in Nat /\ written \in Nat /\ failed \in Nat
  /\ owner \in {"closed", "starting", "open", "writing", "cancelled", "closing"}
  /\ reader # "idle" => owner \in {"open", "writing"}
  /\ reading => readPending /\ readBuf = 0 /\ owner # "starting"
  /\ owner = "starting" => issued = 0
  /\ owner = "closed" => owned = {}
  /\ owner = "starting" => "handle" \in owned /\ owned \subseteq {"handle", "ppdata"}
  /\ owner \in {"open", "writing", "cancelled"} =>
       /\ {"handle", "dev", "read_buf", "events"} \subseteq owned
       /\ issued > 0 => "write_buf" \in owned
  /\ owned \subseteq {"handle", "ppdata", "dev", "read_buf", "write_buf", "events"}
  /\ "ppdata" \in owned => owner = "starting"
  /\ "events" \in owned \/ "handle" \in owned => owner \in {"starting", "open", "writing", "cancelled"}

OwnedInv == /\ backend \in {"libusb", "mac", "linux", "netbsd", "windows"}
            /\ backend = "libusb" => UsbInv
            /\ backend = "mac" => MacInv
            /\ backend \in {"linux", "netbsd"} => PosixInv
            /\ backend = "windows" => WinInv

LEMMA InitOwned == Init => OwnedInv
<1> SUFFICES ASSUME HandleInit PROVE OwnedInv
  BY DEF Init
<1> USE DEF HandleInit, CallsInit
<1>1. UsbInv
  BY DEF UsbInit, UsbInv
<1>2. MacInv
  BY MacAssumption DEF MacInit, MacInv
<1>3. PosixInv
  BY DEF PosixInv
<1>4. WinInv
  BY DEF WinInit, WinInv
<1> QED
  BY <1>1, <1>2, <1>3, <1>4, HidAssumption DEF OwnedInv

(* Calls and cables, in every implementation. *)
Outside == Unplug \/ Plug \/ Read

LEMMA OutsideOwned ==
  ASSUME OwnedInv, Outside, UNCHANGED <<usbVars, macVars, winVars>>
  PROVE  OwnedInv'
<1> USE DEF Outside, Unplug, Plug, Read, readVars, threadVars, usbVars, macVars, winVars
<1>1. CASE backend = "libusb"
  BY <1>1 DEF OwnedInv, UsbInv
<1>2. CASE backend = "mac"
  BY <1>2 DEF OwnedInv, MacInv
<1>3. CASE backend \in {"linux", "netbsd"}
  BY <1>3 DEF OwnedInv, PosixInv, Files
<1>4. CASE backend = "windows"
  BY <1>4 DEF OwnedInv, WinInv
<1> QED
  BY <1>1, <1>2, <1>3, <1>4 DEF OwnedInv

LEMMA UsbOwned ==
  ASSUME UsbInv, UsbNext
  PROVE  UsbInv'
<1> USE DEF UsbInv, readVars, threadVars, callVars, usbVars
<1>1. CASE OpenHandle
  BY <1>1 DEF OpenHandle, NewUsbDevice
<1>2. CASE DetachDriver
  BY <1>2 DEF DetachDriver, GiveUp
<1>3. CASE ClaimInterface
  BY <1>3 DEF ClaimInterface, GiveUp
<1>4. CASE CreateThread
  BY <1>4 DEF CreateThread
<1>5. CASE PassBarrier
  BY <1>5 DEF PassBarrier
<1>6. CASE Completes
  <2>1. PICK status \in {"completed", "cancelled", "no_device", "timed_out"} : Complete(status)
    BY <1>6 DEF Completes
  <2>2. /\ flying = TRUE /\ flying' = FALSE /\ callback' # "none"
        /\ UNCHANGED <<owner, thread, reader, owned, finished>>
    BY <2>1 DEF Complete
  <2> QED
    BY <2>2
<1>7. CASE TakeReport
  BY <1>7 DEF TakeReport, Signal
<1>8. CASE TakeStatus
  BY <1>8 DEF TakeStatus
<1>9. CASE TestShutdown
  BY <1>9 DEF TestShutdown
<1>10. CASE Resubmit
  <2>1. CASE flying' = TRUE /\ UNCHANGED <<shutdown, finished>>
    BY <1>10, <2>1 DEF Resubmit
  <2>2. CASE broken /\ shutdown' = TRUE /\ finished' = TRUE /\ UNCHANGED flying
    BY <1>10, <2>2 DEF Resubmit
  <2> QED
    BY <1>10, <2>1, <2>2 DEF Resubmit, Submit
<1>11. CASE StartThread
  <2>1. CASE flying' = TRUE /\ UNCHANGED <<shutdown, finished>>
    BY <1>11, <2>1 DEF StartThread
  <2>2. CASE broken /\ shutdown' = TRUE /\ finished' = TRUE /\ UNCHANGED flying
    BY <1>11, <2>2 DEF StartThread
  <2> QED
    BY <1>11, <2>1, <2>2 DEF StartThread, Submit
<1>12. CASE LeaveLoop
  BY <1>12 DEF LeaveLoop
<1>13. CASE CancelPending
  BY <1>13 DEF CancelPending, Cancel
<1>14. CASE WakeReader
  BY <1>14 DEF WakeReader, Signal
<1>15. CASE UsbLook
  BY <1>15 DEF UsbLook, ReturnData, Return
<1>16. CASE SpuriousWakeup
  BY <1>16 DEF SpuriousWakeup, Signal
<1>17. CASE TimeOut
  BY <1>17 DEF TimeOut, Return
<1>18. CASE StopThread
  BY <1>18 DEF StopThread
<1>19. CASE CancelTransfer
  BY <1>19 DEF CancelTransfer, Cancel
<1>20. CASE Join
  BY <1>20 DEF Join
<1>21. CASE Release
  BY <1>21 DEF Release
<1>22. CASE WrapHandle
  BY <1>22 DEF WrapHandle, NewUsbDevice
<1>23. CASE SelectInterface
  BY <1>23 DEF SelectInterface, GiveUp
<1> QED
  BY <1>1, <1>2, <1>3, <1>4, <1>5, <1>6, <1>7, <1>8, <1>9, <1>10, <1>11, <1>12, <1>13, <1>14, <1>15, <1>16, <1>17, <1>18, <1>19, <1>20, <1>21, <1>22, <1>23
  DEF UsbNext, UsbOpen, UsbCallback, UsbThread, UsbRead, UsbClose

LEMMA MacOwned ==
  ASSUME MacInv, MacNext
  PROVE  MacInv'
<1> USE DEF MacInv, readVars, threadVars, macVars
<1>1. CASE MacOpen
  BY <1>1 DEF MacOpen, OpenEntry, CreateDevice, OpenDevice, MacPassBarrier
<1>2. CASE MacThread
  BY <1>2 DEF MacThread, StartLoop, TestLoop, LoopStopped, Broadcast, Signal, EndThread
<1>3. CASE ReportCallback \/ RemovalCallback \/ PerformSignal \/ LoopTimesOut
  BY <1>3 DEF ReportCallback, Signal, RemovalCallback, PerformSignal, LoopTimesOut
<1>4. CASE MacRead
  BY <1>4 DEF MacRead, MacLook, ReturnData, Return, MacSpuriousWakeup, Signal, MacTimeOut
<1>5. CASE Unregister \/ MacClose
  BY <1>5 DEF Unregister, MacClose, StopLoop, WakeLoop, MacJoin, MacRelease, MayTouch
<1> QED
  BY <1>1, <1>2, <1>3, <1>4, <1>5 DEF MacNext

LEMMA PosixOwned ==
  ASSUME PosixInv, PosixNext
  PROVE  PosixInv'
<1> USE DEF PosixInv, readVars, threadVars
<1>0. Files' = Files
  BY DEF Files, PosixNext, KernelReceives, PosixClose, OpenStarts, OpenFile, OpenFails, OpenDone,
         PosixLook, PollFails, PollTimesOut, PollReady, PosixRead
<1>1. CASE OpenStarts \/ OpenFails \/ OpenDone \/ PosixClose
  BY <1>0, <1>1 DEF OpenStarts, OpenFails, OpenDone, PosixClose
<1>2. CASE OpenFile
  <2>1. ASSUME backend = "linux" PROVE \A i \in 1 .. Len(Files) : Files[i] = "hidraw"
    <3>1. Files = <<"hidraw">>
      BY <2>1 DEF Files
    <3> HIDE DEF PosixInv
    <3> QED
      BY <3>1
  <2>2. PICK i \in 1 .. Len(Files) : owned' = owned \cup {Files[i]}
    BY <1>2 DEF OpenFile
  <2>3. owner = "starting" /\ UNCHANGED <<backend, owner, reader>>
    BY <1>2 DEF OpenFile
  <2> QED
    BY <1>0, <2>1, <2>2, <2>3
<1>3. CASE KernelReceives \/ PosixLook
  BY <1>0, <1>3 DEF KernelReceives, PosixLook, PollFails, PollTimesOut, PollReady, PosixRead, Return
<1> QED
  BY <1>1, <1>2, <1>3 DEF PosixNext

LEMMA WinOwned ==
  ASSUME WinInv, WinNext
  PROVE  WinInv'
<1> USE DEF WinInv, readVars, threadVars, callVars, winVars, winReads, winWrites
<1>1. CASE OpenWinHandle
  BY <1>1 DEF OpenWinHandle
<1>2. CASE GetPreparsedData
  BY <1>2 DEF GetPreparsedData
<1>3. CASE WinOpenFails
  BY <1>3 DEF WinOpenFails
<1>4. CASE NewDevice
  BY <1>4 DEF NewDevice
<1>5. CASE ReadFile
  <2>1. CASE UNCHANGED winReads /\ reader' = "idle"
    BY <1>5, <2>1 DEF ReadFile
  <2>2. CASE /\ readPending' = TRUE /\ reading' = (reading \/ ~readPending)
             /\ readBuf' = IF readPending THEN readBuf ELSE 0
    <3>1. reading' \in BOOLEAN /\ readPending' \in BOOLEAN /\ readPending'
      BY <2>2
    <3>2. reading' => readBuf' = 0
      BY <2>2
    <3>3. owner \in {"open", "writing"}
      BY <1>5 DEF ReadFile
    <3>4. UNCHANGED <<owner, owned, issued, written, failed>>
      BY <1>5 DEF ReadFile
    <3> QED
      BY <3>1, <3>2, <3>3, <3>4
  <2> QED
    BY <1>5, <2>1, <2>2 DEF ReadFile, ReturnData, Return
<1>6. CASE TakeRead
  BY <1>6 DEF TakeRead, Return
<1>7. CASE WinTimeOut
  BY <1>7 DEF WinTimeOut, Return
<1>8. CASE DriverReceives
  BY <1>8 DEF DriverReceives
<1>9. CASE CompleteRead
  BY <1>9 DEF CompleteRead
<1>10. CASE WriteFile
  BY <1>10 DEF WriteFile
<1>11. CASE CompleteWrite
  BY <1>11 DEF CompleteWrite
<1>12. CASE FailWrite
  BY <1>12 DEF FailWrite
<1>13. CASE WriteDone
  BY <1>13 DEF WriteDone
<1>14. CASE WriteTimesOut
  BY <1>14 DEF WriteTimesOut
<1>15. CASE CancelIo
  BY <1>15 DEF CancelIo
<1>16. CASE CloseHandles
  BY <1>16 DEF CloseHandles
<1>17. CASE FreeBuffers
  BY <1>17 DEF FreeBuffers
<1>18. CASE EndCancelled
  <2>1. UNCHANGED <<owner, reader, owned, readPending, readBuf, issued, written>>
    BY <1>18 DEF EndCancelled
  <2>2. CASE reading' = FALSE /\ UNCHANGED failed
    BY <2>1, <2>2
  <2>3. CASE failed' = failed + 1 /\ UNCHANGED reading
    BY <2>1, <2>3
  <2> QED
    BY <1>18, <2>2, <2>3 DEF EndCancelled
<1> QED
  BY <1>1, <1>2, <1>3, <1>4, <1>5, <1>6, <1>7, <1>8, <1>9, <1>10, <1>11, <1>12, <1>13, <1>14, <1>15, <1>16, <1>17, <1>18
  DEF WinNext, WinOpen, WinRead, WinClose

(* No step changes the implementation. *)
LEMMA SameBackend == HandleNext => backend' = backend
BY DEF HandleNext, Libusb, Mac, Posix, Windows, callVars, Unplug, Plug, Read,
       UsbNext, UsbOpen, NewUsbDevice, OpenHandle, WrapHandle, SelectInterface, DetachDriver, ClaimInterface, CreateThread, PassBarrier,
       Completes, Complete, UsbCallback, TakeReport, TakeStatus, TestShutdown, Resubmit,
       UsbThread, StartThread, LeaveLoop, CancelPending, WakeReader,
       UsbRead, UsbLook, SpuriousWakeup, TimeOut, StopThread, UsbClose, CancelTransfer, Join, Release,
       MacNext, MacOpen, OpenEntry, CreateDevice, OpenDevice, MacPassBarrier,
       MacThread, StartLoop, TestLoop, LoopStopped, Broadcast, EndThread,
       ReportCallback, RemovalCallback, PerformSignal, LoopTimesOut,
       MacRead, MacLook, MacSpuriousWakeup, MacTimeOut,
       Unregister, MacClose, StopLoop, WakeLoop, MacJoin, MacRelease,
       PosixNext, KernelReceives, PosixClose, OpenStarts, OpenFile, OpenFails, OpenDone,
       PosixLook, PollFails, PollTimesOut, PollReady, PosixRead,
       WinNext, WinOpen, OpenWinHandle, GetPreparsedData, WinOpenFails, NewDevice,
       WinRead, ReadFile, TakeRead, WinTimeOut, DriverReceives, CompleteRead,
       WriteFile, CompleteWrite, FailWrite, WriteDone, WriteTimesOut,
       CancelIo, EndCancelled, WinClose, CloseHandles, FreeBuffers

LEMMA StutterOwned ==
  ASSUME OwnedInv, UNCHANGED hidVars
  PROVE  OwnedInv'
<1> USE DEF hidVars, callVars, readVars, threadVars, usbVars, macVars, winVars
<1>1. UNCHANGED <<backend, owner, reader, owned, thread, flying, callback, finished, macos,
                  reading, readPending, readBuf, issued, written, failed, Files>>
  BY DEF Files
<1>2. UsbInv => UsbInv'
  BY <1>1 DEF UsbInv
<1>3. backend = "mac" => MacInv'
  BY <1>1 DEF OwnedInv, MacInv
<1>4. backend \in {"linux", "netbsd"} => PosixInv'
  BY <1>1 DEF OwnedInv, PosixInv
<1>5. backend = "windows" => WinInv'
  BY <1>1 DEF OwnedInv, WinInv
<1> QED
  BY <1>1, <1>2, <1>3, <1>4, <1>5 DEF OwnedInv

(* The other parts of HidProgram leave the handle alone. *)
LEMMA NextHandle == [Next]_vars => [HandleNext]_hidVars
BY DEF Next, vars, EnumNext, PlugIn, PullOut

LEMMA NextOwned == OwnedInv /\ [Next]_vars => OwnedInv'
<1> SUFFICES ASSUME OwnedInv, [HandleNext]_hidVars PROVE OwnedInv'
  BY NextHandle
<1>1. CASE Outside /\ UNCHANGED <<usbVars, macVars, winVars>>
  BY <1>1, OutsideOwned
<1>2. CASE Libusb(UsbNext)
  BY <1>2, UsbOwned, SameBackend DEF Libusb, OwnedInv, HandleNext
<1>3. CASE Mac(MacNext)
  BY <1>3, MacOwned, SameBackend DEF Mac, OwnedInv, HandleNext
<1>4. CASE Posix(PosixNext)
  BY <1>4, PosixOwned, SameBackend DEF Posix, OwnedInv, HandleNext
<1>5. CASE Windows(WinNext)
  BY <1>5, WinOwned, SameBackend DEF Windows, OwnedInv, HandleNext
<1>6. CASE UNCHANGED hidVars
  BY <1>6, StutterOwned
<1> QED
  BY <1>1, <1>2, <1>3, <1>4, <1>5, <1>6 DEF HandleNext, Outside

LEMMA OwnedAlways == Spec => []OwnedInv
BY InitOwned, NextOwned, PTL DEF Spec

-----------------------------------------------------------------------------
(* hid_write.  As long as none has timed out at most one write is not      *)
(* done, the one that hid_write waits for, and the event tells of it.      *)
(* Where the device is gone a write may stay undone, and no event comes.   *)
WriteInv ==
  /\ issued \in Nat /\ written \in Nat /\ failed \in Nat
  /\ event \in {"reset", "written", "failed"} /\ writeTimeout \in BOOLEAN
  /\ backend # "windows" => writeResult = "none"
  /\ backend = "windows" /\ ~writeTimeout =>
       /\ writeResult = "ok" => written = issued /\ failed = 0
       /\ owner = "writing" => writeResult = "busy"
       /\ owner = "writing" /\ event = "reset" => written + failed + 1 = issued
       /\ owner # "writing" \/ event # "reset" => written + failed = issued
       /\ owner = "writing" /\ event = "written" => failed = 0
       /\ owner \in {"starting", "open", "writing"} /\ ~broken => failed = 0

LEMMA InitWrite == Init => WriteInv
<1> SUFFICES ASSUME Init PROVE WriteInv
  OBVIOUS
<1>1. /\ issued = 0 /\ written = 0 /\ failed = 0 /\ event = "reset"
      /\ writeResult = "none" /\ writeTimeout = FALSE /\ owner = "closed"
  BY DEF Init, HandleInit, WinInit, CallsInit
<1>2. issued \in Nat /\ written \in Nat /\ failed \in Nat /\ written + failed = issued
  BY <1>1
<1> QED
  BY <1>1, <1>2 DEF WriteInv

LEMMA NextWrite == WriteInv /\ [Next]_vars => WriteInv'
<1> SUFFICES ASSUME WriteInv, [HandleNext]_hidVars PROVE WriteInv'
  BY NextHandle
<1> USE DEF WriteInv, readVars, threadVars, callVars, winVars, winReads, winWrites
<1>1. CASE Outside /\ UNCHANGED <<usbVars, macVars, winVars>>
  BY <1>1 DEF Outside, Unplug, Plug, Read
<1>2. CASE Libusb(UsbNext) \/ Mac(MacNext) \/ Posix(PosixNext)
  <2>1. backend # "windows" /\ backend' = backend /\ UNCHANGED winVars
    BY <1>2, SameBackend DEF HandleNext, Libusb, Mac, Posix
  <2> QED
    BY <2>1
<1>3. CASE Windows(OpenWinHandle)
  <2>1. /\ issued' = 0 /\ written' = 0 /\ failed' = 0 /\ event' = "reset"
        /\ writeResult' = "none" /\ writeTimeout' = FALSE /\ owner' = "starting"
    BY <1>3 DEF Windows, OpenWinHandle
  <2>2. /\ issued' \in Nat /\ written' \in Nat /\ failed' \in Nat
        /\ written' + failed' = issued'
    BY <2>1
  <2> QED
    BY <2>1, <2>2
<1>4. CASE Windows(GetPreparsedData) \/ Windows(WinOpenFails) \/ Windows(NewDevice)
  BY <1>4 DEF Windows, GetPreparsedData, WinOpenFails, NewDevice
<1>5. CASE Windows(WinRead) \/ Windows(DriverReceives) \/ Windows(CompleteRead)
  BY <1>5 DEF Windows, WinRead, ReadFile, TakeRead, WinTimeOut, DriverReceives, CompleteRead
<1>6. CASE Windows(WriteFile)
  <2>1. /\ backend = "windows" /\ owner = "open" /\ UNCHANGED <<backend, broken, writeTimeout>>
    BY <1>6 DEF Windows, WriteFile
  <2>2. CASE issued' = issued + 1 /\ event' = "reset" /\ owner' = "writing"
             /\ writeResult' = "busy" /\ UNCHANGED <<written, failed>>
    BY <2>1, <2>2
  <2>3. CASE ~broken /\ issued' = issued + 1 /\ written' = written + 1 /\ event' = "written"
             /\ writeResult' = "error" /\ UNCHANGED <<owner, failed>>
    BY <2>1, <2>3
  <2>4. CASE writeResult' = "error" /\ UNCHANGED <<issued, written, failed, event, owner>>
    BY <2>1, <2>4
  <2> QED
    BY <1>6, <2>2, <2>3, <2>4 DEF Windows, WriteFile
<1>7. CASE Windows(CompleteWrite)
  BY <1>7 DEF Windows, CompleteWrite, Running
<1>8. CASE Windows(FailWrite)
  BY <1>8 DEF Windows, FailWrite, Running
<1>9. CASE Windows(WriteDone)
  BY <1>9 DEF Windows, WriteDone
<1>10. CASE Windows(WriteTimesOut)
  BY <1>10 DEF Windows, WriteTimesOut
<1>11. CASE Windows(CancelIo) \/ Windows(WinClose)
  BY <1>11 DEF Windows, CancelIo, WinClose, CloseHandles, FreeBuffers
<1>12. CASE Windows(EndCancelled)
  BY <1>12 DEF Windows, EndCancelled, Running
<1>13. CASE UNCHANGED hidVars
  BY <1>13 DEF hidVars
<1> QED
  BY <1>1, <1>2, <1>3, <1>4, <1>5, <1>6, <1>7, <1>8, <1>9, <1>10, <1>11, <1>12, <1>13
  DEF HandleNext, Outside, Windows, WinNext, WinOpen

LEMMA WriteAlways == Spec => []WriteInv
BY InitWrite, NextWrite, PTL DEF Spec

(* hid_write reports success only when the system has written the report,  *)
(* and all before it, unless an earlier hid_write has timed out.           *)
THEOREM WriteTakenAlways == Spec => []WriteTaken
<1>1. WriteInv => WriteTaken
  BY DEF WriteInv, WriteTaken
<1> QED
  BY <1>1, WriteAlways, PTL

(* Whatever is in use of an open device, a transfer in flight or its       *)
(* callback, a pending read or write, a run loop, or the hid_device in a   *)
(* call, is owned at that moment: closing gives nothing back too early, in *)
(* any interleaving of the threads and in every implementation, except     *)
(* that hid_close of Windows frees what a call has timed out of and left   *)
(* running.  A device with no such call is closed with nothing in use.     *)
THEOREM NothingFreedInUseAlways == Spec => []NothingFreedInUse
<1>1. OwnedInv /\ WriteInv => NothingFreedInUse
  <2> SUFFICES ASSUME OwnedInv, WriteInv PROVE NothingFreedInUse
    OBVIOUS
  <2>1. CASE backend = "libusb"
    BY <2>1 DEF OwnedInv, UsbInv, NothingFreedInUse, InUse, UsbInUse
  <2>2. CASE backend = "mac"
    BY <2>2 DEF OwnedInv, MacInv, NothingFreedInUse, InUse, MacInUse
  <2>3. CASE backend \in {"linux", "netbsd"}
    BY <2>3 DEF OwnedInv, PosixInv, NothingFreedInUse, InUse
  <2>4. CASE backend = "windows"
    <3> USE DEF OwnedInv, WinInv
    <3>1. Running => issued > 0
      BY <2>4 DEF Running
    <3>2. CASE owner \in {"starting", "open", "writing", "cancelled"}
      <4>1. WinInUse \subseteq owned
        BY <2>4, <3>1, <3>2 DEF WinInUse
      <4> QED
        BY <2>4, <4>1 DEF NothingFreedInUse, InUse
    <3>3. CASE owner \in {"closing", "closed"}
      <4>1. Running => writeTimeout
        BY <2>4, <3>3 DEF WriteInv, Running
      <4>2. WinInUse = {} \/ LeftRunning
        BY <2>4, <3>3, <4>1 DEF WinInUse, LeftRunning
      <4> QED
        BY <2>4, <3>3, <4>2 DEF NothingFreedInUse, InUse
    <3> QED
      BY <2>4, <3>2, <3>3
  <2> QED
    BY <2>1, <2>2, <2>3, <2>4 DEF OwnedInv
<1> QED
  BY <1>1, OwnedAlways, WriteAlways, PTL

(* A device that is closed, or whose opening has failed at whatever step,  *)
(* owns nothing more, except for the known leaks: the configuration of a   *)
(* device that libusb was given by the program, NetBSD's drvctl, and the   *)
(* handle that an old macOS does not close.                                *)
THEOREM AllGivenBackAlways == Spec => []AllGivenBack
<1>1. OwnedInv => AllGivenBack
  BY DEF OwnedInv, UsbInv, MacInv, PosixInv, WinInv, AllGivenBack, KnownLeaks
<1> QED
  BY <1>1, OwnedAlways, PTL
-----------------------------------------------------------------------------
(* Queues of reports, oldest first. *)

Ascending(q, last) ==
  /\ q \in Seq(Nat)
  /\ \A i \in 1 .. Len(q) : 1 <= q[i] /\ q[i] <= last
  /\ \A i, j \in 1 .. Len(q) : i < j => q[i] < q[j]

Reports(q) == {q[i] : i \in 1 .. Len(q)}

LEMMA EmptyAscending ==
  ASSUME NEW last \in Nat
  PROVE  Ascending(<<>>, last) /\ Reports(<<>>) = {}
BY DEF Ascending, Reports

LEMMA NewReport ==
  ASSUME NEW last \in Nat, NEW q, Ascending(q, last)
  PROVE  /\ Ascending(Append(q, last + 1), last + 1)
         /\ Reports(Append(q, last + 1)) = Reports(q) \cup {last + 1}
<1> DEFINE a == Append(q, last + 1)
<1>1. /\ q \in Seq(Nat) /\ a \in Seq(Nat) /\ Len(a) = Len(q) + 1 /\ Len(q) \in Nat
      /\ a[Len(q) + 1] = last + 1
      /\ \A i \in 1 .. Len(q) : a[i] = q[i]
  BY DEF Ascending
<1> HIDE DEF a
<1>2. Ascending(a, last + 1)
  <2>1. \A i \in 1 .. Len(q) : 1 <= q[i] /\ q[i] <= last /\ q[i] \in Nat
    BY <1>1 DEF Ascending
  <2>2. \A i \in 1 .. Len(a) : i \in 1 .. Len(q) \/ i = Len(q) + 1
    BY <1>1
  <2>3. \A i \in 1 .. Len(a) : 1 <= a[i] /\ a[i] <= last + 1
    BY <1>1, <2>1, <2>2, SMTT(40)
  <2>4. ASSUME NEW i \in 1 .. Len(a), NEW j \in 1 .. Len(a), i < j PROVE a[i] < a[j]
    <3>1. i \in 1 .. Len(q)
      BY <1>1, <2>4
    <3>2. CASE j \in 1 .. Len(q)
      BY <1>1, <2>4, <3>1, <3>2 DEF Ascending
    <3>3. CASE j = Len(q) + 1
      BY <1>1, <2>1, <3>1, <3>3, SMTT(40)
    <3> QED
      BY <2>2, <3>2, <3>3
  <2> QED
    BY <1>1, <2>3, <2>4 DEF Ascending
<1>3. Reports(a) = Reports(q) \cup {last + 1}
  <2>1. \A i : i \in 1 .. Len(a) <=> i \in 1 .. Len(q) \/ i = Len(q) + 1
    BY <1>1
  <2>2. Reports(a) \subseteq Reports(q) \cup {last + 1}
    BY <1>1, <2>1 DEF Reports
  <2>3. Reports(q) \subseteq Reports(a)
    BY <1>1, <2>1 DEF Reports
  <2>4. last + 1 \in Reports(a)
    BY <1>1, <2>1 DEF Reports
  <2> QED
    BY <2>2, <2>3, <2>4
<1> QED
  BY <1>2, <1>3 DEF a

LEMMA OldestReport ==
  ASSUME NEW last \in Nat, NEW q, Ascending(q, last), q # <<>>
  PROVE  /\ Ascending(Tail(q), last)
         /\ Head(q) \in Reports(q) /\ Head(q) \in 1 .. last
         /\ Reports(Tail(q)) = Reports(q) \ {Head(q)}
         /\ \A r \in Reports(Tail(q)) : r > Head(q)
         /\ \A i \in 1 .. Len(Tail(q)) : Tail(q)[i] = q[i + 1]
<1> DEFINE t == Tail(q)
           h == Head(q)
<1>1. /\ q \in Seq(Nat) /\ t \in Seq(Nat) /\ Len(q) \in Nat /\ Len(q) > 0 /\ Len(t) = Len(q) - 1
      /\ h = q[1]
      /\ \A i \in 1 .. Len(t) : t[i] = q[i + 1]
  BY DEF Ascending
<1> HIDE DEF t, h
<1>2. Ascending(t, last)
  <2>1. \A i \in 1 .. Len(t) : i + 1 \in 1 .. Len(q)
    BY <1>1
  <2>2. \A i \in 1 .. Len(t) : 1 <= t[i] /\ t[i] <= last
    BY <1>1, <2>1 DEF Ascending
  <2>3. ASSUME NEW i \in 1 .. Len(t), NEW j \in 1 .. Len(t), i < j PROVE t[i] < t[j]
    <3>1. i + 1 < j + 1
      BY <1>1, <2>3
    <3> QED
      BY <1>1, <2>1, <2>3, <3>1 DEF Ascending
  <2> QED
    BY <1>1, <2>2, <2>3 DEF Ascending
<1>3. h \in Reports(q) /\ h \in 1 .. last
  <2>1. 1 \in 1 .. Len(q) /\ q[1] \in Nat
    BY <1>1
  <2> QED
    BY <1>1, <2>1 DEF Ascending, Reports
<1>4. \A r \in Reports(t) : r > h /\ r \in Reports(q)
  <2> SUFFICES ASSUME NEW i \in 1 .. Len(t) PROVE t[i] > h /\ t[i] \in Reports(q)
    BY DEF Reports
  <2>1. 1 \in 1 .. Len(q) /\ i + 1 \in 1 .. Len(q) /\ 1 < i + 1 /\ t[i] = q[i + 1]
    BY <1>1
  <2>2. q[1] < q[i + 1] /\ q[1] \in Nat /\ q[i + 1] \in Nat
    BY <1>1, <2>1 DEF Ascending
  <2> QED
    BY <1>1, <2>1, <2>2 DEF Reports
<1>5. \A r \in Reports(q) : r # h => r \in Reports(t)
  <2> SUFFICES ASSUME NEW i \in 1 .. Len(q), q[i] # h PROVE q[i] \in Reports(t)
    BY DEF Reports
  <2>1. i - 1 \in 1 .. Len(t) /\ t[i - 1] = q[i]
    BY <1>1
  <2> QED
    BY <2>1 DEF Reports
<1>6. h \in Nat /\ ~(h > h)
  BY <1>3
<1>7. Reports(t) = Reports(q) \ {h}
  BY <1>4, <1>5, <1>6
<1> QED
  BY <1>1, <1>2, <1>3, <1>4, <1>7 DEF t, h

LEMMA AnyReport ==
  ASSUME NEW last \in Nat, NEW q, Ascending(q, last), NEW i \in 1 .. Len(q)
  PROVE  /\ Ascending(RemoveAt(q, i), last)
         /\ q[i] \in Reports(q) /\ q[i] \in 1 .. last
         /\ Reports(RemoveAt(q, i)) = Reports(q) \ {q[i]}
<1> DEFINE r == RemoveAt(q, i)
<1>1. /\ q \in Seq(Nat) /\ r \in Seq(Nat) /\ Len(q) \in Nat /\ Len(r) = Len(q) - 1
      /\ \A k \in 1 .. Len(r) : r[k] = IF k < i THEN q[k] ELSE q[k + 1]
  <2>1. q \in Seq(Nat) /\ Len(q) \in Nat
    BY DEF Ascending
  <2> DEFINE s == SubSeq(q, 1, i - 1)
             t == SubSeq(q, i + 1, Len(q))
  <2>2. s \in Seq(Nat) /\ Len(s) = i - 1 /\ \A k \in 1 .. i - 1 : s[k] = q[k]
    BY <2>1
  <2>3. t \in Seq(Nat) /\ Len(t) = Len(q) - i /\ \A k \in 1 .. Len(q) - i : t[k] = q[i + k]
    BY <2>1
  <2>4. r = s \o t
    BY DEF RemoveAt
  <2> HIDE DEF r, s, t
  <2>5. /\ r \in Seq(Nat) /\ Len(r) = Len(s) + Len(t)
        /\ \A k \in 1 .. Len(s) + Len(t) : r[k] = IF k <= Len(s) THEN s[k] ELSE t[k - Len(s)]
    BY <2>2, <2>3, <2>4, ConcatProperties
  <2>6. ASSUME NEW k \in 1 .. Len(r)
        PROVE  r[k] = IF k < i THEN q[k] ELSE q[k + 1]
    <3>1. CASE k < i
      BY <2>2, <2>3, <2>5, <3>1
    <3>2. CASE ~(k < i)
      <4>1. k - (i - 1) \in 1 .. Len(q) - i /\ i + (k - (i - 1)) = k + 1
        BY <2>1, <2>2, <2>3, <2>5, <3>2
      <4>2. r[k] = t[k - (i - 1)]
        <5>1. k \in 1 .. Len(s) + Len(t) /\ ~(k <= Len(s)) /\ Len(s) = i - 1
          BY <2>1, <2>2, <2>3, <2>5, <3>2
        <5> QED
          BY <2>5, <5>1
      <4> QED
        BY <2>3, <3>2, <4>1, <4>2
    <3> QED
      BY <3>1, <3>2
  <2> QED
    BY <2>1, <2>2, <2>3, <2>5, <2>6
<1> HIDE DEF r
<1> DEFINE from(k) == IF k < i THEN k ELSE k + 1
<1>2. ASSUME NEW k \in 1 .. Len(r)
      PROVE  from(k) \in 1 .. Len(q) /\ from(k) # i /\ r[k] = q[from(k)]
  <2>1. CASE k < i
    BY <1>1, <2>1
  <2>2. CASE ~(k < i)
    <3>1. k + 1 \in 1 .. Len(q) /\ k + 1 # i /\ r[k] = q[k + 1]
      BY <1>1, <2>2
    <3> QED
      BY <2>2, <3>1
  <2> QED
    BY <2>1, <2>2
<1>3. \A k, m \in 1 .. Len(r) : k < m => from(k) < from(m)
  BY <1>1, SMTT(40)
<1>4. q[i] \in Reports(q) /\ q[i] \in 1 .. last
  <2>1. q[i] \in Nat
    BY <1>1
  <2> QED
    BY <2>1 DEF Ascending, Reports
<1> HIDE DEF from
<1>5. Ascending(r, last)
  <2>1. \A k \in 1 .. Len(r) : 1 <= r[k] /\ r[k] <= last
    BY <1>2 DEF Ascending
  <2>2. \A k, m \in 1 .. Len(r) : k < m => r[k] < r[m]
    BY <1>2, <1>3 DEF Ascending
  <2> QED
    BY <1>1, <2>1, <2>2 DEF Ascending
<1>6. \A k \in 1 .. Len(q) : k # i => q[k] # q[i]
  <2> SUFFICES ASSUME NEW k \in 1 .. Len(q), k # i PROVE q[k] # q[i]
    OBVIOUS
  <2>1. q[k] \in Nat /\ q[i] \in Nat /\ (k < i \/ i < k)
    BY <1>1, SMTT(40)
  <2>2. q[k] < q[i] \/ q[i] < q[k]
    BY <2>1 DEF Ascending
  <2> QED
    BY <2>1, <2>2
<1>7. \A x \in Reports(r) : x # q[i] /\ x \in Reports(q)
  BY <1>2, <1>6 DEF Reports
<1>8. \A x \in Reports(q) : x # q[i] => x \in Reports(r)
  <2> SUFFICES ASSUME NEW k \in 1 .. Len(q), q[k] # q[i] PROVE q[k] \in Reports(r)
    BY DEF Reports
  <2>0. k # i /\ k \in Int /\ i \in Int
    OBVIOUS
  <2>1. CASE k < i
    <3>1. k \in 1 .. Len(r) /\ r[k] = q[k]
      BY <1>1, <2>1
    <3> QED
      BY <3>1 DEF Reports
  <2>2. CASE k > i
    <3>0. k - 1 \in 1 .. Len(r) /\ ~(k - 1 < i) /\ (k - 1) + 1 = k
      <4>1. Len(q) \in Nat /\ Len(r) = Len(q) - 1
        BY <1>1
      <4> QED
        BY <2>0, <2>2, <4>1, SMTT(40)
    <3>1. k - 1 \in 1 .. Len(r) /\ r[k - 1] = q[k]
      BY <1>1, <3>0
    <3> QED
      BY <3>1 DEF Reports
  <2> QED
    BY <2>0, <2>1, <2>2, SMTT(40)
<1> QED
  BY <1>4, <1>5, <1>7, <1>8 DEF r

LEMMA Counted ==
  ASSUME NEW last \in Nat, NEW q, Ascending(q, last)
  PROVE  IsFiniteSet(Reports(q)) /\ Cardinality(Reports(q)) = Len(q)
<1>1. q \in Seq(Nat) /\ Len(q) \in Nat
  BY DEF Ascending
<1>2. \A i, j \in 1 .. Len(q) : q[i] = q[j] => i = j
  <2> SUFFICES ASSUME NEW i \in 1 .. Len(q), NEW j \in 1 .. Len(q), i < j PROVE q[i] # q[j]
    BY <1>1
  <2>1. q[i] < q[j] /\ q[i] \in Nat /\ q[j] \in Nat
    BY <1>1 DEF Ascending
  <2> QED
    BY <2>1
<1>3. [i \in 1 .. Len(q) |-> q[i]] \in Bijection(1 .. Len(q), Reports(q))
  BY <1>2 DEF Bijection, Injection, Surjection, IsInjective, Reports
<1>4. IsFiniteSet(1 .. Len(q)) /\ Cardinality(1 .. Len(q)) = Len(q)
  <2> DEFINE n == Len(q)
  <2>1. n \in Nat
    BY <1>1
  <2> HIDE DEF n
  <2>2. IsFiniteSet(1 .. n) /\ Cardinality(1 .. n) = IF 1 > n THEN 0 ELSE n - 1 + 1
    BY <2>1, FS_Interval
  <2>3. Cardinality(1 .. n) = n
    BY <2>1, <2>2
  <2> QED
    BY <2>2, <2>3 DEF n
<1> QED
  BY <1>3, <1>4, FS_Bijection DEF ExistsBijection
-----------------------------------------------------------------------------
(* What holds of the reports and of the flags while a device is open.      *)

(* libusb.  The flag that ends the read thread is set by hid_close, or     *)
(* when the device is gone; only then is a transfer cancelled.             *)
UsbFlags ==
  /\ cancelled \in BOOLEAN /\ shutdown \in BOOLEAN
  /\ owner \in {"wrapped", "opened", "detached", "claimed"} => queue = <<>> /\ sent = 0 /\ ~shutdown
  /\ owner \in {"starting", "open"} /\ shutdown => broken
  /\ owner \in {"stopping", "joining"} \/ thread \in {"leaving", "draining", "ended"} => shutdown
  /\ cancelled => flying /\ shutdown
  /\ callback = "cancelled" => shutdown
  /\ callback = "no_device" => broken

(* mac.  Until hid_close begins, the run loop is stopped by the removal of *)
(* the device only.                                                        *)
MacFlags ==
  /\ owner \in {"opened", "created"} => queue = <<>> /\ sent = 0
  /\ owner \in {"opened", "created", "starting", "open"} =>
       /\ shutdown = FALSE /\ signalled = FALSE
       /\ disconnected \in BOOLEAN
       /\ disconnected \/ thread = "stopped" => broken

(* windows.  The report in read_buf is older than those in the queue, and  *)
(* no read is begun before it is taken.                                    *)
WinBuffer ==
  /\ readPending \in BOOLEAN
  /\ readBuf \in -1 .. sent
  /\ readBuf > 0 => \A r \in Reports(queue) : readBuf < r
  /\ readBuf = -1 => broken
  /\ reading \/ ~readPending \/ owner \in {"closed", "starting"} => readBuf = 0
  /\ ~readPending => ~reading

HandleInv ==
  /\ sent \in Nat /\ Ascending(queue, sent)
  /\ broken \in BOOLEAN
  /\ wait \in {"none", "block", "time", "poll"}
  /\ wait = "none" <=> reader = "idle"
  /\ owner = "closed" => queue = <<>>
  /\ backend = "libusb" => UsbFlags
  /\ backend = "mac" => MacFlags
  /\ IF backend = "windows" THEN WinBuffer ELSE readBuf = 0

LEMMA InitHandle == Init => HandleInv
<1> SUFFICES ASSUME Init PROVE HandleInv
  OBVIOUS
<1>1. /\ sent = 0 /\ queue = <<>> /\ broken = FALSE /\ wait = "none" /\ reader = "idle"
      /\ owner = "closed" /\ thread = "none" /\ shutdown = FALSE
      /\ cancelled = FALSE /\ callback = "none"
      /\ reading = FALSE /\ readPending = FALSE /\ readBuf = 0
  BY DEF Init, HandleInit, CallsInit, UsbInit, WinInit
<1>2. Ascending(queue, sent)
  BY <1>1, EmptyAscending
<1>3. UsbFlags /\ MacFlags
  BY <1>1 DEF UsbFlags, MacFlags
<1>4. WinBuffer
  <2>1. readBuf \in -1 .. sent /\ ~(readBuf > 0) /\ ~(readBuf = -1)
    BY <1>1
  <2> QED
    BY <1>1, <2>1 DEF WinBuffer
<1> QED
  BY <1>1, <1>2, <1>3, <1>4 DEF HandleInv

(* The linked list when a report is attached. *)
LEMMA AttachedIs ==
  ASSUME HandleInv
  PROVE  /\ Ascending(Attached(sent + 1), sent + 1)
         /\ IF Cardinality(Reports(queue)) < Limit
            THEN Reports(Attached(sent + 1)) = Reports(queue) \cup {sent + 1}
            ELSE \E r \in Reports(queue) : Reports(Attached(sent + 1)) = (Reports(queue) \cup {sent + 1}) \ {r}
<1>1. /\ sent \in Nat /\ Ascending(queue, sent) /\ Len(queue) \in Nat
      /\ Cardinality(Reports(queue)) = Len(queue) /\ MaxQueued \in Nat
  <2>1. sent \in Nat /\ Ascending(queue, sent)
    BY DEF HandleInv
  <2>2. Len(queue) \in Nat
    BY <2>1 DEF Ascending
  <2> QED
    BY <2>1, <2>2, Counted, HidAssumption
<1>2. CASE Len(queue) < Limit
  <2>1. Attached(sent + 1) = Append(queue, sent + 1)
    BY <1>1, <1>2 DEF Attached, Limit
  <2> QED
    BY <1>1, <1>2, <2>1, NewReport
<1>3. CASE ~(Len(queue) < Limit)
  <2>1. queue # <<>> /\ Attached(sent + 1) = Append(Tail(queue), sent + 1)
    BY <1>1, <1>3 DEF Attached, Limit
  <2>2. /\ Ascending(Tail(queue), sent)
        /\ Head(queue) \in Reports(queue) /\ Head(queue) \in 1 .. sent
        /\ Reports(Tail(queue)) = Reports(queue) \ {Head(queue)}
    BY <1>1, <2>1, OldestReport
  <2>3. /\ Ascending(Append(Tail(queue), sent + 1), sent + 1)
        /\ Reports(Append(Tail(queue), sent + 1)) = Reports(Tail(queue)) \cup {sent + 1}
    BY <1>1, <2>2, NewReport
  <2>4. Head(queue) # sent + 1
    BY <1>1, <2>2
  <2>5. Reports(Attached(sent + 1)) = (Reports(queue) \cup {sent + 1}) \ {Head(queue)}
    BY <2>1, <2>2, <2>3, <2>4
  <2> QED
    BY <1>1, <1>3, <2>1, <2>2, <2>3, <2>5
<1> QED
  BY <1>2, <1>3

LEMMA OutsideHandle ==
  ASSUME OwnedInv, HandleInv, Outside, UNCHANGED <<usbVars, macVars, winVars>>
  PROVE  HandleInv'
<1> USE DEF Outside, Unplug, Plug, Read, readVars, threadVars, usbVars, macVars, winVars
<1>1. UNCHANGED <<backend, queue, sent, owner, thread, shutdown, cancelled, callback, flying,
                  disconnected, signalled, readPending, reading, readBuf>>
  OBVIOUS
<1>2. /\ broken' \in BOOLEAN /\ (owner # "closed" /\ broken => broken')
      /\ wait' \in {"none", "block", "time", "poll"}
      /\ wait' = "none" <=> reader' = "idle"
  BY DEF HandleInv
<1>3. backend = "libusb" => UsbFlags'
  BY <1>1, <1>2 DEF OwnedInv, UsbInv, HandleInv, UsbFlags
<1>4. backend = "mac" => MacFlags'
  BY <1>1, <1>2 DEF HandleInv, MacFlags
<1>5. backend = "windows" => WinBuffer'
  BY <1>1, <1>2 DEF HandleInv, WinBuffer
<1> QED
  BY <1>1, <1>2, <1>3, <1>4, <1>5 DEF HandleInv

LEMMA ReturnDataKeeps ==
  ASSUME HandleInv, queue # <<>>, ReturnData
  PROVE  Ascending(queue', sent)
BY OldestReport DEF HandleInv, ReturnData

LEMMA UsbHandle ==
  ASSUME UsbInv, HandleInv, backend = "libusb", backend' = backend, UsbNext, readBuf' = readBuf
  PROVE  HandleInv'
<1> USE DEF UsbInv, HandleInv, UsbFlags, readVars, threadVars, callVars, usbVars
<1>1. CASE OpenHandle
  BY <1>1, EmptyAscending DEF OpenHandle, NewUsbDevice
<1>2. CASE DetachDriver
  BY <1>2 DEF DetachDriver, GiveUp
<1>3. CASE ClaimInterface
  BY <1>3 DEF ClaimInterface, GiveUp
<1>4. CASE CreateThread
  BY <1>4 DEF CreateThread
<1>5. CASE PassBarrier
  BY <1>5 DEF PassBarrier
<1>6. CASE Completes
  <2>1. PICK status \in {"completed", "cancelled", "no_device", "timed_out"} : Complete(status)
    BY <1>6 DEF Completes
  <2>2. /\ cancelled' = FALSE /\ callback' = status
        /\ callback' = "cancelled" => cancelled
        /\ callback' = "no_device" => broken
        /\ UNCHANGED <<broken, sent, queue, owner, reader, wait, thread, shutdown>>
    BY <2>1 DEF Complete
  <2> QED
    BY <2>2
<1>7. CASE TakeReport
  <2>1. Ascending(queue', sent') /\ sent' \in Nat
    BY <1>7, AttachedIs DEF TakeReport
  <2>2. wait' \in {"none", "block", "time", "poll"} /\ (wait' = "none" <=> reader' = "idle")
    BY <1>7 DEF TakeReport, Signal
  <2>3. owner \notin {"closed", "wrapped", "opened", "detached", "claimed"}
    BY <1>7 DEF TakeReport
  <2>4. UNCHANGED <<broken, owner, thread, shutdown, cancelled, flying>> /\ callback' = "test"
    BY <1>7 DEF TakeReport
  <2> QED
    BY <2>1, <2>2, <2>3, <2>4
<1>8. CASE TakeStatus
  BY <1>8 DEF TakeStatus
<1>9. CASE TestShutdown
  BY <1>9 DEF TestShutdown
<1>10. CASE Resubmit
  <2>1. CASE flying' = TRUE /\ UNCHANGED <<shutdown, finished>>
    BY <1>10, <2>1 DEF Resubmit
  <2>2. CASE broken /\ shutdown' = TRUE /\ finished' = TRUE /\ UNCHANGED flying
    BY <1>10, <2>2 DEF Resubmit
  <2> QED
    BY <1>10, <2>1, <2>2 DEF Resubmit, Submit
<1>11. CASE StartThread
  <2>1. CASE flying' = TRUE /\ UNCHANGED <<shutdown, finished>>
    BY <1>11, <2>1 DEF StartThread
  <2>2. CASE broken /\ shutdown' = TRUE /\ finished' = TRUE /\ UNCHANGED flying
    BY <1>11, <2>2 DEF StartThread
  <2> QED
    BY <1>11, <2>1, <2>2 DEF StartThread, Submit
<1>12. CASE LeaveLoop
  BY <1>12 DEF LeaveLoop
<1>13. CASE CancelPending
  BY <1>13 DEF CancelPending, Cancel
<1>14. CASE WakeReader
  BY <1>14 DEF WakeReader, Signal
<1>15. CASE UsbLook
  <2>1. Ascending(queue', sent') /\ sent' \in Nat
    BY <1>15, ReturnDataKeeps DEF UsbLook
  <2>2. UNCHANGED <<broken, owner, thread, shutdown, cancelled, flying, callback>> /\ owner = "open"
    BY <1>15 DEF UsbLook
  <2>3. wait' \in {"none", "block", "time", "poll"} /\ (wait' = "none" <=> reader' = "idle")
    BY <1>15 DEF UsbLook, ReturnData, Return
  <2> QED
    BY <2>1, <2>2, <2>3
<1>16. CASE SpuriousWakeup
  BY <1>16 DEF SpuriousWakeup, Signal
<1>17. CASE TimeOut
  BY <1>17 DEF TimeOut, Return
<1>18. CASE StopThread
  BY <1>18 DEF StopThread
<1>19. CASE CancelTransfer
  BY <1>19 DEF CancelTransfer, Cancel
<1>20. CASE Join
  BY <1>20 DEF Join
<1>21. CASE Release
  BY <1>21, EmptyAscending DEF Release
<1>22. CASE WrapHandle
  BY <1>22, EmptyAscending DEF WrapHandle, NewUsbDevice
<1>23. CASE SelectInterface
  BY <1>23 DEF SelectInterface, GiveUp
<1> QED
  BY <1>1, <1>2, <1>3, <1>4, <1>5, <1>6, <1>7, <1>8, <1>9, <1>10, <1>11, <1>12, <1>13, <1>14, <1>15, <1>16, <1>17, <1>18, <1>19, <1>20, <1>21, <1>22, <1>23
  DEF UsbNext, UsbOpen, UsbCallback, UsbThread, UsbRead, UsbClose

LEMMA MacHandle ==
  ASSUME MacInv, HandleInv, backend = "mac", backend' = backend, MacNext, readBuf' = readBuf
  PROVE  HandleInv'
<1>0. Ascending(Attached(sent + 1), sent + 1)
  BY AttachedIs
<1> USE DEF MacInv, HandleInv, MacFlags, readVars, threadVars, macVars
<1>1. CASE OpenEntry
  BY <1>1, EmptyAscending DEF OpenEntry
<1>2. CASE CreateDevice \/ OpenDevice \/ MacPassBarrier
  BY <1>2 DEF CreateDevice, OpenDevice, MacPassBarrier
<1>3. CASE StartLoop \/ TestLoop \/ LoopStopped \/ EndThread
  <2>1. /\ UNCHANGED <<broken, sent, queue, owner, reader, wait, shutdown, signalled>>
        /\ thread' # "stopped"
        /\ disconnected' = IF thread = "stopped" THEN TRUE ELSE disconnected
    BY <1>3 DEF StartLoop, TestLoop, LoopStopped, EndThread
  <2> QED
    BY <2>1
<1>4. CASE Broadcast
  BY <1>4 DEF Broadcast, Signal
<1>5. CASE ReportCallback
  <2>1. sent' = sent + 1 /\ queue' = Attached(sent + 1)
    BY <1>5 DEF ReportCallback
  <2>2. Ascending(queue', sent') /\ sent' \in Nat
    BY <1>0, <2>1
  <2>3. wait' \in {"none", "block", "time", "poll"} /\ (wait' = "none" <=> reader' = "idle")
    BY <1>5 DEF ReportCallback, Signal
  <2>4. /\ owner \notin {"closed", "opened", "created"}
        /\ UNCHANGED <<broken, owner, thread, shutdown, disconnected, signalled>>
    BY <1>5 DEF ReportCallback
  <2> QED
    BY <2>2, <2>3, <2>4
<1>6. CASE RemovalCallback \/ PerformSignal \/ LoopTimesOut
  <2>1. UNCHANGED <<broken, sent, queue, owner, reader, wait, shutdown>>
    BY <1>6 DEF RemovalCallback, PerformSignal, LoopTimesOut
  <2>2. CASE RemovalCallback
    BY <2>1, <2>2 DEF RemovalCallback
  <2>3. CASE PerformSignal
    BY <2>1, <2>3 DEF PerformSignal
  <2>4. CASE LoopTimesOut
    BY <2>1, <2>4 DEF LoopTimesOut
  <2> QED
    BY <1>6, <2>2, <2>3, <2>4
<1>7. CASE MacLook
  <2>1. Ascending(queue', sent') /\ sent' \in Nat
    BY <1>7, ReturnDataKeeps DEF MacLook
  <2>2. UNCHANGED <<broken, owner, thread, shutdown, disconnected, signalled>> /\ owner = "open"
    BY <1>7 DEF MacLook
  <2>3. wait' \in {"none", "block", "time", "poll"} /\ (wait' = "none" <=> reader' = "idle")
    BY <1>7 DEF MacLook, ReturnData, Return
  <2> QED
    BY <2>1, <2>2, <2>3
<1>8. CASE MacSpuriousWakeup \/ MacTimeOut
  BY <1>8 DEF MacSpuriousWakeup, Signal, MacTimeOut, Return
<1>9. CASE Unregister \/ StopLoop \/ WakeLoop \/ MacJoin
  BY <1>9 DEF Unregister, StopLoop, WakeLoop, MacJoin
<1>10. CASE MacRelease
  BY <1>10, EmptyAscending DEF MacRelease
<1> QED
  BY <1>1, <1>2, <1>3, <1>4, <1>5, <1>6, <1>7, <1>8, <1>9, <1>10
  DEF MacNext, MacOpen, MacThread, MacRead, MacClose

LEMMA PosixHandle ==
  ASSUME PosixInv, HandleInv, backend \in {"linux", "netbsd"}, backend' = backend, PosixNext,
         readBuf' = readBuf
  PROVE  HandleInv'
<1> USE DEF PosixInv, HandleInv, readVars, threadVars
<1>1. CASE KernelReceives
  <2>1. Ascending(queue', sent') /\ sent' \in Nat
    <3>1. Ascending(Append(queue, sent + 1), sent + 1)
      BY NewReport
    <3>2. Ascending(queue, sent + 1)
      BY DEF Ascending
    <3> QED
      BY <1>1, <3>1, <3>2 DEF KernelReceives
  <2>2. owner # "closed"
    BY <1>1 DEF KernelReceives, Connected
  <2> QED
    BY <1>1, <2>1, <2>2 DEF KernelReceives
<1>2. CASE OpenStarts
  BY <1>2, EmptyAscending DEF OpenStarts
<1>3. CASE OpenFile \/ OpenDone
  BY <1>3 DEF OpenFile, OpenDone
<1>4. CASE OpenFails \/ PosixClose
  BY <1>4, EmptyAscending DEF OpenFails, PosixClose
<1>5. CASE PollFails \/ PollTimesOut \/ PollReady
  BY <1>5 DEF PollFails, PollTimesOut, PollReady, Return
<1>6. CASE PosixRead
  <2>1. Ascending(queue', sent')
    <3>1. \A i \in 1 .. Len(queue) : Ascending(RemoveAt(queue, i), sent)
      BY AnyReport
    <3> QED
      BY <1>6, <3>1 DEF PosixRead
  <2>2. wait' = "none" /\ reader' = "idle" /\ owner = "open" /\ UNCHANGED <<sent, broken, owner>>
    BY <1>6 DEF PosixRead, Return
  <2> QED
    BY <2>1, <2>2
<1> QED
  BY <1>1, <1>2, <1>3, <1>4, <1>5, <1>6 DEF PosixNext, PosixLook

(* The system's buffers when a report comes. *)
LEMMA DriverQueue ==
  ASSUME HandleInv, DriverReceives
  PROVE  /\ Ascending(queue', sent + 1) /\ sent' = sent + 1
         /\ \/ /\ Cardinality(Held) < Limit \/ queue = <<>>
               /\ Reports(queue') = Reports(queue) \cup {sent + 1}
            \/ /\ queue # <<>> /\ ~(Cardinality(Held) < Limit)
               /\ Reports(queue') = (Reports(queue) \ {Head(queue)}) \cup {sent + 1}
         /\ \A r \in Reports(queue') : r \in Reports(queue) \/ r = sent + 1
<1>1. sent \in Nat /\ Ascending(queue, sent) /\ sent' = sent + 1
  BY DEF HandleInv, DriverReceives
<1>2. CASE Cardinality(Held) < Limit \/ queue = <<>>
  <2>1. queue' = Append(queue, sent + 1)
    BY <1>2 DEF DriverReceives
  <2> QED
    BY <1>1, <1>2, <2>1, NewReport
<1>3. CASE ~(Cardinality(Held) < Limit \/ queue = <<>>)
  <2>1. queue' = Append(Tail(queue), sent + 1)
    BY <1>3 DEF DriverReceives
  <2>2. Ascending(Tail(queue), sent) /\ Reports(Tail(queue)) = Reports(queue) \ {Head(queue)}
    BY <1>1, <1>3, OldestReport
  <2> QED
    BY <1>1, <1>3, <2>1, <2>2, NewReport
<1> QED
  BY <1>2, <1>3

LEMMA WinHandle ==
  ASSUME WinInv, HandleInv, backend = "windows", backend' = backend, WinNext
  PROVE  HandleInv'
<1>0. /\ sent \in Nat /\ Ascending(queue, sent) /\ Ascending(<<>>, 0) /\ Ascending(<<>>, sent)
      /\ Reports(<<>>) = {}
      /\ Reports(queue) \subseteq Nat
  <2>1. \A i \in 1 .. Len(queue) : queue[i] \in Nat
    BY DEF HandleInv, Ascending
  <2> QED
    BY <2>1, EmptyAscending DEF HandleInv, Reports
<1>1. \A r \in Reports(queue) : r <= sent
  BY DEF HandleInv, Ascending, Reports
<1>2. /\ queue # <<>> =>
        /\ Ascending(Tail(queue), sent) /\ Head(queue) \in 1 .. sent
        /\ Head(queue) \in Reports(queue)
        /\ \A r \in Reports(Tail(queue)) : r > Head(queue) /\ r \in Reports(queue)
  BY <1>0, OldestReport
<1>3. CASE DriverReceives
  <2>1. Ascending(queue', sent') /\ sent' = sent + 1
    BY <1>3, DriverQueue
  <2>2. \A r \in Reports(queue') : r \in Reports(queue) \/ r = sent + 1
    BY <1>3, DriverQueue
  <2>3. /\ UNCHANGED <<broken, owner, reader, wait, readPending, reading, readBuf>>
        /\ owner \notin {"closed"}
    BY <1>3 DEF DriverReceives, readVars, winVars, Connected
  <2>4. readBuf \in -1 .. sent
    BY DEF HandleInv, WinBuffer
  <2>5. readBuf' \in -1 .. sent' /\ (readBuf' > 0 => \A r \in Reports(queue') : readBuf' < r)
    BY <1>0, <2>1, <2>2, <2>3, <2>4 DEF HandleInv, WinBuffer
  <2>6. WinBuffer'
    BY <2>3, <2>5 DEF HandleInv, WinBuffer
  <2> QED
    BY <1>0, <2>1, <2>3, <2>6 DEF HandleInv
<1>4. CASE CompleteRead
  <2>1. /\ reading = TRUE /\ readBuf = 0 /\ owner \in {"open", "writing", "cancelled"}
        /\ reading' = FALSE
        /\ UNCHANGED <<broken, sent, owner, reader, wait, readPending>>
    BY <1>4 DEF CompleteRead, HandleInv, WinBuffer, WinInv, readVars
  <2>2. /\ Ascending(queue', sent) /\ readBuf' \in -1 .. sent
        /\ readBuf' > 0 => \A r \in Reports(queue') : readBuf' < r
        /\ readBuf' = -1 => broken
    <3>1. CASE queue # <<>> /\ readBuf' = Head(queue) /\ queue' = Tail(queue)
      BY <1>0, <1>2, <3>1
    <3>2. CASE queue = <<>> /\ broken /\ readBuf' = -1 /\ UNCHANGED queue
      BY <1>0, <3>2
    <3> QED
      BY <1>4, <3>1, <3>2 DEF CompleteRead
  <2>3. readPending = TRUE
    BY <2>1 DEF HandleInv, WinBuffer
  <2>4. WinBuffer'
    BY <2>1, <2>2, <2>3 DEF HandleInv, WinBuffer
  <2> QED
    BY <1>0, <2>1, <2>2, <2>4 DEF HandleInv
<1> USE DEF WinInv, HandleInv, WinBuffer, readVars, threadVars, callVars, winVars, winReads, winWrites
<1>5. CASE OpenWinHandle
  <2>1. /\ owner' = "starting" /\ sent' = 0 /\ readPending' = FALSE /\ reading' = FALSE /\ readBuf' = 0
        /\ queue' = <<>> /\ UNCHANGED <<broken, reader, wait>>
    BY <1>5 DEF OpenWinHandle
  <2>2. sent' \in Nat /\ readBuf' \in -1 .. sent' /\ ~(readBuf' > 0) /\ ~(readBuf' = -1)
    BY <2>1
  <2> QED
    BY <1>0, <2>1, <2>2
<1>6. CASE GetPreparsedData
  BY <1>6 DEF GetPreparsedData
<1>7. CASE WinOpenFails
  BY <1>0, <1>7 DEF WinOpenFails
<1>8. CASE NewDevice
  BY <1>8 DEF NewDevice
<1>9. CASE ReadFile
  <2>1. CASE ~readPending /\ queue # <<>> /\ ReturnData /\ UNCHANGED winReads
    BY <1>0, <1>2, <1>9, <2>1 DEF ReadFile, ReturnData, Return
  <2>2. CASE ~readPending /\ broken /\ Return(-1) /\ UNCHANGED <<queue, winReads>>
    BY <1>9, <2>2 DEF ReadFile, Return
  <2>3. CASE /\ readPending' = TRUE /\ reading' = (reading \/ ~readPending)
             /\ readBuf' = IF readPending THEN readBuf ELSE 0
             /\ reader' = "waiting" /\ UNCHANGED <<wait, result, queue>>
    BY <1>9, <2>3 DEF ReadFile
  <2> QED
    BY <1>9, <2>1, <2>2, <2>3 DEF ReadFile
<1>10. CASE TakeRead
  <2>1. /\ readBuf # 0 /\ reading = FALSE /\ owner \in {"open", "writing"}
        /\ readBuf' = 0 /\ readPending' = FALSE /\ reader' = "idle" /\ wait' = "none"
        /\ UNCHANGED <<broken, sent, queue, owner, reading>>
    BY <1>10 DEF TakeRead, Return
  <2>2. readBuf' \in -1 .. sent /\ ~(readBuf' > 0) /\ ~(readBuf' = -1)
    BY <1>0, <2>1
  <2> QED
    BY <2>1, <2>2
<1>11. CASE WinTimeOut
  BY <1>11 DEF WinTimeOut, Return
<1>12. CASE WriteFile \/ CompleteWrite
  BY <1>12 DEF WriteFile, CompleteWrite
<1>13. CASE FailWrite \/ WriteDone \/ WriteTimesOut
  BY <1>13 DEF FailWrite, WriteDone, WriteTimesOut
<1>14. CASE CancelIo
  <2>1. /\ owner = "open" /\ owner' = "cancelled"
        /\ reading' = TRUE => reading = TRUE
        /\ reading' \in BOOLEAN
        /\ UNCHANGED <<broken, sent, queue, reader, wait, readPending, readBuf>>
    BY <1>14 DEF CancelIo
  <2> QED
    BY <2>1
<1>15. CASE CloseHandles
  BY <1>15 DEF CloseHandles
<1>16. CASE FreeBuffers
  BY <1>0, <1>16 DEF FreeBuffers
<1>17. CASE EndCancelled
  <2>1. /\ UNCHANGED <<broken, sent, queue, owner, reader, wait, readPending, readBuf>>
        /\ reading' = FALSE \/ UNCHANGED reading
    BY <1>17 DEF EndCancelled
  <2> QED
    BY <2>1
<1> QED
  BY <1>3, <1>4, <1>5, <1>6, <1>7, <1>8, <1>9, <1>10, <1>11, <1>12, <1>13, <1>14, <1>15, <1>16, <1>17
  DEF WinNext, WinOpen, WinRead, WinClose

LEMMA NextHandleInv ==
  ASSUME OwnedInv, HandleInv, [HandleNext]_hidVars
  PROVE  HandleInv'
<1>1. CASE Outside /\ UNCHANGED <<usbVars, macVars, winVars>>
  BY <1>1, OutsideHandle
<1>2. CASE Libusb(UsbNext)
  BY <1>2, UsbHandle, SameBackend DEF Libusb, OwnedInv, HandleNext, winVars
<1>3. CASE Mac(MacNext)
  BY <1>3, MacHandle, SameBackend DEF Mac, OwnedInv, HandleNext, winVars
<1>4. CASE Posix(PosixNext)
  BY <1>4, PosixHandle, SameBackend DEF Posix, OwnedInv, HandleNext, winVars
<1>5. CASE Windows(WinNext)
  BY <1>5, WinHandle, SameBackend DEF Windows, OwnedInv, HandleNext
<1>6. CASE UNCHANGED hidVars
  BY <1>6 DEF hidVars, callVars, readVars, threadVars, usbVars, macVars, winVars,
              HandleInv, UsbFlags, MacFlags, WinBuffer
<1> QED
  BY <1>1, <1>2, <1>3, <1>4, <1>5, <1>6 DEF HandleNext, Outside

(* Reports are kept in order, and the flags that end a read say what they  *)
(* should: of the things a reader looks at in any implementation.          *)
LEMMA HandleAlways == Spec => [](OwnedInv /\ HandleInv)
BY InitOwned, InitHandle, NextOwned, NextHandle, NextHandleInv, PTL DEF Spec
-----------------------------------------------------------------------------
(* What a step of an implementation is to HidHandle. *)

Promised == Promise!Next \/ UNCHANGED Promise!handleVars

Still == UNCHANGED <<backend, broken, wait, result>>

(* Nothing that the program sees. *)
LEMMA Unseen ==
  ASSUME Still, Connected' = Connected, Connected => UNCHANGED <<sent, Held>>
  PROVE  Promised
BY DEF Still, Promised, Promise!handleVars

LEMMA Connects ==
  ASSUME Still, ~Connected, Connected', sent' = 0, Held' = {}
  PROVE  Promised
BY DEF Still, Promised, Promise!Next, Promise!Step, Promise!Connect

LEMMA Disconnects ==
  ASSUME Still, Connected, ~Connected', wait = "none"
  PROVE  Promised
BY DEF Still, Promised, Promise!Next, Promise!Step, Promise!Disconnect

LEMMA SameCardinality == \A S : Promise!Cardinality(S) = Cardinality(S)
BY DEF Promise!Cardinality, Cardinality

LEMMA Receives ==
  ASSUME Still, Connected, Connected', sent' = sent + 1,
         IF Cardinality(Held) < Limit THEN Held' = Held \cup {sent'}
         ELSE \E r \in Held \cup {sent'} : Held' = (Held \cup {sent'}) \ {r}
  PROVE  Promised
<1>1. CASE Cardinality(Held) < Limit
  <2>1. Held' = Held \cup {sent'}
    BY <1>1
  <2>2. Promise!Receive
    BY <1>1, <2>1, SameCardinality DEF Still, Promise!Receive
  <2> QED
    BY <2>2 DEF Still, Promised, Promise!Next, Promise!Step
<1>2. CASE ~(Cardinality(Held) < Limit)
  <2>1. \E r \in Held \cup {sent'} : Held' = (Held \cup {sent'}) \ {r}
    BY <1>2
  <2>2. Promise!Receive
    BY <1>2, <2>1, SameCardinality DEF Still, Promise!Receive
  <2> QED
    BY <2>2 DEF Still, Promised, Promise!Next, Promise!Step
<1> QED
  BY <1>1, <1>2

(* A call ends. *)
Returning == /\ UNCHANGED <<backend, broken, sent>>
             /\ Connected /\ Connected'
             /\ wait # "none" /\ wait' = "none"

LEMMA ReturnsData ==
  ASSUME Returning, result' \in Held, Held' = Held \ {result'},
         \A r \in Held' : Promise!Id(r) = Promise!Id(result') => r > result'
  PROVE  Promised
<1>1. Promise!Data
  BY DEF Returning, Promise!Data, Promise!Id
<1> QED
  BY <1>1 DEF Returning, Promised, Promise!Next, Promise!Step

LEMMA ReturnsNothing ==
  ASSUME Returning, Held' = Held, wait \in {"time", "poll"}, result' = 0
  PROVE  Promised
<1>1. Promise!Nothing
  BY DEF Returning, Promise!Nothing
<1> QED
  BY <1>1 DEF Returning, Promised, Promise!Next, Promise!Step

LEMMA ReturnsError ==
  ASSUME Returning, Held' = Held, broken = TRUE, result' = -1
  PROVE  Promised
<1>1. Promise!Fail
  BY DEF Returning, Promise!Fail
<1> QED
  BY <1>1 DEF Returning, Promised, Promise!Next, Promise!Step

LEMMA OutsidePromised ==
  ASSUME OwnedInv, HandleInv, Outside, UNCHANGED <<usbVars, macVars, winVars>>
  PROVE  Promised
<1> USE DEF readVars, threadVars, winVars
<1>1. UNCHANGED <<backend, sent, queue, owner, readBuf, result>>
  BY DEF Outside, Unplug, Plug, Read
<1>2. Connected' = Connected /\ Held' = Held
  BY <1>1 DEF Connected, Held
<1>3. CASE Unplug
  <2>1. Promise!Unplug
    BY <1>1, <1>2, <1>3 DEF Unplug, Promise!Unplug
  <2> QED
    BY <1>1, <2>1 DEF Promised, Promise!Next, Promise!Step
<1>4. CASE Plug
  <2>1. Promise!Plug
    BY <1>1, <1>2, <1>4 DEF Plug, Promise!Plug, Connected
  <2> QED
    BY <1>1, <2>1 DEF Promised, Promise!Next, Promise!Step
<1>5. CASE Read
  <2>1. wait = "none" /\ wait' \in {"block", "time", "poll"} /\ broken' = broken /\ Connected
    BY <1>5 DEF Read, HandleInv, Connected
  <2>2. Promise!Read(wait')
    BY <1>1, <1>2, <2>1 DEF Promise!Read
  <2> QED
    BY <1>1, <2>1, <2>2 DEF Promised, Promise!Next, Promise!Step
<1> QED
  BY <1>3, <1>4, <1>5 DEF Outside

(* Where a call finds its reports and what a queue of them is to Held. *)
LEMMA HeldIs ==
  /\ readBuf = 0 => Held = Reports(queue)
  /\ readBuf # 0 /\ readBuf # -1 => Held = Reports(queue) \cup {readBuf}
  /\ readBuf = -1 => Held = Reports(queue)
BY DEF Held, Reports

LEMMA HeldNext ==
  /\ readBuf' = 0 => Held' = Reports(queue')
  /\ readBuf' # 0 /\ readBuf' # -1 => Held' = Reports(queue') \cup {readBuf'}
  /\ readBuf' = -1 => Held' = Reports(queue')
BY DEF Held, Reports

LEMMA AttachPromised ==
  ASSUME HandleInv, Still, readBuf = 0, readBuf' = 0, Connected, Connected',
         sent' = sent + 1, queue' = Attached(sent + 1)
  PROVE  Promised
<1>1. Held = Reports(queue) /\ Held' = Reports(queue')
  BY HeldIs, HeldNext
<1>2. IF Cardinality(Held) < Limit THEN Held' = Held \cup {sent'}
      ELSE \E r \in Held : Held' = (Held \cup {sent'}) \ {r}
  BY <1>1, AttachedIs
<1> QED
  BY <1>2, Receives

LEMMA FirstPromised ==
  ASSUME HandleInv, Returning, readBuf = 0, readBuf' = 0, queue # <<>>, ReturnData
  PROVE  Promised
<1>1. Held = Reports(queue) /\ Held' = Reports(queue')
  BY HeldIs, HeldNext
<1>2. result' = Head(queue) /\ queue' = Tail(queue)
  BY DEF ReturnData, Return
<1>3. /\ Head(queue) \in Reports(queue)
      /\ Reports(Tail(queue)) = Reports(queue) \ {Head(queue)}
      /\ \A r \in Reports(Tail(queue)) : r > Head(queue)
  BY OldestReport DEF HandleInv
<1> QED
  BY <1>1, <1>2, <1>3, ReturnsData

LEMMA UsbPromised ==
  ASSUME UsbInv, HandleInv, backend = "libusb", backend' = backend, UsbNext, readBuf' = readBuf
  PROVE  Promised
<1>0. /\ readBuf = 0 /\ readBuf' = 0
      /\ UNCHANGED queue => Held' = Held
      /\ UNCHANGED owner => Connected' = Connected
      /\ queue' = <<>> => Held' = {}
      /\ wait = "none" <=> reader = "idle"
      /\ wait \in {"none", "block", "time", "poll"}
      /\ broken \in BOOLEAN
  BY HeldIs, HeldNext, EmptyAscending DEF HandleInv, Connected
<1> USE DEF Still, readVars, threadVars, callVars, usbVars
<1>1. CASE OpenHandle \/ WrapHandle \/ SelectInterface \/ DetachDriver \/ ClaimInterface
  <2>1. Still /\ ~Connected /\ Connected' = Connected
    BY <1>1 DEF OpenHandle, WrapHandle, NewUsbDevice, SelectInterface, DetachDriver, ClaimInterface,
                GiveUp, Connected
  <2> QED
    BY <2>1, Unseen
<1>2. CASE CreateThread
  <2>1. ~Connected /\ Connected' /\ sent' = 0 /\ queue' = <<>>
    BY <1>2 DEF CreateThread, HandleInv, UsbFlags, Connected
  <2> QED
    BY <1>0, <1>2, <2>1, Connects DEF CreateThread
<1>3. CASE PassBarrier
  BY <1>0, <1>3, Unseen DEF PassBarrier, Connected
<1>4. CASE Completes
  <2>1. Still /\ UNCHANGED <<sent, queue, owner>>
    BY <1>4 DEF Completes, Complete
  <2> QED
    BY <1>0, <2>1, Unseen
<1>5. CASE TakeReport
  <2>1. /\ Still /\ sent' = sent + 1 /\ queue' = Attached(sent + 1)
        /\ Connected' = Connected
    BY <1>0, <1>5 DEF TakeReport, Signal
  <2> QED
    BY <1>0, <2>1, AttachPromised, Unseen
<1>6. CASE TakeStatus \/ TestShutdown \/ Resubmit
  <2>1. Still /\ UNCHANGED <<sent, queue, owner>>
    BY <1>6 DEF TakeStatus, TestShutdown, Resubmit
  <2> QED
    BY <1>0, <2>1, Unseen
<1>7. CASE UsbThread
  <2>1. Still /\ UNCHANGED <<sent, queue, owner>>
    BY <1>7 DEF UsbThread, StartThread, LeaveLoop, CancelPending, WakeReader, Signal
  <2> QED
    BY <1>0, <2>1, Unseen
<1>8. CASE UsbLook
  <2>1. /\ owner = "open" /\ wait # "none" /\ UNCHANGED <<backend, broken, sent, owner>>
        /\ Connected /\ Connected'
    BY <1>0, <1>8 DEF UsbLook, UsbInv, Connected
  <2>2. CASE queue # <<>>
    <3>1. ReturnData
      BY <1>8, <2>2 DEF UsbLook
    <3> QED
      BY <1>0, <2>1, <2>2, <3>1, FirstPromised DEF Returning, ReturnData, Return
  <2>3. CASE queue = <<>>
    <3>1. UNCHANGED queue
      BY <1>8, <2>3 DEF UsbLook
    <3>2. CASE shutdown /\ Return(-1)
      <4>1. broken = TRUE
        BY <2>1, <3>2, <1>0 DEF HandleInv, UsbFlags
      <4> QED
        BY <1>0, <2>1, <3>1, <3>2, <4>1, ReturnsError DEF Returning, Return
    <3>3. CASE ~shutdown /\ wait = "poll" /\ Return(0)
      BY <1>0, <2>1, <3>1, <3>3, ReturnsNothing DEF Returning, Return
    <3>4. CASE ~shutdown /\ wait # "poll" /\ reader' = "waiting" /\ UNCHANGED <<wait, result>>
      BY <1>0, <2>1, <3>1, <3>4, Unseen
    <3> QED
      BY <1>8, <2>3, <3>2, <3>3, <3>4 DEF UsbLook
  <2> QED
    BY <2>2, <2>3
<1>9. CASE SpuriousWakeup
  BY <1>0, <1>9, Unseen DEF SpuriousWakeup, Signal
<1>10. CASE TimeOut
  <2>1. /\ Connected /\ Connected' /\ wait = "time" /\ Return(0)
        /\ UNCHANGED <<backend, broken, sent, queue>>
    BY <1>10 DEF TimeOut, UsbInv, Connected
  <2> QED
    BY <1>0, <2>1, ReturnsNothing DEF Returning, Return
<1>11. CASE StopThread
  <2>1. Still /\ Connected /\ ~Connected' /\ wait = "none"
    BY <1>0, <1>11 DEF StopThread, Connected
  <2> QED
    BY <2>1, Disconnects
<1>12. CASE UsbClose
  <2>1. Still /\ ~Connected /\ Connected' = Connected
    BY <1>12 DEF UsbClose, CancelTransfer, Join, Release, Connected
  <2> QED
    BY <2>1, Unseen
<1> QED
  BY <1>1, <1>2, <1>3, <1>4, <1>5, <1>6, <1>7, <1>8, <1>9, <1>10, <1>11, <1>12
  DEF UsbNext, UsbOpen, UsbCallback, UsbRead

LEMMA MacPromised ==
  ASSUME MacInv, HandleInv, backend = "mac", backend' = backend, MacNext, readBuf' = readBuf
  PROVE  Promised
<1>0. /\ readBuf = 0 /\ readBuf' = 0
      /\ UNCHANGED queue => Held' = Held
      /\ UNCHANGED owner => Connected' = Connected
      /\ queue' = <<>> => Held' = {}
      /\ wait = "none" <=> reader = "idle"
      /\ wait \in {"none", "block", "time", "poll"}
      /\ broken \in BOOLEAN
  BY HeldIs, HeldNext, EmptyAscending DEF HandleInv, Connected
<1> USE DEF Still, readVars, threadVars, macVars
<1>1. CASE OpenEntry \/ CreateDevice
  BY <1>1, Unseen DEF OpenEntry, CreateDevice, Connected
<1>2. CASE OpenDevice
  <2>1. Still /\ ~Connected /\ sent' = 0 /\ queue' = <<>>
    BY <1>2 DEF OpenDevice, HandleInv, MacFlags, Connected
  <2>2. CASE owner' = "starting"
    BY <1>0, <2>1, <2>2, Connects DEF Connected
  <2>3. CASE owner' = "closed"
    <3>1. Connected' = Connected
      BY <1>2, <2>3 DEF OpenDevice, Connected
    <3> QED
      BY <2>1, <3>1, Unseen
  <2> QED
    BY <1>2, <2>2, <2>3 DEF OpenDevice
<1>3. CASE MacPassBarrier
  BY <1>0, <1>3, Unseen DEF MacPassBarrier, Connected
<1>4. CASE MacThread
  <2>1. Still /\ UNCHANGED <<sent, queue, owner>>
    BY <1>4 DEF MacThread, StartLoop, TestLoop, LoopStopped, Broadcast, Signal, EndThread
  <2> QED
    BY <1>0, <2>1, Unseen
<1>5. CASE ReportCallback
  <2>1. /\ Still /\ sent' = sent + 1 /\ queue' = Attached(sent + 1)
        /\ Connected' = Connected
    BY <1>0, <1>5 DEF ReportCallback, Signal
  <2> QED
    BY <1>0, <2>1, AttachPromised, Unseen
<1>6. CASE RemovalCallback \/ PerformSignal \/ LoopTimesOut
  <2>1. Still /\ UNCHANGED <<sent, queue, owner>>
    BY <1>6 DEF RemovalCallback, PerformSignal, LoopTimesOut
  <2> QED
    BY <1>0, <2>1, Unseen
<1>7. CASE MacLook
  <2>1. /\ owner = "open" /\ wait # "none" /\ UNCHANGED <<backend, broken, sent, owner>>
        /\ Connected /\ Connected'
    BY <1>0, <1>7 DEF MacLook, MacInv, Connected
  <2>2. CASE queue # <<>> /\ ReturnData
    BY <1>0, <2>1, <2>2, FirstPromised DEF Returning, ReturnData, Return
  <2>3. CASE UNCHANGED queue /\ Gone /\ Return(-1)
    <3>1. broken = TRUE
      BY <1>0, <2>1, <2>3 DEF HandleInv, MacFlags, Gone
    <3> QED
      BY <1>0, <2>1, <2>3, <3>1, ReturnsError DEF Returning, Return
  <2>4. CASE UNCHANGED queue /\ wait = "poll" /\ Return(0)
    BY <1>0, <2>1, <2>4, ReturnsNothing DEF Returning, Return
  <2>5. CASE UNCHANGED queue /\ reader' = "waiting" /\ UNCHANGED <<wait, result>>
    BY <1>0, <2>1, <2>5, Unseen
  <2> QED
    BY <1>7, <2>2, <2>3, <2>4, <2>5 DEF MacLook
<1>8. CASE MacSpuriousWakeup
  BY <1>0, <1>8, Unseen DEF MacSpuriousWakeup, Signal
<1>9. CASE MacTimeOut
  <2>1. /\ Connected /\ Connected' /\ wait = "time" /\ Return(0)
        /\ UNCHANGED <<backend, broken, sent, queue>>
    BY <1>9 DEF MacTimeOut, MacInv, Connected
  <2> QED
    BY <1>0, <2>1, ReturnsNothing DEF Returning, Return
<1>10. CASE Unregister
  <2>1. Still /\ Connected /\ ~Connected' /\ wait = "none"
    BY <1>0, <1>10 DEF Unregister, Connected
  <2> QED
    BY <2>1, Disconnects
<1>11. CASE MacClose
  <2>1. Still /\ ~Connected /\ Connected' = Connected
    BY <1>11 DEF MacClose, StopLoop, WakeLoop, MacJoin, MacRelease, Connected
  <2> QED
    BY <2>1, Unseen
<1> QED
  BY <1>1, <1>2, <1>3, <1>4, <1>5, <1>6, <1>7, <1>8, <1>9, <1>10, <1>11 DEF MacNext, MacOpen, MacRead

(* The reports of one id come from one file. *)
LEMMA IdHasFile ==
  ASSUME backend \in {"linux", "netbsd"}, NEW r, NEW s, Promise!Id(r) = Promise!Id(s)
  PROVE  FileOf(r) = FileOf(s)
<1>1. Len(Files) = IF backend = "netbsd" THEN Len(Uhids) ELSE 1
  BY DEF Files
<1>2. r % Len(Files) = s % Len(Files)
  BY <1>1 DEF Promise!Id
<1> QED
  BY <1>2 DEF FileOf

LEMMA PosixPromised ==
  ASSUME PosixInv, HandleInv, backend \in {"linux", "netbsd"}, backend' = backend, PosixNext,
         readBuf' = readBuf
  PROVE  Promised
<1>0. /\ readBuf = 0 /\ readBuf' = 0
      /\ Held = Reports(queue) /\ Held' = Reports(queue')
      /\ UNCHANGED queue => Held' = Held
      /\ UNCHANGED owner => Connected' = Connected
      /\ queue' = <<>> => Held' = {}
      /\ wait = "none" <=> reader = "idle"
      /\ wait \in {"none", "block", "time", "poll"}
      /\ broken \in BOOLEAN /\ sent \in Nat /\ Ascending(queue, sent)
  BY HeldIs, HeldNext, EmptyAscending DEF HandleInv, Connected
<1> USE DEF Still, readVars, threadVars
<1>1. CASE KernelReceives
  <2>1. Still /\ Connected /\ Connected' /\ sent' = sent + 1
    BY <1>0, <1>1 DEF KernelReceives
  <2>2. Cardinality(Held) = Len(queue)
    BY <1>0, Counted
  <2>3. CASE Len(queue) < Limit
    <3>1. Held' = Held \cup {sent'}
      BY <1>0, <1>1, <2>1, <2>3, NewReport DEF KernelReceives
    <3> QED
      BY <2>1, <2>2, <2>3, <3>1, Receives
  <2>4. CASE ~(Len(queue) < Limit)
    <3>1. queue' = queue
      BY <1>1, <2>4 DEF KernelReceives
    <3>2. \A r \in Held : r <= sent /\ r \in Nat
      BY <1>0 DEF Ascending, Reports
    <3>3. Held' = (Held \cup {sent'}) \ {sent'}
      BY <1>0, <2>1, <3>1, <3>2
    <3> QED
      BY <2>1, <2>2, <2>4, <3>3, Receives
  <2> QED
    BY <2>3, <2>4
<1>2. CASE OpenStarts
  <2>1. /\ Still /\ ~Connected /\ Connected' /\ sent' = 0 /\ queue' = <<>>
    BY <1>2 DEF OpenStarts, HandleInv, Connected
  <2> QED
    BY <1>0, <2>1, Connects
<1>3. CASE OpenFile \/ OpenDone
  <2>1. Still /\ Connected' = Connected /\ UNCHANGED <<sent, queue>>
    BY <1>3 DEF OpenFile, OpenDone, Connected
  <2> QED
    BY <1>0, <2>1, Unseen
<1>4. CASE OpenFails \/ PosixClose
  <2>1. Still /\ Connected /\ ~Connected' /\ wait = "none"
    BY <1>0, <1>4 DEF OpenFails, PosixClose, Connected, PosixInv
  <2> QED
    BY <2>1, Disconnects
<1>5. CASE PosixLook
  <2>1. /\ wait # "none" /\ UNCHANGED <<backend, broken, sent, owner>>
        /\ Connected /\ Connected'
    <3>1. reader # "idle" /\ UNCHANGED <<backend, broken, sent, owner>>
      BY <1>5 DEF PosixLook, PollFails, PollTimesOut, PollReady, PosixRead
    <3> QED
      BY <1>0, <3>1 DEF PosixInv, Connected
  <2>2. CASE PollFails
    BY <1>0, <2>1, <2>2, ReturnsError DEF PollFails, Returning, Return
  <2>3. CASE PollTimesOut
    BY <1>0, <2>1, <2>3, ReturnsNothing DEF PollTimesOut, Returning, Return
  <2>4. CASE PollReady
    BY <1>0, <2>1, <2>4, Unseen DEF PollReady
  <2>5. CASE PosixRead
    <3>1. ASSUME NEW i \in 1 .. Len(queue), NEW n \in 1 .. Len(Files), IsFirst(i, Files[n]),
                 Return(queue[i]), queue' = RemoveAt(queue, i)
          PROVE  Promised
      <4>1. /\ queue[i] \in Reports(queue) /\ Held' = Held \ {queue[i]} /\ result' = queue[i]
        BY <1>0, <3>1, AnyReport DEF Return
      <4>2. ASSUME NEW r \in Held', Promise!Id(r) = Promise!Id(queue[i]) PROVE r > queue[i]
        <5>1. PICK k \in 1 .. Len(queue) : r = queue[k]
          BY <1>0, <4>1 DEF Reports
        <5>2. FileOf(queue[k]) = Files[n]
          BY <3>1, <4>2, <5>1, IdHasFile DEF IsFirst
        <5>3. k # i /\ ~(k \in 1 .. i - 1)
          BY <3>1, <4>1, <5>1, <5>2 DEF IsFirst
        <5>4. Len(queue) \in Nat /\ queue[k] \in Nat /\ queue[i] \in Nat
          BY <1>0 DEF Ascending
        <5>5. i < k
          BY <5>3, <5>4
        <5> QED
          BY <1>0, <5>1, <5>4, <5>5 DEF Ascending
      <4> QED
        BY <1>0, <2>1, <3>1, <4>1, <4>2, ReturnsData DEF Returning, Return
    <3>2. CASE queue = <<>> /\ broken /\ Return(-1) /\ UNCHANGED queue
      BY <1>0, <2>1, <3>2, ReturnsError DEF Returning, Return
    <3> QED
      BY <2>5, <3>1, <3>2 DEF PosixRead
  <2> QED
    BY <1>5, <2>2, <2>3, <2>4, <2>5 DEF PosixLook
<1> QED
  BY <1>1, <1>2, <1>3, <1>4, <1>5 DEF PosixNext

LEMMA WinPromised ==
  ASSUME WinInv, HandleInv, backend = "windows", backend' = backend, WinNext
  PROVE  Promised
<1>0. /\ UNCHANGED <<queue, readBuf>> => Held' = Held
      /\ UNCHANGED owner => Connected' = Connected
      /\ wait = "none" <=> reader = "idle"
      /\ wait \in {"none", "block", "time", "poll"}
      /\ broken \in BOOLEAN /\ sent \in Nat /\ Ascending(queue, sent)
      /\ WinBuffer
  BY HeldIs, HeldNext DEF HandleInv, Connected
<1> USE DEF Still, readVars, threadVars, callVars, winVars, winReads, winWrites
<1>1. CASE DriverReceives
  <2>1. Still /\ Connected /\ Connected' /\ sent' = sent + 1 /\ readBuf' = readBuf
    BY <1>0, <1>1 DEF DriverReceives
  <2> DEFINE buffered == {readBuf} \ {0, -1}
  <2>2. Held = Reports(queue) \cup buffered /\ Held' = Reports(queue') \cup buffered
    BY <2>1 DEF Held, Reports
  <2>3. /\ \A r \in Reports(queue) : r \in 1 .. sent
        /\ \A r \in buffered : r \in 1 .. sent
    BY <1>0 DEF Ascending, Reports, WinBuffer
  <2>4. CASE Reports(queue') = Reports(queue) \cup {sent + 1} /\ Cardinality(Held) < Limit
    <3>1. Held' = Held \cup {sent'}
      BY <2>1, <2>2, <2>4
    <3> QED
      BY <2>1, <2>4, <3>1, Receives
  <2>5. CASE queue = <<>> /\ ~(Cardinality(Held) < Limit)
    <3>1. Reports(queue) = {}
      BY <2>5, EmptyAscending
    <3>2. Held = {} \/ Held = {readBuf}
      BY <2>2, <3>1
    <3>3. Cardinality({}) = 0 /\ Cardinality({readBuf}) = 1
      BY FS_EmptySet, FS_Singleton
    <3>4. Limit \in Nat /\ Limit > 1
      BY HidAssumption DEF Limit
    <3>5. Cardinality(Held) = 0 \/ Cardinality(Held) = 1
      BY <3>2, <3>3
    <3> QED
      BY <2>5, <3>4, <3>5
  <2>6. CASE /\ queue # <<>> /\ ~(Cardinality(Held) < Limit)
             /\ Reports(queue') = (Reports(queue) \ {Head(queue)}) \cup {sent + 1}
    <3>1. Head(queue) \in Reports(queue) /\ Head(queue) \in 1 .. sent
      BY <1>0, <2>6, OldestReport
    <3>2. Head(queue) \notin buffered
      <4>1. \A r \in buffered : r > 0 /\ r = readBuf
        BY <1>0, <2>3
      <4>2. \A r \in buffered : r < Head(queue)
        BY <1>0, <3>1, <4>1 DEF WinBuffer
      <4> QED
        BY <1>0, <3>1, <4>2
    <3>3. Head(queue) # sent + 1
      BY <1>0, <3>1
    <3>4. Held' = (Held \cup {sent'}) \ {Head(queue)}
      BY <2>1, <2>2, <2>6, <3>1, <3>2, <3>3
    <3> QED
      BY <2>1, <2>2, <2>6, <3>1, <3>4, Receives
  <2>7. \/ /\ Cardinality(Held) < Limit \/ queue = <<>>
           /\ Reports(queue') = Reports(queue) \cup {sent + 1}
        \/ /\ queue # <<>> /\ ~(Cardinality(Held) < Limit)
           /\ Reports(queue') = (Reports(queue) \ {Head(queue)}) \cup {sent + 1}
    BY <1>1, DriverQueue
  <2> QED
    BY <2>4, <2>5, <2>6, <2>7
<1>2. CASE OpenWinHandle
  <2>1. Still /\ ~Connected /\ Connected' /\ sent' = 0 /\ queue' = <<>> /\ readBuf' = 0
    BY <1>0, <1>2 DEF OpenWinHandle, HandleInv, WinBuffer, Connected
  <2> QED
    BY <2>1, HeldNext, EmptyAscending, Connects
<1>3. CASE GetPreparsedData \/ NewDevice
  <2>1. Still /\ Connected' = Connected /\ UNCHANGED <<sent, queue, readBuf>>
    BY <1>0, <1>3 DEF GetPreparsedData, NewDevice, WinBuffer, Connected
  <2> QED
    BY <1>0, <2>1, Unseen
<1>4. CASE WinOpenFails \/ CancelIo
  <2>1. Still /\ Connected /\ ~Connected' /\ wait = "none"
    BY <1>0, <1>4 DEF WinOpenFails, CancelIo, WinInv, Connected
  <2> QED
    BY <2>1, Disconnects
<1>5. CASE WinRead
  <2>1. /\ wait # "none" /\ UNCHANGED <<backend, broken, sent, owner>>
        /\ Connected /\ Connected'
    <3>1. reader # "idle" /\ UNCHANGED <<backend, broken, sent, owner>>
      BY <1>5 DEF WinRead, ReadFile, TakeRead, WinTimeOut
    <3> QED
      BY <1>0, <3>1 DEF WinInv, Connected
  <2>2. CASE ReadFile
    <3>1. CASE ~readPending /\ queue # <<>> /\ ReturnData /\ UNCHANGED winReads
      BY <1>0, <2>1, <3>1, FirstPromised DEF Returning, ReturnData, Return, WinBuffer
    <3>2. CASE ~readPending /\ broken /\ Return(-1) /\ UNCHANGED <<queue, winReads>>
      BY <1>0, <2>1, <3>2, ReturnsError DEF Returning, Return
    <3>3. CASE /\ readPending' = TRUE /\ reading' = (reading \/ ~readPending)
               /\ readBuf' = IF readPending THEN readBuf ELSE 0
               /\ reader' = "waiting" /\ UNCHANGED <<wait, result, queue>>
      <4>1. readBuf' = readBuf
        BY <1>0, <3>3 DEF WinBuffer
      <4> QED
        BY <1>0, <2>1, <3>3, <4>1, Unseen
    <3> QED
      BY <2>2, <3>1, <3>2, <3>3 DEF ReadFile
  <2>3. CASE TakeRead
    <3>1. Return(readBuf) /\ readBuf # 0 /\ readBuf' = 0 /\ UNCHANGED queue
      BY <2>3 DEF TakeRead
    <3>2. CASE readBuf = -1
      <4>1. broken = TRUE /\ Held' = Held
        BY <1>0, <3>1, <3>2, HeldIs, HeldNext DEF WinBuffer
      <4> QED
        BY <2>1, <3>1, <3>2, <4>1, ReturnsError DEF Returning, Return
    <3>3. CASE readBuf # -1
      <4>1. readBuf > 0
        BY <1>0, <3>1, <3>3 DEF WinBuffer
      <4>2. \A r \in Reports(queue) : r > readBuf /\ r # readBuf
        <5>1. \A r \in Reports(queue) : r \in Nat
          BY <1>0 DEF Ascending, Reports
        <5> QED
          BY <1>0, <4>1, <5>1 DEF WinBuffer
      <4>3. Held = Reports(queue) \cup {readBuf} /\ Held' = Reports(queue)
        BY <3>1, <3>3, HeldIs, HeldNext
      <4>4. result' = readBuf /\ result' \in Held /\ Held' = Held \ {result'}
        BY <3>1, <4>2, <4>3 DEF Return
      <4>5. \A r \in Held' : r > result'
        BY <4>2, <4>3, <4>4
      <4> QED
        BY <2>1, <3>1, <4>4, <4>5, ReturnsData DEF Returning, Return
    <3> QED
      BY <3>2, <3>3
  <2>4. CASE WinTimeOut
    BY <1>0, <2>1, <2>4, ReturnsNothing DEF WinTimeOut, Returning, Return
  <2> QED
    BY <1>5, <2>2, <2>3, <2>4 DEF WinRead
<1>6. CASE CompleteRead
  <2>1. Still /\ UNCHANGED <<sent, owner>> /\ readBuf = 0
    BY <1>0, <1>6 DEF CompleteRead, WinBuffer
  <2>2. CASE queue # <<>> /\ readBuf' = Head(queue) /\ queue' = Tail(queue)
    <3>1. /\ Head(queue) \in Reports(queue) /\ Head(queue) \in 1 .. sent
          /\ Reports(queue') = Reports(queue) \ {Head(queue)}
      BY <1>0, <2>2, OldestReport
    <3>2. readBuf' # 0 /\ readBuf' # -1
      BY <1>0, <2>2, <3>1
    <3>3. Held' = Held
      BY <2>1, <2>2, <3>1, <3>2, HeldIs, HeldNext
    <3> QED
      BY <1>0, <2>1, <3>3, Unseen
  <2>3. CASE queue = <<>> /\ broken /\ readBuf' = -1 /\ UNCHANGED queue
    <3>1. Held' = Held
      BY <2>1, <2>3, HeldIs, HeldNext
    <3> QED
      BY <1>0, <2>1, <3>1, Unseen
  <2> QED
    BY <1>6, <2>2, <2>3 DEF CompleteRead
<1>7. CASE WriteFile \/ CompleteWrite \/ FailWrite \/ WriteDone \/ WriteTimesOut \/ EndCancelled
  <2>1. Still /\ Connected' = Connected /\ UNCHANGED <<sent, queue, readBuf>>
    BY <1>0, <1>7 DEF WriteFile, CompleteWrite, FailWrite, WriteDone, WriteTimesOut, EndCancelled,
                       Connected
  <2> QED
    BY <1>0, <2>1, Unseen
<1>8. CASE WinClose
  <2>1. Still /\ ~Connected /\ Connected' = Connected
    BY <1>8 DEF WinClose, CloseHandles, FreeBuffers, Connected
  <2> QED
    BY <2>1, Unseen
<1> QED
  BY <1>1, <1>2, <1>3, <1>4, <1>5, <1>6, <1>7, <1>8 DEF WinNext, WinOpen

LEMMA NextPromised ==
  ASSUME OwnedInv, HandleInv, [HandleNext]_hidVars
  PROVE  Promised
<1>1. CASE Outside /\ UNCHANGED <<usbVars, macVars, winVars>>
  BY <1>1, OutsidePromised
<1>2. CASE Libusb(UsbNext)
  BY <1>2, UsbPromised, SameBackend DEF Libusb, OwnedInv, HandleNext, winVars
<1>3. CASE Mac(MacNext)
  BY <1>3, MacPromised, SameBackend DEF Mac, OwnedInv, HandleNext, winVars
<1>4. CASE Posix(PosixNext)
  BY <1>4, PosixPromised, SameBackend DEF Posix, OwnedInv, HandleNext, winVars
<1>5. CASE Windows(WinNext)
  BY <1>5, WinPromised, SameBackend DEF Windows, OwnedInv, HandleNext
<1>6. CASE UNCHANGED hidVars
  <2>1. Still /\ UNCHANGED <<sent, queue, owner, readBuf>>
    BY <1>6 DEF hidVars, callVars, readVars, winVars, Still
  <2> QED
    BY <2>1, Unseen DEF Connected, Held
<1> QED
  BY <1>1, <1>2, <1>3, <1>4, <1>5, <1>6 DEF HandleNext, Outside

(* In every implementation an open hid_device keeps what hidapi.h promises *)
(* of a read: each report is handed out once, oldest first, none is        *)
(* dropped while there is room, also not by a read that times out, and an  *)
(* error is reported only after a failure; for any number of reports, any  *)
(* size of the queue and any report ids.                                   *)
THEOREM ImplementsHandleAlways == Spec => ImplementsHandle
<1>1. Init => Promise!Init
  BY HidAssumption DEF Init, HandleInit, CallsInit, Connected, Promise!Init
<1>2. OwnedInv /\ HandleInv /\ [Next]_vars => [Promise!Next]_(Promise!handleVars)
  BY NextHandle, NextPromised DEF Promised
<1> QED
  BY <1>1, <1>2, HandleAlways, PTL DEF Spec, ImplementsHandle, Promise!Spec
=============================================================================

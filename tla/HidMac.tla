------------------------------- MODULE HidMac -------------------------------
(***************************************************************************)
(* The macOS implementation (src/src/hidapi/mac/hid.c).  A read thread     *)
(* runs a run loop, which calls back for every report, when the device is  *)
(* removed, and when hid_close signals a source; two barriers order its    *)
(* start and its end.                                                      *)
(***************************************************************************)
EXTENDS HidCalls

CONSTANT MacVersions  \* of {"old", "new"}: "new" has is_macos_10_10_or_greater

ASSUME MacAssumption == MacVersions \subseteq {"old", "new"}

VARIABLES
  macos,         \* the version it runs on
  disconnected,  \* dev->disconnected
  registered,    \* the two device callbacks are registered, the run loop is scheduled
  signalled      \* the source is signalled

macVars == <<macos, disconnected, registered, signalled>>

MacInit == /\ macos \in MacVersions
           /\ disconnected = FALSE /\ registered = FALSE /\ signalled = FALSE

-----------------------------------------------------------------------------
(* hid_open_path.  An unknown path leaves nothing behind. *)

OpenEntry ==
  /\ owner = "closed" /\ ~broken
  /\ owner' = "opened" /\ owned' = owned \cup {"dev", "entry"}
  /\ shutdown' = FALSE /\ disconnected' = FALSE /\ signalled' = FALSE /\ sent' = 0
  /\ UNCHANGED <<backend, broken, queue, readVars, thread, macos, registered>>

CreateDevice ==
  /\ owner = "opened"
  /\ \/ owner' = "created" /\ owned' = owned \cup {"handle"}
     \/ owner' = "closed" /\ owned' = owned \ {"dev", "entry"}
  /\ UNCHANGED <<backend, broken, sent, queue, readVars, threadVars, macVars>>

OpenDevice ==
  /\ owner = "created"
  /\ \/ /\ owner' = "starting" /\ owned' = owned \cup {"opened"}
        /\ registered' = TRUE /\ thread' = "starting"
     \/ /\ owner' = "closed" /\ owned' = owned \ {"dev", "entry", "handle"}
        /\ UNCHANGED <<registered, thread>>
  /\ UNCHANGED <<backend, broken, sent, queue, readVars, shutdown, macos, disconnected, signalled>>

MacPassBarrier ==
  /\ owner = "starting" /\ thread # "starting"
  /\ owner' = "open" /\ owned' = owned \ {"entry"}
  /\ UNCHANGED <<backend, broken, sent, queue, readVars, threadVars, macVars>>

MacOpen == OpenEntry \/ CreateDevice \/ OpenDevice \/ MacPassBarrier

-----------------------------------------------------------------------------
(* read_thread and the callbacks, which its run loop calls. *)

(* The source and the run loop belong to the thread. *)
StartLoop ==
  /\ thread = "starting" /\ thread' = "testing"
  /\ owned' = owned \cup {"source", "loop"}
  /\ UNCHANGED <<backend, broken, sent, queue, owner, readVars, shutdown, macVars>>

TestLoop ==
  /\ thread = "testing"
  /\ thread' = IF shutdown \/ disconnected THEN "leaving" ELSE "running"
  /\ UNCHANGED <<backend, broken, sent, queue, owner, readVars, owned, shutdown, macVars>>

ReportCallback ==
  /\ thread = "running" /\ registered /\ ~broken /\ sent < MaxReports
  /\ sent' = sent + 1 /\ queue' = Attached(sent + 1) /\ Signal
  /\ UNCHANGED <<backend, broken, owner, owned, threadVars, macVars>>

(* CFRunLoopStop. *)
RemovalCallback ==
  /\ thread = "running" /\ registered /\ broken
  /\ disconnected' = TRUE /\ thread' = "stopped"
  /\ UNCHANGED <<backend, broken, sent, queue, owner, readVars, owned, shutdown,
                 macos, registered, signalled>>

PerformSignal ==
  /\ thread = "running" /\ signalled
  /\ signalled' = FALSE /\ thread' = "stopped"
  /\ UNCHANGED <<backend, broken, sent, queue, owner, readVars, owned, shutdown,
                 macos, disconnected, registered>>

(* After a thousand seconds. *)
LoopTimesOut ==
  /\ thread = "running" /\ thread' = "testing"
  /\ UNCHANGED <<backend, broken, sent, queue, owner, readVars, owned, shutdown, macVars>>

(* A run loop that was stopped counts as a disconnection, whoever stopped  *)
(* it.                                                                     *)
LoopStopped ==
  /\ thread = "stopped" /\ thread' = "leaving" /\ disconnected' = TRUE
  /\ UNCHANGED <<backend, broken, sent, queue, owner, readVars, owned, shutdown,
                 macos, registered, signalled>>

Broadcast ==
  /\ thread = "leaving" /\ thread' = "parked" /\ Signal
  /\ UNCHANGED <<backend, broken, sent, queue, owner, owned, shutdown, macVars>>

(* Wrong (for NothingFreedInUse): the thread ends without the barrier. *)
EndAtOnce ==
  /\ thread = "parked"
  /\ thread' = "ended" /\ owned' = owned \ {"loop"}
  /\ UNCHANGED <<backend, broken, sent, queue, owner, readVars, shutdown, macVars>>

(* The shutdown barrier. *)
EndThread ==
  /\ thread = "parked" /\ owner = "joining"
  /\ thread' = "ended" /\ owned' = owned \ {"loop"}
  /\ UNCHANGED <<backend, broken, sent, queue, owner, readVars, shutdown, macVars>>

MacThread == StartLoop \/ TestLoop \/ LoopStopped \/ Broadcast \/ EndThread

-----------------------------------------------------------------------------
(* hid_read_timeout with cond_wait and cond_timedwait, which look at the   *)
(* two flags only after they have slept.                                   *)

Gone == shutdown \/ disconnected

MacLook ==
  /\ reader \in {"entered", "woken"}
  /\ IF queue # <<>> /\ (reader = "entered" \/ ~Gone) THEN ReturnData
     ELSE /\ UNCHANGED queue
          /\ \/ Gone /\ Return(-1)
             \/ ~Gone /\ wait = "poll" /\ Return(0)
             \/ ~Gone /\ wait # "poll" /\ reader' = "waiting" /\ UNCHANGED <<wait, result>>
  /\ UNCHANGED <<backend, broken, sent, owner, owned, threadVars, macVars>>

MacSpuriousWakeup ==
  /\ reader = "waiting" /\ Signal
  /\ UNCHANGED <<backend, broken, sent, queue, owner, owned, threadVars, macVars>>

MacTimeOut ==
  /\ reader \in {"waiting", "woken"} /\ wait = "time" /\ Return(0)
  /\ UNCHANGED <<backend, broken, sent, queue, owner, owned, threadVars, macVars>>

MacRead == MacLook \/ MacSpuriousWakeup \/ MacTimeOut

-----------------------------------------------------------------------------
(* hid_close. *)

(* On an old system the handle of a device that is gone must be left alone. *)
MayTouch == macos = "new" \/ ~disconnected

Unregister ==
  /\ owner = "open" /\ reader = "idle" /\ owner' = "unregistered"
  /\ registered' = (registered /\ ~MayTouch)
  /\ UNCHANGED <<backend, broken, sent, queue, readVars, owned, threadVars,
                 macos, disconnected, signalled>>

StopLoop ==
  /\ owner = "unregistered" /\ owner' = "stopping" /\ shutdown' = TRUE
  /\ UNCHANGED <<backend, broken, sent, queue, readVars, owned, thread, macVars>>

(* Wrong (for CloseReturns): the run loop is woken and has nothing to do. *)
WakeOnly ==
  /\ owner = "stopping" /\ owner' = "joining"
  /\ UNCHANGED <<backend, broken, sent, queue, readVars, owned, threadVars, macVars>>

(* CFRunLoopSourceSignal and CFRunLoopWakeUp, then the shutdown barrier. *)
WakeLoop ==
  /\ owner = "stopping" /\ owner' = "joining" /\ signalled' = TRUE
  /\ UNCHANGED <<backend, broken, sent, queue, readVars, owned, threadVars,
                 macos, disconnected, registered>>

(* IOHIDDeviceClose; without it nobody can close the device any more. *)
MacJoin ==
  /\ owner = "joining" /\ thread = "ended"
  /\ owner' = "joined" /\ thread' = "none"
  /\ owned' = (owned \ {"opened"}) \cup (IF MayTouch THEN {} ELSE {"lost_opened"})
  /\ UNCHANGED <<backend, broken, sent, queue, readVars, shutdown, macVars>>

MacRelease ==
  /\ owner = "joined" /\ owner' = "closed"
  /\ owned' = owned \ {"source", "handle", "dev"} /\ queue' = <<>> /\ registered' = FALSE
  /\ UNCHANGED <<backend, broken, sent, readVars, threadVars, macos, disconnected, signalled>>

MacClose == StopLoop \/ WakeLoop \/ MacJoin \/ MacRelease

-----------------------------------------------------------------------------
MacNext == \/ MacOpen \/ MacThread \/ MacRead \/ Unregister \/ MacClose
           \/ ReportCallback \/ RemovalCallback \/ PerformSignal \/ LoopTimesOut

(* hid_close wakes a run loop that must still exist. *)
MacInUse ==
  (IF owner = "stopping" THEN {"source", "loop"} ELSE {})
  \cup (IF thread \notin {"none", "ended"} \/ reader # "idle" THEN {"dev", "handle"} ELSE {})
=============================================================================

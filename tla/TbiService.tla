---------------------------- MODULE TbiService -----------------------------
(***************************************************************************)
(* TbiService (src/tbi_service.cpp): application threads send a request    *)
(* and block in resque.dequeue() until the worker thread, which reads the  *)
(* device, has queued an answer.  An answer does not say which request it  *)
(* answers, nobody holds a lock from the write to the dequeue, and the     *)
(* dequeue has no time limit.                                              *)
(*                                                                         *)
(* resque is the atomic blocking buffer that LockedQueue is shown to       *)
(* implement (module LockedQueue).                                         *)
(***************************************************************************)
EXTENDS TbiDevice

CONSTANT Capacity    \* of resque: 4 in the constructor

ASSUME CapacityAssumption == Capacity \in Nat \ {0}

VARIABLES thAbort,   \* the worker is told to end, or there is none
          worker,    \* the step the worker is at; "none" before start and
                     \* after join, "ended" when it can be joined
          rcvp,      \* the report the worker has read
          resque,
          pc,        \* each thread: "idle", "write", or "await" in dequeue
          pckt,      \* the request it makes
          got        \* what it was told: [rc, val]

serviceVars == <<thAbort, worker, rcvp, resque, pc, pckt, got>>

NoRequest == [op |-> "get", att |-> CHOOSE a \in Attrs : TRUE, val |-> Nothing]
NoPacket  == [kind |-> "answer", op |-> "get", rc |-> "fail", val |-> Nothing]
NoResult  == [rc |-> "none", val |-> Nothing]
Failed    == [rc |-> "fail", val |-> Nothing]

ServiceInit == /\ thAbort = TRUE
               /\ worker = "none"
               /\ rcvp = NoPacket
               /\ resque = <<>>
               /\ pc = [c \in Callers |-> "idle"]
               /\ pckt = [c \in Callers |-> NoRequest]
               /\ got = [c \in Callers |-> NoResult]

callVars   == <<pc, pckt, got>>
workerVars == <<thAbort, worker, rcvp>>
-----------------------------------------------------------------------------
(* readAttribute and writeAttribute. *)

(* Tests the handle and returns an error when there is none. *)
Call(c, r) ==
  /\ pc[c] = "idle"
  /\ pckt' = [pckt EXCEPT ![c] = r]
  /\ IF isOpen
       THEN pc' = [pc EXCEPT ![c] = "write"] /\ got' = [got EXCEPT ![c] = NoResult]
       ELSE got' = [got EXCEPT ![c] = Failed] /\ UNCHANGED pc
  /\ UNCHANGED <<deviceVars, workerVars, resque>>

ReadAttribute(c, a) == Call(c, [op |-> "get", att |-> a, val |-> Nothing])

WriteAttribute(c, a, v) == Call(c, [op |-> "set", att |-> a, val |-> v])

(* Wrong (for EveryAnswerAwaited): sends the report twice, to be sure. *)
WriteTwice(c) == /\ pc[c] = "write"
                 /\ handle = "live"
                 /\ outq' = outq \o <<pckt[c], pckt[c]>>
                 /\ pc' = [pc EXCEPT ![c] = "await"]
                 /\ UNCHANGED <<plugged, store, inq, handle, workerVars, resque, pckt, got>>

Write(c) == /\ pc[c] = "write"
            /\ DeviceWrite(pckt[c])
            /\ pc' = [pc EXCEPT ![c] = "await"]
            /\ UNCHANGED <<workerVars, resque, pckt, got>>

(* The oldest answer in resque, whoever it is for, ends the call; it must  *)
(* carry the operation that was asked for and RC_OK.                       *)
Verdict(r, p) ==
  IF p.op = r.op /\ p.rc = "ok"
    THEN [rc |-> "ok", val |-> IF r.op = "get" THEN p.val ELSE r.val]
    ELSE Failed

(* Wrong (for AnswerIsMine): the wait has a time limit, after which the    *)
(* call fails and its answer may still come.                               *)
DequeueOrTimeout(c) ==
  /\ pc[c] = "await"
  /\ \/ /\ resque # <<>>
        /\ got' = [got EXCEPT ![c] = Verdict(pckt[c], Head(resque))]
        /\ resque' = Tail(resque)
     \/ /\ resque = <<>>
        /\ got' = [got EXCEPT ![c] = Failed]
        /\ UNCHANGED resque
  /\ pc' = [pc EXCEPT ![c] = "idle"]
  /\ UNCHANGED <<deviceVars, workerVars, pckt>>

Dequeue(c) == /\ pc[c] = "await"
              /\ resque # <<>>
              /\ got' = [got EXCEPT ![c] = Verdict(pckt[c], Head(resque))]
              /\ resque' = Tail(resque)
              /\ pc' = [pc EXCEPT ![c] = "idle"]
              /\ UNCHANGED <<deviceVars, workerVars, pckt>>
-----------------------------------------------------------------------------
(* The worker's loop. *)

Goto(l) == worker' = l

WorkerPoll == /\ worker = "poll"
              /\ Goto(IF isOpen THEN "read" ELSE "check")
              /\ UNCHANGED <<deviceVars, thAbort, rcvp, resque, callVars>>

(* Wrong (for CloseCompletes): goes round the loop without looking at      *)
(* thAbort when there is nothing to read.                                  *)
WorkerReadContinues == /\ worker = "read"
                       /\ \/ DeviceRead /\ rcvp' = Head(inq) /\ Goto("dispatch")
                          \/ CannotRead /\ Goto("poll") /\ UNCHANGED <<deviceVars, rcvp>>
                       /\ UNCHANGED <<thAbort, resque, callVars>>

WorkerRead == /\ worker = "read"
              /\ \/ /\ DeviceRead
                    /\ rcvp' = Head(inq)
                    /\ Goto("dispatch")
                 \/ /\ CannotRead
                    /\ Goto("check")
                    /\ UNCHANGED <<deviceVars, rcvp>>
              /\ UNCHANGED <<thAbort, resque, callVars>>

(* Wrong (for TypeOK): takes an event for an answer. *)
DispatchEvents ==
  /\ worker = "dispatch"
  /\ \/ /\ rcvp.kind \in {"alien", "interrupt"}
        /\ rcvp' = NoPacket
        /\ Goto("check")
     \/ /\ rcvp.kind \in {"answer", "event"}
        /\ Goto("enqueue")
        /\ UNCHANGED rcvp
  /\ UNCHANGED <<deviceVars, thAbort, resque, callVars>>

(* Wrong (for RequestCompletes): drops the answers that report a failure. *)
DispatchGoodAnswers ==
  /\ worker = "dispatch"
  /\ \/ /\ rcvp.kind # "answer" \/ rcvp.rc # "ok"
        /\ rcvp' = NoPacket
        /\ Goto("check")
     \/ /\ rcvp.kind = "answer" /\ rcvp.rc = "ok"
        /\ Goto("enqueue")
        /\ UNCHANGED rcvp
  /\ UNCHANGED <<deviceVars, thAbort, resque, callVars>>

(* A report of another protocol version is dropped, an interrupt is the    *)
(* interrupt handler's, an event nobody's; anything else is an answer.     *)
(* Once dealt with, the buffer's contents are not looked at again.         *)
WorkerDispatch ==
  /\ worker = "dispatch"
  /\ \/ /\ rcvp.kind \in {"alien", "interrupt", "event"}
        /\ rcvp' = NoPacket
        /\ Goto("check")
     \/ /\ rcvp.kind = "answer"
        /\ Goto("enqueue")
        /\ UNCHANGED rcvp
  /\ UNCHANGED <<deviceVars, thAbort, resque, callVars>>

WorkerEnqueue == /\ worker = "enqueue"
                 /\ Len(resque) < Capacity
                 /\ resque' = Append(resque, rcvp)
                 /\ rcvp' = NoPacket
                 /\ Goto("check")
                 /\ UNCHANGED <<deviceVars, thAbort, callVars>>

WorkerCheck == /\ worker = "check"
               /\ Goto(IF thAbort THEN "ended" ELSE "poll")
               /\ UNCHANGED <<deviceVars, thAbort, rcvp, resque, callVars>>

Worker == \/ WorkerPoll \/ WorkerRead \/ WorkerDispatch
          \/ WorkerEnqueue \/ WorkerCheck

(* start: makes the thread, unless one is active. *)
Start == /\ thAbort' = FALSE
         /\ Goto(IF thAbort THEN "poll" ELSE worker)
         /\ UNCHANGED <<deviceVars, rcvp, resque, callVars>>

(* stop: tells the worker to end, unless none is active ... *)
Abort == /\ thAbort' = TRUE
         /\ UNCHANGED <<deviceVars, worker, rcvp, resque, callVars>>

(* ... and joins it. *)
Join == /\ worker = "ended"
        /\ Goto("none")
        /\ UNCHANGED <<deviceVars, thAbort, rcvp, resque, callVars>>

ServiceTypeOK ==
  /\ thAbort \in BOOLEAN
  /\ worker \in {"none", "poll", "read", "dispatch", "enqueue", "check", "ended"}
  /\ rcvp \in Packets
  /\ resque \in Seq(Answers)
  /\ pc \in [Callers -> {"idle", "write", "await"}]
  /\ pckt \in [Callers -> Requests]
  /\ got \in [Callers -> [rc : {"none", "ok", "fail"}, val : Values \cup {Nothing}]]
=============================================================================

------------------------------ MODULE TbiCore ------------------------------
(***************************************************************************)
(* TbiCore (src/tbi_core.cpp): one thread, Main, opens and closes the      *)
(* device; any thread of Callers makes requests through its TbiService.    *)
(* This module is the whole stack, from the application's calls down to    *)
(* the device.                                                             *)
(*                                                                         *)
(* The destructor stops the service and closes the device as close does,   *)
(* and changes nothing when nothing is open, so it has no action here.     *)
(***************************************************************************)
EXTENDS TbiService

CONSTANTS Main,       \* the thread that calls openPath and close
          InfoAttrs   \* what openPath reads: vendor, product, revision,
                      \* serial number and firmware version in the code

ASSUME CoreAssumption == /\ Main \in Callers
                         /\ InfoAttrs \in Seq(Attrs)
                         /\ InfoAttrs # <<>>

InfoSet == {InfoAttrs[i] : i \in DOMAIN InfoAttrs}

VARIABLES at,    \* where Main is in openPath or close; "out" of both
          next,  \* the index in InfoAttrs of the attribute it reads next
          info   \* the product data it has kept

coreVars == <<at, next, info>>
vars     == <<deviceVars, serviceVars, coreVars>>

Init == /\ DeviceInit
        /\ ServiceInit
        /\ at = "out"
        /\ next = 1
        /\ info = [a \in InfoSet |-> Nothing]
-----------------------------------------------------------------------------
Free(c) == pc[c] = "idle" /\ (c = Main => at = "out")
MainAt(l) == at = l /\ pc[Main] = "idle"

(* openPath *)

OpenPath == /\ MainAt("out")
            /\ ~isOpen
            /\ at' = "open"
            /\ UNCHANGED <<deviceVars, serviceVars, next, info>>

OpenDevice == /\ MainAt("open")
              /\ \/ DeviceOpen /\ at' = "start"
                 \/ UNCHANGED deviceVars /\ at' = "out"
              /\ UNCHANGED <<serviceVars, next, info>>

StartService == /\ MainAt("start")
                /\ Start
                /\ at' = "info"
                /\ next' = 1
                /\ UNCHANGED info

ReadInfo == /\ MainAt("info")
            /\ ReadAttribute(Main, InfoAttrs[next])
            /\ at' = "answer"
            /\ UNCHANGED <<next, info>>

(* Wrong (for InfoIsCurrent): what an earlier device has told is kept. *)
KeepFirstInfo ==
  /\ MainAt("answer")
  /\ info' = IF got[Main].rc = "ok" /\ info[InfoAttrs[next]] = Nothing
               THEN [info EXCEPT ![InfoAttrs[next]] = got[Main].val] ELSE info
  /\ \/ next < Len(InfoAttrs) /\ next' = next + 1 /\ at' = "info"
     \/ next = Len(InfoAttrs) /\ next' = 1 /\ at' = "out"
  /\ UNCHANGED <<deviceVars, serviceVars>>

(* The result of readAttribute is ignored: after a failure the attribute   *)
(* keeps the value it had.                                                 *)
KeepInfo == /\ MainAt("answer")
            /\ info' = IF got[Main].rc = "ok"
                         THEN [info EXCEPT ![InfoAttrs[next]] = got[Main].val] ELSE info
            /\ \/ next < Len(InfoAttrs) /\ next' = next + 1 /\ at' = "info"
               \/ next = Len(InfoAttrs) /\ next' = 1 /\ at' = "out"
            /\ UNCHANGED <<deviceVars, serviceVars>>

(* close *)

Close == /\ MainAt("out")
         /\ isOpen
         /\ at' = "stop"
         /\ UNCHANGED <<deviceVars, serviceVars, next, info>>

(* Wrong (for WorkerLife): tells the worker to end and does not join it. *)
StopWithoutJoin == /\ MainAt("stop")
                   /\ Abort
                   /\ at' = "closeDevice"
                   /\ UNCHANGED <<next, info>>

StopService == /\ MainAt("stop")
               /\ Abort
               /\ at' = IF thAbort THEN "closeDevice" ELSE "join"
               /\ UNCHANGED <<next, info>>

JoinWorker == /\ MainAt("join")
              /\ Join
              /\ at' = "closeDevice"
              /\ UNCHANGED <<next, info>>

CloseDevice == /\ MainAt("closeDevice")
               /\ DeviceClose
               /\ at' = "out"
               /\ UNCHANGED <<serviceVars, next, info>>

MainStep == \/ OpenDevice \/ StartService \/ ReadInfo \/ KeepInfo
            \/ StopService \/ JoinWorker \/ CloseDevice
-----------------------------------------------------------------------------
(* The product data are the device's own: nobody writes them. *)
Request(c) == /\ Free(c)
              /\ \/ \E a \in Attrs : ReadAttribute(c, a)
                 \/ \E a \in Attrs \ InfoSet, v \in Values : WriteAttribute(c, a, v)
              /\ UNCHANGED coreVars

Next == \/ OpenPath \/ Close \/ MainStep
        \/ \E c \in Callers : Request(c)
        \/ \E c \in Callers : Write(c) /\ UNCHANGED coreVars
        \/ \E c \in Callers : Dequeue(c) /\ UNCHANGED coreVars
        \/ Worker /\ UNCHANGED coreVars
        \/ Environment /\ UNCHANGED <<serviceVars, coreVars>>

(* Threads run on, the device answers, and a queue that can serve somebody *)
(* does (BoundedFifo!Progress); nobody has to call, and nothing has to be  *)
(* plugged in.                                                             *)
Fairness == /\ WF_vars(MainStep)
            /\ \A c \in Callers : WF_vars(Write(c) /\ UNCHANGED coreVars)
            /\ WF_vars(\E c \in Callers : Dequeue(c) /\ UNCHANGED coreVars)
            /\ WF_vars(Worker /\ UNCHANGED coreVars)
            /\ WF_vars(DeviceAnswers /\ UNCHANGED <<serviceVars, coreVars>>)

Spec     == Init /\ [][Next]_vars
FairSpec == Spec /\ Fairness
-----------------------------------------------------------------------------
(* Every variable keeps its type.  In particular only answers reach        *)
(* resque, whatever else the device sends.                                 *)
TypeOK == /\ DeviceTypeOK
          /\ ServiceTypeOK
          /\ at \in {"out", "open", "start", "info", "answer",
                     "stop", "join", "closeDevice"}
          /\ next \in DOMAIN InfoAttrs
          /\ info \in [InfoSet -> Values \cup {Nothing}]

(* The worker lives exactly as long as it may: whenever it runs the handle *)
(* is open, so it never reads a null handle; and whenever the handle is    *)
(* open, except while openPath or close is starting or stopping it, it     *)
(* runs and has not been told to end, so somebody reads what the device    *)
(* answers.                                                                *)
WorkerLife ==
  /\ worker # "none" => isOpen
  /\ isOpen /\ at \notin {"start", "join", "closeDevice"}
       => worker \notin {"none", "ended"} /\ ~thAbort

(* No answer outlives the wait for it: the answers in the ring, in the     *)
(* worker's hands and in resque, and those that the device still owes, are *)
(* never more than the threads that wait.  So the worker never waits for   *)
(* room in resque unless somebody is about to make some, and no call       *)
(* starts with an answer to an earlier one in resque.                      *)
AnswersIn(q) == {i \in DOMAIN q : q[i].kind = "answer"}
Awaiting     == {c \in Callers : pc[c] = "await"}

EveryAnswerAwaited ==
  Len(outq) + Cardinality(AnswersIn(inq)) + Len(resque)
    + (IF worker \in {"dispatch", "enqueue"} /\ rcvp.kind = "answer" THEN 1 ELSE 0)
  <= Cardinality(Awaiting)

(* With one calling thread, a call that succeeds was answered for the      *)
(* attribute and the operation it asked for: the device it was asked of    *)
(* holds the value the call returned or wrote; and a call fails only when  *)
(* the device refused it.  The answer says nothing of the request, so this *)
(* rests on no answer ever being late, doubled or left behind, through     *)
(* losses, unplugging and reopening.                                       *)
AnswerIsMine ==
  [][\A c \in Callers :
       pc[c] = "await" /\ pc'[c] = "idle" /\ handle = "live"
         => /\ got'[c].rc = "ok" => got'[c].val = store[pckt[c].att]
            /\ got'[c].rc = "fail" => "refuse" \in Faults]_vars

(* When openPath has succeeded the product data it keeps are those of the  *)
(* device that is open, also when another device was open before: as long  *)
(* as no other thread has called.  One that calls while the devices are    *)
(* exchanged makes a late answer, which openPath may take for its own.     *)
InfoIsCurrent ==
  /\ at = "out" /\ handle = "live"
  /\ \A c \in Callers \ {Main} : pc[c] = "idle" /\ got[c].rc = "none"
  => \A a \in InfoSet : info[a] = store[a]

(* A thread that waits for an answer gets one, in good time or late. *)
RequestCompletes == \A c \in Callers : pc[c] = "await" ~> pc[c] = "idle"

(* close ends, whatever the device and the other threads do: the worker    *)
(* can always be joined.                                                   *)
CloseCompletes == at = "stop" ~> at = "out"
=============================================================================

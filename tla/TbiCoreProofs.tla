--------------------------- MODULE TbiCoreProofs ---------------------------
(***************************************************************************)
(* Theorems about TbiCore, for any threads, attributes, values, sizes and  *)
(* faults.                                                                 *)
(***************************************************************************)
EXTENDS TbiRefinement, FiniteSetTheorems, SequenceTheorems, TLAPS

LEMMA Constants == /\ Main \in Callers
                   /\ InLimit \in Nat \ {0}
                   /\ 1 \in DOMAIN InfoAttrs
                   /\ \A i \in DOMAIN InfoAttrs : InfoAttrs[i] \in Attrs
                   /\ NoRequest \in Requests
                   /\ NoPacket \in Answers
<1>1. InLimit \in Nat \ {0}
  <2>1. Cardinality(Callers) \in Nat
    BY DeviceAssumption, FS_CardinalityType
  <2> QED
    BY <2>1, DeviceAssumption
<1>2. 1 \in DOMAIN InfoAttrs /\ \A i \in DOMAIN InfoAttrs : InfoAttrs[i] \in Attrs
  BY CoreAssumption
<1>3. (CHOOSE a \in Attrs : TRUE) \in Attrs
  BY <1>2
<1> QED
  BY <1>1, <1>2, <1>3, CoreAssumption DEF NoRequest, NoPacket, Requests, Answers

(* What the worker is about to queue is an answer. *)
Sorted == worker = "enqueue" => rcvp \in Answers

TypeInv == TypeOK /\ Sorted

LEMMA InitType == Init => TypeInv
BY Constants
   DEF Init, DeviceInit, ServiceInit, TypeInv, TypeOK, DeviceTypeOK, ServiceTypeOK,
       Sorted, Packets, NoResult

LEMMA EmptyRing == <<>> \in Seq(Packets) /\ Len(<<>>) <= InLimit
BY Constants

LEMMA ReadType ==
  ASSUME inq \in Seq(Packets), Len(inq) <= InLimit, inq # <<>>
  PROVE  /\ Tail(inq) \in Seq(Packets) /\ Len(Tail(inq)) <= InLimit
         /\ Head(inq) \in Packets
BY Constants

LEMMA ArriveType ==
  ASSUME inq \in Seq(Packets), Len(inq) <= InLimit, NEW p \in Packets, Arrive(p)
  PROVE  inq' \in Seq(Packets) /\ Len(inq') <= InLimit
BY Constants DEF Arrive

LEMMA EnvironmentType ==
  ASSUME DeviceTypeOK, Environment PROVE DeviceTypeOK'
<1> USE DEF DeviceTypeOK
<1>1. CASE DeviceAnswers
  <2>1. PICK rc \in {"ok", "fail"} :
          LET r == Head(outq)
          IN /\ store' = IF r.op = "set" /\ rc = "ok"
                           THEN [store EXCEPT ![r.att] = r.val] ELSE store
             /\ \/ handle = "live" /\ Arrive(Answer(r, rc))
                \/ Lost /\ UNCHANGED inq
    BY <1>1 DEF DeviceAnswers
  <2> DEFINE r == Head(outq)
  <2>2. r \in Requests
    BY <1>1 DEF DeviceAnswers
  <2>3. store' \in [Attrs -> Values]
    BY <2>1, <2>2 DEF Requests
  <2>4. Answer(r, rc) \in Packets
    BY <2>2 DEF Requests, Answer, Packets, Answers
  <2> QED
    BY <1>1, <2>1, <2>3, <2>4, ArriveType DEF DeviceAnswers
<1>2. CASE DeviceSpeaks
  BY <1>2, ArriveType DEF DeviceSpeaks, Packets, Unasked
<1>3. CASE Unplug
  <2>1. plugged' \in BOOLEAN
    BY <1>3 DEF Unplug
  <2>2. inq' \in Seq(Packets) /\ Len(inq') <= InLimit
    BY <1>3, EmptyRing DEF Unplug
  <2>3. outq' \in Seq(Requests) /\ handle' \in {"null", "live", "dead"}
    BY <1>3 DEF Unplug
  <2> QED
    BY <1>3, <2>1, <2>2, <2>3 DEF Unplug
<1>4. CASE Replug
  BY <1>4 DEF Replug
<1> QED
  BY <1>1, <1>2, <1>3, <1>4 DEF Environment

LEMMA CallType ==
  ASSUME TypeInv, NEW c \in Callers, NEW r \in Requests, Call(c, r)
  PROVE  DeviceTypeOK' /\ ServiceTypeOK' /\ Sorted'
<1> USE DEF TypeInv, TypeOK
<1>1. DeviceTypeOK'
  BY DEF Call, deviceVars, DeviceTypeOK
<1>2. pckt' \in [Callers -> Requests] /\ pc' \in [Callers -> {"idle", "write", "await"}]
  BY DEF Call, ServiceTypeOK
<1>3. got' \in [Callers -> [rc : {"none", "ok", "fail"}, val : Values \cup {Nothing}]]
  BY DEF Call, ServiceTypeOK, NoResult, Failed
<1> QED
  BY <1>1, <1>2, <1>3 DEF Call, ServiceTypeOK, Sorted, workerVars

LEMMA NextType == TypeInv /\ [Next]_vars => TypeInv'
<1> SUFFICES ASSUME TypeInv, [Next]_vars PROVE TypeInv'
  OBVIOUS
<1> USE DEF TypeInv, TypeOK, ServiceTypeOK, Sorted, Goto
<1>1. CASE OpenPath \/ Close
  BY <1>1 DEF OpenPath, Close, deviceVars, serviceVars, DeviceTypeOK
<1>2. CASE OpenDevice
  <2>1. DeviceTypeOK'
    BY <1>2, EmptyRing DEF OpenDevice, DeviceOpen, deviceVars, DeviceTypeOK
  <2> QED
    BY <1>2, <2>1 DEF OpenDevice, serviceVars
<1>3. CASE StartService
  BY <1>3, Constants DEF StartService, Start, deviceVars, callVars, DeviceTypeOK
<1>4. CASE ReadInfo
  <2>1. ReadAttribute(Main, InfoAttrs[next]) /\ InfoAttrs[next] \in Attrs
    BY <1>4, Constants DEF ReadInfo
  <2> QED
    BY <1>4, <2>1, Constants, CallType
       DEF ReadInfo, ReadAttribute, Requests
<1>5. CASE KeepInfo
  BY <1>5, Constants, CoreAssumption
     DEF KeepInfo, deviceVars, serviceVars, DeviceTypeOK, InfoSet
<1>6. CASE StopService
  BY <1>6 DEF StopService, Abort, deviceVars, callVars, DeviceTypeOK
<1>7. CASE JoinWorker
  BY <1>7 DEF JoinWorker, Join, deviceVars, callVars, DeviceTypeOK
<1>8. CASE CloseDevice
  BY <1>8, Constants DEF CloseDevice, DeviceClose, serviceVars, DeviceTypeOK
<1>9. ASSUME NEW c \in Callers, Request(c) PROVE TypeInv'
  <2>1. CASE \E a \in Attrs : ReadAttribute(c, a)
    BY <1>9, <2>1, CallType DEF ReadAttribute, Requests, Request, coreVars
  <2>2. CASE \E a \in Attrs \ InfoSet, v \in Values : WriteAttribute(c, a, v)
    BY <1>9, <2>2, CallType DEF WriteAttribute, Requests, Request, coreVars
  <2> QED
    BY <1>9, <2>1, <2>2 DEF Request
<1>10. ASSUME NEW c \in Callers, Write(c), UNCHANGED coreVars PROVE TypeInv'
  <2>0. pckt[c] \in Requests /\ outq \in Seq(Requests)
    BY DEF DeviceTypeOK
  <2>1. outq' \in Seq(Requests) /\ UNCHANGED <<plugged, store, inq, handle>>
    <3>1. Append(outq, pckt[c]) \in Seq(Requests)
      BY <2>0, AppendProperties
    <3> QED
      BY <1>10, <2>0, <3>1 DEF Write, DeviceWrite
  <2>2. DeviceTypeOK'
    BY <2>1 DEF DeviceTypeOK
  <2> QED
    BY <1>10, <2>2 DEF Write, workerVars, coreVars
<1>11. ASSUME NEW c \in Callers, Dequeue(c), UNCHANGED coreVars PROVE TypeInv'
  <2>1. Head(resque) \in Answers
    BY <1>11 DEF Dequeue
  <2>2. Verdict(pckt[c], Head(resque))
          \in [rc : {"none", "ok", "fail"}, val : Values \cup {Nothing}]
    BY <2>1 DEF Verdict, Failed, Answers, Requests
  <2> QED
    BY <1>11, <2>2 DEF Dequeue, deviceVars, workerVars, coreVars, DeviceTypeOK
<1>12. CASE Worker /\ UNCHANGED coreVars
  <2>1. CASE WorkerPoll \/ WorkerCheck
    BY <1>12, <2>1 DEF WorkerPoll, WorkerCheck, deviceVars, callVars, coreVars, DeviceTypeOK
  <2>2. CASE WorkerRead
    <3>1. DeviceTypeOK'
      BY <2>2, ReadType DEF WorkerRead, DeviceRead, deviceVars, DeviceTypeOK
    <3>2. rcvp' \in Packets /\ worker' \in {"dispatch", "check"}
      BY <2>2, ReadType DEF WorkerRead, DeviceRead, DeviceTypeOK
    <3> QED
      BY <1>12, <2>2, <3>1, <3>2 DEF WorkerRead, callVars, coreVars
  <2>3. CASE WorkerDispatch
    <3>1. rcvp' \in Packets /\ worker' \in {"check", "enqueue"} /\ Sorted'
      BY <2>3, Constants, DeviceAssumption DEF WorkerDispatch, Packets, Answers, Unasked
    <3> QED
      BY <1>12, <2>3, <3>1 DEF WorkerDispatch, deviceVars, callVars, coreVars, DeviceTypeOK
  <2>4. CASE WorkerEnqueue
    BY <1>12, <2>4, Constants
       DEF WorkerEnqueue, deviceVars, callVars, coreVars, DeviceTypeOK, Packets
  <2> QED
    BY <1>12, <2>1, <2>2, <2>3, <2>4 DEF Worker
<1>13. CASE Environment /\ UNCHANGED <<serviceVars, coreVars>>
  BY <1>13, EnvironmentType DEF serviceVars, coreVars
<1>14. CASE UNCHANGED vars
  BY <1>14 DEF vars, deviceVars, serviceVars, coreVars, DeviceTypeOK
<1> QED
  BY <1>1, <1>2, <1>3, <1>4, <1>5, <1>6, <1>7, <1>8, <1>9, <1>10, <1>11, <1>12, <1>13, <1>14
     DEF Next, MainStep

(* Every variable keeps its type; only answers reach the threads that wait *)
(* in resque.                                                              *)
THEOREM TypeCorrect == Spec => []TypeOK
BY InitType, NextType, PTL DEF Spec, TypeInv
-----------------------------------------------------------------------------
(* Where Main is in openPath and close decides what the worker and thAbort *)
(* can be; only Main changes the handle between null and open.             *)
Lifecycle ==
  /\ handle \in {"null", "live", "dead"}
  /\ worker # "none" => isOpen
  /\ at = "open" => ~isOpen
  /\ at = "stop" => isOpen
  /\ at \in {"start", "closeDevice"} => isOpen /\ thAbort /\ worker = "none"
  /\ at = "join" => isOpen /\ thAbort /\ worker # "none"
  /\ isOpen /\ at \notin {"start", "join", "closeDevice"}
       => ~thAbort /\ worker \notin {"none", "ended"}
  /\ ~isOpen => thAbort

LEMMA NextLifecycle == Lifecycle /\ [Next]_vars => Lifecycle'
<1> SUFFICES ASSUME Lifecycle, [Next]_vars PROVE Lifecycle'
  OBVIOUS
<1> USE DEF Lifecycle, isOpen, Goto, MainAt
<1>1. CASE OpenPath \/ Close
  BY <1>1 DEF OpenPath, Close, deviceVars, serviceVars
<1>2. CASE OpenDevice
  BY <1>2 DEF OpenDevice, DeviceOpen, deviceVars, serviceVars
<1>3. CASE StartService
  BY <1>3 DEF StartService, Start, deviceVars
<1>4. CASE ReadInfo
  BY <1>4 DEF ReadInfo, ReadAttribute, Call, deviceVars, workerVars
<1>5. CASE KeepInfo
  BY <1>5 DEF KeepInfo, deviceVars, serviceVars
<1>6. CASE StopService
  BY <1>6 DEF StopService, Abort, deviceVars
<1>7. CASE JoinWorker
  BY <1>7 DEF JoinWorker, Join, deviceVars
<1>8. CASE CloseDevice
  BY <1>8 DEF CloseDevice, DeviceClose, serviceVars
<1>9. ASSUME NEW c \in Callers, Request(c) PROVE Lifecycle'
  BY <1>9 DEF Request, ReadAttribute, WriteAttribute, Call, deviceVars, workerVars, coreVars
<1>10. ASSUME NEW c \in Callers, Write(c) \/ Dequeue(c), UNCHANGED coreVars
       PROVE  Lifecycle'
  BY <1>10 DEF Write, DeviceWrite, Dequeue, deviceVars, workerVars, coreVars
<1>11. CASE Worker /\ UNCHANGED coreVars
  BY <1>11 DEF Worker, WorkerPoll, WorkerRead, DeviceRead, WorkerDispatch, WorkerEnqueue,
               WorkerCheck, deviceVars, callVars, coreVars
<1>12. CASE Environment /\ UNCHANGED <<serviceVars, coreVars>>
  BY <1>12 DEF Environment, DeviceAnswers, DeviceSpeaks, Unplug, Replug, serviceVars, coreVars
<1>13. CASE UNCHANGED vars
  BY <1>13 DEF vars, deviceVars, serviceVars, coreVars
<1> QED
  BY <1>1, <1>2, <1>3, <1>4, <1>5, <1>6, <1>7, <1>8, <1>9, <1>10, <1>11, <1>12, <1>13
     DEF Next, MainStep

LEMMA LifecycleHolds == Spec => []Lifecycle
<1>1. Init => Lifecycle
  BY DEF Init, DeviceInit, ServiceInit, Lifecycle, isOpen
<1> QED
  BY <1>1, NextLifecycle, PTL DEF Spec

(* The worker never outlives the handle, and serves it while it is open:   *)
(* stop comes before close, and start follows open.                        *)
THEOREM WorkerLifeAlways == Spec => []WorkerLife
<1>1. Lifecycle => WorkerLife
  BY DEF Lifecycle, WorkerLife
<1> QED
  BY <1>1, LifecycleHolds, PTL
-----------------------------------------------------------------------------
(* The answers in a queue of reports, as reports come and go. *)

NoAnswers(q) == \A i \in DOMAIN q : q[i].kind # "answer"
OneAnswer(q) == \A i, j \in DOMAIN q :
                  q[i].kind = "answer" /\ q[j].kind = "answer" => i = j

(* What the queue q becomes when p arrives. *)
Arrived(q, p) == {q, Append(q, p)} \cup {Append(Tail(r), p) : r \in {q} \ {<<>>}}

LEMMA ArriveIsArrived ==
  ASSUME NEW p, inq \in Seq(Packets), Arrive(p) PROVE inq' \in Arrived(inq, p)
BY Constants DEF Arrive, Arrived

LEMMA AppendOf ==
  ASSUME NEW q \in Seq(Packets), NEW p \in Packets
  PROVE  \A i \in DOMAIN Append(q, p) :
           \/ i \in DOMAIN q /\ Append(q, p)[i] = q[i]
           \/ i = Len(q) + 1 /\ Append(q, p)[i] = p
<1> DEFINE n == Len(q)
<1>1. n \in Nat /\ DOMAIN q = 1..n /\ DOMAIN Append(q, p) = 1..(n + 1)
  OBVIOUS
<1>2. \A i \in 1..(n + 1) : i \in 1..n \/ i = n + 1
  BY <1>1
<1>3. (\A i \in 1..n : Append(q, p)[i] = q[i]) /\ Append(q, p)[n + 1] = p
  OBVIOUS
<1> QED
  BY <1>1, <1>2, <1>3

LEMMA TailOf ==
  ASSUME NEW q \in Seq(Packets), q # <<>>
  PROVE  /\ Tail(q) \in Seq(Packets)
         /\ Head(q) = q[1] /\ 1 \in DOMAIN q
         /\ \A i \in DOMAIN Tail(q) : i + 1 \in DOMAIN q /\ Tail(q)[i] = q[i + 1] /\ i \in Nat \ {0}
OBVIOUS

LEMMA TailAnswers ==
  ASSUME NEW q \in Seq(Packets), q # <<>>
  PROVE  /\ NoAnswers(q) => NoAnswers(Tail(q)) /\ Head(q).kind # "answer"
         /\ OneAnswer(q) => OneAnswer(Tail(q))
         /\ OneAnswer(q) /\ Head(q).kind = "answer" => NoAnswers(Tail(q))
<1>1. NoAnswers(q) => NoAnswers(Tail(q)) /\ Head(q).kind # "answer"
  BY TailOf DEF NoAnswers
<1>2. ASSUME OneAnswer(q) PROVE OneAnswer(Tail(q))
  <2> SUFFICES ASSUME NEW i \in DOMAIN Tail(q), NEW j \in DOMAIN Tail(q),
                      Tail(q)[i].kind = "answer", Tail(q)[j].kind = "answer"
               PROVE  i = j
    BY DEF OneAnswer
  <2>1. i + 1 = j + 1 /\ i \in Nat /\ j \in Nat
    BY <1>2, TailOf DEF OneAnswer
  <2> QED
    BY <2>1
<1>3. ASSUME OneAnswer(q), Head(q).kind = "answer" PROVE NoAnswers(Tail(q))
  <2> SUFFICES ASSUME NEW i \in DOMAIN Tail(q), Tail(q)[i].kind = "answer"
               PROVE  FALSE
    BY DEF NoAnswers
  <2>1. i + 1 = 1 /\ i \in Nat \ {0}
    BY <1>3, TailOf DEF OneAnswer
  <2> QED
    BY <2>1
<1> QED
  BY <1>1, <1>2, <1>3

LEMMA AppendAnswers ==
  ASSUME NEW q \in Seq(Packets), NEW p \in Packets
  PROVE  /\ NoAnswers(q) /\ p.kind # "answer" => NoAnswers(Append(q, p))
         /\ OneAnswer(q) /\ p.kind # "answer" => OneAnswer(Append(q, p))
         /\ NoAnswers(q) => OneAnswer(Append(q, p))
BY AppendOf DEF NoAnswers, OneAnswer

LEMMA ArrivedAnswers ==
  ASSUME NEW q \in Seq(Packets), NEW p \in Packets, NEW u \in Arrived(q, p)
  PROVE  /\ p.kind # "answer" => /\ NoAnswers(q) => NoAnswers(u)
                                 /\ OneAnswer(q) => OneAnswer(u)
         /\ NoAnswers(q) => OneAnswer(u)
         /\ \A i \in DOMAIN u : u[i] = p \/ \E j \in DOMAIN q : u[i] = q[j]
<1>1. CASE u = q
  BY <1>1 DEF NoAnswers, OneAnswer
<1>2. CASE u = Append(q, p)
  BY <1>2, AppendAnswers, AppendOf
<1>3. CASE q # <<>> /\ u = Append(Tail(q), p)
  <2> DEFINE t == Tail(q)
  <2>1. t \in Seq(Packets) /\ u = Append(t, p)
    BY <1>3, TailOf
  <2> HIDE DEF t
  <2>2. \A i \in DOMAIN u : u[i] = p \/ (i \in DOMAIN t /\ u[i] = t[i])
    BY <2>1, AppendOf
  <2>3. \A i \in DOMAIN u : u[i] = p \/ \E j \in DOMAIN q : u[i] = q[j]
    BY <1>3, <2>2, TailOf DEF t
  <2> QED
    BY <1>3, <2>1, <2>3, TailAnswers, AppendAnswers DEF t
<1> QED
  BY <1>1, <1>2, <1>3 DEF Arrived
-----------------------------------------------------------------------------
(* One calling thread.  At most one token travels: the request it has sent *)
(* or its answer, in exactly one of the device, the ring, the worker's     *)
(* hands and resque, and none while the thread does not wait.  The token   *)
(* may get lost; the thread then waits for ever, and never meets the       *)
(* answer of another request.                                              *)

Carrying == worker \in {"dispatch", "enqueue"} /\ rcvp.kind = "answer"

(* p answers the request r, of a device that holds s unless the handle has *)
(* lost that device.                                                       *)
Right(p, r, s, h) ==
  /\ p.op = r.op
  /\ p.rc = "fail" => "refuse" \in Faults
  /\ p.rc = "ok" /\ p.op = "get" => p.val \in Values
  /\ h = "live" /\ p.rc = "ok" => s[r.att] = IF p.op = "get" THEN p.val ELSE r.val

RightNow(p) == Right(p, pckt[Main], store, handle)

NowhereElse == NoAnswers(inq) /\ ~Carrying /\ resque = <<>>

Token ==
  /\ handle = "live" => plugged
  /\ pc[Main] # "await" => outq = <<>> /\ NowhereElse
  /\ outq # <<>> => outq = <<pckt[Main]>> /\ NowhereElse /\ handle = "live"
  /\ OneAnswer(inq)
  /\ \A i \in DOMAIN inq : inq[i].kind = "answer" => RightNow(inq[i])
  /\ ~NoAnswers(inq) => ~Carrying /\ resque = <<>>
  /\ Carrying => resque = <<>> /\ RightNow(rcvp)
  /\ resque # <<>> => Len(resque) = 1 /\ RightNow(resque[1])

Inv == TypeInv /\ Token

LEMMA InitToken == Init => Token
BY DEF Init, DeviceInit, ServiceInit, Token, NowhereElse, NoAnswers, OneAnswer, Carrying

(* The device answers the request it has. *)
LEMMA DeviceAnswersToken == Inv /\ DeviceAnswers /\ UNCHANGED serviceVars => Token'
<1> SUFFICES ASSUME Inv, DeviceAnswers, UNCHANGED serviceVars PROVE Token'
  OBVIOUS
<1> USE DEF Inv, serviceVars
<1> DEFINE r == pckt[Main]
<1>1. Head(outq) = r /\ outq' = <<>> /\ NowhereElse /\ pc[Main] = "await"
  <2>1. outq # <<>> /\ outq' = Tail(outq)
    BY DEF DeviceAnswers
  <2>2. outq = <<r>> /\ NowhereElse /\ pc[Main] = "await"
    BY <2>1 DEF Token
  <2> QED
    BY <2>1, <2>2
<1>2. PICK rc \in {"ok", "fail"} :
        /\ rc = "fail" => "refuse" \in Faults
        /\ store' = IF r.op = "set" /\ rc = "ok"
                      THEN [store EXCEPT ![r.att] = r.val] ELSE store
        /\ \/ handle = "live" /\ Arrive(Answer(r, rc))
           \/ UNCHANGED inq
  BY <1>1 DEF DeviceAnswers
<1> DEFINE p == Answer(r, rc)
<1>3. r \in Requests /\ inq \in Seq(Packets) /\ store \in [Attrs -> Values]
  BY Constants DEF TypeInv, TypeOK, DeviceTypeOK, ServiceTypeOK
<1>4. p \in Packets
  BY <1>3 DEF Requests, Answer, Packets, Answers
<1>5. Right(p, r, store', handle)
  BY <1>2, <1>3 DEF Right, Answer, Requests
<1>6. UNCHANGED <<plugged, handle>> /\ Carrying' = Carrying /\ r' = r
  BY DEF DeviceAnswers, Carrying
<1>7. CASE UNCHANGED inq
  <2>1. NowhereElse'
    BY <1>1, <1>6, <1>7 DEF NowhereElse, NoAnswers
  <2> QED
    BY <1>1, <1>6, <1>7, <2>1 DEF Token, NowhereElse, NoAnswers
<1>8. CASE Arrive(p)
  <2>1. inq' \in Arrived(inq, p)
    BY <1>3, <1>8, ArriveIsArrived
  <2>2. /\ OneAnswer(inq')
        /\ \A i \in DOMAIN inq' : inq'[i] = p \/ \E j \in DOMAIN inq : inq'[i] = inq[j]
    BY <1>1, <1>3, <1>4, <2>1, ArrivedAnswers DEF NowhereElse
  <2>3. \A i \in DOMAIN inq' :
          inq'[i].kind = "answer" => Right(inq'[i], r, store', handle)
    BY <1>1, <1>5, <2>2 DEF NowhereElse, NoAnswers
  <2> QED
    BY <1>1, <1>6, <2>2, <2>3 DEF Token, NowhereElse, RightNow
<1> QED
  BY <1>2, <1>7, <1>8

LEMMA EnvironmentToken == Inv /\ Environment /\ UNCHANGED serviceVars => Token'
<1> SUFFICES ASSUME Inv, Environment, UNCHANGED serviceVars PROVE Token'
  OBVIOUS
<1> USE DEF Inv, serviceVars, Carrying, NowhereElse, RightNow
<1>1. CASE DeviceAnswers
  BY <1>1, DeviceAnswersToken DEF serviceVars
<1>2. CASE DeviceSpeaks
  <2>1. PICK p \in Unasked : Arrive(p)
    BY <1>2 DEF DeviceSpeaks, Unasked
  <2>2. p \in Packets /\ p.kind # "answer" /\ inq \in Seq(Packets)
    BY DeviceAssumption DEF Unasked, Packets, TypeInv, TypeOK, DeviceTypeOK
  <2>3. /\ NoAnswers(inq) => NoAnswers(inq')
        /\ OneAnswer(inq) => OneAnswer(inq')
        /\ \A i \in DOMAIN inq' : inq'[i] = p \/ \E j \in DOMAIN inq : inq'[i] = inq[j]
    BY <2>1, <2>2, ArriveIsArrived, ArrivedAnswers
  <2> QED
    BY <1>2, <2>2, <2>3 DEF DeviceSpeaks, Token
<1>3. CASE Unplug
  <2>1. handle' # "live" /\ outq' = <<>> /\ (inq' = inq \/ inq' = <<>>)
    BY <1>3 DEF Unplug
  <2>2. (NoAnswers(inq) => NoAnswers(inq')) /\ (OneAnswer(inq) => OneAnswer(inq'))
    BY <2>1 DEF NoAnswers, OneAnswer
  <2> QED
    BY <2>1, <2>2 DEF Token, Right
<1>4. CASE Replug
  BY <1>4 DEF Replug, Token, Right
<1> QED
  BY <1>1, <1>2, <1>3, <1>4 DEF Environment

(* A step that leaves the token where it is. *)
LEMMA Frame ==
  ASSUME Token, UNCHANGED <<deviceVars, resque, rcvp>>, Carrying' <=> Carrying,
         pckt'[Main] = pckt[Main], pc'[Main] = "await" <=> pc[Main] = "await"
  PROVE  Token'
BY DEF Token, RightNow, NowhereElse, deviceVars

LEMMA CallToken ==
  ASSUME Inv, NEW r, Call(Main, r) PROVE Token'
<1>1. pc[Main] = "idle" /\ outq = <<>> /\ NowhereElse
  BY DEF Inv, Token, Call
<1>2. pc'[Main] # "await"
  BY Constants DEF Call, Inv, TypeInv, TypeOK, ServiceTypeOK
<1> QED
  BY <1>1, <1>2
     DEF Call, Inv, Token, NowhereElse, Carrying, NoAnswers, OneAnswer, deviceVars, workerVars

LEMMA MainToken == Inv /\ (OpenPath \/ Close \/ MainStep) => Token'
<1> SUFFICES ASSUME Inv, OpenPath \/ Close \/ MainStep PROVE Token'
  OBVIOUS
<1> USE DEF Inv, MainAt, Goto
<1>0. pc[Main] = "idle" /\ outq = <<>> /\ NowhereElse
  BY DEF Token, OpenPath, Close, MainStep, OpenDevice, StartService, ReadInfo, KeepInfo,
         StopService, JoinWorker, CloseDevice
<1>1. CASE OpenPath \/ Close \/ KeepInfo
  BY <1>1, Frame DEF OpenPath, Close, KeepInfo, serviceVars, Carrying
<1>2. CASE StartService \/ StopService \/ JoinWorker
  <2>1. ~Carrying'
    BY <1>0, <1>2 DEF StartService, Start, StopService, Abort, JoinWorker, Join,
                      NowhereElse, Carrying
  <2> QED
    BY <1>0, <1>2, <2>1, Frame
       DEF StartService, Start, StopService, Abort, JoinWorker, Join, callVars, NowhereElse
<1>3. CASE OpenDevice \/ CloseDevice
  <2>1. UNCHANGED serviceVars /\ outq' = <<>>
    BY <1>0, <1>3 DEF OpenDevice, DeviceOpen, CloseDevice, DeviceClose, deviceVars
  <2>2. (inq' = inq \/ inq' = <<>>) /\ (handle' = "live" => plugged')
    BY <1>3 DEF OpenDevice, DeviceOpen, CloseDevice, DeviceClose, deviceVars, Token
  <2>3. NoAnswers(inq')
    BY <1>0, <2>2 DEF NowhereElse, NoAnswers
  <2> QED
    BY <1>0, <2>1, <2>2, <2>3
       DEF Token, NowhereElse, Carrying, serviceVars, NoAnswers, OneAnswer
<1>4. CASE ReadInfo
  BY <1>0, <1>4, CallToken DEF ReadInfo, ReadAttribute
<1> QED
  BY <1>1, <1>2, <1>3, <1>4 DEF MainStep

LEMMA WriteToken == Inv /\ Write(Main) => Token'
<1> SUFFICES ASSUME Inv, Write(Main) PROVE Token'
  OBVIOUS
<1>1. outq = <<>> /\ NowhereElse
  BY DEF Inv, Token, Write
<1>2. outq' = <<pckt[Main]>> \/ outq' = <<>>
  BY <1>1 DEF Write, DeviceWrite
<1>3. pc'[Main] = "await"
  BY Constants DEF Write, Inv, TypeInv, TypeOK, ServiceTypeOK
<1> QED
  BY <1>1, <1>2, <1>3
     DEF Inv, Token, NowhereElse, RightNow, Write, DeviceWrite, Carrying, workerVars

LEMMA DequeueToken == Inv /\ Dequeue(Main) => Token'
<1> SUFFICES ASSUME Inv, Dequeue(Main) PROVE Token'
  OBVIOUS
<1>1. resque # <<>> /\ resque' = Tail(resque)
  BY DEF Dequeue
<1>2. outq = <<>> /\ NoAnswers(inq) /\ ~Carrying /\ Len(resque) = 1
  BY <1>1 DEF Inv, Token, NowhereElse
<1>3. resque' = <<>>
  BY <1>1, <1>2 DEF Inv, TypeInv, TypeOK, ServiceTypeOK
<1> QED
  BY <1>1, <1>2, <1>3
     DEF Inv, Token, NowhereElse, RightNow, Dequeue, Carrying, NoAnswers, deviceVars, workerVars

LEMMA CannotReadNot == CannotRead <=> ~(isOpen /\ inq # <<>>)
BY DEF CannotRead, isOpen

LEMMA WorkerToken == Inv /\ Worker => Token'
<1> SUFFICES ASSUME Inv, Worker PROVE Token'
  OBVIOUS
<1> USE DEF Inv, Goto
<1>1. CASE WorkerPoll \/ WorkerCheck
  BY <1>1, Frame DEF WorkerPoll, WorkerCheck, Carrying, callVars
<1>2. CASE WorkerRead /\ DeviceRead
  <2>1. inq \in Seq(Packets) /\ inq # <<>> /\ inq' = Tail(inq) /\ rcvp' = Head(inq)
    BY <1>2, CannotReadNot DEF WorkerRead, DeviceRead, TypeInv, TypeOK, DeviceTypeOK
  <2>2. ~Carrying /\ worker' = "dispatch" /\ UNCHANGED <<callVars, resque, outq, store, handle, plugged>>
    BY <1>2, CannotReadNot DEF WorkerRead, DeviceRead, Carrying
  <2>3. /\ OneAnswer(inq') /\ (NoAnswers(inq) => NoAnswers(inq'))
        /\ Head(inq).kind = "answer" => NoAnswers(inq') /\ ~NoAnswers(inq)
        /\ NoAnswers(inq) => Head(inq).kind # "answer"
    BY <2>1, TailAnswers DEF Token
  <2>4. \A i \in DOMAIN inq' : inq'[i].kind = "answer" => RightNow(inq'[i])
    BY <2>1, TailOf DEF Token
  <2>5. Head(inq).kind = "answer" => RightNow(Head(inq))
    BY <2>1, TailOf DEF Token
  <2> QED
    BY <2>1, <2>2, <2>3, <2>4, <2>5 DEF Token, NowhereElse, RightNow, Carrying, callVars
<1>3. CASE WorkerRead /\ CannotRead
  BY <1>3, CannotReadNot, Frame DEF WorkerRead, DeviceRead, Carrying, callVars
<1>4. CASE WorkerDispatch
  <2>1. CASE rcvp.kind = "answer"
    BY <1>4, <2>1, Frame DEF WorkerDispatch, Carrying, callVars
  <2>2. CASE rcvp.kind # "answer"
    <3>1. ~Carrying /\ ~Carrying'
      BY <1>4, <2>2 DEF WorkerDispatch, Carrying
    <3> QED
      BY <1>4, <2>2, <3>1
         DEF WorkerDispatch, Token, NowhereElse, RightNow, deviceVars, callVars
  <2> QED
    BY <2>1, <2>2
<1>5. CASE WorkerEnqueue
  <2>1. Carrying /\ ~Carrying'
    BY <1>5 DEF WorkerEnqueue, Carrying, TypeInv, Sorted, Answers
  <2>2. resque = <<>> /\ outq = <<>> /\ NoAnswers(inq) /\ RightNow(rcvp) /\ pc[Main] = "await"
    BY <2>1 DEF Token, NowhereElse
  <2>3. resque' = <<rcvp>>
    BY <1>5, <2>2 DEF WorkerEnqueue
  <2> QED
    BY <1>5, <2>1, <2>2, <2>3
       DEF WorkerEnqueue, Token, NowhereElse, RightNow, deviceVars, callVars
<1> QED
  BY <1>1, <1>2, <1>3, <1>4, <1>5 DEF Worker, WorkerRead

LEMMA NextInv ==
  ASSUME Callers = {Main} PROVE Inv /\ [Next]_vars => Inv'
<1> SUFFICES ASSUME Inv, [Next]_vars PROVE Token'
  BY NextType DEF Inv
<1>1. CASE OpenPath \/ Close \/ MainStep
  BY <1>1, MainToken
<1>2. CASE Request(Main)
  BY <1>2, CallToken DEF Request, ReadAttribute, WriteAttribute
<1>3. CASE Write(Main) \/ Dequeue(Main)
  BY <1>3, WriteToken, DequeueToken
<1>4. CASE Worker
  BY <1>4, WorkerToken
<1>5. CASE Environment /\ UNCHANGED <<serviceVars, coreVars>>
  BY <1>5, EnvironmentToken
<1>6. CASE UNCHANGED vars
  BY <1>6, Frame DEF vars, serviceVars, Inv, Carrying
<1> QED
  BY <1>1, <1>2, <1>3, <1>4, <1>5, <1>6 DEF Next

LEMMA InvHolds == ASSUME Callers = {Main} PROVE Spec => []Inv
BY InitType, InitToken, NextInv, PTL DEF Spec, Inv

(* A call returns the answer to the request it made, whatever is lost,     *)
(* refused, unplugged or reopened, as long as one thread calls.            *)
THEOREM AnswerIsMineAlways == ASSUME Callers = {Main} PROVE Spec => AnswerIsMine
<1> DEFINE A(c) == pc[c] = "await" /\ pc'[c] = "idle" /\ handle = "live"
                     => /\ got'[c].rc = "ok" => got'[c].val = store[pckt[c].att]
                        /\ got'[c].rc = "fail" => "refuse" \in Faults
<1>1. Inv /\ [Next]_vars => [\A c \in Callers : A(c)]_vars
  <2> SUFFICES ASSUME Inv, Next, pc[Main] = "await", pc'[Main] = "idle", handle = "live"
               PROVE  /\ got'[Main].rc = "ok" => got'[Main].val = store[pckt[Main].att]
                      /\ got'[Main].rc = "fail" => "refuse" \in Faults
    BY Zenon
  <2> USE DEF Inv, TypeInv, TypeOK, ServiceTypeOK
  <2>1. Dequeue(Main)
    BY DEF Next, OpenPath, Close, MainStep, OpenDevice, StartService, Start, ReadInfo, KeepInfo,
           StopService, Abort, JoinWorker, Join, CloseDevice, MainAt, Request, Free, Write,
           ReadAttribute, Call, Worker, WorkerPoll, WorkerRead, WorkerDispatch, WorkerEnqueue,
           WorkerCheck, callVars, serviceVars
  <2>2. Right(Head(resque), pckt[Main], store, handle) /\ Head(resque) \in Answers
    BY <2>1 DEF Dequeue, Token, RightNow
  <2>3. got'[Main] = Verdict(pckt[Main], Head(resque))
    BY <2>1, Constants DEF Dequeue
  <2> QED
    BY <2>2, <2>3 DEF Right, Verdict, Failed, Answers
<1> QED
  BY <1>1, InvHolds, PTL DEF Spec, AnswerIsMine
-----------------------------------------------------------------------------
(* Any number of calling threads: the answers that are anywhere, and those *)
(* the device owes, never outnumber the threads that wait.                 *)

Count(q) == Cardinality(AnswersIn(q))
One(p)   == IF p.kind = "answer" THEN 1 ELSE 0
Hand     == IF Carrying THEN 1 ELSE 0
Waiting  == Cardinality(Awaiting)

LEMMA CountType ==
  ASSUME NEW q \in Seq(Packets)
  PROVE  IsFiniteSet(AnswersIn(q)) /\ Count(q) \in Nat
<1>1. IsFiniteSet(DOMAIN q)
  BY FS_Interval
<1>2. AnswersIn(q) \subseteq DOMAIN q
  BY DEF AnswersIn
<1> QED
  BY <1>1, <1>2, FS_Subset, FS_CardinalityType DEF Count

LEMMA CountTail ==
  ASSUME NEW q \in Seq(Packets), q # <<>>
  PROVE  Count(Tail(q)) + One(Head(q)) = Count(q)
<1> DEFINE S == AnswersIn(q) \ {1}
           T == AnswersIn(Tail(q))
           f == [i \in T |-> i + 1]
<1>1. IsFiniteSet(AnswersIn(q)) /\ IsFiniteSet(T) /\ Count(q) \in Nat
  BY CountType, TailOf
<1>2. \A i \in T : i \in Nat \ {0} /\ i + 1 \in S
  BY TailOf DEF AnswersIn
<1>3. \A j \in S : j - 1 \in T /\ j \in Nat
  BY DEF AnswersIn
<1>4. f \in Bijection(T, S)
  <2>1. f \in [T -> S]
    BY <1>2
  <2>2. \A i, j \in T : f[i] = f[j] => i = j
    BY <1>2
  <2>3. \A j \in S : \E i \in T : f[i] = j
    BY <1>3
  <2> QED
    BY <2>1, <2>2, <2>3 DEF Bijection, Injection, Surjection, IsInjective
<1>5. Cardinality(S) = Cardinality(T)
  BY <1>1, <1>4, FS_Bijection DEF ExistsBijection
<1>6. 1 \in AnswersIn(q) <=> Head(q).kind = "answer"
  BY TailOf DEF AnswersIn
<1>7. CASE 1 \in AnswersIn(q)
  <2>1. Cardinality(S) = Cardinality(AnswersIn(q)) - 1
    BY <1>1, <1>7, FS_RemoveElement
  <2>2. One(Head(q)) = 1
    BY <1>6, <1>7 DEF One
  <2> HIDE DEF S, T
  <2>3. Count(Tail(q)) = Count(q) - 1
    BY <1>5, <2>1 DEF Count, T
  <2> QED
    BY <1>1, <2>2, <2>3
<1>8. CASE 1 \notin AnswersIn(q)
  <2>1. S = AnswersIn(q)
    BY <1>8
  <2>2. One(Head(q)) = 0
    BY <1>6, <1>8 DEF One
  <2>3. Count(Tail(q)) = Count(q)
    BY <1>5, <2>1 DEF Count
  <2> QED
    BY <1>1, <2>2, <2>3
<1> QED
  BY <1>7, <1>8

LEMMA CountAppend ==
  ASSUME NEW q \in Seq(Packets), NEW p \in Packets
  PROVE  Count(Append(q, p)) = Count(q) + One(p)
<1> DEFINE n == Len(q) + 1
<1>1. IsFiniteSet(AnswersIn(q)) /\ Count(q) \in Nat
  BY CountType
<1>2. n \notin AnswersIn(q)
  BY DEF AnswersIn
<1>3. DOMAIN Append(q, p) = DOMAIN q \cup {n} /\ Append(q, p)[n] = p
      /\ \A i \in DOMAIN q : Append(q, p)[i] = q[i]
  OBVIOUS
<1> HIDE DEF n
<1>4. CASE p.kind = "answer"
  <2>1. AnswersIn(Append(q, p)) = AnswersIn(q) \cup {n}
    BY <1>3, <1>4 DEF AnswersIn
  <2> QED
    BY <1>1, <1>2, <1>4, <2>1, FS_AddElement DEF Count, One
<1>5. CASE p.kind # "answer"
  <2>1. AnswersIn(Append(q, p)) = AnswersIn(q)
    BY <1>2, <1>3, <1>5 DEF AnswersIn
  <2> QED
    BY <1>1, <1>5, <2>1 DEF Count, One
<1> QED
  BY <1>4, <1>5

LEMMA CountArrive ==
  ASSUME NEW p \in Packets, inq \in Seq(Packets), Arrive(p)
  PROVE  Count(inq') <= Count(inq) + One(p)
<1>1. Count(inq) \in Nat /\ One(p) \in Nat
  BY CountType DEF One
<1>2. CASE inq' = inq
  BY <1>1, <1>2
<1>3. CASE inq' = Append(inq, p)
  BY <1>1, <1>3, CountAppend
<1>4. CASE inq # <<>> /\ inq' = Append(Tail(inq), p)
  <2>1. Tail(inq) \in Seq(Packets) /\ Head(inq) \in Packets
    BY <1>4
  <2>2. Count(Tail(inq)) \in Nat /\ One(Head(inq)) \in Nat
    BY <2>1, CountType DEF One
  <2>3. Count(inq') = Count(Tail(inq)) + One(p)
    BY <1>4, <2>1, CountAppend
  <2>4. Count(Tail(inq)) + One(Head(inq)) = Count(inq)
    BY <1>4, CountTail
  <2> QED
    BY <1>1, <2>2, <2>3, <2>4
<1> QED
  BY <1>2, <1>3, <1>4, ArriveIsArrived DEF Arrived

LEMMA CountEmpty == Count(<<>>) = 0
<1>1. AnswersIn(<<>>) = {}
  BY DEF AnswersIn
<1> QED
  BY <1>1, FS_EmptySet DEF Count

Sum == Len(outq) + Count(inq) + Len(resque) + Hand

LEMMA SumType ==
  ASSUME TypeInv
  PROVE  /\ Len(outq) \in Nat /\ Count(inq) \in Nat /\ Len(resque) \in Nat /\ Hand \in {0, 1}
         /\ IsFiniteSet(Awaiting) /\ Waiting \in Nat
<1>1. IsFiniteSet(Awaiting)
  BY DeviceAssumption, FS_Subset DEF Awaiting
<1> QED
  BY <1>1, CountType, FS_CardinalityType DEF TypeInv, TypeOK, DeviceTypeOK, ServiceTypeOK, Hand, Waiting

(* A step by which no thread begins or ends to wait. *)
LEMMA NoMore ==
  ASSUME TypeInv, TypeInv', Sum <= Waiting, Sum' <= Sum, UNCHANGED pc
  PROVE  (Sum <= Waiting)'
<1>1. Waiting' = Waiting
  BY DEF Waiting, Awaiting
<1>2. Sum \in Nat /\ Waiting \in Nat
  BY SumType DEF Sum
<1>3. (/\ Len(outq) \in Nat /\ Count(inq) \in Nat /\ Len(resque) \in Nat /\ Hand \in {0, 1})'
  BY SumType, PTL
<1>4. Sum' \in Nat
  BY <1>3 DEF Sum
<1> QED
  BY <1>1, <1>2, <1>4

LEMMA NextAwaited ==
  ASSUME TypeInv, TypeInv', Sum <= Waiting, [Next]_vars
  PROVE  (Sum <= Waiting)'
<1> USE DEF TypeInv, TypeOK, DeviceTypeOK, ServiceTypeOK
<1>0. /\ Len(outq) \in Nat /\ Count(inq) \in Nat /\ Len(resque) \in Nat /\ Hand \in {0, 1}
      /\ IsFiniteSet(Awaiting) /\ Waiting \in Nat
  BY SumType
<1>1. ASSUME UNCHANGED <<outq, inq, resque, rcvp, worker, pc>> PROVE (Sum <= Waiting)'
  <2>1. Sum' = Sum
    BY <1>1 DEF Sum, Hand, Carrying, Count
  <2> QED
    BY <1>0, <1>1, <2>1, NoMore DEF Sum
<1>2. CASE OpenDevice \/ CloseDevice
  <2>1. UNCHANGED <<outq, resque, rcvp, worker, pc>> /\ inq' \in {inq, <<>>}
    BY <1>2 DEF OpenDevice, CloseDevice, DeviceOpen, DeviceClose, deviceVars, serviceVars
  <2>2. Count(inq') <= Count(inq)
    BY <1>0, <2>1, CountEmpty
  <2>3. Count(inq') \in Nat
    BY <1>0, <2>1, CountEmpty
  <2>4. Sum' <= Sum
    BY <1>0, <2>1, <2>2, <2>3 DEF Sum, Hand, Carrying
  <2> QED
    BY <2>1, <2>4, NoMore
<1>3. CASE StartService \/ JoinWorker
  <2>1. UNCHANGED <<outq, inq, resque, rcvp, pc>> /\ worker' \in {worker, "poll", "none"}
    BY <1>3 DEF StartService, Start, JoinWorker, Join, Goto, deviceVars, callVars
  <2>2. Hand' <= Hand
    BY <1>0, <2>1 DEF Hand, Carrying
  <2>3. Hand' \in {0, 1}
    BY DEF Hand
  <2>4. Sum' <= Sum
    BY <1>0, <2>1, <2>2, <2>3 DEF Sum, Count
  <2> QED
    BY <2>1, <2>4, NoMore
<1>4. ASSUME NEW c \in Callers, NEW r, Call(c, r) PROVE (Sum <= Waiting)'
  <2>1. Awaiting' = Awaiting /\ UNCHANGED <<outq, inq, resque, rcvp, worker>>
    BY <1>4 DEF Call, Awaiting, deviceVars, workerVars
  <2> QED
    BY <2>1 DEF Sum, Hand, Carrying, Count, Waiting
<1>5. ASSUME NEW c \in Callers, Write(c) PROVE (Sum <= Waiting)'
  <2>1. Awaiting' = Awaiting \cup {c} /\ c \notin Awaiting
    BY <1>5 DEF Write, Awaiting
  <2>2. Waiting' = Waiting + 1
    BY <1>0, <2>1, FS_AddElement DEF Waiting
  <2>3. UNCHANGED <<inq, resque, rcvp, worker>> /\ Len(outq') \in {Len(outq), Len(outq) + 1}
    BY <1>5 DEF Write, DeviceWrite, workerVars
  <2> QED
    BY <1>0, <2>2, <2>3 DEF Sum, Hand, Carrying, Count
<1>6. ASSUME NEW c \in Callers, Dequeue(c) PROVE (Sum <= Waiting)'
  <2>1. Awaiting' = Awaiting \ {c} /\ c \in Awaiting
    BY <1>6 DEF Dequeue, Awaiting
  <2>2. Waiting' = Waiting - 1
    BY <1>0, <2>1, FS_RemoveElement DEF Waiting
  <2>3. UNCHANGED <<outq, inq, rcvp, worker>> /\ Len(resque') = Len(resque) - 1
    BY <1>6 DEF Dequeue, workerVars, deviceVars
  <2> QED
    BY <1>0, <2>2, <2>3 DEF Sum, Hand, Carrying, Count
<1>7. CASE Worker
  <2>1. UNCHANGED pc
    BY <1>7 DEF Worker, WorkerPoll, WorkerRead, WorkerDispatch, WorkerEnqueue, WorkerCheck, callVars
  <2>2. CASE WorkerPoll \/ WorkerCheck \/ (WorkerRead /\ ~DeviceRead)
    <3>1. UNCHANGED <<outq, inq, resque, rcvp>> /\ worker' \in {"poll", "read", "check", "ended"}
      BY <2>2 DEF WorkerPoll, WorkerCheck, WorkerRead, Goto, deviceVars
    <3>2. Hand' = 0
      BY <3>1 DEF Hand, Carrying
    <3>3. Sum' <= Sum
      BY <1>0, <3>1, <3>2 DEF Sum, Count
    <3> QED
      BY <2>1, <3>3, NoMore
  <2>3. CASE WorkerRead /\ DeviceRead
    <3>1. /\ worker = "read" /\ inq # <<>> /\ inq' = Tail(inq) /\ rcvp' = Head(inq)
          /\ worker' = "dispatch" /\ UNCHANGED <<outq, resque>>
      BY <2>3 DEF WorkerRead, DeviceRead, CannotRead, Goto
    <3>2. Hand = 0 /\ Hand' = One(Head(inq))
      BY <3>1 DEF Hand, Carrying, One
    <3>3. Count(inq') + One(Head(inq)) = Count(inq)
      BY <3>1, CountTail
    <3>4. Count(inq') \in Nat /\ One(Head(inq)) \in Nat
      BY CountType DEF One
    <3>5. Sum' = Sum
      BY <1>0, <3>1, <3>2, <3>3, <3>4 DEF Sum
    <3> QED
      BY <1>0, <2>1, <3>5, NoMore DEF Sum
  <2>4. CASE WorkerDispatch
    <3>1. UNCHANGED <<outq, inq, resque>> /\ Hand' = Hand
      BY <2>4 DEF WorkerDispatch, Goto, deviceVars, Hand, Carrying
    <3>2. Sum' = Sum
      BY <3>1 DEF Sum, Count
    <3> QED
      BY <1>0, <2>1, <3>2, NoMore DEF Sum
  <2>5. CASE WorkerEnqueue
    <3>1. UNCHANGED <<outq, inq>> /\ Len(resque') = Len(resque) + 1
      BY <2>5 DEF WorkerEnqueue, deviceVars, Sorted
    <3>2. Hand = 1 /\ Hand' = 0
      BY <2>5 DEF WorkerEnqueue, Goto, Hand, Carrying, Sorted, Answers
    <3>3. Sum' = Sum
      BY <1>0, <3>1, <3>2 DEF Sum, Count
    <3> QED
      BY <1>0, <2>1, <3>3, NoMore DEF Sum
  <2> QED
    BY <1>7, <2>2, <2>3, <2>4, <2>5 DEF Worker
<1>8. CASE Environment /\ UNCHANGED <<serviceVars, coreVars>>
  <2>1. UNCHANGED <<resque, pc>> /\ Hand' = Hand
    BY <1>8 DEF serviceVars, Hand, Carrying
  <2>2. Len(outq') \in Nat /\ Count(inq') \in Nat
    BY CountType
  <2>3. Len(outq') + Count(inq') <= Len(outq) + Count(inq)
    <3>1. CASE DeviceAnswers
      <4>1. Len(outq') = Len(outq) - 1 /\ Len(outq) >= 1
        BY <3>1 DEF DeviceAnswers
      <4>2. CASE UNCHANGED inq
        BY <1>0, <4>1, <4>2
      <4>3. CASE \E p \in Packets : Arrive(p)
        <5> PICK p \in Packets : Arrive(p)
          BY <4>3
        <5>1. Count(inq') <= Count(inq) + One(p) /\ One(p) \in {0, 1}
          BY CountArrive DEF One
        <5> QED
          BY <1>0, <2>2, <4>1, <5>1
      <4>4. Head(outq) \in Requests
        BY <3>1 DEF DeviceAnswers
      <4>5. \A rc \in {"ok", "fail"} : Answer(Head(outq), rc) \in Packets
        BY <4>4 DEF Requests, Answer, Packets, Answers
      <4> QED
        BY <3>1, <4>2, <4>3, <4>5 DEF DeviceAnswers
    <3>2. CASE DeviceSpeaks
      <4>1. PICK k \in Noise : Arrive([kind |-> k, op |-> "none", rc |-> "none", val |-> Nothing])
        BY <3>2 DEF DeviceSpeaks
      <4> DEFINE p == [kind |-> k, op |-> "none", rc |-> "none", val |-> Nothing]
      <4>2. p \in Packets
        BY DEF Packets, Unasked
      <4>3. p.kind # "answer"
        BY DeviceAssumption
      <4>4. One(p) = 0
        BY <4>3 DEF One
      <4>5. Arrive(p) /\ UNCHANGED outq
        BY <3>2, <4>1 DEF DeviceSpeaks
      <4> HIDE DEF p
      <4>6. Count(inq') <= Count(inq) + 0
        BY <4>2, <4>4, <4>5, CountArrive
      <4> QED
        BY <1>0, <2>2, <4>5, <4>6
    <3>3. CASE Unplug \/ Replug
      <4>1. Len(outq') <= Len(outq)
        BY <1>0, <3>3 DEF Unplug, Replug
      <4>2. inq' \in {inq, <<>>}
        BY <3>3 DEF Unplug, Replug
      <4>3. Count(inq') <= Count(inq)
        BY <1>0, <4>2, CountEmpty
      <4> QED
        BY <1>0, <2>2, <4>1, <4>3
    <3> QED
      BY <1>8, <3>1, <3>2, <3>3 DEF Environment
  <2>4. Sum' <= Sum
    BY <1>0, <2>1, <2>2, <2>3 DEF Sum
  <2> QED
    BY <2>1, <2>4, NoMore
<1>9. CASE OpenPath \/ KeepInfo \/ Close \/ StopService \/ UNCHANGED vars
  BY <1>1, <1>9 DEF OpenPath, KeepInfo, Close, StopService, Abort, vars, deviceVars, serviceVars, callVars
<1>10. CASE ReadInfo
  BY <1>4, <1>10, CoreAssumption DEF ReadInfo, ReadAttribute
<1>11. ASSUME NEW c \in Callers, Request(c) PROVE (Sum <= Waiting)'
  BY <1>4, <1>11 DEF Request, ReadAttribute, WriteAttribute
<1> HIDE DEF TypeInv, TypeOK, DeviceTypeOK, ServiceTypeOK
<1>12. CASE MainStep
  BY <1>2, <1>3, <1>9, <1>10, <1>12 DEF MainStep
<1> QED
  BY <1>5, <1>6, <1>7, <1>8, <1>9, <1>11, <1>12 DEF Next

(* No answer outlives the wait for it, for any number of threads and under *)
(* every fault: the worker finds room in resque whenever nobody is just    *)
(* about to make some, and no call begins with an answer left in resque.   *)
THEOREM EveryAnswerAwaitedAlways == Spec => []EveryAnswerAwaited
<1>1. Init => Sum <= Waiting
  <2> SUFFICES ASSUME Init PROVE Sum <= Waiting
    OBVIOUS
  <2>1. TypeInv
    BY InitType
  <2>2. Sum = 0
    BY CountEmpty DEF Init, DeviceInit, ServiceInit, Sum, Hand, Carrying
  <2> QED
    BY <2>1, <2>2, SumType
<1>2. TypeInv /\ Sum <= Waiting => EveryAnswerAwaited
  BY SumType DEF Sum, Waiting, Hand, Carrying, Count, EveryAnswerAwaited
<1>3. Spec => []TypeInv
  BY InitType, NextType, PTL DEF Spec
<1>4. TypeInv /\ TypeInv' /\ Sum <= Waiting /\ [Next]_vars => (Sum <= Waiting)'
  BY NextAwaited
<1> QED
  BY <1>1, <1>2, <1>3, <1>4, PTL DEF Spec
-----------------------------------------------------------------------------
(* What openPath has read, with one calling thread and a device that       *)
(* refuses nothing: the attributes before next, until it has them all.     *)
Same(i) == info[InfoAttrs[i]] = store[InfoAttrs[i]]

InfoRequests ==
  /\ pckt[Main].op = "set" => pckt[Main].att \notin InfoSet
  /\ at = "open" => handle = "null"
  /\ at = "answer" => pckt[Main] = [op |-> "get", att |-> InfoAttrs[next], val |-> Nothing]

InfoRead ==
  handle = "live" =>
    /\ at \in {"info", "answer"} => \A i \in 1 .. next - 1 : Same(i)
    /\ at = "answer" /\ pc[Main] = "idle"
         => got[Main].rc = "ok" /\ got[Main].val = store[InfoAttrs[next]]
    /\ at = "out" => \A i \in DOMAIN InfoAttrs : Same(i)

InfoInv == InfoRequests /\ InfoRead

(* The device keeps its product data as long as it is open. *)
LEMMA InfoStays ==
  ASSUME Inv, InfoRequests, Environment, handle' = "live", NEW i \in DOMAIN InfoAttrs
  PROVE  handle = "live" /\ store'[InfoAttrs[i]] = store[InfoAttrs[i]]
<1> USE DEF Inv, TypeInv, TypeOK, DeviceTypeOK
<1>1. InfoAttrs[i] \in Attrs /\ InfoAttrs[i] \in InfoSet
  BY Constants DEF InfoSet
<1>2. CASE DeviceAnswers
  <2>1. outq = <<pckt[Main]>> /\ handle = "live"
    BY <1>2 DEF DeviceAnswers, Token
  <2>2. Head(outq) = pckt[Main]
    BY <2>1
  <2>3. store' \in {store, [store EXCEPT ![pckt[Main].att] = pckt[Main].val]}
        /\ (pckt[Main].op # "set" => store' = store)
    BY <1>2, <2>2 DEF DeviceAnswers
  <2> QED
    BY <1>1, <2>1, <2>3 DEF InfoRequests
<1>3. CASE DeviceSpeaks \/ Unplug
  BY <1>3 DEF DeviceSpeaks, Unplug
<1>4. CASE Replug
  BY <1>4 DEF Replug, Token
<1> QED
  BY <1>2, <1>3, <1>4 DEF Environment

LEMMA NextInfo ==
  ASSUME Callers = {Main}, "refuse" \notin Faults, Inv, InfoInv, [Next]_vars
  PROVE  InfoInv'
<1> USE DEF Inv, TypeInv, TypeOK, DeviceTypeOK, ServiceTypeOK, InfoInv
<1>0. /\ next \in DOMAIN InfoAttrs /\ DOMAIN InfoAttrs = 1 .. Len(InfoAttrs) /\ Len(InfoAttrs) \in Nat
      /\ \A i \in DOMAIN InfoAttrs : InfoAttrs[i] \in InfoSet
  BY CoreAssumption DEF InfoSet
<1>0a. 1 .. next \subseteq DOMAIN InfoAttrs /\ 1 .. next - 1 \subseteq DOMAIN InfoAttrs
  <2>1. next \in Nat /\ next <= Len(InfoAttrs)
    BY <1>0
  <2> QED
    BY <1>0, <2>1
<1>1. CASE UNCHANGED <<store, handle, pc, pckt, got, at, next, info>>
  BY <1>1 DEF InfoRequests, InfoRead, Same
<1>2. CASE OpenPath \/ Close
  BY <1>2 DEF OpenPath, Close, MainAt, isOpen, deviceVars, serviceVars, InfoRequests, InfoRead
<1>3. CASE OpenDevice
  BY <1>3 DEF OpenDevice, MainAt, DeviceOpen, deviceVars, serviceVars, InfoRequests, InfoRead
<1>4. CASE StartService
  BY <1>4 DEF StartService, Start, MainAt, deviceVars, callVars, InfoRequests, InfoRead
<1>5. CASE ReadInfo
  <2>1. /\ at = "info" /\ at' = "answer" /\ UNCHANGED <<store, handle, next, info>>
        /\ pckt' = [pckt EXCEPT ![Main] = [op |-> "get", att |-> InfoAttrs[next], val |-> Nothing]]
        /\ handle = "live" => pc' = [pc EXCEPT ![Main] = "write"]
    BY <1>5 DEF ReadInfo, MainAt, ReadAttribute, Call, isOpen, deviceVars
  <2> QED
    BY <2>1, CoreAssumption DEF InfoRequests, InfoRead, Same
<1>6. CASE KeepInfo
  <2>1. /\ at = "answer" /\ pc[Main] = "idle"
        /\ UNCHANGED <<store, handle, pc, pckt, got>>
        /\ at' = "info" => next' = next + 1 /\ next < Len(InfoAttrs)
        /\ at' \in {"info", "out"} /\ (at' = "out" => next = Len(InfoAttrs))
    BY <1>6 DEF KeepInfo, MainAt, deviceVars, serviceVars
  <2>2. ASSUME handle = "live", NEW i \in 1 .. next PROVE Same(i)'
    <3>1. /\ got[Main].rc = "ok" /\ got[Main].val = store[InfoAttrs[next]]
          /\ \A j \in 1 .. next - 1 : Same(j)
      BY <2>1, <2>2 DEF InfoRead
    <3>2. info' = [info EXCEPT ![InfoAttrs[next]] = got[Main].val]
      BY <1>6, <3>1 DEF KeepInfo
    <3>3. InfoAttrs[i] \in InfoSet /\ InfoAttrs[next] \in InfoSet
      BY <1>0, <1>0a
    <3>4. CASE InfoAttrs[i] = InfoAttrs[next]
      BY <2>1, <3>1, <3>2, <3>3, <3>4 DEF Same
    <3>5. CASE InfoAttrs[i] # InfoAttrs[next]
      <4>1. i \in 1 .. next - 1
        BY <1>0, <3>5
      <4> QED
        BY <2>1, <3>1, <3>2, <3>3, <3>5, <4>1 DEF Same
    <3> QED
      BY <3>4, <3>5
  <2>3. InfoRequests'
    BY <2>1 DEF InfoRequests
  <2>4. InfoRead'
    BY <1>0, <2>1, <2>2 DEF InfoRead
  <2> QED
    BY <2>3, <2>4
<1>7. CASE StopService \/ JoinWorker \/ CloseDevice
  BY <1>7 DEF StopService, Abort, JoinWorker, Join, CloseDevice, DeviceClose, MainAt, deviceVars, callVars,
              serviceVars, InfoRequests, InfoRead
<1>8. CASE Request(Main)
  <2>1. at = "out" /\ UNCHANGED <<store, handle, at, next, info>>
    BY <1>8 DEF Request, Free, coreVars, ReadAttribute, WriteAttribute, Call, deviceVars
  <2>2. pckt'[Main].op = "set" => pckt'[Main].att \notin InfoSet
    BY <1>8, CoreAssumption DEF Request, ReadAttribute, WriteAttribute, Call
  <2> QED
    BY <2>1, <2>2 DEF InfoRequests, InfoRead, Same
<1>9. CASE Write(Main) /\ UNCHANGED coreVars
  BY <1>9, CoreAssumption DEF Write, DeviceWrite, coreVars, InfoRequests, InfoRead, Same
<1>10. CASE Dequeue(Main) /\ UNCHANGED coreVars
  <2>1. UNCHANGED <<store, handle, pckt, at, next, info>>
    BY <1>10 DEF Dequeue, deviceVars, coreVars
  <2>2. Right(Head(resque), pckt[Main], store, handle) /\ Head(resque) \in Answers
    BY <1>10 DEF Dequeue, Token, RightNow
  <2>3. got'[Main] = Verdict(pckt[Main], Head(resque))
    BY <1>10, Constants DEF Dequeue
  <2>4. handle = "live" => got'[Main].rc = "ok" /\ (pckt[Main].op = "get" => got'[Main].val = store[pckt[Main].att])
    BY <2>2, <2>3 DEF Right, Verdict, Failed, Answers
  <2> QED
    BY <2>1, <2>4 DEF InfoRequests, InfoRead, Same
<1>11. CASE Worker /\ UNCHANGED coreVars
  <2>1. UNCHANGED <<store, handle, pc, pckt, got, at, next, info>>
    BY <1>11 DEF Worker, WorkerPoll, WorkerRead, DeviceRead, WorkerDispatch, WorkerEnqueue, WorkerCheck,
                 callVars, deviceVars, coreVars
  <2> QED
    BY <1>1, <2>1
<1>12. CASE Environment /\ UNCHANGED <<serviceVars, coreVars>>
  <2>1. UNCHANGED <<pc, pckt, got, at, next, info>>
    BY <1>12 DEF serviceVars, coreVars
  <2>2. handle = "null" => handle' = "null"
    BY <1>12 DEF Environment, DeviceAnswers, DeviceSpeaks, Unplug, Replug
  <2>3. handle' = "live" => handle = "live"
    BY <1>0, <1>12, InfoStays
  <2>4. ASSUME handle' = "live", NEW i \in DOMAIN InfoAttrs PROVE store'[InfoAttrs[i]] = store[InfoAttrs[i]]
    BY <1>12, <2>4, InfoStays
  <2>5. InfoRequests'
    BY <2>1, <2>2 DEF InfoRequests
  <2>6. InfoRead'
    <3>1. ASSUME handle' = "live", NEW i \in DOMAIN InfoAttrs, Same(i) PROVE Same(i)'
      BY <2>1, <2>4, <3>1 DEF Same
    <3>2. handle' = "live" => store'[InfoAttrs[next]] = store[InfoAttrs[next]]
      BY <1>0, <2>4
    <3> HIDE DEF Inv, TypeInv, InfoInv
    <3>3. InfoRead
      BY DEF InfoInv
    <3> QED
      BY <1>0a, <2>1, <2>3, <3>1, <3>2, <3>3 DEF InfoRead
  <2> QED
    BY <2>5, <2>6
<1>13. CASE UNCHANGED vars
  BY <1>1, <1>13 DEF vars, deviceVars, serviceVars, coreVars
<1> HIDE DEF Inv, TypeInv, TypeOK, DeviceTypeOK, ServiceTypeOK, InfoInv
<1>14. CASE MainStep
  BY <1>3, <1>4, <1>5, <1>6, <1>7, <1>14 DEF MainStep
<1> QED
  BY <1>2, <1>8, <1>9, <1>10, <1>11, <1>12, <1>13, <1>14 DEF Next

(* With one calling thread, and a device that refuses nothing, the product *)
(* data that openPath keeps are those of the device that is open.          *)
THEOREM InfoIsCurrentAlways ==
  ASSUME Callers = {Main}, "refuse" \notin Faults PROVE Spec => []InfoIsCurrent
<1>1. Init => InfoInv
  BY Constants DEF Init, DeviceInit, ServiceInit, InfoInv, InfoRequests, InfoRead, NoRequest
<1>2. Inv /\ InfoInv /\ [Next]_vars => InfoInv'
  BY NextInfo
<1>3. InfoInv => InfoIsCurrent
  BY DEF InfoInv, InfoRead, InfoIsCurrent, InfoSet, Same
<1> QED
  BY <1>1, <1>2, <1>3, InvHolds, PTL DEF Spec

-----------------------------------------------------------------------------
(* With one calling thread, TbiCore implements AttributeService.  *)

(* A step of the service, or none. *)
Simulated == Service!ServiceNext \/ UNCHANGED Service!attVars

LEMMA OnTheWayIs ==
  \A p : p \in OnTheWay <=> \/ \E i \in DOMAIN inq : inq[i].kind = "answer" /\ p = inq[i]
                            \/ \E i \in DOMAIN resque : p = resque[i]
                            \/ Carrying /\ p = rcvp
BY DEF OnTheWay, AnswersIn, Carrying

LEMMA NothingElsewhere == NowhereElse => OnTheWay = {}
BY OnTheWayIs DEF NowhereElse, NoAnswers

LEMMA NothingElsewhereNext == NowhereElse' => OnTheWay' = {}
BY DEF NowhereElse, NoAnswers, OnTheWay, AnswersIn, Carrying

(* The one answer that is on its way is the answer to Main's request. *)
LEMMA OneOnTheWay ==
  ASSUME Inv
  PROVE  /\ \A p \in OnTheWay : RightNow(p)
         /\ \A p, q \in OnTheWay : p = q
         /\ OnTheWay # {} => outq = <<>> /\ pc[Main] = "await"
<1> USE DEF Inv
<1>1. \A i \in DOMAIN resque : resque # <<>> /\ i = 1
  <2> SUFFICES ASSUME NEW i \in DOMAIN resque PROVE resque # <<>> /\ i = 1
    OBVIOUS
  <2>1. resque \in Seq(Answers)
    BY DEF TypeInv, TypeOK, ServiceTypeOK
  <2>2. resque # <<>>
    BY <2>1
  <2> QED
    BY <2>1, <2>2 DEF Token
<1>2. \A p \in OnTheWay : RightNow(p)
  BY <1>1, OnTheWayIs DEF Token
<1>3. \A p, q \in OnTheWay : p = q
  BY <1>1, OnTheWayIs DEF Token, NoAnswers, OneAnswer
<1>4. OnTheWay # {} => ~NowhereElse
  BY NothingElsewhere
<1> QED
  BY <1>2, <1>3, <1>4 DEF Token

(* A step that the calling thread cannot see, and that at most loses the   *)
(* answer that is on its way.                                              *)
LEMMA Quiet ==
  ASSUME UNCHANGED <<handle, store, outq, pc, pckt, got>>,
         OnTheWay' = OnTheWay \/ OnTheWay' = {}
  PROVE  Simulated
<1>1. Status' = Status \/ (Status \in {"granted", "refused"} /\ Status' = "lost")
  BY DEF Status, Granted
<1>2. UNCHANGED <<handle, store, pckt[Main], got[Main]>>
  OBVIOUS
<1> QED
  BY <1>1, <1>2
     DEF Simulated, Service!ServiceNext, Service!Device, Service!Lose, Service!attVars,
         Service!linkVars

LEMMA QuietMain ==
  Inv /\ (OpenPath \/ Close \/ KeepInfo \/ StartService \/ StopService \/ JoinWorker)
    => Simulated
<1> SUFFICES ASSUME Inv, OpenPath \/ Close \/ KeepInfo \/ StartService
                           \/ StopService \/ JoinWorker
             PROVE  Simulated
  OBVIOUS
<1> USE DEF MainAt, Goto
<1>1. OnTheWay = {} /\ ~Carrying
  BY OneOnTheWay
     DEF Inv, Token, NowhereElse,
         OpenPath, Close, KeepInfo, StartService, StopService, JoinWorker
<1>2. UNCHANGED <<deviceVars, resque, rcvp, callVars>>
  BY DEF OpenPath, Close, KeepInfo, StartService, Start, StopService, Abort, JoinWorker, Join,
         serviceVars, callVars
<1>3. ~Carrying'
  BY <1>1 DEF Carrying, OpenPath, Close, KeepInfo, StartService, Start, StopService, Abort,
              JoinWorker, Join, serviceVars
<1>4. OnTheWay' = OnTheWay
  BY <1>1, <1>2, <1>3 DEF OnTheWay, AnswersIn, Carrying, deviceVars
<1> QED
  BY <1>2, <1>4, Quiet DEF deviceVars, callVars

LEMMA OpenIsOpen == Inv /\ OpenDevice => Simulated
<1> SUFFICES ASSUME Inv, OpenDevice PROVE Simulated
  OBVIOUS
<1>1. pc[Main] = "idle" /\ UNCHANGED serviceVars
  BY DEF OpenDevice, MainAt
<1>2. Status = "idle" /\ Status' = "idle"
  BY <1>1 DEF Status, serviceVars
<1>3. \/ UNCHANGED <<handle, store>>
      \/ handle = "null" /\ handle' = "live" /\ UNCHANGED store
  BY DEF OpenDevice, DeviceOpen, deviceVars, isOpen
<1> QED
  BY <1>1, <1>2, <1>3
     DEF Simulated, Service!ServiceNext, Service!OpenLink, Service!attVars, Service!callVars,
         serviceVars

LEMMA CloseIsClose == CloseDevice => Simulated
<1> SUFFICES ASSUME CloseDevice PROVE Simulated
  OBVIOUS
<1>1. pc[Main] = "idle" /\ UNCHANGED serviceVars /\ handle' = "null" /\ UNCHANGED store
  BY DEF CloseDevice, DeviceClose, MainAt
<1>2. Status = "idle" /\ Status' = "idle"
  BY <1>1 DEF Status, serviceVars
<1> QED
  BY <1>1, <1>2
     DEF Simulated, Service!ServiceNext, Service!CloseLink, Service!callVars, serviceVars

LEMMA CallIsAsk ==
  ASSUME Inv, NEW r \in Requests, Call(Main, r) PROVE Simulated
<1> USE DEF Inv, TypeInv, TypeOK, ServiceTypeOK
<1>1. /\ pc[Main] = "idle" /\ UNCHANGED <<handle, store>>
      /\ pckt'[Main] = r
      /\ IF handle = "null" THEN pc'[Main] = "idle" /\ got'[Main] = Failed
                            ELSE pc'[Main] = "write" /\ got'[Main] = NoResult
  BY Constants DEF Call, deviceVars, isOpen
<1>2. /\ Status = "idle"
      /\ Status' = IF handle = "null" THEN "idle" ELSE "asked"
  BY <1>1 DEF Status
<1>3. Service!Ask(r)
  BY <1>1, <1>2
     DEF Service!Ask, Service!Failed, Service!NoResult, Failed, NoResult, Service!linkVars
<1>4. r \in Service!Requests
  BY DEF Requests, Service!Requests
<1> QED
  BY <1>3, <1>4 DEF Simulated, Service!ServiceNext

LEMMA WriteIsQuiet == Inv /\ Write(Main) => Simulated
<1> SUFFICES ASSUME Inv, Write(Main) PROVE Simulated
  OBVIOUS
<1>1. pc[Main] = "write" /\ pc'[Main] = "await"
  BY Constants DEF Write, Inv, TypeInv, TypeOK, ServiceTypeOK
<1>2. UNCHANGED <<handle, store, inq, resque, worker, rcvp, pckt, got>>
  BY DEF Write, DeviceWrite, workerVars
<1>3. outq = <<>> /\ OnTheWay = {}
  BY <1>1, NothingElsewhere DEF Inv, Token
<1>4. OnTheWay' = {}
  BY <1>2, <1>3 DEF OnTheWay, AnswersIn
<1>5. Status = "asked" /\ Status' \in {"asked", "lost"}
  BY <1>1, <1>4 DEF Status, Granted
<1> QED
  BY <1>2, <1>5
     DEF Simulated, Service!ServiceNext, Service!Device, Service!Lose, Service!attVars,
         Service!linkVars

LEMMA DequeueIsReturn == Inv /\ Dequeue(Main) => Simulated
<1> SUFFICES ASSUME Inv, Dequeue(Main) PROVE Simulated
  OBVIOUS
<1> DEFINE r == pckt[Main]
           p == Head(resque)
<1>1. resque # <<>> /\ resque \in Seq(Answers) /\ r \in Requests
  BY Constants DEF Dequeue, Inv, TypeInv, TypeOK, ServiceTypeOK
<1>2. p \in Answers /\ p = resque[1] /\ 1 \in DOMAIN resque
  BY <1>1
<1>3. p \in OnTheWay
  BY <1>2, OnTheWayIs
<1>4. /\ Right(p, r, store, handle) /\ OnTheWay = {p}
      /\ outq = <<>> /\ pc[Main] = "await"
  BY <1>3, OneOnTheWay DEF RightNow
<1>5. Status = IF p.rc = "ok" THEN "granted" ELSE "refused"
  BY <1>4 DEF Status, Granted
<1>6. pc'[Main] = "idle" /\ got'[Main] = Verdict(r, p)
  BY Constants DEF Dequeue, Inv, TypeInv, TypeOK, ServiceTypeOK
<1>7. Status' = "idle"
  BY <1>6 DEF Status
<1>8. Service!Answered
  <2>1. CASE p.rc = "ok"
    <3> DEFINE v == IF r.op = "get" THEN p.val ELSE r.val
    <3>1. got'[Main] = [rc |-> "ok", val |-> v]
      BY <1>4, <1>6, <2>1 DEF Verdict, Right
    <3>2. v \in Values
      BY <1>1, <1>4, <2>1 DEF Right, Requests
    <3>3. handle = "live" \/ r.op = "set"
            => v = IF r.op = "get" THEN store[r.att] ELSE r.val
      BY <1>1, <1>4, <2>1 DEF Right, Requests
    <3> QED
      BY <1>5, <2>1, <3>1, <3>2, <3>3 DEF Service!Answered
  <2>2. CASE p.rc = "fail"
    BY <1>5, <1>6, <2>2 DEF Service!Answered, Verdict, Failed, Service!Failed
  <2> QED
    BY <1>2, <2>1, <2>2 DEF Answers
<1> QED
  BY <1>7, <1>8
     DEF Simulated, Service!ServiceNext, Service!Return, Service!linkVars, Dequeue, deviceVars

LEMMA WorkerIsQuiet == Inv /\ Worker => Simulated
<1> SUFFICES ASSUME Inv, Worker PROVE Simulated
  OBVIOUS
<1> USE DEF Inv, Goto
<1>0. UNCHANGED <<handle, store, outq, pc, pckt, got>>
  BY DEF Worker, WorkerPoll, WorkerRead, DeviceRead, WorkerDispatch, WorkerEnqueue, WorkerCheck,
         deviceVars, callVars
<1>1. OnTheWay' = OnTheWay
  <2>1. CASE WorkerPoll \/ WorkerCheck
    BY <2>1 DEF WorkerPoll, WorkerCheck, OnTheWay, AnswersIn, deviceVars
  <2>2. CASE WorkerRead /\ DeviceRead
    <3>1. /\ inq \in Seq(Packets) /\ inq # <<>> /\ inq' = Tail(inq) /\ rcvp' = Head(inq)
          /\ ~Carrying /\ worker' = "dispatch" /\ UNCHANGED resque
      BY <2>2, CannotReadNot
         DEF WorkerRead, DeviceRead, Carrying, TypeInv, TypeOK, DeviceTypeOK
    <3>2. \A q : (\E i \in DOMAIN inq : inq[i].kind = "answer" /\ q = inq[i])
            <=> \/ Head(inq).kind = "answer" /\ q = Head(inq)
                \/ \E i \in DOMAIN Tail(inq) : Tail(inq)[i].kind = "answer" /\ q = Tail(inq)[i]
      <4> DEFINE t == Tail(inq)
                 h == Head(inq)
      <4>1. \A i \in DOMAIN inq : i = 1 \/ (i - 1 \in DOMAIN t /\ inq[i] = t[i - 1])
        BY <3>1
      <4>2. /\ h = inq[1] /\ 1 \in DOMAIN inq
            /\ \A i \in DOMAIN t : i + 1 \in DOMAIN inq /\ t[i] = inq[i + 1]
        BY <3>1, TailOf
      <4> HIDE DEF t, h
      <4> QED
        BY <4>1, <4>2
    <3>3. \A q : q \in OnTheWay'
            <=> \/ \E i \in DOMAIN Tail(inq) : Tail(inq)[i].kind = "answer" /\ q = Tail(inq)[i]
                \/ \E i \in DOMAIN resque : q = resque[i]
                \/ Head(inq).kind = "answer" /\ q = Head(inq)
      BY <3>1 DEF OnTheWay, AnswersIn
    <3>4. \A q : q \in OnTheWay' <=> q \in OnTheWay
      BY <3>1, <3>2, <3>3, OnTheWayIs
    <3> QED
      BY <3>4
  <2>3. CASE WorkerRead /\ CannotRead
    BY <2>3, CannotReadNot DEF WorkerRead, DeviceRead, OnTheWay, AnswersIn, deviceVars
  <2>4. CASE WorkerDispatch
    BY <2>4 DEF WorkerDispatch, NoPacket, OnTheWay, AnswersIn, deviceVars
  <2>5. CASE WorkerEnqueue
    <3>1. rcvp.kind = "answer" /\ worker = "enqueue"
      BY <2>5 DEF WorkerEnqueue, TypeInv, Sorted, Answers
    <3>2. resque = <<>>
      BY <3>1 DEF Token, Carrying
    <3>3. /\ resque' = <<rcvp>> /\ UNCHANGED inq
          /\ worker' \notin {"dispatch", "enqueue"}
      BY <2>5, <3>2 DEF WorkerEnqueue, deviceVars
    <3>4. {resque'[i] : i \in DOMAIN resque'} = {rcvp} /\ {resque[i] : i \in DOMAIN resque} = {}
      BY <3>2, <3>3
    <3> QED
      BY <3>1, <3>3, <3>4 DEF OnTheWay, AnswersIn
  <2> QED
    BY <2>1, <2>2, <2>3, <2>4, <2>5 DEF Worker, WorkerRead
<1> QED
  BY <1>0, <1>1, Quiet

LEMMA DeviceAnswersTakesEffect ==
  Inv /\ DeviceAnswers /\ UNCHANGED serviceVars => Simulated
<1> SUFFICES ASSUME Inv, DeviceAnswers, UNCHANGED serviceVars PROVE Simulated
  OBVIOUS
<1> USE DEF Inv
<1> DEFINE r == pckt[Main]
<1>1. /\ Head(outq) = r /\ outq # <<>> /\ outq' = <<>>
      /\ NowhereElse /\ pc[Main] = "await" /\ handle = "live"
  <2>1. outq # <<>> /\ outq' = Tail(outq)
    BY DEF DeviceAnswers
  <2>2. outq = <<r>> /\ NowhereElse /\ pc[Main] = "await" /\ handle = "live"
    BY <2>1 DEF Token
  <2> QED
    BY <2>1, <2>2
<1>2. PICK rc \in {"ok", "fail"} :
        /\ rc = "fail" => "refuse" \in Faults
        /\ store' = IF r.op = "set" /\ rc = "ok"
                      THEN [store EXCEPT ![r.att] = r.val] ELSE store
        /\ Arrive(Answer(r, rc)) \/ UNCHANGED inq
  BY <1>1 DEF DeviceAnswers
<1> DEFINE p == Answer(r, rc)
<1>3. r \in Requests /\ inq \in Seq(Packets) /\ store \in [Attrs -> Values]
  BY Constants DEF TypeInv, TypeOK, DeviceTypeOK, ServiceTypeOK
<1>4. p \in Packets /\ p.rc = rc
  BY <1>3 DEF Requests, Answer, Packets, Answers
<1>5. \A i \in DOMAIN inq' : inq'[i] = p \/ inq'[i].kind # "answer"
  <2>1. CASE UNCHANGED inq
    BY <1>1, <2>1 DEF NowhereElse, NoAnswers
  <2>2. CASE Arrive(p)
    <3>1. \A i \in DOMAIN inq' : inq'[i] = p \/ \E j \in DOMAIN inq : inq'[i] = inq[j]
      BY <1>3, <1>4, <2>2, ArriveIsArrived, ArrivedAnswers
    <3> QED
      BY <1>1, <3>1 DEF NowhereElse, NoAnswers
  <2> QED
    BY <1>2, <2>1, <2>2
<1>6. OnTheWay' \subseteq {p}
  BY <1>1, <1>5 DEF OnTheWay, AnswersIn, NowhereElse, Carrying, serviceVars
<1>7. /\ pc'[Main] = "await" /\ UNCHANGED <<handle, pckt, got>>
      /\ Status = "asked"
  BY <1>1 DEF DeviceAnswers, Status, serviceVars
<1>8. Status' \in IF rc = "ok" THEN {"granted", "lost"} ELSE {"refused", "lost"}
  BY <1>1, <1>2, <1>4, <1>6, <1>7 DEF Status, Granted
<1>9. Service!TakeEffect
  BY <1>1, <1>2, <1>7, <1>8 DEF Service!TakeEffect
<1> QED
  BY <1>9 DEF Simulated, Service!ServiceNext, Service!Device

LEMMA EnvironmentIsDevice == Inv /\ Environment /\ UNCHANGED serviceVars => Simulated
<1> SUFFICES ASSUME Inv, Environment, UNCHANGED serviceVars PROVE Simulated
  OBVIOUS
<1> USE DEF Inv
<1>1. CASE DeviceAnswers
  BY <1>1, DeviceAnswersTakesEffect
<1>2. CASE DeviceSpeaks
  <2>1. PICK p \in Unasked : Arrive(p)
    BY <1>2 DEF DeviceSpeaks, Unasked
  <2>2. p \in Packets /\ p.kind # "answer" /\ inq \in Seq(Packets)
    BY DeviceAssumption DEF Unasked, Packets, TypeInv, TypeOK, DeviceTypeOK
  <2>3. \A i \in DOMAIN inq' : inq'[i] = p \/ \E j \in DOMAIN inq : inq'[i] = inq[j]
    BY <2>1, <2>2, ArriveIsArrived, ArrivedAnswers
  <2>4. OnTheWay' \subseteq OnTheWay
    BY <2>2, <2>3 DEF OnTheWay, AnswersIn, serviceVars
  <2>5. OnTheWay' = OnTheWay \/ OnTheWay' = {}
    BY <2>4, OneOnTheWay
  <2> QED
    BY <1>2, <2>5, Quiet DEF DeviceSpeaks, serviceVars
<1>3. CASE Unplug
  <2>1. /\ "unplug" \in Faults /\ outq' = <<>> /\ UNCHANGED store
        /\ handle' = IF handle = "live" THEN "dead" ELSE handle
        /\ inq' = inq \/ inq' = <<>>
    BY <1>3 DEF Unplug
  <2>2. OnTheWay' \subseteq OnTheWay
    BY <2>1 DEF OnTheWay, AnswersIn, serviceVars
  <2>3. OnTheWay' = OnTheWay \/ OnTheWay' = {}
    BY <2>2, OneOnTheWay
  <2>4. outq # <<>> => OnTheWay = {}
    BY OneOnTheWay
  <2>5. Status' \in IF Status = "idle" THEN {Status} ELSE {Status, "lost"}
    BY <2>1, <2>2, <2>3, <2>4 DEF Status, Granted, serviceVars
  <2>6. Service!UnplugLink
    BY <2>1, <2>5 DEF Service!UnplugLink, serviceVars
  <2> QED
    BY <2>6 DEF Simulated, Service!ServiceNext, Service!Device
<1>4. CASE Replug
  <2>1. handle # "live" /\ store' \in [Attrs -> Values]
    BY <1>4 DEF Replug, Token
  <2>2. Status' = Status
    BY <1>4 DEF Replug, Status, Granted, OnTheWay, AnswersIn, serviceVars
  <2>3. Service!Swap
    BY <1>4, <2>1, <2>2 DEF Replug, Service!Swap, Service!callVars, serviceVars
  <2> QED
    BY <2>3 DEF Simulated, Service!ServiceNext, Service!Device
<1> QED
  BY <1>1, <1>2, <1>3, <1>4 DEF Environment

LEMMA StepIsSimulated ==
  ASSUME Callers = {Main} PROVE Inv /\ [Next]_vars => Simulated
<1> SUFFICES ASSUME Inv, [Next]_vars PROVE Simulated
  OBVIOUS
<1>1. CASE OpenPath \/ Close \/ KeepInfo \/ StartService \/ StopService \/ JoinWorker
  BY <1>1, QuietMain
<1>2. CASE OpenDevice \/ CloseDevice
  BY <1>2, OpenIsOpen, CloseIsClose
<1>3. CASE ReadInfo
  <2>1. next \in DOMAIN InfoAttrs
    BY DEF Inv, TypeInv, TypeOK
  <2> QED
    BY <1>3, <2>1, Constants, CallIsAsk DEF ReadInfo, ReadAttribute, Requests
<1>4. CASE Request(Main)
  BY <1>4, CallIsAsk DEF Request, ReadAttribute, WriteAttribute, Requests
<1>5. CASE Write(Main) \/ Dequeue(Main)
  BY <1>5, WriteIsQuiet, DequeueIsReturn
<1>6. CASE Worker
  BY <1>6, WorkerIsQuiet
<1>7. CASE Environment /\ UNCHANGED <<serviceVars, coreVars>>
  BY <1>7, EnvironmentIsDevice
<1>8. CASE UNCHANGED vars
  <2>1. OnTheWay' = OnTheWay
    BY <1>8 DEF OnTheWay, AnswersIn, vars, deviceVars, serviceVars
  <2> QED
    BY <1>8, <2>1, Quiet DEF vars, deviceVars, serviceVars
<1> QED
  BY <1>1, <1>2, <1>3, <1>4, <1>5, <1>6, <1>7, <1>8 DEF Next, MainStep

LEMMA InitIsSimulated == Init => Service!AttInit
<1> SUFFICES ASSUME Init PROVE Service!AttInit
  OBVIOUS
<1>1. /\ handle = "null" /\ store \in [Attrs -> Values] /\ pc[Main] = "idle"
      /\ pckt[Main] \in Requests /\ got[Main] = NoResult
  BY Constants DEF Init, DeviceInit, ServiceInit
<1> QED
  BY <1>1 DEF Service!AttInit, Status, Requests, Service!Requests, NoResult, Service!NoResult

(* TbiService, the queue, the worker and the device handle are together,   *)
(* to one calling thread, the service that AttributeService describes.     *)
THEOREM ImplementsServiceAlways ==
  ASSUME Callers = {Main} PROVE Spec => ImplementsService
<1>1. Inv /\ [Next]_vars => [Service!ServiceNext]_(Service!attVars)
  BY StepIsSimulated DEF Simulated
<1> QED
  BY <1>1, InitIsSimulated, InvHolds, PTL DEF Spec, ImplementsService, Service!ServiceSpec
=============================================================================

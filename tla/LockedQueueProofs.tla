------------------------- MODULE LockedQueueProofs -------------------------
(***************************************************************************)
(* Theorems about LockedQueue, for any finite set of threads, any items    *)
(* and any capacity.  Inv is the inductive invariant they rest on: mutual  *)
(* exclusion (Owner) is what keeps the predicate of the wait true until    *)
(* the deque is changed.                                                   *)
(***************************************************************************)
EXTENDS LockedQueue, FiniteSetTheorems, TLAPS

(* op names a call while a thread is in one. *)
InCall == \A t \in Threads : pc[t] # "idle" => op[t] \in Calls

(* The thread that holds m is the one between lock and unlock. *)
Owner == \A t \in Threads : pc[t] \in {"test", "body", "notify", "unlock"} <=> m = t

(* A thread in enqueue carries an item. *)
Carries == \A t \in Threads : op[t] = "enq" => arg[t] \in Items

Inv == TypeOK /\ InCall /\ Owner /\ Carries /\ PredicateHolds /\ Bounded

LEMMA InitInv == Init => Inv
BY QueueAssumption
   DEF Init, Inv, TypeOK, InCall, Owner, Carries, PredicateHolds, Bounded, Threads

LEMMA NextInv == Inv /\ [Next]_vars => Inv'
<1> SUFFICES ASSUME Inv, [Next]_vars PROVE Inv'
  OBVIOUS
<1> USE QueueAssumption
    DEF Inv, TypeOK, InCall, Owner, Carries, PredicateHolds, Bounded, Ready, Goto, Calls
<1>1. ASSUME NEW t \in Producers, NEW x \in Items, Enqueue(t, x) PROVE Inv'
  BY <1>1 DEF Enqueue, Threads
<1>2. ASSUME NEW t \in Consumers, Dequeue(t) PROVE Inv'
  BY <1>2 DEF Dequeue, Threads
<1>3. ASSUME NEW t \in Threads, Lock(t) PROVE Inv'
  BY <1>3 DEF Lock
<1>4. ASSUME NEW t \in Threads, Wait(t) PROVE Inv'
  BY <1>4 DEF Wait
<1>5. ASSUME NEW t \in Threads, Proceed(t) PROVE Inv'
  BY <1>5 DEF Proceed
<1>6. ASSUME NEW t \in Threads, PushBack(t) PROVE Inv'
  BY <1>6 DEF PushBack
<1>7. ASSUME NEW t \in Threads, PopFront(t) PROVE Inv'
  BY <1>7 DEF PopFront
<1>8. ASSUME NEW t \in Threads, NotifyOne(t) PROVE Inv'
  BY <1>8 DEF NotifyOne, Sleeping
<1>9. ASSUME NEW t \in Threads, Unlock(t) PROVE Inv'
  BY <1>9 DEF Unlock
<1>10. ASSUME NEW t \in Threads, SpuriousWakeup(t) PROVE Inv'
  BY <1>10 DEF SpuriousWakeup
<1>11. CASE UNCHANGED vars
  BY <1>11 DEF vars
<1> QED
  BY <1>1, <1>2, <1>3, <1>4, <1>5, <1>6, <1>7, <1>8, <1>9, <1>10, <1>11 DEF Next, Step

LEMMA InvHolds == Spec => []Inv
BY InitInv, NextInv, PTL DEF Spec

(* Every variable keeps its type. *)
THEOREM TypeCorrect == Spec => []TypeOK
BY InvHolds, PTL DEF Inv

(* LockedQueue::enqueue and dequeue touch the deque only while the         *)
(* predicate they waited for holds.                                        *)
THEOREM PredicateHoldsAlways == Spec => []PredicateHolds
BY InvHolds, PTL DEF Inv

(* The deque never holds more than capacity items. *)
THEOREM BoundedAlways == Spec => []Bounded
BY InvHolds, PTL DEF Inv
-----------------------------------------------------------------------------
(* The counting argument for NoLostWakeup. *)

LEMMA SetsFinite ==
  ASSUME NEW o
  PROVE  /\ IsFiniteSet(Looking(o)) /\ Cardinality(Looking(o)) \in Nat
         /\ IsFiniteSet(Notifying(o)) /\ Cardinality(Notifying(o)) \in Nat
<1>1. Looking(o) \subseteq Threads /\ Notifying(o) \subseteq Threads
  BY DEF Looking, Notifying
<1> QED
  BY <1>1, QueueAssumption, FS_Subset, FS_CardinalityType

(* The threads that look for o, and those that will notify them, change by *)
(* at most one thread in a step; so does their number.                     *)
LEMMA Grows ==
  ASSUME NEW S, IsFiniteSet(S), NEW t
  PROVE  /\ Cardinality(S \cup {t}) \in Nat
         /\ Cardinality(S \cup {t}) >= Cardinality(S)
         /\ t \notin S => Cardinality(S \cup {t}) = Cardinality(S) + 1
<1>1. Cardinality(S) \in Nat
  BY FS_CardinalityType
<1> QED
  BY <1>1, FS_AddElement

LEMMA Shrinks ==
  ASSUME NEW S, IsFiniteSet(S), NEW t
  PROVE  /\ Cardinality(S \ {t}) \in Nat
         /\ Cardinality(S \ {t}) >= Cardinality(S) - 1
<1>1. Cardinality(S) \in Nat /\ Cardinality(S \ {t}) \in Nat
  BY FS_CardinalityType, FS_RemoveElement
<1> QED
  BY <1>1, FS_RemoveElement

LEMMA NoLostWakeupStep ==
  Inv /\ NoLostWakeup /\ [Next]_vars => NoLostWakeup'
<1> SUFFICES ASSUME Inv, NoLostWakeup, [Next]_vars,
                    NEW o \in Calls, (Sleeping(o) # {})'
             PROVE  (Available(o) <= Cover(o))'
  BY DEF NoLostWakeup
<1> DEFINE L == Looking(o)
           N == Notifying(Other(o))
<1>0. /\ Available(o) \in Nat
      /\ IsFiniteSet(L) /\ Cardinality(L) \in Nat
      /\ IsFiniteSet(N) /\ Cardinality(N) \in Nat
      /\ Sleeping(o) # {} => Available(o) <= Cardinality(L) + Cardinality(N)
  BY SetsFinite, QueueAssumption
     DEF Inv, TypeOK, Bounded, Available, NoLostWakeup, Cover
<1>cover. Cover(o)' = Cardinality(L') + Cardinality(N')
  BY DEF Cover
<1> HIDE DEF L, N
<1>same. ASSUME L' = L \/ (\E t : L' = L \cup {t}), N' = N,
                UNCHANGED data, Sleeping(o) # {}
         PROVE  (Available(o) <= Cover(o))'
  <2>1. Available(o)' = Available(o)
    BY <1>same DEF Available
  <2>2. Cardinality(L') \in Nat /\ Cardinality(L') >= Cardinality(L)
    <3>1. CASE L' = L
      BY <1>0, <3>1
    <3>2. CASE \E t : L' = L \cup {t}
      BY <1>0, <3>2, Grows
    <3> QED
      BY <1>same, <3>1, <3>2
  <2> QED
    BY <1>same, <1>0, <1>cover, <2>1, <2>2
<1> USE DEF Inv, TypeOK, InCall, Calls, Goto
<1>1. ASSUME NEW t \in Producers, NEW x \in Items, Enqueue(t, x)
      PROVE  (Available(o) <= Cover(o))'
  <2>1. L' = L /\ N' = N /\ Sleeping(o)' = Sleeping(o)
    BY <1>1 DEF L, N, Looking, Notifying, Sleeping, Enqueue, Threads
  <2> QED
    BY <1>1, <1>same, <2>1 DEF Enqueue
<1>2. ASSUME NEW t \in Consumers, Dequeue(t)
      PROVE  (Available(o) <= Cover(o))'
  <2>1. L' = L /\ N' = N /\ Sleeping(o)' = Sleeping(o)
    BY <1>2 DEF L, N, Looking, Notifying, Sleeping, Dequeue, Threads
  <2> QED
    BY <1>2, <1>same, <2>1 DEF Dequeue
<1>3. ASSUME NEW t \in Threads, Lock(t)
      PROVE  (Available(o) <= Cover(o))'
  <2>1. L' \in {L, L \cup {t}} /\ N' = N /\ Sleeping(o)' = Sleeping(o)
    BY <1>3 DEF L, N, Looking, Notifying, Sleeping, Lock
  <2> QED
    BY <1>3, <1>same, <2>1 DEF Lock
<1>4. ASSUME NEW t \in Threads, Wait(t)
      PROVE  (Available(o) <= Cover(o))'
  <2>1. CASE op[t] = o
    <3>1. Available(o)' = 0
      BY <1>4, <2>1, QueueAssumption DEF Wait, Ready, Available, Bounded
    <3>2. Cover(o)' \in Nat
      BY <1>4, QueueAssumption, FS_Subset, FS_CardinalityType DEF Cover, Looking, Notifying
    <3> QED
      BY <3>1, <3>2
  <2>2. CASE op[t] # o
    <3>1. L' = L /\ N' = N /\ Sleeping(o)' = Sleeping(o)
      BY <1>4, <2>2 DEF L, N, Looking, Notifying, Sleeping, Wait
    <3> QED
      BY <1>4, <1>same, <3>1 DEF Wait
  <2> QED
    BY <2>1, <2>2
<1>5. ASSUME NEW t \in Threads, Proceed(t)
      PROVE  (Available(o) <= Cover(o))'
  <2>1. L' = L /\ N' = N /\ Sleeping(o)' = Sleeping(o)
    BY <1>5 DEF L, N, Looking, Notifying, Sleeping, Proceed
  <2> QED
    BY <1>5, <1>same, <2>1 DEF Proceed
<1>6. ASSUME NEW t \in Threads, PushBack(t) \/ PopFront(t)
      PROVE  (Available(o) <= Cover(o))'
  <2>0. Sleeping(o)' = Sleeping(o)
    BY <1>6 DEF Sleeping, PushBack, PopFront
  <2>1. CASE op[t] = o
    <3>1. L' = L \ {t} /\ N' = N
      BY <1>6, <2>1 DEF L, N, Looking, Notifying, PushBack, PopFront, Other
    <3>2. Available(o)' = Available(o) - 1
      BY <1>6, <2>1, QueueAssumption
         DEF PushBack, PopFront, Available, PredicateHolds, Ready, Bounded
    <3>3. Cardinality(L') \in Nat /\ Cardinality(L') >= Cardinality(L) - 1
      BY <1>0, <3>1, Shrinks
    <3> QED
      BY <1>0, <1>cover, <2>0, <3>1, <3>2, <3>3
  <2>2. CASE op[t] # o
    <3>1. L' = L /\ N' = N \cup {t} /\ t \notin N
      BY <1>6, <2>2 DEF L, N, Looking, Notifying, PushBack, PopFront, Other
    <3>2. Available(o)' = Available(o) + 1
      BY <1>6, <2>2, QueueAssumption
         DEF PushBack, PopFront, Available, PredicateHolds, Ready, Bounded
    <3>3. Cardinality(N') = Cardinality(N) + 1
      BY <1>0, <3>1, Grows
    <3> QED
      BY <1>0, <1>cover, <2>0, <3>1, <3>2, <3>3
  <2> QED
    BY <2>1, <2>2
<1>7. ASSUME NEW t \in Threads, NotifyOne(t)
      PROVE  (Available(o) <= Cover(o))'
  <2>1. CASE op[t] = o
    <3>1. L' = L /\ N' = N /\ Sleeping(o)' = Sleeping(o)
      BY <1>7, <2>1 DEF L, N, Looking, Notifying, Sleeping, NotifyOne, Other
    <3> QED
      BY <1>7, <1>same, <3>1 DEF NotifyOne
  <2>2. CASE op[t] # o
    <3>1. o = Other(op[t])
      BY <1>7, <2>2 DEF NotifyOne, Other
    <3>2. PICK s \in Sleeping(o) : pc' = [pc EXCEPT ![t] = "unlock", ![s] = "woken"]
      BY <1>7, <3>1 DEF NotifyOne, Sleeping
    <3>3. L' = L \cup {s} /\ s \notin L /\ N' = N \ {t}
      BY <1>7, <2>2, <3>2 DEF L, N, Looking, Notifying, Sleeping, NotifyOne, Other
    <3>4. Available(o)' = Available(o) /\ Sleeping(o) # {}
      BY <1>7, <3>2 DEF Available, NotifyOne
    <3>5. Cardinality(L') = Cardinality(L) + 1
      BY <1>0, <3>3, Grows
    <3>6. Cardinality(N') \in Nat /\ Cardinality(N') >= Cardinality(N) - 1
      BY <1>0, <3>3, Shrinks
    <3> QED
      BY <1>0, <1>cover, <3>4, <3>5, <3>6
  <2> QED
    BY <2>1, <2>2
<1>8. ASSUME NEW t \in Threads, Unlock(t)
      PROVE  (Available(o) <= Cover(o))'
  <2>1. L' = L /\ N' = N /\ Sleeping(o)' = Sleeping(o)
    BY <1>8 DEF L, N, Looking, Notifying, Sleeping, Unlock
  <2> QED
    BY <1>8, <1>same, <2>1 DEF Unlock
<1>9. ASSUME NEW t \in Threads, SpuriousWakeup(t)
      PROVE  (Available(o) <= Cover(o))'
  <2>1. /\ L' \in {L, L \cup {t}} /\ N' = N
        /\ Sleeping(o) # {}
    BY <1>9 DEF L, N, Looking, Notifying, Sleeping, SpuriousWakeup
  <2> QED
    BY <1>9, <1>same, <2>1 DEF SpuriousWakeup
<1>10. CASE UNCHANGED vars
  <2>1. L' = L /\ N' = N /\ Sleeping(o)' = Sleeping(o)
    BY <1>10 DEF L, N, Looking, Notifying, Sleeping, vars
  <2> QED
    BY <1>10, <1>same, <2>1 DEF vars
<1> QED
  BY <1>1, <1>2, <1>3, <1>4, <1>5, <1>6, <1>7, <1>8, <1>9, <1>10 DEF Next, Step

(* No thread sleeps for an item that is there, nor for room that is there, *)
(* unless somebody who is awake will see to it.                            *)
THEOREM NoLostWakeupAlways == Spec => []NoLostWakeup
<1>1. Init => NoLostWakeup
  BY DEF Init, NoLostWakeup, Sleeping
<1> QED
  BY <1>1, InvHolds, NoLostWakeupStep, PTL DEF Spec
-----------------------------------------------------------------------------
(* LockedQueue implements the atomic bounded buffer: PushBack is its Put,  *)
(* PopFront its Take, and the locking, waiting and notifying around them   *)
(* is not seen.                                                            *)
LEMMA FifoInit == Init => Fifo!Init
BY DEF Init, Fifo!Init, Status, Fifo!Threads, Threads

LEMMA FifoStep == Inv /\ [Next]_vars => [Fifo!Next]_(Fifo!vars)
<1> SUFFICES ASSUME Inv, [Next]_vars PROVE [Fifo!Next]_(Fifo!vars)
  OBVIOUS
<1> USE DEF Inv, TypeOK, InCall, Calls, Goto
<1>0. Fifo!Threads = Threads
  BY DEF Fifo!Threads, Threads
<1> DEFINE Unseen == Status' = Status /\ UNCHANGED <<data, arg>>
<1>1. ASSUME NEW t \in Producers, NEW x \in Items, Enqueue(t, x)
      PROVE  Fifo!CallEnqueue(t, x)
  BY <1>1 DEF Enqueue, Fifo!CallEnqueue, Status, Threads
<1>2. ASSUME NEW t \in Consumers, Dequeue(t) PROVE Fifo!CallDequeue(t)
  BY <1>2 DEF Dequeue, Fifo!CallDequeue, Status, Threads
<1>3. ASSUME NEW t \in Threads, Lock(t) \/ Wait(t) \/ Proceed(t) PROVE Unseen
  BY <1>3 DEF Lock, Wait, Proceed, Status
<1>4. ASSUME NEW t \in Threads, PushBack(t) PROVE Fifo!Put(t)
  <2>1. Len(data) < Capacity
    BY <1>4, QueueAssumption DEF PushBack, PredicateHolds, Bounded, Ready
  <2> QED
    BY <1>4, <2>1 DEF PushBack, Fifo!Put, Status
<1>5. ASSUME NEW t \in Threads, PopFront(t) PROVE Fifo!Take(t)
  <2>1. data # <<>>
    BY <1>5 DEF PopFront, PredicateHolds, Ready
  <2> QED
    BY <1>5, <2>1 DEF PopFront, Fifo!Take, Status
<1>6. ASSUME NEW t \in Threads, NotifyOne(t) PROVE Unseen
  BY <1>6 DEF NotifyOne, Status, Sleeping
<1>7. ASSUME NEW t \in Threads, Unlock(t) PROVE Fifo!Return(t)
  BY <1>7 DEF Unlock, Fifo!Return, Status
<1>8. ASSUME NEW t \in Threads, SpuriousWakeup(t) PROVE Unseen
  BY <1>8 DEF SpuriousWakeup, Status
<1>9. ASSUME UNCHANGED vars PROVE Unseen
  BY <1>9 DEF vars, Status
<1> QED
  BY <1>0, <1>1, <1>2, <1>3, <1>4, <1>5, <1>6, <1>7, <1>8, <1>9
     DEF Next, Step, Fifo!Next, Fifo!vars

THEOREM ImplementsFifo == Spec => FifoSpec
BY FifoInit, FifoStep, InvHolds, PTL DEF Spec, FifoSpec, Fifo!Spec
=============================================================================

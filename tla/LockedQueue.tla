---------------------------- MODULE LockedQueue ----------------------------
(***************************************************************************)
(* struct LockedQueue of include/tbi_service.h, through which the worker   *)
(* thread of a TbiService hands responses to the threads that wait for     *)
(* them: a deque guarded by the mutex m and two condition variables, c_enq *)
(* for the threads that wait for room and c_deq for those that wait for an *)
(* item.                                                                   *)
(*                                                                         *)
(* enqueue and dequeue have one shape: lock m ("lock"), test the predicate *)
(* of the wait ("test"), sleep while it is false ("asleep") or else change *)
(* the deque ("body"), notify_one the other side's variable ("notify") and *)
(* unlock ("unlock").  A wait releases m and falls asleep in one step; a   *)
(* thread that is woken ("woken") must lock m again before it tests again. *)
(* Nothing but m keeps another thread out between the test and the body.   *)
(***************************************************************************)
EXTENDS Naturals, Sequences, FiniteSets

CONSTANTS Producers, Consumers, Items, Capacity, None

Threads == Producers \cup Consumers

ASSUME QueueAssumption == /\ IsFiniteSet(Threads)
                          /\ Capacity \in Nat \ {0}
                          /\ None \notin Threads
                          /\ None \notin Items

VARIABLES data,  \* the deque
          m,     \* the thread that holds the mutex, or None
          op,    \* the call each thread is in
          pc,    \* the step it is at
          arg    \* the item it enqueues, or dequeued

vars == <<data, m, op, pc, arg>>

Init == /\ data = <<>>
        /\ m = None
        /\ op = [t \in Threads |-> "none"]
        /\ pc = [t \in Threads |-> "idle"]
        /\ arg = [t \in Threads |-> None]

(* The threads asleep on the condition variable of call o: c_enq for "enq", *)
(* c_deq for "deq".                                                        *)
Sleeping(o) == {t \in Threads : pc[t] = "asleep" /\ op[t] = o}
Other(o)    == IF o = "enq" THEN "deq" ELSE "enq"

(* Wrong (for Bounded): the limit is off by one. *)
ReadyOneTooMany(o) == IF o = "enq" THEN Len(data) # Capacity + 1 ELSE data # <<>>

(* The predicates of the two waits. *)
Ready(o) == IF o = "enq" THEN Len(data) # Capacity ELSE data # <<>>

Goto(t, l) == pc' = [pc EXCEPT ![t] = l]
-----------------------------------------------------------------------------
Enqueue(t, x) == /\ pc[t] = "idle"
                 /\ Goto(t, "lock")
                 /\ op' = [op EXCEPT ![t] = "enq"]
                 /\ arg' = [arg EXCEPT ![t] = x]
                 /\ UNCHANGED <<data, m>>

Dequeue(t) == /\ pc[t] = "idle"
              /\ Goto(t, "lock")
              /\ op' = [op EXCEPT ![t] = "deq"]
              /\ arg' = [arg EXCEPT ![t] = None]
              /\ UNCHANGED <<data, m>>

(* Wrong (for PredicateHolds): a woken thread does not test again, as with *)
(* an "if" instead of the loop inside wait.                                *)
LockWithoutRetest(t) == /\ pc[t] \in {"lock", "woken"}
                        /\ m = None
                        /\ m' = t
                        /\ Goto(t, IF pc[t] = "woken" THEN "body" ELSE "test")
                        /\ UNCHANGED <<data, op, arg>>

Lock(t) == /\ pc[t] \in {"lock", "woken"}
           /\ m = None
           /\ m' = t
           /\ Goto(t, "test")
           /\ UNCHANGED <<data, op, arg>>

Wait(t) == /\ pc[t] = "test"
           /\ ~Ready(op[t])
           /\ m' = None
           /\ Goto(t, "asleep")
           /\ UNCHANGED <<data, op, arg>>

Proceed(t) == /\ pc[t] = "test"
              /\ Ready(op[t])
              /\ Goto(t, "body")
              /\ UNCHANGED <<data, m, op, arg>>

(* Wrong (for TypeOK): queues what is left of an item once it was moved. *)
PushMovedFrom(t) == /\ pc[t] = "body"
                    /\ op[t] = "enq"
                    /\ data' = Append(data, None)
                    /\ Goto(t, "notify")
                    /\ UNCHANGED <<m, op, arg>>

PushBack(t) == /\ pc[t] = "body"
               /\ op[t] = "enq"
               /\ data' = Append(data, arg[t])
               /\ Goto(t, "notify")
               /\ UNCHANGED <<m, op, arg>>

(* Wrong (for FifoSpec): takes the newest item. *)
PopBack(t) == /\ pc[t] = "body"
              /\ op[t] = "deq"
              /\ arg' = [arg EXCEPT ![t] = data[Len(data)]]
              /\ data' = SubSeq(data, 1, Len(data) - 1)
              /\ Goto(t, "notify")
              /\ UNCHANGED <<m, op>>

PopFront(t) == /\ pc[t] = "body"
               /\ op[t] = "deq"
               /\ arg' = [arg EXCEPT ![t] = Head(data)]
               /\ data' = Tail(data)
               /\ Goto(t, "notify")
               /\ UNCHANGED <<m, op>>

(* Wrong (for NoLostWakeup): notifies only when the deque stops being empty *)
(* or full.                                                                 *)
NotifyFirst(t) == /\ pc[t] = "notify"
                  /\ LET edge == IF op[t] = "enq" THEN 1 ELSE Capacity - 1
                         others == IF Len(data) = edge THEN Sleeping(Other(op[t])) ELSE {}
                     IN \/ others = {} /\ Goto(t, "unlock")
                        \/ \E s \in others : pc' = [pc EXCEPT ![t] = "unlock", ![s] = "woken"]
                  /\ UNCHANGED <<data, m, op, arg>>

(* Wrong (for FifoProgress): notifies the caller's own condition variable. *)
NotifyOwnSide(t) == /\ pc[t] = "notify"
                    /\ \/ Sleeping(op[t]) = {} /\ Goto(t, "unlock")
                       \/ \E s \in Sleeping(op[t]) :
                            pc' = [pc EXCEPT ![t] = "unlock", ![s] = "woken"]
                    /\ UNCHANGED <<data, m, op, arg>>

(* notify_one on the other side's variable: wakes one of its sleepers, any *)
(* of them, and is forgotten if there is none.                             *)
NotifyOne(t) == /\ pc[t] = "notify"
                /\ \/ /\ Sleeping(Other(op[t])) = {}
                      /\ Goto(t, "unlock")
                   \/ \E s \in Sleeping(Other(op[t])) :
                         pc' = [pc EXCEPT ![t] = "unlock", ![s] = "woken"]
                /\ UNCHANGED <<data, m, op, arg>>

Unlock(t) == /\ pc[t] = "unlock"
             /\ m' = None
             /\ Goto(t, "idle")
             /\ op' = [op EXCEPT ![t] = "none"]
             /\ UNCHANGED <<data, arg>>

(* A condition variable may wake a thread that nobody notified. *)
SpuriousWakeup(t) == /\ pc[t] = "asleep"
                     /\ Goto(t, "woken")
                     /\ UNCHANGED <<data, m, op, arg>>

Step(t) == \/ Wait(t) \/ Proceed(t) \/ PushBack(t) \/ PopFront(t)
           \/ NotifyOne(t) \/ Unlock(t)

Next == \/ \E t \in Producers, x \in Items : Enqueue(t, x)
        \/ \E t \in Consumers : Dequeue(t)
        \/ \E t \in Threads : Lock(t) \/ Step(t) \/ SpuriousWakeup(t)

(* A thread that holds m runs on; m is not withheld for ever from a thread *)
(* that keeps asking for it.  Nobody has to call.                          *)
Fairness == \A t \in Threads : WF_vars(Step(t)) /\ SF_vars(Lock(t))

Spec     == Init /\ [][Next]_vars
FairSpec == Spec /\ Fairness
-----------------------------------------------------------------------------
TypeOK == /\ data \in Seq(Items)
          /\ m \in Threads \cup {None}
          /\ op \in [Threads -> {"none", "enq", "deq"}]
          /\ pc \in [Threads -> {"idle", "lock", "test", "asleep", "woken",
                                 "body", "notify", "unlock"}]
          /\ arg \in [Threads -> Items \cup {None}]

(* What the wait's predicate said is still so when the deque is changed:   *)
(* no pop_front on an empty deque, no push_back on a full one, whatever    *)
(* other threads did between the test and the body.                        *)
PredicateHolds == \A t \in Threads : pc[t] = "body" => Ready(op[t])

(* The deque never outgrows the capacity, although the predicate of the    *)
(* wait in enqueue only tests size() != capacity: one item too many and no *)
(* enqueue would ever wait again.                                          *)
Bounded == Len(data) <= Capacity

(* No wakeup is lost: while somebody sleeps for an item, every item in the *)
(* deque has a thread that will look at it before it sleeps, or one whose  *)
(* notify_one is still to come; and the same for somebody who sleeps for   *)
(* room.  A missing, misdirected or conditional notify_one breaks it.      *)
Calls        == {"enq", "deq"}
Available(o) == IF o = "enq" THEN Capacity - Len(data) ELSE Len(data)
Looking(o)   == {t \in Threads : pc[t] \in {"woken", "test", "body"} /\ op[t] = o}
Notifying(o) == {t \in Threads : pc[t] = "notify" /\ op[t] = o}
Cover(o)     == Cardinality(Looking(o)) + Cardinality(Notifying(Other(o)))

NoLostWakeup == \A o \in Calls : Sleeping(o) # {} => Available(o) <= Cover(o)

(* LockedQueue implements BoundedFifo: a call takes effect when the deque  *)
(* changes.                                                                *)
Status == [t \in Threads |-> CASE pc[t] = "idle" -> "idle"
                               [] pc[t] \in {"notify", "unlock"} -> "ret"
                               [] OTHER -> op[t]]

Fifo == INSTANCE BoundedFifo WITH fifo <- data, status <- Status

FifoSpec     == Fifo!Spec
FifoProgress == Fifo!Progress
=============================================================================

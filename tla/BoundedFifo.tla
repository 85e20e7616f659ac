---------------------------- MODULE BoundedFifo ----------------------------
(***************************************************************************)
(* What LockedQueue (include/tbi_service.h) promises to the threads that   *)
(* call it: a first-in first-out buffer of at most Capacity items, whose   *)
(* enqueue and dequeue each take effect in one atomic step between the     *)
(* call and the return, and which block while they cannot take effect.     *)
(* Nothing here knows of the mutex and the two condition variables.        *)
(***************************************************************************)
EXTENDS Naturals, Sequences

CONSTANTS Producers,   \* the threads that may call enqueue
          Consumers,   \* the threads that may call dequeue
          Items,       \* what is queued (tbiPacket in the SDK)
          Capacity,    \* the constructor's argument
          None         \* "no item yet"

Threads == Producers \cup Consumers

VARIABLES fifo,    \* the items held, oldest first
          status,  \* where each thread is in its call
          arg      \* the item it passes to enqueue, or was given by dequeue

vars == <<fifo, status, arg>>

Init == /\ fifo = <<>>
        /\ status = [t \in Threads |-> "idle"]
        /\ arg = [t \in Threads |-> None]

CallEnqueue(t, x) == /\ status[t] = "idle"
                     /\ status' = [status EXCEPT ![t] = "enq"]
                     /\ arg' = [arg EXCEPT ![t] = x]
                     /\ UNCHANGED fifo

CallDequeue(t) == /\ status[t] = "idle"
                  /\ status' = [status EXCEPT ![t] = "deq"]
                  /\ arg' = [arg EXCEPT ![t] = None]
                  /\ UNCHANGED fifo

Put(t) == /\ status[t] = "enq"
          /\ Len(fifo) < Capacity
          /\ fifo' = Append(fifo, arg[t])
          /\ status' = [status EXCEPT ![t] = "ret"]
          /\ UNCHANGED arg

Take(t) == /\ status[t] = "deq"
           /\ fifo # <<>>
           /\ arg' = [arg EXCEPT ![t] = Head(fifo)]
           /\ fifo' = Tail(fifo)
           /\ status' = [status EXCEPT ![t] = "ret"]

Return(t) == /\ status[t] = "ret"
             /\ status' = [status EXCEPT ![t] = "idle"]
             /\ UNCHANGED <<fifo, arg>>

Next == \/ \E t \in Producers, x \in Items : CallEnqueue(t, x)
        \/ \E t \in Consumers : CallDequeue(t)
        \/ \E t \in Threads : Put(t) \/ Take(t) \/ Return(t)

Spec == Init /\ [][Next]_vars
-----------------------------------------------------------------------------
CanPut  == Len(fifo) < Capacity /\ \E t \in Threads : status[t] = "enq"
CanTake == fifo # <<>> /\ \E t \in Threads : status[t] = "deq"

(* The buffer never sits on an item that somebody waits for, nor on room   *)
(* that somebody waits for: infinitely often nobody could be served, or    *)
(* somebody is served infinitely often.  Which of the waiting threads is   *)
(* served is not promised.                                                 *)
Progress == /\ []<>(~CanTake) \/ []<><<\E t \in Threads : Take(t)>>_vars
            /\ []<>(~CanPut)  \/ []<><<\E t \in Threads : Put(t)>>_vars
=============================================================================

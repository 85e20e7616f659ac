----------------------------- MODULE HidHandle -----------------------------
(***************************************************************************)
(* What an open hid_device promises to the program that reads it           *)
(* (src/include/hidapi.h): reports are kept up to a bound and handed out   *)
(* in the order they came, each once; nothing is dropped while there is    *)
(* room, also not by a read that timed out; a blocking read returns a      *)
(* report or an error, and an error is only reported when the device is    *)
(* unplugged or I/O with it has failed.  Reports are numbered in the order *)
(* the device sends them; where report ids have queues of their own the    *)
(* order is kept between the reports of one id.                            *)
(***************************************************************************)
EXTENDS Integers, FiniteSets

CONSTANT Limit

VARIABLES
  ids,        \* how many report ids have a queue of their own
  broken,     \* the device is unplugged, or I/O with it has failed
  connected,  \* the device is being opened or is open
  sent,       \* the reports 1 .. sent have been received since then
  held,       \* those that wait for a read
  reading,    \* the time limit of the read in progress, "none" without one
  result      \* of the last read: a report, 0 for no report, -1 for an error

handleVars == <<ids, broken, connected, sent, held, reading, result>>

Id(r) == r % ids

Init == /\ ids > 0 /\ broken = FALSE /\ connected = FALSE
        /\ sent = 0 /\ held = {}
        /\ reading = "none" /\ result = 0

Unplug == broken' = TRUE /\ UNCHANGED <<connected, sent, held, reading, result>>

Plug == /\ ~connected /\ broken' = FALSE
        /\ UNCHANGED <<connected, sent, held, reading, result>>

Connect == /\ ~connected /\ connected' = TRUE
           /\ sent' = 0 /\ held' = {}
           /\ UNCHANGED <<broken, reading, result>>

Receive == /\ connected /\ sent' = sent + 1
           /\ IF Cardinality(held) < Limit
              THEN held' = held \cup {sent'}
              ELSE \E r \in held \cup {sent'} : held' = (held \cup {sent'}) \ {r}
           /\ UNCHANGED <<broken, connected, reading, result>>

Read(wait) == /\ connected /\ reading = "none" /\ reading' = wait
              /\ UNCHANGED <<broken, connected, sent, held, result>>

Data == /\ reading # "none" /\ reading' = "none"
        /\ result' \in held /\ held' = held \ {result'}
        /\ \A r \in held' : Id(r) = Id(result') => r > result'
        /\ UNCHANGED <<broken, connected, sent>>

Nothing == /\ reading \in {"time", "poll"} /\ reading' = "none"
           /\ result' = 0
           /\ UNCHANGED <<broken, connected, sent, held>>

Fail == /\ reading # "none" /\ reading' = "none"
        /\ broken /\ result' = -1
        /\ UNCHANGED <<broken, connected, sent, held>>

Disconnect == /\ connected /\ reading = "none" /\ connected' = FALSE
              /\ sent' = 0 /\ held' = {}
              /\ UNCHANGED <<broken, reading, result>>

Step == \/ Unplug \/ Plug \/ Connect \/ Receive \/ Data \/ Nothing \/ Fail \/ Disconnect
        \/ \E wait \in {"block", "time", "poll"} : Read(wait)

Next == Step /\ UNCHANGED ids

Spec == Init /\ [][Next]_handleVars
=============================================================================

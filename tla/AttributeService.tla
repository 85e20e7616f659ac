-------------------------- MODULE AttributeService --------------------------
(***************************************************************************)
(* What readAttribute and writeAttribute (src/tbi_service.cpp) promise to  *)
(* an application with one calling thread: a request takes effect on the   *)
(* device at most once, between the call and the return; the call returns  *)
(* what the device made of it, and if that is lost it does not return.     *)
(* Nothing here knows of queues, reports and the worker.                   *)
(*                                                                         *)
(* The modules of the classes that are built on TbiService use these       *)
(* actions; TbiCore is shown to implement ServiceSpec.                     *)
(***************************************************************************)

CONSTANTS Attrs, Values, Nothing, Faults,
          Contents   \* what a device may hold when it is opened

VARIABLES link,    \* "null": not open; "live"; "dead": open, the device gone
          store,   \* the attributes of the device, or of the next one
          status,  \* of the call: "idle", "asked", "granted", "refused", "lost"
          req,     \* the request that is made
          got      \* what the last call returned

linkVars == <<link, store>>
callVars == <<status, req, got>>
attVars  == <<link, store, status, req, got>>

Requests == [op : {"get"}, att : Attrs, val : {Nothing}]
              \cup [op : {"set"}, att : Attrs, val : Values]

Get(a)    == [op |-> "get", att |-> a, val |-> Nothing]
Set(a, v) == [op |-> "set", att |-> a, val |-> v]

NoResult == [rc |-> "none", val |-> Nothing]
Failed   == [rc |-> "fail", val |-> Nothing]

AttInit == /\ link = "null"
           /\ store \in Contents
           /\ status = "idle"
           /\ req \in Requests
           /\ got = NoResult
-----------------------------------------------------------------------------
(* The calling thread. *)

OpenLink == /\ link = "null"
            /\ link' = "live"
            /\ UNCHANGED <<store, callVars>>

CloseLink == /\ status = "idle"
             /\ link' = "null"
             /\ UNCHANGED <<store, callVars>>

(* Fails at once if there is no handle. *)
Ask(r) == /\ status = "idle"
          /\ req' = r
          /\ IF link = "null" THEN got' = Failed /\ UNCHANGED status
                              ELSE got' = NoResult /\ status' = "asked"
          /\ UNCHANGED linkVars

Answered == \/ /\ status = "granted"
               /\ \E v \in Values :
                    /\ got' = [rc |-> "ok", val |-> v]
                    /\ link = "live" \/ req.op = "set"
                         => v = IF req.op = "get" THEN store[req.att] ELSE req.val
            \/ /\ status = "refused"
               /\ got' = Failed

Return == /\ Answered
          /\ status' = "idle"
          /\ UNCHANGED <<linkVars, req>>
-----------------------------------------------------------------------------
(* The device and the cable. *)

TakeEffect == /\ status = "asked" /\ link = "live"
              /\ \/ /\ store' = IF req.op = "set"
                                  THEN [store EXCEPT ![req.att] = req.val] ELSE store
                    /\ status' \in {"granted", "lost"}
                 \/ /\ "refuse" \in Faults
                    /\ status' \in {"refused", "lost"}
                    /\ UNCHANGED store
              /\ UNCHANGED <<link, req, got>>

Lose == /\ status \in {"asked", "granted", "refused"}
        /\ status' = "lost"
        /\ UNCHANGED <<linkVars, req, got>>

UnplugLink == /\ "unplug" \in Faults
              /\ link' = IF link = "live" THEN "dead" ELSE link
              /\ status' \in IF status = "idle" THEN {status} ELSE {status, "lost"}
              /\ UNCHANGED <<store, req, got>>

(* Another device, that holds other attributes, will be opened next. *)
Swap == /\ link # "live"
        /\ store' \in Contents
        /\ UNCHANGED <<link, callVars>>

Device == TakeEffect \/ Lose \/ UnplugLink \/ Swap

ServiceNext == \/ OpenLink \/ CloseLink \/ Return \/ Device
               \/ \E r \in Requests : Ask(r)

ServiceSpec == AttInit /\ [][ServiceNext]_attVars
=============================================================================

---------------------------- MODULE TbiRefinement ----------------------------
(***************************************************************************)
(* TbiCore implements AttributeService for one calling thread, Main: a     *)
(* call is "asked" until the device answers, and then "granted" or         *)
(* "refused" as long as the answer is somewhere on its way: in hidapi's    *)
(* ring, in the worker's hands, or in resque.                              *)
(***************************************************************************)
EXTENDS TbiCore

OnTheWay == {inq[i] : i \in AnswersIn(inq)} \cup {resque[i] : i \in DOMAIN resque}
              \cup (IF worker \in {"dispatch", "enqueue"} /\ rcvp.kind = "answer"
                      THEN {rcvp} ELSE {})

Granted == \E p \in OnTheWay : p.rc = "ok"

Status == IF pc[Main] = "idle" THEN "idle"
          ELSE IF pc[Main] = "write" \/ outq # <<>> THEN "asked"
          ELSE IF Granted THEN "granted"
          ELSE IF OnTheWay # {} THEN "refused"
          ELSE "lost"

Service == INSTANCE AttributeService
             WITH Contents <- [Attrs -> Values], link <- handle, status <- Status,
                  req <- pckt[Main], got <- got[Main]

(* The whole stack of queue, worker, device handle and hidapi is, to one   *)
(* calling thread, the service of AttributeService: no request takes       *)
(* effect twice or after its call has returned, no call returns before the *)
(* device has decided or with anything else than what it decided, whatever *)
(* is lost, refused, unplugged or sent unasked in between.                 *)
ImplementsService == Service!ServiceSpec
=============================================================================

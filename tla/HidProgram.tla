----------------------------- MODULE HidProgram -----------------------------
(***************************************************************************)
(* The parts of hidapi that share no state, each used by a program of its  *)
(* own: an open hid_device with its threads, the list of devices, the      *)
(* descriptor of one, and the data of one report.                          *)
(***************************************************************************)
EXTENDS Hidapi, HidEnumeration, HidReports

VARIABLE part  \* "handle", "devices", "descriptor" or "report"

vars == <<part, hidVars, enumVars, blocks, reportVars>>

Systems == {"libusb", "mac", "linux", "netbsd", "windows"}

NoTransfer == /\ io = [os |-> "linux", function |-> "hid_read", ids |-> {0}, data |-> <<>>, report |-> <<0>>]
              /\ pending = FALSE /\ got = <<>> /\ buffer = <<>> /\ returned = 0

Init == /\ part \in {"handle", "devices", "descriptor", "report"}
        /\ HandleInit /\ (part # "handle" => backend = "linux")
        /\ EnumInit /\ system \in IF part = "devices" THEN Systems ELSE {"linux"}
        /\ ParserInit
        /\ IF part = "report" THEN ReportsInit ELSE NoTransfer

Next ==
  \/ part = "handle" /\ HandleNext /\ UNCHANGED <<part, enumVars, blocks, reportVars>>
  \/ part = "devices" /\ EnumNext /\ UNCHANGED <<part, hidVars, blocks, reportVars>>
  \/ part = "descriptor" /\ AddBlock /\ UNCHANGED <<part, hidVars, enumVars, reportVars>>
  \/ part = "report" /\ Transfer /\ UNCHANGED <<part, hidVars, enumVars, blocks>>

Spec == Init /\ [][Next]_vars

FairSpec == Spec /\ HandleFairness
=============================================================================

------------------------------ MODULE UsbPorts ------------------------------
(***************************************************************************)
(* Chopper (src/chopper.cpp), a USB hub that switches its ports: open      *)
(* reads the mask of enabled ports once, and every later operation changes *)
(* the copy and writes all of it.  Port p is bit p - 1 of the mask.        *)
(***************************************************************************)
EXTENDS Operation

CONSTANT Ports   \* the port numbers that are passed, good and bad ones

ASSUME PortsAssumption == Ports \subseteq Nat /\ "ctrl" \in Attrs
-----------------------------------------------------------------------------
(* Wrong (for MaskIsTheDevices): keeps the mask of an earlier hub. *)
OpenOnly == /\ at = "idle"
            /\ OpenLink
            /\ UNCHANGED <<copy, call, at, out>>

OpenHub == /\ Call("open", 0, {})
           /\ OpenLink
           /\ at' = "opened"
           /\ UNCHANGED <<copy, out>>

FetchMask == /\ After("opened")
             /\ Fetch("ctrl", "readMask")
             /\ UNCHANGED <<copy, call>>

GetUsbPortStatus == /\ Call("status", 0, {})
                    /\ Fetch("ctrl", "readMask")
                    /\ UNCHANGED copy

(* open does not look at the outcome, getUsbPortStatus returns nothing     *)
(* else.                                                                   *)
MaskRead == /\ After("readMask")
            /\ End(call.op = "status" /\ ~Accepted, {})
            /\ Keep("ctrl", IF Accepted THEN got.val ELSE copy["ctrl"])

(* The copy changes first, whatever then becomes of the request. *)
SendMask(m) == Keep("ctrl", m) /\ Send("ctrl", m, "writeMask")

IsPort(p) == p \in 1 .. Width

RejectPort(p) == /\ ~IsPort(p) /\ at = "idle"
                 /\ End(TRUE, {})
                 /\ UNCHANGED copy

EnableUsbPort(p) == \/ RejectPort(p)
                    \/ IsPort(p) /\ Call("enable", p, {}) /\ SendMask(copy["ctrl"] \cup {p - 1})

(* Wrong (for OnlyThatPort): uses 1 << p. *)
DisableNextPort(p) == \/ RejectPort(p)
                      \/ IsPort(p) /\ Call("disable", p, {}) /\ SendMask(copy["ctrl"] \ {p})

DisableUsbPort(p) == \/ RejectPort(p)
                     \/ IsPort(p) /\ Call("disable", p, {}) /\ SendMask(copy["ctrl"] \ {p - 1})

EnableAllUsbPort  == Call("enable", 0, {}) /\ SendMask(Bits)
DisableAllUsbPort == Call("disable", 0, {}) /\ SendMask({})

MaskWritten == After("writeMask") /\ End(~Accepted, {}) /\ UNCHANGED copy

PortsNext == /\ part = "ports"
             /\ \/ OpenHub \/ FetchMask \/ GetUsbPortStatus \/ MaskRead
                \/ \E p \in Ports : EnableUsbPort(p) \/ DisableUsbPort(p)
                \/ EnableAllUsbPort \/ DisableAllUsbPort \/ MaskWritten
             /\ UNCHANGED part
-----------------------------------------------------------------------------
(* The properties, checked as properties of Peripherals. *)

InStep == part = "ports" /\ link = "live" /\ Accepted

(* Unless the last request was refused, the copy is the mask of the hub    *)
(* that is open, whatever was asked of a hub that was closed, of another   *)
(* hub before, or was refused earlier: an operation that succeeds brings   *)
(* hub and copy together.                                                  *)
MaskIsTheDevices == InStep /\ at = "idle" => copy["ctrl"] = store["ctrl"]

(* From there an operation on one port asks for a change of no other port  *)
(* of the hub, although it sends the whole mask.                           *)
OnlyThatPort ==
  [][at = "idle" /\ at' = "writeMask" /\ call'.num # 0 /\ InStep
       => \A b \in Bits : b # call'.num - 1
            => (b \in req'.val) = (b \in store["ctrl"])]_<<attVars, opVars>>
=============================================================================

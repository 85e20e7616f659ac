----------------------------- MODULE Peripherals -----------------------------
(***************************************************************************)
(* One thread that opens and closes a Tbit (src/tbit.cpp) or a Chopper and *)
(* calls the operations of one of its parts, in any order and with any     *)
(* arguments, also while it is closed.  The devices that are plugged in    *)
(* and out differ in what they hold.                                       *)
(***************************************************************************)
EXTENDS Gpio, UsbPorts, I2c, Attvalue

vars == <<attVars, opVars, i2cVars, valueVars>>

(* What the undefined bytes of a value are matters where it is used. *)
Init == /\ AttInit /\ req = Get("rw") /\ OpInit /\ I2cInit /\ ValueInit
        /\ part # "value" => Range(str) = {0}

(* A hub and I2C need more to be opened: OpenHub, OpenI2c. *)
Open == /\ part \in {"modes", "levels"} /\ at = "idle"
        /\ OpenLink
        /\ UNCHANGED <<opVars, i2cVars>>

Close == at = "idle" /\ CloseLink /\ UNCHANGED <<opVars, i2cVars>>

Next == \/ /\ part # "value" /\ UNCHANGED valueVars
           /\ \/ Open \/ Close
              \/ (ModesNext \/ LevelsNext \/ PortsNext) /\ UNCHANGED i2cVars
              \/ I2cNext
              \/ (Return \/ Device) /\ UNCHANGED <<opVars, i2cVars>>
        \/ part = "value" /\ ValueNext /\ UNCHANGED <<attVars, opVars, i2cVars>>

Spec == Init /\ [][Next]_vars
=============================================================================

--------------------------------- MODULE I2c ---------------------------------
(***************************************************************************)
(* I2cHw (src/module/i2c_hw.cpp): an access to a register on the I2C bus   *)
(* is a request that sets the register address, and another that makes the *)
(* device transfer the data.                                               *)
(*                                                                         *)
(* What the bus does is the firmware's: an access is known by what the     *)
(* addresses are when the data request takes effect.  Copies are left out: *)
(* each is set, or read anew, before it is used.                           *)
(***************************************************************************)
EXTENDS Operation

CONSTANT Bytes   \* the addresses and data that are passed

ASSUME I2cAssumption == /\ Bytes \subseteq Values
                        /\ {"deviceAddr", "regAddr", "rw2Byte", "rw3Byte"} \subseteq Attrs

VARIABLES target,  \* history: the address of the bus device that was last set
                   \* with success on this connection, or Nothing
          datum    \* what write2byte is to write

i2cVars == <<target, datum>>

I2cInit == target = Nothing /\ datum = {}

OpenI2c == /\ at = "idle" /\ OpenLink
           /\ target' = Nothing
           /\ UNCHANGED <<copy, call, at, out, datum>>
-----------------------------------------------------------------------------
SetI2cDeviceAddr(d) == /\ Call("deviceAddr", 0, d)
                       /\ Send("deviceAddr", d, "deviceAddr")
                       /\ UNCHANGED <<copy, i2cVars>>

DeviceAddrSet == /\ After("deviceAddr")
                 /\ End(~Accepted, {})
                 /\ target' = IF Accepted THEN call.word ELSE target
                 /\ UNCHANGED <<copy, datum>>

(* write2byte, read2byte and read3byte begin alike. *)
Access(o, a, v) == /\ Call(o, 0, a)
                   /\ datum' = v
                   /\ Send("regAddr", a, "regAddr")
                   /\ UNCHANGED <<copy, target>>

Transfer == /\ \/ call.op = "write2byte" /\ Send("rw2Byte", datum, "data")
               \/ call.op = "read2byte" /\ Fetch("rw2Byte", "data")
               \/ call.op = "read3byte" /\ Fetch("rw3Byte", "data")
            /\ UNCHANGED <<copy, call, i2cVars>>

(* A refused read returns zero, which the data may be as well. *)
GiveUp == /\ got.rc = "fail"
          /\ End(call.op = "write2byte", {})
          /\ UNCHANGED <<copy, i2cVars>>

(* Wrong (for RightRegister): does not look at the answer. *)
RegAddrSetOrNot == After("regAddr") /\ Transfer

RegAddrSet == \/ After("regAddr") /\ GiveUp
              \/ After("regAddr") /\ Accepted /\ Transfer

(* Wrong (for WriteIsDone): does not look at the answer. *)
TransferredOrNot == /\ After("data")
                    /\ End(FALSE, got.val)
                    /\ UNCHANGED <<copy, i2cVars>>

Transferred == \/ After("data") /\ GiveUp
               \/ /\ After("data") /\ Accepted
                  /\ End(FALSE, IF call.op = "write2byte" THEN {} ELSE got.val)
                  /\ UNCHANGED <<copy, i2cVars>>

I2cNext == /\ part = "i2c"
           /\ \/ OpenI2c
              \/ \E d \in Bytes : SetI2cDeviceAddr(d)
              \/ \E a, v \in Bytes : Access("write2byte", a, v)
              \/ \E a \in Bytes, o \in {"read2byte", "read3byte"} : Access(o, a, {})
              \/ DeviceAddrSet \/ RegAddrSet \/ Transferred
           /\ UNCHANGED part
-----------------------------------------------------------------------------
(* The properties, checked as properties of Peripherals. *)

(* When a data request can take effect, the register address is the one    *)
(* that the call was for, and the bus device the one that was last chosen, *)
(* whatever was refused before: no access goes to a wrong register.        *)
RightRegister ==
  at = "data" /\ status = "asked" /\ link = "live"
    => /\ store["regAddr"] = call.word
       /\ target # Nothing => store["deviceAddr"] = target

(* A write that reports success was made, with the value that was asked    *)
(* for and at the address that was asked for.                              *)
WriteIsDone ==
  [][Returns({"write2byte"}) /\ ~out'.error
       => store["rw2Byte"] = datum /\ store["regAddr"] = call.word]_<<attVars, opVars>>
=============================================================================

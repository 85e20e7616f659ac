-------------------------- MODULE PeripheralsProofs --------------------------
(***************************************************************************)
(* Theorems about the pins, ports, I2C registers and values of             *)
(* Peripherals, for any width of a word, any devices and any arguments of  *)
(* the operations.                                                         *)
(***************************************************************************)
EXTENDS Peripherals, SequenceTheorems, WellFoundedInduction, TLAPS

(* What every part relies on: between operations nothing is asked, and a   *)
(* request that was granted, on the device that is open, has its value     *)
(* there.                                                                  *)
Types == /\ link \in {"null", "live", "dead"}
         /\ status \in {"idle", "asked", "granted", "refused", "lost"}
         /\ store \in [Attrs -> Values]
         /\ copy \in [Attrs -> Values]
         /\ got \in {NoResult, Failed} \cup [rc : {"ok"}, val : Values]
         /\ req \in Requests
         /\ call.num \in Nat /\ call.word \in Values
         /\ datum \in Values
         /\ part \in {"modes", "levels", "ports", "i2c", "value"}

Quiet == at \in {"idle", "opened"} => status = "idle"

Effect == at \notin {"idle", "opened"} /\ link = "live" =>
            /\ req.op = "set" /\ (status = "granted" \/ (status = "idle" /\ Accepted))
                 => store[req.att] = req.val
            /\ status = "idle" /\ Accepted => got.val = store[req.att]

ServiceInv == Types /\ Quiet /\ Effect

(* An operation begins, asks for something more or ends; its copy stays    *)
(* one of words.                                                           *)
OperationStep ==
  /\ status = "idle" /\ part' = part /\ copy' \in [Attrs -> Values]
  /\ call'.num \in Nat /\ call'.word \in Values /\ datum' \in Values
  /\ \/ at' \notin {"idle", "opened"} /\ \E r \in Requests : Ask(r)
     \/ at' = "idle" /\ UNCHANGED attVars
     \/ at' = "opened" /\ OpenLink

USE OperationAssumption

LEMMA OperationInv ==
  ASSUME ServiceInv, OperationStep
  PROVE  ServiceInv'
<1> USE DEF ServiceInv, Types, Quiet, Effect, OperationStep, attVars, linkVars, callVars,
            Accepted, NoResult, Failed
<1>1. CASE at' \notin {"idle", "opened"} /\ \E r \in Requests : Ask(r)
  BY <1>1 DEF Ask
<1>2. CASE at' = "idle" /\ UNCHANGED attVars
  BY <1>2
<1>3. CASE at' = "opened" /\ OpenLink
  BY <1>3 DEF OpenLink
<1> QED
  BY <1>1, <1>2, <1>3

LEMMA ReturnInv ==
  ASSUME ServiceInv, Return, UNCHANGED <<opVars, i2cVars>>
  PROVE  ServiceInv'
<1> USE DEF ServiceInv, Types, Quiet, Effect, opVars, i2cVars, linkVars, Accepted, NoResult, Failed
<1>1. CASE status = "refused" /\ got' = Failed
  BY <1>1 DEF Return
<1>2. CASE status = "granted" /\ \E v \in Values :
             /\ got' = [rc |-> "ok", val |-> v]
             /\ link = "live" \/ req.op = "set"
                  => v = IF req.op = "get" THEN store[req.att] ELSE req.val
  <2> PICK v \in Values : /\ got' = [rc |-> "ok", val |-> v]
                          /\ link = "live" \/ req.op = "set"
                               => v = IF req.op = "get" THEN store[req.att] ELSE req.val
    BY <1>2
  <2>1. Types'
    BY DEF Return
  <2>2. Quiet' /\ UNCHANGED <<link, store, req, at>>
    BY DEF Return
  <2>3. link = "live" => v = store[req.att]
    <3>1. at \notin {"idle", "opened"}
      BY <1>2
    <3>2. req.op = "get" \/ req.op = "set"
      BY DEF Requests
    <3>3. link = "live" /\ req.op = "set" => store[req.att] = req.val
      BY <1>2, <3>1
    <3> QED
      BY <3>2, <3>3
  <2>4. Effect'
    BY <1>2, <2>2, <2>3 DEF Return, Requests
  <2> QED
    BY <2>1, <2>2, <2>4
<1> QED
  BY <1>1, <1>2 DEF Return, Answered

LEMMA DeviceInv ==
  ASSUME ServiceInv, Device, UNCHANGED <<opVars, i2cVars>>
  PROVE  ServiceInv'
<1> USE DEF ServiceInv, Types, Quiet, Effect, opVars, i2cVars, linkVars, callVars, Accepted, NoResult, Failed
<1>1. CASE TakeEffect
  BY <1>1 DEF TakeEffect, Requests
<1>2. CASE Lose
  BY <1>2 DEF Lose
<1>3. CASE UnplugLink
  BY <1>3 DEF UnplugLink
<1>4. CASE Swap
  BY <1>4 DEF Swap
<1> QED
  BY <1>1, <1>2, <1>3, <1>4 DEF Device
-----------------------------------------------------------------------------
(* Every operation of every part is made of such steps. *)

LEMMA BitIsWord ==
  ASSUME NEW n \in Nat, NEW b \in Bit(n)
  PROVE  b \in Values /\ (n < Width => b = {n})
<1>1. CASE n < Width
  BY <1>1 DEF Bit, Bits
<1>2. CASE ~(n < Width)
  <2>1. n % Width \in Bits
    BY DEF Bits
  <2> QED
    BY <1>2, <2>1 DEF Bit
<1> QED
  BY <1>1, <1>2

LEMMA AskStep ==
  ASSUME NEW a \in Attrs
  PROVE  /\ Get(a) \in Requests
         /\ \A v \in Values : Set(a, v) \in Requests
BY DEF Get, Set, Requests

USE GpioAssumption, PortsAssumption, I2cAssumption

LEMMA NoCallType == NoCall.num \in Nat /\ NoCall.word \in Values
BY DEF NoCall

LEMMA AcceptedWord == ServiceInv /\ Accepted => got.val \in Values
BY DEF ServiceInv, Types, Accepted, NoResult, Failed

LEMMA Words ==
  ASSUME NEW v \in Values, NEW b \in Values
  PROVE  v \ b \in Values /\ v \cup b \in Values
OBVIOUS

LEMMA FetchStep ==
  ASSUME ServiceInv, UNCHANGED part, NEW a \in Attrs, NEW l,
         at = "idle" \/ status = "idle", l \notin {"idle", "opened"}, Fetch(a, l),
         copy' \in [Attrs -> Values], call'.num \in Nat, call'.word \in Values, datum' \in Values
  PROVE  OperationStep
BY AskStep DEF OperationStep, Fetch, ServiceInv, Quiet

LEMMA SendStep ==
  ASSUME ServiceInv, UNCHANGED part, NEW a \in Attrs, NEW v \in Values, NEW l,
         at = "idle" \/ status = "idle", l \notin {"idle", "opened"}, Send(a, v, l),
         copy' \in [Attrs -> Values], call'.num \in Nat, call'.word \in Values, datum' \in Values
  PROVE  OperationStep
BY AskStep DEF OperationStep, Send, ServiceInv, Quiet

LEMMA EndStep ==
  ASSUME ServiceInv, UNCHANGED part, NEW e, NEW w,
         at = "idle" \/ status = "idle", End(e, w), copy' \in [Attrs -> Values], datum' \in Values
  PROVE  OperationStep
BY NoCallType DEF OperationStep, End, ServiceInv, Quiet

LEMMA ModesStep ==
  ASSUME ServiceInv, ModesNext, UNCHANGED i2cVars
  PROVE  OperationStep
<1> USE DEF ServiceInv, Types, i2cVars
<1>0. UNCHANGED part
  BY DEF ModesNext
<1>1. CASE \E p \in Pins, m \in Modes : PinMode(p, m)
  <2> PICK p \in Pins, m \in Modes : PinMode(p, m)
    BY <1>1
  <2>1. CASE at = "idle" /\ End(FALSE, {})
    BY <1>0, <2>1, EndStep DEF PinMode
  <2>2. CASE Call(m, p, {}) /\ Fetch("mode", "readMode")
    BY <1>0, <2>2, FetchStep DEF PinMode, Call
  <2> QED
    BY <2>1, <2>2 DEF PinMode
<1>2. CASE ModeRead
  <2>1. CASE Refused
    BY <1>0, <1>2, <2>1, EndStep DEF ModeRead, Refused, After
  <2>2. CASE Accepted /\ \E b \in Bit(call.num) :
               Send("mode", got.val \ b, "writeMode") /\ Keep("mode", got.val \ b)
    <3> PICK b \in Bit(call.num) : Send("mode", got.val \ b, "writeMode") /\ Keep("mode", got.val \ b)
      BY <2>2
    <3>1. got.val \ b \in Values
      BY <2>2, BitIsWord, AcceptedWord, Words
    <3> QED
      BY <1>0, <1>2, <2>2, <3>1, SendStep DEF ModeRead, After, Keep, Refused, Accepted
  <2>3. CASE Accepted /\ Fetch("pull", "readPull") /\ Keep("mode", got.val)
    BY <1>0, <1>2, <2>3, AcceptedWord, FetchStep DEF ModeRead, After, Keep, Refused, Accepted
  <2> QED
    BY <1>2, <2>1, <2>2, <2>3 DEF ModeRead
<1>3. CASE PullRead
  <2>1. CASE Refused
    BY <1>0, <1>3, <2>1, EndStep DEF PullRead, Refused, After
  <2>2. CASE Accepted /\ End(TRUE, {}) /\ Keep("pull", got.val)
    BY <1>0, <1>3, <2>2, AcceptedWord, EndStep DEF PullRead, After, Keep
  <2>3. CASE /\ Accepted /\ UNCHANGED call
             /\ \E b \in Bit(call.num) :
                  LET new == IF call.op = "pullup" THEN got.val \cup b ELSE got.val \ b
                  IN Send("pull", new, "writePull") /\ Keep("pull", new)
    <3> PICK b \in Bit(call.num) :
                  LET new == IF call.op = "pullup" THEN got.val \cup b ELSE got.val \ b
                  IN Send("pull", new, "writePull") /\ Keep("pull", new)
      BY <2>3
    <3> DEFINE new == IF call.op = "pullup" THEN got.val \cup b ELSE got.val \ b
    <3>1. new \in Values
      BY <2>3, BitIsWord, AcceptedWord, Words
    <3>2. Send("pull", new, "writePull") /\ Keep("pull", new)
      OBVIOUS
    <3>3. status = "idle"
      BY <1>3 DEF PullRead, After
    <3> HIDE DEF new
    <3> QED
      BY <1>0, <2>3, <3>1, <3>2, <3>3, SendStep DEF Keep
  <2> QED
    BY <1>3, <2>1, <2>2, <2>3 DEF PullRead
<1>4. CASE PullWritten
  <2>1. CASE Refused
    BY <1>0, <1>4, <2>1, EndStep DEF PullWritten, Refused, After
  <2>2. CASE SetInput
    <3> PICK b \in Bit(call.num) : Send("mode", copy["mode"] \cup b, "writeMode")
                                  /\ Keep("mode", copy["mode"] \cup b)
      BY <2>2 DEF SetInput
    <3>1. copy["mode"] \cup b \in Values
      BY BitIsWord, Words
    <3> QED
      BY <1>0, <1>4, <2>2, <3>1, SendStep DEF PullWritten, SetInput, After, Keep
  <2> QED
    BY <1>4, <2>1, <2>2 DEF PullWritten
<1>5. CASE ModeWritten
  BY <1>0, <1>5, EndStep DEF ModeWritten, After
<1> QED
  BY <1>1, <1>2, <1>3, <1>4, <1>5 DEF ModesNext

LEMMA LevelsStep ==
  ASSUME ServiceInv, LevelsNext, UNCHANGED i2cVars
  PROVE  OperationStep
<1> USE DEF ServiceInv, Types, i2cVars
<1>0. UNCHANGED part
  BY DEF LevelsNext
<1>1. CASE \E w \in Values : WriteAll(w)
  BY <1>0, <1>1, SendStep DEF WriteAll, Call, Keep
<1>2. CASE (\E p \in Pins, o \in {"on", "off", "level"} : ReadFirst(o, p)) \/ ReadFirst("read", 0)
  BY <1>0, <1>2, FetchStep DEF ReadFirst, Call
<1>3. CASE LevelRead
  <2> DEFINE old == IF Accepted THEN got.val ELSE copy["rw"]
  <2>0. status = "idle" /\ old \in Values
    BY <1>3, AcceptedWord DEF LevelRead, After
  <2>1. CASE \E w : End(FALSE, w) /\ Keep("rw", old)
    BY <1>0, <2>0, <2>1, EndStep DEF Keep
  <2>2. CASE /\ UNCHANGED call
             /\ \E b \in Bit(call.num) :
                  LET new == IF call.op = "on" THEN old \cup b ELSE old \ b
                  IN Send("rw", new, IF Accepted THEN "writeLevel" ELSE "writeOld") /\ Keep("rw", new)
    <3> PICK b \in Bit(call.num) :
                  LET new == IF call.op = "on" THEN old \cup b ELSE old \ b
                  IN Send("rw", new, IF Accepted THEN "writeLevel" ELSE "writeOld") /\ Keep("rw", new)
      BY <2>2
    <3> DEFINE new == IF call.op = "on" THEN old \cup b ELSE old \ b
               l == IF Accepted THEN "writeLevel" ELSE "writeOld"
    <3>1. new \in Values
      BY <2>0, BitIsWord, Words
    <3>2. Send("rw", new, l) /\ Keep("rw", new) /\ l \notin {"idle", "opened"}
      OBVIOUS
    <3> HIDE DEF new, l, old
    <3> QED
      BY <1>0, <2>0, <2>2, <3>1, <3>2, SendStep DEF Keep
  <2> QED
    BY <1>3, <2>1, <2>2 DEF LevelRead
<1>4. CASE LevelWritten \/ AnalogAnswered
  BY <1>0, <1>4, EndStep DEF LevelWritten, AnalogAnswered, After
<1>5. CASE \E p \in Pins : AnalogRead(p)
  <2> PICK p \in Pins : AnalogRead(p)
    BY <1>5
  <2>1. CASE p >= Len(Analog)
    BY <1>0, <2>1, EndStep DEF AnalogRead
  <2>2. CASE ~(p >= Len(Analog))
    <3>1. p \in Nat /\ Len(Analog) \in Nat /\ Analog \in Seq(Attrs)
      OBVIOUS
    <3>2. p + 1 \in 1 .. Len(Analog)
      BY <2>2, <3>1
    <3>3. Analog[p + 1] \in Attrs
      BY <3>1, <3>2
    <3>4. Call("analog", p, {}) /\ Fetch(Analog[p + 1], "readAnalog") /\ UNCHANGED copy
      BY <2>2 DEF AnalogRead
    <3>5. at = "idle" /\ call'.num \in Nat /\ call'.word \in Values
      BY <3>1, <3>4 DEF Call
    <3> QED
      BY <1>0, <3>3, <3>4, <3>5, FetchStep
  <2> QED
    BY <2>1, <2>2
<1> QED
  BY <1>1, <1>2, <1>3, <1>4, <1>5 DEF LevelsNext

LEMMA PortsStep ==
  ASSUME ServiceInv, PortsNext, UNCHANGED i2cVars
  PROVE  OperationStep
<1> USE DEF ServiceInv, Types, i2cVars
<1>0. UNCHANGED part
  BY DEF PortsNext
<1>1. CASE OpenHub
  BY <1>0, <1>1 DEF OpenHub, OperationStep, Call, Quiet
<1>2. CASE FetchMask \/ GetUsbPortStatus
  BY <1>0, <1>2, FetchStep DEF FetchMask, GetUsbPortStatus, After, Call
<1>3. CASE MaskRead
  BY <1>0, <1>3, AcceptedWord, EndStep DEF MaskRead, After, Keep
<1>4. CASE \E p \in Ports : EnableUsbPort(p) \/ DisableUsbPort(p)
  <2> PICK p \in Ports : EnableUsbPort(p) \/ DisableUsbPort(p)
    BY <1>4
  <2>1. CASE RejectPort(p)
    BY <1>0, <2>1, EndStep DEF RejectPort
  <2>2. CASE IsPort(p) /\ ~RejectPort(p)
    <3>1. copy["ctrl"] \cup {p - 1} \in Values /\ copy["ctrl"] \ {p - 1} \in Values
      BY <2>2 DEF IsPort, Bits
    <3> QED
      BY <1>0, <2>2, <3>1, SendStep DEF EnableUsbPort, DisableUsbPort, Call, SendMask, Keep
  <2> QED
    BY <2>1, <2>2 DEF EnableUsbPort, DisableUsbPort
<1>5. CASE EnableAllUsbPort \/ DisableAllUsbPort
  BY <1>0, <1>5, SendStep DEF EnableAllUsbPort, DisableAllUsbPort, Call, SendMask, Keep
<1>6. CASE MaskWritten
  BY <1>0, <1>6, EndStep DEF MaskWritten, After
<1> QED
  BY <1>1, <1>2, <1>3, <1>4, <1>5, <1>6 DEF PortsNext
LEMMA I2cStep ==
  ASSUME ServiceInv, I2cNext, ~OpenI2c
  PROVE  OperationStep
<1> USE DEF ServiceInv, Types, i2cVars
<1>0. UNCHANGED part
  BY DEF I2cNext
<1>1. CASE \E d \in Bytes : SetI2cDeviceAddr(d)
  BY <1>0, <1>1, SendStep DEF SetI2cDeviceAddr, Call
<1>2. CASE (\E a, v \in Bytes : Access("write2byte", a, v))
           \/ (\E a \in Bytes, o \in {"read2byte", "read3byte"} : Access(o, a, {}))
  BY <1>0, <1>2, SendStep DEF Access, Call
<1>3. CASE After("regAddr") /\ Transfer
  BY <1>0, <1>3, SendStep, FetchStep DEF After, Transfer
<1>4. CASE (After("regAddr") \/ After("data")) /\ GiveUp
  BY <1>0, <1>4, EndStep DEF GiveUp, After
<1>5. CASE DeviceAddrSet
  BY <1>0, <1>5, EndStep DEF DeviceAddrSet, After
<1>6. CASE /\ After("data") /\ Accepted
           /\ End(FALSE, IF call.op = "write2byte" THEN {} ELSE got.val)
           /\ UNCHANGED <<copy, i2cVars>>
  BY <1>0, <1>6, EndStep DEF After
<1> QED
  BY <1>1, <1>2, <1>3, <1>4, <1>5, <1>6 DEF I2cNext, RegAddrSet, Transferred

LEMMA LinkInv ==
  ASSUME ServiceInv, at = "idle", OpenLink \/ CloseLink, UNCHANGED <<opVars, datum>>
  PROVE  ServiceInv'
BY DEF ServiceInv, Types, Quiet, Effect, opVars, callVars, OpenLink, CloseLink, Accepted, NoResult, Failed

LEMMA InitService == Init => ServiceInv
<1> SUFFICES ASSUME Init PROVE ServiceInv
  OBVIOUS
<1>1. Get("rw") \in Requests
  BY AskStep
<1>2. copy \in [Attrs -> Values]
  <2> PICK w \in SUBSET (Byte .. Width - 1) : copy = [a \in Attrs |-> w]
    BY DEF Init, OpInit
  <2>1. w \subseteq Bits
    BY DEF Bits
  <2> QED
    BY <2>1
<1> QED
  BY <1>1, <1>2, NoCallType
  DEF Init, AttInit, OpInit, I2cInit, ServiceInv, Types, Quiet, Effect, NoResult, Failed

(* The steps of the whole, by what they are to a request. *)
PartStep == \/ (ModesNext \/ LevelsNext \/ PortsNext) /\ UNCHANGED i2cVars
            \/ I2cNext /\ ~OpenI2c

LinkStep == /\ at = "idle" /\ UNCHANGED <<opVars, datum>>
            /\ \/ CloseLink /\ UNCHANGED target
               \/ /\ OpenLink /\ part # "ports"
                  /\ part = "i2c" => target' = Nothing

OtherStep == /\ UNCHANGED <<opVars, i2cVars>>
             /\ Return \/ Device \/ UNCHANGED attVars

LEMMA NextCases ==
  ASSUME ServiceInv, [Next]_vars
  PROVE  (PartStep /\ OperationStep) \/ LinkStep \/ OtherStep
<1>1. CASE Open \/ Close
  BY <1>1 DEF Open, Close, LinkStep, i2cVars
<1>2. CASE (ModesNext \/ LevelsNext \/ PortsNext) /\ UNCHANGED i2cVars
  BY <1>2, ModesStep, LevelsStep, PortsStep DEF PartStep
<1>3. CASE I2cNext /\ ~OpenI2c
  BY <1>3, I2cStep DEF PartStep
<1>4. CASE I2cNext /\ OpenI2c
  BY <1>4 DEF I2cNext, OpenI2c, opVars, LinkStep
<1>5. CASE (Return \/ Device) /\ UNCHANGED <<opVars, i2cVars>>
  BY <1>5 DEF OtherStep
<1>6. CASE UNCHANGED <<attVars, opVars, i2cVars>>
  BY <1>6 DEF OtherStep
<1> QED
  BY <1>1, <1>2, <1>3, <1>4, <1>5, <1>6 DEF Next, vars

LEMMA NextService == ServiceInv /\ [Next]_vars => ServiceInv'
<1> SUFFICES ASSUME ServiceInv, [Next]_vars PROVE ServiceInv'
  OBVIOUS
<1>1. UNCHANGED <<attVars, opVars, i2cVars>> => ServiceInv'
  BY DEF attVars, opVars, i2cVars, ServiceInv, Types, Quiet, Effect, Accepted
<1>2. LinkStep => ServiceInv'
  BY LinkInv DEF LinkStep
<1>3. OtherStep => ServiceInv'
  BY <1>1, ReturnInv, DeviceInv DEF OtherStep
<1> QED
  BY <1>2, <1>3, NextCases, OperationInv
-----------------------------------------------------------------------------
(* Each part has operations, steps and attributes of its own.              *)
Uses(ops, steps, atts) ==
  /\ call.op \in ops \cup {"none"}
  /\ at \in steps \cup {"idle"}
  /\ at \notin {"idle", "opened"} /\ req.op = "set" => req.att \in atts

UsesModes  == Uses(Modes, {"readMode", "readPull", "writePull", "writeMode"}, {"mode", "pull"})
UsesLevels == Uses({"write", "on", "off", "level", "read", "analog"},
                   {"readLevel", "writeLevel", "writeOld", "readAnalog"}, {"rw"})
UsesPorts  == Uses({"open", "status", "enable", "disable"}, {"opened", "readMask", "writeMask"}, {"ctrl"})
UsesI2c    == Uses({"deviceAddr", "write2byte", "read2byte", "read3byte"}, {"deviceAddr", "regAddr", "data"},
                   {"deviceAddr", "regAddr", "rw2Byte", "rw3Byte"})

ControlInv == /\ part = "modes"  => UsesModes
              /\ part = "levels" => UsesLevels
              /\ part = "ports"  => UsesPorts
              /\ part = "i2c"    => UsesI2c
              /\ part = "value"  => Uses({}, {}, {})

LEMMA CallIs ==
  ASSUME NEW o, NEW n, NEW w, Call(o, n, w)
  PROVE  at = "idle" /\ call'.op = o /\ call'.num = n /\ call'.word = w
BY DEF Call

LEMMA EndIs ==
  ASSUME NEW e, NEW w, End(e, w)
  PROVE  /\ at' = "idle" /\ call'.op = "none" /\ out'.error = e /\ out'.word = w
         /\ UNCHANGED <<link, store, status, req, got>>
BY DEF End, NoCall, Done, attVars

LEMMA FetchIs ==
  ASSUME NEW a, NEW l, Fetch(a, l)
  PROVE  at' = l /\ req' = Get(a) /\ req'.op = "get" /\ req'.att = a /\ UNCHANGED <<link, store, out>>
BY DEF Fetch, Ask, Get, linkVars

LEMMA SendIs ==
  ASSUME NEW a, NEW v, NEW l, Send(a, v, l)
  PROVE  /\ at' = l /\ req' = Set(a, v) /\ req'.op = "set" /\ req'.att = a /\ req'.val = v
         /\ UNCHANGED <<link, store, out>>
BY DEF Send, Ask, Set, linkVars

LEMMA ModesUses ==
  ASSUME ModesNext, UsesModes
  PROVE  UsesModes'
<1> USE DEF Uses, UsesModes, Modes
<1>1. ASSUME NEW p, NEW m \in Modes, PinMode(p, m)
      PROVE  UsesModes'
  BY <1>1, CallIs, EndIs, FetchIs DEF PinMode
<1>2. CASE ModeRead
  BY <1>2, EndIs, SendIs, FetchIs DEF ModeRead, Refused
<1>3. CASE PullRead
  BY <1>3, EndIs, SendIs DEF PullRead, Refused
<1>4. CASE PullWritten
  BY <1>4, EndIs, SendIs DEF PullWritten, SetInput, Refused
<1>5. CASE ModeWritten
  BY <1>5, EndIs DEF ModeWritten
<1> QED
  BY <1>1, <1>2, <1>3, <1>4, <1>5 DEF ModesNext

LEMMA LevelsUses ==
  ASSUME LevelsNext, UsesLevels
  PROVE  UsesLevels'
<1> USE DEF Uses, UsesLevels
<1>1. ASSUME NEW p, AnalogRead(p)
      PROVE  UsesLevels'
  <2>1. CASE p >= Len(Analog)
    BY <1>1, <2>1, EndIs DEF AnalogRead
  <2>2. CASE ~(p >= Len(Analog))
    BY <1>1, <2>2, CallIs, FetchIs DEF AnalogRead
  <2> QED
    BY <2>1, <2>2
<1>2. ASSUME NEW p, NEW o \in {"on", "off", "level", "read"}, ReadFirst(o, p)
      PROVE  UsesLevels'
  BY <1>2, CallIs, FetchIs DEF ReadFirst
<1>3. CASE LevelRead
  <2>1. CASE call.op \in {"on", "off"} /\ UNCHANGED call /\ \E v, l : l \in {"writeLevel", "writeOld"} /\ Send("rw", v, l)
    BY <2>1, SendIs
  <2>2. CASE \E v : End(FALSE, v)
    BY <2>2, EndIs
  <2> QED
    BY <1>3, <2>1, <2>2 DEF LevelRead
<1>4. CASE LevelWritten \/ AnalogAnswered
  BY <1>4, EndIs DEF LevelWritten, AnalogAnswered
<1>5. ASSUME NEW w, WriteAll(w)
      PROVE  UsesLevels'
  BY <1>5, CallIs, SendIs DEF WriteAll
<1> QED
  BY <1>1, <1>2, <1>3, <1>4, <1>5 DEF LevelsNext

LEMMA PortsUses ==
  ASSUME PortsNext, UsesPorts
  PROVE  UsesPorts'
<1> USE DEF Uses, UsesPorts
<1>1. CASE OpenHub
  BY <1>1, CallIs DEF OpenHub
<1>2. CASE FetchMask \/ GetUsbPortStatus
  BY <1>2, CallIs, FetchIs DEF FetchMask, GetUsbPortStatus
<1>3. CASE MaskRead \/ MaskWritten \/ \E p \in Ports : RejectPort(p)
  BY <1>3, EndIs DEF MaskRead, MaskWritten, RejectPort
<1>4. ASSUME NEW o \in {"enable", "disable"}, NEW n, NEW m, Call(o, n, {}), SendMask(m)
      PROVE  UsesPorts'
  BY <1>4, CallIs, SendIs DEF SendMask
<1> QED
  BY <1>1, <1>2, <1>3, <1>4
  DEF PortsNext, EnableUsbPort, DisableUsbPort, EnableAllUsbPort, DisableAllUsbPort

LEMMA I2cUses ==
  ASSUME I2cNext, ~OpenI2c, UsesI2c
  PROVE  UsesI2c'
<1> USE DEF Uses, UsesI2c
<1>1. ASSUME NEW d, SetI2cDeviceAddr(d)
      PROVE  UsesI2c'
  BY <1>1, CallIs, SendIs DEF SetI2cDeviceAddr
<1>2. ASSUME NEW o \in {"write2byte", "read2byte", "read3byte"}, NEW a, NEW v, Access(o, a, v)
      PROVE  UsesI2c'
  BY <1>2, CallIs, SendIs DEF Access
<1>3. CASE Transfer
  BY <1>3, SendIs, FetchIs DEF Transfer
<1>4. CASE GiveUp \/ DeviceAddrSet
  BY <1>4, EndIs DEF GiveUp, DeviceAddrSet
<1>5. CASE End(FALSE, IF call.op = "write2byte" THEN {} ELSE got.val)
  BY <1>5, EndIs
<1>6. CASE RegAddrSet \/ Transferred
  BY <1>3, <1>4, <1>5, <1>6 DEF RegAddrSet, Transferred
<1> HIDE DEF Uses, UsesI2c
<1> QED
  BY <1>1, <1>2, <1>4, <1>6 DEF I2cNext

LEMMA NextControl ==
  ASSUME ServiceInv, ControlInv, [Next]_vars
  PROVE  ControlInv'
<1>1. CASE PartStep
  BY <1>1, ModesUses, LevelsUses, PortsUses, I2cUses
  DEF ControlInv, PartStep, ModesNext, LevelsNext, PortsNext, I2cNext
<1>2. CASE LinkStep
  BY <1>2 DEF ControlInv, LinkStep, opVars, Uses, UsesModes, UsesLevels, UsesPorts, UsesI2c
<1>3. CASE OtherStep
  <2>1. UNCHANGED req
    BY <1>3 DEF OtherStep, Return, Device, TakeEffect, Lose, UnplugLink, Swap, callVars, attVars
  <2> QED
    BY <1>3, <2>1 DEF ControlInv, OtherStep, opVars, Uses, UsesModes, UsesLevels, UsesPorts, UsesI2c
<1> QED
  BY <1>1, <1>2, <1>3, NextCases

LEMMA InitControl == Init => ControlInv
BY DEF Init, OpInit, NoCall, ControlInv, Uses, UsesModes, UsesLevels, UsesPorts, UsesI2c

(* An open device changes by the request that is under way, and by nothing *)
(* else.                                                                   *)
LEMMA StoreChange ==
  ASSUME ServiceInv, [Next]_vars, link = "live", store' # store
  PROVE  /\ UNCHANGED <<opVars, i2cVars, req>> /\ at \notin {"idle", "opened"}
         /\ req.op = "set" /\ req.att \in Attrs
         /\ store' = [store EXCEPT ![req.att] = req.val]
<1>1. ~(OperationStep \/ LinkStep)
  BY DEF OperationStep, LinkStep, Ask, OpenLink, CloseLink, linkVars, attVars
<1>2. TakeEffect /\ UNCHANGED <<opVars, i2cVars>>
  BY <1>1, NextCases DEF OtherStep, Return, Device, Lose, UnplugLink, Swap, linkVars, attVars
<1> QED
  BY <1>2 DEF TakeEffect, ServiceInv, Types, Quiet, Requests
-----------------------------------------------------------------------------
(* The ports of a hub: while a request of theirs is under way the copy is  *)
(* what the request says, and between operations it is what the hub has.   *)
PortsInv ==
  part = "ports" =>
    /\ at \in {"idle", "opened", "readMask", "writeMask"}
    /\ at = "readMask" => req = Get("ctrl")
    /\ at = "writeMask" => req = Set("ctrl", copy["ctrl"])
    /\ at = "idle" /\ link = "live" /\ Accepted => copy["ctrl"] = store["ctrl"]

LEMMA NextPorts ==
  ASSUME ServiceInv, PortsInv, [Next]_vars
  PROVE  PortsInv'
<1> USE DEF PortsInv
<1>1. CASE LinkStep
  BY <1>1 DEF LinkStep, opVars, OpenLink, CloseLink, callVars, Accepted
<1>2. CASE OtherStep
  <2>1. CASE Return
    BY <1>2, <2>1 DEF OtherStep, opVars, Return, linkVars, Quiet, ServiceInv, Answered
  <2>2. CASE Device
    BY <1>2, <2>2 DEF OtherStep, opVars, Device, TakeEffect, Lose, UnplugLink, Swap, linkVars,
                      callVars, Quiet, ServiceInv, Accepted
  <2>3. CASE UNCHANGED attVars
    BY <1>2, <2>3 DEF OtherStep, opVars, attVars, Accepted
  <2> QED
    BY <1>2, <2>1, <2>2, <2>3 DEF OtherStep
<1>3. CASE PartStep /\ part # "ports"
  BY <1>3 DEF PartStep, ModesNext, LevelsNext, PortsNext, I2cNext
<1>4. CASE PortsNext
  <2> USE <1>4 DEF PortsNext
  <2>1. CASE OpenHub
    BY <2>1 DEF OpenHub
  <2>2. CASE FetchMask \/ GetUsbPortStatus
    BY <2>2 DEF FetchMask, GetUsbPortStatus, Fetch, Ask
  <2>3. CASE MaskRead
    BY <2>3 DEF MaskRead, After, End, Keep, attVars, Accepted, ServiceInv, Types, Effect, Get
  <2>4. ASSUME NEW m, SendMask(m)
        PROVE  PortsInv'
    BY <2>4 DEF SendMask, Send, Ask, Keep, ServiceInv, Types
  <2>5. CASE \E p \in Ports : RejectPort(p)
    BY <2>5 DEF RejectPort, End, attVars, Accepted
  <2>6. CASE MaskWritten
    BY <2>6 DEF MaskWritten, After, End, attVars, Accepted, ServiceInv, Effect, Set
  <2> QED
    BY <2>1, <2>2, <2>3, <2>4, <2>5, <2>6
    DEF EnableUsbPort, DisableUsbPort, EnableAllUsbPort, DisableAllUsbPort
<1> QED
  BY <1>1, <1>2, <1>3, <1>4, NextCases DEF PartStep, ModesNext, LevelsNext, I2cNext

LEMMA PortsInvariant == Spec => [](ServiceInv /\ PortsInv)
<1>1. Init => ServiceInv /\ PortsInv
  BY InitService DEF Init, OpInit, AttInit, PortsInv
<1>2. ServiceInv /\ PortsInv /\ [Next]_vars => (ServiceInv /\ PortsInv)'
  BY NextService, NextPorts
<1> QED
  BY <1>1, <1>2, PTL DEF Spec

(* Chopper's copy of the mask (src/chopper.cpp) is the mask of the hub     *)
(* whenever the last request was not refused.                              *)
THEOREM MaskIsTheDevicesAlways == Spec => []MaskIsTheDevices
<1>1. PortsInv => MaskIsTheDevices
  BY DEF PortsInv, MaskIsTheDevices, InStep
<1> QED
  BY <1>1, PortsInvariant, PTL

(* From there, an operation on one port of a hub asks for no change of     *)
(* another one.                                                            *)
THEOREM OnlyThatPortAlways == Spec => OnlyThatPort
<1>1. ASSUME ServiceInv, PortsInv, [Next]_vars, at = "idle", at' = "writeMask",
             call'.num # 0, InStep, NEW b \in Bits, b # call'.num - 1
      PROVE  (b \in req'.val) = (b \in store["ctrl"])
  <2>1. copy["ctrl"] = store["ctrl"]
    BY <1>1 DEF PortsInv, InStep
  <2>2. PortsNext
    BY <1>1, NextCases DEF InStep, LinkStep, OtherStep, PartStep, opVars, ModesNext, LevelsNext, I2cNext
  <2>3. PICK p \in Ports : \/ Call("enable", p, {}) /\ SendMask(copy["ctrl"] \cup {p - 1})
                           \/ Call("disable", p, {}) /\ SendMask(copy["ctrl"] \ {p - 1})
    <3>1. ~(OpenHub \/ FetchMask \/ GetUsbPortStatus)
      BY <1>1 DEF OpenHub, FetchMask, GetUsbPortStatus, Fetch
    <3>2. ~(MaskRead \/ MaskWritten \/ \E p \in Ports : RejectPort(p))
      BY <1>1 DEF MaskRead, MaskWritten, RejectPort, End
    <3>3. ~(EnableAllUsbPort \/ DisableAllUsbPort)
      BY <1>1 DEF EnableAllUsbPort, DisableAllUsbPort, Call
    <3> QED
      BY <2>2, <3>1, <3>2, <3>3 DEF PortsNext, EnableUsbPort, DisableUsbPort
  <2> QED
    BY <1>1, <2>1, <2>3 DEF Call, SendMask, Send, Ask, Set
<1>2. ServiceInv /\ PortsInv /\ [Next]_vars
      => (at = "idle" /\ at' = "writeMask" /\ call'.num # 0 /\ InStep
           => \A b \in Bits : b # call'.num - 1 => (b \in req'.val) = (b \in store["ctrl"]))
  BY <1>1
<1> QED
  BY <1>2, PortsInvariant, PTL DEF Spec, OnlyThatPort, vars
-----------------------------------------------------------------------------
(* I2C: each request is for what the call was for; once the register       *)
(* address is set it stays so until the call ends, and so does the device  *)
(* address, except by a request that is to change it and is not refused.   *)
I2cRequests ==
  /\ at \in {"idle", "deviceAddr", "regAddr", "data"}
  /\ at = "deviceAddr" => call.op # "write2byte" /\ req = Set("deviceAddr", call.word)
  /\ at = "regAddr" => req = Set("regAddr", call.word)
  /\ at = "data" => req.att \in {"rw2Byte", "rw3Byte"}
  /\ at = "data" /\ call.op = "write2byte" => req = Set("rw2Byte", datum)

I2cAddresses ==
  link = "live" =>
    /\ at = "data" => store["regAddr"] = call.word
    /\ target # Nothing /\ (at # "deviceAddr" \/ status \in {"asked", "refused"}
                               \/ (status = "idle" /\ ~Accepted))
         => store["deviceAddr"] = target

I2cInv == part = "i2c" => I2cRequests /\ I2cAddresses

LEMMA NextI2c ==
  ASSUME ServiceInv, I2cInv, [Next]_vars
  PROVE  I2cInv'
<1>1. CASE LinkStep
  BY <1>1 DEF I2cInv, I2cRequests, I2cAddresses, LinkStep, opVars, OpenLink, CloseLink, callVars, Accepted
<1>2. CASE OtherStep
  <2> USE <1>2 DEF OtherStep, opVars, i2cVars, I2cInv
  <2>1. UNCHANGED req
    BY DEF Return, Device, TakeEffect, Lose, UnplugLink, Swap, callVars, attVars
  <2>2. I2cRequests => I2cRequests'
    BY <2>1 DEF I2cRequests
  <2>3. CASE Return /\ part = "i2c"
    BY <2>2, <2>3 DEF I2cAddresses, Return, linkVars, Answered, Accepted, Failed
  <2>4. CASE TakeEffect /\ part = "i2c"
    BY <2>2, <2>4 DEF I2cAddresses, TakeEffect, ServiceInv, Types, Quiet, I2cRequests, Set, Get, Accepted
  <2>5. CASE (Lose \/ UnplugLink \/ Swap \/ UNCHANGED attVars) /\ part = "i2c"
    BY <2>2, <2>5 DEF I2cAddresses, Lose, UnplugLink, Swap, linkVars, callVars, attVars, Accepted
  <2> QED
    BY <2>3, <2>4, <2>5 DEF Device
<1>3. CASE PartStep /\ part # "i2c"
  BY <1>3 DEF PartStep, I2cInv, ModesNext, LevelsNext, PortsNext, I2cNext
<1>4. CASE I2cNext /\ ~OpenI2c
  <2> USE <1>4 DEF I2cNext, I2cInv
  <2>1. CASE \E d \in Bytes : SetI2cDeviceAddr(d)
    BY <2>1 DEF SetI2cDeviceAddr, Call, Send, Ask, Set, I2cRequests, I2cAddresses, i2cVars, linkVars,
                NoResult, Failed, Accepted
  <2>2. ASSUME NEW o, NEW a, NEW v, Access(o, a, v)
        PROVE  I2cInv'
    BY <2>2 DEF Access, Call, Send, Ask, Set, I2cRequests, I2cAddresses, linkVars
  <2>3. CASE DeviceAddrSet
    BY <2>3 DEF DeviceAddrSet, After, End, NoCall, attVars, I2cRequests, I2cAddresses, ServiceInv, Effect,
                Set, Accepted
  <2>4. CASE (After("regAddr") \/ After("data")) /\ GiveUp
    BY <2>4 DEF After, GiveUp, End, attVars, i2cVars, I2cRequests, I2cAddresses
  <2>5. CASE After("regAddr") /\ Accepted /\ Transfer
    <3>1. link = "live" => store["regAddr"] = call.word
      BY <2>5 DEF After, I2cRequests, ServiceInv, Effect, Set
    <3>2. at' = "data" /\ UNCHANGED <<link, store, call, target, datum, part>>
      BY <2>5 DEF Transfer, Send, Fetch, Ask, linkVars, i2cVars
    <3>3. I2cAddresses'
      BY <2>5, <3>1, <3>2 DEF After, I2cAddresses
    <3>4. I2cRequests'
      BY <2>5, <3>2 DEF I2cRequests, Transfer, Send, Fetch, Ask, Set, Get
    <3> QED
      BY <3>2, <3>3, <3>4
  <2>6. CASE /\ After("data") /\ Accepted
             /\ End(FALSE, IF call.op = "write2byte" THEN {} ELSE got.val)
             /\ UNCHANGED <<copy, i2cVars>>
    BY <2>6 DEF After, End, attVars, i2cVars, I2cRequests, I2cAddresses
  <2> QED
    BY <2>1, <2>2, <2>3, <2>4, <2>5, <2>6 DEF RegAddrSet, Transferred
<1> QED
  BY <1>1, <1>2, <1>3, <1>4, NextCases DEF PartStep, ModesNext, LevelsNext, PortsNext

LEMMA I2cInvariant == Spec => [](ServiceInv /\ ControlInv /\ I2cInv)
<1>1. Init => ServiceInv /\ ControlInv /\ I2cInv
  BY InitService, InitControl DEF Init, OpInit, AttInit, I2cInit, NoCall, I2cInv, I2cRequests, I2cAddresses
<1>2. ServiceInv /\ ControlInv /\ I2cInv /\ [Next]_vars => (ServiceInv /\ ControlInv /\ I2cInv)'
  BY NextService, NextControl, NextI2c
<1> QED
  BY <1>1, <1>2, PTL DEF Spec

(* No data request of I2cHw (src/module/i2c_hw.cpp) goes to a register or  *)
(* a bus device that the caller did not choose, whatever was refused.      *)
THEOREM RightRegisterAlways == Spec => []RightRegister
<1>1. ServiceInv /\ ControlInv /\ I2cInv => RightRegister
  <2> SUFFICES ASSUME ServiceInv, ControlInv, I2cInv, at = "data", status = "asked", link = "live", part = "i2c"
               PROVE  /\ store["regAddr"] = call.word
                      /\ target # Nothing => store["deviceAddr"] = target
    BY DEF RightRegister, ServiceInv, Types, ControlInv, Uses, UsesModes, UsesLevels, UsesPorts
  <2> QED
    BY DEF I2cInv, I2cAddresses
<1> QED
  BY <1>1, I2cInvariant, PTL

(* write2byte succeeds only when the value is in the register.             *)
THEOREM WriteIsDoneAlways == Spec => WriteIsDone
<1>1. ASSUME ServiceInv, ControlInv, I2cInv, [Next]_vars, Returns({"write2byte"}), ~out'.error
      PROVE  store["rw2Byte"] = datum /\ store["regAddr"] = call.word
  <2>1. part = "i2c" /\ I2cNext /\ ~OpenI2c
    <3>1. part = "i2c"
      BY <1>1 DEF Returns, ServiceInv, Types, ControlInv, Uses, UsesModes, UsesLevels, UsesPorts, Modes
    <3> QED
      BY <1>1, <3>1, NextCases
      DEF Returns, LinkStep, OtherStep, opVars, PartStep, ModesNext, LevelsNext, PortsNext
  <2>2. After("data") /\ Accepted
    <3>1. call.op = "write2byte" /\ at # "idle" /\ at' = "idle" /\ I2cRequests
      BY <1>1, <2>1 DEF Returns, I2cInv
    <3>2. ~GiveUp
      <4> SUFFICES ASSUME GiveUp PROVE FALSE
        OBVIOUS
      <4>1. out' = Done(TRUE, {})
        BY <3>1 DEF GiveUp, End
      <4> QED
        BY <1>1, <4>1 DEF Done
    <3>3. ~(After("regAddr") /\ Transfer) /\ ~DeviceAddrSet
      BY <3>1 DEF Transfer, Send, Fetch, DeviceAddrSet, After, I2cRequests
    <3>4. \A d, o, a, v : ~SetI2cDeviceAddr(d) /\ ~Access(o, a, v)
      BY <3>1 DEF SetI2cDeviceAddr, Access, Call
    <3> QED
      BY <2>1, <3>2, <3>3, <3>4 DEF I2cNext, RegAddrSet, Transferred
  <2> QED
    BY <1>1, <2>1, <2>2 DEF Returns, After, ServiceInv, Effect, I2cInv, I2cRequests, I2cAddresses, Set
<1>2. ServiceInv /\ ControlInv /\ I2cInv /\ [Next]_vars
      => (Returns({"write2byte"}) /\ ~out'.error
            => store["rw2Byte"] = datum /\ store["regAddr"] = call.word)
  BY <1>1
<1> QED
  BY <1>2, I2cInvariant, PTL DEF Spec, WriteIsDone, vars
-----------------------------------------------------------------------------
(* pinMode: the register that a write under way is to leave behind differs *)
(* from the one the device has in the bit of the pin only, and a direction *)
(* is written when the pull-up is as the pin needs it.                     *)
ModesRequests ==
  /\ at \in {"readMode", "readPull", "writePull", "writeMode"} => call.op \in Modes
  /\ at = "readMode" => req = Get("mode")
  /\ at = "readPull" => req = Get("pull") /\ call.op # "output"
  /\ at = "writePull" => req.op = "set" /\ req.att = "pull" /\ call.op \in {"input", "pullup"}
  /\ at = "writeMode" => req.op = "set" /\ req.att = "mode" /\ call.op # "pulldown"

ModesRegisters ==
  link = "live" /\ call.num < Width =>
    /\ at \in {"readPull", "writePull"} => copy["mode"] = store["mode"]
    /\ at = "writePull" => /\ req.val \ {call.num} = store["pull"] \ {call.num}
                           /\ (call.num \in req.val) <=> (call.op = "pullup")
    /\ at = "writeMode" => /\ req.val \ {call.num} = store["mode"] \ {call.num}
                           /\ (call.num \in req.val) <=> (call.op # "output")
    /\ at = "writeMode" /\ call.op # "output"
         => ((call.num \in store["pull"]) <=> (call.op = "pullup"))

ModesInv == part = "modes" => ModesRequests /\ ModesRegisters

LEMMA NextModes ==
  ASSUME ServiceInv, ControlInv, ModesInv, [Next]_vars
  PROVE  ModesInv'
<1>1. CASE LinkStep
  BY <1>1 DEF LinkStep, opVars, ModesInv, ModesRequests, ModesRegisters
<1>2. CASE OtherStep
  <2> USE DEF OtherStep, opVars, ModesInv
  <2>1. UNCHANGED req /\ (link' = "live" => link = "live")
    BY <1>2 DEF Return, Device, TakeEffect, Lose, UnplugLink, Swap, callVars, linkVars, attVars
  <2>2. ModesRequests => ModesRequests'
    BY <1>2, <2>1 DEF ModesRequests
  <2>3. CASE link = "live" => store' = store
    BY <1>2, <2>1, <2>2, <2>3 DEF ModesRegisters
  <2>4. CASE link = "live" /\ store' # store
    <3>1. req.op = "set" /\ store' = [store EXCEPT ![req.att] = req.val]
      BY <2>4, StoreChange
    <3>2. store \in [Attrs -> Values]
      BY DEF ServiceInv, Types
    <3> QED
      BY <1>2, <2>1, <2>2, <3>1, <3>2 DEF ModesRequests, ModesRegisters, Get
  <2> QED
    BY <2>3, <2>4
<1>3. CASE PartStep /\ part # "modes"
  BY <1>3 DEF PartStep, ModesInv, ModesNext, LevelsNext, PortsNext, I2cNext
<1>4. CASE ModesNext
  <2> USE <1>4 DEF ModesNext, ModesInv
  <2>0. copy \in [Attrs -> Values] /\ call.num \in Nat
    BY DEF ServiceInv, Types
  <2>1. CASE at' = "idle"
    BY <2>1 DEF ModesRequests, ModesRegisters
  <2>2. ASSUME NEW p, NEW m \in Modes, PinMode(p, m), at' # "idle"
        PROVE  ModesInv'
    BY <2>2, CallIs, FetchIs, EndIs, ZenonT(60) DEF PinMode, ModesRequests, ModesRegisters
  <2>3. CASE ModeRead /\ at' # "idle"
    <3>1. After("readMode") /\ Accepted /\ UNCHANGED call /\ call.op \in Modes
      BY <2>3, EndIs DEF ModeRead, Refused, After, ModesRequests
    <3>2. link = "live" => got.val = store["mode"]
      BY <3>1 DEF After, ServiceInv, Effect, ModesRequests, Get
    <3>3. ASSUME call.op = "output", NEW b \in Bit(call.num),
                 Send("mode", got.val \ b, "writeMode")
          PROVE  ModesInv'
      BY <2>0, <3>1, <3>2, <3>3, SendIs, BitIsWord DEF ModesRequests, ModesRegisters
    <3>4. CASE call.op # "output" /\ Fetch("pull", "readPull") /\ Keep("mode", got.val)
      BY <2>0, <3>1, <3>2, <3>4, FetchIs DEF Keep, ModesRequests, ModesRegisters
    <3> QED
      BY <2>3, <3>1, <3>3, <3>4, EndIs DEF ModeRead, Refused
  <2>4. CASE PullRead /\ at' # "idle"
    <3>1. After("readPull") /\ Accepted /\ UNCHANGED call /\ call.op \in {"input", "pullup"}
      BY <2>4, EndIs DEF PullRead, Refused
    <3>2. link = "live" => got.val = store["pull"]
      BY <3>1 DEF After, ServiceInv, Effect, ModesRequests, Get
    <3> DEFINE New(b) == IF call.op = "pullup" THEN got.val \cup b ELSE got.val \ b
    <3>3. PICK b \in Bit(call.num) : Send("pull", New(b), "writePull") /\ Keep("pull", New(b))
      BY <2>4, <3>1, EndIs DEF PullRead, Refused
    <3>4. ModesRequests'
      BY <3>1, <3>3, SendIs DEF ModesRequests, Modes
    <3>5. link = "live" /\ call.num < Width
          => /\ New(b) \ {call.num} = store["pull"] \ {call.num}
             /\ (call.num \in New(b)) <=> (call.op = "pullup")
      BY <2>0, <3>1, <3>2, <3>3, BitIsWord
    <3>6. copy'["mode"] = copy["mode"]
      BY <2>0, <3>3 DEF Keep
    <3>7. at' = "writePull" /\ req'.val = New(b) /\ UNCHANGED <<link, store>>
      BY <3>3, SendIs
    <3> HIDE DEF New
    <3>8. ModesRegisters'
      BY <3>1, <3>5, <3>6, <3>7 DEF After, ModesRegisters
    <3> QED
      BY <3>4, <3>8
  <2>5. CASE PullWritten /\ at' # "idle"
    <3>1. After("writePull") /\ Accepted /\ UNCHANGED call /\ SetInput
      BY <2>5, EndIs DEF PullWritten, Refused, SetInput
    <3>2. link = "live" => store["pull"] = req.val
      BY <3>1 DEF After, ServiceInv, Effect, ModesRequests
    <3>3. PICK b \in Bit(call.num) : Send("mode", copy["mode"] \cup b, "writeMode")
      BY <3>1 DEF SetInput
    <3>4. /\ at' = "writeMode" /\ UNCHANGED <<link, store>>
          /\ req'.op = "set" /\ req'.att = "mode" /\ req'.val = copy["mode"] \cup b
      BY <3>3, SendIs
    <3>5. ModesRequests'
      BY <3>1, <3>4 DEF After, ModesRequests, Modes
    <3>6. ModesRegisters'
      BY <2>0, <3>1, <3>2, <3>4, BitIsWord DEF After, ModesRequests, ModesRegisters
    <3> QED
      BY <3>5, <3>6
  <2>6. CASE ModeWritten
    BY <2>1, <2>6, EndIs DEF ModeWritten
  <2> QED
    BY <2>1, <2>2, <2>3, <2>4, <2>5, <2>6
<1> QED
  BY <1>1, <1>2, <1>3, <1>4, NextCases DEF PartStep, LevelsNext, PortsNext, I2cNext

(* A step of pinMode that writes the direction, or the pull-up.            *)
LEMMA PinWritten ==
  ASSUME ServiceInv, ControlInv, ModesInv, part = "modes", call.num < Width, link = "live",
         [Next]_vars, store' # store
  PROVE  \/ /\ at = "writePull" /\ store' = [store EXCEPT !["pull"] = req.val]
            /\ req.val \ {call.num} = store["pull"] \ {call.num}
         \/ /\ at = "writeMode" /\ store' = [store EXCEPT !["mode"] = req.val]
            /\ req.val \ {call.num} = store["mode"] \ {call.num}
<1>1. /\ req.op = "set" /\ store' = [store EXCEPT ![req.att] = req.val]
      /\ at \notin {"idle", "opened"}
  BY StoreChange
<1>2. at \in {"writePull", "writeMode"}
  BY <1>1 DEF ControlInv, Uses, UsesModes, ModesInv, ModesRequests, Get
<1> QED
  BY <1>1, <1>2 DEF ModesInv, ModesRequests, ModesRegisters

LEMMA ModesInvariant == Spec => [](ServiceInv /\ ControlInv /\ ModesInv)
<1>1. Init => ServiceInv /\ ControlInv /\ ModesInv
  BY InitService, InitControl DEF Init, OpInit, ModesInv, ModesRequests, ModesRegisters
<1>2. ServiceInv /\ ControlInv /\ ModesInv /\ [Next]_vars => (ServiceInv /\ ControlInv /\ ModesInv)'
  BY NextService, NextControl, NextModes
<1> QED
  BY <1>1, <1>2, PTL DEF Spec

(* An open device changes its directions and pull-ups in pinMode only.     *)
LEMMA OnlyPins ==
  ASSUME ServiceInv, ControlInv, [Next]_vars, link = "live",
         NEW a \in {"mode", "pull"}, store'[a] # store[a]
  PROVE  part = "modes"
<1>1. /\ req.op = "set" /\ store' = [store EXCEPT ![req.att] = req.val]
      /\ at \notin {"idle", "opened"}
  BY StoreChange
<1>2. req.att = a
  BY <1>1
<1>3. part \in {"modes", "levels", "ports", "i2c", "value"}
  BY DEF ServiceInv, Types
<1> QED
  BY <1>1, <1>2, <1>3 DEF ControlInv, Uses, UsesLevels, UsesPorts, UsesI2c

(* pinMode (src/module/gpio_hw.cpp) changes nothing of another pin,        *)
(* although it writes whole registers and whatever requests are refused.   *)
THEOREM PinModeIsLocalAlways == Spec => PinModeIsLocal
<1>1. ASSUME ServiceInv, ControlInv, ModesInv, [Next]_vars, NEW a \in {"mode", "pull"}
      PROVE  Local(a, gpioSteps)
  <2> SUFFICES ASSUME link = "live", call.num < Width, store'[a] # store[a]
               PROVE  store'[a] \ {call.num} = store[a] \ {call.num}
    BY DEF Local
  <2>1. part = "modes"
    BY <1>1, OnlyPins
  <2>2. store \in [Attrs -> Values]
    BY <1>1 DEF ServiceInv, Types
  <2>3. CASE store' = [store EXCEPT !["pull"] = req.val] /\ req.val \ {call.num} = store["pull"] \ {call.num}
    BY <2>2, <2>3
  <2>4. CASE store' = [store EXCEPT !["mode"] = req.val] /\ req.val \ {call.num} = store["mode"] \ {call.num}
    BY <2>2, <2>4
  <2>5. store' # store
    OBVIOUS
  <2> QED
    BY <1>1, <2>1, <2>3, <2>4, <2>5, PinWritten
<1>2. ServiceInv /\ ControlInv /\ ModesInv /\ [Next]_vars
      => Local("mode", gpioSteps) /\ Local("pull", gpioSteps)
  BY <1>1
<1> QED
  BY <1>2, ModesInvariant, PTL DEF Spec, PinModeIsLocal, vars

(* A pin becomes an input only with the pull-up that was asked for.        *)
THEOREM InputAfterPullAlways == Spec => InputAfterPull
<1>1. ASSUME ServiceInv, ControlInv, ModesInv, [Next]_vars, NEW b \in Bits, link = "live",
             call.num < Width, b \notin store["mode"], b \in store'["mode"]
      PROVE  (b \in store["pull"]) = (call.op = "pullup")
  <2>1. part = "modes"
    BY <1>1, OnlyPins
  <2>2. at = "writeMode" /\ store' = [store EXCEPT !["mode"] = req.val]
        /\ req.val \ {call.num} = store["mode"] \ {call.num}
    <3>1. store' # store /\ store \in [Attrs -> Values]
      BY <1>1 DEF ServiceInv, Types
    <3>2. store' # [store EXCEPT !["pull"] = req.val]
      BY <1>1, <3>1
    <3> QED
      BY <1>1, <2>1, <3>1, <3>2, PinWritten
  <2>3. store'["mode"] = req.val
    BY <1>1, <2>2 DEF ServiceInv, Types
  <2>4. b = call.num /\ b \in req.val
    BY <1>1, <2>2, <2>3
  <2> QED
    BY <1>1, <2>1, <2>2, <2>4 DEF ModesInv, ModesRegisters
<1>2. ServiceInv /\ ControlInv /\ ModesInv /\ [Next]_vars
      => \A b \in Bits :
           /\ link = "live" /\ call.num < Width
           /\ b \notin store["mode"] /\ b \in store'["mode"]
           => (b \in store["pull"]) = (call.op = "pullup")
  BY <1>1
<1> QED
  BY <1>2, ModesInvariant, PTL DEF Spec, InputAfterPull, vars

(* A step by which an operation of one part returns is one of that part.   *)
LEMMA ReturnSteps ==
  ASSUME ServiceInv, ControlInv, [Next]_vars, NEW ops, Returns(ops)
  PROVE  /\ ops = Modes => part = "modes" /\ ModesNext
         /\ ops \in {{"on", "off"}, {"level"}, {"analog"}} => part = "levels" /\ LevelsNext
<1>1. call.op \in ops /\ at # "idle" /\ at' = "idle"
  BY DEF Returns
<1>2. part \in {"modes", "levels", "ports", "i2c", "value"}
  BY DEF ServiceInv, Types
<1>3. ops = Modes => part = "modes"
  BY <1>1, <1>2 DEF ControlInv, Uses, UsesLevels, UsesPorts, UsesI2c, Modes
<1>4. ops \in {{"on", "off"}, {"level"}, {"analog"}} => part = "levels"
  BY <1>1, <1>2 DEF ControlInv, Uses, UsesModes, UsesPorts, UsesI2c, Modes
<1> QED
  BY <1>1, <1>3, <1>4, NextCases
  DEF LinkStep, OtherStep, opVars, PartStep, ModesNext, LevelsNext, PortsNext, I2cNext

(* When pinMode reports success, the pin is as it was asked for.           *)
THEOREM PinModeTruthAlways == Spec => PinModeTruth
<1>1. ASSUME ServiceInv, ControlInv, ModesInv, [Next]_vars,
             Returns(Modes), call.num < Width, ~out'.error
      PROVE  /\ (call.num \in store["mode"]) = (call.op # "output")
             /\ call.op # "output" => (call.num \in store["pull"]) = (call.op = "pullup")
             /\ call.op # "pulldown"
  <2>1. part = "modes" /\ ModesNext /\ at # "idle" /\ at' = "idle" /\ link = "live"
    BY <1>1, ReturnSteps DEF Returns
  <2>2. ~Refused
    BY <1>1, EndIs DEF Refused
  <2>3. ASSUME NEW a, NEW v, NEW l \in {"writeMode", "readPull", "writePull"}
        PROVE  ~Send(a, v, l) /\ ~Fetch(a, l)
    BY <2>1 DEF Send, Fetch
  <2>4. ~PullRead /\ ~ModeRead /\ ~PullWritten
    <3>1. ~End(TRUE, {})
      BY <1>1, EndIs
    <3>2. ~PullRead
      BY <2>2, <2>3, <3>1 DEF PullRead
    <3>3. ~ModeRead
      BY <2>2, <2>3 DEF ModeRead
    <3>4. ~PullWritten
      BY <2>2, <2>3 DEF PullWritten, SetInput
    <3> QED
      BY <3>2, <3>3, <3>4
  <2>5. \A p, m : ~PinMode(p, m)
    BY <2>1 DEF PinMode, Call
  <2>6. ModeWritten
    BY <2>1, <2>4, <2>5 DEF ModesNext
  <2>7. After("writeMode") /\ Accepted
    <3>1. out' = Done(~Accepted, {})
      BY <2>6 DEF ModeWritten, End
    <3>2. out'.error = ~Accepted
      BY <3>1 DEF Done
    <3> QED
      BY <1>1, <2>6, <3>2 DEF ModeWritten
  <2>8. ModesRequests /\ ModesRegisters
    BY <1>1, <2>1 DEF ModesInv
  <2>9. req.op = "set" /\ req.att = "mode" /\ call.op # "pulldown" /\ status = "idle" /\ at = "writeMode"
    BY <2>7, <2>8 DEF After, ModesRequests
  <2>10. store["mode"] = req.val
    BY <1>1, <2>1, <2>7, <2>9 DEF ServiceInv, Effect
  <2> QED
    BY <1>1, <2>1, <2>8, <2>9, <2>10 DEF ModesRegisters
<1>2. ServiceInv /\ ControlInv /\ ModesInv /\ [Next]_vars
      => (Returns(Modes) /\ call.num < Width /\ ~out'.error
            => /\ (call.num \in store["mode"]) = (call.op # "output")
               /\ call.op # "output" => (call.num \in store["pull"]) = (call.op = "pullup")
               /\ call.op # "pulldown")
  BY <1>1
<1> QED
  BY <1>2, ModesInvariant, PTL DEF Spec, PinModeTruth, vars
-----------------------------------------------------------------------------
(* The levels: as with pinMode, except that digitalWrite goes on when its  *)
(* read was refused ("writeOld").                                          *)
LevelsRequests ==
  /\ at = "readLevel" => req = Get("rw") /\ call.op \in {"on", "off", "level", "read"}
  /\ at \in {"writeLevel", "writeOld"} => req.op = "set" /\ req.att = "rw" /\ call.op \in {"write", "on", "off"}
  /\ at = "readAnalog" => req = Get(Analog[call.num + 1]) /\ call.op = "analog"

LevelsRegisters ==
  link = "live" /\ call.num < Width /\ call.op # "write" =>
    /\ at = "writeLevel" => req.val \ {call.num} = store["rw"] \ {call.num}
    /\ at \in {"writeLevel", "writeOld"} => ((call.num \in req.val) <=> (call.op = "on"))

LevelsInv == part = "levels" => LevelsRequests /\ LevelsRegisters

LEMMA NextLevels ==
  ASSUME ServiceInv, ControlInv, LevelsInv, [Next]_vars
  PROVE  LevelsInv'
<1>1. CASE LinkStep
  BY <1>1 DEF LinkStep, opVars, LevelsInv, LevelsRequests, LevelsRegisters
<1>2. CASE OtherStep
  <2> USE DEF OtherStep, opVars, LevelsInv
  <2>1. UNCHANGED req /\ (link' = "live" => link = "live")
    BY <1>2 DEF Return, Device, TakeEffect, Lose, UnplugLink, Swap, callVars, linkVars, attVars
  <2>2. LevelsRequests => LevelsRequests'
    BY <1>2, <2>1 DEF LevelsRequests
  <2>3. CASE link = "live" => store' = store
    BY <1>2, <2>1, <2>2, <2>3 DEF LevelsRegisters
  <2>4. CASE link = "live" /\ store' # store
    <3>1. req.op = "set" /\ store' = [store EXCEPT ![req.att] = req.val]
      BY <2>4, StoreChange
    <3>2. store \in [Attrs -> Values]
      BY DEF ServiceInv, Types
    <3> QED
      BY <1>2, <2>1, <2>2, <3>1, <3>2 DEF LevelsRequests, LevelsRegisters
  <2> QED
    BY <2>3, <2>4
<1>3. CASE PartStep /\ part # "levels"
  BY <1>3 DEF PartStep, LevelsInv, ModesNext, LevelsNext, PortsNext, I2cNext
<1>4. CASE LevelsNext
  <2> USE <1>4 DEF LevelsNext, LevelsInv
  <2>0. copy \in [Attrs -> Values] /\ call.num \in Nat
    BY DEF ServiceInv, Types
  <2>1. CASE at' = "idle"
    BY <2>1 DEF LevelsRequests, LevelsRegisters
  <2>2. ASSUME NEW p, AnalogRead(p), at' # "idle"
        PROVE  LevelsInv'
    <3>1. ~(p >= Len(Analog))
      BY <2>2, EndIs DEF AnalogRead
    <3>2. Call("analog", p, {}) /\ Fetch(Analog[p + 1], "readAnalog")
      BY <2>2, <3>1 DEF AnalogRead
    <3> QED
      BY <3>2, CallIs, FetchIs DEF LevelsRequests, LevelsRegisters
  <2>3. ASSUME NEW p, NEW o \in {"on", "off", "level", "read"}, ReadFirst(o, p)
        PROVE  LevelsInv'
    BY <2>3, CallIs, FetchIs DEF ReadFirst, LevelsRequests, LevelsRegisters
  <2>4. ASSUME NEW w, WriteAll(w)
        PROVE  LevelsInv'
    BY <2>4, CallIs, SendIs DEF WriteAll, LevelsRequests, LevelsRegisters
  <2>5. CASE LevelRead /\ at' # "idle"
    <3> DEFINE old == IF Accepted THEN got.val ELSE copy["rw"]
               New(b) == IF call.op = "on" THEN old \cup b ELSE old \ b
               l == IF Accepted THEN "writeLevel" ELSE "writeOld"
    <3>1. After("readLevel") /\ UNCHANGED call /\ call.op \in {"on", "off"}
      BY <2>5, EndIs DEF LevelRead
    <3>2. PICK b \in Bit(call.num) : Send("rw", New(b), l)
      BY <2>5, EndIs DEF LevelRead
    <3>3. link = "live" /\ Accepted => old = store["rw"]
      BY <3>1 DEF After, ServiceInv, Effect, LevelsRequests, Get
    <3>4. call.num < Width => New(b) \ {call.num} = old \ {call.num}
      BY <2>0, <3>1, BitIsWord
    <3>4a. call.num < Width => ((call.num \in New(b)) <=> (call.op = "on"))
      BY <2>0, <3>1, BitIsWord
    <3>5. l \in {"writeLevel", "writeOld"} /\ (l = "writeLevel" => Accepted)
      OBVIOUS
    <3> HIDE DEF New, l, old
    <3>6. at' = l /\ req'.op = "set" /\ req'.att = "rw" /\ req'.val = New(b) /\ UNCHANGED <<link, store>>
      BY <3>2, SendIs
    <3>7. LevelsRequests'
      BY <3>1, <3>5, <3>6 DEF LevelsRequests
    <3>8. ASSUME link = "live", call.num < Width
          PROVE  /\ l = "writeLevel" => New(b) \ {call.num} = store["rw"] \ {call.num}
                 /\ (call.num \in New(b)) <=> (call.op = "on")
      BY <3>3, <3>4, <3>4a, <3>5, <3>8
    <3>9. link' = link /\ store' = store /\ call' = call /\ at' = l /\ req'.val = New(b)
      BY <3>1, <3>6
    <3>10. LevelsRegisters'
      BY <3>8, <3>9 DEF LevelsRegisters
    <3> QED
      BY <3>7, <3>10
  <2>6. CASE LevelWritten \/ AnalogAnswered
    BY <2>1, <2>6, EndIs DEF LevelWritten, AnalogAnswered
  <2> QED
    BY <2>1, <2>2, <2>3, <2>4, <2>5, <2>6
<1> QED
  BY <1>1, <1>2, <1>3, <1>4, NextCases DEF PartStep, ModesNext, PortsNext, I2cNext

LEMMA LevelsInvariant == Spec => [](ServiceInv /\ ControlInv /\ LevelsInv)
<1>1. Init => ServiceInv /\ ControlInv /\ LevelsInv
  BY InitService, InitControl DEF Init, OpInit, LevelsInv, LevelsRequests, LevelsRegisters
<1>2. ServiceInv /\ ControlInv /\ LevelsInv /\ [Next]_vars => (ServiceInv /\ ControlInv /\ LevelsInv)'
  BY NextService, NextControl, NextLevels
<1> QED
  BY <1>1, <1>2, PTL DEF Spec

(* digitalWrite (src/module/gpio_hw.cpp) changes the level of no other     *)
(* pin, except after a read that was refused.                              *)
THEOREM LevelIsLocalAlways == Spec => LevelIsLocal
<1>1. ASSUME ServiceInv, ControlInv, LevelsInv, [Next]_vars
      PROVE  Local("rw", gpioSteps \ {"writeOld"})
  <2> SUFFICES ASSUME link = "live", at # "writeOld", call.op # "write", call.num < Width,
                      store'["rw"] # store["rw"]
               PROVE  store'["rw"] \ {call.num} = store["rw"] \ {call.num}
    BY DEF Local
  <2>1. /\ req.op = "set" /\ store' = [store EXCEPT ![req.att] = req.val]
        /\ at \notin {"idle", "opened"}
    BY <1>1, StoreChange
  <2>2. req.att = "rw" /\ store'["rw"] = req.val
    BY <1>1, <2>1 DEF ServiceInv, Types
  <2>3. part = "levels"
    BY <1>1, <2>1, <2>2 DEF ServiceInv, Types, ControlInv, Uses, UsesModes, UsesPorts, UsesI2c
  <2>4. at = "writeLevel"
    BY <1>1, <2>1, <2>3 DEF ControlInv, Uses, UsesLevels, LevelsInv, LevelsRequests, Get
  <2> QED
    BY <1>1, <2>2, <2>3, <2>4 DEF LevelsInv, LevelsRegisters
<1>2. ServiceInv /\ ControlInv /\ LevelsInv /\ [Next]_vars => Local("rw", gpioSteps \ {"writeOld"})
  BY <1>1
<1> QED
  BY <1>2, LevelsInvariant, PTL DEF Spec, LevelIsLocal, vars

(* The step by which an operation on levels returns.                       *)
LEMMA LevelReturn ==
  ASSUME ServiceInv, ControlInv, LevelsInv, [Next]_vars, NEW ops,
         ops \in {{"on", "off"}, {"level"}, {"analog"}}, Returns(ops)
  PROVE  /\ LevelRead \/ LevelWritten \/ AnalogAnswered
         /\ LevelsRequests /\ LevelsRegisters /\ status = "idle" /\ link = "live"
         /\ at \notin {"idle", "opened"} /\ call.op \in ops /\ at' = "idle"
<1>1. part = "levels" /\ LevelsNext /\ at # "idle" /\ call.op \in ops /\ link = "live" /\ at' = "idle"
  BY ReturnSteps DEF Returns
<1>2. \A p : ~AnalogRead(p)
  BY <1>1 DEF AnalogRead, Call
<1>3. \A p, o : ~ReadFirst(o, p) /\ ~WriteAll(p)
  BY <1>1 DEF ReadFirst, WriteAll, Call
<1>4. LevelRead \/ LevelWritten \/ AnalogAnswered
  BY <1>1, <1>2, <1>3 DEF LevelsNext
<1> QED
  BY <1>1, <1>4 DEF LevelsInv, LevelRead, LevelWritten, AnalogAnswered, After

(* digitalWrite, digitalRead and analogRead tell the truth about the       *)
(* levels, where their requests were not refused.                          *)
THEOREM LevelTruthAlways == Spec => LevelTruth
<1>1. ASSUME ServiceInv, ControlInv, LevelsInv, [Next]_vars,
             Returns({"on", "off"}), call.num < Width, ~out'.error
      PROVE  (call.num \in store["rw"]) = (call.op = "on")
  <2>1. LevelWritten /\ LevelsRequests /\ LevelsRegisters /\ status = "idle" /\ link = "live" /\ at' = "idle"
    <3>1. ~AnalogAnswered
      BY <1>1, LevelReturn DEF AnalogAnswered, After, LevelsRequests
    <3>2. \A v : ~Send("rw", v, IF Accepted THEN "writeLevel" ELSE "writeOld")
      <4>1. at' = "idle"
        BY <1>1, LevelReturn
      <4> QED
        BY <4>1 DEF Send
    <3>3. ~LevelRead
      BY <1>1, <3>2, LevelReturn DEF LevelRead
    <3> QED
      BY <1>1, <3>1, <3>3, LevelReturn
  <2>2. Accepted
    <3>1. out' = Done(~Accepted, {})
      BY <2>1 DEF LevelWritten, End
    <3>2. out'.error = ~Accepted
      BY <3>1 DEF Done
    <3> QED
      BY <1>1, <3>2
  <2>3. at \in {"writeLevel", "writeOld"} /\ req.op = "set" /\ req.att = "rw" /\ call.op # "write"
    BY <1>1, <2>1, LevelReturn DEF LevelWritten, After, LevelsRequests
  <2>4. store["rw"] = req.val
    BY <1>1, <2>1, <2>2, <2>3 DEF ServiceInv, Effect
  <2> QED
    BY <1>1, <2>1, <2>3, <2>4 DEF LevelsRegisters
<1>2. ASSUME ServiceInv, ControlInv, LevelsInv, [Next]_vars,
             Returns({"level"}), call.num < Width, Accepted
      PROVE  (out'.word # {}) = (call.num \in store["rw"])
  <2>1. LevelRead /\ call.op = "level" /\ LevelsRequests /\ status = "idle" /\ link = "live"
    BY <1>2, LevelReturn DEF LevelWritten, AnalogAnswered, After, LevelsRequests
  <2>2. PICK b \in Bit(call.num) : End(FALSE, got.val \cap b)
    BY <1>2, <2>1 DEF LevelRead
  <2>3. got.val = store["rw"]
    BY <1>2, <2>1 DEF LevelRead, After, LevelsRequests, ServiceInv, Effect, Get
  <2>4. b = {call.num}
    BY <1>2, BitIsWord DEF ServiceInv, Types
  <2>5. out'.word = store["rw"] \cap {call.num}
    BY <2>2, <2>3, <2>4, EndIs
  <2>6. CASE call.num \in store["rw"]
    BY <2>5, <2>6
  <2>7. CASE call.num \notin store["rw"]
    BY <2>5, <2>7
  <2> QED
    BY <2>6, <2>7
<1>3. ASSUME ServiceInv, ControlInv, LevelsInv, [Next]_vars, Returns({"analog"}), Accepted
      PROVE  out'.word = store[Analog[call.num + 1]]
  <2>1. AnalogAnswered /\ LevelsRequests /\ status = "idle" /\ link = "live"
    BY <1>3, LevelReturn DEF LevelRead, LevelWritten, After, LevelsRequests
  <2>2. got.val = store[Analog[call.num + 1]]
    BY <1>3, <2>1 DEF AnalogAnswered, After, LevelsRequests, ServiceInv, Effect, Get
  <2>3. End(FALSE, got.val)
    BY <1>3, <2>1 DEF AnalogAnswered
  <2> QED
    BY <2>2, <2>3, EndIs
<1>4. ServiceInv /\ ControlInv /\ LevelsInv /\ [Next]_vars
      => /\ Returns({"on", "off"}) /\ call.num < Width /\ ~out'.error
              => (call.num \in store["rw"]) = (call.op = "on")
         /\ Returns({"level"}) /\ call.num < Width /\ Accepted
              => (out'.word # {}) = (call.num \in store["rw"])
         /\ Returns({"analog"}) /\ Accepted => out'.word = store[Analog[call.num + 1]]
  BY <1>1, <1>2, <1>3
<1> QED
  BY <1>4, LevelsInvariant, PTL DEF Spec, LevelTruth, vars
-----------------------------------------------------------------------------
(* The value of an Attribute.  Its bytes begin with those that were set    *)
(* last, and a value that has an end is followed by a terminator, if there *)
(* is none among its bytes and room for one.                               *)
ValueInv ==
  /\ str \in Seq(Octets) /\ Len(str) = ValueLen + 1
  /\ datlen \in 0 .. ValueLen
  /\ last \in Seq(Octets) /\ Len(last) = datlen
  /\ \A i \in 1 .. datlen : str[i] = last[i]
  /\ ended => Ended(last) \/ str[datlen + 1] = 0

LEMMA SomeLeast ==
  ASSUME NEW S, S \subseteq Nat, S # {}
  PROVE  Min(S) \in S /\ \A x \in S : Min(S) <= x
<1>1. \E m \in S : \A x \in S : <<x, m>> \notin OpToRel(<, Nat)
  BY NatLessThanWellFounded, WFMin, ZenonT(60)
<1>2. PICK m \in S : \A x \in S : <<x, m>> \notin OpToRel(<, Nat)
  BY <1>1
<1>3. \A x \in S : ~(x < m)
  BY <1>2 DEF OpToRel
<1>4. \A x \in S : m <= x
  BY <1>3
<1> QED
  BY <1>4 DEF Min

(* The text is what comes before the first zero. *)
LEMMA TextUpToZero ==
  ASSUME NEW bytes \in Seq(Octets), NEW k \in 1 .. Len(bytes), bytes[k] = 0,
         \A i \in 1 .. k - 1 : bytes[i] # 0
  PROVE  TextOf(bytes) = SubSeq(bytes, 1, k - 1)
<1> DEFINE Z == {i \in 1 .. Len(bytes) : bytes[i] = 0}
<1>1. 0 \in ToSet(bytes)
  BY DEF ToSet
<1>2. Z \subseteq Nat /\ k \in Z /\ \A i \in Z : k <= i
  OBVIOUS
<1>3. SelectInSeq(bytes, LAMBDA b : b = 0) = Min(Z)
  BY <1>2 DEF SelectInSeq
<1> HIDE DEF Z
<1>4. Min(Z) = k
  <2>1. Min(Z) \in Z /\ \A x \in Z : Min(Z) <= x
    BY <1>2, SomeLeast
  <2>2. Min(Z) \in Nat /\ k \in Nat /\ k <= Min(Z) /\ Min(Z) <= k
    BY <1>2, <2>1
  <2> QED
    BY <2>2
<1> QED
  BY <1>1, <1>3, <1>4 DEF TextOf

LEMMA TextWithoutZero ==
  ASSUME NEW bytes \in Seq(Octets), \A i \in 1 .. Len(bytes) : bytes[i] # 0
  PROVE  TextOf(bytes) = bytes
BY DEF TextOf, ToSet

LEMMA FirstZero ==
  ASSUME NEW bytes \in Seq(Octets), NEW j \in 1 .. Len(bytes), bytes[j] = 0
  PROVE  \E k \in 1 .. Len(bytes) : bytes[k] = 0 /\ k <= j /\ \A i \in 1 .. k - 1 : bytes[i] # 0
<1> DEFINE Z == {i \in 1 .. Len(bytes) : bytes[i] = 0}
<1>1. Z \subseteq Nat /\ j \in Z
  OBVIOUS
<1>2. Min(Z) \in Z /\ \A i \in Z : Min(Z) <= i
  <2> HIDE DEF Z
  <2> QED
    BY <1>1, SomeLeast
<1>3. PICK k \in Z : \A i \in Z : k <= i
  BY <1>2
<1>4. \A i \in 1 .. k - 1 : bytes[i] # 0
  BY <1>3
<1> QED
  BY <1>1, <1>3, <1>4

(* Whatever is set, the rest of the union stays. *)
LEMMA OverwriteIs ==
  ASSUME ValueInv, NEW bytes \in Seq(Octets), Len(bytes) <= ValueLen + 1, Overwrite(bytes)
  PROVE  /\ str' \in Seq(Octets) /\ Len(str') = ValueLen + 1
         /\ \A i \in 1 .. Len(bytes) : str'[i] = bytes[i]
<1>1. ValueLen \in Nat /\ Len(bytes) \in Nat /\ str \in Seq(Octets) /\ Len(str) = ValueLen + 1
  BY ValueAssumption DEF ValueInv
<1> DEFINE rest == SubSeq(str, Len(bytes) + 1, ValueLen + 1)
<1>2. rest \in Seq(Octets) /\ Len(rest) = ValueLen + 1 - Len(bytes)
  BY <1>1
<1>3. str' = bytes \o rest
  BY DEF Overwrite
<1> HIDE DEF rest
<1>4. bytes \o rest \in Seq(Octets) /\ Len(bytes \o rest) = Len(bytes) + Len(rest)
  BY <1>2, ConcatProperties
<1>5. ASSUME NEW i \in 1 .. Len(bytes) PROVE (bytes \o rest)[i] = bytes[i]
  <2>1. i \in 1 .. Len(bytes) + Len(rest) /\ i <= Len(bytes)
    BY <1>1, <1>2
  <2> QED
    BY <1>2, <2>1, ConcatProperties
<1> QED
  BY <1>1, <1>2, <1>3, <1>4, <1>5

LEMMA SetBytesInv ==
  ASSUME ValueInv, NEW bytes \in Seq(Octets), Len(bytes) <= ValueLen, Overwrite(bytes),
         datlen' = Len(bytes), last' = bytes, ended' = Ended(bytes)
  PROVE  ValueInv'
<1>1. Len(bytes) \in Nat /\ ValueLen \in Nat /\ Len(bytes) <= ValueLen + 1
  BY ValueAssumption
<1> QED
  BY <1>1, OverwriteIs DEF ValueInv

LEMMA InitValue == ValueInit => ValueInv
<1> SUFFICES ASSUME ValueInit PROVE ValueInv
  OBVIOUS
<1>1. PICK rest \in [1 .. ValueLen -> Octets] : str = <<0>> \o rest
  BY DEF ValueInit
<1>2. rest \in Seq(Octets) /\ Len(rest) = ValueLen /\ ValueLen \in Nat
  BY ValueAssumption
<1>3. <<0>> \in Seq(Octets) /\ Len(<<0>>) = 1 /\ <<0>>[1] = 0
  BY ValueAssumption
<1>4. str \in Seq(Octets) /\ Len(str) = ValueLen + 1 /\ str[1] = 0
  BY <1>1, <1>2, <1>3, ConcatProperties
<1>5. last = <<0>> /\ datlen = 1 /\ Ended(last)
  BY <1>3 DEF ValueInit, Ended
<1>6. last \in Seq(Octets) /\ Len(last) = 1 /\ \A i \in 1 .. 1 : str[i] = last[i]
  BY <1>3, <1>4, <1>5
<1>7. datlen \in 0 .. ValueLen
  BY <1>5, ValueAssumption
<1> QED
  BY <1>4, <1>5, <1>6, <1>7 DEF ValueInv

LEMMA NextValue == ValueInv /\ [ValueNext]_valueVars => ValueInv'
<1> SUFFICES ASSUME ValueInv, [ValueNext]_valueVars PROVE ValueInv'
  OBVIOUS
<1>0. ValueLen \in Nat /\ 0 \in Octets
  BY ValueAssumption
<1>1. CASE SetNumber
  <2>1. PICK width \in Widths : \E bytes \in [1 .. width -> Octets] :
          /\ Overwrite(bytes) /\ datlen' = width
          /\ last' = bytes /\ ended' = Ended(bytes)
    BY <1>1 DEF SetNumber
  <2>2. PICK bytes \in [1 .. width -> Octets] :
          /\ Overwrite(bytes) /\ datlen' = width
          /\ last' = bytes /\ ended' = Ended(bytes)
    BY <2>1
  <2>3. bytes \in Seq(Octets) /\ Len(bytes) = width /\ width <= ValueLen
    BY <1>0, ValueAssumption
  <2> QED
    BY <2>2, <2>3, SetBytesInv
<1>2. CASE SetString
  <2>1. PICK text \in SeqOf(Octets \ {0}, ValueLen) :
          /\ Len(text) < ValueLen
          /\ Overwrite(Append(text, 0)) /\ datlen' = Len(text)
          /\ last' = text /\ ended' = TRUE
    BY <1>2 DEF SetString
  <2>2. text \in Seq(Octets) /\ Len(text) \in 0 .. ValueLen
    BY <1>0 DEF SeqOf
  <2>3. /\ Append(text, 0) \in Seq(Octets) /\ Len(Append(text, 0)) = Len(text) + 1
        /\ Append(text, 0)[Len(text) + 1] = 0
        /\ \A i \in 1 .. Len(text) : Append(text, 0)[i] = text[i]
    BY <1>0, <2>2
  <2>4. /\ str' \in Seq(Octets) /\ Len(str') = ValueLen + 1
        /\ \A i \in 1 .. Len(text) + 1 : str'[i] = Append(text, 0)[i]
    <3>1. Len(Append(text, 0)) <= ValueLen + 1
      BY <1>0, <2>2, <2>3
    <3> QED
      BY <2>1, <2>3, <3>1, OverwriteIs
  <2>5. \A i \in 1 .. Len(text) : str'[i] = text[i]
    BY <2>2, <2>3, <2>4
  <2>6. str'[Len(text) + 1] = 0
    BY <2>2, <2>3, <2>4
  <2> QED
    BY <2>1, <2>2, <2>4, <2>5, <2>6 DEF ValueInv
<1>3. CASE SetBytes
  <2>1. PICK length \in -3 .. ValueLen + 1 :
          IF length % 256 <= ValueLen
          THEN \E bytes \in [1 .. length % 256 -> Octets] :
                 /\ Overwrite(bytes) /\ datlen' = length % 256
                 /\ last' = bytes /\ ended' = Ended(bytes)
          ELSE UNCHANGED valueVars
    BY <1>3 DEF SetBytes
  <2>2. CASE UNCHANGED valueVars
    BY <2>2 DEF ValueInv, valueVars, Ended
  <2>3. CASE length % 256 <= ValueLen
    <3>1. PICK bytes \in [1 .. length % 256 -> Octets] :
            /\ Overwrite(bytes) /\ datlen' = length % 256
            /\ last' = bytes /\ ended' = Ended(bytes)
      BY <2>1, <2>3
    <3>2. length % 256 \in Nat
      BY <1>0
    <3>3. bytes \in Seq(Octets) /\ Len(bytes) = length % 256
      BY <3>2
    <3> QED
      BY <2>3, <3>1, <3>3, SetBytesInv
  <2> QED
    BY <2>1, <2>2, <2>3
<1>4. CASE GetValueStr
  <2>1. /\ str' \in Seq(Octets) /\ Len(str') = ValueLen + 1
        /\ \A i \in 1 .. ValueLen : str'[i] = str[i]
        /\ str'[ValueLen + 1] = 0
    BY <1>0, <1>4 DEF GetValueStr, Closed, ValueInv
  <2>2. \A i \in 1 .. datlen : i \in 1 .. ValueLen
    BY <1>0 DEF ValueInv
  <2>3. datlen + 1 \in 1 .. ValueLen \/ datlen + 1 = ValueLen + 1
    BY <1>0 DEF ValueInv
  <2>4. str[datlen + 1] = 0 => str'[datlen + 1] = 0
    BY <2>1, <2>3
  <2> QED
    BY <1>4, <2>1, <2>2, <2>4 DEF GetValueStr, ValueInv, Ended
<1>5. CASE UNCHANGED valueVars
  BY <1>5 DEF ValueInv, valueVars, Ended
<1> QED
  BY <1>1, <1>2, <1>3, <1>4, <1>5 DEF ValueNext

LEMMA ValueText == ValueInv => TextReadsBack
<1> SUFFICES ASSUME ValueInv PROVE TextReadsBack
  OBVIOUS
<1> DEFINE c == Closed
<1>1. /\ ValueLen \in Nat /\ datlen \in 0 .. ValueLen
      /\ last \in Seq(Octets) /\ Len(last) = datlen
      /\ c \in Seq(Octets) /\ Len(c) = ValueLen + 1 /\ c[ValueLen + 1] = 0
      /\ \A i \in 1 .. datlen : c[i] = last[i]
      /\ ended => Ended(last) \/ c[datlen + 1] = 0
  BY ValueAssumption DEF ValueInv, Closed
<1> HIDE DEF c
<1>2. SubSeq(c, 1, datlen) = last
  BY <1>1
<1>3. CASE \E i \in 1 .. datlen : last[i] = 0
  <2>1. PICK k \in 1 .. datlen : last[k] = 0 /\ \A i \in 1 .. k - 1 : last[i] # 0
    <3>1. PICK j \in 1 .. Len(last) : last[j] = 0
      BY <1>1, <1>3
    <3> QED
      BY <1>1, <3>1, FirstZero
  <2>2. k \in 1 .. Len(c) /\ c[k] = 0 /\ \A i \in 1 .. k - 1 : c[i] # 0
    BY <1>1, <2>1
  <2>3. TextOf(last) = SubSeq(last, 1, k - 1) /\ TextOf(c) = SubSeq(c, 1, k - 1)
    BY <1>1, <2>1, <2>2, TextUpToZero
  <2>4. SubSeq(last, 1, k - 1) = SubSeq(c, 1, k - 1)
    BY <1>1, <2>1
  <2>5. TextOf(c) = TextOf(last)
    BY <2>3, <2>4
  <2> QED
    BY <1>2, <2>5 DEF TextReadsBack, c, IsPrefix
<1>4. CASE \A i \in 1 .. datlen : last[i] # 0
  <2>1. TextOf(last) = last
    BY <1>1, <1>4, TextWithoutZero
  <2>2. PICK k \in 1 .. Len(c) : c[k] = 0 /\ \A i \in 1 .. k - 1 : c[i] # 0
    <3>1. ValueLen + 1 \in 1 .. Len(c)
      BY <1>1
    <3>2. \E k \in 1 .. Len(c) : c[k] = 0 /\ k <= ValueLen + 1 /\ \A i \in 1 .. k - 1 : c[i] # 0
      BY <1>1, <3>1, FirstZero
    <3> QED
      BY <3>2
  <2>3. TextOf(c) = SubSeq(c, 1, k - 1)
    BY <1>1, <2>2, TextUpToZero
  <2>4. datlen <= k - 1
    BY <1>1, <1>4, <2>2
  <2>5. IsPrefix(last, SubSeq(c, 1, k - 1))
    BY <1>1, <2>2, <2>4 DEF IsPrefix
  <2>6. ended => k = datlen + 1
    <3> SUFFICES ASSUME ended PROVE k = datlen + 1
      OBVIOUS
    <3>1. datlen = ValueLen \/ c[datlen + 1] = 0
      BY <1>1, <1>4 DEF Ended
    <3>2. ~(datlen + 1 \in 1 .. k - 1)
      BY <1>1, <2>2, <3>1
    <3> QED
      BY <1>1, <2>2, <2>4, <3>2
  <2>7. ended => SubSeq(c, 1, k - 1) = last
    BY <1>1, <1>2, <2>6
  <2> QED
    BY <1>2, <2>1, <2>3, <2>5, <2>7 DEF TextReadsBack, c
<1> QED
  BY <1>3, <1>4

(* What writeAttribute sends of a value is what was set last, and the      *)
(* string that getValueStr returns begins with it, and ends with it too    *)
(* when the value has an end; for any bytes, lengths and earlier values.   *)
THEOREM TextReadsBackAlways == Spec => []TextReadsBack
<1>1. Init => ValueInv
  BY InitValue DEF Init
<1>2. [Next]_vars => [ValueNext]_valueVars
  BY DEF Next, vars
<1> QED
  BY <1>1, <1>2, NextValue, ValueText, PTL DEF Spec
=============================================================================

-------------------------------- MODULE Gpio --------------------------------
(***************************************************************************)
(* GpioHw (src/module/gpio_hw.cpp) and AdcHw, the pins of a Tbit or a      *)
(* Chopper: to change one bit GpioHw reads and writes whole registers of   *)
(* the device.                                                             *)
(***************************************************************************)
EXTENDS Operation, Sequences

CONSTANTS Pins,    \* the pin numbers that are passed, good and bad ones
          Analog   \* the attributes of the analog pins, from pin 0 on

Modes == {"output", "input", "pullup", "pulldown"}

ASSUME GpioAssumption == /\ Pins \subseteq Nat
                         /\ {"mode", "pull", "rw"} \subseteq Attrs
                         /\ Analog \in Seq(Attrs)
-----------------------------------------------------------------------------
(* pinMode.  A pin number that is too large is no error, and one that is   *)
(* too large by one is let through.                                        *)
PinMode(p, m) == /\ \/ p > Width /\ at = "idle" /\ End(FALSE, {})
                    \/ p <= Width /\ Call(m, p, {}) /\ Fetch("mode", "readMode")
                 /\ UNCHANGED copy

(* Wrong (for PinModeIsLocal): goes on with the copy after a refused read. *)
ModeReadOrNot ==
  /\ After("readMode")
  /\ LET old == IF Accepted THEN got.val ELSE copy["mode"]
     IN \/ /\ call.op = "output"
           /\ \E b \in Bit(call.num) :
                Send("mode", old \ b, "writeMode") /\ Keep("mode", old \ b)
        \/ /\ call.op # "output"
           /\ Fetch("pull", "readPull") /\ Keep("mode", old)
  /\ UNCHANGED call

ModeRead ==
  \/ After("readMode") /\ Refused
  \/ /\ After("readMode") /\ Accepted
     /\ \/ /\ call.op = "output"
           /\ \E b \in Bit(call.num) :
                Send("mode", got.val \ b, "writeMode") /\ Keep("mode", got.val \ b)
        \/ /\ call.op # "output"
           /\ Fetch("pull", "readPull") /\ Keep("mode", got.val)
     /\ UNCHANGED call

PullRead ==
  \/ After("readPull") /\ Refused
  \/ /\ After("readPull") /\ Accepted
     /\ \/ /\ call.op = "pulldown"
           /\ End(TRUE, {}) /\ Keep("pull", got.val)
        \/ /\ call.op \in {"input", "pullup"}
           /\ UNCHANGED call
           /\ \E b \in Bit(call.num) :
                LET new == IF call.op = "pullup" THEN got.val \cup b ELSE got.val \ b
                IN Send("pull", new, "writePull") /\ Keep("pull", new)

SetInput == /\ \E b \in Bit(call.num) : LET new == copy["mode"] \cup b
                                        IN Send("mode", new, "writeMode") /\ Keep("mode", new)
            /\ UNCHANGED call

(* Wrong (for InputAfterPull): does not look at the answer. *)
PullWrittenOrNot == After("writePull") /\ SetInput

PullWritten == \/ After("writePull") /\ Refused
               \/ After("writePull") /\ Accepted /\ SetInput

(* Wrong (for PinModeTruth): does not look at the answer. *)
ModeWrittenOrNot == After("writeMode") /\ End(FALSE, {}) /\ UNCHANGED copy

ModeWritten == After("writeMode") /\ End(~Accepted, {}) /\ UNCHANGED copy
-----------------------------------------------------------------------------
(* write, read, digitalWrite and digitalRead. *)

WriteAll(w) == Call("write", 0, w) /\ Send("rw", w, "writeLevel") /\ Keep("rw", w)

(* Wrong (for LevelIsLocal): changes the copy without reading first. *)
WriteCopy(o, p) ==
  \/ /\ o \in {"on", "off"} /\ Call(o, p, {})
     /\ \E b \in Bit(p) :
          LET new == IF o = "on" THEN copy["rw"] \cup b ELSE copy["rw"] \ b
          IN Send("rw", new, "writeLevel") /\ Keep("rw", new)
  \/ /\ o \in {"level", "read"} /\ Call(o, p, {})
     /\ Fetch("rw", "readLevel") /\ UNCHANGED copy

ReadFirst(o, p) == Call(o, p, {}) /\ Fetch("rw", "readLevel") /\ UNCHANGED copy

(* A refused read reads as all ones.  digitalWrite ignores it and changes  *)
(* the copy that it has ("writeOld").                                      *)
LevelRead ==
  /\ After("readLevel")
  /\ LET old  == IF Accepted THEN got.val ELSE copy["rw"]
         read == IF Accepted THEN got.val ELSE Bits
     IN \/ /\ call.op = "read"
           /\ End(FALSE, read) /\ Keep("rw", old)
        \/ /\ call.op = "level"
           /\ \E b \in Bit(call.num) : End(FALSE, read \cap b)
           /\ Keep("rw", old)
        \/ /\ call.op \in {"on", "off"}
           /\ UNCHANGED call
           /\ \E b \in Bit(call.num) :
                LET new == IF call.op = "on" THEN old \cup b ELSE old \ b
                IN /\ Send("rw", new, IF Accepted THEN "writeLevel" ELSE "writeOld")
                   /\ Keep("rw", new)

LevelWritten == /\ After("writeLevel") \/ After("writeOld")
                /\ End(~Accepted, {})
                /\ UNCHANGED copy

(* analogRead: an error, and a pin that is not there, read as all ones.    *)
(* The copies are left out, each is read anew before it is used.           *)
AnalogRead(p) ==
  IF p >= Len(Analog) THEN at = "idle" /\ End(FALSE, Bits) /\ UNCHANGED copy
  ELSE Call("analog", p, {}) /\ Fetch(Analog[p + 1], "readAnalog") /\ UNCHANGED copy

AnalogAnswered == /\ After("readAnalog")
                  /\ End(FALSE, IF Accepted THEN got.val ELSE Bits)
                  /\ UNCHANGED copy

ModesNext == /\ part = "modes"
             /\ \/ \E p \in Pins, m \in Modes : PinMode(p, m)
                \/ ModeRead \/ PullRead \/ PullWritten \/ ModeWritten
             /\ UNCHANGED part

LevelsNext == /\ part = "levels"
              /\ \/ \E w \in Values : WriteAll(w)
                 \/ \E p \in Pins, o \in {"on", "off", "level"} : ReadFirst(o, p)
                 \/ ReadFirst("read", 0)
                 \/ LevelRead \/ LevelWritten
                 \/ (\E p \in Pins : AnalogRead(p)) \/ AnalogAnswered
              /\ UNCHANGED part

gpioSteps == {"readMode", "readPull", "writePull", "writeMode",
              "readLevel", "writeLevel", "writeOld", "readAnalog"}
-----------------------------------------------------------------------------
(* The properties, for pin numbers that there are; they are checked as     *)
(* properties of Peripherals.                                              *)

(* An operation on one pin, at l, leaves the other bits of register a      *)
(* alone.                                                                  *)
Local(a, l) == /\ link = "live" /\ at \in l
               /\ call.op # "write" /\ call.num < Width
               => store'[a] \ {call.num} = store[a] \ {call.num}

(* pinMode changes the direction and the pull-up of its own pin only, even *)
(* if requests are refused and although it writes whole registers.         *)
PinModeIsLocal == [][Local("mode", gpioSteps) /\ Local("pull", gpioSteps)]_<<attVars, opVars>>

(* A pin becomes an input only when its pull-up is as it was asked for: a  *)
(* call that is refused half way never leaves an input with the pull-up of *)
(* an earlier use.                                                         *)
InputAfterPull ==
  [][\A b \in Bits :
       /\ link = "live" /\ call.num < Width
       /\ b \notin store["mode"] /\ b \in store'["mode"]
       => (b \in store["pull"]) = (call.op = "pullup")]_<<attVars, opVars>>

(* When pinMode succeeds, the pin is in the mode that was asked for; it    *)
(* never claims to have set a pull-down.                                   *)
PinModeTruth ==
  [][Returns(Modes) /\ call.num < Width /\ ~out'.error
       => /\ (call.num \in store["mode"]) = (call.op # "output")
          /\ call.op # "output" => (call.num \in store["pull"]) = (call.op = "pullup")
          /\ call.op # "pulldown"]_<<attVars, opVars>>

(* digitalWrite changes the level of its own pin only, unless its read was *)
(* refused; ...                                                            *)
LevelIsLocal == [][Local("rw", gpioSteps \ {"writeOld"})]_<<attVars, opVars>>

(* ... what it reports to have written is the level of its pin, and so is  *)
(* what digitalRead returns, unless that was refused; analogRead returns   *)
(* what its own pin has.                                                   *)
LevelTruth ==
  [][/\ Returns({"on", "off"}) /\ call.num < Width /\ ~out'.error
           => (call.num \in store["rw"]) = (call.op = "on")
     /\ Returns({"level"}) /\ call.num < Width /\ Accepted
           => (out'.word # {}) = (call.num \in store["rw"])
     /\ Returns({"analog"}) /\ Accepted => out'.word = store[Analog[call.num + 1]]]_<<attVars, opVars>>
=============================================================================

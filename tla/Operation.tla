----------------------------- MODULE Operation -----------------------------
(***************************************************************************)
(* What the classes that are built on TbiService have in common: GpioHw    *)
(* and I2cHw, the parts of a Tbit, and Chopper.  An operation of theirs is *)
(* one to four requests of one calling thread, each of which may be        *)
(* refused or never return, and they keep copies of the attributes.        *)
(* Modules Gpio, UsbPorts and I2c describe them, Peripherals puts them     *)
(* together.                                                               *)
(*                                                                         *)
(* A word is the set of the numbers of the bits that are set.              *)
(***************************************************************************)
EXTENDS AttributeService, Naturals

CONSTANTS Width,   \* of a word: 32 in the code
          Byte     \* the bits that Attvalue's constructor clears: 8

Bits == 0 .. Width - 1

ASSUME OperationAssumption == /\ Width \in Nat \ {0}
                              /\ Byte \in 0 .. Width
                              /\ Values = SUBSET Bits
                              /\ Contents \subseteq [Attrs -> Values]

VARIABLES part,   \* the operations the program uses: no two of "modes" and
                  \* "levels" (of pins), "ports" and "i2c" share an attribute;
                  \* "value": an Attribute by itself
          copy,   \* the values of the Attribute objects
          call,   \* the operation under way: [op, num, word]
          at,     \* the request whose end it awaits; "idle" between calls
          out     \* what the last operation returned: [error, word]

opVars == <<part, copy, call, at, out>>

NoCall     == [op |-> "none", num |-> 0, word |-> {}]
Done(e, w) == [error |-> e, word |-> w]

(* Only the first byte of a new Attvalue is defined.  The rest is the same *)
(* in every copy here: no operation uses two copies before it sets them.   *)
OpInit == /\ part \in {"modes", "levels", "ports", "i2c", "value"}
          /\ copy \in {[a \in Attrs |-> w] : w \in SUBSET (Byte .. Width - 1)}
          /\ call = NoCall
          /\ at = "idle"
          /\ out = Done(FALSE, {})

(* Wrong (for LevelTruth): counts the bits from one. *)
BitFromOne(n) == {{(n + 1) % Width}}

(* 1 << n.  Where n is too large the result is undefined: nothing, or the  *)
(* bit that a shifter finds that takes n modulo its width.                 *)
Bit(n) == IF n < Width THEN {{n}} ELSE {{}, {n % Width}}
-----------------------------------------------------------------------------
Call(o, n, w) == at = "idle" /\ call' = [op |-> o, num |-> n, word |-> w]

After(l) == at = l /\ status = "idle"

Fetch(a, l) == Ask(Get(a)) /\ at' = l /\ UNCHANGED out

Send(a, w, l) == Ask(Set(a, w)) /\ at' = l /\ UNCHANGED out

Keep(a, w) == copy' = [copy EXCEPT ![a] = w]

End(e, w) == /\ at' = "idle"
             /\ call' = NoCall
             /\ out' = Done(e, w)
             /\ UNCHANGED attVars

Accepted == got.rc = "ok"
Refused  == got.rc = "fail" /\ End(TRUE, {}) /\ UNCHANGED copy

(* An operation returns, on the device on which it was called. *)
Returns(ops) == at # "idle" /\ at' = "idle" /\ call.op \in ops /\ link = "live"
=============================================================================

---------------------------- MODULE MCPeripherals ----------------------------
(* An instance of Peripherals for TLC: words of two bits. *)
EXTENDS Peripherals

Registers == {"mode", "pull", "rw", "ctrl", "deviceAddr", "regAddr", "rw2Byte", "rw3Byte",
              "adc0", "adc1"}

TwoChannels == <<"adc0", "adc1">>

Words == SUBSET (0 .. 1)

(* A device in which all is zero, one in which all is one, and one in      *)
(* which no two registers that a pin needs agree.                          *)
Devices == {[a \in Registers |-> {}], [a \in Registers |-> 0 .. 1],
            [a \in Registers |-> IF a \in {"pull", "ctrl", "adc0"} THEN {1} ELSE {0}]}
=============================================================================

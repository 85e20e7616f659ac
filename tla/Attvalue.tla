------------------------------ MODULE Attvalue ------------------------------
(***************************************************************************)
(* The value of an Attribute (src/attribute.cpp): a union of numbers and a *)
(* string, set by the program and by the answers of the device.  It may be *)
(* read as any of them, whatever was set.                                  *)
(***************************************************************************)
EXTENDS Integers, Sequences, SequencesExt

CONSTANTS Octets,    \* what a byte may be, 0 among them
          ValueLen,  \* VALUE_LEN, 32 in the code
          Widths     \* of the numbers: 1, 2, 4 and 8 in the code

ASSUME ValueAssumption == 0 \in Octets /\ ValueLen \in Nat \ {0} /\ Widths \subseteq 1 .. ValueLen

VARIABLES str,     \* dat.str, of ValueLen + 1 bytes
          datlen,
          last,    \* history: the bytes that were set last ...
          ended    \* ... and whether they have an end: as a string does, or a
                   \* terminator among them, or no room for more

valueVars == <<str, datlen, last, ended>>

(* The constructor sets one byte; the others are undefined. *)
ValueInit == /\ str \in {<<0>> \o rest : rest \in [1 .. ValueLen -> Octets]}
             /\ datlen = 1
             /\ last = <<0>> /\ ended = TRUE

Overwrite(bytes) == str' = bytes \o SubSeq(str, Len(bytes) + 1, ValueLen + 1)

Ended(bytes) == Len(bytes) = ValueLen \/ \E i \in 1 .. Len(bytes) : bytes[i] = 0

(* setValue of a number. *)
SetNumber == \E width \in Widths : \E bytes \in [1 .. width -> Octets] :
               /\ Overwrite(bytes) /\ datlen' = width
               /\ last' = bytes /\ ended' = Ended(bytes)

(* setValue of a string, that fails when it is too long. *)
SetString == \E text \in SeqOf(Octets \ {0}, ValueLen) :
               /\ Len(text) < ValueLen
               /\ Overwrite(Append(text, 0)) /\ datlen' = Len(text)
               /\ last' = text /\ ended' = TRUE

(* setValue of the bytes of an answer.  readAttribute has their length     *)
(* from the report's first byte, and it may be negative; setValue takes it *)
(* as a uint8_t.                                                           *)
SetBytes ==
  \E length \in -3 .. ValueLen + 1 :
    IF length % 256 <= ValueLen
    THEN \E bytes \in [1 .. length % 256 -> Octets] :
           /\ Overwrite(bytes) /\ datlen' = length % 256
           /\ last' = bytes /\ ended' = Ended(bytes)
    ELSE UNCHANGED valueVars

(* Wrong (for TextReadsBack): does not close the string. *)
LeftOpen == str

(* getValueStr, with which the value is also sent, closes the string where *)
(* the union ends.                                                         *)
Closed == [str EXCEPT ![ValueLen + 1] = 0]

GetValueStr == str' = Closed /\ UNCHANGED <<datlen, last, ended>>

ValueNext == SetNumber \/ SetString \/ SetBytes \/ GetValueStr

TextOf(bytes) ==
  IF 0 \in ToSet(bytes) THEN SubSeq(bytes, 1, SelectInSeq(bytes, LAMBDA b : b = 0) - 1) ELSE bytes
-----------------------------------------------------------------------------
(* What writeAttribute sends is what was set last, and the string that     *)
(* getValueStr returns begins with it.  It ends with it as well if the     *)
(* value has an end; an answer that has none is followed by the rest of an *)
(* earlier value, or by what the constructor has left undefined.  A string *)
(* that is too long, and an answer of a negative length, change nothing.   *)
TextReadsBack ==
  /\ SubSeq(Closed, 1, datlen) = last
  /\ IsPrefix(TextOf(last), TextOf(Closed))
  /\ ended => TextOf(Closed) = TextOf(last)
=============================================================================

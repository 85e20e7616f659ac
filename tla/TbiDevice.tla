----------------------------- MODULE TbiDevice -----------------------------
(***************************************************************************)
(* A Toolbit device behind TbiDevice (src/tbi_device.cpp).  Every          *)
(* operation of TbiDevice holds its mutex from the test of the handle to   *)
(* the return, so each is one atomic action; what several of them make     *)
(* together is not.                                                        *)
(*                                                                         *)
(* The firmware, the cable and hidapi are outside this library: they are   *)
(* modelled by what the library's code relies on.  The device answers the  *)
(* requests it gets in order, each at most once, and may speak without     *)
(* being asked; hidapi keeps what arrives in a ring that loses a report    *)
(* when it is full.  Faults names what else may go wrong:                  *)
(*   "unplug"  the device is taken away, and one plugged in again          *)
(*   "loss"    a report is lost, in either direction                       *)
(*   "refuse"  the device answers RC_FAIL                                  *)
(*   "flood"   unasked reports may fill the ring                           *)
(***************************************************************************)
EXTENDS Naturals, Sequences, FiniteSets

CONSTANTS Callers,   \* the application threads that use the device
          Attrs,     \* attribute ids
          Values,    \* attribute values
          Nothing,   \* "no value"
          Noise,     \* what the device may send unasked
          InLimit,   \* reports hidapi's input ring holds
          Faults

ASSUME DeviceAssumption ==
  /\ IsFiniteSet(Callers)
  /\ InLimit \in Nat
  /\ Cardinality(Callers) < InLimit
  /\ Nothing \notin Values
  /\ Noise \subseteq {"interrupt", "event", "alien"}
  /\ Faults \subseteq {"unplug", "loss", "refuse", "flood"}

VARIABLES plugged,  \* a device is attached
          store,    \* the attributes it holds
          outq,     \* the requests it has not answered yet
          inq,      \* hidapi's ring of received reports
          handle    \* TbiDevice::handle: "null", "live", or "dead" when the
                    \* device it was opened on is gone

deviceVars == <<plugged, store, outq, inq, handle>>

Requests == [op : {"get"}, att : Attrs, val : {Nothing}]
              \cup [op : {"set"}, att : Attrs, val : Values]
Answers  == [kind : {"answer"}, op : {"get", "set"}, rc : {"ok", "fail"},
             val : Values \cup {Nothing}]
Unasked  == [kind : Noise, op : {"none"}, rc : {"none"}, val : {Nothing}]
Packets  == Answers \cup Unasked

DeviceInit == /\ plugged \in BOOLEAN
              /\ store \in [Attrs -> Values]
              /\ outq = <<>>
              /\ inq = <<>>
              /\ handle = "null"
-----------------------------------------------------------------------------
(* External: the device and hidapi.                                        *)

(* A report reaches the ring.  A full ring drops the newest report (the    *)
(* Linux kernel) or the oldest (hidapi on macOS).                          *)
Arrive(p) == IF Len(inq) < InLimit
               THEN inq' = Append(inq, p)
               ELSE inq' = inq \/ inq' = Append(Tail(inq), p)

Lost == handle # "live" \/ "loss" \in Faults

Answer(r, rc) == [kind |-> "answer", op |-> r.op, rc |-> rc,
                  val |-> IF r.op = "get" /\ rc = "ok" THEN store[r.att] ELSE Nothing]

DeviceAnswers ==
  /\ outq # <<>>
  /\ \E rc \in {"ok"} \cup (IF "refuse" \in Faults THEN {"fail"} ELSE {}) :
       LET r == Head(outq)
       IN /\ store' = IF r.op = "set" /\ rc = "ok"
                        THEN [store EXCEPT ![r.att] = r.val] ELSE store
          /\ \/ handle = "live" /\ Arrive(Answer(r, rc))
             \/ Lost /\ UNCHANGED inq
  /\ outq' = Tail(outq)
  /\ UNCHANGED <<plugged, handle>>

DeviceSpeaks ==
  /\ handle = "live"
  /\ "flood" \in Faults \/ Len(inq) + Cardinality(Callers) < InLimit
  /\ \E k \in Noise :
       Arrive([kind |-> k, op |-> "none", rc |-> "none", val |-> Nothing])
  /\ UNCHANGED <<plugged, store, outq, handle>>

(* What was received before can still be read on macOS, not on Linux. *)
Unplug == /\ "unplug" \in Faults
          /\ plugged
          /\ plugged' = FALSE
          /\ outq' = <<>>
          /\ inq' \in {inq, <<>>}
          /\ handle' = IF handle = "live" THEN "dead" ELSE handle
          /\ UNCHANGED store

(* Perhaps another device, that holds other attributes. *)
Replug == /\ ~plugged
          /\ plugged' = TRUE
          /\ store' \in [Attrs -> Values]
          /\ UNCHANGED <<outq, inq, handle>>

Environment == DeviceAnswers \/ DeviceSpeaks \/ Unplug \/ Replug
-----------------------------------------------------------------------------
(* TbiDevice's operations. *)

isOpen == handle # "null"

(* hid_open_path succeeds only on an attached device.  A failure, or a     *)
(* handle that is open already, changes nothing.                           *)
DeviceOpen == /\ ~isOpen
              /\ plugged
              /\ handle' = "live"
              /\ inq' = <<>>
              /\ UNCHANGED <<plugged, store, outq>>

(* Nothing changes when the handle is null. *)
DeviceClose == /\ handle' = "null"
               /\ inq' = <<>>
               /\ UNCHANGED <<plugged, store, outq>>

(* The result of hid_write is ignored: a report that cannot be sent is a   *)
(* report that is lost.                                                    *)
DeviceWrite(r) == /\ \/ handle = "live" /\ outq' = Append(outq, r)
                     \/ Lost /\ UNCHANGED outq
                  /\ UNCHANGED <<plugged, store, inq, handle>>

(* A non-blocking read takes the oldest report from the ring, if any. *)
DeviceRead == /\ isOpen
              /\ inq # <<>>
              /\ inq' = Tail(inq)
              /\ UNCHANGED <<plugged, store, outq, handle>>
CannotRead == ~isOpen \/ inq = <<>>

DeviceTypeOK == /\ plugged \in BOOLEAN
                /\ store \in [Attrs -> Values]
                /\ outq \in Seq(Requests)
                /\ inq \in Seq(Packets) /\ Len(inq) <= InLimit
                /\ handle \in {"null", "live", "dead"}
=============================================================================

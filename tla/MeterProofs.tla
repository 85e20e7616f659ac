---------------------------- MODULE MeterProofs ----------------------------
(***************************************************************************)
(* Theorems about Meter, for any channels, interval, buffer, packet size,  *)
(* poll limit and integrating times.                                       *)
(***************************************************************************)
EXTENDS Meter, TLAPS

LEMMA Multiple ==
  ASSUME NEW n \in Nat PROVE Interval * n >= n
BY MeterAssumption

(* A window that is not full is shorter than the buffer. *)
InBuffer == /\ integratingTime \in Nat /\ integratingTime <= BufMax
            /\ data_cnt \in Nat
            /\ handler \in {"idle", "sample", "nan"} => data_cnt < BufMax

LEMMA NextInBuffer == InBuffer /\ [Next]_vars => InBuffer'
<1> SUFFICES ASSUME InBuffer, [Next]_vars PROVE InBuffer'
  OBVIOUS
<1> USE MeterAssumption DEF InBuffer
<1>1. CASE Open \/ Close \/ MainStep \/ \E v \in Modes : SetTriggerMode(v)
  BY <1>1 DEF Open, Close, MainStep, DeviceAnswers, Answered, StopAndClose, SetTriggerMode,
              windowVars
<1>2. CASE \E ms \in Times : SetIntegratingTime(ms)
  BY <1>2 DEF SetIntegratingTime, windowVars
<1>3. CASE Packet
  BY <1>3 DEF Packet, windowVars
<1>4. CASE Sample
  <2>1. CASE Interval * (data_cnt + 1) >= integratingTime
    BY <1>4, <2>1 DEF Sample
  <2>2. CASE ~(Interval * (data_cnt + 1) >= integratingTime)
    <3>1. /\ Interval * (data_cnt + 1) \in Nat
          /\ Interval * (data_cnt + 1) >= data_cnt + 1
      BY Multiple
    <3>2. data_cnt + 1 < BufMax
      BY <2>2, <3>1
    <3> QED
      BY <1>4, <3>2 DEF Sample
  <2> QED
    BY <2>1, <2>2
<1>5. CASE Lock \/ Latest \/ Flags \/ WriteNan
  BY <1>5 DEF Lock, Latest, Flags, WriteNan, windowVars
<1>6. CASE Reset
  BY <1>6 DEF Reset
<1>7. CASE \E ch \in Channels : Get(ch) \/ Getter(ch) \/ GetLock(ch)
  BY <1>7 DEF Get, Getter, GetLock, Poll, Clear, Read, windowVars
<1>8. CASE UNCHANGED vars
  BY <1>8 DEF vars, windowVars
<1> QED
  BY <1>1, <1>2, <1>3, <1>4, <1>5, <1>6, <1>7, <1>8 DEF Next, Handler

(* Every sample is stored inside the buffers, for any integrating times    *)
(* that Main sets and at whatever moment it does.                          *)
THEOREM BufferInBoundsAlways == Spec => []BufferInBounds
<1>1. Init => InBuffer
  BY MeterAssumption DEF Init, InBuffer
<1>2. InBuffer => BufferInBounds
  BY DEF InBuffer, BufferInBounds
<1> QED
  BY <1>1, <1>2, NextInBuffer, PTL DEF Spec
-----------------------------------------------------------------------------
(* Who holds mtx, and what the flags mean meanwhile. *)

Owners == /\ handler \in {"latest", "flags", "reset"} <=> mtx = "worker"
          /\ \A ch \in Channels : getter[ch] \in {"clear", "read"} <=> mtx = ch
          /\ mtx \in Channels \cup {"free", "worker"}

FunctionTypes == /\ updated \in [Channels -> BOOLEAN]
                 /\ fresh \in [Channels -> BOOLEAN]
                 /\ getter \in [Channels -> {"idle", "poll", "lock", "clear", "read"}]

(* The flag and the history variable agree, except where the handler has   *)
(* stored an average and not yet raised the flags, and where a getter has  *)
(* taken its flag down and not yet read.                                   *)
Agree == \A ch \in Channels :
  /\ getter[ch] \in {"lock", "clear"} => updated[ch]
  /\ handler = "flags" => fresh[ch]
  /\ getter[ch] = "read" => fresh[ch] /\ ~updated[ch]
  /\ handler # "flags" /\ getter[ch] # "read" => (updated[ch] <=> fresh[ch])

Flagged == Owners /\ FunctionTypes /\ Agree

LEMMA InitFlagged == Init => Flagged
BY MeterAssumption DEF Init, Flagged, Owners, FunctionTypes, Agree

LEMMA NextFlagged == Flagged /\ [Next]_vars => Flagged'
<1> SUFFICES ASSUME Flagged, [Next]_vars PROVE Flagged'
  OBVIOUS
<1> USE MeterAssumption DEF Flagged, Owners, FunctionTypes, Agree
<1>1. CASE \/ Open \/ Close \/ MainStep \/ \E v \in Modes : SetTriggerMode(v)
           \/ \E ms \in Times : SetIntegratingTime(ms)
  BY <1>1 DEF Open, Close, MainStep, DeviceAnswers, Answered, StopAndClose, SetTriggerMode,
              SetIntegratingTime, getVars
<1>2. CASE Packet \/ Sample \/ WriteNan
  BY <1>2 DEF Packet, Sample, WriteNan, NextSample, getVars
<1>3. CASE Lock
  BY <1>3 DEF Lock, getVars
<1>4. CASE Latest
  BY <1>4 DEF Latest, getVars
<1>5. CASE Flags
  BY <1>5 DEF Flags, getVars
<1>6. CASE Reset
  BY <1>6 DEF Reset, NextSample, getVars
<1>7. ASSUME NEW ch \in Channels, Get(ch) \/ Poll(ch) PROVE Flagged'
  BY <1>7 DEF Get, Poll
<1>8. ASSUME NEW ch \in Channels, GetLock(ch) PROVE Flagged'
  BY <1>8 DEF GetLock
<1>9. ASSUME NEW ch \in Channels, Clear(ch) PROVE Flagged'
  BY <1>9 DEF Clear
<1>10. ASSUME NEW ch \in Channels, Read(ch) PROVE Flagged'
  BY <1>10 DEF Read
<1>11. CASE UNCHANGED vars
  BY <1>11 DEF vars, getVars
<1> QED
  BY <1>1, <1>2, <1>3, <1>4, <1>5, <1>6, <1>7, <1>8, <1>9, <1>10, <1>11
     DEF Next, Handler, Getter

LEMMA FlaggedHolds == Spec => []Flagged
BY InitFlagged, NextFlagged, PTL DEF Spec

(* No window is reported twice to a getter, and none that is still the     *)
(* latest goes unannounced.                                                *)
THEOREM FlagTellsTruthAlways == Spec => []FlagTellsTruth
<1>1. Flagged => FlagTellsTruth
  <2> SUFFICES ASSUME Flagged PROVE FlagTellsTruth
    OBVIOUS
  <2>1. ASSUME mtx = "free", NEW ch \in Channels PROVE updated[ch] = fresh[ch]
    <3>1. handler # "flags" /\ getter[ch] # "read"
      BY <2>1, MeterAssumption DEF Flagged, Owners
    <3>2. updated[ch] \in BOOLEAN /\ fresh[ch] \in BOOLEAN /\ (updated[ch] <=> fresh[ch])
      BY <3>1 DEF Flagged, FunctionTypes, Agree
    <3> QED
      BY <3>2
  <2>2. mtx = "free" => updated = fresh
    BY <2>1 DEF Flagged, FunctionTypes
  <2> QED
    BY <2>2 DEF Flagged, Agree, FlagTellsTruth
<1> QED
  BY <1>1, FlaggedHolds, PTL

(* An average is published and taken under mtx, whatever packets come.     *)
THEOREM AveragesLockedAlways == Spec => []AveragesLocked
<1>1. Flagged => AveragesLocked
  BY MeterAssumption DEF Flagged, Owners, AveragesLocked
<1> QED
  BY <1>1, FlaggedHolds, PTL

(* With packets of the one length the handler expects, the latest averages *)
(* are only touched under mtx.                                             *)
THEOREM NoDataRaceAlways == ASSUME ~Malformed PROVE Spec => []NoDataRace
<1> DEFINE NoNan == handler # "nan"
<1>1. Init => NoNan
  BY DEF Init
<1>2. NoNan /\ [Next]_vars => NoNan'
  BY DEF Next, Open, Close, MainStep, DeviceAnswers, Answered, StopAndClose, SetTriggerMode,
         SetIntegratingTime, Packet, Handler, Sample, NextSample, Lock, Latest, Flags, Reset,
         WriteNan, Get, Getter, GetLock, Poll, Clear, Read, vars
<1>3. Flagged /\ NoNan => NoDataRace
  BY MeterAssumption DEF Flagged, Owners, NoDataRace
<1> QED
  <2> HIDE DEF NoNan
  <2> QED
    BY <1>1, <1>2, <1>3, FlaggedHolds, PTL DEF Spec
-----------------------------------------------------------------------------
(* What a getter may still return from before the opening: nothing, once   *)
(* a window that began after the opening has been published; the latest    *)
(* average until then, if it has not returned it; and the half-filled      *)
(* window, if one was left.                                                *)
Closed == ~open => handler = "idle" /\ main = "idle"

OldLeft(ch) == IF fresh[ch] THEN 1 ELSE 0

Budget == \A ch \in Channels :
  /\ reads[ch] \in 0..2
  /\ latestOld => reads[ch] + OldLeft(ch) <= 2
  /\ windowOld /\ handler \notin {"flags", "reset"} => reads[ch] + OldLeft(ch) <= 1
  /\ windowOld => latestOld

Aged == /\ Closed /\ Budget
        /\ reads \in [Channels -> 0..2] /\ data_cnt \in Nat

LEMMA InitAged == Init => Aged
BY DEF Init, Aged, Closed, Budget, OldLeft

LEMMA NextAged == Flagged /\ Aged /\ [Next]_vars => Aged'
<1> SUFFICES ASSUME Flagged, Aged, [Next]_vars PROVE Aged'
  OBVIOUS
<1> USE MeterAssumption
    DEF Flagged, Owners, FunctionTypes, Agree, Aged, Closed, Budget, OldLeft
<1>1. CASE Open
  BY <1>1 DEF Open, SetMode
<1>2. CASE \/ Close \/ MainStep \/ (\E v \in Modes : SetTriggerMode(v))
           \/ (\E ms \in Times : SetIntegratingTime(ms))
  <2>1. UNCHANGED <<reads, fresh, latestOld, windowOld, handler, data_cnt>>
    BY <1>2 DEF Close, MainStep, DeviceAnswers, Answered, StopAndClose, SetTriggerMode,
                SetIntegratingTime, getVars, windowVars
  <2>2. Closed'
    BY <1>2 DEF Close, MainStep, DeviceAnswers, Answered, StopAndClose, SetTriggerMode, SetMode,
                SetIntegratingTime, mainVars
  <2> QED
    BY <2>1, <2>2
<1>3. CASE Packet \/ Sample \/ WriteNan \/ Lock \/ Flags
  BY <1>3 DEF Packet, Sample, WriteNan, Lock, Flags, NextSample, getVars, windowVars, mainVars
<1>4. CASE Latest
  BY <1>4 DEF Latest, getVars, windowVars, mainVars
<1>5. CASE Reset
  BY <1>5 DEF Reset, NextSample, getVars, mainVars
<1>6. ASSUME NEW ch \in Channels, Get(ch) \/ Poll(ch) \/ GetLock(ch) \/ Clear(ch) PROVE Aged'
  BY <1>6 DEF Get, Poll, GetLock, Clear, windowVars, mainVars
<1>7. ASSUME NEW ch \in Channels, Read(ch) PROVE Aged'
  BY <1>7 DEF Read, windowVars, mainVars
<1>8. CASE UNCHANGED vars
  BY <1>8 DEF vars, getVars, windowVars, mainVars
<1> QED
  BY <1>1, <1>2, <1>3, <1>4, <1>5, <1>6, <1>7, <1>8 DEF Next, Handler, Getter

(* After two readings of an opening no getter returns anything measured    *)
(* before it.                                                              *)
THEOREM StaleAtMostTwiceAlways == Spec => []StaleAtMostTwice
<1>1. Flagged /\ Aged => StaleAtMostTwice
  BY DEF Flagged, Agree, Aged, Budget, OldLeft, StaleAtMostTwice
<1> QED
  BY <1>1, InitAged, NextAged, FlaggedHolds, PTL DEF Spec
-----------------------------------------------------------------------------
(* The mode of the device, as far as the library knows it, while Main is   *)
(* in a request: what it asked for is what its local value says, and close *)
(* asks for NONE.                                                          *)
KnownMode ==
  /\ main \in {"idle", "trigger", "answered", "stop"}
  /\ mode \in Modes \cup {"none", "continuous"}
  /\ ~open => main = "idle" /\ mode # "continuous"
  /\ closing => main # "idle" /\ (main = "stop" \/ want = "none")
  /\ main \in {"trigger", "answered"} => want = mode
  /\ main = "answered" => devMode = want
  /\ main = "stop" => mode # "continuous"
  /\ main \in {"idle", "stop"} /\ mode # "continuous" => devMode # "continuous"

LEMMA NextKnownMode ==
  ASSUME Modes \subseteq Supported, KnownMode, [Next]_vars
  PROVE  KnownMode'
<1> USE MeterAssumption DEF KnownMode, SetMode
<1>1. CASE Open
  BY <1>1 DEF Open
<1>2. ASSUME NEW v \in Modes, SetTriggerMode(v) PROVE KnownMode'
  BY <1>2 DEF SetTriggerMode
<1>3. CASE Close
  BY <1>3 DEF Close
<1>4. CASE MainStep
  BY <1>4 DEF MainStep, DeviceAnswers, Answered, StopAndClose
<1>5. CASE \/ \E ms \in Times : SetIntegratingTime(ms)
           \/ Packet \/ Handler
           \/ \E ch \in Channels : Get(ch) \/ Getter(ch) \/ GetLock(ch)
           \/ UNCHANGED vars
  <2>1. UNCHANGED mainVars
    BY <1>5 DEF SetIntegratingTime, Packet, Handler, Sample, Lock, Latest, Flags, Reset, WriteNan,
                Get, Getter, Poll, Clear, Read, GetLock, vars
  <2> QED
    BY <2>1 DEF mainVars
<1> QED
  BY <1>1, <1>2, <1>3, <1>4, <1>5 DEF Next

(* If the firmware has every mode that the application asks for, a device  *)
(* that is closed, or that the library takes to be in another mode, does   *)
(* not stream.                                                             *)
THEOREM ModeIsTheDevicesAlways ==
  ASSUME Modes \subseteq Supported PROVE Spec => []ModeIsTheDevices
<1>1. Init => KnownMode
  BY DEF Init, KnownMode
<1>2. KnownMode => ModeIsTheDevices
  BY DEF KnownMode, ModeIsTheDevices
<1>3. KnownMode /\ [Next]_vars => KnownMode'
  BY NextKnownMode
<1> QED
  BY <1>1, <1>2, <1>3, PTL DEF Spec
=============================================================================

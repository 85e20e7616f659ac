------------------------------- MODULE Meter -------------------------------
(***************************************************************************)
(* The continuous measurement of Choppy (src/choppy.cpp) and Dmm           *)
(* (src/dmm.cpp), which differ in their constants only.  The service's     *)
(* worker runs interruptHandler on every interrupt packet: it sums the     *)
(* samples of a window of integratingTime and publishes the average of a   *)
(* full window as volt_latest and curr_latest, under mtx.  A thread that   *)
(* calls getVoltage or getCurrent polls the flag of its channel a limited  *)
(* number of times, then takes the latest average under mtx.  Main opens   *)
(* and closes the meter and sets the trigger mode and integrating time.    *)
(*                                                                         *)
(* Requests are answered as TbiCore's theorem says they are for one        *)
(* calling thread; module TbiCore has what happens on the way.  Sums and   *)
(* averages are reduced to whether they hold samples of an earlier opening.*)
(* Time is not modelled: a sleep is a step during which all may happen.    *)
(* fresh, reads and the two "old" variables are history: no step of the    *)
(* code depends on them.                                                   *)
(***************************************************************************)
EXTENDS Naturals, FiniteSets

CONSTANTS Channels,   \* "volt" and "curr"
          Interval,   \* MEASUREMENT_INTERVAL_MS
          BufMax,     \* DATA_BUF_SIZE_MAX
          PerPacket,  \* samples in a packet: 4
          Polls,      \* times a getter looks at its flag: 10
          Times,      \* what Main passes to setIntegratingTime
          Modes,      \* what it passes to setTriggerMode
          Supported,  \* the modes that the firmware accepts
          Malformed   \* whether packets of another length arrive

ASSUME MeterAssumption ==
  /\ Interval \in Nat \ {0} /\ BufMax \in Nat /\ Interval <= BufMax
  /\ PerPacket \in Nat \ {0} /\ Polls \in Nat \ {0}
  /\ Times \subseteq Nat
  /\ {"none", "continuous"} \subseteq Supported
  /\ Malformed \in BOOLEAN
  /\ Channels \cap {"free", "worker"} = {}

VARIABLES
  open, mode,        \* the handle is open; mAttTriggerMode's local value
  main,              \* where Main is: "idle", "trigger", "answered", "stop"
  want,              \* the trigger mode it has asked for
  closing,           \* it asked for it in close
  devMode,           \* the mode that the device is in
  integratingTime, data_cnt,
  handler, left,     \* where interruptHandler is; samples left in its packet
  mtx,               \* "free", "worker" or the channel of the getter holding it
  updated,           \* volt_updated and curr_updated
  getter, cnt,       \* where each getter is; its remaining polls
  windowOld,         \* the current window has samples from before the opening
  latestOld,         \* so has the latest average
  fresh,             \* the latest average has not been returned
  reads              \* readings returned since the opening, up to 2

mainVars   == <<open, mode, main, want, closing, devMode>>
windowVars == <<data_cnt, windowOld>>
getVars    == <<getter, cnt, reads>>
vars == <<mainVars, integratingTime, windowVars, handler, left, mtx, updated,
          getVars, latestOld, fresh>>

Init == /\ open = FALSE /\ mode = "none" /\ main = "idle" /\ want = "none"
        /\ closing = FALSE /\ devMode = "none"
        /\ integratingTime \in {t \in Times : Interval <= t /\ t <= BufMax}
        /\ data_cnt = 0 /\ windowOld = FALSE /\ latestOld = FALSE
        /\ handler = "idle" /\ left = 0
        /\ mtx = "free"
        /\ updated = [ch \in Channels |-> FALSE]
        /\ fresh = [ch \in Channels |-> FALSE]
        /\ getter = [ch \in Channels |-> "idle"]
        /\ cnt = [ch \in Channels |-> Polls]
        /\ reads = [ch \in Channels |-> 0]
-----------------------------------------------------------------------------
(* Main. *)

(* The local value changes before the request is made. *)
SetMode(v) == /\ mode' = v
              /\ want' = v
              /\ main' = "trigger"

(* openPath, then setTriggerMode(CONTINUOUS). *)
Open == /\ main = "idle" /\ ~open
        /\ open' = TRUE
        /\ SetMode("continuous")
        /\ windowOld' = (data_cnt > 0)
        /\ latestOld' = TRUE
        /\ reads' = [ch \in Channels |-> 0]
        /\ UNCHANGED <<closing, devMode, integratingTime, data_cnt, handler, left, mtx,
                       updated, getter, cnt, fresh>>

(* Without a handle the request fails at once and the local value is NONE. *)
SetTriggerMode(v) ==
  /\ main = "idle"
  /\ IF open THEN SetMode(v)
             ELSE mode' = "none" /\ UNCHANGED <<want, main>>
  /\ UNCHANGED <<open, closing, devMode, integratingTime, windowVars, handler, left, mtx,
                 updated, getVars, latestOld, fresh>>

(* The device changes its mode, or refuses a mode it does not have.  The   *)
(* worker reads the packets sent before the answer before the answer.      *)
DeviceAnswers == /\ main = "trigger"
                 /\ devMode' = IF want \in Supported THEN want ELSE devMode
                 /\ main' = "answered"
                 /\ UNCHANGED <<open, mode, want, closing, integratingTime, windowVars, handler,
                                left, mtx, updated, getVars, latestOld, fresh>>

(* setTriggerMode returns; close goes on to stop the service. *)
Answered == /\ main = "answered"
            /\ mode' = IF want \in Supported THEN mode ELSE "none"
            /\ main' = IF closing THEN "stop" ELSE "idle"
            /\ UNCHANGED <<open, want, closing, devMode, integratingTime, windowVars, handler,
                           left, mtx, updated, getVars, latestOld, fresh>>

(* Wrong (for ModeIsTheDevices): leaves the measurement running. *)
CloseWithoutNone == /\ main = "idle" /\ open
                    /\ closing' = TRUE
                    /\ main' = "stop"
                    /\ UNCHANGED <<open, mode, want, devMode, integratingTime, windowVars, handler,
                                   left, mtx, updated, getVars, latestOld, fresh>>

(* close first ends the measurement, if there is one as far as it knows. *)
Close == /\ main = "idle" /\ open
         /\ closing' = TRUE
         /\ IF mode = "continuous" THEN SetMode("none")
                                   ELSE main' = "stop" /\ UNCHANGED <<mode, want>>
         /\ UNCHANGED <<open, devMode, integratingTime, windowVars, handler, left, mtx,
                        updated, getVars, latestOld, fresh>>

(* stop joins the worker, which is then in no handler. *)
StopAndClose == /\ main = "stop"
                /\ handler = "idle"
                /\ open' = FALSE
                /\ closing' = FALSE
                /\ main' = "idle"
                /\ UNCHANGED <<mode, want, devMode, integratingTime, windowVars, handler, left,
                               mtx, updated, getVars, latestOld, fresh>>

(* Wrong (for BufferInBounds): no upper limit. *)
SetAnyIntegratingTime(ms) == /\ main = "idle"
                             /\ Interval <= ms
                             /\ integratingTime' = ms
                             /\ UNCHANGED <<mainVars, windowVars, handler, left, mtx, updated,
                                            getVars, latestOld, fresh>>

(* Wrong (for ReadingsArrive): starts the window again. *)
SetTimeAndRestart(ms) == /\ main = "idle"
                         /\ Interval <= ms /\ ms <= BufMax
                         /\ integratingTime' = ms
                         /\ data_cnt' = 0
                         /\ windowOld' = FALSE
                         /\ UNCHANGED <<mainVars, handler, left, mtx, updated, getVars,
                                        latestOld, fresh>>

SetIntegratingTime(ms) == /\ main = "idle"
                          /\ Interval <= ms /\ ms <= BufMax
                          /\ integratingTime' = ms
                          /\ UNCHANGED <<mainVars, windowVars, handler, left, mtx, updated,
                                         getVars, latestOld, fresh>>
-----------------------------------------------------------------------------
(* interruptHandler, in the worker. *)

Packet == /\ handler = "idle"
          /\ open /\ devMode = "continuous"
          /\ \/ handler' = "sample" /\ left' = PerPacket
             \/ Malformed /\ handler' = "nan" /\ UNCHANGED left
          /\ UNCHANGED <<mainVars, integratingTime, windowVars, mtx, updated, getVars,
                         latestOld, fresh>>

NextSample(n) == IF n = 0 THEN "idle" ELSE "sample"

Sample == /\ handler = "sample"
          /\ data_cnt' = data_cnt + 1
          /\ left' = left - 1
          /\ handler' = IF Interval * (data_cnt + 1) >= integratingTime
                          THEN "lock" ELSE NextSample(left - 1)
          /\ UNCHANGED <<mainVars, integratingTime, windowOld, mtx, updated, getVars,
                         latestOld, fresh>>

Lock == /\ handler = "lock"
        /\ mtx = "free"
        /\ mtx' = "worker"
        /\ handler' = "latest"
        /\ UNCHANGED <<mainVars, integratingTime, windowVars, left, updated, getVars,
                       latestOld, fresh>>

Latest == /\ handler = "latest"
          /\ latestOld' = windowOld
          /\ fresh' = [ch \in Channels |-> TRUE]
          /\ handler' = "flags"
          /\ UNCHANGED <<mainVars, integratingTime, windowVars, left, mtx, updated, getVars>>

Flags == /\ handler = "flags"
         /\ updated' = [ch \in Channels |-> TRUE]
         /\ handler' = "reset"
         /\ UNCHANGED <<mainVars, integratingTime, windowVars, left, mtx, getVars,
                        latestOld, fresh>>

(* Wrong (for StaleAtMostTwice): the sums go on from where they were. *)
ResetCountOnly == /\ handler = "reset"
                  /\ data_cnt' = 0
                  /\ mtx' = "free"
                  /\ handler' = NextSample(left)
                  /\ UNCHANGED <<mainVars, integratingTime, windowOld, left, updated, getVars,
                                 latestOld, fresh>>

(* The sums and the count start again, and the lock is released. *)
Reset == /\ handler = "reset"
         /\ data_cnt' = 0
         /\ windowOld' = FALSE
         /\ mtx' = "free"
         /\ handler' = NextSample(left)
         /\ UNCHANGED <<mainVars, integratingTime, left, updated, getVars, latestOld, fresh>>

(* The other branch writes NAN without the lock, and touches no flag. *)
WriteNan == /\ handler = "nan"
            /\ handler' = "idle"
            /\ UNCHANGED <<mainVars, integratingTime, windowVars, left, mtx, updated, getVars,
                           latestOld, fresh>>

Handler == Sample \/ Lock \/ Latest \/ Flags \/ Reset \/ WriteNan
-----------------------------------------------------------------------------
(* getVoltage and getCurrent.  In another mode than CONTINUOUS they make a *)
(* request and change nothing here.                                        *)

Get(ch) == /\ getter[ch] = "idle"
           /\ mode = "continuous"
           /\ getter' = [getter EXCEPT ![ch] = "poll"]
           /\ cnt' = [cnt EXCEPT ![ch] = Polls]
           /\ UNCHANGED <<mainVars, integratingTime, windowVars, handler, left, mtx, updated,
                          reads, latestOld, fresh>>

(* Wrong (for FlagTellsTruth): clears the flag as it looks at it. *)
PollAndClear(ch) ==
  /\ getter[ch] = "poll"
  /\ \/ ~updated[ch] /\ cnt[ch] # 0 /\ cnt' = [cnt EXCEPT ![ch] = @ - 1] /\ UNCHANGED getter
     \/ /\ updated[ch] \/ cnt[ch] = 0
        /\ getter' = [getter EXCEPT ![ch] = IF cnt[ch] = 0 THEN "idle" ELSE "lock"]
        /\ UNCHANGED cnt
  /\ updated' = [updated EXCEPT ![ch] = FALSE]
  /\ UNCHANGED <<mainVars, integratingTime, windowVars, handler, left, mtx,
                 reads, latestOld, fresh>>

(* A poll that finds the flag down sleeps; after the last sleep the getter *)
(* gives up, even if the flag is up by now.                                *)
Poll(ch) == /\ getter[ch] = "poll"
            /\ \/ /\ ~updated[ch] /\ cnt[ch] # 0
                  /\ cnt' = [cnt EXCEPT ![ch] = @ - 1]
                  /\ UNCHANGED getter
               \/ /\ updated[ch] \/ cnt[ch] = 0
                  /\ getter' = [getter EXCEPT ![ch] = IF cnt[ch] = 0 THEN "idle" ELSE "lock"]
                  /\ UNCHANGED cnt
            /\ UNCHANGED <<mainVars, integratingTime, windowVars, handler, left, mtx, updated,
                           reads, latestOld, fresh>>

(* Wrong (for AveragesLocked): reads without the lock. *)
GetWithoutLock(ch) == /\ getter[ch] = "lock"
                      /\ getter' = [getter EXCEPT ![ch] = "clear"]
                      /\ UNCHANGED <<mainVars, integratingTime, windowVars, handler, left, mtx,
                                     updated, cnt, reads, latestOld, fresh>>

GetLock(ch) == /\ getter[ch] = "lock"
               /\ mtx = "free"
               /\ mtx' = ch
               /\ getter' = [getter EXCEPT ![ch] = "clear"]
               /\ UNCHANGED <<mainVars, integratingTime, windowVars, handler, left, updated,
                              cnt, reads, latestOld, fresh>>

Clear(ch) == /\ getter[ch] = "clear"
             /\ updated' = [updated EXCEPT ![ch] = FALSE]
             /\ getter' = [getter EXCEPT ![ch] = "read"]
             /\ UNCHANGED <<mainVars, integratingTime, windowVars, handler, left, mtx,
                            cnt, reads, latestOld, fresh>>

Read(ch) == /\ getter[ch] = "read"
            /\ fresh' = [fresh EXCEPT ![ch] = FALSE]
            /\ reads' = [reads EXCEPT ![ch] = IF @ < 2 THEN @ + 1 ELSE @]
            /\ mtx' = "free"
            /\ getter' = [getter EXCEPT ![ch] = "idle"]
            /\ UNCHANGED <<mainVars, integratingTime, windowVars, handler, left, updated,
                           cnt, latestOld>>

Getter(ch) == Poll(ch) \/ Clear(ch) \/ Read(ch)
-----------------------------------------------------------------------------
MainStep == DeviceAnswers \/ Answered \/ StopAndClose

Next == \/ Open \/ Close \/ MainStep
        \/ \E v \in Modes : SetTriggerMode(v)
        \/ \E ms \in Times : SetIntegratingTime(ms)
        \/ Packet \/ Handler
        \/ \E ch \in Channels : Get(ch) \/ Getter(ch) \/ GetLock(ch)

(* Threads run on, and mtx is not withheld for ever.  A device that        *)
(* streams sends packets of samples again and again, whatever else it      *)
(* sends.  Nobody has to call.                                             *)
Fairness == /\ WF_vars(MainStep)
            /\ SF_vars(Packet /\ handler' = "sample")
            /\ WF_vars(Handler) /\ SF_vars(Lock)
            /\ \A ch \in Channels : WF_vars(Getter(ch)) /\ SF_vars(GetLock(ch))

Spec     == Init /\ [][Next]_vars
FairSpec == Spec /\ Fairness
-----------------------------------------------------------------------------
(* interruptHandler stores a sample only inside volt_buf and curr_buf,     *)
(* whatever the integrating time was and becomes while a window fills.     *)
BufferInBounds == handler = "sample" => data_cnt < BufMax

(* Between two critical sections a flag is up exactly when the latest      *)
(* average has not been returned by that getter, and a getter only reads   *)
(* an average it has not returned: no window is reported twice, none that  *)
(* is still the latest goes unannounced, although the flag is polled       *)
(* without the lock and a getter may have given up just before.            *)
FlagTellsTruth == /\ mtx = "free" => updated = fresh
                  /\ \A ch \in Channels : getter[ch] = "read" => fresh[ch]

(* At most the first two readings of an opening have samples from before   *)
(* it: the flags, the latest averages and a half-filled window survive     *)
(* close, but no longer than that.                                         *)
StaleAtMostTwice == \A ch \in Channels :
                      getter[ch] = "read" /\ reads[ch] = 2 => ~latestOld

(* The handler publishes an average only while no getter takes one,        *)
(* although a getter makes up its mind to take one before it has the lock. *)
AveragesLocked == handler = "latest" => \A ch \in Channels : getter[ch] # "read"

(* choppy.h:99, of mtx: "Make it thread-safe for interruptHanlder".  The   *)
(* handler and a getter never touch the latest averages at once.           *)
NoDataRace == handler \in {"latest", "nan"} => \A ch \in Channels : getter[ch] # "read"

(* When the library takes the mode to be another than CONTINUOUS, or has   *)
(* closed the device, the device is not streaming.                         *)
ModeIsTheDevices == main = "idle" /\ (mode # "continuous" \/ ~open)
                      => devMode # "continuous"

(* A getter that is called again and again gets readings again and again,  *)
(* if the device goes on streaming: a reading that comes too late for one  *)
(* call is there for the next, and no choice of integrating times starves  *)
(* the window.                                                             *)
Streaming == open /\ devMode = "continuous"
ReadingsArrive == \A ch \in Channels :
  ([]<>(getter[ch] = "poll") /\ <>[]Streaming) => []<>(getter[ch] = "read")
=============================================================================

------------------------------- MODULE Hidapi -------------------------------
(***************************************************************************)
(* The implementations of hid_device side by side, and what all of them    *)
(* must keep.                                                              *)
(***************************************************************************)
EXTENDS HidLibusb, HidMac, HidPosix, HidWindows

hidVars == <<callVars, usbVars, macVars, winVars>>

HandleInit == /\ CallsInit /\ UsbInit /\ MacInit /\ WinInit
              /\ backend # "mac" => macos = "new"

Libusb(A) == backend = "libusb" /\ A /\ UNCHANGED <<macVars, winVars>>
Mac(A) == backend = "mac" /\ A /\ UNCHANGED <<usbVars, winVars>>
Posix(A) == backend \in {"linux", "netbsd"} /\ A /\ UNCHANGED <<usbVars, macVars, winVars>>
Windows(A) == backend = "windows" /\ A /\ UNCHANGED <<usbVars, macVars>>

HandleNext == \/ (Unplug \/ Plug \/ Read) /\ UNCHANGED <<usbVars, macVars, winVars>>
              \/ Libusb(UsbNext) \/ Mac(MacNext) \/ Posix(PosixNext) \/ Windows(WinNext)

(* Every thread gets to run, and a call that waits with a time limit ends. *)
(* libusb and Windows complete what was submitted.  A run loop serves its  *)
(* sources, however often it returns for other reasons.                    *)
HandleFairness ==
  /\ WF_hidVars(Libusb(Completes) \/ Windows(CompleteRead))
  /\ WF_hidVars(Libusb(UsbCallback))
  /\ WF_hidVars(Libusb(UsbThread) \/ Mac(MacThread))
  /\ WF_hidVars(Libusb(UsbClose) \/ Mac(MacClose) \/ Windows(WinClose))
  /\ WF_hidVars(Libusb(UsbLook) \/ Mac(MacLook) \/ Posix(PosixLook) \/ Windows(WinRead))
  /\ WF_hidVars(Libusb(TimeOut) \/ Mac(MacTimeOut))
  /\ SF_hidVars(Mac(RemovalCallback \/ PerformSignal))

-----------------------------------------------------------------------------
(* Every implementation keeps what hidapi.h promises of a read: each       *)
(* report once, oldest first, none dropped while there is room, errors     *)
(* only after a failure.                                                   *)
Promise == INSTANCE HidHandle WITH
  Limit <- Limit,
  ids <- IF backend = "netbsd" THEN Len(Uhids) ELSE 1,
  broken <- broken,
  connected <- Connected,
  sent <- IF Connected THEN sent ELSE 0,
  held <- IF Connected THEN Held ELSE {},
  reading <- wait,
  result <- result

ImplementsHandle == Promise!Spec

(* Nobody uses a transfer, a buffer, a run loop or the hid_device itself   *)
(* before it is there or after it is given back, but for one thing: what a *)
(* call on Windows has timed out of is left running, and hid_close frees   *)
(* its memory without waiting for its end.                                 *)
InUse == CASE backend = "libusb" -> UsbInUse
           [] backend = "mac" -> MacInUse
           [] backend = "windows" -> WinInUse
           [] backend \in {"linux", "netbsd"} -> IF reader # "idle" THEN {"dev"} ELSE {}

NothingFreedInUse ==
  \/ InUse \subseteq owned
  \/ backend = "windows" /\ LeftRunning /\ owner \in {"closing", "closed"}

(* What the code is known to lose: the configuration of a device that was  *)
(* opened by hid_libusb_wrap_sys_device, NetBSD's drvctl, and an           *)
(* IOHIDDevice that an old macOS does not close.                           *)
KnownLeaks == CASE backend = "libusb" -> {"lost_conf_desc"}
                [] backend = "netbsd" -> {"lost_drvctl"}
                [] backend = "mac" -> IF macos = "old" THEN {"lost_opened"} ELSE {}
                [] backend \in {"linux", "windows"} -> {}

(* Failing to open gives everything back, at whatever step, and so does    *)
(* closing, but for the known leaks.                                       *)
AllGivenBack == owner = "closed" => owned \subseteq KnownLeaks

(* mac/hid.c:1379: "Close the OS handle to the device, but only if it's    *)
(* not been unplugged."  The handle of a device that is there is not lost. *)
ClosedUnlessUnplugged ==
  [][owner = "joining" /\ owner' = "joined" /\ ~broken => owned' \subseteq owned]_hidVars

(* A success of hid_write means that the report has been written, unless   *)
(* an earlier write has timed out (windows).                               *)
WriteTaken == writeResult = "ok" /\ ~writeTimeout => written = issued

(* windows/hid.c:1052: "Wait for the transaction to complete. This makes   *)
(* hid_write() synchronous."  When it has returned nothing is pending.     *)
WriteIsSynchronous == owner = "open" => ~Running

(* hid_close returns. *)
CloseReturns == owner \in {"unregistered", "stopping", "cancelled"} ~> owner = "closed"

(* A read returns when its time is over, and a blocking one when the       *)
(* device is gone.                                                         *)
ReadReturns == reader # "idle" /\ (broken \/ wait # "block") ~> reader = "idle"
=============================================================================

----------------------------- MODULE HidLibusb -----------------------------
(***************************************************************************)
(* The libusb implementation (src/src/hidapi/libusb/hid.c).  One transfer  *)
(* is submitted again and again by its own callback, which puts what has   *)
(* come into a list.  The callback runs in whatever thread handles         *)
(* libusb's events: the read thread of this device, or that of another     *)
(* device, or a synchronous transfer of a hid_write.                       *)
(***************************************************************************)
EXTENDS HidCalls

VARIABLES
  flying,    \* the transfer is submitted
  cancelled, \* and libusb_cancel_transfer has been called since
  callback,  \* read_callback: at "none", or the status it looks at, or later
  handler,   \* the thread that runs it: "self" (read_thread) or "other"
  finished   \* transfer_loop_finished

usbVars == <<flying, cancelled, callback, handler, finished>>

UsbInit == /\ flying = FALSE /\ cancelled = FALSE /\ finished = FALSE
           /\ callback = "none" /\ handler = "other"

-----------------------------------------------------------------------------
(* hid_open_path.  An unknown path or a device that cannot be opened       *)
(* leaves nothing behind.                                                  *)

NewUsbDevice ==
  /\ owner = "closed" /\ ~broken
  /\ shutdown' = FALSE /\ finished' = FALSE /\ sent' = 0
  /\ UNCHANGED <<backend, broken, queue, readVars, thread, flying, cancelled, callback, handler>>

OpenHandle ==
  /\ NewUsbDevice /\ owner' = "opened"
  /\ owned' = owned \cup {"devs", "conf_desc", "dev", "handle"}

(* Wrong (for AllGivenBack): the kernel driver is not attached again. *)
GiveUpOnly == owner' = "closed" /\ owned' = owned \ {"devs", "conf_desc", "dev", "handle"}

(* What follows where hidapi_initialize_device has failed, in both. *)
GiveUp == owner' = "closed" /\ owned' = owned \ {"devs", "conf_desc", "driver", "dev", "handle"}

(* hid_libusb_wrap_sys_device takes a handle that the program has, and its *)
(* first HID interface, or the one with a certain number.                  *)

WrapHandle ==
  /\ NewUsbDevice /\ owner' = "wrapped"
  /\ owned' = owned \cup {"dev", "handle"}

SelectInterface ==
  /\ owner = "wrapped"
  /\ \/ owner' = "opened" /\ owned' = owned \cup {"conf_desc"}
     \/ GiveUp
  /\ UNCHANGED <<backend, broken, sent, queue, readVars, threadVars, usbVars>>

-----------------------------------------------------------------------------
(* hidapi_initialize_device. *)

(* The kernel driver may not be active; it may also not let go. *)
DetachDriver ==
  /\ owner = "opened"
  /\ \/ owner' = "detached" /\ owned' \in {owned, owned \cup {"driver"}}
     \/ GiveUp
  /\ UNCHANGED <<backend, broken, sent, queue, readVars, threadVars, usbVars>>

(* Failing attaches the driver again. *)
ClaimInterface ==
  /\ owner = "detached"
  /\ \/ owner' = "claimed" /\ owned' = owned \cup {"interface"}
     \/ GiveUp
  /\ UNCHANGED <<backend, broken, sent, queue, readVars, threadVars, usbVars>>

CreateThread ==
  /\ owner = "claimed" /\ owner' = "starting" /\ thread' = "starting"
  /\ UNCHANGED <<backend, broken, sent, queue, readVars, owned, shutdown, usbVars>>

(* hidapi_thread_barrier_wait: the thread has submitted the transfer.      *)
(* hid_open_path gives back the list of devices and the configuration that *)
(* it has looked at; hid_libusb_wrap_sys_device does so only where it      *)
(* fails, and here forgets the configuration.                              *)
PassBarrier ==
  /\ owner = "starting" /\ thread # "starting" /\ owner' = "open"
  /\ owned' = (owned \ {"devs", "conf_desc"})
              \cup (IF "devs" \in owned THEN {} ELSE {"lost_conf_desc"})
  /\ UNCHANGED <<backend, broken, sent, queue, readVars, threadVars, usbVars>>

UsbOpen == OpenHandle \/ WrapHandle \/ SelectInterface \/ DetachDriver \/ ClaimInterface \/ CreateThread \/ PassBarrier

-----------------------------------------------------------------------------
(* read_callback. *)

(* The read thread is in libusb_handle_events, or waits for the end. *)
Handling == thread \in {"running", "draining"}

(* libusb completes the transfer; without data it times out after five     *)
(* seconds.                                                                *)
Complete(status) ==
  /\ flying /\ callback = "none"
  /\ \/ status = "completed" /\ ~broken /\ sent < MaxReports
     \/ status = "cancelled" /\ cancelled
     \/ status = "no_device" /\ broken
     \/ status = "timed_out" /\ ~broken
  /\ callback' = status /\ flying' = FALSE /\ cancelled' = FALSE
  /\ handler' \in IF Handling THEN {"self", "other"} ELSE {"other"}
  /\ UNCHANGED <<callVars, finished>>

Completes == \E status \in {"completed", "cancelled", "no_device", "timed_out"} : Complete(status)

(* The waiting reader is signalled only when the list was empty. *)
TakeReport ==
  /\ callback = "completed" /\ callback' = "test"
  /\ sent' = sent + 1 /\ queue' = Attached(sent + 1)
  /\ IF queue = <<>> THEN Signal ELSE UNCHANGED readVars
  /\ UNCHANGED <<backend, broken, owner, owned, threadVars, flying, cancelled, handler, finished>>

TakeStatus ==
  /\ callback \in {"cancelled", "no_device", "timed_out"} /\ callback' = "test"
  /\ shutdown' = (shutdown \/ callback # "timed_out")
  /\ UNCHANGED <<backend, broken, sent, queue, owner, readVars, owned, thread,
                 flying, cancelled, handler, finished>>

TestShutdown ==
  /\ callback = "test"
  /\ IF shutdown THEN callback' = "none" /\ finished' = TRUE
                 ELSE callback' = "submit" /\ UNCHANGED finished
  /\ UNCHANGED <<callVars, flying, cancelled, handler>>

(* libusb_submit_transfer, also the first one, in read_thread. *)
Submit ==
  \/ flying' = TRUE /\ UNCHANGED <<shutdown, finished>>
  \/ broken /\ shutdown' = TRUE /\ finished' = TRUE /\ UNCHANGED flying

Resubmit ==
  /\ callback = "submit" /\ callback' = "none" /\ Submit
  /\ UNCHANGED <<backend, broken, sent, queue, owner, readVars, owned, thread, cancelled, handler>>

UsbCallback == TakeReport \/ TakeStatus \/ TestShutdown \/ Resubmit

-----------------------------------------------------------------------------
(* read_thread. *)

Busy == callback # "none" /\ handler = "self"

Cancel == cancelled' = flying

StartThread ==
  /\ thread = "starting" /\ thread' = "running"
  /\ owned' = owned \cup {"transfer"} /\ Submit
  /\ UNCHANGED <<backend, broken, sent, queue, owner, readVars, cancelled, callback, handler>>

(* shutdown_thread is set, or handling events fails for good. *)
LeaveLoop ==
  /\ thread = "running" /\ ~Busy /\ (shutdown \/ broken)
  /\ thread' = "leaving" /\ shutdown' = TRUE
  /\ UNCHANGED <<backend, broken, sent, queue, owner, readVars, owned, usbVars>>

CancelPending ==
  /\ thread = "leaving" /\ thread' = "draining" /\ Cancel
  /\ UNCHANGED <<backend, broken, sent, queue, owner, readVars, owned, shutdown,
                 flying, callback, handler, finished>>

(* Wrong (for ReadReturns): the end of the thread is not told. *)
EndUntold ==
  /\ thread = "draining" /\ ~Busy /\ finished
  /\ thread' = "ended" /\ UNCHANGED readVars
  /\ UNCHANGED <<backend, broken, sent, queue, owner, owned, shutdown, usbVars>>

WakeReader ==
  /\ thread = "draining" /\ ~Busy /\ finished
  /\ thread' = "ended" /\ Signal
  /\ UNCHANGED <<backend, broken, sent, queue, owner, owned, shutdown, usbVars>>

UsbThread == StartThread \/ LeaveLoop \/ CancelPending \/ WakeReader

-----------------------------------------------------------------------------
(* hid_read_timeout.  All that it does with the mutex locked is one step;  *)
(* woken, it looks again.                                                  *)

UsbLook ==
  /\ reader \in {"entered", "woken"}
  /\ IF queue # <<>> THEN ReturnData
     ELSE /\ UNCHANGED queue
          /\ \/ shutdown /\ Return(-1)
             \/ ~shutdown /\ wait = "poll" /\ Return(0)
             \/ ~shutdown /\ wait # "poll" /\ reader' = "waiting" /\ UNCHANGED <<wait, result>>
  /\ UNCHANGED <<backend, broken, sent, owner, owned, threadVars, usbVars>>

SpuriousWakeup ==
  /\ reader = "waiting" /\ Signal
  /\ UNCHANGED <<backend, broken, sent, queue, owner, owned, threadVars, usbVars>>

(* ETIMEDOUT, also when a report has come meanwhile. *)
TimeOut ==
  /\ reader \in {"waiting", "woken"} /\ wait = "time" /\ Return(0)
  /\ UNCHANGED <<backend, broken, sent, queue, owner, owned, threadVars, usbVars>>

UsbRead == UsbLook \/ SpuriousWakeup \/ TimeOut

-----------------------------------------------------------------------------
(* hid_close. *)

StopThread ==
  /\ owner = "open" /\ reader = "idle"
  /\ owner' = "stopping" /\ shutdown' = TRUE
  /\ UNCHANGED <<backend, broken, sent, queue, readVars, owned, thread, usbVars>>

CancelTransfer ==
  /\ owner = "stopping" /\ owner' = "joining" /\ Cancel
  /\ UNCHANGED <<backend, broken, sent, queue, readVars, owned, threadVars,
                 flying, callback, handler, finished>>

Join ==
  /\ owner = "joining" /\ thread = "ended"
  /\ owner' = "joined" /\ thread' = "none" /\ owned' = owned \ {"transfer"}
  /\ UNCHANGED <<backend, broken, sent, queue, readVars, shutdown, usbVars>>

Release ==
  /\ owner = "joined" /\ owner' = "closed"
  /\ owned' = owned \ {"interface", "driver", "handle", "dev"} /\ queue' = <<>>
  /\ UNCHANGED <<backend, broken, sent, readVars, threadVars, usbVars>>

UsbClose == CancelTransfer \/ Join \/ Release

-----------------------------------------------------------------------------
UsbNext ==
  \/ UsbOpen \/ UsbCallback \/ UsbThread \/ UsbRead \/ StopThread \/ UsbClose
  \/ Completes

(* Who still uses the transfer, and who the hid_device. *)
UsbInUse ==
  (IF flying \/ callback # "none" \/ thread \in {"running", "leaving", "draining"} \/ owner = "stopping"
   THEN {"transfer", "handle"} ELSE {})
  \cup (IF thread \in {"starting", "running", "leaving", "draining"} \/ callback # "none" \/ reader # "idle"
        THEN {"dev"} ELSE {})
=============================================================================

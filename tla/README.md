# Toolbit SDK: TLA+ models and proofs

The Toolbit SDK is a C++ library that lets a program on a computer use Toolbit devices
(Choppy, DMM1, Chopper, Tbit) over USB HID. A device holds *attributes*; the library
reads and writes them by request and answer, and some devices also send *interrupt*
packets with measurements. What is hard in this library is small but subtle: an answer
does not say which request it belongs to, a worker thread and any number of application
threads share queues, flags and buffers, and a USB device can lose a report or vanish at
any moment. Below it lies hidapi, vendored in five implementations that owe their caller
the same promises and keep them by very different means.

Paths below are those of the repository. `tbi_service.cpp` and the like are in `src/`,
the headers in `include/`.

## 1. The system: components, state, operations

| Component | State | Operations | What makes it correct |
|---|---|---|---|
| `LockedQueue` (`tbi_service.h:58-86`) | deque, capacity, mutex, two condition variables | `enqueue`, `dequeue` (both block) | bounded FIFO, no lost wakeup, somebody is always served |
| `TbiDevice` (`tbi_device.cpp`) | hidapi handle, mutex | `open`, `isOpen`, `close`, `write`, `read` (each atomic) | a null handle is never used |
| `TbiService` (`tbi_service.cpp`) | worker thread, `thAbort`, `resque`, interrupt handler | `start`, `stop`, `readAttribute`, `writeAttribute`; the worker's loop | every call gets its own answer; the worker can always be joined |
| `TbiCore` (`tbi_core.cpp`) | device, service, five product attributes | `openPath`, `close`, getters | the product data are the open device's; the worker lives as long as the handle |
| `Choppy`, `Dmm` (`choppy.cpp`, `dmm.cpp`) | trigger mode, integrating time, sample window, latest averages, flags, mutex | `open`, `close`, `setTriggerMode`, `setIntegratingTime`, `getVoltage`, `getCurrent`, `interruptHandler` | buffers in bounds, no torn or repeated reading, library and device agree on the mode |
| `Chopper` (`chopper.cpp`) | cached mask of USB ports | enable and disable one or all ports | the cache is the device's mask |
| `GpioHw`, `Pin` (`module/gpio_hw.cpp`, `pin.cpp`) | cached registers | `pinMode`, `digitalWrite`, `digitalRead` | an operation on one pin leaves the others alone |
| `I2cHw` (`module/i2c_hw.cpp`) | cached address and data | `write2byte`, `read2byte`, `read3byte` | the data belong to the register asked for |
| `AdcHw`, `Adc` (`module/adc_hw.cpp`, `adc.cpp`) | attributes only | `analogRead` | a bad channel asks nothing of the device |
| `Tbit` (`tbit.cpp`) | the parts above | `open`, `close` | - |
| `Attribute`, `Attvalue` (`attribute.cpp`) | a value of up to `VALUE_LEN` bytes, its length | `setValue` of numbers, strings and bytes, `getValueStr` | what is sent and read is what was set |
| `TbiDeviceManager` (`tbi_device_manager.cpp`) | hidapi's device list | `updateDeviceList`, look-ups by name and serial | the path belongs to the device asked for |
| hidapi handle (`src/hidapi/*/hid.c`, vendored) | received reports, a read thread and its callbacks (libusb, macOS), pending overlapped I/O (Windows), files (Linux, NetBSD) | `hid_open_path`, `hid_read_timeout`, `hid_write`, `hid_close` | reports in order, each at most once; nothing freed in use; everything given back; reads and close return |
| hidapi lists | none; paths | `hid_enumerate`, `hid_open`, the descriptor parsers | every HID interface is listed, with its usages; what is opened is what was asked for |
| hidapi reports | none | feature, input and output reports | one whole report per call, its id at the right place |

How they interact:

    application threads --readAttribute/writeAttribute--> TbiService --write--> TbiDevice --> hidapi --> device
            ^                                                                                              |
            +--- resque.dequeue() <-- resque <-- worker thread <--read-- TbiDevice <-- ring of hidapi <----+
                                                     |
                                                     +-- interruptHandler (Choppy, Dmm) --> averages, flags --> getVoltage, getCurrent

The hard behaviours: the answer that is late, doubled, lost or another thread's; the
worker that blocks on a full queue while somebody wants to join it; a device that is
unplugged, or replaced by another; a ring that overflows; measurement packets that race
with getters, with a change of the integrating time or mode, and with close and reopen.
`PROJECT.json` lists each hazard at its line, with the properties that would catch it.

## 2. The modules

| Module | What it is |
|---|---|
| `BoundedFifo` | abstract: a blocking bounded FIFO whose calls take effect in one step |
| `LockedQueue` | the struct, step by step; implements `BoundedFifo` |
| `LockedQueueProofs` | theorems about it |
| `TbiDevice` | the handle's operations, and (external) the device, the cable and hidapi |
| `TbiService` | requests and the worker's loop; EXTENDS `TbiDevice` |
| `TbiCore` | `openPath`, `close`, requests of all threads: the whole stack; EXTENDS `TbiService` |
| `MCTbiCore` | constants for TLC |
| `AttributeService` | abstract: what `readAttribute` and `writeAttribute` promise to one calling thread |
| `TbiRefinement` | how `TbiCore` implements `AttributeService` |
| `TbiCoreProofs` | theorems about the whole stack, and the proof that it does |
| `Operation` | an operation made of requests, and the copies of attributes; EXTENDS `AttributeService` |
| `Gpio` | `GpioHw` and `AdcHw`; EXTENDS `Operation`, as the next two do |
| `UsbPorts` | `Chopper`: the USB hub and its cached mask |
| `I2c` | `I2cHw`: register accesses of two requests |
| `Attvalue` | the bytes of one attribute's value |
| `Peripherals` | a program that uses them, over the service: EXTENDS all four |
| `MCPeripherals` | constants for TLC |
| `PeripheralsProofs` | theorems about it, from the classes down to the bytes of a value |
| `Meter` | continuous measurement of Choppy and Dmm |
| `MeterProofs` | theorems about it |
| `HidHandle` | abstract: what an open `hid_device` promises to the program that reads it |
| `HidCalls` | what the five implementations share: the device, the program's threads, the list of reports |
| `HidLibusb`, `HidMac`, `HidPosix`, `HidWindows` | the implementations, each EXTENDS `HidCalls`; `HidPosix` is Linux and NetBSD |
| `Hidapi` | the five side by side; implements `HidHandle` |
| `HidDescriptor` | how a report descriptor is parsed for usages |
| `HidEnumeration` | `hid_enumerate`, `hid_open`, `TbiDeviceManager`; EXTENDS `HidDescriptor` |
| `HidReports` | the bytes of one report through each implementation |
| `HidProgram` | a program that uses one of these parts: EXTENDS the last three |
| `MCHidapi` | constants for TLC |
| `HidapiProofs` | theorems about open handles, and that each implements `HidHandle` |
| `HidDescriptorProofs` | theorems about the parsers: any bytes, and what items mean |
| `HidReportsProofs` | theorems about reports, with the lemmas on sequences of `HidDescriptorProofs` |
| `HidEnumerationProofs` | theorems about the list and about what is opened from it |

`LockedQueue` is composed with the rest by refinement: `TbiService` uses `resque` as an
atomic blocking buffer (`WorkerEnqueue`, `Dequeue`), which is what `BoundedFifo`
promises and `LockedQueue` is proved to implement. `Meter` likewise takes from `TbiCore`
that a request of one calling thread is answered for itself (`AnswerIsMine`), and treats
`setTriggerMode` as request, device's change, return.

`AttributeService` is the stack seen from above by one calling thread: a request takes
effect at most once, between the call and the return, the call returns what the device
made of it, and a call whose answer is lost does not return. `TbiRefinement` derives its
state from that of `TbiCore` (`Status`: where the one answer is), and `Gpio`, `UsbPorts`
and `I2c` are built on it instead of on the stack, so that TLC need not explore queues
and worker again for each of them: `Peripherals` puts their operations and the service
together.

`TbiDevice` sees hidapi as a ring that loses a report when it is full (`inq`). What it
relies on, reports in order, each at most once, none dropped while there is room, is
what `HidHandle` says and the five implementations are proved to keep
(`ImplementsHandle`). `HidEnumeration` ends with the path that `TbiCore`'s `openPath` is
given.

### How state and actions correspond to the code

* **LockedQueue.** `data`, `m` are the members; `pc[t]` is where thread `t` is between
  the call and the return: lock (65, 72), test of the predicate (66, 73), asleep, woken,
  body (67; 74-75), notify (68, 76), unlock (return). A wait gives up the mutex and
  sleeps in one step, a woken thread must lock and test again, and `SpuriousWakeup` may
  happen to anyone.
* **TbiDevice.** Every method holds `mtx` throughout, so each is one action. `handle` is
  "null", "live" or "dead" (the device it was opened on is gone). `inq` is hidapi's
  ring: a full one loses the newest report (Linux kernel) or the oldest
  (`hidapi/mac/hid.c:907`). `write` ignores the result of `hid_write` (126): a report
  that cannot be sent is lost. The device is external: it answers in order, each request
  at most once. `Faults` switches on unplugging (and plugging in a device with other
  contents), loss of reports in either direction, refusals (`RC_FAIL`) and flooding of
  the ring with unasked packets.
* **TbiService.** A call is three actions, because other threads and the worker run in
  between: `Call` (the handle test, 89), `Write` (92), `Dequeue` (98 to the return).
  `Verdict` is the test of the answer (103-108, 141-146). The worker has one action per
  step of its loop: `WorkerPoll` (163), `WorkerRead` (164), `WorkerDispatch` (166-177),
  `WorkerEnqueue` (178, blocks), `WorkerCheck` (188). `start` is `Start`; `stop` is
  `Abort` and `Join`. A packet is a record of its kind, operation, return code and
  value; bytes, lengths and ids are abstracted.
* **TbiCore.** `at` is where the thread `Main` is in `openPath` or `close`, `next` the
  attribute it reads, `info` what it has kept. Five attributes are the sequence
  `InfoAttrs`. The destructor does what `close` does.
* **Meter.** `handler` is where `interruptHandler` is, `getter[ch]` where `getVoltage`
  or `getCurrent` is, `main` where the thread is that opens, closes and sets modes.
  `mtx` protects what the code protects with it, and the write of the latest averages,
  of the flags, and the reset are steps of their own. Sample values are abstracted to
  one bit: whether they are from before the current opening. Choppy and Dmm differ in
  `Interval` (1 and 5) and in the default time only.

* **Gpio, UsbPorts, I2c.** `at` is the request whose end the operation awaits: a call is
  one action for its first request and one for each answer it acts on, up to the next
  request or the return; the rest is `AttributeService`. A register or mask is the set
  of its bits. `copy` has the values of the classes' `Attribute` objects, of which only
  the first byte is initialised (`attribute.cpp:18`), so the other bits start with any
  value. `1 << pin` for a pin number that is too large is undefined: `Bit` offers every
  result a build can have. `AnalogRead` tests the channel and makes one request. A
  program is about one `part`, chosen at the start: `pinMode`, the levels of pins, USB
  ports, I2C, or one value. No two of these share an attribute, so what one does cannot
  disturb another. `target` in `I2c` is history: what `setI2cDeviceAddr` last set.
* **Attvalue.** `str` is the union, byte by byte, `datlen` the length; one action per
  kind of `setValue`. `SetBytes` takes the length from an answer as the code does:
  signed, and then converted to `uint8_t`. `getValueStr`, which sends the value too,
  closes the string only where the union ends (165). `last` and `ended` are history.
* **HidCalls and the implementations.** `owner` is where the thread is that opens and
  closes (or writes, on Windows), `reader` where the one is that is in
  `hid_read_timeout`; what the code does with a mutex locked is one step. `owned` has
  what `hid_open_path` has acquired: memory, files, claimed interfaces, events.
  `shutdown`, `disconnected`, `finished`, `readPending` are the fields of the same
  purpose. In `HidLibusb` the transfer is submitted, cancelled and completed by libusb
  (external), and its callback, in four steps, runs in the read thread or in another
  that handles events. In `HidMac` the read thread's run loop calls back, and two
  barriers order its start and end. In `HidPosix` the kernel keeps the reports, and
  NetBSD has one file per report id. `HidLibusb` opens by `hid_open_path`
  (`OpenHandle`) or by `hid_libusb_wrap_sys_device` (`WrapHandle`, `SelectInterface`);
  the rest, `hidapi_initialize_device`, is common. In `HidWindows` a read or a write
  that times out stays pending; `CancelIo` asks for its end, which comes whenever it
  will (`EndCancelled`), while `CloseHandles` and `FreeBuffers` go on without it.
  What the code forgets without giving it back stays in `owned` under a name of its own
  (`lost_conf_desc`, `lost_drvctl`, `lost_opened`).
* **HidDescriptor** has `get_usage` (libusb) and `get_next_hid_usage` with its helpers
  (Linux and NetBSD), as recursive functions over real bytes. What the bytes mean is
  said apart from the parsers: a descriptor is made of items, an item has its bytes and
  a kind (a page, a usage, the begin or the end of a collection), and `TopUsages` are
  those of the top-level collections. **HidEnumeration** makes
  the list that each implementation makes of what is plugged in; devices come and go
  between listing and opening, and `Path` is what still names a device then.
  The pairs of usages that macOS and Windows list come from the system's own parser,
  which is not in the repository; they are taken to be those that `DeviceUsages` finds.
  **HidReports** has one action per call that moves a report; zero ids, padding and
  lengths are those of each system. Windows cuts a feature report to the longest one, as
  its source says of `HidD_SetFeature` (1189-1193). NetBSD's kernel is not told how long
  the data are: it takes any number of bytes out of `ucr_data`, whose rest is undefined
  (0 or 1 in each place stand for it).

Definitions marked "Wrong (for P)" stand next to the definition they corrupt in the way
a plausible mistake would. With one of them in its place, TLC finds `P` violated: they
show that each property can fail. No specification uses them.

## 3. What TLC checks

| Run | Instance | Shows |
|---|---|---|
| `queue` | 2 producers, 2 consumers, 2 items, capacity 2 | `TypeOK`, `PredicateHolds`, `Bounded`, `NoLostWakeup`, `FifoSpec` (refinement), `FifoProgress` (liveness) |
| `core_faults` | 1 thread, 2 attributes, 2 values, ring of 2, all faults | `TypeOK`, `AnswerIsMine`, `ImplementsService` (refinement) |
| `core_live` | 1 thread, refusals, interrupts and foreign packets | `RequestCompletes` |
| `core_threads` | 3 threads, 1 attribute, resque of 1, ring of 4, unplugging (and plugging in another device) and loss | `InfoIsCurrent`, `WorkerLife`, `EveryAnswerAwaited`, `CloseCompletes` |
| `core_unplugged` | unplugging | **`RequestCompletes` fails** (finding 1) |
| `peripherals` | words of 2 bits, pins 0 to 3 (2 is the code's 32), ports 0 to 3, 2 addresses, 3 kinds of devices, values of 3 bytes; unplugging, refusals | `TextReadsBack`, `PinModeIsLocal`, `InputAfterPull`, `PinModeTruth`, `LevelIsLocal`, `LevelTruth`, `MaskIsTheDevices`, `OnlyThatPort`, `RightRegister`, `WriteIsDone` |
| `meter` | 2 channels, buffer of 2, packets of 2 samples, 1 poll, malformed packets, 2 modes | `BufferInBounds`, `FlagTellsTruth`, `StaleAtMostTwice`, `AveragesLocked`, `ModeIsTheDevices`, `ReadingsArrive` (liveness) |
| `hid` | 5 implementations, 2 versions of macOS, 3 reports, list of 2, 2 writes, 2 uhid nodes; 5 devices in 2 ports; descriptors of up to 5 blocks; reports of up to 3 bytes in buffers of 0 to 4 | `NothingFreedInUse`, `AllGivenBack`, `WriteTaken`, `ImplementsHandle` (refinement), `CloseReturns`, `ReadReturns` (liveness), `DescriptorUsages`, `ListIsComplete`, `OpenedIsWanted`, `ReportIsWhole` |
| `hid_write_pending` | Windows and Linux, the rest as in `hid` | **`WriteIsSynchronous` fails** (finding 4) |
| `hid_old_macos` | macOS before 10.10 | **`ClosedUnlessUnplugged` fails** (finding 5) |
| `meter_malformed` | malformed packets | **`NoDataRace` fails** (finding 2) |
| `meter_other_mode` | a mode that the device refuses | **`ModeIsTheDevices` fails** (finding 3) |

The properties in words:

* `PredicateHolds`, `Bounded`: nobody pops from an empty deque or pushes on a full one,
  though the wait tests only `size() != capacity`.
* `NoLostWakeup`: while somebody sleeps for an item (or for room), every item (every
  free place) has a thread that will look at it before sleeping, or one whose
  `notify_one` is still to come.
* `WorkerLife`: the worker runs only while the handle is open, and while the handle is
  open it runs, except during `openPath` and `close`.
* `EveryAnswerAwaited`: answers owed, in the ring, in the worker's hands and in `resque`
  are never more than the threads that wait. Hence the worker never blocks for ever, and
  `CloseCompletes`, even with `resque` of size one and three callers.
* `AnswerIsMine`: with one calling thread, a call that succeeds returns (or wrote) the
  value of the attribute it asked for, though the answer does not name it.
* `InfoIsCurrent`: after `openPath` the product data are the open device's, as long as no
  other thread has made a call: in effect a property of a program with one calling
  thread, though `core_threads` has three. A call of another thread may leave behind a
  late answer that `openPath` then takes for its own.
* `ImplementsService`: to one calling thread the whole stack is `AttributeService`.
* `PinModeIsLocal`, `LevelIsLocal`: whole registers are read and written back, but an
  operation on one pin changes no other. For `pinMode` this holds whatever is refused,
  since it gives up after a refused read. `digitalWrite` does not give up: after a
  refused read it writes back an old copy, so `LevelIsLocal` is about all other writes.
* `InputAfterPull`: however `pinMode` ends, no pin becomes an input before its pull-up
  is as asked for. `PinModeTruth`, `LevelTruth`, `WriteIsDone`: success means done, and
  a level that was not refused is the device's.
* `MaskIsTheDevices`: the hub's cached mask is that of the open hub, unless the last
  request was refused: what drifts is brought together by the next success.
  `OnlyThatPort`: from there, switching one port asks for no other change.
* `RightRegister`: no I2C data request takes effect at another address than that of its
  call, in particular after the address request was refused.
* `BufferInBounds`: the sample index stays in the buffers whatever integrating times are
  set while a window fills.
* `FlagTellsTruth`: outside critical sections a flag is up exactly if the latest average
  is unread, and a getter never returns an average twice.
* `StaleAtMostTwice`: samples from before a reopen reach at most two readings per
  channel. Two is reached: the average that was still unread, and the window that was
  half full.
* `ModeIsTheDevices`: if the library believes the device is not measuring, or has closed
  it, it is not. (Holds as long as the device accepts every mode it is asked for.)
* `AveragesLocked`: an average is published only while no getter takes one. `NoDataRace`
  asks that of the other branch of the handler too, and fails there.
* `ReadingsArrive`: a getter that is called again and again on a streaming device gets
  readings again and again.
* `TextReadsBack`: the bytes that are sent for a value are the bytes set last, and its
  string reads as them, whatever longer value was there before; too long strings and
  negative lengths change nothing. (An answer that fills its length without a terminator
  may be followed by the rest of an earlier value: of it only the beginning is claimed.)
* `ImplementsHandle`: each implementation hands out the reports in the order they came,
  each once, drops none while there is room, also not across a read that timed out, and
  reports errors only after a failure. NetBSD keeps the order within a report id.
* `NothingFreedInUse`: no callback, read thread, pending transfer or reader uses memory,
  a transfer or a run loop that is not there yet or was given back, however closing,
  unplugging and the last reports interleave. One case is excepted, because the code does
  not keep it: on Windows a read or write that a call has timed out of (`LeftRunning`)
  still uses its buffer and the OVERLAPPED in the `hid_device` while `hid_close` frees
  them, for `CancelIo` does not wait (1276-1283).
* `AllGivenBack`: a closed device, and one that could not be opened at whatever step,
  holds nothing but the leaks of the code that `KnownLeaks` names: the configuration
  descriptor after a successful `hid_libusb_wrap_sys_device` (`libusb/hid.c:1389`),
  NetBSD's `drvctl` (`netbsd/hid.c:800`, `856`), and the `IOHIDDevice` that a macOS
  before 10.10 does not close (for a device that was unplugged that is intended; for
  the others see `ClosedUnlessUnplugged`).
* `ClosedUnlessUnplugged`: `hid_close` closes the `IOHIDDevice` of a device that is still
  there, as its comment says. Fails on old systems.
* `WriteTaken`: a `hid_write` that succeeds has been written (Windows; after a timeout
  the code does not keep this, and the property does not ask it).
* `WriteIsSynchronous`: when `hid_write` has returned no write is pending, as its comment
  says. Fails on Windows.
* `CloseReturns`, `ReadReturns`: `hid_close` ends; so does a read whose time is over,
  and a blocking one when the device is gone.
* `DescriptorUsages`: of every proper descriptor the parsers find the usages of the
  top-level collections in their order, whatever is inside of them (libusb only the
  first); a descriptor cut off at any byte is read within its bounds and has no more
  usages than collections that begin. `Proper` names what the parsers rely on: every
  collection ends and has one usage, and a page before it; usages of four bytes, which
  have a page of their own, are not mixed with pages outside of collections. A page
  inside of a collection is allowed. The parsers skip it, and `TopUsages` does not count
  it for what follows either, though the code calls a page global (`linux/hid.c:361`):
  what such a page means to the HID standard is not claimed.
* `ListIsComplete`: the list has every HID interface that passes the filter, once for
  each of its top-level collections, in their order and without others in between, and
  nothing else. The usages are those that the items of its descriptor mean; of a
  descriptor that is cut off or not proper the property asks nothing, only that the
  entries pass the filter and lead to the device (`NothingElse`). For macOS and Windows
  this is about the list, given the pairs of usages that the system tells.
* `OpenedIsWanted`: what `hid_open` and the manager's look-ups open is the device that
  was asked for; if another was plugged in since the listing, as far as the system's
  paths tell them apart.
* `ReportIsWhole`: one call moves one report, with its id where it belongs, never behind
  the buffer. On libusb, macOS and Linux the report is exactly what the program gave.
  Windows adds zeros up to the longest report, and cuts a feature report to that length
  without telling: `hid_send_feature_report` returns the full length all the same. On
  NetBSD what the device gets and what the program gave agree as far as both go; what is
  beyond the data is undefined. A get fills the buffer with the beginning of the report,
  on NetBSD of as much of it as `ucr_data` holds. What a call returns is the length in the
  buffer, but for `hid_write` and `hid_read` on Windows, which count zeros, and a get on
  NetBSD, of which only bounds are claimed.

### Bounds, and why they are enough

All queues are bounded by the code (`Capacity`, `InLimit`); nothing else grows, except
the device's pending requests, which `EveryAnswerAwaited` bounds by the number of
callers. Capacity 2 with two threads a side lets the queue be empty, partly full and
full with both kinds of sleepers; capacity 1 in the stack is the tightest the worker can
meet (the code has 4). Two values tell a device's value from another's, two attributes
tell one request from another, rings of 2 to 4 overflow at once. For the meter, a buffer
of 2 and packets of 2 samples let a window end inside a packet and straddle two (one
sample at time 1, then two at time 2), and the times 0, 1, 2 and 3 are both sides of both
limits. `reads` counts only to 2, which is
all the property asks. Words of 2 bits have one that an operation is about and one that
it must leave alone, one that is initialised (`Byte`) and one that is not. `Contents`
are devices that hold nothing, everything, and something different in each register;
`Bytes` are two addresses or data; the operations write every other value themselves.
`MaxReports` of 3 and `MaxQueued` of 0, which makes a list of 2, let a list overflow and
be emptied again; `MaxWrites` of 2 is one write after one that timed out. Two uhid
nodes, two ports and two arrivals (`MaxPlugs`) are the least with which one can be taken
for the other. A block is a few items that belong together; `MaxBlocks` of 5 makes two
collections with their own usages, or a page and another behind it; among `SomeBlocks`
are long items, pages and usages of every length, nested collections and one that never
ends. The devices have interfaces with one top-level collection and with two, one with a
descriptor that is cut off, and one that is no HID interface. A `Room` of 4 is shorter
than, as long as and longer than a report; `UcrSize` of 2 is shorter than the longest
buffer. `ValueLen` of 3 with `Octets` 0 to 2 has strings of every length up to the
limit, and a length byte from -3 to one too many. The parts of `HidProgram` share no
state, and one run explores them one after the other, all states of each: 199,117 in
total. The theorems below hold for every value of these constants.

### Fairness, and why the code justifies it

Threads are preemptively scheduled, so each thread's next step is weakly fair. A mutex
is not withheld for ever from a thread that keeps asking for it: locking is strongly
fair (`SF`), as fair schedulers give. Dequeue in `TbiCore` is fair for *some* waiting
thread, which is what `BoundedFifo!Progress` says and `LockedQueue` is shown to provide;
no property needs more. The device answers (weakly fair) while it is there, and a meter
that streams sends packets of samples again and again, whatever else it sends (`SF`);
unplugging,
loss, refusals, noise, plugging in, and calls by the application are never fair. Reports
can be lost only if `Faults` says so, hence `RequestCompletes` is checked without loss.

In `Hidapi` (`HandleFairness`) every thread runs, a wait with a time limit ends, libusb
and Windows complete what was submitted, and libusb runs the callback. The run loop of
macOS may return for other reasons again and again, and still serves its sources (`SF`).
Unplugging, reports, spurious wakeups and the calls of the program are never fair.
Deadlock is not checked in `hid` because a program with a bounded number of devices,
blocks or transfers comes to its end; the liveness properties are about the stops that
would matter.

### Findings

1. *A lost answer blocks for ever* (`core_unplugged`). `include/tbi_device.h:37` has
   `#define DEFAULT_DEALY 10   // Wait response for 10msec`; the wait in
   `tbi_service.cpp:98` and `136` has no limit, and failures of `hid_write` and
   `hid_read` are not looked at. Choppy's and Dmm's `close` make a request
   (`setTriggerMode(TRIGGER_MODE_NONE)`), so closing an unplugged meter hangs too.
2. *Unlocked write of the averages* (`meter_malformed`). `choppy.cpp:287-288` and
   `dmm.cpp:300-301` write without the mutex that `choppy.h:99` introduces with "Make it
   thread-safe for interruptHanlder".
3. *A refused mode leaves the device streaming* (`meter_other_mode`).
   `choppy.cpp:143-147` (same in `dmm.cpp`) resets only the local value, and `close`
   relies on it.
4. *hid_write leaves its write running* (`hid_write_pending`). On Windows the wait that
   "makes hid_write() synchronous" (`windows/hid.c:1052-1053`) ends after a second; the
   write stays pending on `write_ol` and its buffer, which the next `hid_write` uses
   again and `hid_close` frees without waiting for its end (215-227, 1276-1283).
5. *An old macOS does not close the device* (`hid_old_macos`). Before 10.10 a read thread
   that `hid_close` has stopped believes the device disconnected (`mac/hid.c:958-961`),
   and `IOHIDDeviceClose` is skipped, which the comment at 1379-1380 says of unplugged
   devices only.

### Other observations

What the models made explicit and no run claims. Of the first two the repository says
otherwise; they are small, and stated as exceptions of `InfoIsCurrent` (checked without
refusals) and `ReportIsWhole`.

* `openPath` ignores the results of the five reads that "Read product data from device"
  (`tbi_core.cpp:41-47`) and succeeds. A refused read leaves the value empty or an earlier
  device's.
* NetBSD's `get_report` (`netbsd/hid.c:631-666`) copies and counts as many bytes as were
  asked for, at most all of `ucr_data`, where `hidapi.h:441-442` and `469-470` have "the
  number of bytes read plus one for the report ID".
* libusb signals the reader only when its list was empty (970): enough with one
  reader, as `ReadReturns` shows. It and macOS keep up to 32 reports where the comments
  (`libusb/hid.c:982`, `mac/hid.c:904`) speak of 30: the count leaves out the first and
  the newest.
* NetBSD leaves `drvctl` open after each successful `hid_open_path` (`netbsd/hid.c:800`,
  `856`); `set_report` does not tell the kernel how long its data are (594-629).
* `hid_libusb_wrap_sys_device` frees the configuration descriptor only where it fails
  (`libusb/hid.c:1391-1393`): each success loses it.
* On Windows a write that the kernel completes at once is reported as -1
  (`windows/hid.c:1051`), one that timed out may complete in the name of the next,
  `hid_write` returns the padded length, and `hid_send_feature_report` the full length of
  data that were cut off.
* Linux and NetBSD report an unplugged device to a timed read even if reports are left.
* A page inside a collection is ignored, and a usage of four bytes changes the page for
  good, in the parsers of usages.
* After the list is made, another device may answer to a path of libusb, Linux or
  NetBSD.

## 4. What is proved

The proofs hold for every finite set of threads, every capacity, ring size, attribute
and value set, and every set of faults, from the named assumptions on the constants
only, and from what a theorem itself assumes: one calling thread, well-formed packets,
no refusals, supported modes. Without well-formed packets or supported modes findings 2
and 3 begin, after refusals `openPath` keeps what it has not read, and several calling
threads may exchange their answers.

Most of the named assumptions (`QueueAssumption`, `DeviceAssumption`,
`CapacityAssumption`, `CoreAssumption`, `MeterAssumption`, `OperationAssumption`,
`GpioAssumption`, `PortsAssumption`, `I2cAssumption`, `MacAssumption`) give the types of
constants and the relations between them that the code's own constants have. The others:

* `ValueAssumption`: a byte can be 0, `VALUE_LEN` is not 0, and no number is wider than
  it (8 against 32 in the code).
* `HidAssumption`: `MaxQueued` is a number, and a uhid file has a name. A HID device of
  NetBSD has at least one such file, for it is listed by its files.
* `ReportsAssumption`: ids and data are bytes, and there is a longest report, whose
  length Windows tells (`OutputReportByteLength` and the like).
* `EnumerationAssumption`: names and serial numbers are strings, a product has a name (a
  look-up for an empty one would also find every device that did not tell its own). A
  USB serial number is one device's: two that agree in bus, ids and a serial number are
  the same unit. That is what the USB specification asks of serial numbers and Windows
  takes for granted, which builds its paths from them; devices without one may agree in
  everything.
* `InterfacesAssumption`: an interface has at least one alternate setting, its
  descriptor is a sequence of bytes, *any* bytes, and its items are such as
  `BlocksAssumption` has them. The two are tied only where a property says so.
* `BlocksAssumption`: a block is a sequence of items, and an item (`IsItem`) has the
  bytes that the HID specification gives it: a key whose low two bits are the length of
  the data, or a long item with a byte for it, and the kind and value that the key and
  the data say.

* `LockedQueueProofs`. The inductive invariant `Inv` adds to the properties that a
  thread in its critical section is the holder of `m` (`Owner`): this alone keeps the
  predicate of the wait true until the deque changes. From it `TypeCorrect`,
  `PredicateHoldsAlways`, `BoundedAlways`. `NoLostWakeupAlways` is inductive relative to
  `Inv`; each action is compared by how it changes the number of available items and the
  cardinality of their cover (`Grows`, `Shrinks`). `ImplementsFifo` maps every step to
  one of `BoundedFifo` or a stutter.
* `TbiCoreProofs`. `TypeCorrect`; `WorkerLifeAlways` from `Lifecycle`, which ties the
  worker's state and `thAbort` to where `Main` is. `AnswerIsMineAlways` (for one calling
  thread) rests on `Token`: while `Main` waits, at most one of the following exists: its
  request at the device, its answer in the ring, in the worker's hands, or in `resque`,
  and that one is for this request and, as long as the device is there, carries the
  attribute's current value; while it does not wait there is none. Neither a lost
  report, nor a dropped one, nor an unplugged device creates a second one.
  `EveryAnswerAwaitedAlways`, for any number of threads, counts: what is owed by the
  device, in the ring, in the worker's hands and in `resque` is bounded by the threads
  that wait (`CountAppend`, `CountTail`, `CountArrive` say how a step changes the number
  of answers in a queue). `InfoIsCurrentAlways`, for one thread and without refusals,
  adds to `Token` that what `openPath` has read so far is the device's, and that a
  device's contents change only by the requests of the program (`InfoInv`).
  `ImplementsServiceAlways` (of `TbiRefinement`), for one calling thread: from the same
  invariant, at most one answer is on its way and it is right (`OneOnTheWay`), so every
  step of queue, worker and hidapi maps to no step or to the loss of the answer
  (`Quiet`), and call, answer, return, opening, closing and unplugging map to the
  actions of `AttributeService`.
* `MeterProofs`. `BufferInBoundsAlways` from `InBuffer` (a window that is not full is
  shorter than the buffer, because the integrating time is at most the buffer and the
  interval at least one); `FlagTellsTruthAlways`, `AveragesLockedAlways` and `NoDataRaceAlways`
  (this for well-formed packets) from `Flagged`, which says who owns `mtx` and how far flag and history may
  differ inside a critical section; `StaleAtMostTwiceAlways` from `Aged`, which budgets
  the old readings still to come against the readings taken. `ModeIsTheDevicesAlways`,
  if every mode is supported, from `KnownMode`, which adds the request under way.
* `PeripheralsProofs`. `ServiceInv` has the types and says that a request that was
  granted has had its effect on the device if it is still the one that is open; every
  operation, whatever its class, is a step of it (`OperationStep`). `ControlInv` keeps
  the classes apart: each has its own operations, steps and attributes (`UsesModes` and
  so on). With `StoreChange`, an open device changes only by the request under way, each
  class needs one more invariant (`PortsInv`, `I2cInv`, `ModesInv`, `LevelsInv`) that
  says, for every step of an operation, what its request asks and which copies are the
  device's. Nine theorems are about the specification of `Peripherals`, for every width
  of registers, number of ports and pins, and all devices. The tenth,
  `TextReadsBackAlways`, is about one value: `ValueInv` says that its bytes begin with
  those set last and that what has an end is followed by a terminator. What is left of an
  earlier, longer value behind it does not matter; the string is cut at the first 0, which
  is a least number (`SomeLeast`).
* `HidapiProofs`. `OwnedInv` has a part for each implementation that says, for every
  place of the owner, the reader, the thread and the callback, what is acquired.
  `AllGivenBackAlways` follows, and with `WriteInv` `NothingFreedInUseAlways`: while the
  system has a write, either `hid_write` is waiting for it or has timed out. Both have
  the exceptions of the properties. `OwnedInv` is inductive because of
  the two facts the code is built on: the libusb thread ends only after
  `transfer_loop_finished`, which excludes a transfer in flight, and on macOS the run
  loop and the `hid_device` outlive each other's last use by the barrier and the join.
  `WriteTakenAlways` from `WriteInv`, which says that without a timeout at most one
  write is pending, that it is the one that is waited for, and that a signalled event is
  its own. `ImplementsHandleAlways` needs one
  more invariant, `HandleInv`: what is in the list, in `read_buf` of Windows or in a
  file of NetBSD is ascending and from among the reports sent, a report in `read_buf` is
  older than those behind it, and the flags that end a read are raised by a failure or by
  `hid_close` only. Every step of the threads, of the run loop and of libusb then maps to
  no step of `HidHandle`, and the others to a report's arrival or loss, the begin or the
  end of a call, or a failure. A report that is dropped from a full list is the oldest
  one, in Linux the newest; `HidHandle` allows both.
* `HidDescriptorProofs`. `ParsersEnd` is about *any* bytes as a descriptor: `get_usage`
  and `get_next_hid_usage`, called again until it finds nothing, end and read nothing
  beyond the last byte. Their loops are recursive functions, defined by `CHOOSE`, so it
  has to be shown that a function exists that satisfies the equation. `Chain` and
  `Gathered` do that for any loop in which each step gives a larger offset, until the
  end: an item has at least one byte, and a collection ends behind its beginning. If no
  function gave a value to all offsets at some distance from the end, there would be a
  least such distance, and one of the offsets at it would be followed by one nearer to
  the end that has none either.

  `EveryUsageListed`, `FirstUsageListed` and `CutInventsNothing` are about the bytes of
  any sequence of items, however long and deeply nested, and `DescriptorUsagesAlways`
  puts them together. `BytesOf` is a concatenation, defined by recursion too: `Offsets`
  says where each item begins (`FlattenAt`), and each key and value that a parser reads
  is that of an item (`Whole`, or `LaidOut` when the last item is cut off). From there on
  the parser is followed from item to item: `EndOfCollection` keeps a level that is
  `Level` of the items less that of its start, so it stops at the item that closes the
  collection (`EndIsFound`); between two top-level collections a call knows, at each
  item, the last page and the usage before it (`Before`, `OneStep`); and the next call
  begins where one has ended, so that from the n-th collection on the rest of
  `TopUsages` is found (`OthersFound`, from the last collection backwards).
  Where an argument goes on from item to item it is put as a set of item numbers that has
  the first and, with each, the next one (`Upward`), or as the least one that would be
  wrong (`SomeLeast`), which stands in for the induction that the provers cannot
  instantiate.
* `HidReportsProofs`. `ReportIsWholeAlways` goes through the calls of each system, with
  lemmas on what `Upto`, `Onto` and padding do with sequences of any length
  (`SendWhole`, `CutAgrees`, `CutPadded`). It has the exceptions of the property.
* `HidEnumerationProofs`. `EnumInv`: no unit is in two ports and no name is given twice
  (`Plugged`); each entry of the list tells of a device that passes the filter (`Tells`),
  and if its path still leads to an interface, that is the same device, unless another was
  plugged in since and was given the same path (`Listed`). `OpenedIsWantedAlways`
  follows: on macOS no name is given again, on Windows a path keeps the ids, and on the
  others only what came after the listing can be mistaken. `NothingElseAlways` is half
  of `ListIsComplete`: the list has nothing but what passes, with its own ids and a path
  that leads to it, whatever the descriptors are. `ListIsCompleteAlways` is all of it.
  `MeantIs` says, system by system and with `EveryUsageListed` and `FirstUsageListed`,
  what the entries of one interface are. `ListHolds` says where in the list they are: the
  list is a concatenation over the ports, in any order that has each port once
  (`OrderIs`), of concatenations over the interfaces, and a part of a concatenation is a
  segment of it (`PartIs`). No entry outside of the segment leads to the interface,
  because no two interfaces that are plugged in have paths one of which begins with the
  other (`SameInterface`), which is what `Plugged` is needed for once more.

Only model-checked:

* `FifoProgress`, `RequestCompletes`, `CloseCompletes`, `ReadingsArrive`, `CloseReturns`
  and `ReadReturns`: liveness is out of the prover's reach.

Every safety property that the passing runs check is proved, and all three refinements.

## 5. What is not modelled

* Several threads that open and close one object at once: the library's `start` and
  `stop` are not written for it and no caller in the repository does it.
* Which of several calling threads gets an answer: with more than one, answers may be
  exchanged, and `AnswerIsMine` is stated for one, as are `Gpio`, `UsbPorts` and `I2c`.
  Liveness and life cycle are checked for three.
* The attribute ids and packet layout in `TbiService`: a packet is a record. The bytes
  of a value are in `Attvalue`.
* Torn reads of plain members (`mAttTriggerMode`, `integratingTime`).
* Arithmetic of averages, time, and sleeping.
* Colour, DFU reset, calibration and register dump of the meters: single requests.
* Of hidapi: error messages, the string getters and character conversions (the manager
  compares names of at most 31 ASCII characters, which its conversion leaves alone),
  initialising an Xbox controller, `hid_get_report_descriptor` as a call of its own, and
  with it the reconstruction of descriptors on Windows
  (`hidapi_descriptor_reconstruct.c`), which the library never calls and whose input
  only the Windows kernel makes. Several readers of one handle, and a reader during
  `hid_close`: the library does neither. Calls with a length of 0 that libusb's feature
  functions would take one off (1581-1669). What NetBSD's kernel delivers for `hid_read`
  when there are report ids. Barriers are those of POSIX: the replacement for systems
  that have none (`hidapi_thread_pthread.h`) waits once, without testing again.
* Language bindings and samples: generated wrappers and example programs.

## 6. What is left

Everything that the library itself does with a device is modelled. What could be added:

1. Several calling threads: what does hold when answers are exchanged, and across a
   close while others wait; two threads over one `Gpio` or `I2c`.
2. Several readers of one hidapi handle, of which libusb wakes only one.
3. The descriptor reconstruction of Windows, as operators, against `HidDescriptor`.

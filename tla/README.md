# TLA+ for mantis-drivers

mantis-drivers is a collection of Linux drivers (kernel 2.6.38) for a board with
a S3C6410, a single ARM core, together with the programs that try them out. This
directory holds TLA+ modules of those drivers whose behaviour depends on the
order of things: threads, interrupts, USB completions, timeouts, unplugging. TLC
checks small instances of every module; TLAPS proves the safety properties of
every modelled driver, and the two refinements, for every value of the constants.

Contents: [the system](#the-system), [the modules](#the-modules), [how the state
and the actions correspond to the code](#correspondence-with-the-code), [what
the runs check](#the-runs), [fairness](#fairness), [what is
proved](#the-proofs), [disagreements](#where-code-and-comments-disagree),
[what is not modelled](#what-is-not-modelled), [the plan](#the-plan).

## The system

All paths are below `src/`. The drivers are independent of each other: each is a
kernel module that interacts with the kernel's subsystems, with user processes
and with its device. The exceptions are named.

| component | state | operations | what is hard | what makes it correct |
|---|---|---|---|---|
| **USB mass storage**, `usb-module/csk_udisk_mgr.c`, control | `us_data`: the current command `srb`, flag bits, semaphore of the control thread, completion `notify`, `dev_mutex`, URB and scatter-gather state, memory and host references | `queuecommand`, the thread `usb_worker`, `command_abort`, `device_reset`, `bus_reset`, pre/post reset, probe, disconnect, `mod_exit` | four threads of control; cancelling a request while it is being submitted; the mutex given up in the middle of a command; timeout against completion; unplug at any moment; failure of any step of probe | a command is answered once, not after it was taken back; no cancellation is lost; requests do not overlap; memory outlives its users; every command and every disconnect comes to an end |
| the same file, **Bulk-only transport** | the request, residual, result and sense data of a command; tag and signature; the phase of the device | `usb_stor_invoke_transport`, `usb_stor_Bulk_transport`, `usb_stor_transfer_bulk`, auto-sense, the two resets | a device that ends transfers short, stalls, repeats, lies about the residue, or still holds the status of an earlier command | host and device stay in step; a verdict is what the device said of this command; short data is not reported good |
| **USB skeleton**, `usb-module/usb_skeleton.c` | the character device: `io_mutex`, `limit_sem`, reference count, interface pointer, read URB with its buffer counters, anchored write URBs, error | open, read, write, flush, release, two completion handlers, pre/post reset, suspend, disconnect | several processes and interrupts; a reader sleeps with the mutex held; unplug with the file open | write slots conserved; no use after `skel_delete`; sleepers woken; nothing in flight after a draw-down |
| **EEPROM**, `i2c-module/at24.c` | the chip's memory and write cycle, the lock, an attempt's timeout | read and write of the sysfs file (and of other kernel code), cut into transfers and retried | page boundaries; a chip that is deaf while it writes; scheduling between the clock and the transfer | a write changes what was asked and nothing else; a read is consistent; no false timeout |
| **Keys**, `button-test/test.c` and `my-button1.c` | interrupt lines, key values, event flags, wait queues | open with rollback, close, interrupt, read, poll | interrupts between any two steps; both drivers want one line | no change is lost, no wake-up missed, failed opens leave the lines alone |
| Memory device, `mymdev/` | a buffer, two semaphores, two wait queues, file positions | read, write, llseek | sleeping and waking; positions at the end | the semaphores are released; a reader is woken |
| Memory device on its own bus, `memdev-bus/` | as mymdev, and the bus, the device and the driver objects | registration and removal by three kernel modules | the order in which the modules go | nothing used after it was freed |
| Bus examples, `my-bus/`, `my-kobject/` | driver core objects | the same | the same | the same |
| Motor and pin, `motor-test/`, `gpio-gpk13-test/` | use count, spinlock, a thread and a completion | open, ioctl, release | a second open; a thread that outlives the file | one user; locks released |
| `block-test/myblock.c` | semaphore, completion, thread, all global | open, ioctl, read, release | every open initializes them again | waiters are woken |
| Virtual serial port, `uart-module/` | a timer that is never made | start_tx, shutdown | - | - |
| Mouse, `usb-logger/mouse-usb.c`, `usb-module/my_mouse.c` | interrupt URB, input device | open, close, probe, disconnect, completion | resubmission against kill | no URB after disconnect |
| `/proc` files, `proc-gpk13-module/`, `module-proc-*/` | one static buffer each | read, write | lengths | length within the buffer |
| Older USB experiments, `usb-module/{0-,1-}usb_skeleton.c`, `usb.c`, `pctest.c`, `test.c` | | | earlier states of the skeleton driver, user tests | |
| Bluetooth tools, `bluetooth-test/test/` | | socket programs around BlueZ | | |
| **Bluetooth over USB**, `usb-logger/bluetooth-amlogic/btusb.c` | bits that say which URBs should be listening, anchors of URBs, frames put off, the count `tx_in_flight`, two works | open, close, send, flush, notify, suspend, resume, the works, eight completion handlers, disconnect | suspension and resume beside close, works and handlers; a bit is set before or after the submission it speaks of; submissions that fail; one static buffer for every voice packet | an open device listens and a closed one does not; frames are counted as often as they are submitted; none that was put off is forgotten |
| **BCSP**, `usb-logger/bluetooth-stand/hci_bcsp.c` | queues of packets to be sent, and sent but not acknowledged; sequence numbers; a timer | enqueue, dequeue, receive, timeout | a line that loses frames; numbers that wrap; the timer beside the receive path; data read without the lock | packets arrive once and in order in both directions; the timer runs while one is unacknowledged |
| **UART line discipline and HCILL**, `hci_ldisc.c`, `hci_ll.c` | the bits `SENDING` and `TX_WAKEUP`, the rest of a frame, the protocol's queues and state | `hci_uart_tx_wakeup`, tty wakeup, send, receive, sleep and wake-up signals | any thread may run the loop; a UART that takes half a frame; requests to sleep and to wake that cross | packets arrive whole and in order; a sleeping chip is woken before it is sent anything |
| Other Bluetooth files, `hci_ath.c`, `bluetooth-stand/btusb.c` | | copies of Linux' `drivers/bluetooth` | | |

`bluetooth-test/{include,lib,share,bin,...}` are installed third-party packages
and binaries.

How the modelled parts interact with what surrounds them:

- mass storage with the SCSI midlayer (`queuecommand` called under the host lock,
  `scsi_done`, the timer and the error handler thread), with the USB core
  (URBs and their completions, the device lock, binding and reset callbacks),
  and control with transport through the threads that run both;
- the skeleton driver with the USB core (the same, the minor number's lock,
  runtime power management) and the VFS (open, flush, release);
- the EEPROM driver with the I2C bus, one transfer at a time;
- the two key drivers with each other through one interrupt line;
- the Bluetooth USB driver with the Bluetooth core (open, close, send, notify),
  the USB core (URBs, suspension) and the work queue; the system is asleep only
  between a suspension and its resume, and then no process runs;
- BCSP and HCILL with the line discipline (`hci_uart_tx_wakeup` takes frames from
  the protocol's `dequeue`; received bytes go to its `recv`), and through it with
  the UART and the card.

## The modules

| module | models | lines |
|---|---|---|
| `ScsiService` | abstract: what a SCSI host driver with `can_queue = 1` promises the midlayer | 80 |
| `UsbStorage` | the control side of `csk_udisk_mgr.c`: threads, cancellation, abort, reset, probe, disconnect, unload; the safety and liveness properties and the inductive invariant | 926 |
| `UsbStorageMC` | its instance for TLC | |
| `UsbStorageProofs` | that the inductive invariant holds, the safety theorems, and that `UsbStorage` implements `ScsiService` | 1351 |
| `BulkTransport`, `BulkTransportMC` | the data side of `csk_udisk_mgr.c`: the transport, the auto-sense, the resets, against an arbitrary device | 418 |
| `BulkTransportProofs` | its invariant and theorems | 1607 |
| `UsbSkeleton`, `UsbSkeletonMC` | `usb_skeleton.c` | 627 |
| `UsbSkeletonProofs` | its invariant and theorems | 1509 |
| `At24`, `At24MC` | `at24.c` and the chip | 264 |
| `At24Proofs` | its invariants and theorems, and lemmas on division, pages and addresses | 1196 |
| `Buttons`, `ButtonsMC` | `test.c` and `my-button1.c` on one set of interrupt lines | 366 |
| `ButtonsProofs` | its invariant and theorems | 750 |
| `ReliableLink` | abstract: what a BCSP link promises in each direction | 46 |
| `HciBcsp`, `HciBcspMC` | `hci_bcsp.c` and a card on a line that loses frames; implements `ReliableLink` | 358 |
| `HciBcspProofs` | its invariant, that the timer runs, and that `HciBcsp` implements `ReliableLink`; lemmas on remainders, queues and numbered frames | 3598 |
| `HciUart` | the transmit loop of `hci_ldisc.c` | 134 |
| `HciLl`, `HciLlMC` | EXTENDS `HciUart`: `hci_ll.c` and a chip that sleeps | 204 |
| `HciLlProofs` | its invariant (of the loop in `HciUart` too) and theorems | 2291 |
| `Btusb`, `BtusbMC` | `btusb.c` with the power management around it | 493 |
| `BtusbProofs` | its invariant and theorems | 935 |

Every `...Proofs` module EXTENDS the module it is about and nothing of ours else;
the invariant of `UsbStorage` is in `UsbStorage`, because a run checks it, and
those of the others are at the beginning of their proofs.

`HciLl` is the composition of a protocol with the line discipline: its enqueue
and receive actions leave a thread at the start of `hci_uart_tx_wakeup`, whose
steps are `HciUart`'s. `HciBcsp` has the same loop in front of it, in a coarser
form: `loop` is `SENDING` and the last look at `TX_WAKEUP`, `TxWakeup` is what
every caller of `hci_uart_tx_wakeup` does to them, and a frame goes to the line
whole.

`UsbStorage` and `BulkTransport` model one file from two sides. The first keeps
every step of a USB request (test the flags, submit, set the active bit, test
again, wait) and abstracts what is transferred: a command is up to `MaxMsgs`
requests that end well or badly. The second takes a transfer as one action and
keeps what was transferred. They meet in `usb_stor_invoke_transport`: the stages
`"command"`, `"sense"` and `"reset"` of `UsbStorage` are the transfers of
`BulkTransport`, and a cancelled request is a failed transfer there. Nothing in
the flow of control of the first depends on the data of the second except how
many requests there are and whether each succeeds, which the first leaves open.

Faulty variants (`RecheckOmitted`, `KrefGetForgotten`, `ReadCopyThenClear`, ...)
stand next to the definitions they are variants of. No specification uses them;
each property is known to fail when its variant takes the place of the original.

## Correspondence with the code

Common to all modules: `pc[t]` is where a thread stands, one action is one step
of it, named for the function or the step; a section under an irq-disabling
spinlock, and an interrupt handler, is one action, because the machine has one
core; sleeping locks are variables that hold their owner; local variables go
back to their initial value when the call is over. `PROJECT.json` gives the
source lines of every definition.

**UsbStorage.** `pc["worker"]` is `usb_worker`, `pc["eh"]` the SCSI error
handler inside this driver, `pc["core"]` the thread of the USB core from probe
to unload. `flags` are the dynamic bits of `us->flags`, `io` what is in flight
through `us->current_urb` and `us->current_sg`, `res` and `hostRefs` the memory
that probe acquired. The actions `Check`, `Submit`, `Mark`, `Recheck`, `Wait`
are the single accesses of `usb_stor_msg_common` and of
`usb_stor_bulk_transfer_sglist`; `Down`, `Lock`, `Begin`, `Finish`, `Exit` the
steps of `usb_worker`; `CommandAbort` and `AbortReturns` the two halves of
`command_abort`; `HandleErrors` and `Relock` the place where
`usb_stor_invoke_transport` gives `dev_mutex` up around a port reset; `Probe` to
`FreeUpAll` the life of the device, with a failure at any step of probe. `cmd`
is the midlayer's view of a command, `answers` a history of `scsi_done`.

**BulkTransport.** `stage` is the transfer that comes next; `request`, `old`,
`sensing` are the fields of `srb` that the auto-sense borrows and the variables
they are saved in. `dev` is the device: its phase, the command it serves, how
much it means to transfer. It may fail or stall anything, send empty packets,
claim any residue from nothing to more than was asked for, confuse the signature,
and survive resets unchanged; it may take or send all data and use only a part
(`moved` and `used`). `truth` and `lame` are history: what the device really did
and said, and whether the last reset worked.

**UsbSkeleton.** `urb` is the read URB (the length asked for), `done` the counter
in `bulk_in_completion`, `filled` and `copied` the buffer counters (`size_t`,
modulo `Word`), `writes` the anchored write URBs. `core` is the USB core.
`enabled` is the core's own barrier: before it calls `skel_disconnect` it
disables the endpoints, which gives every URB back. A call waits for `io_mutex`
or for a slot of `limit_sem` at a label of its own, and the signals that end
such a wait are actions apart (`Signal`).

**At24.** A byte is named by its writer and its offset, so a byte in the wrong
place shows. Time is what is left until a deadline; `Tick` may come between any
two steps, which is how a process is scheduled late. The chip does not
acknowledge for up to `WriteCycle` ticks after a write. `Transfer` is
`i2c_transfer` with the test of its result: done (`Succeeds`), failed (`Fails`),
or stopped after the first of a read's two messages (`Stops`), when it returns 1.

**Buttons.** `owner` and `masked` are the interrupt lines, `pin` and `pending`
the hardware, `event` the flags `ev_press` and `press`, `reported` a history of
what users have been told, `missed` one of the changes that a read has cleared
without asking for the key, or for a buffer that was not there. An interrupt may
come between any two steps, the copies of single keys included.

**HciBcsp.** `rel`, `unack` and `unrel` are the queues, `tx` the frame between
`bcsp_prepare_pkt`'s reading of the acknowledgement and the line, `rx` the frame
that `bcsp_complete_rx_pkt` has counted but not yet culled for. `Complete` and
`TimedEvent` wait for `unack.lock`, which `Dequeue` of a reliable packet holds.
`loop` and `wakeup` are the loop of `hci_uart_tx_wakeup` and the flag
`TX_WAKEUP`, as long as the loop will still look at it; the loop sends only while
somebody has called it: those who enqueue, the receive path for a reliable frame
and for the answer to a "conf", the timer, and the tty. The card is the least the
driver relies on. Packets are named by the order in which they were handed over.

**HciUart and HciLl.** `pc[t]` is where a thread stands in
`hci_uart_tx_wakeup`: the test-and-set of `SENDING`, the marking of `TX_WAKEUP`,
its clearing, dequeue, write, the last look at it, and the release. What is done
under `hcill_lock` is one action. A packet takes two units of the UART's buffer,
a signal one. `passedBy` is a history of the one schedule in which a packet is
left behind (below). The threads' steps interleave freely, which is more than one core
allows.

**Btusb.** URBs are counted by anchor, in `rx`, `tx` and `played`. `hpc` is where
`btusb_open` or `btusb_close` stands, `pm` the same of `btusb_suspend` and
`btusb_resume`, `wpc` of `btusb_work`; each test of a bit is a step apart from
what it decides. `holds` are those who have taken the device by
`usb_autopm_get_interface`, which waits for a suspension or a resume under way.
A resume that fails is four steps: the submission, the clear of its bit, the
scuttle of what is deferred (`ResumeFailed`), and the clear of `SUSPENDING`
(`ResumeDone`). `stale`, `leaked`, `late`, `rxFailed` and `wakeFailed` are
histories of what the properties must except.

## The runs

| run | instance | shows |
|---|---|---|
| `storage` | 2 commands, up to 3 requests each, fair | every safety property of the driver, the inductive invariant itself, that it implements `ScsiService`, and liveness: commands finish, disconnects complete, the thread exits |
| `storage_abort_hangs` | 1 command | a disagreement, below |
| `bulk_safety` | 2 commands of 0 to 2 units, a sense of 1 unit, 2 signatures | the transport keeps in step, and verdicts and residuals are right |
| `skeleton_safety` | 2 processes, 2 writes in flight, buffer of 2, counters modulo 4 | slots, references, wake-ups, draw-downs |
| `skeleton_liveness` | 2 processes, 1 write, buffer of 1, fair | a disconnect completes and afterwards every call returns |
| `skeleton_copied` | as `skeleton_safety` | a disagreement, below |
| `at24_safety` | 2 processes, 4 bytes, pages of 2, transfers of up to 2 | reads, writes, page boundaries, timeouts |
| `at24_address` | the same with 2 bytes behind one address | a disagreement, below |
| `buttons` | 2 processes, 2 keys, both drivers | no lost change, no missed wake-up, lines follow the file |
| `bcsp` | 3 packets to the card and 1 from it, numbers modulo 3, window 2, 1 unreliable packet, 1 frame on the line each way, fair | the link implements `ReliableLink`; the timer runs; packets arrive |
| `hci_ll` | 2 packets, a UART of 2 units, three threads | packets arrive whole, in order, and all of them; a sleeping chip hears only the request to wake |
| `btusb` | 2 frames under way | counts, silence of a closed device, listening of an open one, frames put off |

Each property is preceded in its module by a sentence that says what it means.
`TypeOK` of every module documents the ranges of its variables. The run
`storage` checks it, because there it is part of the inductive invariant; in the
other modules the invariant is proved, after TLC had found no state of these
instances in which it fails.
`CommandThere`, `OwnsOnlyOutstanding`, `NotifyMatchesAbort` and
`NoAnswerAfterFinish` of `UsbStorage` follow from that invariant and are proved
from it, without a run of their own.

Why the bounds are enough:

- `Cmds`: `can_queue = 1`, so at most one command is in the driver; the second
  is needed for what an earlier one leaves behind (stale bits, completions, a
  semaphore count), and a third meets the same states. The proofs are for any
  set.
- `MaxMsgs` = 3: a command wrapper, data and a status are three requests. The
  proofs are for any number.
- `MaxCommands` = 2: tags, signatures, sense data and a device that is out of
  step carry over from one command to the next.
- `Lengths` 0, 1, 2: nothing, less than a sense, more than a sense; the device
  may also mean to send more than any of these (`Nonsense`).
- `Word` = 4, `BulkInSize` = 2: the difference of two counters wraps, and a read
  may ask for more or less than the buffer. `MaxDone` = 2 unconsumed
  completions: one stale completion is enough to release a later wait; the guard
  of `ReadSubmit` that keeps the counter at the bound treats the submission as
  refused, so nothing blocks.
- Each process opens the skeleton device once, shares its descriptor any number
  of times, and calls any number of operations.
- `At24`: two pages, a transfer limit equal to the page, unaligned offsets; two
  processes are enough for one to find the chip busy with the other's write.
- `Buttons`: two lines, so that a rollback has something to give back; two
  processes for two readers of a file, an open against an open file, or one
  driver against the other.

- `bcsp`: the wrap-around of the numbers is met after three packets, and a window
  one below the modulus is the tightest the algorithm allows (the driver has 4
  of 8). One frame on the line: an older acknowledgement can still arrive after
  a timeout, because a frame also waits in `rx`, in `tx` and on the other side.
  With one packet more than the window, the acknowledgement that opens it leaves
  a packet waiting for somebody to call the loop.
- `hci_ll`: two packets are enough for one to overtake the other and for the chip
  to sleep between them; a UART with room for one packet takes half a packet when
  a signal is before it. One sender beside the receive path and the UART's
  tasklet makes three threads for one loop.
- `btusb`: two frames, so that one is in flight while another is put off. The
  runs of open, close, suspension and resume are not bounded.

Deadlock is checked in every run but `hci_ll`, which comes to rest when
everything has arrived, and `btusb`, in which the driver really can block
(below); in `bcsp` it cannot occur, because the tty may always
call the loop. Where a system comes to its end an action says so: `Stopped` (the
module is unloaded), `Finished` (the device is gone and nobody has it open) and
`Done` (the bound on commands is reached).

## Fairness

`UsbStorage!Fairness`: the three threads are strongly fair: they keep running,
and a sleeping lock, granted in the order of its waiters, cannot be taken ahead
of one for ever. A request that was unlinked is given back, as the host
controller drivers guarantee, and a command's timer fires. Nothing is assumed of
a request in flight: the device may never answer, and what ends it is the timer
or the unplug.

`UsbSkeleton!Fairness`: a process inside the driver keeps running and gets the
mutex, or a slot of `limit_sem`, if it is free again and again (both queue those
who wait), and so does the USB core once it has started a reset or a disconnect.
Nothing makes the device answer, a signal arrive, or a user call or close
anything: the actions of `Signal` are in no fairness condition. A reader may
sleep for ever while the device is there, so `CallsReturn` starts when the core
has disabled the endpoints; it is about calls that wait for the mutex or for a
slot too.

`HciBcsp!FairSpec`: the sending loop, once it is called, the receiving thread and
the timer's handler finish what is due (`LoopStep`, `Receive`, `Complete`,
`TimedEvent`). Nothing makes anybody call the loop: neither `EnqueueRel` nor
`TtyWakeup` is fair. The line may lose any frame, but not every one: strong
fairness on the arrival of each sequence number and of an acknowledgement that
takes something off `unack`. `PacketsArrive` has three premises. `PromptLine`:
from some time on the timer (250 ms) does not expire while frames of the last
round are still on the way; without it the driver may send the same window again
before every answer for ever. `MemoryLasts`: from some time on `alloc_skb` does
not fail. And no packet stays `LeftBehind`: in `rel`, with nothing to be
acknowledged, no timer and nobody in the loop, which the code does not exclude
(below).

`HciLl!FairSpec`: a thread inside the loop goes on, received signals are handled,
the UART sends what it has and then calls back. Nothing makes anybody send, and
nothing makes the chip ask. `PacketsArrive` excepts behaviours in which there is
no memory for a signal, since neither side repeats a signal, and those in which
`passedBy` comes true.

## The proofs

Each module of a driver has a module of proofs, for every value of the constants
that its assumptions admit. The assumptions are these, and TLC evaluates them in
the runs:

| module | assumptions beyond the types of the constants |
|---|---|
| `UsbStorage` | `NoCmd` is no command; a transport has at least one request |
| `BulkTransport` | 0 is a length (TEST UNIT READY has no data), 0 is no signature, there is a longest transfer (lengths are 32 bits wide) |
| `UsbSkeleton` | finitely many processes; `size_t` holds the buffer's size and every count |
| `At24` | a write cycle is not longer than `write_timeout`, which is what the comment at the parameter asks for |
| `Buttons` | finitely many processes; the key of `my-button1` is one of the keys |
| `HciBcsp` | both windows are below the modulus of the numbers (4 of 8 in the driver; BCSP asks the same of the card) |
| `HciLl` | the UART has room for something; the threads are different ones; packets are numbered from 1 |
| `Btusb` | none |

Three theorems of `At24Proofs` have the hypothesis `NoAliases`, `byte_len <=
Addressable`: they are false without it, as the run `at24_address` shows.

In every module the invariant, here `IInv`, is a conjunction of named parts with
a lemma each, which says that every action preserves that part; `Invariance`
(`Inductive` in `UsbStorage`) puts them together, and the theorems follow from it.
`TypeOK` is always a part, so that no counter goes below zero.

### `UsbStorageProofs`

The safety properties are not inductive by themselves: that no cancellation is
lost depends on the active bit being set for every request in flight once `Mark`
has been passed (`IoInv`), that holds only because one thread at a time is in
the request protocol (`MutexInv`), and what the mutex protects is only there in
certain phases of the device's life (`PhaseInv`, `MemoryInv`). That the control
thread finds a command depends on what the semaphore counts (`SrbInv`), that an
abort leaves nothing behind on who may hold `TIMED_OUT` (`AbortInv`), and that a
command is answered once on who knows of it (`CommandInv`).

| theorem | statement |
|---|---|
| `TypeCorrect` | `[]TypeOK` |
| `Inductive` | `[](TypeOK /\ IInv)` |
| `RequestsExclusive` | `[]RequestUnderMutex` |
| `CancellationCorrect` | `[]CancelNotLost` |
| `WorkerFindsCommand` | `[]CommandThere` |
| `CommandsOwned` | `[](OwnsOnlyOutstanding /\ AnsweredAtMostOnce /\ NeverBusy)` |
| `AbortCorrect` | `[](NotifyMatchesAbort /\ NoStaleAbort)` |
| `MemorySafe` | `[]NoUseAfterFree` |
| `NothingIsLeaked` | `[]NothingLeaked` |
| `NotAnsweredLate` | the action property `NoAnswerAfterFinish` |
| `Implements` | `ImplementsService`: each action is an action of `ScsiService` or a stutter |

### `BulkTransportProofs`

A verdict is true because the status that was accepted carries the tag of the
command, and a device that has this tag has taken the wrapper sent with it
(`TagInv`); what it said then, and that the residual covers what was not moved and what it
admits to have left over, must be kept while the sense data are fetched
(`TruthInv`), and the request must be back to the command's afterwards
(`RequestInv`). The device is in step after a transport that got a status, and
every other transport ends in a reset (`PhaseInv`).

| theorem | statement |
|---|---|
| `StaysInStep` | `[]InStep` |
| `VerdictsAreTrue` | `[]VerdictIsTrue` |
| `ShortIsNotGood` | `[]NoShortGood` |
| `ResidualsAreSane` | `[]ResidTrusted` |

### `UsbSkeletonProofs`

The counters are what they count (`CountInv`): the references are the opens and
the core's one, the slots missing are the calls and URBs of writers. Proving it
takes the cardinality of the set of processes at some labels, and how one step
changes it (`CountsChange`). `ReadInv` says what `ongoing_read` means while the
URB is being submitted, which only the mutex makes true (`MutexInv`); `BindInv`
how far a disconnect has come and what it therefore may rely on.

| theorem | statement |
|---|---|
| `SlotsAreConserved` | `[]WriteSlotsConserved` |
| `WaitersAreWoken` | `[]ReaderIsWoken` |
| `DrawDownsLast` | `[]DrawnDown` |
| `FreedWhenUnused` | `[]NoUseAfterFree` |
| `FreedInTheEnd` | `[]NothingLeaked` |

### `At24Proofs`

`CallInv`: a transfer continues where its call has got to, and a write stays in
a page, so that the chip does not wrap around. `TimeInv`: while a transfer is
retried nobody else starts a write cycle, and the one under way ends before the
timeout; a sample of the clock at or after the timeout was taken when the chip
was ready. `DataInv`, for chips without aliases: what a call counts as done is
done, but for a byte read alone on a bus that fails. The lemmas on quotients and
remainders that the pages need (`CellInPage`, `CellsDiffer`, `ChunkInPage`) are
proved from those of division.

| theorem | statement |
|---|---|
| `WaitsAreLongEnough` | `[]NoFalseTimeout` |
| `WritesLand` | `[]WriteLanded`, with `NoAliases` |
| `ReadsAreConsistent` | `[]ReadConsistent`, with `NoAliases` |
| `OthersUntouched` | the action property `OnlyAskedChanged`, with `NoAliases` |

### `ButtonsProofs`

`LinesFollowFile` speaks of the time between calls; in between, an opener holds
the lines it has passed and one that closes those it has not reached
(`LinesInv`), and nobody else has the file that is being closed (`FilesInv`).
The two properties about events are inductive with that.

| theorem | statement |
|---|---|
| `ChangesAreReported` | `[]NoChangeUnreported` |
| `SleepersAreWoken` | `[]NoMissedWakeUp` |
| `LinesAreBalanced` | `[]LinesFollowFile` |

### `HciBcspProofs`

Numbers wrap, so the invariant counts without the modulus: `Base` packets are
acknowledged, `AtCard` have reached the card, and the other way round `cAcked`
and `AtHost`. `HostInv` and `CardInv` say how the queues and the numbers in the
driver relate to these counts; `LineInv` that no frame on a line is a window or
more away from the one its receiver awaits, now or when it gets there, so its
number cannot be taken for another's; `AckInv` that the acknowledgements on a
line, and those that `tx` and `rx` hold, never go back, so an old one cannot be
taken for one that is to come. The steps of the loop that send nothing leave all
of this alone (`LoopOnly`), so the lemmas are about the others, `Exchange`.

| theorem | statement |
|---|---|
| `TimerAlwaysRuns` | `[]TimerRuns` |
| `DeliversInOrder` | `ImplementsLink`: each step is a step of `ReliableLink` in one direction, in both, or a stutter |

### `HciLlProofs`

`LoopInv`: one thread at a time is in the loop, and what is in hand or was put
back is one frame. `FrameInv`: a packet's units are not separated. `SleepInv`:
behind the acknowledgement that lets the chip sleep goes nothing but the request
to wake up, in the UART, in hand and in `txq`. `OrderInv`: the packets the chip has not
got are, in this order and none missing, in the UART, in hand, in `txq` and in
`tx_wait_q`.

| theorem | statement |
|---|---|
| `PacketsInOrder` | `[]ArriveInOrder` |
| `SleepersAreLeftAlone` | `[]AsleepHearsOnlyWake` |

### `BtusbProofs`

`PhaseInv` says what excludes what: open holds the device, so it never runs
against a suspension that has begun, but close does. `DeafInv`: what close has
killed stays dead up to the next open's own URBs. `DeferInv` follows the frames
put off through close and resume: when a resume fails, the late ones are all
there are. `ListenInv` follows the bits through open and resume.

| theorem | statement |
|---|---|
| `FramesAreCounted` | `[]TxCounted` |
| `ClosedStaysDeaf` | `[]ClosedIsDeaf` |
| `OpenListens` | `[]Listens` |
| `DeferredFramesWait` | `[]DeferredWaits` |

### Only model-checked

The liveness properties: `CommandFinishes`, `DisconnectCompletes` and
`WorkerExits` of the storage driver, `CallsReturn` of the skeleton, and
`PacketsArrive` of both Bluetooth protocols. They rest on fairness and so on
ENABLED, which the installed provers do not reach. Every safety property and
every action property that a passing run checks is proved.

## Where code and comments disagree

Each of these is a run that ends in a counterexample, and an entry in
`PROJECT.json` that quotes the line.

- `storage_abort_hangs`: a `command_abort` waits for `us->notify`; if a
  disconnect comes before the control thread picks the command up, the thread
  leaves without the `complete` that the comment promises.
- `skeleton_copied`: `bulk_in_copied` is only reset by a reader that waited;
  after a transfer that ended unobserved it exceeds `bulk_in_filled`, and the
  difference wraps.
- `at24_address`: offsets beyond 255 are cut to eight bits and go to the address
  of the first 256 bytes.

Seen on the way, without a line in the repository that says otherwise. The models
reach each of these; the hazards list most of them, and the properties say what holds
besides:

- Storage: nothing makes `mod_exit` wait for control threads that still run
  (`ModExit`; the `complete` that would tell it is commented out, line 988). A
  REQUEST SENSE that ends short with a good status hands on what an earlier
  command left in the sense buffer (`SenseVerdict`).
- Storage again: what a device says it left over is believed (1134). One that
  swallows data and reports less residue than it left over makes a command good
  that it did not carry out (808); `NoShortGood` excepts it, because the host has
  nothing else to go by.
- Skeleton: readers clear `dev->errors` without the lock, so an error can be lost
  or reported twice; the handlers record unlinking as an error, so that a close
  which cancels a read reports one.
- EEPROM: `i2c_transfer` returns how many messages it has executed (149). Of the
  two of a read it may execute one, and the driver, which compares the result
  with the number of bytes asked for (153), takes that for a read of one byte and
  hands out what was in its buffer; `ReadConsistent` excepts that byte.
- Keys: a second open of `my-button1` disables the line of the first, or of the
  other driver. A read of `buttons` clears `ev_press` before it copies (174): one
  that asks for some of the keys only (as `button-test.c` does, line 28), or
  whose buffer is not there (178), consumes the change of every key.
- BCSP: the acknowledgement that opens the window is culled (491) after the only
  call of the loop (485), which a frame without reliable data does not even make;
  when it empties `unack` it also stops the timer (385). A packet in `rel` then
  waits until something else is enqueued, received or written.
- Line discipline: a caller that finds `SENDING` set marks `TX_WAKEUP`; if the
  loop has looked at it for the last time (154) but not yet cleared `SENDING`
  (157), the caller's frame waits for the next call, whenever that comes.
- Bluetooth over USB: `btusb_suspend` waits for the work to end (1093), and the
  work waits in `usb_autopm_get_interface` (825) for the suspension to end: both
  stop for good. A resume that has tested a `RUNNING` bit submits its URB, and
  schedules the work, on a device that was closed meanwhile (1131, 1160). A frame
  put off between the scuttle of a failed resume (1164) and the clear of
  `SUSPENDING` (1167) stays behind on a device that is awake.
  `btusb_close` may cancel the work that was to give back the hold of the voice
  channel. A frame whose submission fails stays counted (739).

## What is not modelled

- USB mass storage: the commands the error handler sends through `queuecommand`
  after an abort (TEST UNIT READY), a failing `scsi_host_alloc`, the text in
  sysfs and proc, suspend of the whole system, the USB core's reference count of
  `struct usb_device`, the branches for device flags that no entry of the device
  table sets.
- USB skeleton and EEPROM: the failure paths of probe, which run before any
  other operation can; the EEPROM's use by in-kernel clients is the same code as
  a process's.
- BCSP: the escaping and the CRC (a frame that is damaged is lost),
  `bcsp_close`, the content of link establishment packets.
- Line discipline and HCILL: opening, closing, flushing and the choice of the
  protocol by ioctl; the reassembly of received packets in `ll_recv`, which is a
  loop over bytes of one buffer; `hci_ath`, a protocol with one queue.
- Bluetooth over USB: failures of probe; what a frame contains, the static voice
  buffer included (frames of voice in flight are counted, and more than one
  shares that buffer); more than one processor. The copy in `bluetooth-stand`
  differs in how voice packets are filled, in the type of `did_iso_resume` and
  in its device tables.
- The components without a module in the table of modules. Memory device, motor,
  mouse and the driver-core examples are in the plan; the `/proc` files are
  straight-line formatting; the serial port has no behaviour left but two calls;
  the Bluetooth tools are third-party programs.

Most of the repository's lines are headers and binaries of installed packages
and user-space programs without state of their own. The modules cover the
drivers in which something can go wrong between two steps.

## The plan

In this order; the first six are done.

1. `ScsiService`, `UsbStorage`: the control side of mass storage, the refinement
   and the proofs of its safety properties.
2. `BulkTransport`: its data side.
3. `UsbSkeleton`, `At24`: the other USB driver and the EEPROM.
4. `Buttons`: the two key drivers on one interrupt line.
5. `ReliableLink`, `HciBcsp`; `HciUart`, `HciLl`: the Bluetooth UART driver.
6. `Btusb`: the Bluetooth USB driver.
7. `Mymdev`: semaphores, wait queues and positions; to check: a reader asleep
   with data present is about to be woken; the semaphores count holders. The
   return at the end of the device with the semaphore held (lines 99 and 130)
   will be a run of its own.
8. `Motor` (with gpk13 and myblock): use count, spinlock, thread and shared
   completion across open, ioctl, release and unload.
9. `UsbMouse`: resubmission against kill and disconnect; `DriverModel`: the order
   of registration and removal over the modules of `memdev-bus` and `my-bus`.

Theorems to prove next: those of the modules above, each with its module. An
abstract specification worth stating: a memory in which reads and writes are
atomic, which `At24` implements for calls that succeed on a chip without
aliases; `At24Proofs` has the invariant for it (`DataInv`). `UsbSkeleton` and
`Btusb` have no abstract specification either.

----------------------------- MODULE UsbSkeleton -----------------------------
(***************************************************************************)
(* The character device driver src/usb-module/usb_skeleton.c: processes    *)
(* open, read, write and close a USB device with one bulk-in and one       *)
(* bulk-out endpoint, while the USB core resets, suspends and disconnects  *)
(* it.                                                                     *)
(*                                                                         *)
(* io_mutex serializes readers, submissions and draw-downs; err_lock is an *)
(* irq-disabling spinlock, so a section under it is one action, and so is  *)
(* a completion handler.  open_count is only touched under io_mutex, so    *)
(* what open and release do with it is one action as well.                 *)
(***************************************************************************)
EXTENDS Integers, FiniteSets

CONSTANTS
    Procs,             (* processes; each opens the device once (a bound)    *)
    NobodyHolds,       (* io_mutex is free                                   *)
    CoreThread,        (* the thread of the USB core                         *)
    WRITES_IN_FLIGHT,  (* the driver's limit                                 *)
    BulkInSize,        (* dev->bulk_in_size                                  *)
    Counts,            (* how much a read may ask for                        *)
    Word,              (* size_t counts modulo Word                          *)
    MaxDone            (* a read URB is submitted only while at most this    *)
                       (* many completions are unconsumed (a bound)          *)

ASSUME ProcsAssumption == IsFiniteSet(Procs)
ASSUME ThreadsAssumption ==
    NobodyHolds \notin Procs /\ CoreThread \notin Procs
    /\ CoreThread # NobodyHolds
ASSUME SizesAssumption ==
    /\ WRITES_IN_FLIGHT \in Nat \ {0}
    /\ BulkInSize \in Nat \ {0}
    /\ MaxDone \in Nat
    /\ Counts \subseteq Nat \ {0}
    /\ Word \in Nat /\ Word > BulkInSize
    /\ \A n \in Counts : n < Word

VARIABLES
    pc,           (* where each process stands                               *)
    core,         (* where the USB core stands                               *)
    site,         (* for whom skel_do_read_io runs: again, fill or ahead     *)
    count,        (* what a read still wants                                 *)
    nonblock,     (* O_NONBLOCK of the file                                  *)
    intfdata,     (* usb_get_intfdata(interface) # NULL                      *)
    minor,        (* the minor number is registered                          *)
    enabled,      (* the USB core accepts URBs for the endpoints             *)
    interface,    (* dev->interface # NULL                                   *)
    io_mutex,     (* its owner                                               *)
    open_count,
    pm,           (* references of usb_autopm_get_interface                  *)
    kref,
    limit_sem,
    writes,       (* write URBs in flight (dev->submitted)                   *)
    urb,          (* dev->bulk_in_urb: the length asked for, 0 when idle     *)
    ongoing_read,
    done,         (* completions of bulk_in_completion not yet consumed      *)
    filled,       (* dev->bulk_in_filled                                     *)
    copied,       (* dev->bulk_in_copied                                     *)
    errors        (* dev->errors                                             *)

call    == <<site, count, nonblock>>
binding == <<core, intfdata, minor, enabled>>
opens   == <<interface, open_count, pm, kref>>
readio  == <<urb, ongoing_read, done>>
data    == <<filled, copied>>
writeio == <<limit_sem, writes>>
vars == <<pc, call, binding, opens, io_mutex, writeio, readio, data, errors>>

Idle == 0
Least(a, b) == IF a < b THEN a ELSE b
Goto(p, label) == pc' = [pc EXCEPT ![p] = label]

Init ==
    /\ pc = [p \in Procs |-> "closed"]
    /\ core = "bound"
    /\ site = [p \in Procs |-> "fill"]
    /\ count \in [Procs -> {0}]
    /\ nonblock \in [Procs -> BOOLEAN]
    /\ intfdata = TRUE /\ minor = TRUE /\ enabled = TRUE /\ interface = TRUE
    /\ io_mutex = NobodyHolds
    /\ open_count = 0
    /\ pm = 0
    /\ kref = 1
    /\ limit_sem = WRITES_IN_FLIGHT
    /\ writes = 0
    /\ urb = Idle
    /\ ongoing_read = FALSE
    /\ done = 0
    /\ filled = 0
    /\ copied = 0
    /\ errors = "none"

(* mutex_lock(&dev->io_mutex), kref_get, kref_put, complete and up.  The   *)
(* definitions named Ignored, Forgotten, Twice or Unchecked are faulty     *)
(* variants that only serve to test the properties.                        *)
MutexIgnored == TRUE
MutexFree == io_mutex = NobodyHolds

KrefGetForgotten == UNCHANGED kref
KrefGet == kref' = kref + 1
KrefPutForgotten == UNCHANGED kref
KrefPut == kref' = kref - 1

CompleteForgotten == UNCHANGED done
CompleteRead == done' = done + 1

UpForgotten == UNCHANGED limit_sem
UpOnError == limit_sem' = limit_sem + 1

-----------------------------------------------------------------------------
(* skel_open, called by the USB core with the minor number's lock held for *)
(* reading; usb_deregister_dev takes it for writing.                       *)
Opening == {p \in Procs : pc[p] \in {"o_ref", "o_lock"}}

OpenFind(p) ==
    /\ pc[p] = "closed"
    /\ \/ minor /\ intfdata /\ Goto(p, "o_ref")
       \/ ~(minor /\ intfdata) /\ Goto(p, "done")        \* -ENODEV
    /\ UNCHANGED <<call, binding, opens, io_mutex, writeio, readio, data,
                   errors>>

OpenRef(p) ==
    /\ pc[p] = "o_ref"
    /\ KrefGet
    /\ Goto(p, "o_lock")
    /\ UNCHANGED <<call, binding, interface, open_count, pm, io_mutex,
                   writeio, readio, data, errors>>

OpenCount(p) ==
    /\ pc[p] = "o_lock"
    /\ MutexFree
    /\ \/ /\ open_count' = open_count + 1
          /\ pm' = IF open_count = 0 THEN pm + 1 ELSE pm
          /\ Goto(p, "open")
          /\ UNCHANGED kref
       \/ /\ open_count = 0              \* usb_autopm_get_interface fails
          /\ KrefPut
          /\ Goto(p, "done")
          /\ UNCHANGED <<open_count, pm>>
    /\ UNCHANGED <<call, binding, interface, io_mutex, writeio, readio, data,
                   errors>>

-----------------------------------------------------------------------------
(* Completion handlers, and what cancels URBs.                             *)

(* skel_read_bulk_callback.                                                *)
ReadCallback(status, length) ==
    /\ urb' = Idle
    /\ ongoing_read' = FALSE
    /\ CompleteRead
    /\ \/ /\ status = "none"
          /\ filled' = length
          /\ UNCHANGED errors
       \/ /\ status # "none"
          /\ errors' = status
          /\ UNCHANGED filled

HcRead ==
    /\ urb # Idle
    /\ \/ \E n \in 0..urb : ReadCallback("none", n)
       \/ \E e \in {"io", "pipe"} : ReadCallback(e, 0)
    /\ UNCHANGED <<pc, call, binding, opens, io_mutex, writeio, copied>>

(* skel_write_bulk_callback.                                               *)
HcWrite ==
    /\ writes > 0
    /\ writes' = writes - 1
    /\ limit_sem' = limit_sem + 1
    /\ \/ UNCHANGED errors
       \/ \E e \in {"io", "pipe"} : errors' = e
    /\ UNCHANGED <<pc, call, binding, opens, io_mutex, readio, data>>

(* usb_kill_anchored_urbs and usb_kill_urb: the handlers run with an       *)
(* unlink status.                                                          *)
KillWrites ==
    /\ writes' = 0
    /\ limit_sem' = limit_sem + writes

(* skel_draw_down: the writes get a second to finish.                      *)
ReadNotKilled ==
    /\ KillWrites
    /\ IF writes = 0 THEN UNCHANGED errors ELSE errors' = "unlinked"
    /\ UNCHANGED <<readio, filled>>
DrawDown ==
    /\ KillWrites
    /\ \/ urb # Idle /\ ReadCallback("unlinked", 0)
       \/ /\ urb = Idle
          /\ UNCHANGED <<readio, filled>>
          /\ IF writes = 0 THEN UNCHANGED errors ELSE errors' = "unlinked"

-----------------------------------------------------------------------------
(* skel_read.                                                              *)

ReadCall(p) ==
    /\ pc[p] = "open"
    /\ \E n \in Counts : count' = [count EXCEPT ![p] = n]
    /\ Goto(p, "r_lock")
    /\ UNCHANGED <<site, nonblock, binding, opens, io_mutex, writeio, readio,
                   data, errors>>

ReadLock(p) ==
    /\ pc[p] = "r_lock"
    /\ MutexFree
    /\ io_mutex' = p
    /\ Goto(p, IF interface THEN "r_retry" ELSE "r_exit")
    /\ UNCHANGED <<call, binding, opens, writeio, readio, data, errors>>

(* A signal ends the wait in mutex_lock_interruptible.                     *)
LockSignal(p) ==
    /\ pc[p] = "r_lock"
    /\ Goto(p, "open")
    /\ count' = [count EXCEPT ![p] = 0]
    /\ UNCHANGED <<site, nonblock, binding, opens, io_mutex, writeio, readio,
                   data, errors>>

ReadRetry(p) ==
    /\ pc[p] = "r_retry"
    /\ \/ ongoing_read /\ nonblock[p] /\ Goto(p, "r_exit")
       \/ ongoing_read /\ ~nonblock[p] /\ Goto(p, "r_wait")
       \/ ~ongoing_read /\ Goto(p, "r_errors")
    /\ UNCHANGED <<call, binding, opens, io_mutex, writeio, readio, data,
                   errors>>

ReadWait(p) ==
    /\ pc[p] = "r_wait"
    /\ done > 0
    /\ done' = done - 1
    /\ copied' = 0
    /\ Goto(p, "r_errors")
    /\ UNCHANGED <<call, binding, opens, io_mutex, writeio, urb, ongoing_read,
                   filled, errors>>

ReadSignal(p) ==
    /\ pc[p] = "r_wait"
    /\ Goto(p, "r_exit")
    /\ UNCHANGED <<call, binding, opens, io_mutex, writeio, readio, data,
                   errors>>

(* rv = dev->errors, without err_lock ...                                  *)
ReadErrors(p) ==
    /\ pc[p] = "r_errors"
    /\ \/ errors = "none" /\ Goto(p, "r_data")
       \/ errors # "none" /\ Goto(p, "r_clear")
    /\ UNCHANGED <<call, binding, opens, io_mutex, writeio, readio, data,
                   errors>>

(* ... and dev->errors = 0.                                                *)
ReadClear(p) ==
    /\ pc[p] = "r_clear"
    /\ errors' = "none"
    /\ filled' = 0
    /\ Goto(p, "r_exit")
    /\ UNCHANGED <<call, binding, opens, io_mutex, writeio, readio, copied>>

(* Nothing in the buffer, everything used, or chunk bytes for the user; if *)
(* the user wants more a transfer is started ahead.                        *)
Available == (filled - copied) % Word

StartIo(p, why) == site' = [site EXCEPT ![p] = why] /\ Goto(p, "r_start")

ReadData(p) ==
    /\ pc[p] = "r_data"
    /\ \/ /\ filled = 0
          /\ StartIo(p, "fill")
          /\ UNCHANGED <<count, copied>>
       \/ /\ filled # 0 /\ Available = 0
          /\ StartIo(p, "again")
          /\ UNCHANGED <<count, copied>>
       \/ /\ filled # 0 /\ Available # 0
          /\ LET chunk == Least(Available, count[p]) IN
             /\ copied' = (copied + chunk) % Word
             /\ count' = [count EXCEPT ![p] = @ - chunk]
          /\ IF Available < count[p]
             THEN StartIo(p, "ahead")
             ELSE Goto(p, "r_exit") /\ UNCHANGED site
    /\ UNCHANGED <<nonblock, binding, opens, io_mutex, writeio, readio, filled,
                   errors>>

(* skel_do_read_io: fill in the URB, say so, submit.                       *)
ReadStart(p) ==
    /\ pc[p] = "r_start"
    /\ ongoing_read' = TRUE
    /\ Goto(p, "r_submit")
    /\ UNCHANGED <<call, binding, opens, io_mutex, writeio, urb, done, data,
                   errors>>

IoStarted(p) ==
    IF site[p] = "again" \/ (site[p] = "fill" /\ ~nonblock[p])
    THEN "r_retry" ELSE "r_exit"

(* An URB in flight, or one for a device that is gone, is refused.         *)
ReadSubmit(p) ==
    /\ pc[p] = "r_submit"
    /\ \/ /\ urb = Idle /\ enabled /\ done < MaxDone
          /\ urb' = Least(BulkInSize, count[p])
          /\ Goto(p, IoStarted(p))
          /\ UNCHANGED filled
       \/ /\ filled' = 0
          /\ Goto(p, "r_unmark")
          /\ UNCHANGED urb
    /\ UNCHANGED <<call, binding, opens, io_mutex, writeio, ongoing_read, done,
                   copied, errors>>

ReadUnmark(p) ==
    /\ pc[p] = "r_unmark"
    /\ ongoing_read' = FALSE
    /\ Goto(p, "r_exit")
    /\ UNCHANGED <<call, binding, opens, io_mutex, writeio, urb, done, data,
                   errors>>

ReadExit(p) ==
    /\ pc[p] = "r_exit"
    /\ io_mutex' = NobodyHolds
    /\ count' = [count EXCEPT ![p] = 0]
    /\ site' = [site EXCEPT ![p] = "fill"]
    /\ Goto(p, "open")
    /\ UNCHANGED <<nonblock, binding, opens, writeio, readio, data, errors>>

-----------------------------------------------------------------------------
(* skel_write.                                                             *)

WriteCall(p) ==
    /\ pc[p] = "open"
    /\ Goto(p, "w_down")
    /\ UNCHANGED <<call, binding, opens, io_mutex, writeio, readio, data,
                   errors>>

(* down_interruptible, or down_trylock, which does not wait ...            *)
WriteDown(p) ==
    /\ pc[p] = "w_down"
    /\ \/ /\ limit_sem > 0
          /\ limit_sem' = limit_sem - 1
          /\ Goto(p, "w_errors")
       \/ /\ limit_sem = 0 /\ nonblock[p]
          /\ Goto(p, "open")
          /\ UNCHANGED limit_sem
    /\ UNCHANGED <<call, binding, opens, io_mutex, writes, readio, data,
                   errors>>

(* ... and what a signal makes of the former.                              *)
DownSignal(p) ==
    /\ pc[p] = "w_down" /\ ~nonblock[p]
    /\ Goto(p, "open")
    /\ UNCHANGED <<call, binding, opens, io_mutex, writeio, readio, data,
                   errors>>

(* Under err_lock; afterwards an allocation or the copy may fail.          *)
WriteErrors(p) ==
    /\ pc[p] = "w_errors"
    /\ \/ /\ errors # "none"
          /\ errors' = "none"
          /\ Goto(p, "w_error")
       \/ /\ errors = "none"
          /\ \E to \in {"w_lock", "w_error"} : Goto(p, to)
          /\ UNCHANGED errors
    /\ UNCHANGED <<call, binding, opens, io_mutex, writeio, readio, data>>

InterfaceThere == interface

WriteLock(p) ==
    /\ pc[p] = "w_lock"
    /\ MutexFree
    /\ \/ InterfaceThere /\ io_mutex' = p /\ Goto(p, "w_submit")
       \/ ~InterfaceThere /\ Goto(p, "w_error") /\ UNCHANGED io_mutex
    /\ UNCHANGED <<call, binding, opens, writeio, readio, data, errors>>

WriteSubmit(p) ==
    /\ pc[p] = "w_submit"
    /\ io_mutex' = NobodyHolds
    /\ \/ /\ enabled
          /\ writes' = writes + 1
          /\ Goto(p, "open")
       \/ /\ Goto(p, "w_error")
          /\ UNCHANGED writes
    /\ UNCHANGED <<call, binding, opens, limit_sem, readio, data, errors>>

WriteError(p) ==
    /\ pc[p] = "w_error"
    /\ UpOnError
    /\ Goto(p, "open")
    /\ UNCHANGED <<call, binding, opens, io_mutex, writes, readio, data,
                   errors>>

-----------------------------------------------------------------------------
(* Closing: skel_flush, and skel_release unless a duplicate of the file    *)
(* descriptor keeps the file open.                                         *)

FlushCall(p) ==
    /\ pc[p] = "open"
    /\ Goto(p, "f_lock")
    /\ UNCHANGED <<call, binding, opens, io_mutex, writeio, readio, data,
                   errors>>

FlushLock(p) ==
    /\ pc[p] = "f_lock"
    /\ MutexFree
    /\ io_mutex' = p
    /\ Goto(p, "f_drain")
    /\ UNCHANGED <<call, binding, opens, writeio, readio, data, errors>>

FlushDrain(p) ==
    /\ pc[p] = "f_drain"
    /\ DrawDown
    /\ Goto(p, "f_errors")
    /\ UNCHANGED <<call, binding, opens, io_mutex, copied>>

FlushErrors(p) ==
    /\ pc[p] = "f_errors"
    /\ errors' = "none"
    /\ io_mutex' = NobodyHolds
    /\ \E to \in {"rel_lock", "open"} : Goto(p, to)
    /\ UNCHANGED <<call, binding, opens, writeio, readio, data>>

ReleaseCount(p) ==
    /\ pc[p] = "rel_lock"
    /\ MutexFree
    /\ open_count' = open_count - 1
    /\ IF open_count = 1 /\ interface THEN pm' = pm - 1 ELSE UNCHANGED pm
    /\ Goto(p, "rel_put")
    /\ UNCHANGED <<call, binding, interface, kref, io_mutex, writeio, readio,
                   data, errors>>

ReleasePut(p) ==
    /\ pc[p] = "rel_put"
    /\ KrefPut
    /\ Goto(p, "done")
    /\ UNCHANGED <<call, binding, interface, open_count, pm, io_mutex, writeio,
                   readio, data, errors>>

-----------------------------------------------------------------------------
(* The USB core.                                                           *)

(* skel_pre_reset and skel_post_reset.                                     *)
CoreGoto(label) == core' = label /\ UNCHANGED <<intfdata, minor, enabled>>

PreResetLock ==
    /\ core = "bound"
    /\ MutexFree
    /\ io_mutex' = CoreThread
    /\ CoreGoto("p_drain")
    /\ UNCHANGED <<pc, call, opens, writeio, readio, data, errors>>

PreResetDrain ==
    /\ core = "p_drain"
    /\ DrawDown
    /\ CoreGoto("p_post")
    /\ UNCHANGED <<pc, call, opens, io_mutex, copied>>

PostReset ==
    /\ core = "p_post"
    /\ errors' = "pipe"
    /\ io_mutex' = NobodyHolds
    /\ CoreGoto("bound")
    /\ UNCHANGED <<pc, call, opens, writeio, readio, data>>

(* skel_suspend: an autosuspend of a device nobody has open, or a suspend  *)
(* of the system, which finds no process inside the driver.                *)
Suspend ==
    /\ core = "bound"
    /\ pm = 0 \/ \A p \in Procs : pc[p] \in {"closed", "open", "done"}
    /\ DrawDown
    /\ UNCHANGED <<pc, call, binding, opens, io_mutex, copied>>

(* Before it calls skel_disconnect the core disables the endpoints, which  *)
(* gives every URB back.                                                   *)
Unbind ==
    /\ core = "bound"
    /\ enabled' = FALSE
    /\ DrawDown
    /\ core' = "d_clear"
    /\ UNCHANGED <<pc, call, intfdata, minor, opens, io_mutex, copied>>

DisconnectClear ==
    /\ core = "d_clear"
    /\ intfdata' = FALSE
    /\ core' = "d_deregister"
    /\ UNCHANGED <<pc, call, minor, enabled, opens, io_mutex, writeio, readio,
                   data, errors>>

OpenersIgnored == TRUE
NobodyOpening == Opening = {}

DisconnectDeregister ==
    /\ core = "d_deregister"
    /\ NobodyOpening
    /\ minor' = FALSE
    /\ core' = "d_lock"
    /\ UNCHANGED <<pc, call, intfdata, enabled, opens, io_mutex, writeio,
                   readio, data, errors>>

DisconnectLock ==
    /\ core = "d_lock"
    /\ MutexFree
    /\ interface' = FALSE
    /\ CoreGoto("d_kill")
    /\ UNCHANGED <<pc, call, open_count, pm, kref, io_mutex, writeio, readio,
                   data, errors>>

DisconnectKill ==
    /\ core = "d_kill"
    /\ KillWrites
    /\ IF writes = 0 THEN UNCHANGED errors ELSE errors' = "unlinked"
    /\ CoreGoto("d_put")
    /\ UNCHANGED <<pc, call, opens, io_mutex, readio, data>>

DisconnectPut ==
    /\ core = "d_put"
    /\ KrefPut
    /\ CoreGoto("gone")
    /\ UNCHANGED <<pc, call, interface, open_count, pm, io_mutex, writeio,
                   readio, data, errors>>

-----------------------------------------------------------------------------
Open(p)  == OpenFind(p) \/ OpenRef(p) \/ OpenCount(p)
Read(p)  == \/ ReadLock(p) \/ ReadRetry(p) \/ ReadWait(p) \/ ReadErrors(p)
            \/ ReadClear(p) \/ ReadData(p) \/ ReadStart(p) \/ ReadSubmit(p)
            \/ ReadUnmark(p) \/ ReadExit(p)
Write(p) == \/ WriteDown(p) \/ WriteErrors(p) \/ WriteLock(p)
            \/ WriteSubmit(p) \/ WriteError(p)
Close(p) == \/ FlushLock(p) \/ FlushDrain(p) \/ FlushErrors(p)
            \/ ReleaseCount(p) \/ ReleasePut(p)
Call(p)  == ReadCall(p) \/ WriteCall(p) \/ FlushCall(p)
Signal(p) == LockSignal(p) \/ ReadSignal(p) \/ DownSignal(p)
Reset == PreResetDrain \/ PostReset
Disconnect == \/ DisconnectClear \/ DisconnectDeregister \/ DisconnectLock
              \/ DisconnectKill \/ DisconnectPut

(* The device is gone and every process is done with it.                   *)
Finished ==
    /\ core = "gone"
    /\ \A p \in Procs : pc[p] = "done"
    /\ UNCHANGED vars

Next ==
    \/ \E p \in Procs :
         Open(p) \/ Read(p) \/ Write(p) \/ Close(p) \/ Call(p) \/ Signal(p)
    \/ HcRead \/ HcWrite
    \/ PreResetLock \/ Reset \/ Suspend \/ Unbind \/ Disconnect
    \/ Finished

Spec == Init /\ [][Next]_vars

(* A process inside the driver keeps running, and gets the mutex or a slot *)
(* of limit_sem if they are free again and again: both queue those who     *)
(* wait.  Nothing makes the device answer, the user call, or a signal      *)
(* arrive.                                                                 *)
Fairness ==
    /\ \A p \in Procs : SF_vars(Open(p) \/ Read(p) \/ Write(p) \/ Close(p))
    /\ SF_vars(Reset \/ Disconnect)
FairSpec == Spec /\ Fairness

-----------------------------------------------------------------------------
InRead  == {"r_retry", "r_wait", "r_errors", "r_clear", "r_data", "r_start",
            "r_submit", "r_unmark", "r_exit"}
InWrite == {"w_errors", "w_lock", "w_submit", "w_error"}
InOpen  == {"o_ref", "o_lock"}
InClose == {"f_lock", "f_drain", "f_errors", "rel_lock", "rel_put"}
Resting == {"closed", "open", "done"}
Labels  == InRead \cup InWrite \cup InOpen \cup InClose \cup Resting
           \cup {"r_lock", "w_down"}

TypeOK ==
    /\ pc \in [Procs -> Labels]
    /\ core \in {"bound", "p_drain", "p_post", "d_clear", "d_deregister",
                 "d_lock", "d_kill", "d_put", "gone"}
    /\ site \in [Procs -> {"again", "fill", "ahead"}]
    /\ count \in [Procs -> 0..(Word - 1)]
    /\ nonblock \in [Procs -> BOOLEAN]
    /\ intfdata \in BOOLEAN /\ minor \in BOOLEAN /\ enabled \in BOOLEAN
    /\ interface \in BOOLEAN /\ ongoing_read \in BOOLEAN
    /\ io_mutex \in Procs \cup {NobodyHolds, CoreThread}
    /\ open_count \in Nat /\ pm \in Nat /\ kref \in Nat
    /\ limit_sem \in 0..WRITES_IN_FLIGHT
    /\ writes \in 0..WRITES_IN_FLIGHT
    /\ urb \in 0..BulkInSize
    /\ done \in 0..MaxDone
    /\ filled \in 0..BulkInSize
    /\ copied \in 0..(Word - 1)
    /\ errors \in {"none", "io", "pipe", "unlinked"}

(* "limiting the number of writes in progress": every slot of limit_sem is *)
(* free, belongs to one call of skel_write or to one URB in flight; no     *)
(* failure, completion, draw-down or disconnect loses or doubles one.      *)
WriteSlotsConserved ==
    limit_sem + writes + Cardinality({p \in Procs : pc[p] \in InWrite})
      = WRITES_IN_FLIGHT

(* A reader that waits for bulk_in_completion is woken: the URB is still   *)
(* in flight, or has already completed it.                                 *)
ReaderIsWoken == \A p \in Procs : pc[p] = "r_wait" => urb # Idle \/ done > 0

(* skel_delete runs when no process is inside the driver or has the device *)
(* open and no URB that refers to the device is in flight.                 *)
NoUseAfterFree ==
    kref = 0 => /\ core = "gone"
                /\ \A p \in Procs : pc[p] \in {"closed", "done"}
                /\ urb = Idle
                /\ writes = 0

(* Whichever order the disconnect and the last close come in, and whether  *)
(* or not opening failed, skel_delete runs in the end and nothing is left  *)
(* of the uses of the device.                                              *)
NothingLeaked ==
    core = "gone" /\ (\A p \in Procs : pc[p] \in {"closed", "done"})
    => kref = 0 /\ open_count = 0 /\ limit_sem = WRITES_IN_FLIGHT

(* After a draw-down nothing is in flight until io_mutex is released:      *)
(* skel_post_reset says "we are sure no URBs are active", and skel_flush   *)
(* reads out the errors of writes that are all over.                       *)
DrawnDown ==
    core = "p_post" \/ (\E p \in Procs : pc[p] = "f_errors")
    => urb = Idle /\ writes = 0

(* A disconnect completes although readers may hold io_mutex while they    *)
(* wait and openers hold up usb_deregister_dev.                            *)
DisconnectCompletes == core = "d_clear" ~> core = "gone"

(* Once the device is unplugged every call into the driver returns, those  *)
(* that wait for io_mutex or for a slot included, and no signal is needed. *)
CallsReturn ==
    \A p \in Procs : ~enabled /\ pc[p] \notin Resting ~> pc[p] \in Resting

(* bulk_in_copied bytes, "already copied to user space", are among the     *)
(* bulk_in_filled, the "number of bytes in the buffer".                    *)
CopiedWithinFilled ==
    \A p \in Procs : pc[p] = "r_data" /\ filled # 0 => copied <= filled
=============================================================================

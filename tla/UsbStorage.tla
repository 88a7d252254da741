----------------------------- MODULE UsbStorage -----------------------------
(***************************************************************************)
(* The USB mass storage driver src/usb-module/csk_udisk_mgr.c: one SCSI    *)
(* command at a time is handed by queuecommand to a control thread         *)
(* (usb_worker), which carries it out with a sequence of USB requests      *)
(* (usb_stor_msg_common, usb_stor_bulk_transfer_sglist).  The SCSI error   *)
(* handler (command_abort, device_reset, bus_reset) and the USB core       *)
(* (storage_probe, storage_pre_reset, storage_post_reset,                  *)
(* storage_disconnect) run against it.                                     *)
(*                                                                         *)
(* A section of the code between scsi_lock and scsi_unlock is one action:  *)
(* the host lock is an irq-disabling spinlock and the driver's machine, a  *)
(* S3C6410, has one core.  Sleeping locks (dev_mutex, the device lock of   *)
(* the USB core) are variables that hold their owner.  Every other access  *)
(* to shared state is an action of its own.                                *)
(***************************************************************************)
EXTENDS Integers, FiniteSets

CONSTANTS
    Cmds,      (* the SCSI commands the midlayer will ever issue             *)
    NoCmd,     (* us->srb == NULL                                            *)
    MaxMsgs    (* USB requests of one Bulk-only transport (a bound)          *)

ASSUME CmdsAssumption == NoCmd \notin Cmds
ASSUME MaxMsgsAssumption == MaxMsgs \in Nat \ {0}

VARIABLES
    pc,        (* where each thread stands                                   *)
    stage,     (* what the USB request of a thread is for                    *)
    kind,      (* bulk, control or scatter-gather request                    *)
    reply,     (* what usb_stor_msg_common returned to the thread            *)
    left,      (* requests left to the current Bulk-only transport           *)
    flags,     (* the dynamic bits of us->flags                              *)
    srb,       (* us->srb                                                    *)
    result,    (* us->srb->result                                            *)
    sema,      (* us->sema                                                   *)
    notify,    (* us->notify: completions not yet consumed                   *)
    dev_mutex, (* us->dev_mutex                                              *)
    udev_lock, (* the USB core's device lock                                 *)
    io,        (* us->current_urb and us->current_sg                         *)
    cmd,       (* the midlayer's view of each command                        *)
    ehcmd,     (* the command the error handler works on                     *)
    answers,   (* calls of scsi_done per command (history)                   *)
    res,       (* what storage_probe allocated and is still allocated        *)
    hostRefs   (* the driver's references to the Scsi_Host                   *)

request  == <<stage, kind, reply, left>>
midlayer == <<cmd, ehcmd, answers>>
memory   == <<res, hostRefs>>
locks    == <<dev_mutex, udev_lock>>
vars == <<pc, stage, kind, reply, left, flags, srb, result, sema, notify,
          dev_mutex, udev_lock, io, cmd, ehcmd, answers, res, hostRefs>>

Threads == {"worker", "eh", "core"}
Free    == "free"

(* us->flags: bits 18 to 23.                                               *)
Bits == {"URB_ACTIVE", "SG_ACTIVE", "ABORTING", "DISCONNECTING",
         "RESETTING", "TIMED_OUT"}
ABORTING_OR_DISCONNECTING == {"ABORTING", "DISCONNECTING"}
Stopping == flags \cap ABORTING_OR_DISCONNECTING # {}
Disconnected == "DISCONNECTING" \in flags

Resources == {"cr", "iobuf", "sensebuf", "urb"}
Requests  == {"urb", "sg"}
Kinds     == {"bulk", "ctrl", "sg"}
Stages    == {"none", "maxlun", "command", "sense", "reset", "clear_in",
              "clear_out", "clear_out_failed"}
Results   == {"none", "GOOD", "CHECK_CONDITION", "ERROR", "BAD_TARGET",
              "ABORT"}

(* Labels of the USB request protocol and of the two reset procedures,     *)
(* which run on whatever thread called them.                               *)
MsgLabels   == {"check", "submit", "mark", "recheck", "wait", "returned"}
ResetLabels == {"pr_lock", "pr_test", "pr_pre", "pr_post"}
BulkLabels  == {"br_test", "settle"}
WorkerLabels == MsgLabels \cup ResetLabels \cup BulkLabels \cup
    {"unborn", "down", "lock", "begin", "errors", "relock_ok",
     "relock_failed", "finish", "exit", "exited"}
EhLabels == MsgLabels \cup ResetLabels \cup BulkLabels \cup
    {"idle", "abort", "notified", "dev_reset", "recovered"}
CoreLabels == MsgLabels \cup
    {"probe", "add_host", "max_lun", "scan", "bound", "rst_pre", "rst_post",
     "disc", "disc_stop", "disc_lock", "remove", "free", "gone", "unloaded"}

(* The two requests share us->flags: each has its own "may be cancelled"   *)
(* bit.                                                                    *)
ActiveBit == [urb |-> "URB_ACTIVE", sg |-> "SG_ACTIVE"]
Req(t) == IF kind[t] = "sg" THEN "sg" ELSE "urb"
Goto(t, label) == pc' = [pc EXCEPT ![t] = label]

(* mutex_lock(&us->dev_mutex), up(&us->sema), complete(&us->notify),       *)
(* wait_for_completion(&us->notify) and the two directions of the          *)
(* reference count.  The second definition of a pair is the driver's; the  *)
(* first is a faulty variant that only serves to test the properties.      *)
MutexIgnored == TRUE
MutexFree == dev_mutex = Free
Acquire(t) == MutexFree /\ dev_mutex' = t

NoWakeUp == UNCHANGED sema
WakeWorker == sema' = sema + 1

NotifyForgotten == UNCHANGED notify
CompleteNotify == notify' = notify + 1

NotifyNotAwaited == UNCHANGED notify
AwaitNotify == notify > 0 /\ notify' = notify - 1

HostGetForgotten == UNCHANGED hostRefs
HostGet == hostRefs' = hostRefs + 1

HostPutForgotten == UNCHANGED hostRefs
HostPut == hostRefs' = hostRefs - 1

Init ==
    /\ pc = [worker |-> "unborn", eh |-> "idle", core |-> "probe"]
    /\ stage = [t \in Threads |-> "none"]
    /\ kind  = [t \in Threads |-> "bulk"]
    /\ reply = [t \in Threads |-> "ok"]
    /\ left = 0
    /\ flags = {}
    /\ srb = NoCmd
    /\ result = "none"
    /\ sema = 0
    /\ notify = 0
    /\ dev_mutex = Free
    /\ udev_lock = "core"
    /\ io = [r \in Requests |-> "idle"]
    /\ cmd = [c \in Cmds |-> "new"]
    /\ ehcmd = NoCmd
    /\ answers = [c \in Cmds |-> 0]
    /\ res = {}
    /\ hostRefs = 1

-----------------------------------------------------------------------------
(* usb_stor_msg_common and usb_stor_bulk_transfer_sglist: one USB request. *)

(* Requests are refused once an abort or a disconnect has been asked for.  *)
KindsFor(s) == IF s \in {"command", "sense"} THEN Kinds ELSE {"ctrl"}

(* A variable that is local to a call goes back to its initial value when  *)
(* the call is over.                                                       *)
Returned(t, status) ==
    /\ reply' = [reply EXCEPT ![t] = status]
    /\ kind' = [kind EXCEPT ![t] = "bulk"]
    /\ Goto(t, "returned")

Check(t) ==
    /\ pc[t] = "check"
    /\ \/ /\ Stopping
          /\ Returned(t, "fail")
       \/ /\ ~Stopping
          /\ Goto(t, "submit")
          /\ \E k \in KindsFor(stage[t]) : kind' = [kind EXCEPT ![t] = k]
          /\ UNCHANGED reply
    /\ UNCHANGED <<stage, left, flags, srb, result, sema, notify, locks, io,
                   midlayer, memory>>

Submit(t) ==
    /\ pc[t] = "submit"
    /\ \/ /\ io' = [io EXCEPT ![Req(t)] = "flying"]
          /\ Goto(t, "mark")
          /\ UNCHANGED <<kind, reply>>
       \/ /\ Returned(t, "fail")
          /\ UNCHANGED io
    /\ UNCHANGED <<stage, left, flags, srb, result, sema, notify,
                   locks, midlayer, memory>>

(* Only now may another thread cancel the request.                         *)
Mark(t) ==
    /\ pc[t] = "mark"
    /\ flags' = flags \cup {ActiveBit[Req(t)]}
    /\ Goto(t, "recheck")
    /\ UNCHANGED <<request, srb, result, sema, notify, locks, io, midlayer,
                   memory>>

(* usb_unlink_urb / usb_sg_cancel of every request whose bit is set; the   *)
(* bits are cleared by test_and_clear_bit.  A request already given back   *)
(* is left alone.                                                          *)
NotUnlinked == io
StoppedIo == [r \in Requests |->
    IF ActiveBit[r] \in flags /\ io[r] = "flying" THEN "unlinked" ELSE io[r]]
ActiveBits == {"URB_ACTIVE", "SG_ACTIVE"}

RecheckOmitted(t) ==
    /\ pc[t] = "recheck"
    /\ Goto(t, "wait")
    /\ UNCHANGED <<request, flags, srb, result, sema, notify, locks, io,
                   midlayer, memory>>

(* "Did an abort/disconnect occur during the submission?"                  *)
Recheck(t) ==
    /\ pc[t] = "recheck"
    /\ \/ /\ Stopping
          /\ io' = StoppedIo
          /\ flags' = flags \ {ActiveBit[Req(t)]}
       \/ /\ ~Stopping
          /\ UNCHANGED <<io, flags>>
    /\ Goto(t, "wait")
    /\ UNCHANGED <<request, srb, result, sema, notify, locks, midlayer,
                   memory>>

(* The wait ends when the completion handler has run...                    *)
Wait(t) ==
    /\ pc[t] = "wait"
    /\ io[Req(t)] \in {"ok", "fail"}
    /\ io' = [io EXCEPT ![Req(t)] = "idle"]
    /\ flags' = flags \ {ActiveBit[Req(t)]}
    /\ Returned(t, io[Req(t)])
    /\ UNCHANGED <<stage, left, srb, result, sema, notify, locks,
                   midlayer, memory>>

(* ... or, for a control request, when its timeout has run out: the URB is *)
(* killed, which waits until it has been given back.                       *)
WaitTimeout(t) ==
    /\ pc[t] = "wait"
    /\ kind[t] = "ctrl"
    /\ io["urb"] \in {"flying", "unlinked"}
    /\ io' = [io EXCEPT !["urb"] = "idle"]
    /\ flags' = flags \ {"URB_ACTIVE"}
    /\ Returned(t, "fail")
    /\ UNCHANGED <<stage, left, srb, result, sema, notify, locks,
                   midlayer, memory>>

(* The host controller gives a request back, which runs                    *)
(* usb_stor_blocking_completion; an unlinked one always fails.  A          *)
(* scatter-gather request is not handed to the controller before           *)
(* usb_sg_wait.                                                            *)
HcFinish(r) ==
    /\ io[r] = "flying"
    /\ r = "sg" => \E t \in Threads : pc[t] = "wait" /\ kind[t] = "sg"
    /\ \E s \in {"ok", "fail"} : io' = [io EXCEPT ![r] = s]
    /\ UNCHANGED <<pc, request, flags, srb, result, sema, notify, locks,
                   midlayer, memory>>

HcUnlinked(r) ==
    /\ io[r] = "unlinked"
    /\ io' = [io EXCEPT ![r] = "fail"]
    /\ UNCHANGED <<pc, request, flags, srb, result, sema, notify, locks,
                   midlayer, memory>>

-----------------------------------------------------------------------------
(* usb_worker, usb_stor_invoke_transport and usb_stor_Bulk_transport.      *)

(* The calls c->scsi_done(c): the midlayer drops an answer to a command    *)
(* whose timer has already fired.                                          *)
ScsiDone(c) ==
    /\ answers' = [answers EXCEPT ![c] = @ + 1]
    /\ cmd' = [cmd EXCEPT ![c] = IF @ = "expired" THEN @ ELSE "finished"]

Down ==
    /\ pc["worker"] = "down"
    /\ sema > 0
    /\ sema' = sema - 1
    /\ Goto("worker", "lock")
    /\ UNCHANGED <<request, flags, srb, result, notify, locks, io, midlayer,
                   memory>>

Lock ==
    /\ pc["worker"] = "lock"
    /\ \/ /\ Disconnected
          /\ MutexFree
          /\ Goto("worker", "exit")
          /\ UNCHANGED dev_mutex
       \/ /\ ~Disconnected
          /\ Acquire("worker")
          /\ Goto("worker", "begin")
    /\ UNCHANGED <<request, flags, srb, result, sema, notify, udev_lock, io,
                   midlayer, memory>>

(* SkipForAbort and what follows: the end of a command.                    *)
AbortingLeftSet == flags' = flags \ {"TIMED_OUT"}
ClearAbort == flags' = flags \ {"ABORTING", "TIMED_OUT"}

SrbKept == UNCHANGED <<srb, result>>
ReleaseSrb == srb' = NoCmd /\ result' = "none"

EndCommand ==
    /\ \/ /\ "TIMED_OUT" \in flags
          /\ CompleteNotify
          /\ ClearAbort
       \/ /\ "TIMED_OUT" \notin flags
          /\ UNCHANGED <<notify, flags>>
    /\ ReleaseSrb
    /\ dev_mutex' = Free
    /\ Goto("worker", "down")

BeginTimedOut ==
    /\ pc["worker"] = "begin"
    /\ "TIMED_OUT" \in flags       \* srb->result = DID_ABORT, never looked at
    /\ EndCommand
    /\ UNCHANGED <<request, sema, udev_lock, io, midlayer, memory>>

StartTransport(s) ==
    /\ stage' = [stage EXCEPT !["worker"] = s]
    /\ left' = MaxMsgs
    /\ Goto("worker", "check")

(* A command for another target or LUN is rejected, any other is sent.     *)
Begin ==
    /\ pc["worker"] = "begin"
    /\ "TIMED_OUT" \notin flags
    /\ \/ /\ result' \in {"ERROR", "BAD_TARGET"}
          /\ Goto("worker", "finish")
          /\ UNCHANGED <<stage, left>>
       \/ /\ StartTransport("command")
          /\ UNCHANGED result
    /\ UNCHANGED <<kind, reply, flags, srb, sema, notify, locks, io,
                   midlayer, memory>>

(* Inside usb_stor_Bulk_transport: command, data and status phase, and the *)
(* clearing of halted endpoints, are one request each.                     *)
NextMsg ==
    /\ pc["worker"] = "returned"
    /\ stage["worker"] \in {"command", "sense"}
    /\ reply["worker"] = "ok"
    /\ left > 1
    /\ left' = left - 1
    /\ Goto("worker", "check")
    /\ UNCHANGED <<stage, kind, reply, flags, srb, result, sema, notify,
                   locks, io, midlayer, memory>>

(* usb_stor_Bulk_transport returns r to usb_stor_invoke_transport.         *)
Verdict(r, to) ==
    /\ result' = r
    /\ left' = 0
    /\ stage' = [stage EXCEPT !["worker"] = "none"]
    /\ Goto("worker", to)

TransportDone ==
    /\ pc["worker"] = "returned"
    /\ stage["worker"] \in {"command", "sense"}
    /\ \E r \in {"GOOD", "FAILED", "NO_SENSE", "ERROR"} :
        /\ reply["worker"] = "fail" => r = "ERROR"
        /\ \/ /\ "TIMED_OUT" \in flags
              /\ Verdict("ABORT", "errors")
           \/ /\ "TIMED_OUT" \notin flags
              /\ \/ /\ r = "ERROR" \/ (stage["worker"] = "sense" /\ r # "GOOD")
                    /\ Verdict("ERROR", "errors")
                 \/ /\ stage["worker"] = "command" /\ r = "NO_SENSE"
                    /\ Verdict("CHECK_CONDITION", "finish")
                 \/ /\ stage["worker"] = "command" /\ r = "GOOD"
                    /\ \/ Verdict("GOOD", "finish")
                       \/ Verdict("ERROR", "finish")     \* underflow
                 \/ /\ stage["worker"] = "command" /\ r = "FAILED"
                    /\ StartTransport("sense")
                    /\ result' = "GOOD"
                 \/ /\ stage["worker"] = "sense" /\ r = "GOOD"
                    /\ Verdict("CHECK_CONDITION", "finish")
    /\ reply' = [reply EXCEPT !["worker"] = "ok"]
    /\ UNCHANGED <<kind, flags, srb, sema, notify, locks, io, midlayer,
                   memory>>

(* Handle_Errors: the device mutex is given up for the port reset.         *)
HandleErrors ==
    /\ pc["worker"] = "errors"
    /\ flags' = (flags \cup {"RESETTING"}) \ {"ABORTING"}
    /\ dev_mutex' = Free
    /\ Goto("worker", "pr_lock")
    /\ UNCHANGED <<request, srb, result, sema, notify, udev_lock, io,
                   midlayer, memory>>

Relock ==
    /\ pc["worker"] \in {"relock_ok", "relock_failed"}
    /\ Acquire("worker")
    /\ \/ /\ pc["worker"] = "relock_ok"
          /\ flags' = flags \ {"RESETTING"}
          /\ Goto("worker", "finish")
       \/ /\ pc["worker"] = "relock_failed"
          /\ UNCHANGED flags
          /\ Goto("worker", "br_test")
    /\ UNCHANGED <<request, srb, result, sema, notify, udev_lock, io,
                   midlayer, memory>>

Finish ==
    /\ pc["worker"] = "finish"
    /\ IF srb # NoCmd /\ result # "ABORT"
       THEN ScsiDone(srb)
       ELSE UNCHANGED <<cmd, answers>>
    /\ EndCommand
    /\ UNCHANGED <<request, sema, udev_lock, io, ehcmd, memory>>

Exit ==
    /\ pc["worker"] = "exit"
    /\ HostPut
    /\ Goto("worker", "exited")
    /\ UNCHANGED <<request, flags, srb, result, sema, notify, locks, io,
                   midlayer, res>>

-----------------------------------------------------------------------------
(* usb_stor_port_reset and usb_stor_Bulk_reset, on the control thread or   *)
(* on the error handler.                                                   *)

PortResetReturn(t, ok) ==
    Goto(t, IF t = "eh" THEN "recovered"
            ELSE IF ok THEN "relock_ok" ELSE "relock_failed")

(* usb_lock_device_for_reset polls the device lock and gives up when it    *)
(* stays taken; while the interface is being bound it needs no lock.       *)
PortResetLock(t) ==
    /\ pc[t] = "pr_lock"
    /\ \/ /\ udev_lock = Free
          /\ pc["core"] = "bound"
          /\ udev_lock' = t
          /\ Goto(t, "pr_test")
       \/ /\ pc["core"] = "scan"
          /\ Goto(t, "pr_test")
          /\ UNCHANGED udev_lock
       \/ /\ PortResetReturn(t, FALSE)
          /\ UNCHANGED udev_lock
    /\ UNCHANGED <<request, flags, srb, result, sema, notify, dev_mutex, io,
                   midlayer, memory>>

UdevUnlock(t) == udev_lock' = IF udev_lock = t THEN Free ELSE udev_lock

(* "Were we disconnected while waiting for the lock?"                      *)
PortResetTest(t) ==
    /\ pc[t] = "pr_test"
    /\ \/ /\ Disconnected
          /\ UdevUnlock(t)
          /\ PortResetReturn(t, FALSE)
       \/ /\ ~Disconnected
          /\ Goto(t, "pr_pre")
          /\ UNCHANGED udev_lock
    /\ UNCHANGED <<request, flags, srb, result, sema, notify, dev_mutex, io,
                   midlayer, memory>>

(* usb_reset_composite_device calls storage_pre_reset, resets the port and *)
(* calls storage_post_reset.                                               *)
PreReset(t, from, to) ==
    /\ pc[t] = from
    /\ Acquire(t)
    /\ Goto(t, to)
    /\ UNCHANGED <<request, flags, srb, result, sema, notify, udev_lock, io,
                   midlayer, memory>>

PortResetPost(t) ==
    /\ pc[t] = "pr_post"
    /\ dev_mutex' = Free
    /\ UdevUnlock(t)
    /\ \E ok \in BOOLEAN : PortResetReturn(t, ok)
    /\ UNCHANGED <<request, flags, srb, result, sema, notify, io, midlayer,
                   memory>>

Send(t, s) ==
    /\ stage' = [stage EXCEPT ![t] = s]
    /\ Goto(t, "check")
    /\ UNCHANGED <<dev_mutex, flags>>

(* Where usb_stor_Bulk_reset, and the query of the number of LUNs, return. *)
DeviceResetReturn(t, ok) ==
    /\ \/ /\ t = "worker"
          /\ flags' = flags \ {"RESETTING"}
          /\ Goto(t, "finish")
          /\ UNCHANGED dev_mutex
       \/ /\ t = "eh"
          /\ dev_mutex' = Free
          /\ Goto(t, IF ok THEN "recovered" ELSE "pr_lock")
          /\ UNCHANGED flags
       \/ /\ t = "core"
          /\ dev_mutex' = Free
          /\ Goto(t, "scan")
          /\ UNCHANGED flags
    /\ stage' = [stage EXCEPT ![t] = "none"]

BulkReset(t) ==
    /\ pc[t] \in BulkLabels
    /\ \/ /\ Disconnected
          /\ DeviceResetReturn(t, FALSE)
       \/ /\ ~Disconnected
          /\ Send(t, IF pc[t] = "br_test" THEN "reset" ELSE "clear_in")
    /\ UNCHANGED <<kind, reply, left, srb, result, sema, notify, udev_lock,
                   io, midlayer, memory>>

(* The control requests of usb_stor_Bulk_reset and of the LUN query, after *)
(* the device's answer; both bulk pipes are cleared whatever the first     *)
(* answers.                                                                *)
ControlDone(t) ==
    /\ pc[t] = "returned"
    /\ LET ok == reply[t] = "ok" IN
       \/ /\ stage[t] = "reset" /\ ok
          /\ Goto(t, "settle")
          /\ UNCHANGED <<stage, dev_mutex, flags>>
       \/ /\ stage[t] = "reset" /\ ~ok
          /\ DeviceResetReturn(t, FALSE)
       \/ /\ stage[t] = "clear_in"
          /\ Send(t, IF ok THEN "clear_out" ELSE "clear_out_failed")
       \/ /\ stage[t] = "clear_out"
          /\ DeviceResetReturn(t, ok)
       \/ /\ stage[t] = "clear_out_failed"
          /\ DeviceResetReturn(t, FALSE)
       \/ /\ stage[t] = "maxlun" /\ ~ok      \* -EPIPE
          /\ Send(t, "clear_in")
       \/ /\ stage[t] = "maxlun"
          /\ DeviceResetReturn(t, ok)
    /\ reply' = [reply EXCEPT ![t] = "ok"]
    /\ UNCHANGED <<kind, left, srb, result, sema, notify, udev_lock,
                   io, midlayer, memory>>

-----------------------------------------------------------------------------
(* The SCSI midlayer: queuecommand and the error handler.                  *)

HostOpen == pc["core"] \in {"scan", "bound", "rst_pre", "rst_post", "disc",
                            "disc_stop", "disc_lock", "remove"}
Outstanding == {c \in Cmds : cmd[c] \in {"issued", "expired"}}

(* can_queue is 1, so the midlayer issues a command only when the one      *)
(* before has been answered and no recovery is going on.  It holds the     *)
(* host lock around queuecommand.                                          *)
MayIssue(c) == cmd[c] = "new" /\ HostOpen /\ Outstanding = {} /\ pc["eh"] = "idle"

QueueCommand(c) ==
    /\ MayIssue(c)
    /\ srb = NoCmd
    /\ \/ /\ Disconnected
          /\ ScsiDone(c)                       \* DID_NO_CONNECT
          /\ UNCHANGED <<srb, sema>>
       \/ /\ ~Disconnected
          /\ cmd' = [cmd EXCEPT ![c] = "issued"]
          /\ srb' = c
          /\ WakeWorker
          /\ UNCHANGED answers
    /\ UNCHANGED <<pc, request, flags, result, notify, locks, io, ehcmd, memory>>

(* The midlayer's timer fires and the error handler thread takes over.     *)
Expire(c) ==
    /\ cmd[c] = "issued"
    /\ cmd' = [cmd EXCEPT ![c] = "expired"]
    /\ ehcmd' = c
    /\ Goto("eh", "abort")
    /\ UNCHANGED <<request, flags, srb, result, sema, notify, locks, io,
                   answers, memory>>

(* command_abort up to wait_for_completion.  While the control thread is   *)
(* resetting the device the reset is left to finish.                       *)
CommandAbort ==
    /\ pc["eh"] = "abort"
    /\ \/ /\ srb # ehcmd
          /\ Goto("eh", "dev_reset")
          /\ UNCHANGED <<flags, io>>
       \/ /\ srb = ehcmd
          /\ Goto("eh", "notified")
          /\ \/ /\ "RESETTING" \in flags
                /\ flags' = flags \cup {"TIMED_OUT"}
                /\ UNCHANGED io
             \/ /\ "RESETTING" \notin flags
                /\ flags' = (flags \cup {"TIMED_OUT", "ABORTING"})
                              \ ActiveBits
                /\ io' = StoppedIo
    /\ UNCHANGED <<request, srb, result, sema, notify, locks, midlayer,
                   memory>>

AbortReturns ==
    /\ pc["eh"] = "notified"
    /\ AwaitNotify
    /\ Goto("eh", "recovered")
    /\ UNCHANGED <<request, flags, srb, result, sema, locks, io, midlayer,
                   memory>>

(* device_reset, tried when the abort has failed.                          *)
DeviceReset == PreReset("eh", "dev_reset", "br_test")

(* The error handler gives the command back, whatever the last method said.*)
EhDone ==
    /\ pc["eh"] = "recovered"
    /\ cmd' = [cmd EXCEPT ![ehcmd] = "finished"]
    /\ ehcmd' = NoCmd
    /\ Goto("eh", "idle")
    /\ UNCHANGED <<request, flags, srb, result, sema, notify, locks, io,
                   answers, memory>>

-----------------------------------------------------------------------------
(* The USB core: storage_probe, the reset callbacks, storage_disconnect.   *)
(* It holds the device lock around each of them.                           *)

(* storage_probe allocates in a fixed order and stops at the first failure;*)
(* with everything in hand it starts the control thread.                   *)
Allocated == {{}, {"cr"}, {"cr", "iobuf"}, {"cr", "iobuf", "sensebuf"}}

Probe ==
    /\ pc["core"] = "probe"
    /\ \/ /\ res' \in Allocated \cup {Resources}   \* some step failed
          /\ Goto("core", "free")
          /\ UNCHANGED hostRefs
       \/ /\ res' = Resources
          /\ HostGet
          /\ pc' = [pc EXCEPT !["worker"] = "down", !["core"] = "add_host"]
    /\ UNCHANGED <<request, flags, srb, result, sema, notify, locks, io,
                   midlayer>>

AddHost ==
    /\ pc["core"] = "add_host"
    /\ \E to \in {"free", "max_lun"} : Goto("core", to)
    /\ UNCHANGED <<request, flags, srb, result, sema, notify, locks, io,
                   midlayer, memory>>

MaxLun ==
    /\ pc["core"] = "max_lun"
    /\ Acquire("core")
    /\ stage' = [stage EXCEPT !["core"] = "maxlun"]
    /\ Goto("core", "check")
    /\ UNCHANGED <<kind, reply, left, flags, srb, result, sema, notify,
                   udev_lock, io, midlayer, memory>>

Bound ==
    /\ pc["core"] = "scan"
    /\ udev_lock' = Free
    /\ Goto("core", "bound")
    /\ UNCHANGED <<request, flags, srb, result, sema, notify, dev_mutex, io,
                   midlayer, memory>>

(* A reset asked for by another driver of the same device, or an unplug.   *)
CoreCalls(to) ==
    /\ pc["core"] = "bound"
    /\ udev_lock = Free
    /\ udev_lock' = "core"
    /\ Goto("core", to)
    /\ UNCHANGED <<request, flags, srb, result, sema, notify, dev_mutex, io,
                   midlayer, memory>>

CorePostReset ==
    /\ pc["core"] = "rst_post"
    /\ dev_mutex' = Free
    /\ udev_lock' = Free
    /\ Goto("core", "bound")
    /\ UNCHANGED <<request, flags, srb, result, sema, notify, io, midlayer,
                   memory>>

(* quiesce_and_remove_host, step by step.                                  *)
Disconnect ==
    /\ pc["core"] = "disc"
    /\ flags' = flags \cup {"DISCONNECTING"}
    /\ Goto("core", "disc_stop")
    /\ UNCHANGED <<request, srb, result, sema, notify, locks, io, midlayer,
                   memory>>

StopTransport ==
    /\ pc["core"] = "disc_stop"
    /\ flags' = flags \ ActiveBits
    /\ io' = StoppedIo
    /\ Goto("core", "disc_lock")
    /\ UNCHANGED <<request, srb, result, sema, notify, locks, midlayer,
                   memory>>

Quiesce ==
    /\ pc["core"] = "disc_lock"
    /\ MutexFree
    /\ \/ /\ srb # NoCmd
          /\ ScsiDone(srb)                     \* DID_NO_CONNECT
          /\ ReleaseSrb
       \/ /\ srb = NoCmd
          /\ UNCHANGED <<result, cmd, answers, srb>>
    /\ Goto("core", "remove")
    /\ UNCHANGED <<request, flags, sema, notify, locks, io, ehcmd, memory>>

RemoveHost ==
    /\ pc["core"] = "remove"
    /\ Goto("core", "free")
    /\ UNCHANGED <<request, flags, srb, result, sema, notify, locks, io,
                   midlayer, memory>>

FreeUpAll ==
    /\ pc["core"] = "free"
    /\ flags' = flags \cup {"DISCONNECTING"}
    /\ WakeWorker
    /\ res' = {}
    /\ HostPut
    /\ udev_lock' = Free
    /\ Goto("core", "gone")
    /\ UNCHANGED <<request, srb, result, notify, dev_mutex, io, midlayer>>

(* mod_exit, after usb_deregister has unbound the device.                  *)
ModExit ==
    /\ pc["core"] = "gone"
    /\ Goto("core", "unloaded")
    /\ UNCHANGED <<request, flags, srb, result, sema, notify, locks, io,
                   midlayer, memory>>

-----------------------------------------------------------------------------
MsgStep(t) == Check(t) \/ Submit(t) \/ Mark(t) \/ Recheck(t) \/ Wait(t)
              \/ WaitTimeout(t) \/ ControlDone(t)
ResetStep(t) == PortResetLock(t) \/ PortResetTest(t)
                \/ PreReset(t, "pr_pre", "pr_post") \/ PortResetPost(t)
                \/ BulkReset(t)
Worker == \/ MsgStep("worker") \/ ResetStep("worker")
          \/ Down \/ Lock \/ BeginTimedOut \/ Begin \/ NextMsg
          \/ TransportDone \/ HandleErrors \/ Relock \/ Finish \/ Exit
ErrorHandler == \/ MsgStep("eh") \/ ResetStep("eh")
                \/ CommandAbort \/ AbortReturns \/ DeviceReset \/ EhDone
Core == \/ MsgStep("core")
        \/ Probe \/ AddHost \/ MaxLun \/ Bound
        \/ PreReset("core", "rst_pre", "rst_post") \/ CorePostReset
        \/ Disconnect \/ StopTransport \/ Quiesce \/ RemoveHost \/ FreeUpAll
Environment ==
    \/ \E c \in Cmds : QueueCommand(c) \/ Expire(c)
    \/ \E r \in Requests : HcFinish(r) \/ HcUnlinked(r)
    \/ CoreCalls("rst_pre") \/ CoreCalls("disc")
    \/ ModExit

(* The module is gone and every thread has stopped.                        *)
Stopped ==
    /\ pc["core"] = "unloaded"
    /\ pc["worker"] \in {"unborn", "exited"}
    /\ UNCHANGED vars

Next == Worker \/ ErrorHandler \/ Core \/ Environment \/ Stopped

Spec == Init /\ [][Next]_vars

(* Threads keep running, and a sleeping lock is granted in the order of    *)
(* its waiters, so a thread that can repeatedly take its next step takes   *)
(* it.  An unlinked request is given back, a timer fires.  Nothing is said *)
(* of a request the device never answers.                                  *)
Fairness ==
    /\ SF_vars(Worker) /\ SF_vars(ErrorHandler) /\ SF_vars(Core)
    /\ \A r \in Requests : WF_vars(HcUnlinked(r))
    /\ \A c \in Cmds : WF_vars(Expire(c))
FairSpec == Spec /\ Fairness

-----------------------------------------------------------------------------
TypeOK ==
    /\ pc \in [Threads -> WorkerLabels \cup EhLabels \cup CoreLabels]
    /\ pc["worker"] \in WorkerLabels
    /\ pc["eh"] \in EhLabels
    /\ pc["core"] \in CoreLabels
    /\ stage \in [Threads -> Stages]
    /\ kind \in [Threads -> Kinds]
    /\ reply \in [Threads -> {"ok", "fail"}]
    /\ left \in 0..MaxMsgs
    /\ flags \in SUBSET Bits
    /\ srb \in Cmds \cup {NoCmd}
    /\ result \in Results
    /\ sema \in Nat
    /\ notify \in Nat
    /\ dev_mutex \in Threads \cup {Free}
    /\ udev_lock \in Threads \cup {Free}
    /\ io \in [Requests -> {"idle", "flying", "unlinked", "ok", "fail"}]
    /\ cmd \in [Cmds -> {"new", "issued", "expired", "finished"}]
    /\ ehcmd \in Cmds \cup {NoCmd}
    /\ answers \in [Cmds -> Nat]
    /\ res \in SUBSET Resources
    /\ hostRefs \in Nat

(* A request in progress belongs to the thread that holds dev_mutex, and a *)
(* request is submitted only when the URB (or the scatter-gather block) it *)
(* uses is idle: the release of the mutex in Handle_Errors never lets two  *)
(* threads share us->current_urb.                                          *)
RequestUnderMutex ==
    \A t \in Threads :
        /\ pc[t] \in MsgLabels => dev_mutex = t
        /\ pc[t] = "submit" => \A r \in Requests : io[r] = "idle"

(* The comment of usb_stor_msg_common: all URBs pass through it "for the   *)
(* abort mechanisms to work".  A cancellation is never lost: a thread that *)
(* waits for its request while an abort is on, or after a disconnect has   *)
(* stopped the transport, waits for a request that has been cancelled or   *)
(* given back, however the request's submission and the cancellation were  *)
(* interleaved.                                                            *)
CancelNotLost ==
    \A t \in Threads :
        ( /\ pc[t] = "wait"
          /\ \/ "ABORTING" \in flags
             \/ pc["core"] \in {"disc_lock", "remove", "free", "gone"} )
        => io[Req(t)] # "flying"

(* The control thread finds a command whenever it looks at one: us->sema   *)
(* counts commands (and the wake-up of the exit), a disconnect in between  *)
(* takes the command away only with the mutex.                             *)
CommandThere ==
    \/ pc["worker"] \in {"begin", "errors"}
    \/ pc["worker"] \in MsgLabels /\ stage["worker"] \in {"command", "sense"}
    => /\ srb # NoCmd
       /\ cmd[srb] \in {"issued", "expired"}

(* The driver holds no command the midlayer has taken back: once the error *)
(* handler or scsi_done has finished a command, us->srb is another one.    *)
OwnsOnlyOutstanding == srb # NoCmd => cmd[srb] \in {"issued", "expired"}

(* No command is answered twice, whatever the race between completion,     *)
(* timeout, abort and disconnect.                                          *)
AnsweredAtMostOnce == \A c \in Cmds : answers[c] <= 1

(* us->notify is raised only for an abort that waits for it, once.         *)
NotifyMatchesAbort == notify <= 1 /\ (notify = 1 => pc["eh"] = "notified")

(* An abort leaves nothing behind that would cancel a later command: the   *)
(* two abort bits are clear unless an abort is under way (or the device is *)
(* being disconnected, when they do not matter any more).                  *)
NoStaleAbort ==
    flags \cap {"ABORTING", "TIMED_OUT"} # {}
    => \/ pc["eh"] = "notified" /\ srb = ehcmd
       \/ "DISCONNECTING" \in flags

(* can_queue = 1 suffices: queuecommand never has to refuse a command with *)
(* SCSI_MLQUEUE_HOST_BUSY.                                                 *)
NeverBusy == \A c \in Cmds : MayIssue(c) => srb = NoCmd

(* FreeUpAll frees the URB and the buffers under no running request, and   *)
(* the Scsi_Host that contains us_data outlives the control thread.        *)
NoUseAfterFree ==
    /\ \A t \in Threads : pc[t] \in MsgLabels \ {"returned"} => res = Resources
    /\ pc["worker"] \notin {"unborn", "exited"} => hostRefs > 0
    /\ \A r \in Requests : io[r] \in {"flying", "unlinked"} => res = Resources

(* Everything storage_probe acquired is released when the device is gone   *)
(* and the control thread has exited, whichever step of the probe failed.  *)
NothingLeaked ==
    pc["core"] \in {"gone", "unloaded"} /\ pc["worker"] \in {"unborn", "exited"}
    => res = {} /\ hostRefs = 0

(* A command that the error handler has given back to the midlayer (abort  *)
(* returned SUCCESS) is not answered afterwards.                           *)
NoAnswerAfterFinish ==
    [][\A c \in Cmds : cmd[c] = "finished" => answers'[c] = answers[c]]_vars

(* Every command handed to the driver is given back, by scsi_done or by    *)
(* the error handler, except when an abort meets a disconnect.             *)
CommandFinishes ==
    \A c \in Cmds : cmd[c] \in {"issued", "expired"}
        ~> \/ cmd[c] = "finished"
           \/ pc["eh"] = "notified" /\ "DISCONNECTING" \in flags

(* A disconnect always completes: quiesce_and_remove_host cannot be held   *)
(* up by a request in flight or by a reset that waits for it.              *)
DisconnectCompletes == pc["core"] = "disc" ~> pc["core"] \in {"gone", "unloaded"}

(* After a disconnect the control thread exits.                            *)
WorkerExits == pc["core"] = "gone" ~> pc["worker"] \in {"unborn", "exited"}

(* "If an abort request was received we need to signal that the abort has  *)
(* finished": every command_abort that waits for us->notify returns.       *)
AbortFinishes == pc["eh"] = "notified" ~> pc["eh"] # "notified"

(* The driver keeps the promise of ScsiService, with us->srb as the        *)
(* command it holds: whatever the threads, timeouts and the unplug do, the *)
(* midlayer sees one command at a time, accepted, answered at most once    *)
(* while held, and taken back only when let go of.                         *)
Answered == {c \in Cmds : answers[c] > 0}
Service == INSTANCE ScsiService
    WITH status <- cmd, held <- srb, answered <- Answered, gone <- Disconnected
ImplementsService == Service!Spec

-----------------------------------------------------------------------------
(* The inductive invariant behind the safety properties.                   *)

(* dev_mutex is held exactly at these labels.                              *)
HoldLabels == MsgLabels \cup BulkLabels \cup
              {"begin", "errors", "finish", "pr_post", "rst_post"}
MutexInv == \A t \in Threads : pc[t] \in HoldLabels <=> dev_mutex = t

(* What each thread sends requests for.                                    *)
StageInv == /\ stage["worker"] # "maxlun"
            /\ stage["eh"] \notin {"maxlun", "command", "sense"}
            /\ stage["core"] \notin {"reset", "command", "sense"}

(* A request that is not idle is waited for, and can be cancelled as long  *)
(* as it is in flight.                                                     *)
IoInv ==
    /\ \A r \in Requests : io[r] # "idle" =>
         \E t \in Threads : pc[t] \in {"mark", "recheck", "wait"} /\ Req(t) = r
    /\ \A t \in Threads :
         pc[t] \in {"recheck", "wait"} /\ io[Req(t)] = "flying"
         => ActiveBit[Req(t)] \in flags

(* Before the first command, and after the last request.                   *)
EarlyLabels == {"probe", "add_host", "max_lun"} \cup MsgLabels
LateLabels  == {"remove", "free", "gone", "unloaded"}
PhaseInv ==
    /\ pc["core"] \in EarlyLabels \/ (pc["core"] = "free" /\ ~Disconnected)
       => /\ pc["worker"] \in {"unborn", "down"}
          /\ pc["eh"] = "idle"
          /\ sema = 0
          /\ srb = NoCmd
    /\ pc["core"] \in {"disc_stop", "disc_lock", "remove", "gone", "unloaded"}
       => Disconnected
    /\ Disconnected
       => pc["core"] \in {"disc_stop", "disc_lock"} \cup LateLabels
    /\ pc["core"] \in LateLabels
       => \A t \in {"worker", "eh"} :
            pc[t] \notin MsgLabels \cup {"begin", "errors", "settle"}
    /\ pc["core"] = "probe" => pc["worker"] = "unborn"
    /\ pc["worker"] = "unborn"
       => pc["core"] \in {"probe", "free", "gone", "unloaded"}

(* Who knows of a command, and how often it has been answered.             *)
CommandInv ==
    /\ srb # NoCmd => cmd[srb] \in {"issued", "expired"} /\ answers[srb] = 0
    /\ pc["eh"] = "idle" <=> ehcmd = NoCmd
    /\ \A c \in Cmds :
         /\ cmd[c] = "issued" => srb = c /\ pc["eh"] = "idle"
         /\ cmd[c] = "expired" <=> ehcmd = c
         /\ cmd[c] = "new" => answers[c] = 0
         /\ answers[c] <= 1

(* The semaphore and the control thread's label say when us->srb is set.   *)
SrbInv ==
    /\ CommandThere
    /\ ~Disconnected =>
         /\ sema > 0 => sema = 1 /\ srb # NoCmd /\ pc["worker"] = "down"
         /\ pc["worker"] \notin {"unborn", "down"} => srb # NoCmd
         /\ pc["worker"] \notin {"exit", "exited"}

(* The abort bits and us->notify.                                          *)
AbortInv ==
    /\ "ABORTING" \in flags => "TIMED_OUT" \in flags
    /\ "TIMED_OUT" \in flags =>
         /\ pc["eh"] = "notified"
         /\ notify = 0
         /\ Disconnected \/ srb = ehcmd
    /\ notify <= 1
    /\ notify = 1 => pc["eh"] = "notified" /\ srb = NoCmd
    /\ pc["eh"] \notin {"idle", "abort", "notified"} => srb = NoCmd
    /\ result = "ABORT" => "TIMED_OUT" \in flags

(* Memory follows the two threads that own it.                             *)
Owners == IF pc["core"] \in {"gone", "unloaded"} THEN 0 ELSE 1
MemoryInv ==
    /\ pc["core"] \notin {"probe", "free", "gone", "unloaded"} => res = Resources
    /\ pc["core"] \in {"gone", "unloaded"} => res = {}
    /\ hostRefs = Owners + (IF pc["worker"] \in {"unborn", "exited"} THEN 0 ELSE 1)

(* Together with CancelNotLost they imply every safety property above.     *)
IInv == /\ MutexInv /\ StageInv /\ IoInv /\ PhaseInv /\ CommandInv
        /\ SrbInv /\ AbortInv /\ MemoryInv /\ CancelNotLost

=============================================================================

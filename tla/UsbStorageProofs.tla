-------------------------- MODULE UsbStorageProofs --------------------------
(* Proofs about UsbStorage, for any set of commands and any MaxMsgs.       *)
EXTENDS UsbStorage, TLAPS

(* The request a thread works with, and its bit.                           *)
LEMMA ReqType ==
    ASSUME NEW t \in Threads
    PROVE  /\ Req(t) \in Requests
           /\ ActiveBit[Req(t)] \in ActiveBits
           /\ ActiveBit[Req(t)] \notin {"ABORTING", "DISCONNECTING",
                                        "RESETTING", "TIMED_OUT"}
           /\ Req(t) = "urb" => ActiveBit[Req(t)] = "URB_ACTIVE"
           /\ Req(t) = "sg" => ActiveBit[Req(t)] = "SG_ACTIVE"
BY DEF Req, Requests, ActiveBit, ActiveBits

(* Cancelling requests changes only how far they have got.                 *)
LEMMA StoppedIoType ==
    ASSUME io \in [Requests -> {"idle", "flying", "unlinked", "ok", "fail"}]
    PROVE  StoppedIo \in [Requests -> {"idle", "flying", "unlinked", "ok", "fail"}]
BY DEF StoppedIo

-----------------------------------------------------------------------------
(* Typing.                                                                 *)

(* storage_probe starts from values of the right types.                    *)
LEMMA TypeInit == Init => TypeOK
BY MaxMsgsAssumption
   DEF Init, TypeOK, Threads, Free, Bits, Resources, Requests, Kinds, Stages,
       Results, WorkerLabels, EhLabels, CoreLabels

(* The labels of each thread; cited instead of the definitions, which would*)
(* give the prover dozens of strings to tell apart.                        *)
LEMMA LabelFacts ==
    /\ MsgLabels \subseteq WorkerLabels
    /\ MsgLabels \subseteq EhLabels
    /\ MsgLabels \subseteq CoreLabels
    /\ ResetLabels \cup BulkLabels \subseteq WorkerLabels
    /\ ResetLabels \cup BulkLabels \subseteq EhLabels
    /\ {"down", "lock", "begin", "errors", "relock_ok", "relock_failed",
        "finish", "exit", "exited"} \subseteq WorkerLabels
    /\ {"idle", "abort", "notified", "dev_reset", "recovered"} \subseteq EhLabels
    /\ {"add_host", "max_lun", "scan", "bound", "rst_pre", "rst_post", "disc",
        "disc_stop", "disc_lock", "remove", "free", "gone", "unloaded"}
         \subseteq CoreLabels
BY DEF WorkerLabels, EhLabels, CoreLabels

(* The bits of us->flags that the driver names one by one.                 *)
LEMMA BitFacts ==
    {"ABORTING", "DISCONNECTING", "RESETTING", "TIMED_OUT"} \subseteq Bits
BY DEF Bits

(* The purposes of requests.                                               *)
LEMMA StageFacts ==
    {"none", "maxlun", "command", "sense", "reset", "clear_in", "clear_out",
     "clear_out_failed"} \subseteq Stages
BY DEF Stages

(* Every step preserves the types.                                         *)
LEMMA TypeStep == TypeOK /\ StageInv /\ MemoryInv /\ [Next]_vars => TypeOK'
<1> SUFFICES ASSUME TypeOK, StageInv, MemoryInv, [Next]_vars
             PROVE  TypeOK'
  OBVIOUS
<1> USE LabelFacts
    DEF TypeOK, Threads, request, midlayer, memory, locks, Goto
<1>1. ASSUME NEW t \in Threads, MsgStep(t) PROVE TypeOK'
  <2>1. CASE Check(t)
    BY <2>1 DEF Check, Returned, KindsFor, Kinds, MsgLabels
  <2>2. CASE Submit(t)
    BY <2>2, ReqType DEF Submit, Returned, MsgLabels, Kinds
  <2>3. CASE Mark(t)
    BY <2>3, ReqType DEF Mark, ActiveBits, MsgLabels, Bits
  <2>4. CASE Recheck(t)
    BY <2>4, StoppedIoType DEF Recheck, MsgLabels
  <2>5. CASE Wait(t)
    BY <2>5, ReqType DEF Wait, Returned, MsgLabels, Kinds
  <2>6. CASE WaitTimeout(t)
    BY <2>6 DEF WaitTimeout, Returned, Requests, MsgLabels, Kinds
  <2>7. CASE ControlDone(t)
    <3>1. CASE reply[t] = "ok" /\ stage[t] = "reset"
      BY <2>7, <3>1 DEF ControlDone, DeviceResetReturn, Send, StageInv,
                        BulkLabels
    <3>2. /\ \A s \in Stages : Send(t, s) => TypeOK'
          /\ \A ok \in BOOLEAN : DeviceResetReturn(t, ok) => TypeOK'
      BY <2>7, StageFacts
         DEF ControlDone, Send, DeviceResetReturn, MsgLabels, ResetLabels
    <3> QED
      BY <2>7, <3>1, <3>2, StageFacts DEF ControlDone
  <2> QED
    BY <1>1, <2>1, <2>2, <2>3, <2>4, <2>5, <2>6, <2>7 DEF MsgStep
<1>2. ASSUME NEW t \in {"worker", "eh"}, ResetStep(t) PROVE TypeOK'
  <2>1. CASE PortResetLock(t)
    BY <2>1 DEF PortResetLock, PortResetReturn, ResetLabels
  <2>2. CASE PortResetTest(t)
    BY <2>2 DEF PortResetTest, PortResetReturn, UdevUnlock, ResetLabels
  <2>3. CASE PreReset(t, "pr_pre", "pr_post")
    BY <2>3 DEF PreReset, Acquire, MutexFree, ResetLabels
  <2>4. CASE PortResetPost(t)
    BY <2>4 DEF PortResetPost, PortResetReturn, UdevUnlock, ResetLabels
  <2>5. CASE BulkReset(t)
    BY <2>5 DEF BulkReset, Send, DeviceResetReturn, MsgLabels, ResetLabels,
                 Stages
  <2> QED
    BY <1>2, <2>1, <2>2, <2>3, <2>4, <2>5 DEF ResetStep
<1>3. CASE Down \/ NextMsg
  BY <1>3, MaxMsgsAssumption DEF Down, NextMsg, MsgLabels
<1>4. CASE Lock
  <2>1. /\ pc' \in {[pc EXCEPT !["worker"] = "exit"], [pc EXCEPT !["worker"] = "begin"]}
        /\ dev_mutex' \in Threads \cup {Free}
    BY <1>4 DEF Lock, Acquire, MutexFree
  <2> QED
    BY <1>4, <2>1 DEF Lock
<1>5. CASE HandleErrors \/ Relock
  <2>1. CASE HandleErrors
    BY <2>1, BitFacts DEF HandleErrors, ResetLabels
  <2>2. CASE Relock
    BY <2>2 DEF Relock, Acquire, MutexFree, BulkLabels
  <2> QED
    BY <1>5, <2>1, <2>2
<1>6. CASE BeginTimedOut \/ Finish
  <2>1. /\ notify' \in Nat
        /\ flags' \in SUBSET Bits
        /\ srb' \in Cmds \cup {NoCmd}
        /\ result' \in Results
        /\ dev_mutex' = Free
        /\ pc' = [pc EXCEPT !["worker"] = "down"]
    BY <1>6
       DEF BeginTimedOut, Finish, EndCommand, CompleteNotify, ClearAbort,
           ReleaseSrb, Results
  <2>2. /\ cmd' \in [Cmds -> {"new", "issued", "expired", "finished"}]
        /\ answers' \in [Cmds -> Nat]
    BY <1>6 DEF BeginTimedOut, Finish, ScsiDone
  <2> QED
    BY <1>6, <2>1, <2>2 DEF BeginTimedOut, Finish
<1>7. CASE Begin \/ TransportDone
  <2>1. CASE Begin
    BY <2>1, StageFacts, MaxMsgsAssumption
    DEF Begin, StartTransport, MsgLabels, Results
  <2>2. /\ \A s \in {"command", "sense"} :
                StartTransport(s) => /\ stage' \in [Threads -> Stages]
                                     /\ left' \in 0..MaxMsgs
                                     /\ pc' = [pc EXCEPT !["worker"] = "check"]
        /\ \A r \in Results :
             \A l \in {"errors", "finish"} :
                Verdict(r, l) => /\ stage' \in [Threads -> Stages]
                                 /\ left' \in 0..MaxMsgs
                                 /\ pc' = [pc EXCEPT !["worker"] = l]
                                 /\ result' \in Results
    BY StageFacts, MaxMsgsAssumption DEF StartTransport, Verdict
  <2>3. CASE TransportDone
    <3>1. \/ StartTransport("sense") /\ result' = "GOOD"
          \/ \E r \in {"GOOD", "CHECK_CONDITION", "ERROR", "ABORT"} :
             \E l \in {"errors", "finish"} : Verdict(r, l)
      BY <2>3 DEF TransportDone
    <3>2. {"GOOD", "CHECK_CONDITION", "ERROR", "ABORT"} \subseteq Results
      BY DEF Results
    <3>3. /\ stage' \in [Threads -> Stages]
          /\ left' \in 0..MaxMsgs
          /\ result' \in Results
          /\ \E l \in {"errors", "finish", "check"} :
                pc' = [pc EXCEPT !["worker"] = l]
      BY <2>2, <3>1, <3>2
    <3> QED
      BY <2>3, <3>3 DEF TransportDone, MsgLabels
  <2> QED
    BY <1>7, <2>1, <2>3
<1>8. CASE Exit
  BY <1>8 DEF Exit, HostPut, MemoryInv, Owners
<1>9. CASE CommandAbort
  BY <1>9, StoppedIoType, BitFacts DEF CommandAbort
<1>10. CASE AbortReturns \/ DeviceReset \/ EhDone
  BY <1>10
     DEF AbortReturns, DeviceReset, EhDone, AwaitNotify, PreReset, Acquire,
         MutexFree, BulkLabels
<1>17. CASE Probe
  BY <1>17 DEF Probe, Allocated, Resources, HostGet
<1>18. CASE AddHost \/ MaxLun \/ Bound
  BY <1>18, StageFacts
     DEF AddHost, MaxLun, Bound, Acquire, MutexFree, MsgLabels
<1>19. CASE PreReset("core", "rst_pre", "rst_post") \/ CorePostReset
            \/ RemoveHost
  BY <1>19 DEF PreReset, CorePostReset, RemoveHost, Acquire, MutexFree
<1>20. CASE Disconnect \/ StopTransport
  BY <1>20, StoppedIoType, BitFacts DEF Disconnect, StopTransport
<1>11. CASE Quiesce
  BY <1>11 DEF Quiesce, ScsiDone, ReleaseSrb, Results
<1>12. CASE FreeUpAll
  BY <1>12 DEF FreeUpAll, WakeWorker, HostPut, MemoryInv, Owners,
               Bits
<1>13. ASSUME NEW c \in Cmds, QueueCommand(c) \/ Expire(c) PROVE TypeOK'
  BY <1>13 DEF QueueCommand, Expire, ScsiDone, WakeWorker
<1>14. ASSUME NEW r \in Requests, HcFinish(r) \/ HcUnlinked(r) PROVE TypeOK'
  BY <1>14 DEF HcFinish, HcUnlinked
<1>15. CASE CoreCalls("rst_pre") \/ CoreCalls("disc") \/ ModExit
  BY <1>15 DEF CoreCalls, ModExit
<1>16. CASE UNCHANGED vars
  BY <1>16 DEF vars
<1> QED
  BY <1>1, <1>2, <1>3, <1>4, <1>5, <1>6, <1>7, <1>8, <1>9, <1>10, <1>11,
     <1>12, <1>13, <1>14, <1>15, <1>16, <1>17, <1>18, <1>19, <1>20
     DEF Next, Worker, ErrorHandler, Core, Environment, Stopped

-----------------------------------------------------------------------------
(* The labels at which a thread holds the mutex, and those at which it     *)
(* does not.                                                               *)
LEMMA HoldFacts ==
    /\ {"check", "submit", "mark", "recheck", "wait", "returned", "br_test",
        "settle", "begin", "errors", "finish", "pr_post", "rst_post"}
         \subseteq HoldLabels
    /\ \A l \in {"unborn", "down", "lock", "relock_ok", "relock_failed",
        "exit", "exited", "idle", "abort", "notified", "dev_reset",
        "recovered", "probe", "add_host", "max_lun", "scan", "bound",
        "rst_pre", "disc", "disc_stop", "disc_lock", "remove", "free", "gone",
        "unloaded", "pr_lock", "pr_test", "pr_pre"} : l \notin HoldLabels
BY DEF HoldLabels, MsgLabels, BulkLabels

(* A thread moves without touching the mutex, between labels that agree.   *)
LEMMA MutexKept ==
    ASSUME TypeOK, MutexInv, NEW t \in Threads, NEW l, Goto(t, l),
           dev_mutex' = dev_mutex,
           pc[t] \in HoldLabels <=> l \in HoldLabels
    PROVE  MutexInv'
BY DEF TypeOK, MutexInv, Goto
(* Taking it: it was free, so no other thread held it.                     *)
LEMMA MutexTaken ==
    ASSUME TypeOK, MutexInv, NEW t \in Threads, NEW l, Goto(t, l),
           Acquire(t), l \in HoldLabels
    PROVE  MutexInv'
BY DEF TypeOK, MutexInv, Goto, Acquire, MutexFree, Threads, Free
(* Releasing it: nobody else can have held it.                             *)
LEMMA MutexReleased ==
    ASSUME TypeOK, MutexInv, NEW t \in Threads, NEW l, Goto(t, l),
           dev_mutex' = Free, pc[t] \in HoldLabels, l \notin HoldLabels
    PROVE  MutexInv'
BY DEF TypeOK, MutexInv, Goto, Threads, Free

(* dev_mutex has one owner.                                                *)
LEMMA OneOwner ==
    ASSUME MutexInv, NEW t \in Threads, NEW u \in Threads,
           pc[t] \in HoldLabels, pc[u] \in HoldLabels
    PROVE  t = u
BY DEF MutexInv

(* Every step keeps dev_mutex where the labels say.                        *)
LEMMA MutexStep == TypeOK /\ IInv /\ [Next]_vars => MutexInv'
<1> SUFFICES ASSUME TypeOK, MutexInv, PhaseInv, CommandInv, [Next]_vars
             PROVE  MutexInv'
  BY DEF IInv
<1> USE HoldFacts, MutexKept, MutexTaken, MutexReleased
        DEF  Threads, request, midlayer, memory, locks
<1>1. ASSUME NEW t \in Threads, MsgStep(t) PROVE MutexInv'
  <2>1. CASE Check(t)
    BY <2>1 DEF Check, Returned, KindsFor
  <2>2. CASE Submit(t)
    BY <2>2 DEF Submit, Returned
  <2>3. CASE Mark(t)
    BY <2>3 DEF Mark
  <2>4. CASE Recheck(t)
    BY <2>4 DEF Recheck
  <2>5. CASE Wait(t)
    BY <2>5 DEF Wait, Returned
  <2>6. CASE WaitTimeout(t)
    BY <2>6 DEF WaitTimeout, Returned
  <2>7. CASE ControlDone(t)
    BY <2>7 DEF ControlDone, Send, DeviceResetReturn
  <2> QED
    BY <1>1, <2>1, <2>2, <2>3, <2>4, <2>5, <2>6, <2>7 DEF MsgStep
<1>2. ASSUME NEW t \in {"worker", "eh"}, ResetStep(t) PROVE MutexInv'
  <2>1. CASE PortResetLock(t)
    BY <2>1 DEF PortResetLock, PortResetReturn
  <2>2. CASE PortResetTest(t)
    BY <2>2 DEF PortResetTest, PortResetReturn, UdevUnlock
  <2>3. CASE PreReset(t, "pr_pre", "pr_post")
    BY <2>3 DEF PreReset, Acquire, MutexFree
  <2>4. CASE PortResetPost(t)
    BY <2>4 DEF PortResetPost, PortResetReturn, UdevUnlock
  <2>5. CASE BulkReset(t)
    BY <2>5 DEF BulkReset, Send, DeviceResetReturn, BulkLabels
  <2> QED
    BY <1>2, <2>1, <2>2, <2>3, <2>4, <2>5 DEF ResetStep
<1>3. CASE Down \/ Lock \/ BeginTimedOut \/ Begin \/ NextMsg \/
          TransportDone \/ HandleErrors \/ Relock \/ Finish
  BY <1>3
     DEF Down, Lock, Acquire, MutexFree, BeginTimedOut, EndCommand,
         CompleteNotify, ClearAbort, ReleaseSrb, Begin, StartTransport,
         NextMsg, TransportDone, Verdict, HandleErrors, Relock, Finish,
         ScsiDone
<1>4. CASE Exit \/ CommandAbort \/ AbortReturns \/ DeviceReset \/ EhDone
  BY <1>4
     DEF Exit, HostPut, CommandAbort, AbortReturns, AwaitNotify, DeviceReset,
         PreReset, Acquire, MutexFree, EhDone
<1>5. CASE Probe
  BY <1>5 DEF Probe, TypeOK, MutexInv, PhaseInv, Goto
<1>6. CASE AddHost \/ MaxLun \/ Bound \/ PreReset("core", "rst_pre",
          "rst_post") \/ CorePostReset \/ Disconnect \/ StopTransport \/
          Quiesce \/ RemoveHost
  BY <1>6
     DEF AddHost, MaxLun, Acquire, MutexFree, Bound, PreReset, CorePostReset,
         Disconnect, StopTransport, Quiesce, ScsiDone, ReleaseSrb, RemoveHost
<1>7. CASE FreeUpAll \/ CoreCalls("rst_pre") \/ CoreCalls("disc") \/
          ModExit
  BY <1>7 DEF FreeUpAll, WakeWorker, HostPut, CoreCalls, ModExit
<1>8. ASSUME NEW c \in Cmds, QueueCommand(c) \/ Expire(c) PROVE MutexInv'
  BY <1>8 DEF QueueCommand, Expire, TypeOK, MutexInv, CommandInv, Goto
<1>9. ASSUME NEW r \in Requests, HcFinish(r) \/ HcUnlinked(r) PROVE MutexInv'
  BY <1>9 DEF HcFinish, HcUnlinked, MutexInv
<1>10. CASE UNCHANGED vars
  BY <1>10 DEF vars, MutexInv
<1> QED
  BY <1>1, <1>2, <1>3, <1>4, <1>5, <1>6, <1>7, <1>8, <1>9, <1>10
     DEF Next, Worker, ErrorHandler, Core, Environment, Stopped

(* Every step keeps the purposes of requests apart.                        *)
LEMMA StageStep == TypeOK /\ IInv /\ [Next]_vars => StageInv'
<1> SUFFICES ASSUME TypeOK, StageInv, [Next]_vars
             PROVE  StageInv'
  BY DEF IInv
<1> USE StageFacts
        DEF TypeOK, StageInv, Goto, Threads, request, midlayer, memory, locks
<1>1. ASSUME NEW t \in Threads, MsgStep(t) PROVE StageInv'
  <2>1. CASE Check(t)
    BY <2>1 DEF Check, Returned, KindsFor
  <2>2. CASE Submit(t)
    BY <2>2 DEF Submit, Returned
  <2>3. CASE Mark(t)
    BY <2>3 DEF Mark
  <2>4. CASE Recheck(t)
    BY <2>4 DEF Recheck
  <2>5. CASE Wait(t)
    BY <2>5 DEF Wait, Returned
  <2>6. CASE WaitTimeout(t)
    BY <2>6 DEF WaitTimeout, Returned
  <2>7. CASE ControlDone(t)
    BY <2>7 DEF ControlDone, Send, DeviceResetReturn
  <2> QED
    BY <1>1, <2>1, <2>2, <2>3, <2>4, <2>5, <2>6, <2>7 DEF MsgStep
<1>2. ASSUME NEW t \in {"worker", "eh"}, ResetStep(t) PROVE StageInv'
  <2>1. CASE PortResetLock(t)
    BY <2>1 DEF PortResetLock, PortResetReturn
  <2>2. CASE PortResetTest(t)
    BY <2>2 DEF PortResetTest, PortResetReturn, UdevUnlock
  <2>3. CASE PreReset(t, "pr_pre", "pr_post")
    BY <2>3 DEF PreReset, Acquire, MutexFree
  <2>4. CASE PortResetPost(t)
    BY <2>4 DEF PortResetPost, PortResetReturn, UdevUnlock
  <2>5. CASE BulkReset(t)
    BY <2>5 DEF BulkReset, Send, DeviceResetReturn
  <2> QED
    BY <1>2, <2>1, <2>2, <2>3, <2>4, <2>5 DEF ResetStep
<1>3. CASE Down \/ Lock \/ BeginTimedOut \/ Begin \/ NextMsg \/
          TransportDone \/ HandleErrors \/ Relock \/ Finish
  BY <1>3
     DEF Down, Lock, Acquire, MutexFree, BeginTimedOut, EndCommand,
         CompleteNotify, ClearAbort, ReleaseSrb, Begin, StartTransport,
         NextMsg, TransportDone, Verdict, HandleErrors, Relock, Finish,
         ScsiDone
<1>4. CASE Exit \/ CommandAbort \/ AbortReturns \/ DeviceReset \/ EhDone
          \/ Probe \/ AddHost \/ MaxLun \/ Bound
  BY <1>4
     DEF Exit, HostPut, CommandAbort, AbortReturns, AwaitNotify, DeviceReset,
         PreReset, Acquire, MutexFree, EhDone, Probe, HostGet, AddHost, MaxLun,
         Bound
<1>5. CASE PreReset("core", "rst_pre", "rst_post") \/ CorePostReset \/
          Disconnect \/ StopTransport \/ Quiesce \/ RemoveHost \/
          FreeUpAll \/ CoreCalls("rst_pre") \/ CoreCalls("disc") \/
          ModExit
  BY <1>5
     DEF PreReset, Acquire, MutexFree, CorePostReset, Disconnect,
         StopTransport, Quiesce, ScsiDone, ReleaseSrb, RemoveHost, FreeUpAll,
         WakeWorker, HostPut, CoreCalls, ModExit
<1>6. ASSUME NEW c \in Cmds, QueueCommand(c) \/ Expire(c) PROVE StageInv'
  BY <1>6 DEF QueueCommand, Expire, ScsiDone, WakeWorker
<1>7. ASSUME NEW r \in Requests, HcFinish(r) \/ HcUnlinked(r) PROVE StageInv'
  BY <1>7 DEF HcFinish, HcUnlinked
<1>8. CASE UNCHANGED vars
  BY <1>8 DEF vars
<1> QED
  BY <1>1, <1>2, <1>3, <1>4, <1>5, <1>6, <1>7, <1>8
     DEF Next, Worker, ErrorHandler, Core, Environment, Stopped

(* Requests in flight.                                                     *)
(* A thread that neither begins nor ends a request.                        *)
LEMMA IoKept ==
    ASSUME TypeOK, IoInv, NEW t \in Threads, NEW l, Goto(t, l),
           io' = io, \A u \in Threads \ {t} : kind'[u] = kind[u],
           \A b \in ActiveBits : b \in flags => b \in flags',
           pc[t] \notin {"mark", "recheck", "wait"},
           l \notin {"mark", "recheck", "wait"}
    PROVE  IoInv'
BY ReqType DEF TypeOK, IoInv, Goto, Req
(* A thread that cancels what is in flight (usb_stor_stop_transport).      *)
LEMMA IoStopped ==
    ASSUME TypeOK, IoInv, NEW t \in Threads, NEW l, Goto(t, l),
           io' = StoppedIo, kind' = kind,
           pc[t] \notin {"mark", "recheck", "wait"},
           l \notin {"mark", "recheck", "wait"}
    PROVE  IoInv'
BY ReqType DEF TypeOK, IoInv, Goto, Req, StoppedIo

(* Every step keeps requests in flight waited for and cancellable.         *)
LEMMA IoStep == TypeOK /\ IInv /\ [Next]_vars => IoInv'
<1> SUFFICES ASSUME TypeOK, MutexInv, IoInv, PhaseInv, CommandInv,
                    [Next]_vars
             PROVE  IoInv'
  BY DEF IInv
<1> USE IoKept, IoStopped
        DEF  Threads, request, midlayer, memory, locks, ActiveBits
<1>1. ASSUME NEW t \in Threads, MsgStep(t) PROVE IoInv'
  <2>1. CASE Check(t)
    BY <2>1 DEF Check, Returned, TypeOK
  <2>2. CASE Submit(t)
    BY <2>2, ReqType, OneOwner, HoldFacts
       DEF Submit, Returned, TypeOK, IoInv, Req, Goto
  <2>3. CASE Mark(t)
    BY <2>3, ReqType DEF Mark, TypeOK, IoInv, Req, Goto
  <2>4. CASE Recheck(t)
    BY <2>4, ReqType DEF Recheck, StoppedIo, TypeOK, IoInv, Req, Goto
  <2>5. CASE Wait(t)
    BY <2>5, ReqType DEF Wait, Returned, TypeOK, IoInv, Req, Goto
  <2>6. CASE WaitTimeout(t)
    BY <2>6, ReqType
       DEF WaitTimeout, Returned, TypeOK, IoInv, Req, Goto, ActiveBit
  <2>7. CASE ControlDone(t)
    BY <2>7 DEF ControlDone, Send, DeviceResetReturn
  <2> QED
    BY <1>1, <2>1, <2>2, <2>3, <2>4, <2>5, <2>6, <2>7 DEF MsgStep
<1>2. ASSUME NEW t \in {"worker", "eh"}, ResetStep(t) PROVE IoInv'
  <2>1. CASE PortResetLock(t)
    BY <2>1 DEF PortResetLock, PortResetReturn
  <2>2. CASE PortResetTest(t)
    BY <2>2 DEF PortResetTest, PortResetReturn, UdevUnlock
  <2>3. CASE PreReset(t, "pr_pre", "pr_post")
    BY <2>3 DEF PreReset, Acquire, MutexFree
  <2>4. CASE PortResetPost(t)
    BY <2>4 DEF PortResetPost, PortResetReturn, UdevUnlock
  <2>5. CASE BulkReset(t)
    BY <2>5 DEF BulkReset, Send, DeviceResetReturn, BulkLabels
  <2> QED
    BY <1>2, <2>1, <2>2, <2>3, <2>4, <2>5 DEF ResetStep
<1>3. CASE Down \/ Lock \/ BeginTimedOut \/ Begin \/ NextMsg \/
          TransportDone \/ HandleErrors \/ Relock \/ Finish
  BY <1>3
     DEF Down, Lock, Acquire, MutexFree, BeginTimedOut, EndCommand,
         CompleteNotify, ClearAbort, ReleaseSrb, Begin, StartTransport,
         NextMsg, TransportDone, Verdict, HandleErrors, Relock, Finish,
         ScsiDone
<1>4. CASE Exit \/ CommandAbort \/ AbortReturns \/ DeviceReset \/ EhDone
  BY <1>4
     DEF Exit, HostPut, CommandAbort, AbortReturns, AwaitNotify, DeviceReset,
         PreReset, Acquire, MutexFree, EhDone
<1>5. CASE Probe
  BY <1>5 DEF Probe, TypeOK, IoInv, PhaseInv, Goto, Req
<1>6. CASE AddHost \/ MaxLun \/ Bound \/ PreReset("core", "rst_pre",
          "rst_post") \/ CorePostReset \/ Disconnect \/ StopTransport \/
          Quiesce \/ RemoveHost
  BY <1>6
     DEF AddHost, MaxLun, Acquire, MutexFree, Bound, PreReset, CorePostReset,
         Disconnect, StopTransport, Quiesce, ScsiDone, ReleaseSrb, RemoveHost
<1>7. CASE FreeUpAll \/ CoreCalls("rst_pre") \/ CoreCalls("disc") \/
          ModExit
  BY <1>7 DEF FreeUpAll, WakeWorker, HostPut, CoreCalls, ModExit
<1>8. ASSUME NEW c \in Cmds, QueueCommand(c) \/ Expire(c) PROVE IoInv'
  BY <1>8 DEF QueueCommand, Expire, TypeOK, IoInv, Req, CommandInv, Goto
<1>9. ASSUME NEW r \in Requests, HcFinish(r) \/ HcUnlinked(r) PROVE IoInv'
  BY <1>9, ReqType DEF HcFinish, HcUnlinked, IoInv, TypeOK, Req
<1>10. CASE UNCHANGED vars
  BY <1>10 DEF vars, IoInv, Req
<1> QED
  BY <1>1, <1>2, <1>3, <1>4, <1>5, <1>6, <1>7, <1>8, <1>9, <1>10
     DEF Next, Worker, ErrorHandler, Core, Environment, Stopped

(* Every step keeps the phases of the device's life.                       *)
LEMMA PhaseStep == TypeOK /\ IInv /\ [Next]_vars => PhaseInv'
<1> SUFFICES ASSUME TypeOK, MutexInv, StageInv, IoInv, PhaseInv, CommandInv,
                    SrbInv, AbortInv, MemoryInv, [Next]_vars
             PROVE  PhaseInv'
  BY DEF IInv
<1> USE DEF TypeOK, PhaseInv, Goto, Threads, request, midlayer, memory, locks
<1>1. ASSUME NEW t \in Threads, MsgStep(t) PROVE PhaseInv'
  <2>1. CASE Check(t)
    BY <2>1
       DEF Check, Returned, KindsFor, EarlyLabels, LateLabels, MsgLabels,
           Disconnected
  <2>2. CASE Submit(t)
    BY <2>2
       DEF Submit, Returned, EarlyLabels, LateLabels, MsgLabels, Disconnected
  <2>3. CASE Mark(t)
    BY <2>3, ReqType DEF Mark, EarlyLabels, LateLabels, MsgLabels, Disconnected
  <2>4. CASE Recheck(t)
    BY <2>4, ReqType
       DEF Recheck, EarlyLabels, LateLabels, MsgLabels, Disconnected
  <2>5. CASE Wait(t)
    BY <2>5, ReqType
       DEF Wait, Returned, EarlyLabels, LateLabels, MsgLabels, Disconnected
  <2>6. CASE WaitTimeout(t)
    BY <2>6
       DEF WaitTimeout, Returned, EarlyLabels, LateLabels, MsgLabels,
           Disconnected
  <2>7. CASE ControlDone(t)
    BY <2>7
       DEF ControlDone, Send, DeviceResetReturn, EarlyLabels, LateLabels,
           MsgLabels, Disconnected
  <2> QED
    BY <1>1, <2>1, <2>2, <2>3, <2>4, <2>5, <2>6, <2>7 DEF MsgStep
<1>2. ASSUME NEW t \in {"worker", "eh"}, ResetStep(t) PROVE PhaseInv'
  <2>1. CASE PortResetLock(t)
    BY <2>1
       DEF PortResetLock, PortResetReturn, EarlyLabels, LateLabels, MsgLabels,
           Disconnected
  <2>2. CASE PortResetTest(t)
    BY <2>2
       DEF PortResetTest, PortResetReturn, UdevUnlock, EarlyLabels, LateLabels,
           MsgLabels, Disconnected
  <2>3. CASE PreReset(t, "pr_pre", "pr_post")
    BY <2>3
       DEF PreReset, Acquire, MutexFree, EarlyLabels, LateLabels, MsgLabels,
           Disconnected
  <2>4. CASE PortResetPost(t)
    BY <2>4
       DEF PortResetPost, PortResetReturn, UdevUnlock, EarlyLabels, LateLabels,
           MsgLabels, Disconnected
  <2>5. CASE BulkReset(t)
    BY <2>5
       DEF BulkReset, Send, DeviceResetReturn, BulkLabels, EarlyLabels,
           LateLabels, MsgLabels, Disconnected
  <2> QED
    BY <1>2, <2>1, <2>2, <2>3, <2>4, <2>5 DEF ResetStep
<1>3. CASE Down \/ Lock \/ BeginTimedOut \/ Begin \/ NextMsg \/
          TransportDone \/ HandleErrors \/ Relock \/ Finish
  BY <1>3
     DEF Down, Lock, Acquire, MutexFree, BeginTimedOut, EndCommand,
         CompleteNotify, ClearAbort, ReleaseSrb, Begin, StartTransport,
         NextMsg, TransportDone, Verdict, HandleErrors, Relock, Finish,
         ScsiDone, EarlyLabels, LateLabels, MsgLabels, Disconnected
<1>4. CASE Exit
  BY <1>4 DEF Exit, HostPut, EarlyLabels, LateLabels, MsgLabels, Disconnected
<1>5. CASE CommandAbort
  BY <1>5
     DEF CommandAbort, ActiveBits, EarlyLabels, LateLabels, MsgLabels,
         Disconnected
<1>6. CASE AbortReturns \/ DeviceReset \/ EhDone \/ Probe \/ AddHost \/
          MaxLun \/ Bound \/ PreReset("core", "rst_pre", "rst_post") \/
          CorePostReset
  BY <1>6
     DEF AbortReturns, AwaitNotify, DeviceReset, PreReset, Acquire, MutexFree,
         EhDone, Probe, HostGet, AddHost, MaxLun, Bound, CorePostReset,
         EarlyLabels, LateLabels, MsgLabels, Disconnected
<1>7. CASE Disconnect
  BY <1>7 DEF Disconnect, EarlyLabels, LateLabels, MsgLabels, Disconnected
<1>8. CASE StopTransport
  BY <1>8
     DEF StopTransport, ActiveBits, EarlyLabels, LateLabels, MsgLabels,
         Disconnected
<1>9. CASE Quiesce
  BY <1>9, HoldFacts
     DEF Quiesce, MutexFree, ScsiDone, ReleaseSrb, MutexInv, Free, EarlyLabels,
         LateLabels, MsgLabels, Disconnected
<1>10. CASE RemoveHost \/ FreeUpAll \/ CoreCalls("rst_pre") \/
          CoreCalls("disc") \/ ModExit
  BY <1>10
     DEF RemoveHost, FreeUpAll, WakeWorker, HostPut, CoreCalls, ModExit,
         EarlyLabels, LateLabels, MsgLabels, Disconnected
<1>11. ASSUME NEW c \in Cmds, QueueCommand(c) \/ Expire(c) PROVE PhaseInv'
  BY <1>11, CmdsAssumption
     DEF QueueCommand, Expire, ScsiDone, WakeWorker, MayIssue, HostOpen,
         CommandInv, EarlyLabels, LateLabels, MsgLabels, Disconnected
<1>12. ASSUME NEW r \in Requests, HcFinish(r) \/ HcUnlinked(r) PROVE PhaseInv'
  BY <1>12
     DEF HcFinish, HcUnlinked, EarlyLabels, LateLabels, MsgLabels, Disconnected
<1>13. CASE UNCHANGED vars
  BY <1>13 DEF vars, EarlyLabels, LateLabels, MsgLabels, Disconnected
<1> QED
  BY <1>1, <1>2, <1>3, <1>4, <1>5, <1>6, <1>7, <1>8, <1>9, <1>10, <1>11, <1>12,
     <1>13
     DEF Next, Worker, ErrorHandler, Core, Environment, Stopped

(* Every step keeps the account of the commands.                           *)
LEMMA CommandStep == TypeOK /\ IInv /\ [Next]_vars => CommandInv'
<1> SUFFICES ASSUME TypeOK, MutexInv, StageInv, IoInv, PhaseInv, CommandInv,
                    SrbInv, AbortInv, MemoryInv, [Next]_vars
             PROVE  CommandInv'
  BY DEF IInv
<1> USE CmdsAssumption
        DEF TypeOK, CommandInv, Goto, Threads, request, midlayer, memory, locks
<1>1. ASSUME NEW t \in Threads, MsgStep(t) PROVE CommandInv'
  <2>1. CASE Check(t)
    BY <2>1 DEF Check, Returned, KindsFor
  <2>2. CASE Submit(t)
    BY <2>2 DEF Submit, Returned
  <2>3. CASE Mark(t)
    BY <2>3 DEF Mark
  <2>4. CASE Recheck(t)
    BY <2>4 DEF Recheck
  <2>5. CASE Wait(t)
    BY <2>5 DEF Wait, Returned
  <2>6. CASE WaitTimeout(t)
    BY <2>6 DEF WaitTimeout, Returned
  <2>7. CASE ControlDone(t)
    BY <2>7 DEF ControlDone, Send, DeviceResetReturn, StageInv
  <2> QED
    BY <1>1, <2>1, <2>2, <2>3, <2>4, <2>5, <2>6, <2>7 DEF MsgStep
<1>2. ASSUME NEW t \in {"worker", "eh"}, ResetStep(t) PROVE CommandInv'
  <2>1. CASE PortResetLock(t)
    BY <2>1 DEF PortResetLock, PortResetReturn
  <2>2. CASE PortResetTest(t)
    BY <2>2 DEF PortResetTest, PortResetReturn, UdevUnlock
  <2>3. CASE PreReset(t, "pr_pre", "pr_post")
    BY <2>3 DEF PreReset, Acquire, MutexFree
  <2>4. CASE PortResetPost(t)
    BY <2>4 DEF PortResetPost, PortResetReturn, UdevUnlock
  <2>5. CASE BulkReset(t)
    BY <2>5 DEF BulkReset, Send, DeviceResetReturn, BulkLabels
  <2> QED
    BY <1>2, <2>1, <2>2, <2>3, <2>4, <2>5 DEF ResetStep
<1>3. CASE Down \/ Lock
  BY <1>3 DEF Down, Lock, Acquire, MutexFree
<1>4. CASE BeginTimedOut
  BY <1>4 DEF BeginTimedOut, EndCommand, ReleaseSrb, AbortInv
<1>5. CASE Begin \/ NextMsg \/ TransportDone \/ HandleErrors \/ Relock
  BY <1>5
     DEF Begin, StartTransport, NextMsg, TransportDone, Verdict, HandleErrors,
         Relock, Acquire, MutexFree
<1>6. CASE Finish
  BY <1>6 DEF Finish, ScsiDone, EndCommand, ReleaseSrb, AbortInv
<1>7. CASE Exit \/ CommandAbort \/ AbortReturns \/ DeviceReset
  BY <1>7
     DEF Exit, HostPut, CommandAbort, AbortReturns, AwaitNotify, DeviceReset,
         PreReset, Acquire, MutexFree
<1>8. CASE EhDone
  BY <1>8 DEF EhDone, AbortInv
<1>9. CASE Probe \/ AddHost \/ MaxLun \/ Bound \/ PreReset("core",
          "rst_pre", "rst_post") \/ CorePostReset \/ Disconnect \/
          StopTransport \/ Quiesce
  BY <1>9
     DEF Probe, HostGet, AddHost, MaxLun, Acquire, MutexFree, Bound, PreReset,
         CorePostReset, Disconnect, StopTransport, Quiesce, ScsiDone,
         ReleaseSrb
<1>10. CASE RemoveHost \/ FreeUpAll \/ CoreCalls("rst_pre") \/
          CoreCalls("disc") \/ ModExit
  BY <1>10 DEF RemoveHost, FreeUpAll, WakeWorker, HostPut, CoreCalls, ModExit
<1>11. ASSUME NEW c \in Cmds, QueueCommand(c) \/ Expire(c) PROVE CommandInv'
  BY <1>11
     DEF QueueCommand, Expire, ScsiDone, WakeWorker, MayIssue, Outstanding
<1>12. ASSUME NEW r \in Requests, HcFinish(r) \/ HcUnlinked(r) PROVE CommandInv'
  BY <1>12 DEF HcFinish, HcUnlinked
<1>13. CASE UNCHANGED vars
  BY <1>13 DEF vars
<1> QED
  BY <1>1, <1>2, <1>3, <1>4, <1>5, <1>6, <1>7, <1>8, <1>9, <1>10, <1>11, <1>12,
     <1>13
     DEF Next, Worker, ErrorHandler, Core, Environment, Stopped

(* Every step keeps us->srb, us->sema and the control thread together.     *)
LEMMA SrbStep == TypeOK /\ IInv /\ [Next]_vars => SrbInv'
<1> SUFFICES ASSUME TypeOK, MutexInv, StageInv, IoInv, PhaseInv, CommandInv,
                    SrbInv, AbortInv, MemoryInv, [Next]_vars
             PROVE  SrbInv'
  BY DEF IInv
<1> USE CmdsAssumption
        DEF TypeOK, SrbInv, Goto, Threads, request, midlayer, memory, locks
<1>1. ASSUME NEW t \in Threads, MsgStep(t) PROVE SrbInv'
  <2>1. CASE Check(t)
    BY <2>1
       DEF Check, Returned, KindsFor, CommandThere, MsgLabels, Disconnected
  <2>2. CASE Submit(t)
    BY <2>2 DEF Submit, Returned, CommandThere, MsgLabels, Disconnected
  <2>3. CASE Mark(t)
    BY <2>3 DEF Mark, CommandThere, MsgLabels, Disconnected
  <2>4. CASE Recheck(t)
    BY <2>4, ReqType DEF Recheck, CommandThere, MsgLabels, Disconnected
  <2>5. CASE Wait(t)
    BY <2>5, ReqType DEF Wait, Returned, CommandThere, MsgLabels, Disconnected
  <2>6. CASE WaitTimeout(t)
    BY <2>6 DEF WaitTimeout, Returned, CommandThere, MsgLabels, Disconnected
  <2>7. CASE ControlDone(t)
    BY <2>7
       DEF ControlDone, Send, DeviceResetReturn, CommandThere, MsgLabels,
           Disconnected
  <2> QED
    BY <1>1, <2>1, <2>2, <2>3, <2>4, <2>5, <2>6, <2>7 DEF MsgStep
<1>2. ASSUME NEW t \in {"worker", "eh"}, ResetStep(t) PROVE SrbInv'
  <2>1. CASE PortResetLock(t)
    BY <2>1
       DEF PortResetLock, PortResetReturn, CommandThere, MsgLabels,
           Disconnected
  <2>2. CASE PortResetTest(t)
    BY <2>2
       DEF PortResetTest, PortResetReturn, UdevUnlock, CommandThere, MsgLabels,
           Disconnected
  <2>3. CASE PreReset(t, "pr_pre", "pr_post")
    BY <2>3
       DEF PreReset, Acquire, MutexFree, CommandThere, MsgLabels, Disconnected
  <2>4. CASE PortResetPost(t)
    BY <2>4
       DEF PortResetPost, PortResetReturn, UdevUnlock, CommandThere, MsgLabels,
           Disconnected
  <2>5. CASE BulkReset(t)
    BY <2>5
       DEF BulkReset, Send, DeviceResetReturn, BulkLabels, CommandThere,
           MsgLabels, Disconnected
  <2> QED
    BY <1>2, <2>1, <2>2, <2>3, <2>4, <2>5 DEF ResetStep
<1>3. CASE Down
  BY <1>3 DEF Down, CommandThere, MsgLabels, Disconnected
<1>4. CASE Lock
  BY <1>4
     DEF Lock, Acquire, MutexFree, CommandInv, CommandThere, MsgLabels,
         Disconnected
<1>5. CASE BeginTimedOut \/ Begin \/ NextMsg \/ TransportDone \/
          HandleErrors \/ Relock \/ Finish \/ Exit
  BY <1>5
     DEF BeginTimedOut, EndCommand, CompleteNotify, ClearAbort, ReleaseSrb,
         Begin, StartTransport, NextMsg, TransportDone, Verdict, HandleErrors,
         Relock, Acquire, MutexFree, Finish, ScsiDone, Exit, HostPut,
         CommandThere, MsgLabels, Disconnected
<1>6. CASE CommandAbort
  BY <1>6 DEF CommandAbort, ActiveBits, CommandThere, MsgLabels, Disconnected
<1>7. CASE AbortReturns \/ DeviceReset
  BY <1>7
     DEF AbortReturns, AwaitNotify, DeviceReset, PreReset, Acquire, MutexFree,
         CommandThere, MsgLabels, Disconnected
<1>8. CASE EhDone
  BY <1>8 DEF EhDone, AbortInv, CommandThere, MsgLabels, Disconnected
<1>9. CASE Probe \/ AddHost \/ MaxLun \/ Bound \/ PreReset("core",
          "rst_pre", "rst_post") \/ CorePostReset \/ Disconnect
  BY <1>9
     DEF Probe, HostGet, AddHost, MaxLun, Acquire, MutexFree, Bound, PreReset,
         CorePostReset, Disconnect, CommandThere, MsgLabels, Disconnected
<1>10. CASE StopTransport
  BY <1>10 DEF StopTransport, ActiveBits, CommandThere, MsgLabels, Disconnected
<1>11. CASE Quiesce
  BY <1>11, HoldFacts
     DEF Quiesce, MutexFree, ScsiDone, ReleaseSrb, MutexInv, PhaseInv, Free,
         CommandThere, MsgLabels, Disconnected
<1>12. CASE RemoveHost \/ FreeUpAll \/ CoreCalls("rst_pre") \/
          CoreCalls("disc") \/ ModExit
  BY <1>12
     DEF RemoveHost, FreeUpAll, WakeWorker, HostPut, CoreCalls, ModExit,
         CommandThere, MsgLabels, Disconnected
<1>13. ASSUME NEW c \in Cmds, QueueCommand(c) \/ Expire(c) PROVE SrbInv'
  BY <1>13
     DEF QueueCommand, Expire, ScsiDone, WakeWorker, MayIssue, HostOpen,
         PhaseInv, CommandInv, CommandThere, MsgLabels, Disconnected
<1>14. ASSUME NEW r \in Requests, HcFinish(r) \/ HcUnlinked(r) PROVE SrbInv'
  BY <1>14 DEF HcFinish, HcUnlinked, CommandThere, MsgLabels, Disconnected
<1>15. CASE UNCHANGED vars
  BY <1>15 DEF vars, CommandThere, MsgLabels, Disconnected
<1> QED
  BY <1>1, <1>2, <1>3, <1>4, <1>5, <1>6, <1>7, <1>8, <1>9, <1>10, <1>11, <1>12,
     <1>13, <1>14, <1>15
     DEF Next, Worker, ErrorHandler, Core, Environment, Stopped

(* Every step keeps the abort bits and us->notify together.                *)
LEMMA AbortStep == TypeOK /\ IInv /\ [Next]_vars => AbortInv'
<1> SUFFICES ASSUME TypeOK, MutexInv, StageInv, IoInv, PhaseInv, CommandInv,
                    SrbInv, AbortInv, MemoryInv, [Next]_vars
             PROVE  AbortInv'
  BY DEF IInv
<1> USE CmdsAssumption
        DEF TypeOK, AbortInv, Goto, Threads, request, midlayer, memory, locks
<1>1. ASSUME NEW t \in Threads, MsgStep(t) PROVE AbortInv'
  <2>1. CASE Check(t)
    BY <2>1 DEF Check, Returned, KindsFor, Disconnected
  <2>2. CASE Submit(t)
    BY <2>2 DEF Submit, Returned, Disconnected
  <2>3. CASE Mark(t)
    BY <2>3, ReqType DEF Mark, Disconnected
  <2>4. CASE Recheck(t)
    BY <2>4, ReqType DEF Recheck, Disconnected
  <2>5. CASE Wait(t)
    BY <2>5, ReqType DEF Wait, Returned, Disconnected
  <2>6. CASE WaitTimeout(t)
    BY <2>6 DEF WaitTimeout, Returned, Disconnected
  <2>7. CASE ControlDone(t)
    BY <2>7 DEF ControlDone, Send, DeviceResetReturn, StageInv, Disconnected
  <2> QED
    BY <1>1, <2>1, <2>2, <2>3, <2>4, <2>5, <2>6, <2>7 DEF MsgStep
<1>2. ASSUME NEW t \in {"worker", "eh"}, ResetStep(t) PROVE AbortInv'
  <2>1. CASE PortResetLock(t)
    BY <2>1 DEF PortResetLock, PortResetReturn, Disconnected
  <2>2. CASE PortResetTest(t)
    BY <2>2 DEF PortResetTest, PortResetReturn, UdevUnlock, Disconnected
  <2>3. CASE PreReset(t, "pr_pre", "pr_post")
    BY <2>3 DEF PreReset, Acquire, MutexFree, Disconnected
  <2>4. CASE PortResetPost(t)
    BY <2>4 DEF PortResetPost, PortResetReturn, UdevUnlock, Disconnected
  <2>5. CASE BulkReset(t)
    BY <2>5 DEF BulkReset, Send, DeviceResetReturn, BulkLabels, Disconnected
  <2> QED
    BY <1>2, <2>1, <2>2, <2>3, <2>4, <2>5 DEF ResetStep
<1>3. CASE Down \/ Lock \/ BeginTimedOut \/ Begin \/ NextMsg \/
          TransportDone \/ HandleErrors \/ Relock \/ Finish
  BY <1>3
     DEF Down, Lock, Acquire, MutexFree, BeginTimedOut, EndCommand,
         CompleteNotify, ClearAbort, ReleaseSrb, Begin, StartTransport,
         NextMsg, TransportDone, Verdict, HandleErrors, Relock, Finish,
         ScsiDone, Disconnected
<1>4. CASE Exit
  BY <1>4 DEF Exit, HostPut, Disconnected
<1>5. CASE CommandAbort
  BY <1>5 DEF CommandAbort, CommandInv, ActiveBits, Disconnected
<1>6. CASE AbortReturns \/ DeviceReset \/ EhDone \/ Probe \/ AddHost \/
          MaxLun \/ Bound \/ PreReset("core", "rst_pre", "rst_post") \/
          CorePostReset
  BY <1>6
     DEF AbortReturns, AwaitNotify, DeviceReset, PreReset, Acquire, MutexFree,
         EhDone, Probe, HostGet, AddHost, MaxLun, Bound, CorePostReset,
         Disconnected
<1>7. CASE Disconnect
  BY <1>7 DEF Disconnect, Disconnected
<1>8. CASE StopTransport
  BY <1>8 DEF StopTransport, ActiveBits, Disconnected
<1>9. CASE Quiesce
  BY <1>9 DEF Quiesce, ScsiDone, ReleaseSrb, PhaseInv, Disconnected
<1>10. CASE RemoveHost \/ FreeUpAll \/ CoreCalls("rst_pre") \/
          CoreCalls("disc") \/ ModExit
  BY <1>10
     DEF RemoveHost, FreeUpAll, WakeWorker, HostPut, CoreCalls, ModExit,
         Disconnected
<1>11. ASSUME NEW c \in Cmds, QueueCommand(c) \/ Expire(c) PROVE AbortInv'
  BY <1>11
     DEF QueueCommand, Expire, CommandInv, MayIssue, Outstanding, Disconnected
<1>12. ASSUME NEW r \in Requests, HcFinish(r) \/ HcUnlinked(r) PROVE AbortInv'
  BY <1>12 DEF HcFinish, HcUnlinked, Disconnected
<1>13. CASE UNCHANGED vars
  BY <1>13 DEF vars, Disconnected
<1> QED
  BY <1>1, <1>2, <1>3, <1>4, <1>5, <1>6, <1>7, <1>8, <1>9, <1>10, <1>11, <1>12,
     <1>13
     DEF Next, Worker, ErrorHandler, Core, Environment, Stopped

(* Every step keeps memory and the host references with their owners.      *)
LEMMA MemoryStep == TypeOK /\ IInv /\ [Next]_vars => MemoryInv'
<1> SUFFICES ASSUME TypeOK, MutexInv, StageInv, IoInv, PhaseInv, CommandInv,
                    SrbInv, AbortInv, MemoryInv, [Next]_vars
             PROVE  MemoryInv'
  BY DEF IInv
<1> USE DEF TypeOK, MemoryInv, Goto, Threads, request, midlayer, memory, locks
<1>1. ASSUME NEW t \in Threads, MsgStep(t) PROVE MemoryInv'
  <2>1. CASE Check(t)
    BY <2>1 DEF Check, Returned, KindsFor, Owners
  <2>2. CASE Submit(t)
    BY <2>2 DEF Submit, Returned, Owners
  <2>3. CASE Mark(t)
    BY <2>3 DEF Mark, Owners
  <2>4. CASE Recheck(t)
    BY <2>4 DEF Recheck, Owners
  <2>5. CASE Wait(t)
    BY <2>5 DEF Wait, Returned, Owners
  <2>6. CASE WaitTimeout(t)
    BY <2>6 DEF WaitTimeout, Returned, Owners
  <2>7. CASE ControlDone(t)
    BY <2>7 DEF ControlDone, Send, DeviceResetReturn, Owners
  <2> QED
    BY <1>1, <2>1, <2>2, <2>3, <2>4, <2>5, <2>6, <2>7 DEF MsgStep
<1>2. ASSUME NEW t \in {"worker", "eh"}, ResetStep(t) PROVE MemoryInv'
  <2>1. CASE PortResetLock(t)
    BY <2>1 DEF PortResetLock, PortResetReturn, Owners
  <2>2. CASE PortResetTest(t)
    BY <2>2 DEF PortResetTest, PortResetReturn, UdevUnlock, Owners
  <2>3. CASE PreReset(t, "pr_pre", "pr_post")
    BY <2>3 DEF PreReset, Acquire, MutexFree, Owners
  <2>4. CASE PortResetPost(t)
    BY <2>4 DEF PortResetPost, PortResetReturn, UdevUnlock, Owners
  <2>5. CASE BulkReset(t)
    BY <2>5 DEF BulkReset, Send, DeviceResetReturn, BulkLabels, Owners
  <2> QED
    BY <1>2, <2>1, <2>2, <2>3, <2>4, <2>5 DEF ResetStep
<1>3. CASE Down \/ Lock \/ BeginTimedOut \/ Begin \/ NextMsg \/
          TransportDone \/ HandleErrors \/ Relock \/ Finish
  BY <1>3
     DEF Down, Lock, Acquire, MutexFree, BeginTimedOut, EndCommand,
         CompleteNotify, ClearAbort, ReleaseSrb, Begin, StartTransport,
         NextMsg, TransportDone, Verdict, HandleErrors, Relock, Finish,
         ScsiDone, Owners
<1>4. CASE Exit \/ CommandAbort \/ AbortReturns \/ DeviceReset \/ EhDone
  BY <1>4
     DEF Exit, HostPut, CommandAbort, AbortReturns, AwaitNotify, DeviceReset,
         PreReset, Acquire, MutexFree, EhDone, Owners
<1>5. CASE Probe
  BY <1>5 DEF Probe, HostGet, PhaseInv, Owners
<1>6. CASE AddHost \/ MaxLun \/ Bound \/ PreReset("core", "rst_pre",
          "rst_post") \/ CorePostReset \/ Disconnect \/ StopTransport \/
          Quiesce \/ RemoveHost
  BY <1>6
     DEF AddHost, MaxLun, Acquire, MutexFree, Bound, PreReset, CorePostReset,
         Disconnect, StopTransport, Quiesce, ScsiDone, ReleaseSrb, RemoveHost,
         Owners
<1>7. CASE FreeUpAll \/ CoreCalls("rst_pre") \/ CoreCalls("disc") \/
          ModExit
  BY <1>7 DEF FreeUpAll, WakeWorker, HostPut, CoreCalls, ModExit, Owners
<1>8. ASSUME NEW c \in Cmds, QueueCommand(c) \/ Expire(c) PROVE MemoryInv'
  BY <1>8 DEF QueueCommand, Expire, ScsiDone, WakeWorker, Owners
<1>9. ASSUME NEW r \in Requests, HcFinish(r) \/ HcUnlinked(r) PROVE MemoryInv'
  BY <1>9 DEF HcFinish, HcUnlinked, Owners
<1>10. CASE UNCHANGED vars
  BY <1>10 DEF vars, Owners
<1> QED
  BY <1>1, <1>2, <1>3, <1>4, <1>5, <1>6, <1>7, <1>8, <1>9, <1>10
     DEF Next, Worker, ErrorHandler, Core, Environment, Stopped

(* Every step keeps cancellations from being lost.                         *)
LEMMA CancelStep == TypeOK /\ IInv /\ [Next]_vars => CancelNotLost'
<1> SUFFICES ASSUME TypeOK, MutexInv, StageInv, IoInv, PhaseInv, CommandInv,
                    SrbInv, AbortInv, MemoryInv, CancelNotLost, [Next]_vars
             PROVE  CancelNotLost'
  BY DEF IInv
<1> USE DEF TypeOK, CancelNotLost, Goto, Threads, request, midlayer, memory,
            locks
<1>1. ASSUME NEW t \in Threads, MsgStep(t) PROVE CancelNotLost'
  <2>1. CASE Check(t)
    BY <2>1 DEF Check, Returned, KindsFor, Req
  <2>2. CASE Submit(t)
    BY <2>2, ReqType, OneOwner, HoldFacts DEF Submit, Returned, Req
  <2>3. CASE Mark(t)
    BY <2>3, ReqType DEF Mark, Req
  <2>4. CASE Recheck(t)
    BY <2>4, ReqType
       DEF Recheck, StoppedIo, Stopping, ABORTING_OR_DISCONNECTING, IoInv,
           PhaseInv, Disconnected, LateLabels, Req
  <2>5. CASE Wait(t)
    BY <2>5, ReqType DEF Wait, Returned, Req
  <2>6. CASE WaitTimeout(t)
    BY <2>6, ReqType DEF WaitTimeout, Returned, Req
  <2>7. CASE ControlDone(t)
    BY <2>7 DEF ControlDone, Send, DeviceResetReturn, Req
  <2> QED
    BY <1>1, <2>1, <2>2, <2>3, <2>4, <2>5, <2>6, <2>7 DEF MsgStep
<1>2. ASSUME NEW t \in {"worker", "eh"}, ResetStep(t) PROVE CancelNotLost'
  <2>1. CASE PortResetLock(t)
    BY <2>1 DEF PortResetLock, PortResetReturn, Req
  <2>2. CASE PortResetTest(t)
    BY <2>2 DEF PortResetTest, PortResetReturn, UdevUnlock, Req
  <2>3. CASE PreReset(t, "pr_pre", "pr_post")
    BY <2>3 DEF PreReset, Acquire, MutexFree, Req
  <2>4. CASE PortResetPost(t)
    BY <2>4 DEF PortResetPost, PortResetReturn, UdevUnlock, Req
  <2>5. CASE BulkReset(t)
    BY <2>5 DEF BulkReset, Send, DeviceResetReturn, Req
  <2> QED
    BY <1>2, <2>1, <2>2, <2>3, <2>4, <2>5 DEF ResetStep
<1>3. CASE Down \/ Lock \/ BeginTimedOut \/ Begin \/ NextMsg \/
          TransportDone \/ HandleErrors \/ Relock \/ Finish
  BY <1>3
     DEF Down, Lock, Acquire, MutexFree, BeginTimedOut, EndCommand,
         CompleteNotify, ClearAbort, ReleaseSrb, Begin, StartTransport,
         NextMsg, TransportDone, Verdict, HandleErrors, Relock, Finish,
         ScsiDone, Req
<1>4. CASE Exit
  BY <1>4 DEF Exit, HostPut, Req
<1>5. CASE CommandAbort
  BY <1>5, ReqType DEF CommandAbort, StoppedIo, ActiveBits, IoInv, Req
<1>6. CASE AbortReturns \/ DeviceReset \/ EhDone
  BY <1>6
     DEF AbortReturns, AwaitNotify, DeviceReset, PreReset, Acquire, MutexFree,
         EhDone, Req
<1>7. CASE Probe
  BY <1>7 DEF Probe, PhaseInv, EarlyLabels, Req
<1>8. CASE AddHost
  BY <1>8 DEF AddHost, PhaseInv, EarlyLabels, Req
<1>9. CASE MaxLun \/ Bound \/ PreReset("core", "rst_pre", "rst_post") \/
          CorePostReset \/ Disconnect
  BY <1>9
     DEF MaxLun, Acquire, MutexFree, Bound, PreReset, CorePostReset,
         Disconnect, Req
<1>10. CASE StopTransport
  BY <1>10, ReqType DEF StopTransport, StoppedIo, ActiveBits, IoInv, Req
<1>11. CASE Quiesce \/ RemoveHost \/ FreeUpAll \/ CoreCalls("rst_pre") \/
          CoreCalls("disc") \/ ModExit
  BY <1>11
     DEF Quiesce, MutexFree, ScsiDone, ReleaseSrb, RemoveHost, FreeUpAll,
         WakeWorker, HostPut, CoreCalls, ModExit, Req
<1>12. ASSUME NEW c \in Cmds, QueueCommand(c) \/ Expire(c) PROVE CancelNotLost'
  BY <1>12 DEF QueueCommand, Expire, Req
<1>13. ASSUME NEW r \in Requests, HcFinish(r) \/ HcUnlinked(r) PROVE CancelNotLost'
  BY <1>13, ReqType DEF HcFinish, HcUnlinked, Req
<1>14. CASE UNCHANGED vars
  BY <1>14 DEF vars, Req
<1> QED
  BY <1>1, <1>2, <1>3, <1>4, <1>5, <1>6, <1>7, <1>8, <1>9, <1>10, <1>11, <1>12,
     <1>13, <1>14
     DEF Next, Worker, ErrorHandler, Core, Environment, Stopped

-----------------------------------------------------------------------------
(* The theorems.                                                           *)

(* The invariant holds at the start of storage_probe.                      *)
LEMMA IInvInit == Init => IInv
BY CmdsAssumption
   DEF Init, IInv, MutexInv, StageInv, IoInv, PhaseInv, CommandInv, SrbInv,
       AbortInv, MemoryInv, CancelNotLost, CommandThere, Disconnected, Owners,
       HoldLabels, MsgLabels, BulkLabels, EarlyLabels, LateLabels, Threads,
       Free, Requests

(* The invariant is inductive.                                             *)
THEOREM Inductive == Spec => [](TypeOK /\ IInv)
<1>1. Init => TypeOK /\ IInv
  BY TypeInit, IInvInit
<1>2. TypeOK /\ IInv /\ [Next]_vars => TypeOK' /\ IInv'
  BY TypeStep, MutexStep, StageStep, IoStep, PhaseStep, CommandStep, SrbStep,
     AbortStep, MemoryStep, CancelStep
     DEF IInv
<1> QED
  BY <1>1, <1>2, PTL DEF Spec

(* Every variable of the driver stays within its type: in particular the   *)
(* counters us->sema, us->notify and the references to the Scsi_Host never *)
(* go below zero.                                                          *)
THEOREM TypeCorrect == Spec => []TypeOK
BY Inductive, PTL

(* USB requests are sent only with dev_mutex held, and never while another *)
(* one is in flight, although Handle_Errors gives the mutex up in the      *)
(* middle of a command.                                                    *)
THEOREM RequestsExclusive == Spec => []RequestUnderMutex
<1>1. TypeOK /\ IInv => RequestUnderMutex
  <2> SUFFICES ASSUME TypeOK, IInv, NEW t \in Threads
               PROVE  /\ pc[t] \in MsgLabels => dev_mutex = t
                      /\ pc[t] = "submit" => \A r \in Requests : io[r] = "idle"
    BY DEF RequestUnderMutex
  <2>1. pc[t] \in MsgLabels => dev_mutex = t
    BY DEF IInv, MutexInv, HoldLabels
  <2>2. ASSUME pc[t] = "submit", NEW r \in Requests PROVE io[r] = "idle"
    <3>1. ASSUME NEW u \in Threads, pc[u] \in {"mark", "recheck", "wait"}
          PROVE  FALSE
      BY <2>2, <3>1, OneOwner, HoldFacts DEF IInv
    <3> QED
      BY <3>1 DEF IInv, IoInv
  <2> QED
    BY <2>1, <2>2
<1> QED
  BY <1>1, Inductive, PTL

(* No cancellation is lost, however the submission of a request is         *)
(* interleaved with an abort or a disconnect.                              *)
THEOREM CancellationCorrect == Spec => []CancelNotLost
<1>1. IInv => CancelNotLost
  BY DEF IInv
<1> QED
  BY <1>1, Inductive, PTL

(* The control thread always finds the command it was woken for.           *)
THEOREM WorkerFindsCommand == Spec => []CommandThere
<1>1. IInv => CommandThere
  BY DEF IInv, SrbInv
<1> QED
  BY <1>1, Inductive, PTL

(* Ownership of commands: us->srb is always a command the midlayer still   *)
(* waits for, none is answered twice, and queuecommand never has to refuse *)
(* one.                                                                    *)
THEOREM CommandsOwned ==
    Spec => [](OwnsOnlyOutstanding /\ AnsweredAtMostOnce /\ NeverBusy)
<1>1. TypeOK /\ IInv => OwnsOnlyOutstanding /\ AnsweredAtMostOnce
  BY DEF IInv, CommandInv, OwnsOnlyOutstanding, AnsweredAtMostOnce
<1>2. TypeOK /\ IInv => NeverBusy
  BY DEF TypeOK, IInv, CommandInv, NeverBusy, MayIssue, Outstanding
<1> QED
  BY <1>1, <1>2, Inductive, PTL

(* The handshake of command_abort with the control thread leaves neither a *)
(* stale abort bit nor a stale completion for the next command.            *)
THEOREM AbortCorrect == Spec => [](NotifyMatchesAbort /\ NoStaleAbort)
<1>1. TypeOK /\ IInv => NotifyMatchesAbort /\ NoStaleAbort
  BY DEF TypeOK, IInv, AbortInv, NotifyMatchesAbort, NoStaleAbort,
         Disconnected
<1> QED
  BY <1>1, Inductive, PTL

(* What FreeUpAll frees is no longer in use.                               *)
THEOREM MemorySafe == Spec => []NoUseAfterFree
<1>1. TypeOK /\ IInv => NoUseAfterFree
  <2> SUFFICES ASSUME TypeOK, IInv PROVE NoUseAfterFree
    OBVIOUS
  <2>1. ASSUME NEW t \in Threads, pc[t] \in MsgLabels PROVE res = Resources
    <3>1. CASE t = "core"
      BY <2>1, <3>1 DEF IInv, MemoryInv, MsgLabels
    <3>2. CASE t \in {"worker", "eh"}
      <4>1. pc["core"] \notin {"probe", "free", "gone", "unloaded"}
        BY <2>1, <3>2
           DEF IInv, PhaseInv, Disconnected, EarlyLabels, LateLabels, MsgLabels
      <4> QED
        BY <4>1 DEF IInv, MemoryInv
    <3> QED
      BY <3>1, <3>2 DEF Threads
  <2>2. pc["worker"] \notin {"unborn", "exited"} => hostRefs > 0
    BY DEF TypeOK, IInv, MemoryInv, Owners
  <2>3. \A r \in Requests : io[r] \in {"flying", "unlinked"} => res = Resources
    BY <2>1 DEF IInv, IoInv, MsgLabels
  <2> QED
    BY <2>1, <2>2, <2>3 DEF NoUseAfterFree
<1> QED
  BY <1>1, Inductive, PTL

(* When the driver is gone everything it acquired is given back, however   *)
(* far storage_probe got.                                                  *)
THEOREM NothingIsLeaked == Spec => []NothingLeaked
<1>1. TypeOK /\ IInv => NothingLeaked
  BY DEF IInv, MemoryInv, Owners, NothingLeaked
<1> QED
  BY <1>1, Inductive, PTL

(* Once a command is back in the midlayer's hands it is not answered.      *)
THEOREM NotAnsweredLate == Spec => NoAnswerAfterFinish
<1>1. TypeOK /\ IInv /\ [Next]_vars
      => [\A c \in Cmds : cmd[c] = "finished" => answers'[c] = answers[c]]_vars
  <2> SUFFICES ASSUME TypeOK, IInv, [Next]_vars, NEW c \in Cmds,
                      cmd[c] = "finished"
               PROVE  answers'[c] = answers[c]
    OBVIOUS
  <2>1. CASE Finish \/ Quiesce
    BY <2>1 DEF Finish, Quiesce, ScsiDone, TypeOK, IInv, CommandInv
  <2>2. ASSUME NEW d \in Cmds, QueueCommand(d)
        PROVE  answers'[c] = answers[c]
    BY <2>2 DEF QueueCommand, ScsiDone, MayIssue, TypeOK
  <2>3. CASE ~(Finish \/ Quiesce \/ \E d \in Cmds : QueueCommand(d))
    BY <2>3
       DEF Next, Worker, ErrorHandler, Core, Environment, Stopped, MsgStep,
           ResetStep, Check, Submit, Mark, Recheck, Wait, WaitTimeout,
           ControlDone, PortResetLock, PortResetTest, PreReset, PortResetPost,
           BulkReset, Down, Lock, BeginTimedOut, Begin, NextMsg,
           TransportDone, HandleErrors, Relock, Exit, CommandAbort,
           AbortReturns, DeviceReset, EhDone, Probe, AddHost, MaxLun, Bound,
           CorePostReset, Disconnect, StopTransport, RemoveHost, FreeUpAll,
           Expire, HcFinish, HcUnlinked, CoreCalls, ModExit, midlayer, vars
  <2> QED
    BY <2>1, <2>2, <2>3
<1> QED
  BY <1>1, Inductive, PTL DEF Spec, NoAnswerAfterFinish

-----------------------------------------------------------------------------
(* UsbStorage implements ScsiService: every step of the driver is one step *)
(* of the service or leaves it unchanged.                                  *)


(* How the two ways to change the service's state look.                    *)
LEMMA ServiceStutter ==
    ASSUME cmd' = cmd, srb' = srb, answers' = answers,
           Disconnected' = Disconnected
    PROVE  UNCHANGED Service!vars
BY DEF Service!vars, Answered

LEMMA OneMoreAnswer ==
    ASSUME TypeOK, NEW c \in Cmds, answers' = [answers EXCEPT ![c] = @ + 1]
    PROVE  Answered' = Answered \cup {c}
BY DEF TypeOK, Answered

(* The steps in which the driver lets go of a command.                     *)
LEMMA FinishServes ==
    ASSUME TypeOK, IInv, Finish
    PROVE  [Service!Next]_(Service!vars)
<1>1. /\ Disconnected' = Disconnected
      /\ srb' = NoCmd
  BY DEF Finish, EndCommand, ClearAbort, ReleaseSrb, Disconnected
<1>2. CASE srb # NoCmd /\ result # "ABORT"
  <2>1. /\ srb \in Cmds
        /\ srb \notin Answered
        /\ answers' = [answers EXCEPT ![srb] = @ + 1]
        /\ cmd' = [cmd EXCEPT ![srb] = IF @ = "expired" THEN @ ELSE "finished"]
        /\ cmd[srb] \in {"issued", "expired"}
    BY <1>2 DEF Finish, ScsiDone, TypeOK, IInv, CommandInv, Answered
  <2>2. cmd' = [cmd EXCEPT ![srb] = IF @ = "issued" THEN "finished" ELSE @]
    BY <2>1 DEF TypeOK
  <2>3. Service!Answer
    BY <1>1, <1>2, <2>1, <2>2, OneMoreAnswer DEF Service!Answer
  <2> QED
    BY <2>3 DEF Service!Next
<1>3. CASE srb # NoCmd /\ result = "ABORT"
  <2>1. cmd[srb] = "expired"
    BY <1>3 DEF TypeOK, IInv, AbortInv, CommandInv
  <2>2. Service!Drop
    BY <1>1, <1>3, <2>1 DEF Finish, Service!Drop, Answered
  <2> QED
    BY <2>2 DEF Service!Next
<1>4. CASE srb = NoCmd
  BY <1>1, <1>4, ServiceStutter DEF Finish
<1> QED
  BY <1>2, <1>3, <1>4

LEMMA BeginTimedOutServes ==
    ASSUME TypeOK, IInv, BeginTimedOut
    PROVE  [Service!Next]_(Service!vars)
<1>1. /\ Disconnected' = Disconnected
      /\ srb # NoCmd
      /\ cmd[srb] = "expired"
  BY DEF BeginTimedOut, EndCommand, ClearAbort, Disconnected, TypeOK, IInv,
         AbortInv, CommandInv, SrbInv, CommandThere
<1>2. Service!Drop
  BY <1>1
     DEF BeginTimedOut, EndCommand, ReleaseSrb, midlayer, Service!Drop, Answered
<1> QED
  BY <1>2 DEF Service!Next

LEMMA QuiesceServes ==
    ASSUME TypeOK, IInv, Quiesce
    PROVE  [Service!Next]_(Service!vars)
<1>1. Disconnected' = Disconnected
  BY DEF Quiesce, Disconnected
<1>2. CASE srb # NoCmd
  <2>1. /\ srb \in Cmds
        /\ srb \notin Answered
        /\ answers' = [answers EXCEPT ![srb] = @ + 1]
        /\ cmd' = [cmd EXCEPT ![srb] = IF @ = "expired" THEN @ ELSE "finished"]
        /\ cmd[srb] \in {"issued", "expired"}
        /\ srb' = NoCmd
    BY <1>2
       DEF Quiesce, ScsiDone, ReleaseSrb, TypeOK, IInv, CommandInv, Answered
  <2>2. cmd' = [cmd EXCEPT ![srb] = IF @ = "issued" THEN "finished" ELSE @]
    BY <2>1 DEF TypeOK
  <2>3. Service!Answer
    BY <1>1, <1>2, <2>1, <2>2, OneMoreAnswer DEF Service!Answer
  <2> QED
    BY <2>3 DEF Service!Next
<1>3. CASE srb = NoCmd
  BY <1>1, <1>3, ServiceStutter DEF Quiesce
<1> QED
  BY <1>2, <1>3

(* The midlayer's side.                                                    *)
LEMMA MidlayerServes ==
    ASSUME TypeOK, IInv, NEW c \in Cmds,
           QueueCommand(c) \/ Expire(c) \/ EhDone
    PROVE  [Service!Next]_(Service!vars)
<1>1. CASE QueueCommand(c) /\ Disconnected
  <2>1. Answered' = Answered \cup {c}
    BY <1>1, OneMoreAnswer DEF QueueCommand, ScsiDone
  <2>2. Service!Refuse(c)
    BY <1>1, <2>1
       DEF QueueCommand, ScsiDone, MayIssue, Outstanding, TypeOK,
           Disconnected, Service!Refuse, Service!Quiet
  <2> QED
    BY <2>2 DEF Service!Next
<1>2. CASE QueueCommand(c) /\ ~Disconnected
  <2>1. Service!Accept(c)
    BY <1>2
       DEF QueueCommand, MayIssue, Outstanding, TypeOK, Answered,
           Disconnected, Service!Accept, Service!Quiet
  <2> QED
    BY <2>1 DEF Service!Next
<1>3. CASE Expire(c)
  <2>1. Service!Expire(c)
    BY <1>3 DEF Expire, Answered, Disconnected, Service!Expire
  <2> QED
    BY <2>1 DEF Service!Next
<1>4. CASE EhDone
  <2>1. Service!TakeBack(ehcmd) /\ ehcmd \in Cmds
    BY <1>4
       DEF EhDone, TypeOK, IInv, CommandInv, AbortInv, Answered,
           Disconnected, memory, Service!TakeBack
  <2> QED
    BY <2>1 DEF Service!Next
<1> QED
  BY <1>1, <1>2, <1>3, <1>4

(* Every step of the driver.                                               *)
LEMMA ServiceStep ==
    TypeOK /\ IInv /\ [Next]_vars => [Service!Next]_(Service!vars)
<1> SUFFICES ASSUME TypeOK, IInv, [Next]_vars
             PROVE  [Service!Next]_(Service!vars)
  OBVIOUS
<1> USE ServiceStutter
        DEF  Threads, request, midlayer, memory, locks, Disconnected
<1>1. ASSUME NEW t \in Threads, MsgStep(t)
      PROVE  [Service!Next]_(Service!vars)
  <2>1. CASE Check(t)
    BY <2>1 DEF Check, Returned, KindsFor
  <2>2. CASE Submit(t)
    BY <2>2 DEF Submit, Returned
  <2>3. CASE Mark(t)
    BY <2>3, ReqType DEF Mark
  <2>4. CASE Recheck(t)
    BY <2>4, ReqType DEF Recheck
  <2>5. CASE Wait(t)
    BY <2>5, ReqType DEF Wait, Returned
  <2>6. CASE WaitTimeout(t)
    BY <2>6 DEF WaitTimeout, Returned
  <2>7. CASE ControlDone(t)
    BY <2>7 DEF ControlDone, Send, DeviceResetReturn
  <2> QED
    BY <1>1, <2>1, <2>2, <2>3, <2>4, <2>5, <2>6, <2>7 DEF MsgStep
<1>2. ASSUME NEW t \in {"worker", "eh"}, ResetStep(t)
      PROVE  [Service!Next]_(Service!vars)
  <2>1. CASE PortResetLock(t)
    BY <2>1 DEF PortResetLock, PortResetReturn
  <2>2. CASE PortResetTest(t)
    BY <2>2 DEF PortResetTest, PortResetReturn, UdevUnlock
  <2>3. CASE PreReset(t, "pr_pre", "pr_post")
    BY <2>3 DEF PreReset, Acquire, MutexFree
  <2>4. CASE PortResetPost(t)
    BY <2>4 DEF PortResetPost, PortResetReturn, UdevUnlock
  <2>5. CASE BulkReset(t)
    BY <2>5 DEF BulkReset, Send, DeviceResetReturn
  <2> QED
    BY <1>2, <2>1, <2>2, <2>3, <2>4, <2>5 DEF ResetStep
<1>3. CASE Down \/ Lock
  BY <1>3 DEF Down, Lock, Acquire, MutexFree
<1>4. CASE BeginTimedOut
  BY <1>4, BeginTimedOutServes
<1>5. CASE Begin \/ NextMsg \/ TransportDone \/ HandleErrors \/ Relock
  BY <1>5
     DEF Begin, StartTransport, NextMsg, TransportDone, Verdict, HandleErrors,
         Relock, Acquire, MutexFree
<1>6. CASE Finish
  BY <1>6, FinishServes
<1>7. CASE Exit
  BY <1>7 DEF Exit, HostPut
<1>8. CASE CommandAbort
  BY <1>8 DEF CommandAbort, ActiveBits
<1>9. CASE AbortReturns \/ DeviceReset
  BY <1>9
     DEF AbortReturns, AwaitNotify, DeviceReset, PreReset, Acquire, MutexFree
<1>10. CASE EhDone
  BY <1>10, MidlayerServes DEF EhDone, TypeOK, IInv, CommandInv
<1>11. CASE Probe \/ AddHost \/ MaxLun \/ Bound \/ PreReset("core",
          "rst_pre", "rst_post") \/ CorePostReset
  BY <1>11
     DEF Probe, HostGet, AddHost, MaxLun, Acquire, MutexFree, Bound, PreReset,
         CorePostReset
<1>12. CASE Disconnect
  BY <1>12 DEF Disconnect, Answered, Service!Next, Service!Unplug
<1>13. CASE StopTransport
  BY <1>13 DEF StopTransport, ActiveBits
<1>14. CASE Quiesce
  BY <1>14, QuiesceServes
<1>15. CASE RemoveHost
  BY <1>15 DEF RemoveHost
<1>16. CASE FreeUpAll
  BY <1>16 DEF FreeUpAll, Answered, Service!Next, Service!Unplug
<1>17. CASE CoreCalls("rst_pre") \/ CoreCalls("disc") \/ ModExit
  BY <1>17 DEF CoreCalls, ModExit
<1>18. ASSUME NEW c \in Cmds, QueueCommand(c) \/ Expire(c)
       PROVE  [Service!Next]_(Service!vars)
  BY <1>18, MidlayerServes
<1>19. ASSUME NEW r \in Requests, HcFinish(r) \/ HcUnlinked(r)
       PROVE  [Service!Next]_(Service!vars)
  BY <1>19 DEF HcFinish, HcUnlinked
<1>20. CASE UNCHANGED vars
  BY <1>20 DEF vars
<1> QED
  BY <1>1, <1>2, <1>3, <1>4, <1>5, <1>6, <1>7, <1>8, <1>9, <1>10, <1>11, <1>12,
     <1>13, <1>14, <1>15, <1>16, <1>17, <1>18, <1>19, <1>20
     DEF Next, Worker, ErrorHandler, Core, Environment, Stopped

(* For any set of commands, the driver implements the service.             *)
THEOREM Implements == Spec => ImplementsService
<1>1. Init => Service!Init
  BY DEF Init, Service!Init, Answered, Disconnected
<1>2. TypeOK /\ IInv /\ [Next]_vars => [Service!Next]_(Service!vars)
  BY ServiceStep
<1> QED
  BY <1>1, <1>2, Inductive, PTL DEF Spec, ImplementsService, Service!Spec
=============================================================================

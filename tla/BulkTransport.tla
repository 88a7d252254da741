---------------------------- MODULE BulkTransport ----------------------------
(***************************************************************************)
(* How src/usb-module/csk_udisk_mgr.c carries one SCSI command at a time   *)
(* over the Bulk-only transport: command wrapper, data, status wrapper,    *)
(* the automatic REQUEST SENSE, and the resets after an error.  The device *)
(* at the other end is modelled with what the code defends against: short, *)
(* long, stalled and failed transfers, empty packets before a status,      *)
(* nonsense residues and signatures, resets that fail.                     *)
(*                                                                         *)
(* A transfer is one action: cancelling a request is the subject of module *)
(* UsbStorage, and here a transfer of an aborted command fails.  No entry  *)
(* of storage_usb_ids sets a flag, so the branches for US_FL_IGNORE_RESIDUE*)
(* and US_FL_SCM_MULT_TARG are never taken.                                *)
(***************************************************************************)
EXTENDS Integers

CONSTANTS
    Lengths,      (* how much data a command may transfer                    *)
    SenseSize,    (* US_SENSE_SIZE                                           *)
    Signatures,   (* of status wrappers; the device may confuse them         *)
    MaxCommands   (* commands that are sent (a bound)                        *)

ASSUME LengthsAssumption ==
    /\ Lengths \subseteq Nat /\ 0 \in Lengths        \* TEST UNIT READY
    /\ SenseSize \in Nat \ {0}
    /\ 0 \notin Signatures
    /\ MaxCommands \in Nat
(* There is a longest transfer: the lengths are unsigned ints.             *)
ASSUME LongestAssumption ==
    \E n \in Lengths \cup {SenseSize} : \A m \in Lengths \cup {SenseSize} : m <= n

VARIABLES
    stage,        (* the transfer or the step that comes next                *)
    asked,        (* the request as queued, and its underflow                *)
    request,      (* the same fields of srb now                              *)
    sensing,      (* the automatic REQUEST SENSE is under way                *)
    old,          (* the old_... variables: the request and resid            *)
    resid,
    result,
    sense,        (* whose sense data srb->sense_buffer holds                *)
    sensebuf,     (* whose sense data us->sensebuf holds                     *)
    tag,          (* us->tag                                                 *)
    bcs_signature,
    fake_sense,
    transport,    (* what usb_stor_Bulk_transport returned                   *)
    timed_out,    (* US_FLIDX_TIMED_OUT                                      *)
    number,       (* which command this is                                   *)
    dev,          (* the device                                              *)
    lame,         (* the last recovery failed (history)                      *)
    truth         (* what the device did with the command (history)          *)

srb    == <<asked, request, resid, result, sense>>
us     == <<sensebuf, tag, bcs_signature, timed_out>>
local  == <<sensing, old, fake_sense, transport>>
device == <<dev, lame, truth>>
vars   == <<stage, srb, us, local, number, device>>

Smaller(a, b) == IF a < b THEN a ELSE b
Larger(a, b)  == IF a > b THEN a ELSE b

Nonsense == 1 + CHOOSE n \in Lengths \cup {SenseSize} :
                  \A m \in Lengths \cup {SenseSize} : m <= n
Garbage == -1..Nonsense              (* values of an uninitialized residual *)

REQUEST_SENSE == [cdb |-> "sense", dir |-> "in", length |-> SenseSize]
Requests == [cdb : {"own"}, dir : {"in", "out"}, length : Lengths]

-----------------------------------------------------------------------------
(* The device.  It means to transfer "want" units with a command, gets     *)
(* "used" done while "moved" go over the wire, and answers with a status.  *)
(* The transports that end without its taking part leave it as it is.      *)
Fresh == [phase |-> "command", tag |-> 0, dir |-> "in", length |-> 0,
          want |-> 0, used |-> 0, moved |-> 0, status |-> "ok",
          empty |-> FALSE]

NotServed == [status |-> "none", used |-> 0, moved |-> 0, residue |-> 0]

Takes(d, t) ==
    [phase : {IF request.length = 0 THEN "status" ELSE "data"}, tag : {t},
     dir : {request.dir}, length : {request.length}, want : 0..Nonsense,
     used : {0}, moved : {0}, status : {"ok", "fail", "phase"}, empty : BOOLEAN]

Out(xfer, partial, d) == [xfer |-> xfer, partial |-> partial, dev |-> d]
Failures == [xfer : {"error", "stalled"}, partial : {0}, dev : {dev}]

(* A wrapper sent out of turn is refused, or swallowed as data.            *)
CbwOutcomes ==
    Failures \cup
    CASE dev.phase = "command" ->
             {Out("good", 0, d) : d \in Takes(dev, tag)}
             \cup {Out("error", 0, d) : d \in Takes(dev, tag)}
      [] dev.phase = "data" /\ dev.dir = "out" ->
             {Out("good", 0, [dev EXCEPT !.phase = "status"])}
      [] OTHER -> {}

(* Data, of which the device uses what it wants and as much as there is;   *)
(* if it wants less it ends the stage with a short packet or a stall, or   *)
(* pads or swallows the rest, and if it sends more the host sees a babble. *)
DataOutcomes ==
    LET n       == Smaller(dev.want, request.length)
        then(m) == [dev EXCEPT !.phase = "status", !.used = n, !.moved = m]
    IN  Failures \cup
        CASE dev.phase = "data" /\ dev.dir = request.dir ->
                 {Out("error", k, then(k)) : k \in 0..n}
                 \cup
                 IF dev.want < request.length
                 THEN {Out("stalled", n, then(n)),
                       Out("good", request.length, then(request.length))}
                      \cup IF request.dir = "in"
                           THEN {Out("short", n, then(n))} ELSE {}
                 ELSE {Out("good", n, then(n))}
                      \cup IF request.dir = "in" /\ dev.want > n
                           THEN {Out("long", n, then(n))} ELSE {}
          [] dev.phase = "status" /\ request.dir = "in" ->
                 {Out(x, 0, [dev EXCEPT !.phase = "command"])
                    : x \in {"short", "long"}}
          [] OTHER -> {}

(* The status wrapper, perhaps after an empty packet or a stall, with a    *)
(* residue that may be anything; a device that owes none never answers.    *)
Statuses(d) ==
    [tag : {d.tag}, status : {d.status}, residue : 0..Nonsense,
     signature : Signatures]
NoStatus == [status |-> "none", residue |-> 0]

CswOutcomes ==
    LET after == [dev EXCEPT !.phase = "command"] IN
    {[out |-> o, csw |-> NoStatus] : o \in Failures} \cup
    CASE dev.phase = "status" /\ dev.empty ->
             {[out |-> Out("short", 0, [dev EXCEPT !.empty = FALSE]),
               csw |-> NoStatus]}
      [] dev.phase = "status" /\ ~dev.empty ->
             {[out |-> Out("good", 1, after), csw |-> c] : c \in Statuses(dev)}
             \cup {[out |-> Out(x, 1, after), csw |-> NoStatus]
                     : x \in {"short", "long", "error"}}
      [] OTHER -> {}

-----------------------------------------------------------------------------
Init ==
    /\ stage = "idle"
    /\ asked = [cdb |-> "own", dir |-> "in", length |-> 0, underflow |-> 0,
                tag |-> 0]
    /\ request = [cdb |-> "own", dir |-> "in", length |-> 0]
    /\ resid = 0
    /\ sensing = FALSE
    /\ old = [request |-> request, resid |-> resid]
    /\ result = "none"
    /\ sense = "none"
    /\ sensebuf = 0
    /\ tag = 0
    /\ bcs_signature = 0
    /\ fake_sense = FALSE
    /\ transport = "none"
    /\ timed_out = FALSE
    /\ number = 0
    /\ dev = Fresh
    /\ lame = FALSE
    /\ truth = NotServed

(* The definitions named Kept, Unchecked, Ignored, Uncapped, Forgotten or  *)
(* Skipped are faulty variants that only serve to test the properties.     *)
NextTag == tag' = tag + 1

(* usb_stor_Bulk_transport is entered.                                     *)
BulkTransport ==
    /\ NextTag
    /\ fake_sense' = FALSE
    /\ transport' = "none"
    /\ stage' = "cbw"

Returns(t) == transport' = t /\ stage' = "returned"

(* A command is given to usb_stor_invoke_transport.                        *)
Invoke ==
    /\ stage = "idle"
    /\ number < MaxCommands
    /\ number' = number + 1
    /\ \E r \in Requests : \E u \in 0..r.length :
         /\ request' = r
         /\ asked' = [cdb |-> r.cdb, dir |-> r.dir, length |-> r.length,
                      underflow |-> u, tag |-> tag + 1]
    /\ resid' = 0
    /\ result' = "none"
    /\ sense' = "none"
    /\ timed_out' = FALSE
    /\ truth' = NotServed
    /\ BulkTransport
    /\ UNCHANGED <<sensing, old, sensebuf, bcs_signature, dev, lame>>

(* What a request of an aborted command gets.                              *)
May(o) == timed_out => o.xfer = "error" /\ o.dev = dev

SendCbw ==
    /\ stage = "cbw"
    /\ \E o \in CbwOutcomes :
         /\ May(o)
         /\ dev' = o.dev
         /\ \/ /\ o.xfer = "good"
               /\ stage' = IF request.length > 0 THEN "data" ELSE "csw"
               /\ UNCHANGED transport
            \/ o.xfer # "good" /\ Returns("error")
    /\ UNCHANGED <<srb, us, sensing, old, fake_sense, number, lame, truth>>

(* A transfer that was not started leaves "partial" unset.                 *)
Residuals(o) ==
    {request.length - o.partial} \cup IF o.xfer = "error" THEN Garbage ELSE {}

TransferData ==
    /\ stage = "data"
    /\ \E o \in DataOutcomes :
         /\ May(o)
         /\ dev' = o.dev
         /\ resid' \in Residuals(o)
         /\ sensebuf' = IF sensing /\ o.partial > 0 THEN number ELSE sensebuf
         /\ \/ o.xfer = "error" /\ Returns("error") /\ UNCHANGED fake_sense
            \/ /\ o.xfer # "error"
               /\ fake_sense' = (o.xfer = "long")
               /\ stage' = "csw"
               /\ UNCHANGED transport
    /\ UNCHANGED <<asked, request, result, sense, tag, bcs_signature,
                   timed_out, sensing, old, number, lame, truth>>

TagUnchecked(csw) == TRUE
TagMatches(csw) == csw.tag = tag

ResidueIgnored(csw) == UNCHANGED resid
ResidueUncapped(csw) == resid' = Larger(resid, csw.residue)
TakeResidue(csw) ==
    resid' = Larger(resid, Smaller(csw.residue, request.length))

(* The status wrapper has arrived.                                         *)
CheckStatus(csw) ==
    \/ /\ ~TagMatches(csw)
       /\ Returns("error")
       /\ UNCHANGED <<bcs_signature, resid>>
    \/ /\ TagMatches(csw)
       /\ bcs_signature \notin {0, csw.signature}
       /\ Returns("error")
       /\ UNCHANGED <<bcs_signature, resid>>
    \/ /\ TagMatches(csw)
       /\ bcs_signature \in {0, csw.signature}
       /\ bcs_signature' = csw.signature
       /\ TakeResidue(csw)
       /\ \/ csw.status = "ok" /\ fake_sense /\ Returns("no sense")
          \/ csw.status = "ok" /\ ~fake_sense /\ Returns("good")
          \/ csw.status = "fail" /\ Returns("failed")
          \/ csw.status = "phase" /\ Returns("error")

(* An empty packet is skipped once, and a stall is overcome once.          *)
ReadCsw ==
    /\ stage \in {"csw", "csw after empty", "csw after stall"}
    /\ \E c \in CswOutcomes :
         /\ May(c.out)
         /\ dev' = c.out.dev
         /\ truth' = IF dev.phase = "status" /\ dev'.phase = "command"
                        /\ dev.tag = asked.tag
                     THEN [status |-> dev.status, used |-> dev.used,
                           moved |-> dev.moved, residue |-> c.csw.residue]
                     ELSE truth
         /\ \/ c.out.xfer = "good" /\ CheckStatus(c.csw)
            \/ /\ c.out.xfer = "short" /\ c.out.partial = 0
               /\ stage = "csw"
               /\ stage' = "csw after empty"
               /\ UNCHANGED <<bcs_signature, resid, transport>>
            \/ /\ c.out.xfer = "stalled" /\ stage # "csw after stall"
               /\ stage' = "csw after stall"
               /\ UNCHANGED <<bcs_signature, resid, transport>>
            \/ /\ \/ c.out.xfer \in {"error", "long"}
                  \/ c.out.xfer = "stalled" /\ stage = "csw after stall"
                  \/ /\ c.out.xfer = "short"
                     /\ c.out.partial > 0 \/ stage # "csw"
               /\ Returns("error")
               /\ UNCHANGED <<bcs_signature, resid>>
    /\ UNCHANGED <<asked, request, result, sense, sensebuf, tag, timed_out,
                   sensing, old, fake_sense, number, lame>>

-----------------------------------------------------------------------------
(* The rest of usb_stor_invoke_transport.                                  *)

HandleErrors(r) == result' = r /\ stage' = "port reset"
Finish(r) == result' = r /\ stage' = "idle"

UnderflowUnchecked == FALSE
Underflow == request.length - resid < asked.underflow

(* The fields of the command are replaced by those of a REQUEST SENSE.     *)
AutoSense ==
    /\ old' = [request |-> request, resid |-> resid]
    /\ sensing' = TRUE
    /\ request' = REQUEST_SENSE
    /\ resid' = 0
    /\ BulkTransport
    /\ UNCHANGED <<result, sense>>

(* The main transport has returned.                                        *)
Verdict ==
    /\ stage = "returned" /\ ~sensing
    /\ \/ /\ \/ timed_out /\ HandleErrors("abort")
             \/ ~timed_out /\ transport = "error" /\ HandleErrors("error")
             \/ /\ ~timed_out /\ transport = "good"
                /\ Finish(IF Underflow THEN "retry" ELSE "good")
          /\ UNCHANGED <<request, resid, sense, tag, local>>
       \/ /\ ~timed_out /\ transport = "no sense"
          /\ sense' = "invalid CDB"
          /\ Finish("check condition")
          /\ UNCHANGED <<request, resid, tag, local>>
       \/ ~timed_out /\ transport = "failed" /\ AutoSense
    /\ UNCHANGED <<asked, sensebuf, bcs_signature, timed_out, number, device>>

Restore == request' = old.request

(* The transport of the auto-sense has returned.                           *)
SenseVerdict ==
    /\ stage = "returned" /\ sensing
    /\ Restore
    /\ resid' = old.resid
    /\ sensing' = FALSE
    /\ sense' = IF sensebuf = number THEN "own" ELSE "stale"
    /\ \/ timed_out /\ HandleErrors("abort")
       \/ ~timed_out /\ transport # "good" /\ HandleErrors("error")
       \/ ~timed_out /\ transport = "good" /\ Finish("check condition")
    /\ UNCHANGED <<asked, us, old, fake_sense, transport, number, device>>

(* Handle_Errors: a port reset, and a class-specific one if that fails.    *)
ResetSkipped ==
    /\ stage' = "idle"
    /\ UNCHANGED <<dev, lame>>
PortReset ==
    \/ stage' = "idle" /\ dev' = Fresh /\ lame' = FALSE
    \/ stage' = "bulk reset" /\ UNCHANGED <<dev, lame>>

HandlePortReset ==
    /\ stage = "port reset"
    /\ PortReset
    /\ UNCHANGED <<srb, us, local, number, truth>>

BulkReset ==
    /\ stage = "bulk reset"
    /\ stage' = "idle"
    /\ \/ dev' = Fresh /\ lame' = FALSE
       \/ dev' \in {dev, Fresh} /\ lame' = TRUE
    /\ UNCHANGED <<srb, us, local, number, truth>>

(* command_abort.                                                          *)
Abort ==
    /\ stage \notin {"idle", "port reset", "bulk reset"}
    /\ ~timed_out
    /\ timed_out' = TRUE
    /\ UNCHANGED <<stage, srb, sensebuf, tag, bcs_signature, local, number,
                   device>>

Done == stage = "idle" /\ number = MaxCommands /\ UNCHANGED vars

Next ==
    \/ Invoke \/ SendCbw \/ TransferData \/ ReadCsw
    \/ Verdict \/ SenseVerdict
    \/ HandlePortReset \/ BulkReset
    \/ Abort \/ Done

Spec == Init /\ [][Next]_vars

-----------------------------------------------------------------------------
Stages == {"idle", "cbw", "data", "csw", "csw after empty", "csw after stall",
           "returned", "port reset", "bulk reset"}
DevStatus == {"ok", "fail", "phase"}

TypeOK ==
    /\ stage \in Stages
    /\ asked.length \in Lengths /\ asked.underflow \in 0..asked.length
    /\ request \in Requests \cup {REQUEST_SENSE}
    /\ sensing \in BOOLEAN
    /\ old \in [request : Requests, resid : Garbage]
    /\ resid \in Garbage
    /\ result \in {"none", "good", "retry", "check condition", "error",
                   "abort"}
    /\ sense \in {"none", "invalid CDB", "own", "stale"}
    /\ number \in 0..MaxCommands
    /\ sensebuf \in 0..number
    /\ tag \in number..2 * number
    /\ bcs_signature \in {0} \cup Signatures
    /\ transport \in {"none", "good", "failed", "no sense", "error"}
    /\ fake_sense \in BOOLEAN /\ timed_out \in BOOLEAN /\ lame \in BOOLEAN
    /\ dev.phase \in {"command", "data", "status"} /\ dev.tag \in 0..tag
    /\ dev.status \in DevStatus
    /\ truth.status \in DevStatus \cup {"none"}

Answered == stage = "idle" /\ number > 0

(* Host and device stay in step: a command wrapper is only sent to a       *)
(* device that expects one, whatever ended the transport before, unless    *)
(* neither reset worked.                                                   *)
InStep == stage = "cbw" /\ ~lame => dev.phase = "command"

(* A command is reported good, or failed with sense data, only if the      *)
(* device has said so of this very command, even when the resets of        *)
(* earlier commands failed and their status is still on the way.           *)
VerdictIsTrue ==
    Answered =>
      /\ result \in {"good", "retry"} => truth.status = "ok"
      /\ result = "check condition" =>
           truth.status = (IF sense = "invalid CDB" THEN "ok" ELSE "fail")

(* A command that moved less than the required minimum is not reported     *)
(* good, nor is one that moved it all while the device used less, unless   *)
(* the device itself under-reports in its status what it left over:        *)
(* nothing else tells the host.                                            *)
NoShortGood ==
    Answered /\ result = "good" =>
      /\ truth.moved >= asked.underflow
      /\ \/ truth.used >= asked.underflow
         \/ truth.residue < asked.length - truth.used

(* The residual of a command that was carried out is within its length,    *)
(* whatever residue the device claims.                                     *)
ResidTrusted ==
    Answered /\ result \in {"good", "retry", "check condition"}
    => resid \in 0..asked.length
=============================================================================

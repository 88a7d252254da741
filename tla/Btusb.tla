-------------------------------- MODULE Btusb --------------------------------
(***************************************************************************)
(* The Bluetooth USB driver src/usb-logger/bluetooth-amlogic/btusb.c: the  *)
(* URBs that listen, the frames that are sent, autosuspend and system      *)
(* sleep, and the work that starts and stops the voice channel.            *)
(*                                                                         *)
(* One processor: an URB's handler, btusb_send_frame and btusb_notify run  *)
(* in interrupts and tasklets and are one step each, between any two steps *)
(* of open and close, of suspend and resume, and of the work.  URBs are    *)
(* counted, by anchor; a killed one's handler cannot submit it again       *)
(* (urb->reject), and every other submission may fail.                     *)
(***************************************************************************)
EXTENDS Integers, FiniteSets

CONSTANT MaxTx         (* bound: frames under way or deferred                *)

ASSUME TxAssumption == MaxTx \in Nat

VARIABLES
    hci, hpc,          (* HCI_RUNNING, and where open or close stands        *)
    flags,             (* the bits of data->flags                            *)
    holds,             (* who has taken usb_autopm_get_interface             *)
    pm,                (* where suspend or resume stands                     *)
    asleep,            (* the suspension is the whole system's               *)
    suspend_count,
    rx,                (* listening URBs in flight, for each anchor          *)
    tx, voiceTx,       (* frames in flight on tx_anchor: counted, and voice  *)
    played,            (* deferred frames in flight, on no anchor            *)
    deferred,          (* frames on the deferred anchor                      *)
    tx_in_flight,
    sco,               (* hdev->conn_hash.sco_num > 0                        *)
    work, wpc,         (* btusb_work is scheduled; where it stands           *)
    waker,             (* btusb_waker is scheduled                           *)
    did_iso_resume, altsetting,
    leaked,            (* history: frames counted that were never submitted  *)
    late,              (* history: frames deferred as a failed resume ended  *)
    stale,             (* history: a resume went on with a device just closed *)
    rxFailed,          (* history: a listening URB could not be submitted    *)
    wakeFailed         (* history: the waker could not wake the device       *)

user   == <<hci, hpc>>
power  == <<pm, asleep, suspend_count>>
putOff == <<deferred, late>>
frames == <<tx, voiceTx, played, putOff, tx_in_flight, leaked>>
voice  == <<work, wpc, did_iso_resume, altsetting>>
vars == <<user, flags, holds, power, rx, frames, sco, voice, waker, stale,
          rxFailed, wakeFailed>>

Anchors == {"INTR", "BULK", "ISOC"}

Init ==
    /\ hci = FALSE /\ hpc = "closed"
    /\ flags = {} /\ holds = {}
    /\ pm = "active" /\ asleep = FALSE /\ suspend_count = 0
    /\ rx = [a \in Anchors |-> 0]
    /\ tx = 0 /\ voiceTx = 0 /\ played = 0 /\ deferred = 0 /\ tx_in_flight = 0
    /\ sco = FALSE /\ work = FALSE /\ wpc = "idle" /\ waker = FALSE
    /\ did_iso_resume = FALSE /\ altsetting = 0
    /\ leaked = 0 /\ late = 0 /\ stale = FALSE /\ rxFailed = FALSE /\ wakeFailed = FALSE

-----------------------------------------------------------------------------
(* ResubmitsAwake, WokenByFirst, AfterBulk and PlayedUncounted are       *)
(* faulty variants that only serve to test the properties.                 *)

(* usb_autopm_get_interface wakes the device up and waits for whatever     *)
(* suspension or resume is under way; it returns at once in a system's.    *)
Get(who) == holds' = holds \cup {who}
Got    == pm = "active" \/ asleep
NotGot == pm \in {"active", "suspended"} /\ ~asleep
PutHold(who) == holds' = holds \ {who}

(* usb_submit_urb with an anchor's URB: it flies, or it does not.          *)
Submitted(a) == rx' = [rx EXCEPT ![a] = @ + 1] /\ UNCHANGED rxFailed
NotSubmitted == rxFailed' = TRUE /\ UNCHANGED rx

(* Two of them; nobody looks whether the second one flies.                 *)
SubmittedPair(a) ==
    /\ \E n \in 1..2 : rx' = [rx EXCEPT ![a] = @ + n]
    /\ UNCHANGED rxFailed

(* One step of usb_kill_anchored_urbs; the loop ends with the anchor empty. *)
Kill(a) == rx[a] > 0 /\ rx' = [rx EXCEPT ![a] = @ - 1] /\ UNCHANGED rxFailed
Killed(a) == rx[a] = 0 /\ UNCHANGED <<rx, rxFailed>>

-----------------------------------------------------------------------------
(* Interrupts and tasklets.                                                *)

(* btusb_intr_complete, btusb_bulk_complete, btusb_isoc_complete: the URB  *)
(* is submitted again while the device is up and its bit is set.           *)
ResubmitsAwake(a) == hci /\ {a, "SUSPENDING"} \cap flags = {a}
Resubmits(a) == hci /\ a \in flags

RxComplete(a) ==
    /\ rx[a] > 0
    /\ \/ Resubmits(a) /\ UNCHANGED <<rx, rxFailed>>
       \/ /\ rx' = [rx EXCEPT ![a] = @ - 1]
          /\ rxFailed' = (rxFailed \/ Resubmits(a))
    /\ UNCHANGED <<user, flags, holds, power, frames, sco, voice, waker, wakeFailed,
                   stale>>

(* btusb_tx_complete, for frames sent at once and for deferred ones.       *)
TxComplete ==
    /\ \/ tx > 0 /\ tx' = tx - 1 /\ UNCHANGED played
       \/ played > 0 /\ played' = played - 1 /\ UNCHANGED tx
    /\ tx_in_flight' = tx_in_flight - 1
    /\ UNCHANGED <<user, flags, holds, power, rx, voiceTx, putOff, leaked, sco, voice,
                   waker, rxFailed, wakeFailed, stale>>

(* btusb_isoc_tx_complete.                                                 *)
VoiceTxComplete ==
    /\ voiceTx > 0
    /\ voiceTx' = voiceTx - 1
    /\ UNCHANGED <<user, flags, holds, power, rx, tx, played, putOff, tx_in_flight, leaked,
                   sco, voice, waker, rxFailed, wakeFailed, stale>>

(* schedule_work(&data->waker), for every frame put off.                   *)
WokenByFirst == waker \/ deferred = 0
Woken == TRUE

(* btusb_send_frame for commands and data: counted and submitted, or put   *)
(* off while the device is being suspended.  A failed submission leaves    *)
(* the count as it is (739).                                               *)
SendFrame ==
    /\ hci /\ tx + voiceTx + played + deferred + leaked < MaxTx
    /\ \/ /\ "SUSPENDING" \notin flags
          /\ tx_in_flight' = tx_in_flight + 1
          /\ \/ tx' = tx + 1 /\ UNCHANGED leaked
             \/ leaked' = leaked + 1 /\ UNCHANGED tx
          /\ UNCHANGED <<putOff, waker, wakeFailed>>
       \/ /\ "SUSPENDING" \in flags
          /\ deferred' = deferred + 1
          /\ late' = IF pm = "done" THEN late + 1 ELSE late
          /\ waker' = Woken /\ wakeFailed' = FALSE
          /\ UNCHANGED <<tx, leaked, tx_in_flight>>
    /\ UNCHANGED <<user, flags, holds, power, rx, voiceTx, played, sco, voice, rxFailed,
                   stale>>

(* A voice frame is neither counted nor put off: the work holds the device *)
(* awake for it, and a system asleep takes no URB.                         *)
SendVoice ==
    /\ hci /\ sco /\ altsetting = 2 /\ pm # "suspended"
    /\ tx + voiceTx + played + deferred + leaked < MaxTx
    /\ voiceTx' = voiceTx + 1
    /\ UNCHANGED <<user, flags, holds, power, rx, tx, played, putOff, tx_in_flight, leaked,
                   sco, voice, waker, rxFailed, wakeFailed, stale>>

(* btusb_notify: a voice connection comes or goes, on a device the core    *)
(* has up.                                                                 *)
Notify ==
    /\ hci /\ hpc = "open"
    /\ sco' = ~sco /\ work' = TRUE
    /\ UNCHANGED <<user, flags, holds, power, rx, frames, wpc, did_iso_resume,
                   altsetting, waker, rxFailed, wakeFailed, stale>>

(* btusb_flush kills the frames on tx_anchor, when the core resets the     *)
(* device or closes it.                                                    *)
Flush ==
    /\ hci /\ tx + voiceTx > 0
    /\ tx' = 0 /\ voiceTx' = 0 /\ tx_in_flight' = tx_in_flight - tx
    /\ UNCHANGED <<user, flags, holds, power, rx, played, putOff, leaked, sco, voice,
                   waker, rxFailed, wakeFailed, stale>>

-----------------------------------------------------------------------------
(* btusb_open.  BULK_RUNNING is set only after the first URB has gone.     *)
OpenGet ==
    /\ hpc = "closed" /\ ~asleep
    /\ hpc' = "open_intr" /\ Get("user")
    /\ UNCHANGED <<hci, flags, power, rx, frames, sco, voice, waker, rxFailed,
                   wakeFailed, stale>>

OpenFailed ==
    /\ hci' = FALSE /\ hpc' = "closed"
    /\ flags' = flags \ {"INTR"}
    /\ PutHold("user")

OpenIntr ==
    /\ hpc = "open_intr"
    /\ \/ /\ Got /\ hci' = TRUE
          /\ flags' = flags \cup {"INTR"}
          /\ IF "INTR" \in flags
             THEN hpc' = "open" /\ PutHold("user") /\ UNCHANGED <<rx, rxFailed>>
             ELSE /\ hpc' = "open_bulk" /\ UNCHANGED holds
                  /\ rx' = [rx EXCEPT !["INTR"] = @ + 1] /\ rxFailed' = FALSE
       \/ (Got \/ NotGot) /\ OpenFailed /\ UNCHANGED <<rx, rxFailed>>
    /\ UNCHANGED <<power, frames, sco, voice, waker, wakeFailed, stale>>

OpenBulk ==
    /\ \/ /\ hpc = "open_bulk"
          /\ \/ hpc' = "open_set" /\ Submitted("BULK")
             \/ hpc' = "open_kill" /\ UNCHANGED <<rx, rxFailed>>
          /\ UNCHANGED <<hci, flags, holds>>
       \/ /\ hpc = "open_kill"
          /\ \/ Kill("INTR") /\ UNCHANGED <<user, flags, holds>>
             \/ Killed("INTR") /\ OpenFailed
    /\ UNCHANGED <<power, frames, sco, voice, waker, wakeFailed, stale>>

OpenSet ==
    /\ hpc = "open_set"
    /\ hpc' = "open"
    /\ flags' = flags \cup {"BULK"}
    /\ rx' \in {rx, [rx EXCEPT !["BULK"] = @ + 1]}
    /\ rxFailed' = (rxFailed \/ rx' = rx)
    /\ PutHold("user")
    /\ UNCHANGED <<hci, power, frames, sco, voice, waker, wakeFailed, stale>>

(* btusb_close: both works are cancelled, which waits for one that runs,   *)
(* then the bits are cleared and the URBs killed; whatever was deferred is *)
(* dropped.  The core has ended every connection before.                   *)
Close ==
    /\ hpc = "open" /\ ~asleep /\ ~sco
    /\ hci' = FALSE /\ hpc' = "close_cancel"
    /\ UNCHANGED <<flags, holds, power, rx, frames, sco, voice, waker, rxFailed,
                   wakeFailed, stale>>

CloseCancel ==
    /\ hpc = "close_cancel" /\ wpc = "idle" /\ "waker" \notin holds
    /\ work' = FALSE /\ waker' = FALSE
    /\ flags' = flags \ Anchors
    /\ hpc' = "INTR"
    /\ UNCHANGED <<hci, holds, power, rx, frames, sco, wpc, did_iso_resume, altsetting,
                   rxFailed, wakeFailed, stale>>

AfterBulk == [INTR |-> "BULK", BULK |-> "TX", ISOC |-> "TX"]
After == [INTR |-> "BULK", BULK |-> "ISOC", ISOC |-> "TX"]

CloseKill ==
    /\ hpc \in Anchors
    /\ \/ Kill(hpc) /\ UNCHANGED <<hpc, holds>>
       \/ /\ Killed(hpc) /\ hpc' = After[hpc]
          /\ IF hpc = "ISOC" THEN Get("user") ELSE UNCHANGED holds
    /\ UNCHANGED <<hci, flags, power, frames, sco, voice, waker, wakeFailed, stale>>

CloseDone ==
    /\ hpc = "TX" /\ (Got \/ NotGot)
    /\ hpc' = "closed"
    /\ deferred' = 0 /\ late' = 0
    /\ PutHold("user")
    /\ UNCHANGED <<hci, flags, power, rx, tx, voiceTx, played, tx_in_flight, leaked, sco,
                   voice, waker, rxFailed, wakeFailed, stale>>

(* btusb_disconnect: the core has taken every URB back and closes the      *)
(* device first, if it is open; then the memory goes (btusb_destruct).     *)
Disconnect ==
    /\ hpc = "closed" /\ pm = "active"
    /\ \A a \in Anchors : rx[a] = 0
    /\ tx + voiceTx + played = 0
    /\ hpc' = "gone"
    /\ UNCHANGED <<hci, flags, holds, power, rx, frames, sco, voice, waker, rxFailed,
                   wakeFailed, stale>>

-----------------------------------------------------------------------------
(* btusb_work.  The kill loops are taken whole: the bit is cleared first.  *)
Quieten(a) ==
    /\ flags' = flags \ {a}
    /\ rx' = [rx EXCEPT ![a] = 0]
    /\ UNCHANGED rxFailed

WorkStart ==
    /\ work /\ wpc = "idle"
    /\ work' = FALSE
    /\ wpc' = IF ~sco THEN "off" ELSE IF did_iso_resume THEN "alt" ELSE "get"
    /\ IF wpc' = "get" THEN Get("iso") ELSE UNCHANGED holds
    /\ UNCHANGED <<user, flags, power, rx, frames, sco, did_iso_resume, altsetting,
                   waker, rxFailed, wakeFailed, stale>>

WorkGet ==
    /\ wpc = "get"
    /\ \/ /\ Got
          /\ did_iso_resume' = TRUE /\ wpc' = "alt"
          /\ UNCHANGED <<flags, holds, rx, rxFailed>>
       \/ /\ NotGot /\ PutHold("iso") /\ Quieten("ISOC")
          /\ wpc' = "idle" /\ UNCHANGED did_iso_resume
    /\ UNCHANGED <<user, power, frames, sco, work, altsetting, waker, wakeFailed,
                   stale>>

WorkAlt ==
    /\ wpc = "alt"
    /\ IF altsetting = 2
       THEN wpc' = "submit" /\ UNCHANGED <<flags, rx, rxFailed, altsetting>>
       ELSE /\ Quieten("ISOC")
            /\ \/ altsetting' = 2 /\ wpc' = "submit"
               \/ altsetting' \in {altsetting, 2} /\ wpc' = "idle"
    /\ UNCHANGED <<user, holds, power, frames, sco, work, did_iso_resume, waker,
                   wakeFailed, stale>>

WorkTest ==
    /\ wpc = "submit"
    /\ wpc' = IF "ISOC" \in flags THEN "idle" ELSE "isoc"
    /\ flags' = flags \cup {"ISOC"}
    /\ UNCHANGED <<user, holds, power, rx, frames, sco, work, did_iso_resume,
                   altsetting, waker, rxFailed, wakeFailed, stale>>

WorkSubmit ==
    /\ wpc = "isoc"
    /\ wpc' = "idle"
    /\ \/ NotSubmitted /\ flags' = flags \ {"ISOC"}
       \/ pm # "suspended" /\ SubmittedPair("ISOC") /\ UNCHANGED flags
    /\ UNCHANGED <<user, holds, power, frames, sco, work, did_iso_resume, altsetting,
                   waker, wakeFailed, stale>>

WorkOff ==
    /\ wpc = "off"
    /\ wpc' = "idle"
    /\ Quieten("ISOC")
    /\ altsetting' \in {0, altsetting}
    /\ did_iso_resume' = FALSE
    /\ IF did_iso_resume THEN PutHold("iso") ELSE UNCHANGED holds
    /\ UNCHANGED <<user, power, frames, sco, work, waker, wakeFailed, stale>>

(* btusb_waker.                                                            *)
Waker ==
    /\ \/ /\ waker /\ "waker" \notin holds
          /\ waker' = FALSE /\ Get("waker") /\ UNCHANGED wakeFailed
       \/ /\ "waker" \in holds /\ (Got \/ NotGot)
          /\ PutHold("waker")
          /\ wakeFailed' = (pm # "active") /\ UNCHANGED waker
    /\ UNCHANGED <<user, flags, power, rx, frames, sco, voice, rxFailed, stale>>

-----------------------------------------------------------------------------
(* btusb_suspend: autosuspend, when nobody holds the device and no frame   *)
(* is in flight, or the system's, when processes are frozen.               *)
MaySuspend(auto) == auto => holds = {} /\ tx_in_flight = 0

Suspend(auto) ==
    /\ pm = "active" /\ hpc # "gone"
    /\ MaySuspend(auto) /\ (auto \/ hpc \in {"closed", "open"})
    /\ asleep' = ~auto
    /\ suspend_count' = 1
    /\ flags' = flags \cup {"SUSPENDING"}
    /\ pm' = "cancel"
    /\ UNCHANGED <<user, holds, rx, frames, sco, voice, waker, rxFailed, wakeFailed,
                   stale>>

SuspendCancel ==
    /\ pm = "cancel" /\ wpc = "idle"
    /\ work' = FALSE
    /\ pm' = "INTR"
    /\ UNCHANGED <<user, flags, holds, asleep, suspend_count, rx, frames, sco, wpc,
                   did_iso_resume, altsetting, waker, rxFailed, wakeFailed, stale>>

SuspendKill ==
    /\ \/ /\ pm \in Anchors
          /\ \/ Kill(pm) /\ UNCHANGED pm
             \/ Killed(pm) /\ pm' = After[pm]
          /\ UNCHANGED <<tx, voiceTx, tx_in_flight>>
       \/ /\ pm = "TX" /\ pm' = "quiet"
          /\ tx' = 0 /\ voiceTx' = 0 /\ tx_in_flight' = tx_in_flight - tx
          /\ UNCHANGED <<rx, rxFailed>>
    /\ UNCHANGED <<user, flags, holds, asleep, suspend_count, played, putOff, leaked, sco,
                   voice, waker, stale, wakeFailed>>

(* The second interface's suspend and the first one's resume only count.   *)
(* The core then flushes every endpoint and accepts no URB.                *)
Suspended ==
    /\ pm = "quiet"
    /\ pm' = "suspended" /\ suspend_count' = 2
    /\ rx' = [a \in Anchors |-> 0] /\ stale' = FALSE
    /\ voiceTx' = 0 /\ played' = 0 /\ tx_in_flight' = tx_in_flight - played
    /\ UNCHANGED <<user, flags, holds, asleep, tx, putOff, leaked, sco, voice, waker,
                   rxFailed, wakeFailed>>

Resume ==
    /\ pm = "suspended"
    /\ suspend_count' = 0
    /\ pm' = IF hci THEN "test_intr" ELSE "done"
    /\ UNCHANGED <<user, flags, holds, asleep, rx, frames, sco, voice, waker, stale,
                   rxFailed, wakeFailed>>

Tests   == [test_intr |-> "INTR", test_bulk |-> "BULK", test_isoc |-> "ISOC"]
Submits == [INTR |-> "submit_intr", BULK |-> "submit_bulk", ISOC |-> "submit_isoc"]
Clears  == [INTR |-> "clear_intr", BULK |-> "clear_bulk", ISOC |-> "clear_isoc"]
Then    == [INTR |-> "test_bulk", BULK |-> "test_isoc", ISOC |-> "play"]

ResumeTest ==
    /\ pm \in DOMAIN Tests
    /\ LET a == Tests[pm] IN pm' = IF a \in flags THEN Submits[a] ELSE Then[a]
    /\ UNCHANGED <<user, asleep, suspend_count, flags, holds, rx, frames, sco, voice, waker,
                   stale, rxFailed, wakeFailed>>

ResumeSubmit(a) ==
    /\ pm = Submits[a]
    /\ \/ /\ IF a = "INTR" THEN Submitted(a) ELSE SubmittedPair(a)
          /\ stale' = (stale \/ ~hci)
          /\ pm' = Then[a]
       \/ NotSubmitted /\ pm' = Clears[a] /\ UNCHANGED stale
    /\ UNCHANGED <<user, flags, holds, asleep, suspend_count, frames, sco, voice, waker,
                   wakeFailed>>

(* A first URB that could not be submitted loses its bit and, but for      *)
(* voice, ends the resume: what is deferred is dropped, without the lock   *)
(* under which SUSPENDING is cleared after that.                           *)
ResumeClear(a) ==
    /\ pm = Clears[a]
    /\ pm' = IF a = "ISOC" THEN "play" ELSE "failed"
    /\ flags' = flags \ {a}
    /\ UNCHANGED <<user, holds, asleep, suspend_count, rx, frames, sco, voice, waker,
                   stale, rxFailed, wakeFailed>>

ResumeFailed ==
    /\ pm = "failed"
    /\ pm' = "done"
    /\ deferred' = 0 /\ late' = 0
    /\ UNCHANGED <<user, flags, holds, asleep, suspend_count, rx, tx, voiceTx, played,
                   tx_in_flight, leaked, sco, voice, waker, stale, rxFailed,
                   wakeFailed>>

ResumeDone ==
    /\ pm = "done"
    /\ pm' = "active" /\ asleep' = FALSE
    /\ flags' = flags \ {"SUSPENDING"}
    /\ UNCHANGED <<user, holds, suspend_count, rx, frames, sco, voice, waker, stale,
                   rxFailed, wakeFailed>>

(* play_deferred, under txlock with the end of SUSPENDING: up to the first *)
(* frame that cannot be submitted.                                         *)
PlayedUncounted(n) == 0
PlayedCount(n) == n

ResumePlay ==
    /\ pm = "play"
    /\ \E n \in 0..deferred :
         /\ played' = played + n
         /\ tx_in_flight' = tx_in_flight + PlayedCount(n)
    /\ deferred' = 0 /\ late' = 0
    /\ flags' = flags \ {"SUSPENDING"}
    /\ pm' = "active" /\ asleep' = FALSE
    /\ work' = TRUE /\ stale' = (stale \/ ~hci)
    /\ UNCHANGED <<user, holds, suspend_count, rx, tx, voiceTx, leaked, sco, wpc,
                   did_iso_resume, altsetting, waker, rxFailed, wakeFailed>>

-----------------------------------------------------------------------------
Next ==
    \/ \E a \in Anchors : RxComplete(a)
    \/ TxComplete \/ VoiceTxComplete \/ SendFrame \/ SendVoice \/ Notify \/ Flush
    \/ OpenGet \/ OpenIntr \/ OpenBulk \/ OpenSet
    \/ Close \/ CloseCancel \/ CloseKill \/ CloseDone \/ Disconnect
    \/ WorkStart \/ WorkGet \/ WorkAlt \/ WorkTest \/ WorkSubmit \/ WorkOff \/ Waker
    \/ \E auto \in BOOLEAN : Suspend(auto)
    \/ SuspendCancel \/ SuspendKill \/ Suspended
    \/ Resume \/ ResumeTest \/ ResumePlay \/ ResumeFailed \/ ResumeDone
    \/ \E a \in Anchors : ResumeSubmit(a) \/ ResumeClear(a)

Spec == Init /\ [][Next]_vars

-----------------------------------------------------------------------------
(* Every variable keeps its type.                                          *)
TypeOK ==
    /\ hci \in BOOLEAN /\ asleep \in BOOLEAN /\ sco \in BOOLEAN
    /\ work \in BOOLEAN /\ waker \in BOOLEAN /\ did_iso_resume \in BOOLEAN
    /\ stale \in BOOLEAN /\ rxFailed \in BOOLEAN /\ wakeFailed \in BOOLEAN
    /\ flags \subseteq Anchors \cup {"SUSPENDING"}
    /\ holds \subseteq {"user", "iso", "waker"}
    /\ suspend_count \in 0..2 /\ altsetting \in {0, 2}
    /\ rx \in [Anchors -> Nat]
    /\ tx \in 0..MaxTx /\ voiceTx \in 0..MaxTx /\ played \in 0..MaxTx
    /\ deferred \in 0..MaxTx /\ tx_in_flight \in 0..MaxTx /\ leaked \in 0..MaxTx
    /\ late \in 0..deferred

(* tx_in_flight, which lets the device suspend itself, is the number of    *)
(* frames in flight and of those whose submission failed (739): handlers,  *)
(* kill loops and play_deferred keep it so.                                *)
TxCounted == tx_in_flight = tx + played + leaked

(* On a closed device nothing listens, and on one that is gone no work is  *)
(* due that would use its memory, unless a resume under way had already    *)
(* tested HCI_RUNNING or the bits that close clears (1127-1131): handlers  *)
(* submit nothing behind close's kill loops, and nothing schedules a work  *)
(* that close has cancelled.                                               *)
ClosedIsDeaf ==
    hpc \in {"closed", "gone"} /\ ~stale =>
        /\ \A a \in Anchors : rx[a] = 0
        /\ ~work /\ ~waker /\ wpc = "idle" /\ "waker" \notin holds

(* An open device that is awake listens: the interrupt URB, one of the two *)
(* bulk URBs and, for voice, one of the isochronous URBs are in flight,    *)
(* through opens, suspensions and resumes in which every submission        *)
(* succeeded, although a bulk URB may come back before BULK_RUNNING is set *)
(* (560-566).                                                              *)
Listens ==
    hpc = "open" /\ pm = "active" /\ ~rxFailed =>
        /\ rx["INTR"] >= 1 /\ rx["BULK"] >= 1
        /\ "ISOC" \in flags /\ wpc # "isoc" => rx["ISOC"] >= 1

(* A frame put off on an open device waits for a resume, which the waker   *)
(* asks for unless it has failed to: none is left behind on a device that  *)
(* is awake.  Excepted are the frames put off between the end of a resume  *)
(* that failed, which drops what is deferred (1164), and the clear of      *)
(* SUSPENDING (1167): those stay behind.                                   *)
DeferredWaits ==
    deferred > late /\ hci =>
        /\ "SUSPENDING" \in flags
        /\ pm = "suspended" => waker \/ "waker" \in holds \/ wakeFailed
=============================================================================

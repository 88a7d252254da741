----------------------------- MODULE BtusbProofs -----------------------------
(* Proofs about Btusb, for any number of frames.                           *)
EXTENDS Btusb, TLAPS

(* The inductive invariant.  First, what excludes what: open holds the     *)
(* device and so never runs against a suspension that has begun, but close *)
(* does; works, wakers and voice belong to a device that is open, or that  *)
(* close waits for; a closed one has no bit set.                           *)
Up     == {"open_bulk", "open_kill", "open_set", "open"}
Serves == {"open", "close_cancel"}

PhaseInv ==
    /\ hci <=> hpc \in Up
    /\ "user" \in holds
         <=> hpc \in {"open_intr", "open_bulk", "open_kill", "open_set", "TX"}
    /\ "SUSPENDING" \in flags <=> pm # "active"
    /\ asleep => pm # "active" /\ hpc \in {"closed", "open"}
    /\ hpc \in {"open_bulk", "open_kill", "open_set", "gone"} => pm = "active"
    /\ sco => hpc = "open"
    /\ waker \/ "waker" \in holds => hpc \in Serves
    /\ wpc \notin {"idle", "off"} => hpc \in Serves
    /\ "INTR" \in flags => hpc \in Up \cup Serves
    /\ {"BULK", "ISOC"} \cap flags # {} => hpc \in Serves

(* The frames of the driver fit in the bound, and those in flight are      *)
(* counted.                                                                *)
FrameInv ==
    /\ tx + voiceTx + played + deferred + leaked <= MaxTx
    /\ TxCounted

(* What close has killed stays dead, up to the next open's own URBs, and   *)
(* no work is due behind it: unless a resume that has tested HCI_RUNNING   *)
(* goes on.  A suspension cancels the work a second time.                  *)
DeafInv ==
    /\ ~stale =>
         /\ hpc \in {"BULK", "ISOC", "TX", "closed", "gone", "open_intr"}
              => rx["INTR"] = 0
         /\ hpc \in {"ISOC", "TX", "closed", "gone", "open_intr", "open_bulk",
                     "open_kill"}
              => rx["BULK"] = 0
         /\ hpc \in {"TX", "closed", "gone", "open_intr", "open_bulk", "open_kill",
                     "open_set"}
              => rx["ISOC"] = 0
    /\ (~stale \/ pm \in {"INTR", "BULK", "ISOC", "TX", "quiet"}) /\ hpc \notin Serves
         => ~work /\ wpc = "idle"

(* Deferred frames are dropped by the end of close, and on an open device  *)
(* they wait for a resume that was asked for, but for those that came late *)
(* to one that failed: these are all there are when it ends.               *)
DeferInv ==
    /\ deferred > 0 => hpc \in {"open", "close_cancel", "INTR", "BULK", "ISOC", "TX"}
    /\ pm = "done" /\ hci => deferred = late
    /\ deferred > late /\ hci =>
         /\ pm # "active"
         /\ waker \/ "waker" \in holds \/ wakeFailed

(* Each bit that stays set stands for URBs that fly, once open or resume   *)
(* has come to them; a resume fails when a submission does.                *)
ListenInv ==
    ~rxFailed =>
      /\ hpc \in {"open_bulk", "open_set"} => "INTR" \in flags /\ rx["INTR"] >= 1
      /\ hpc = "open" =>
           /\ {"INTR", "BULK"} \subseteq flags
           /\ pm \notin {"clear_intr", "clear_bulk", "failed", "done"}
           /\ pm \in {"test_bulk", "submit_bulk", "test_isoc", "submit_isoc",
                      "clear_isoc", "play", "active"}
                => rx["INTR"] >= 1
           /\ pm \in {"test_isoc", "submit_isoc", "clear_isoc", "play", "active"}
                => rx["BULK"] >= 1
           /\ pm \in {"play", "active"} /\ "ISOC" \in flags /\ wpc # "isoc"
                => rx["ISOC"] >= 1

IInv == TypeOK /\ PhaseInv /\ FrameInv /\ DeafInv /\ DeferInv /\ ListenInv

-----------------------------------------------------------------------------
(* One lemma for each part, with one step for each action.                 *)

(* Every step counts the frames it moves.                                  *)
LEMMA FrameStep ==
    TypeOK /\ PhaseInv /\ FrameInv /\ [Next]_vars => FrameInv'
<1> SUFFICES ASSUME TypeOK, PhaseInv, FrameInv, [Next]_vars
             PROVE  FrameInv'
  OBVIOUS
<1> USE TxAssumption DEF user, power, putOff, frames, voice, Get, Got, NotGot,
                         PutHold, Anchors, TypeOK, PhaseInv, FrameInv,
                         TxCounted
<1>1. ASSUME NEW a \in Anchors, RxComplete(a) PROVE FrameInv'
  BY <1>1 DEF RxComplete
<1>2. CASE TxComplete \/ VoiceTxComplete \/ Flush
  BY <1>2 DEF TxComplete, VoiceTxComplete, Flush
<1>3. CASE SendFrame
  BY <1>3 DEF SendFrame, Woken
<1>4. CASE SendVoice \/ Notify
  BY <1>4 DEF SendVoice, Notify
<1>5. CASE OpenGet
  BY <1>5 DEF OpenGet
<1>6. CASE OpenIntr
  BY <1>6 DEF OpenIntr, OpenFailed
<1>7. CASE OpenBulk
  BY <1>7 DEF OpenBulk, OpenFailed, Kill, Killed
<1>8. CASE OpenSet
  BY <1>8 DEF OpenSet
<1>9. CASE Close
  BY <1>9 DEF Close
<1>10. CASE CloseCancel
  BY <1>10 DEF CloseCancel
<1>11. CASE CloseKill
  BY <1>11 DEF CloseKill, Kill, Killed, After
<1>12. CASE CloseDone
  BY <1>12 DEF CloseDone
<1>13. CASE Disconnect
  BY <1>13 DEF Disconnect
<1>14. CASE WorkStart
  BY <1>14 DEF WorkStart
<1>15. CASE WorkGet
  BY <1>15 DEF WorkGet, Quieten
<1>16. CASE WorkAlt
  BY <1>16 DEF WorkAlt, Quieten
<1>17. CASE WorkTest
  BY <1>17 DEF WorkTest
<1>18. CASE WorkSubmit
  BY <1>18 DEF WorkSubmit, NotSubmitted, SubmittedPair
<1>19. CASE WorkOff
  BY <1>19 DEF WorkOff, Quieten
<1>20. CASE Waker
  BY <1>20 DEF Waker
<1>21. ASSUME NEW auto \in BOOLEAN, Suspend(auto) PROVE FrameInv'
  BY <1>21 DEF Suspend, MaySuspend
<1>22. CASE SuspendCancel
  BY <1>22 DEF SuspendCancel
<1>23. CASE SuspendKill
  BY <1>23 DEF SuspendKill, Kill, Killed, After
<1>24. CASE Suspended
  BY <1>24 DEF Suspended
<1>25. CASE Resume
  BY <1>25 DEF Resume
<1>26. CASE ResumeTest
  BY <1>26 DEF ResumeTest, Tests, Submits, Then
<1>27. ASSUME NEW a \in Anchors, ResumeSubmit(a) PROVE FrameInv'
  BY <1>27
     DEF ResumeSubmit, Submits, Then, Clears, Submitted, SubmittedPair, NotSubmitted
<1>28. CASE ResumePlay
  BY <1>28 DEF ResumePlay, PlayedCount
<1>29. CASE UNCHANGED vars
  BY <1>29 DEF vars
<1>30. ASSUME NEW a \in Anchors, ResumeClear(a) PROVE FrameInv'
  BY <1>30 DEF ResumeClear, Clears
<1>31. CASE ResumeFailed \/ ResumeDone
  BY <1>31 DEF ResumeFailed, ResumeDone
<1> QED
  BY <1>1, <1>2, <1>3, <1>4, <1>5, <1>6, <1>7, <1>8, <1>9, <1>10, <1>11,
     <1>12, <1>13, <1>14, <1>15, <1>16, <1>17, <1>18, <1>19, <1>20, <1>21,
     <1>22, <1>23, <1>24, <1>25, <1>26, <1>27, <1>28, <1>29, <1>30, <1>31
  DEF Next


(* Every step keeps to the phases.                                         *)
LEMMA PhaseStep ==
    TypeOK /\ PhaseInv /\ [Next]_vars => PhaseInv'
<1> SUFFICES ASSUME TypeOK, PhaseInv, [Next]_vars
             PROVE  PhaseInv'
  OBVIOUS
<1> USE DEF user, power, putOff, frames, voice, Get, Got, NotGot, PutHold, Anchors,
            TypeOK, PhaseInv, Up, Serves
<1>1. ASSUME NEW a \in Anchors, RxComplete(a) PROVE PhaseInv'
  BY <1>1 DEF RxComplete
<1>2. CASE TxComplete \/ VoiceTxComplete \/ Flush
  BY <1>2 DEF TxComplete, VoiceTxComplete, Flush
<1>3. CASE SendFrame
  BY <1>3 DEF SendFrame, Woken
<1>4. CASE SendVoice \/ Notify
  BY <1>4 DEF SendVoice, Notify
<1>5. CASE OpenGet
  BY <1>5 DEF OpenGet
<1>6. CASE OpenIntr
  BY <1>6 DEF OpenIntr, OpenFailed
<1>7. CASE OpenBulk
  BY <1>7 DEF OpenBulk, OpenFailed, Kill, Killed
<1>8. CASE OpenSet
  BY <1>8 DEF OpenSet
<1>9. CASE Close
  BY <1>9 DEF Close
<1>10. CASE CloseCancel
  BY <1>10 DEF CloseCancel
<1>11. CASE CloseKill
  BY <1>11 DEF CloseKill, Kill, Killed, After
<1>12. CASE CloseDone
  BY <1>12 DEF CloseDone
<1>13. CASE Disconnect
  BY <1>13 DEF Disconnect
<1>14. CASE WorkStart
  BY <1>14 DEF WorkStart
<1>15. CASE WorkGet
  BY <1>15 DEF WorkGet, Quieten
<1>16. CASE WorkAlt
  BY <1>16 DEF WorkAlt, Quieten
<1>17. CASE WorkTest
  BY <1>17 DEF WorkTest
<1>18. CASE WorkSubmit
  BY <1>18 DEF WorkSubmit, NotSubmitted, SubmittedPair
<1>19. CASE WorkOff
  BY <1>19 DEF WorkOff, Quieten
<1>20. CASE Waker
  BY <1>20 DEF Waker
<1>21. ASSUME NEW auto \in BOOLEAN, Suspend(auto) PROVE PhaseInv'
  BY <1>21 DEF Suspend, MaySuspend
<1>22. CASE SuspendCancel
  BY <1>22 DEF SuspendCancel
<1>23. CASE SuspendKill
  BY <1>23 DEF SuspendKill, Kill, Killed, After
<1>24. CASE Suspended
  BY <1>24 DEF Suspended
<1>25. CASE Resume
  BY <1>25 DEF Resume
<1>26. CASE ResumeTest
  BY <1>26 DEF ResumeTest, Tests, Submits, Then
<1>27. ASSUME NEW a \in Anchors, ResumeSubmit(a) PROVE PhaseInv'
  BY <1>27
     DEF ResumeSubmit, Submits, Then, Clears, Submitted, SubmittedPair, NotSubmitted
<1>28. CASE ResumePlay
  BY <1>28 DEF ResumePlay, PlayedCount
<1>29. CASE UNCHANGED vars
  BY <1>29 DEF vars
<1>30. ASSUME NEW a \in Anchors, ResumeClear(a) PROVE PhaseInv'
  BY <1>30 DEF ResumeClear, Clears
<1>31. CASE ResumeFailed \/ ResumeDone
  BY <1>31 DEF ResumeFailed, ResumeDone
<1> QED
  BY <1>1, <1>2, <1>3, <1>4, <1>5, <1>6, <1>7, <1>8, <1>9, <1>10, <1>11,
     <1>12, <1>13, <1>14, <1>15, <1>16, <1>17, <1>18, <1>19, <1>20, <1>21,
     <1>22, <1>23, <1>24, <1>25, <1>26, <1>27, <1>28, <1>29, <1>30, <1>31
  DEF Next


(* Every step leaves alone what close has killed.                          *)
LEMMA DeafStep ==
    TypeOK /\ PhaseInv /\ DeafInv /\ [Next]_vars => DeafInv'
<1> SUFFICES ASSUME TypeOK, PhaseInv, DeafInv, [Next]_vars
             PROVE  DeafInv'
  OBVIOUS
<1> USE DEF user, power, putOff, frames, voice, Get, Got, NotGot, PutHold, Anchors,
            TypeOK, PhaseInv, DeafInv, Up, Serves
<1>1. ASSUME NEW a \in Anchors, RxComplete(a) PROVE DeafInv'
  BY <1>1 DEF RxComplete
<1>2. CASE TxComplete \/ VoiceTxComplete \/ Flush
  BY <1>2 DEF TxComplete, VoiceTxComplete, Flush
<1>3. CASE SendFrame
  BY <1>3 DEF SendFrame, Woken
<1>4. CASE SendVoice \/ Notify
  BY <1>4 DEF SendVoice, Notify
<1>5. CASE OpenGet
  BY <1>5 DEF OpenGet
<1>6. CASE OpenIntr
  BY <1>6 DEF OpenIntr, OpenFailed
<1>7. CASE OpenBulk
  <2>1. CASE hpc = "open_bulk"
    <3>1. \/ hpc' = "open_set" /\ rx' = [rx EXCEPT !["BULK"] = @ + 1]
          \/ hpc' = "open_kill" /\ rx' = rx
      BY <1>7, <2>1 DEF OpenBulk, Submitted
    <3>2. UNCHANGED <<stale, pm, work, wpc>>
      BY <1>7 DEF OpenBulk
    <3> QED
      BY <2>1, <3>1, <3>2
  <2>2. CASE hpc = "open_kill"
    <3>1. \/ Kill("INTR") /\ hpc' = hpc
          \/ rx["INTR"] = 0 /\ rx' = rx /\ hpc' = "closed"
      BY <1>7, <2>2 DEF OpenBulk, OpenFailed, Killed
    <3>2. UNCHANGED <<stale, pm, work, wpc>>
      BY <1>7 DEF OpenBulk
    <3> QED
      BY <2>2, <3>1, <3>2 DEF Kill
  <2> QED
    BY <1>7, <2>1, <2>2 DEF OpenBulk
<1>8. CASE OpenSet
  BY <1>8 DEF OpenSet
<1>9. CASE Close
  BY <1>9 DEF Close
<1>10. CASE CloseCancel
  BY <1>10 DEF CloseCancel
<1>11. CASE CloseKill
  BY <1>11 DEF CloseKill, Kill, Killed, After
<1>12. CASE CloseDone
  BY <1>12 DEF CloseDone
<1>13. CASE Disconnect
  BY <1>13 DEF Disconnect
<1>14. CASE WorkStart
  BY <1>14 DEF WorkStart
<1>15. CASE WorkGet
  BY <1>15 DEF WorkGet, Quieten
<1>16. CASE WorkAlt
  BY <1>16 DEF WorkAlt, Quieten
<1>17. CASE WorkTest
  BY <1>17 DEF WorkTest
<1>18. CASE WorkSubmit
  BY <1>18 DEF WorkSubmit, NotSubmitted, SubmittedPair
<1>19. CASE WorkOff
  BY <1>19 DEF WorkOff, Quieten
<1>20. CASE Waker
  BY <1>20 DEF Waker
<1>21. ASSUME NEW auto \in BOOLEAN, Suspend(auto) PROVE DeafInv'
  BY <1>21 DEF Suspend, MaySuspend
<1>22. CASE SuspendCancel
  BY <1>22 DEF SuspendCancel
<1>23. CASE SuspendKill
  BY <1>23 DEF SuspendKill, Kill, Killed, After
<1>24. CASE Suspended
  BY <1>24 DEF Suspended
<1>25. CASE Resume
  BY <1>25 DEF Resume
<1>26. CASE ResumeTest
  BY <1>26 DEF ResumeTest, Tests, Submits, Then
<1>27. ASSUME NEW a \in Anchors, ResumeSubmit(a) PROVE DeafInv'
  <2>1. /\ UNCHANGED <<hpc, hci, work, wpc>>
        /\ pm \notin {"active", "INTR", "BULK", "ISOC", "TX", "quiet"}
    BY <1>27 DEF ResumeSubmit, Submits
  <2>2. pm' \notin {"INTR", "BULK", "ISOC", "TX", "quiet"}
    BY <1>27 DEF ResumeSubmit, Then, Clears
  <2>3. CASE rx' = rx /\ stale' = stale
    BY <2>1, <2>2, <2>3
  <2>4. CASE stale' = (stale \/ ~hci)
    <3>1. hci => hpc = "open"
      BY <2>1
    <3> QED
      BY <2>1, <2>2, <2>4, <3>1
  <2> QED
    BY <1>27, <2>3, <2>4 DEF ResumeSubmit, NotSubmitted
<1>28. CASE ResumePlay
  BY <1>28 DEF ResumePlay, PlayedCount
<1>29. CASE UNCHANGED vars
  BY <1>29 DEF vars
<1>30. ASSUME NEW a \in Anchors, ResumeClear(a) PROVE DeafInv'
  BY <1>30 DEF ResumeClear, Clears
<1>31. CASE ResumeFailed \/ ResumeDone
  BY <1>31 DEF ResumeFailed, ResumeDone
<1> QED
  BY <1>1, <1>2, <1>3, <1>4, <1>5, <1>6, <1>7, <1>8, <1>9, <1>10, <1>11,
     <1>12, <1>13, <1>14, <1>15, <1>16, <1>17, <1>18, <1>19, <1>20, <1>21,
     <1>22, <1>23, <1>24, <1>25, <1>26, <1>27, <1>28, <1>29, <1>30, <1>31
  DEF Next


(* Every step that defers a frame asks for a resume.                       *)
LEMMA DeferStep ==
    TypeOK /\ PhaseInv /\ DeferInv /\ [Next]_vars => DeferInv'
<1> SUFFICES ASSUME TypeOK, PhaseInv, DeferInv, [Next]_vars
             PROVE  DeferInv'
  OBVIOUS
<1> USE DEF user, power, putOff, frames, voice, Get, Got, NotGot, PutHold, Anchors,
            TypeOK, PhaseInv, DeferInv, Up, Serves
<1>1. ASSUME NEW a \in Anchors, RxComplete(a) PROVE DeferInv'
  BY <1>1 DEF RxComplete
<1>2. CASE TxComplete \/ VoiceTxComplete \/ Flush
  BY <1>2 DEF TxComplete, VoiceTxComplete, Flush
<1>3. CASE SendFrame
  BY <1>3 DEF SendFrame, Woken
<1>4. CASE SendVoice \/ Notify
  BY <1>4 DEF SendVoice, Notify
<1>5. CASE OpenGet
  BY <1>5 DEF OpenGet
<1>6. CASE OpenIntr
  BY <1>6 DEF OpenIntr, OpenFailed
<1>7. CASE OpenBulk
  BY <1>7 DEF OpenBulk, OpenFailed, Kill, Killed
<1>8. CASE OpenSet
  BY <1>8 DEF OpenSet
<1>9. CASE Close
  BY <1>9 DEF Close
<1>10. CASE CloseCancel
  BY <1>10 DEF CloseCancel
<1>11. CASE CloseKill
  BY <1>11 DEF CloseKill, Kill, Killed, After
<1>12. CASE CloseDone
  BY <1>12 DEF CloseDone
<1>13. CASE Disconnect
  BY <1>13 DEF Disconnect
<1>14. CASE WorkStart
  BY <1>14 DEF WorkStart
<1>15. CASE WorkGet
  BY <1>15 DEF WorkGet, Quieten
<1>16. CASE WorkAlt
  BY <1>16 DEF WorkAlt, Quieten
<1>17. CASE WorkTest
  BY <1>17 DEF WorkTest
<1>18. CASE WorkSubmit
  BY <1>18 DEF WorkSubmit, NotSubmitted, SubmittedPair
<1>19. CASE WorkOff
  BY <1>19 DEF WorkOff, Quieten
<1>20. CASE Waker
  BY <1>20 DEF Waker
<1>21. ASSUME NEW auto \in BOOLEAN, Suspend(auto) PROVE DeferInv'
  BY <1>21 DEF Suspend, MaySuspend
<1>22. CASE SuspendCancel
  BY <1>22 DEF SuspendCancel
<1>23. CASE SuspendKill
  BY <1>23 DEF SuspendKill, Kill, Killed, After
<1>24. CASE Suspended
  BY <1>24 DEF Suspended
<1>25. CASE Resume
  BY <1>25 DEF Resume
<1>26. CASE ResumeTest
  BY <1>26 DEF ResumeTest, Tests, Submits, Then
<1>27. ASSUME NEW a \in Anchors, ResumeSubmit(a) PROVE DeferInv'
  BY <1>27
     DEF ResumeSubmit, Submits, Then, Clears, Submitted, SubmittedPair, NotSubmitted
<1>28. CASE ResumePlay
  BY <1>28 DEF ResumePlay, PlayedCount
<1>29. CASE UNCHANGED vars
  BY <1>29 DEF vars
<1>30. ASSUME NEW a \in Anchors, ResumeClear(a) PROVE DeferInv'
  BY <1>30 DEF ResumeClear, Clears
<1>31. CASE ResumeFailed \/ ResumeDone
  BY <1>31 DEF ResumeFailed, ResumeDone
<1> QED
  BY <1>1, <1>2, <1>3, <1>4, <1>5, <1>6, <1>7, <1>8, <1>9, <1>10, <1>11,
     <1>12, <1>13, <1>14, <1>15, <1>16, <1>17, <1>18, <1>19, <1>20, <1>21,
     <1>22, <1>23, <1>24, <1>25, <1>26, <1>27, <1>28, <1>29, <1>30, <1>31
  DEF Next


(* Every step keeps the URBs of the bits that are set in flight.           *)
LEMMA ListenStep ==
    TypeOK /\ PhaseInv /\ ListenInv /\ [Next]_vars => ListenInv'
<1> SUFFICES ASSUME TypeOK, PhaseInv, ListenInv, [Next]_vars
             PROVE  ListenInv'
  OBVIOUS
<1> USE DEF user, power, putOff, frames, voice, Get, Got, NotGot, PutHold, Anchors,
            TypeOK, PhaseInv, ListenInv, Up, Serves
<1>1. ASSUME NEW a \in Anchors, RxComplete(a) PROVE ListenInv'
  <2>1. UNCHANGED <<hci, hpc, pm, flags, wpc>>
    BY <1>1 DEF RxComplete
  <2>2. CASE rx' = rx /\ rxFailed' = rxFailed
    BY <2>1, <2>2
  <2>3. CASE /\ rx' = [rx EXCEPT ![a] = @ - 1]
             /\ rxFailed' = (rxFailed \/ Resubmits(a))
    <3>1. ASSUME ~rxFailed', hpc \in {"open_bulk", "open_set", "open"}
          PROVE  ~rxFailed /\ a \notin flags
      BY <2>3, <3>1 DEF Resubmits
    <3>2. \A b \in Anchors : b # a => rx'[b] = rx[b]
      BY <2>3
    <3> QED
      BY <2>1, <3>1, <3>2
  <2> QED
    BY <1>1, <2>2, <2>3 DEF RxComplete
<1>2. CASE TxComplete \/ VoiceTxComplete \/ Flush
  BY <1>2 DEF TxComplete, VoiceTxComplete, Flush
<1>3. CASE SendFrame
  BY <1>3 DEF SendFrame, Woken
<1>4. CASE SendVoice \/ Notify
  BY <1>4 DEF SendVoice, Notify
<1>5. CASE OpenGet
  BY <1>5 DEF OpenGet
<1>6. CASE OpenIntr
  BY <1>6 DEF OpenIntr, OpenFailed
<1>7. CASE OpenBulk
  <2>1. CASE hpc = "open_bulk"
    <3>1. \/ hpc' = "open_set" /\ Submitted("BULK")
          \/ hpc' = "open_kill"
      BY <1>7, <2>1 DEF OpenBulk
    <3>2. flags' = flags
      BY <1>7, <2>1 DEF OpenBulk
    <3> QED
      BY <2>1, <3>1, <3>2 DEF Submitted
  <2>2. CASE hpc = "open_kill"
    <3>1. hpc' \in {"open_kill", "closed"}
      BY <1>7, <2>2 DEF OpenBulk, OpenFailed
    <3> QED
      BY <3>1
  <2> QED
    BY <1>7, <2>1, <2>2 DEF OpenBulk
<1>8. CASE OpenSet
  <2>1. /\ hpc = "open_set" /\ hpc' = "open"
        /\ flags' = flags \cup {"BULK"} /\ "ISOC" \notin flags
        /\ rxFailed' = (rxFailed \/ rx' = rx)
        /\ rx' \in {rx, [rx EXCEPT !["BULK"] = @ + 1]}
    BY <1>8 DEF OpenSet
  <2>2. ASSUME ~rxFailed'
        PROVE  ~rxFailed /\ rx'["INTR"] = rx["INTR"] /\ rx'["BULK"] >= 1
    <3>1. ~rxFailed /\ rx' # rx
      BY <2>1, <2>2
    <3>2. rx' = [rx EXCEPT !["BULK"] = @ + 1]
      BY <2>1, <3>1
    <3> QED
      BY <3>1, <3>2
  <2>3. pm = "active" /\ pm' = pm
    BY <1>8 DEF OpenSet
  <2>4. ASSUME ~rxFailed'
        PROVE  {"INTR", "BULK"} \subseteq flags'
    BY <2>1, <2>2, <2>4
  <2> QED
    BY <2>1, <2>2, <2>3, <2>4
<1>9. CASE Close
  BY <1>9 DEF Close
<1>10. CASE CloseCancel
  BY <1>10 DEF CloseCancel
<1>11. CASE CloseKill
  BY <1>11 DEF CloseKill, Kill, Killed, After
<1>12. CASE CloseDone
  BY <1>12 DEF CloseDone
<1>13. CASE Disconnect
  BY <1>13 DEF Disconnect
<1>14. CASE WorkStart
  BY <1>14 DEF WorkStart
<1>15. CASE WorkGet
  BY <1>15 DEF WorkGet, Quieten
<1>16. CASE WorkAlt
  BY <1>16 DEF WorkAlt, Quieten
<1>17. CASE WorkTest
  BY <1>17 DEF WorkTest
<1>18. CASE WorkSubmit
  BY <1>18 DEF WorkSubmit, NotSubmitted, SubmittedPair
<1>19. CASE WorkOff
  BY <1>19 DEF WorkOff, Quieten
<1>20. CASE Waker
  BY <1>20 DEF Waker
<1>21. ASSUME NEW auto \in BOOLEAN, Suspend(auto) PROVE ListenInv'
  BY <1>21 DEF Suspend, MaySuspend
<1>22. CASE SuspendCancel
  BY <1>22 DEF SuspendCancel
<1>23. CASE SuspendKill
  BY <1>23 DEF SuspendKill, Kill, Killed, After
<1>24. CASE Suspended
  BY <1>24 DEF Suspended
<1>25. CASE Resume
  BY <1>25 DEF Resume
<1>26. CASE ResumeTest
  BY <1>26 DEF ResumeTest, Tests, Submits, Then
<1>27. ASSUME NEW a \in Anchors, ResumeSubmit(a) PROVE ListenInv'
  <2>1. UNCHANGED <<hci, hpc, flags, wpc>> /\ pm = Submits[a]
    BY <1>27 DEF ResumeSubmit
  <2>2. CASE rxFailed'
    BY <2>2
  <2>3. CASE ~rxFailed'
    <3>1. /\ \/ rx' = [rx EXCEPT ![a] = @ + 1]
             \/ rx' = [rx EXCEPT ![a] = @ + 2]
          /\ ~rxFailed /\ pm' = Then[a]
      BY <1>27, <2>3 DEF ResumeSubmit, Submitted, SubmittedPair, NotSubmitted
    <3>2. rx'[a] >= 1 /\ \A b \in Anchors : b # a => rx'[b] = rx[b]
      BY <3>1
    <3>3. CASE a = "INTR"
      BY <2>1, <3>1, <3>2, <3>3 DEF Submits, Then
    <3>4. CASE a = "BULK"
      BY <2>1, <3>1, <3>2, <3>4 DEF Submits, Then
    <3>5. CASE a = "ISOC"
      BY <2>1, <3>1, <3>2, <3>5 DEF Submits, Then
    <3> QED
      BY <3>3, <3>4, <3>5
  <2> QED
    BY <2>2, <2>3
<1>28. CASE ResumePlay
  BY <1>28 DEF ResumePlay, PlayedCount
<1>29. CASE UNCHANGED vars
  BY <1>29 DEF vars
<1>30. ASSUME NEW a \in Anchors, ResumeClear(a) PROVE ListenInv'
  <2>1. /\ UNCHANGED <<hpc, rx, rxFailed, wpc>>
        /\ pm = Clears[a] /\ flags' = flags \ {a}
        /\ pm' = IF a = "ISOC" THEN "play" ELSE "failed"
    BY <1>30 DEF ResumeClear
  <2>2. hpc \notin {"open_bulk", "open_set"}
    BY <2>1 DEF Clears
  <2>3. CASE a = "ISOC"
    <3>1. flags' = flags \ {"ISOC"} /\ pm = "clear_isoc" /\ pm' = "play"
      BY <2>1, <2>3 DEF Clears
    <3> QED
      BY <2>1, <2>2, <3>1
  <2>4. CASE a # "ISOC"
    <3>1. ~rxFailed => hpc # "open"
      BY <2>1, <2>4 DEF Clears
    <3> QED
      BY <2>1, <2>2, <3>1
  <2> QED
    BY <2>3, <2>4
<1>31. CASE ResumeFailed \/ ResumeDone
  <2>1. UNCHANGED <<hpc, rx, rxFailed, wpc>> /\ pm \in {"failed", "done"}
    BY <1>31 DEF ResumeFailed, ResumeDone
  <2>2. ~rxFailed => hpc # "open"
    BY <2>1
  <2>3. hpc \notin {"open_bulk", "open_set"}
    BY <2>1
  <2> QED
    BY <2>1, <2>2, <2>3
<1> QED
  BY <1>1, <1>2, <1>3, <1>4, <1>5, <1>6, <1>7, <1>8, <1>9, <1>10, <1>11,
     <1>12, <1>13, <1>14, <1>15, <1>16, <1>17, <1>18, <1>19, <1>20, <1>21,
     <1>22, <1>23, <1>24, <1>25, <1>26, <1>27, <1>28, <1>29, <1>30, <1>31
  DEF Next


(* Counters whose sum is bounded are, and so is the sum of three of them.  *)
LEMMA CountersBounded ==
    ASSUME NEW i \in Nat, NEW j \in Nat, NEW k \in Nat, NEW l \in Nat, NEW m \in Nat,
           i + j + k + l + m <= MaxTx
    PROVE  /\ {i, j, k, l, m} \subseteq 0..MaxTx
           /\ i + k + m \in 0..MaxTx
BY TxAssumption

(* Every step preserves the types.                                         *)
LEMMA TypeStep ==
    TypeOK /\ FrameInv /\ FrameInv' /\ [Next]_vars => TypeOK'
<1> SUFFICES ASSUME TypeOK, FrameInv, FrameInv', [Next]_vars
             PROVE  TypeOK'
  OBVIOUS
<1> USE TxAssumption DEF user, power, putOff, frames, voice, Get, Got, NotGot,
                         PutHold, Anchors, FrameInv, TypeOK, TxCounted
<1>1. ASSUME NEW a \in Anchors, RxComplete(a) PROVE TypeOK'
  <2>1. /\ hci' \in BOOLEAN /\ asleep' \in BOOLEAN /\ work' \in BOOLEAN
        /\ sco' \in BOOLEAN /\ waker' \in BOOLEAN /\ did_iso_resume' \in BOOLEAN
        /\ stale' \in BOOLEAN /\ rxFailed' \in BOOLEAN /\ wakeFailed' \in BOOLEAN
    BY <1>1 DEF RxComplete
  <2>2. rx' \in [Anchors -> Nat]
    BY <1>1 DEF RxComplete
  <2> QED
    BY <1>1, <2>1, <2>2 DEF RxComplete
<1>2. CASE TxComplete \/ VoiceTxComplete \/ Flush
  <2>1. /\ hci' \in BOOLEAN /\ asleep' \in BOOLEAN /\ work' \in BOOLEAN
        /\ sco' \in BOOLEAN /\ waker' \in BOOLEAN /\ did_iso_resume' \in BOOLEAN
        /\ stale' \in BOOLEAN /\ rxFailed' \in BOOLEAN /\ wakeFailed' \in BOOLEAN
    BY <1>2 DEF TxComplete, VoiceTxComplete, Flush
  <2>2. rx' \in [Anchors -> Nat]
    BY <1>2 DEF TxComplete, VoiceTxComplete, Flush
  <2>3. /\ tx' \in Nat /\ voiceTx' \in Nat /\ played' \in Nat
        /\ deferred' \in Nat /\ leaked' \in Nat
    BY <1>2 DEF TxComplete, VoiceTxComplete, Flush
  <2>4. /\ tx' \in 0..MaxTx /\ voiceTx' \in 0..MaxTx /\ played' \in 0..MaxTx
        /\ deferred' \in 0..MaxTx /\ leaked' \in 0..MaxTx /\ tx_in_flight' \in 0..MaxTx
    BY <2>3, CountersBounded
  <2> QED
    BY <1>2, <2>1, <2>2, <2>3, <2>4 DEF TxComplete, VoiceTxComplete, Flush
<1>3. CASE SendFrame
  <2>1. /\ hci' \in BOOLEAN /\ asleep' \in BOOLEAN /\ work' \in BOOLEAN
        /\ sco' \in BOOLEAN /\ waker' \in BOOLEAN /\ did_iso_resume' \in BOOLEAN
        /\ stale' \in BOOLEAN /\ rxFailed' \in BOOLEAN /\ wakeFailed' \in BOOLEAN
    BY <1>3 DEF SendFrame, Woken
  <2>2. rx' \in [Anchors -> Nat]
    BY <1>3 DEF SendFrame, Woken
  <2>3. /\ tx' \in Nat /\ voiceTx' \in Nat /\ played' \in Nat
        /\ deferred' \in Nat /\ leaked' \in Nat
    BY <1>3 DEF SendFrame, Woken
  <2>4. /\ tx' \in 0..MaxTx /\ voiceTx' \in 0..MaxTx /\ played' \in 0..MaxTx
        /\ deferred' \in 0..MaxTx /\ leaked' \in 0..MaxTx /\ tx_in_flight' \in 0..MaxTx
    BY <2>3, CountersBounded
  <2> QED
    <3>1. late' \in 0..deferred'
      BY <1>3 DEF SendFrame
    <3>2. /\ flags' \subseteq Anchors \cup {"SUSPENDING"}
          /\ holds' \subseteq {"user", "iso", "waker"}
          /\ suspend_count' \in 0..2 /\ altsetting' \in {0, 2}
      BY <1>3 DEF SendFrame
    <3> QED
      BY <2>1, <2>2, <2>4, <3>1, <3>2
<1>4. CASE SendVoice \/ Notify
  <2>1. /\ hci' \in BOOLEAN /\ asleep' \in BOOLEAN /\ work' \in BOOLEAN
        /\ sco' \in BOOLEAN /\ waker' \in BOOLEAN /\ did_iso_resume' \in BOOLEAN
        /\ stale' \in BOOLEAN /\ rxFailed' \in BOOLEAN /\ wakeFailed' \in BOOLEAN
    BY <1>4 DEF SendVoice, Notify
  <2>2. rx' \in [Anchors -> Nat]
    BY <1>4 DEF SendVoice, Notify
  <2>3. /\ tx' \in Nat /\ voiceTx' \in Nat /\ played' \in Nat
        /\ deferred' \in Nat /\ leaked' \in Nat
    BY <1>4 DEF SendVoice, Notify
  <2>4. /\ tx' \in 0..MaxTx /\ voiceTx' \in 0..MaxTx /\ played' \in 0..MaxTx
        /\ deferred' \in 0..MaxTx /\ leaked' \in 0..MaxTx /\ tx_in_flight' \in 0..MaxTx
    BY <2>3, CountersBounded
  <2> QED
    BY <1>4, <2>1, <2>2, <2>3, <2>4 DEF SendVoice, Notify
<1>5. CASE OpenGet
  BY <1>5 DEF OpenGet
<1>6. CASE OpenIntr
  <2>1. hci' \in BOOLEAN /\ rxFailed' \in BOOLEAN
    BY <1>6 DEF OpenIntr, OpenFailed
  <2>2. rx' \in [Anchors -> Nat]
    <3>1. rx' = rx \/ rx' = [rx EXCEPT !["INTR"] = @ + 1]
      BY <1>6 DEF OpenIntr
    <3> QED
      BY <3>1
  <2>3. flags' \subseteq Anchors \cup {"SUSPENDING"} /\ holds' \subseteq {"user", "iso", "waker"}
    BY <1>6 DEF OpenIntr, OpenFailed
  <2> QED
    BY <1>6, <2>1, <2>2, <2>3 DEF OpenIntr
<1>7. CASE OpenBulk
  <2>1. \/ rx' = [rx EXCEPT !["BULK"] = @ + 1] /\ rxFailed' = rxFailed
        \/ UNCHANGED <<rx, rxFailed>>
        \/ Kill("INTR")
    BY <1>7 DEF OpenBulk, Submitted, Killed
  <2>2. rx' \in [Anchors -> Nat] /\ rxFailed' \in BOOLEAN
    BY <2>1 DEF Kill
  <2>3. /\ hci' \in BOOLEAN /\ flags' \subseteq Anchors \cup {"SUSPENDING"}
        /\ holds' \subseteq {"user", "iso", "waker"}
    BY <1>7 DEF OpenBulk, OpenFailed
  <2> QED
    BY <1>7, <2>2, <2>3 DEF OpenBulk
<1>8. CASE OpenSet
  BY <1>8 DEF OpenSet
<1>9. CASE Close
  BY <1>9 DEF Close
<1>10. CASE CloseCancel
  BY <1>10 DEF CloseCancel
<1>11. CASE CloseKill
  <2>1. /\ hci' \in BOOLEAN /\ asleep' \in BOOLEAN /\ work' \in BOOLEAN
        /\ sco' \in BOOLEAN /\ waker' \in BOOLEAN /\ did_iso_resume' \in BOOLEAN
        /\ stale' \in BOOLEAN /\ rxFailed' \in BOOLEAN /\ wakeFailed' \in BOOLEAN
    BY <1>11 DEF CloseKill, Kill, Killed, After
  <2>2. rx' \in [Anchors -> Nat]
    BY <1>11 DEF CloseKill, Kill, Killed, After
  <2> QED
    BY <1>11, <2>1, <2>2 DEF CloseKill, Kill, Killed, After
<1>12. CASE CloseDone
  BY <1>12 DEF CloseDone
<1>13. CASE Disconnect
  BY <1>13 DEF Disconnect
<1>14. CASE WorkStart
  BY <1>14 DEF WorkStart
<1>15. CASE WorkGet
  <2>1. /\ hci' \in BOOLEAN /\ asleep' \in BOOLEAN /\ work' \in BOOLEAN
        /\ sco' \in BOOLEAN /\ waker' \in BOOLEAN /\ did_iso_resume' \in BOOLEAN
        /\ stale' \in BOOLEAN /\ rxFailed' \in BOOLEAN /\ wakeFailed' \in BOOLEAN
    BY <1>15 DEF WorkGet, Quieten
  <2>2. rx' \in [Anchors -> Nat]
    BY <1>15 DEF WorkGet, Quieten
  <2> QED
    BY <1>15, <2>1, <2>2 DEF WorkGet, Quieten
<1>16. CASE WorkAlt
  <2>1. /\ hci' \in BOOLEAN /\ asleep' \in BOOLEAN /\ work' \in BOOLEAN
        /\ sco' \in BOOLEAN /\ waker' \in BOOLEAN /\ did_iso_resume' \in BOOLEAN
        /\ stale' \in BOOLEAN /\ rxFailed' \in BOOLEAN /\ wakeFailed' \in BOOLEAN
    BY <1>16 DEF WorkAlt, Quieten
  <2>2. rx' \in [Anchors -> Nat]
    BY <1>16 DEF WorkAlt, Quieten
  <2> QED
    BY <1>16, <2>1, <2>2 DEF WorkAlt, Quieten
<1>17. CASE WorkTest
  BY <1>17 DEF WorkTest
<1>18. CASE WorkSubmit
  <2>1. /\ hci' \in BOOLEAN /\ asleep' \in BOOLEAN /\ work' \in BOOLEAN
        /\ sco' \in BOOLEAN /\ waker' \in BOOLEAN /\ did_iso_resume' \in BOOLEAN
        /\ stale' \in BOOLEAN /\ rxFailed' \in BOOLEAN /\ wakeFailed' \in BOOLEAN
    BY <1>18 DEF WorkSubmit, NotSubmitted, SubmittedPair
  <2>2. rx' \in [Anchors -> Nat]
    BY <1>18 DEF WorkSubmit, NotSubmitted, SubmittedPair
  <2> QED
    BY <1>18, <2>1, <2>2 DEF WorkSubmit, NotSubmitted, SubmittedPair
<1>19. CASE WorkOff
  BY <1>19 DEF WorkOff, Quieten
<1>20. CASE Waker
  BY <1>20 DEF Waker
<1>21. ASSUME NEW auto \in BOOLEAN, Suspend(auto) PROVE TypeOK'
  BY <1>21 DEF Suspend, MaySuspend
<1>22. CASE SuspendCancel
  BY <1>22 DEF SuspendCancel
<1>23. CASE SuspendKill
  <2>1. /\ hci' \in BOOLEAN /\ asleep' \in BOOLEAN /\ work' \in BOOLEAN
        /\ sco' \in BOOLEAN /\ waker' \in BOOLEAN /\ did_iso_resume' \in BOOLEAN
        /\ stale' \in BOOLEAN /\ rxFailed' \in BOOLEAN /\ wakeFailed' \in BOOLEAN
    BY <1>23 DEF SuspendKill, Kill, Killed, After
  <2>2. rx' \in [Anchors -> Nat]
    BY <1>23 DEF SuspendKill, Kill, Killed, After
  <2>3. /\ tx' \in Nat /\ voiceTx' \in Nat /\ played' \in Nat
        /\ deferred' \in Nat /\ leaked' \in Nat
    BY <1>23 DEF SuspendKill, Kill, Killed, After
  <2>4. /\ tx' \in 0..MaxTx /\ voiceTx' \in 0..MaxTx /\ played' \in 0..MaxTx
        /\ deferred' \in 0..MaxTx /\ leaked' \in 0..MaxTx /\ tx_in_flight' \in 0..MaxTx
    BY <2>3, CountersBounded
  <2> QED
    BY <1>23, <2>1, <2>2, <2>3, <2>4 DEF SuspendKill, Kill, Killed, After
<1>24. CASE Suspended
  <2>1. tx' \in Nat /\ voiceTx' \in Nat /\ played' \in Nat /\ deferred' \in Nat /\ leaked' \in Nat
    BY <1>24 DEF Suspended
  <2>2. /\ tx' \in 0..MaxTx /\ voiceTx' \in 0..MaxTx /\ played' \in 0..MaxTx
        /\ deferred' \in 0..MaxTx /\ leaked' \in 0..MaxTx /\ tx_in_flight' \in 0..MaxTx
    BY <2>1, CountersBounded
  <2>3. rx' \in [Anchors -> Nat]
    BY <1>24 DEF Suspended
  <2>4. /\ stale' = FALSE /\ suspend_count' = 2
        /\ UNCHANGED <<hci, flags, holds, asleep, sco, voice, waker, rxFailed, wakeFailed>>
    BY <1>24 DEF Suspended
  <2>5. voice' = voice
    BY <1>24 DEF Suspended
  <2>6. /\ hci' \in BOOLEAN /\ asleep' \in BOOLEAN /\ sco' \in BOOLEAN
        /\ work' \in BOOLEAN /\ waker' \in BOOLEAN /\ did_iso_resume' \in BOOLEAN
        /\ stale' \in BOOLEAN /\ rxFailed' \in BOOLEAN /\ wakeFailed' \in BOOLEAN
    BY <2>4, <2>5
  <2>7. /\ flags' \subseteq Anchors \cup {"SUSPENDING"}
        /\ holds' \subseteq {"user", "iso", "waker"}
        /\ suspend_count' \in 0..2 /\ altsetting' \in {0, 2}
    BY <2>4, <2>5
  <2>8. late' \in 0..deferred'
    BY <1>24 DEF Suspended
  <2> QED
    BY <2>2, <2>3, <2>6, <2>7, <2>8
<1>25. CASE Resume
  <2>1. /\ flags' \subseteq flags
        /\ asleep' = asleep \/ asleep' = FALSE
        /\ suspend_count' = 0
    BY <1>25 DEF Resume
  <2>2. UNCHANGED <<hci, holds, rx, frames, sco, voice, waker, stale, rxFailed, wakeFailed>>
    BY <1>25 DEF Resume
  <2>3. /\ flags' \subseteq Anchors \cup {"SUSPENDING"}
        /\ suspend_count' \in 0..2
    BY <2>1
  <2>4. asleep' \in BOOLEAN
    BY <2>1, Zenon DEF TypeOK
  <2> QED
    BY <2>2, <2>3, <2>4
<1>26. CASE ResumeTest
  BY <1>26 DEF ResumeTest, Tests, Submits, Then
<1>27. ASSUME NEW a \in Anchors, ResumeSubmit(a) PROVE TypeOK'
  <2>1. /\ hci' \in BOOLEAN /\ asleep' \in BOOLEAN /\ work' \in BOOLEAN
        /\ sco' \in BOOLEAN /\ waker' \in BOOLEAN /\ did_iso_resume' \in BOOLEAN
        /\ stale' \in BOOLEAN /\ rxFailed' \in BOOLEAN /\ wakeFailed' \in BOOLEAN
    BY <1>27
       DEF ResumeSubmit, Submits, Then, Clears, Submitted, SubmittedPair, NotSubmitted
  <2>2. rx' \in [Anchors -> Nat]
    BY <1>27
       DEF ResumeSubmit, Submits, Then, Clears, Submitted, SubmittedPair, NotSubmitted
  <2>3. /\ tx' \in Nat /\ voiceTx' \in Nat /\ played' \in Nat
        /\ deferred' \in Nat /\ leaked' \in Nat
    BY <1>27
       DEF ResumeSubmit, Submits, Then, Clears, Submitted, SubmittedPair, NotSubmitted
  <2>4. /\ tx' \in 0..MaxTx /\ voiceTx' \in 0..MaxTx /\ played' \in 0..MaxTx
        /\ deferred' \in 0..MaxTx /\ leaked' \in 0..MaxTx /\ tx_in_flight' \in 0..MaxTx
    BY <2>3, CountersBounded
  <2> QED
    BY <1>27, <2>1, <2>2, <2>3, <2>4
       DEF ResumeSubmit, Submits, Then, Clears, Submitted, SubmittedPair, NotSubmitted
<1>28. CASE ResumePlay
  <2>1. /\ hci' \in BOOLEAN /\ asleep' \in BOOLEAN /\ work' \in BOOLEAN
        /\ sco' \in BOOLEAN /\ waker' \in BOOLEAN /\ did_iso_resume' \in BOOLEAN
        /\ stale' \in BOOLEAN /\ rxFailed' \in BOOLEAN /\ wakeFailed' \in BOOLEAN
    BY <1>28 DEF ResumePlay, PlayedCount
  <2>2. rx' \in [Anchors -> Nat]
    BY <1>28 DEF ResumePlay, PlayedCount
  <2>3. /\ tx' \in Nat /\ voiceTx' \in Nat /\ played' \in Nat
        /\ deferred' \in Nat /\ leaked' \in Nat
    BY <1>28 DEF ResumePlay, PlayedCount
  <2>4. /\ tx' \in 0..MaxTx /\ voiceTx' \in 0..MaxTx /\ played' \in 0..MaxTx
        /\ deferred' \in 0..MaxTx /\ leaked' \in 0..MaxTx /\ tx_in_flight' \in 0..MaxTx
    BY <2>3, CountersBounded
  <2> QED
    <3>1. late' \in 0..deferred'
      BY <1>28 DEF ResumePlay
    <3>2. /\ flags' \subseteq Anchors \cup {"SUSPENDING"}
          /\ holds' \subseteq {"user", "iso", "waker"}
          /\ suspend_count' \in 0..2 /\ altsetting' \in {0, 2}
      BY <1>28 DEF ResumePlay
    <3> QED
      BY <2>1, <2>2, <2>4, <3>1, <3>2
<1>29. CASE UNCHANGED vars
  BY <1>29 DEF vars
<1>30. ASSUME NEW a \in Anchors, ResumeClear(a) PROVE TypeOK'
  BY <1>30 DEF ResumeClear, Clears
<1>31. CASE ResumeFailed \/ ResumeDone
  <2>1. /\ UNCHANGED <<hci, holds, suspend_count, rx, tx, voiceTx, played, tx_in_flight,
                        leaked, sco, voice, waker, stale, rxFailed, wakeFailed>>
        /\ flags' \subseteq flags
    BY <1>31 DEF ResumeFailed, ResumeDone
  <2>2. asleep' \in BOOLEAN
    BY <1>31 DEF ResumeFailed, ResumeDone
  <2>3. deferred' \in 0..MaxTx /\ late' \in 0..deferred'
    BY <1>31 DEF ResumeFailed, ResumeDone
  <2> QED
    BY <2>1, <2>2, <2>3
<1> QED
  BY <1>1, <1>2, <1>3, <1>4, <1>5, <1>6, <1>7, <1>8, <1>9, <1>10, <1>11,
     <1>12, <1>13, <1>14, <1>15, <1>16, <1>17, <1>18, <1>19, <1>20, <1>21,
     <1>22, <1>23, <1>24, <1>25, <1>26, <1>27, <1>28, <1>29, <1>30, <1>31
  DEF Next


-----------------------------------------------------------------------------
(* The results.                                                            *)

(* The invariant holds of a device just probed, and every step keeps it.   *)
THEOREM Invariance == Spec => []IInv
<1>1. Init => IInv
  <2> SUFFICES ASSUME Init PROVE IInv
    OBVIOUS
  <2>1. TypeOK
    <3>1. /\ hci \in BOOLEAN /\ asleep \in BOOLEAN /\ sco \in BOOLEAN
          /\ work \in BOOLEAN /\ waker \in BOOLEAN /\ did_iso_resume \in BOOLEAN
          /\ stale \in BOOLEAN /\ rxFailed \in BOOLEAN /\ wakeFailed \in BOOLEAN
      BY Zenon DEF Init
    <3>2. flags = {} /\ holds = {} /\ suspend_count = 0 /\ altsetting = 0
      BY DEF Init
    <3>3. rx \in [Anchors -> Nat]
      BY DEF Init, Anchors
    <3>4. 0 \in 0..MaxTx
      BY TxAssumption
    <3>5. /\ tx = 0 /\ voiceTx = 0 /\ played = 0 /\ deferred = 0
          /\ tx_in_flight = 0 /\ leaked = 0 /\ late = 0
      BY DEF Init
    <3> QED
      BY <3>1, <3>2, <3>3, <3>4, <3>5 DEF TypeOK
  <2>2. PhaseInv /\ DeafInv /\ DeferInv /\ ListenInv
    BY DEF Init, PhaseInv, DeafInv, DeferInv, ListenInv, Up, Serves, Anchors
  <2>3. FrameInv
    BY TxAssumption DEF Init, FrameInv, TxCounted
  <2> QED
    BY <2>1, <2>2, <2>3 DEF IInv
<1>2. IInv /\ [Next]_vars => IInv'
  BY FrameStep, PhaseStep, DeafStep, DeferStep, ListenStep, TypeStep DEF IInv
<1> QED
  BY <1>1, <1>2, PTL DEF Spec

(* tx_in_flight, which lets the device suspend itself, counts the frames   *)
(* in flight and those whose submission failed (739).                      *)
THEOREM FramesAreCounted == Spec => []TxCounted
<1>1. IInv => TxCounted
  BY DEF IInv, FrameInv
<1> QED
  BY <1>1, Invariance, PTL

(* Nothing listens and no work is due behind btusb_close, unless a resume  *)
(* goes on that had tested HCI_RUNNING before (1127-1131).                 *)
THEOREM ClosedStaysDeaf == Spec => []ClosedIsDeaf
<1>1. IInv => ClosedIsDeaf
  BY DEF IInv, PhaseInv, DeafInv, ClosedIsDeaf, Anchors, Serves
<1> QED
  BY <1>1, Invariance, PTL

(* An open device that is awake listens, unless a submission has failed.   *)
THEOREM OpenListens == Spec => []Listens
<1>1. IInv => Listens
  BY DEF IInv, ListenInv, Listens
<1> QED
  BY <1>1, Invariance, PTL

(* A frame put off waits for a resume that was asked for, and is never     *)
(* left behind on a device that is awake, unless it came between the end   *)
(* of a resume that failed and the clear of SUSPENDING (1164-1167).        *)
THEOREM DeferredFramesWait == Spec => []DeferredWaits
<1>1. IInv => DeferredWaits
  BY DEF IInv, PhaseInv, DeferInv, DeferredWaits
<1> QED
  BY <1>1, Invariance, PTL

=============================================================================

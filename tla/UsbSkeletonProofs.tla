-------------------------- MODULE UsbSkeletonProofs --------------------------
(* Proofs about UsbSkeleton, for any finite set of processes, any limits,  *)
(* buffer sizes and widths of size_t.                                      *)
EXTENDS UsbSkeleton, FiniteSetTheorems, TLAPS

(* The processes at some labels.                                           *)
At(L) == {p \in Procs : pc[p] \in L}

(* Who has the device open: between the kref_get of skel_open and the      *)
(* kref_put of skel_release, and those of them that open_count counts.     *)
Counted   == {"open", "r_lock", "w_down"} \cup InRead \cup InWrite
             \cup {"f_lock", "f_drain", "f_errors", "rel_lock"}
Referring == Counted \cup {"o_lock", "rel_put"}

(* The inductive invariant.  io_mutex belongs to whoever is in its section.*)
Holding == InRead \cup {"w_submit", "f_drain", "f_errors"}

MutexInv ==
    /\ \A p \in Procs : io_mutex = p <=> pc[p] \in Holding
    /\ io_mutex = CoreThread <=> core \in {"p_drain", "p_post"}

(* How far the core has come with a disconnect, and what it finds: nobody  *)
(* in skel_open once the minor number is gone, no URB once it accepts none.*)
Binding == {"bound", "p_drain", "p_post"}
BindInv ==
    /\ enabled <=> core \in Binding
    /\ minor <=> core \in Binding \cup {"d_clear", "d_deregister"}
    /\ interface <=> core \notin {"d_kill", "d_put", "gone"}
    /\ Opening # {} => minor
    /\ ~enabled => urb = Idle /\ writes = 0

(* The counters count: the references of the opens and of the core, the    *)
(* opens, the slots of the writes, and the uses of the device's power.     *)
CountInv ==
    /\ kref = Cardinality(At(Referring)) + (IF core = "gone" THEN 0 ELSE 1)
    /\ open_count = Cardinality(At(Counted))
    /\ WriteSlotsConserved
    /\ open_count > 0 /\ interface => pm > 0

(* A read wants something until it is over, so no transfer of nothing is   *)
(* started; ongoing_read says that one is under way, except while it is    *)
(* being submitted, and then only one process looks.                       *)
ReadInv ==
    /\ \A p \in Procs :
         pc[p] \in {"r_lock", "r_retry", "r_wait", "r_errors", "r_data", "r_start",
                    "r_submit"}
           => count[p] > 0
    /\ ongoing_read => urb # Idle \/ At({"r_submit", "r_unmark"}) # {}
    /\ urb # Idle => done < MaxDone
    /\ ReaderIsWoken

IInv == TypeOK /\ MutexInv /\ BindInv /\ CountInv /\ ReadInv /\ DrawnDown

-----------------------------------------------------------------------------
(* A step of one process changes how many are at some labels by that one.  *)
LEMMA Moves ==
    ASSUME TypeOK, NEW p \in Procs, NEW l, Goto(p, l), NEW CONSTANT L
    PROVE  /\ Cardinality(At(L)) \in Nat
           /\ Cardinality(At(L)') = Cardinality(At(L)) + (IF l \in L THEN 1 ELSE 0)
                                                - (IF pc[p] \in L THEN 1 ELSE 0)
           /\ pc[p] \in L => Cardinality(At(L)) > 0
<1>1. IsFiniteSet(At(L)) /\ IsFiniteSet(At(L) \ {p})
  BY ProcsAssumption, FS_Subset, FS_RemoveElement DEF At
<1>2. /\ Cardinality(At(L)) \in Nat
      /\ Cardinality(At(L) \ {p}) \in Nat
      /\ Cardinality(At(L) \ {p})
           = Cardinality(At(L)) - (IF pc[p] \in L THEN 1 ELSE 0)
  BY <1>1, FS_CardinalityType, FS_RemoveElement DEF At
<1>3. CASE l \in L
  <2>1. At(L)' = (At(L) \ {p}) \cup {p}
    BY <1>3 DEF At, Goto, TypeOK
  <2>2. Cardinality(At(L)') = Cardinality(At(L) \ {p}) + 1
    BY <1>1, <2>1, FS_AddElement
  <2> QED
    BY <1>2, <1>3, <2>2
<1>4. CASE l \notin L
  <2>1. At(L)' = At(L) \ {p}
    BY <1>4 DEF At, Goto, TypeOK
  <2> QED
    BY <1>2, <1>4, <2>1
<1> QED
  BY <1>3, <1>4

(* A draw-down leaves nothing in flight and gives every slot back.         *)
LEMMA DrawDownEffect ==
    ASSUME TypeOK, ReadInv, DrawDown
    PROVE  /\ writes' = 0 /\ limit_sem' = limit_sem + writes
           /\ urb' = Idle /\ ongoing_read' \in BOOLEAN
           /\ done' \in 0..MaxDone /\ filled' \in 0..BulkInSize
           /\ errors' \in {"none", "io", "pipe", "unlinked"}
<1> USE SizesAssumption DEF TypeOK
<1>1. CASE urb # Idle /\ ReadCallback("unlinked", 0)
  <2>1. done < MaxDone
    BY <1>1 DEF ReadInv
  <2>2. urb' = Idle /\ ongoing_read' = FALSE /\ done' = done + 1 /\ filled' = filled
        /\ errors' = "unlinked"
    BY <1>1 DEF ReadCallback, CompleteRead
  <2>3. done' \in 0..MaxDone /\ filled' \in 0..BulkInSize
    BY <2>1, <2>2
  <2> QED
    BY <2>2, <2>3 DEF DrawDown, KillWrites
<1>2. CASE urb = Idle /\ UNCHANGED <<readio, filled>>
  BY <1>2 DEF DrawDown, KillWrites, readio
<1> QED
  BY <1>1, <1>2 DEF DrawDown

(* size_t arithmetic stays in its width.                                   *)
LEMMA Wraps == \A i \in Int : i % Word \in 0..(Word - 1)
BY SizesAssumption

(* What a read copies out is in the buffer and is asked for.               *)
LEMMA ReadDataEffect ==
    ASSUME TypeOK, NEW p \in Procs, ReadData(p), count[p] > 0
    PROVE  /\ copied' \in 0..(Word - 1)
           /\ count' \in [Procs -> 0..(Word - 1)]
           /\ pc'[p] # "r_exit" => pc'[p] = "r_start" /\ count'[p] > 0
           /\ \A q \in Procs : q # p => count'[q] = count[q]
<1>1. Available \in 0..(Word - 1)
  BY Wraps, SizesAssumption DEF Available, TypeOK
<1>2. CASE UNCHANGED <<count, copied>> /\ Goto(p, "r_start")
  BY <1>2 DEF TypeOK, Goto
<1>3. CASE /\ filled # 0 /\ Available # 0
           /\ copied' = (copied + Least(Available, count[p])) % Word
           /\ count' = [count EXCEPT ![p] = @ - Least(Available, count[p])]
           /\ IF Available < count[p]
              THEN StartIo(p, "ahead")
              ELSE Goto(p, "r_exit") /\ UNCHANGED site
  <2>1. Least(Available, count[p]) \in 0..count[p]
    BY <1>1, SizesAssumption DEF Least, TypeOK
  <2>2. copied + Least(Available, count[p]) \in Int
    BY <2>1, SizesAssumption DEF TypeOK
  <2>3. copied' \in 0..(Word - 1)
    BY <1>3, <2>2, Wraps
  <2>4. /\ count' \in [Procs -> 0..(Word - 1)]
        /\ count'[p] = count[p] - Least(Available, count[p])
        /\ \A q \in Procs : q # p => count'[q] = count[q]
    BY <1>3, <2>1, SizesAssumption DEF TypeOK
  <2>5. CASE Available < count[p]
    <3>1. pc'[p] = "r_start"
      BY <1>3, <2>5 DEF StartIo, Goto, TypeOK
    <3> QED
      BY <1>1, <2>3, <2>4, <2>5, <3>1, SizesAssumption DEF Least, TypeOK
  <2>6. CASE ~(Available < count[p])
    <3>1. pc'[p] = "r_exit"
      BY <1>3, <2>6 DEF Goto, TypeOK
    <3> QED
      BY <2>3, <2>4, <3>1
  <2> QED
    BY <2>5, <2>6
<1> QED
  BY <1>2, <1>3 DEF ReadData, StartIo


(* How many more processes are at labels in L when one goes from k to l.   *)
Delta(L, k, l) == (IF l \in L THEN 1 ELSE 0) - (IF k \in L THEN 1 ELSE 0)

(* A step of one process, from k to l, that counts what it takes and gives *)
(* back.                                                                   *)
LEMMA CountsChange ==
    ASSUME TypeOK, CountInv, NEW p \in Procs, NEW k, NEW l, pc[p] = k, Goto(p, l),
           UNCHANGED core, limit_sem' \in Int, writes' \in Int,
           kref' = kref + Delta(Referring, k, l),
           open_count' = open_count + Delta(Counted, k, l),
           limit_sem' + writes' = limit_sem + writes - Delta(InWrite, k, l),
           open_count' > 0 /\ interface' => pm' > 0
    PROVE  CountInv'
<1>1. ASSUME NEW CONSTANT L
      PROVE  /\ Cardinality(At(L)) \in Nat /\ Delta(L, k, l) \in Int
             /\ Cardinality(At(L)') = Cardinality(At(L)) + Delta(L, k, l)
  <2>1. /\ Cardinality(At(L)) \in Nat
        /\ Cardinality(At(L)') = Cardinality(At(L)) + (IF l \in L THEN 1 ELSE 0)
                                             - (IF pc[p] \in L THEN 1 ELSE 0)
    BY Moves
  <2> QED
    BY <2>1 DEF Delta
<1>2. kref' = Cardinality(At(Referring)') + (IF core' = "gone" THEN 0 ELSE 1)
  <2>1. CASE core = "gone"
    BY <1>1, <2>1 DEF CountInv
  <2>2. CASE core # "gone"
    BY <1>1, <2>2 DEF CountInv
  <2> QED
    BY <2>1, <2>2
<1>3. open_count' = Cardinality(At(Counted)')
  BY <1>1 DEF CountInv
<1>4. WriteSlotsConserved'
  <2>1. /\ {q \in Procs : pc[q] \in InWrite} = At(InWrite)
        /\ {q \in Procs : pc'[q] \in InWrite} = At(InWrite)'
    BY DEF At
  <2>2. limit_sem + writes + Cardinality(At(InWrite)) = WRITES_IN_FLIGHT
    BY <2>1 DEF CountInv, WriteSlotsConserved
  <2>3. limit_sem' + writes' + Cardinality(At(InWrite)') = WRITES_IN_FLIGHT
    <3>1. limit_sem \in Int /\ writes \in Int
      BY SizesAssumption DEF TypeOK
    <3> QED
      BY <1>1, <2>2, <3>1
  <2> QED
    BY <2>1, <2>3 DEF WriteSlotsConserved
<1> QED
  BY <1>2, <1>3, <1>4 DEF CountInv

(* A step by which nobody comes or goes keeps the counts.                  *)
LEMMA CountsKept ==
    ASSUME TypeOK, CountInv, NEW p \in Procs, NEW l, Goto(p, l),
           l \in Referring <=> pc[p] \in Referring,
           l \in Counted <=> pc[p] \in Counted,
           l \in InWrite <=> pc[p] \in InWrite,
           UNCHANGED <<core, kref, open_count, pm, interface>>,
           limit_sem' \in Int, writes' \in Int, limit_sem' + writes' = limit_sem + writes
    PROVE  CountInv'
<1>1. /\ Delta(Referring, pc[p], l) = 0 /\ Delta(Counted, pc[p], l) = 0
      /\ Delta(InWrite, pc[p], l) = 0
  BY DEF Delta
<1>2. /\ kref' = kref + 0 /\ open_count' = open_count + 0
      /\ limit_sem' + writes' = limit_sem + writes - 0
  <2>1. kref' = kref /\ open_count' = open_count
    OBVIOUS
  <2>2. kref \in Int /\ open_count \in Int /\ limit_sem \in Int /\ writes \in Int
    BY SizesAssumption DEF TypeOK
  <2>3. limit_sem + writes = limit_sem + writes - 0
    BY <2>2
  <2>4. kref' = kref + 0 /\ open_count' = open_count + 0
    BY <2>1, <2>2
  <2>5. limit_sem' + writes' = limit_sem + writes - 0
    BY <2>3, Zenon
  <2> QED
    BY <2>4, <2>5
<1>3. open_count' > 0 /\ interface' => pm' > 0
  BY DEF CountInv
<1> QED
  BY <1>1, <1>2, <1>3, CountsChange

(* So does a step of no process that passes slots from URBs to limit_sem,  *)
(* or detaches the interface, or drops the reference of the core.          *)
LEMMA CountsStay ==
    ASSUME TypeOK, CountInv, UNCHANGED <<pc, open_count, pm>>,
           limit_sem' \in Int, writes' \in Int,
           limit_sem' + writes' = limit_sem + writes, interface' => interface,
           \/ kref' = kref /\ (core' = "gone" <=> core = "gone")
           \/ kref' = kref - 1 /\ core' = "gone" /\ core # "gone"
    PROVE  CountInv'
<1>1. At(Referring)' = At(Referring) /\ At(Counted)' = At(Counted)
  BY DEF At
<1>2. {p \in Procs : pc'[p] \in InWrite} = {p \in Procs : pc[p] \in InWrite}
  OBVIOUS
<1>3. Cardinality({p \in Procs : pc[p] \in InWrite}) \in Nat
      /\ Cardinality(At(Referring)) \in Nat
  BY ProcsAssumption, FS_Subset, FS_CardinalityType DEF At
<1>4. kref' = Cardinality(At(Referring)') + (IF core' = "gone" THEN 0 ELSE 1)
  BY <1>1, <1>3 DEF CountInv, TypeOK
<1>5. WriteSlotsConserved'
  BY <1>2, <1>3, SizesAssumption DEF CountInv, WriteSlotsConserved, TypeOK
<1> QED
  BY <1>1, <1>4, <1>5 DEF CountInv

(* Every step takes io_mutex when it is free, and gives up its own.        *)
LEMMA MutexStep ==
    TypeOK /\ MutexInv /\ [Next]_vars => MutexInv'
<1> SUFFICES ASSUME TypeOK, MutexInv, [Next]_vars
             PROVE  MutexInv'
  OBVIOUS
<1> USE ThreadsAssumption DEF call, binding, opens, readio, data, writeio,
                              Goto, TypeOK, Labels, InRead, InWrite, InOpen,
                              InClose, Resting, MutexInv, Holding, MutexFree
<1>1. ASSUME NEW p \in Procs, OpenFind(p) PROVE MutexInv'
  BY <1>1 DEF OpenFind
<1>2. ASSUME NEW p \in Procs, OpenRef(p) PROVE MutexInv'
  BY <1>2 DEF OpenRef, KrefGet
<1>3. ASSUME NEW p \in Procs, OpenCount(p) PROVE MutexInv'
  BY <1>3 DEF OpenCount, KrefPut
<1>4. ASSUME NEW p \in Procs, ReadCall(p) PROVE MutexInv'
  BY <1>4 DEF ReadCall
<1>5. ASSUME NEW p \in Procs, ReadLock(p) PROVE MutexInv'
  BY <1>5 DEF ReadLock
<1>6. ASSUME NEW p \in Procs, ReadRetry(p) PROVE MutexInv'
  BY <1>6 DEF ReadRetry
<1>7. ASSUME NEW p \in Procs, ReadWait(p) PROVE MutexInv'
  BY <1>7 DEF ReadWait
<1>8. ASSUME NEW p \in Procs, ReadSignal(p) PROVE MutexInv'
  BY <1>8 DEF ReadSignal
<1>9. ASSUME NEW p \in Procs, ReadErrors(p) PROVE MutexInv'
  BY <1>9 DEF ReadErrors
<1>10. ASSUME NEW p \in Procs, ReadClear(p) PROVE MutexInv'
  BY <1>10 DEF ReadClear
<1>11. ASSUME NEW p \in Procs, ReadData(p) PROVE MutexInv'
  BY <1>11 DEF ReadData, StartIo, Least
<1>12. ASSUME NEW p \in Procs, ReadStart(p) PROVE MutexInv'
  BY <1>12 DEF ReadStart
<1>13. ASSUME NEW p \in Procs, ReadSubmit(p) PROVE MutexInv'
  BY <1>13 DEF ReadSubmit, IoStarted, Least
<1>14. ASSUME NEW p \in Procs, ReadUnmark(p) PROVE MutexInv'
  BY <1>14 DEF ReadUnmark
<1>15. ASSUME NEW p \in Procs, ReadExit(p) PROVE MutexInv'
  BY <1>15 DEF ReadExit
<1>16. ASSUME NEW p \in Procs, WriteDown(p) PROVE MutexInv'
  BY <1>16 DEF WriteDown
<1>17. ASSUME NEW p \in Procs, WriteErrors(p) PROVE MutexInv'
  BY <1>17 DEF WriteErrors
<1>18. ASSUME NEW p \in Procs, WriteLock(p) PROVE MutexInv'
  BY <1>18 DEF WriteLock, InterfaceThere
<1>19. ASSUME NEW p \in Procs, WriteSubmit(p) PROVE MutexInv'
  BY <1>19 DEF WriteSubmit
<1>20. ASSUME NEW p \in Procs, WriteError(p) PROVE MutexInv'
  BY <1>20 DEF WriteError, UpOnError
<1>21. ASSUME NEW p \in Procs, FlushLock(p) PROVE MutexInv'
  BY <1>21 DEF FlushLock
<1>22. ASSUME NEW p \in Procs, FlushDrain(p) PROVE MutexInv'
  BY <1>22 DEF FlushDrain, DrawDown, KillWrites, ReadCallback, CompleteRead
<1>23. ASSUME NEW p \in Procs, FlushErrors(p) PROVE MutexInv'
  BY <1>23 DEF FlushErrors
<1>24. ASSUME NEW p \in Procs, ReleaseCount(p) PROVE MutexInv'
  BY <1>24 DEF ReleaseCount
<1>25. ASSUME NEW p \in Procs, ReleasePut(p) PROVE MutexInv'
  BY <1>25 DEF ReleasePut, KrefPut
<1>26. CASE HcRead
  BY <1>26 DEF HcRead, ReadCallback, CompleteRead
<1>27. CASE HcWrite
  BY <1>27 DEF HcWrite
<1>28. CASE PreResetLock
  BY <1>28 DEF PreResetLock, CoreGoto
<1>29. CASE PreResetDrain
  BY <1>29
     DEF PreResetDrain, CoreGoto, DrawDown, KillWrites, ReadCallback,
         CompleteRead
<1>30. CASE PostReset
  BY <1>30 DEF PostReset, CoreGoto
<1>31. CASE Suspend
  BY <1>31 DEF Suspend, DrawDown, KillWrites, ReadCallback, CompleteRead
<1>32. CASE Unbind
  BY <1>32 DEF Unbind, DrawDown, KillWrites, ReadCallback, CompleteRead
<1>33. CASE DisconnectClear
  BY <1>33 DEF DisconnectClear
<1>34. CASE DisconnectDeregister
  BY <1>34 DEF DisconnectDeregister, NobodyOpening
<1>35. CASE DisconnectLock
  BY <1>35 DEF DisconnectLock, CoreGoto
<1>36. CASE DisconnectKill
  BY <1>36 DEF DisconnectKill, CoreGoto, KillWrites
<1>37. CASE DisconnectPut
  BY <1>37 DEF DisconnectPut, CoreGoto, KrefPut
<1>39. ASSUME NEW p \in Procs, LockSignal(p) PROVE MutexInv'
  BY <1>39 DEF LockSignal
<1>40. ASSUME NEW p \in Procs, WriteCall(p) PROVE MutexInv'
  BY <1>40 DEF WriteCall
<1>41. ASSUME NEW p \in Procs, DownSignal(p) PROVE MutexInv'
  BY <1>41 DEF DownSignal
<1>42. ASSUME NEW p \in Procs, FlushCall(p) PROVE MutexInv'
  BY <1>42 DEF FlushCall
<1>38. CASE UNCHANGED vars
  BY <1>38 DEF vars
<1> QED
  BY <1>1, <1>2, <1>3, <1>4, <1>5, <1>6, <1>7, <1>8, <1>9, <1>10, <1>11,
     <1>12, <1>13, <1>14, <1>15, <1>16, <1>17, <1>18, <1>19, <1>20, <1>21,
     <1>22, <1>23, <1>24, <1>25, <1>26, <1>27, <1>28, <1>29, <1>30, <1>31,
     <1>32, <1>33, <1>34, <1>35, <1>36, <1>37, <1>38, <1>39, <1>40, <1>41,
     <1>42
     DEF Next, Open, Read, Write, Close, Call, Signal, Reset, Disconnect, Finished


(* Every step keeps to the stages of the disconnect.                       *)
LEMMA BindStep ==
    TypeOK /\ BindInv /\ [Next]_vars => BindInv'
<1> SUFFICES ASSUME TypeOK, BindInv, [Next]_vars
             PROVE  BindInv'
  OBVIOUS
<1> USE SizesAssumption DEF call, binding, opens, readio, data, writeio, Goto,
                            TypeOK, Binding, BindInv, Opening, Idle
<1>1. ASSUME NEW p \in Procs, OpenFind(p) PROVE BindInv'
  BY <1>1 DEF OpenFind
<1>2. ASSUME NEW p \in Procs, OpenRef(p) PROVE BindInv'
  BY <1>2 DEF OpenRef, KrefGet
<1>3. ASSUME NEW p \in Procs, OpenCount(p) PROVE BindInv'
  BY <1>3 DEF OpenCount, KrefPut
<1>4. ASSUME NEW p \in Procs, ReadCall(p) PROVE BindInv'
  BY <1>4 DEF ReadCall
<1>5. ASSUME NEW p \in Procs, ReadLock(p) PROVE BindInv'
  BY <1>5 DEF ReadLock
<1>6. ASSUME NEW p \in Procs, ReadRetry(p) PROVE BindInv'
  BY <1>6 DEF ReadRetry
<1>7. ASSUME NEW p \in Procs, ReadWait(p) PROVE BindInv'
  BY <1>7 DEF ReadWait
<1>8. ASSUME NEW p \in Procs, ReadSignal(p) PROVE BindInv'
  BY <1>8 DEF ReadSignal
<1>9. ASSUME NEW p \in Procs, ReadErrors(p) PROVE BindInv'
  BY <1>9 DEF ReadErrors
<1>10. ASSUME NEW p \in Procs, ReadClear(p) PROVE BindInv'
  BY <1>10 DEF ReadClear
<1>11. ASSUME NEW p \in Procs, ReadData(p) PROVE BindInv'
  BY <1>11 DEF ReadData, StartIo, Least
<1>12. ASSUME NEW p \in Procs, ReadStart(p) PROVE BindInv'
  BY <1>12 DEF ReadStart
<1>13. ASSUME NEW p \in Procs, ReadSubmit(p) PROVE BindInv'
  BY <1>13 DEF ReadSubmit, IoStarted, Least
<1>14. ASSUME NEW p \in Procs, ReadUnmark(p) PROVE BindInv'
  BY <1>14 DEF ReadUnmark
<1>15. ASSUME NEW p \in Procs, ReadExit(p) PROVE BindInv'
  BY <1>15 DEF ReadExit
<1>16. ASSUME NEW p \in Procs, WriteDown(p) PROVE BindInv'
  BY <1>16 DEF WriteDown
<1>17. ASSUME NEW p \in Procs, WriteErrors(p) PROVE BindInv'
  BY <1>17 DEF WriteErrors
<1>18. ASSUME NEW p \in Procs, WriteLock(p) PROVE BindInv'
  BY <1>18 DEF WriteLock, InterfaceThere
<1>19. ASSUME NEW p \in Procs, WriteSubmit(p) PROVE BindInv'
  BY <1>19 DEF WriteSubmit
<1>20. ASSUME NEW p \in Procs, WriteError(p) PROVE BindInv'
  BY <1>20 DEF WriteError, UpOnError
<1>21. ASSUME NEW p \in Procs, FlushLock(p) PROVE BindInv'
  BY <1>21 DEF FlushLock
<1>22. ASSUME NEW p \in Procs, FlushDrain(p) PROVE BindInv'
  BY <1>22 DEF FlushDrain, DrawDown, KillWrites, ReadCallback, CompleteRead
<1>23. ASSUME NEW p \in Procs, FlushErrors(p) PROVE BindInv'
  BY <1>23 DEF FlushErrors
<1>24. ASSUME NEW p \in Procs, ReleaseCount(p) PROVE BindInv'
  BY <1>24 DEF ReleaseCount
<1>25. ASSUME NEW p \in Procs, ReleasePut(p) PROVE BindInv'
  BY <1>25 DEF ReleasePut, KrefPut
<1>26. CASE HcRead
  BY <1>26 DEF HcRead, ReadCallback, CompleteRead
<1>27. CASE HcWrite
  BY <1>27 DEF HcWrite
<1>28. CASE PreResetLock
  BY <1>28 DEF PreResetLock, CoreGoto
<1>29. CASE PreResetDrain
  BY <1>29
     DEF PreResetDrain, CoreGoto, DrawDown, KillWrites, ReadCallback,
         CompleteRead
<1>30. CASE PostReset
  BY <1>30 DEF PostReset, CoreGoto
<1>31. CASE Suspend
  BY <1>31 DEF Suspend, DrawDown, KillWrites, ReadCallback, CompleteRead
<1>32. CASE Unbind
  BY <1>32 DEF Unbind, DrawDown, KillWrites, ReadCallback, CompleteRead
<1>33. CASE DisconnectClear
  BY <1>33 DEF DisconnectClear
<1>34. CASE DisconnectDeregister
  BY <1>34 DEF DisconnectDeregister, NobodyOpening
<1>35. CASE DisconnectLock
  BY <1>35 DEF DisconnectLock, CoreGoto
<1>36. CASE DisconnectKill
  BY <1>36 DEF DisconnectKill, CoreGoto, KillWrites
<1>37. CASE DisconnectPut
  BY <1>37 DEF DisconnectPut, CoreGoto, KrefPut
<1>39. ASSUME NEW p \in Procs, LockSignal(p) PROVE BindInv'
  BY <1>39 DEF LockSignal
<1>40. ASSUME NEW p \in Procs, WriteCall(p) PROVE BindInv'
  BY <1>40 DEF WriteCall
<1>41. ASSUME NEW p \in Procs, DownSignal(p) PROVE BindInv'
  BY <1>41 DEF DownSignal
<1>42. ASSUME NEW p \in Procs, FlushCall(p) PROVE BindInv'
  BY <1>42 DEF FlushCall
<1>38. CASE UNCHANGED vars
  BY <1>38 DEF vars
<1> QED
  BY <1>1, <1>2, <1>3, <1>4, <1>5, <1>6, <1>7, <1>8, <1>9, <1>10, <1>11,
     <1>12, <1>13, <1>14, <1>15, <1>16, <1>17, <1>18, <1>19, <1>20, <1>21,
     <1>22, <1>23, <1>24, <1>25, <1>26, <1>27, <1>28, <1>29, <1>30, <1>31,
     <1>32, <1>33, <1>34, <1>35, <1>36, <1>37, <1>38, <1>39, <1>40, <1>41,
     <1>42
     DEF Next, Open, Read, Write, Close, Call, Signal, Reset, Disconnect, Finished


(* Every step leaves a device drawn down while io_mutex is held.           *)
LEMMA DrawnStep ==
    TypeOK /\ MutexInv /\ DrawnDown /\ [Next]_vars => DrawnDown'
<1> SUFFICES ASSUME TypeOK, MutexInv, DrawnDown, [Next]_vars
             PROVE  DrawnDown'
  OBVIOUS
<1> USE ThreadsAssumption, SizesAssumption DEF call, binding, opens, readio,
        data, writeio, Goto, TypeOK, MutexInv, Holding, InRead, MutexFree,
        DrawnDown, Idle
<1>1. ASSUME NEW p \in Procs, OpenFind(p) PROVE DrawnDown'
  BY <1>1 DEF OpenFind
<1>2. ASSUME NEW p \in Procs, OpenRef(p) PROVE DrawnDown'
  BY <1>2 DEF OpenRef, KrefGet
<1>3. ASSUME NEW p \in Procs, OpenCount(p) PROVE DrawnDown'
  BY <1>3 DEF OpenCount, KrefPut
<1>4. ASSUME NEW p \in Procs, ReadCall(p) PROVE DrawnDown'
  BY <1>4 DEF ReadCall
<1>5. ASSUME NEW p \in Procs, ReadLock(p) PROVE DrawnDown'
  BY <1>5 DEF ReadLock
<1>6. ASSUME NEW p \in Procs, ReadRetry(p) PROVE DrawnDown'
  BY <1>6 DEF ReadRetry
<1>7. ASSUME NEW p \in Procs, ReadWait(p) PROVE DrawnDown'
  BY <1>7 DEF ReadWait
<1>8. ASSUME NEW p \in Procs, ReadSignal(p) PROVE DrawnDown'
  BY <1>8 DEF ReadSignal
<1>9. ASSUME NEW p \in Procs, ReadErrors(p) PROVE DrawnDown'
  BY <1>9 DEF ReadErrors
<1>10. ASSUME NEW p \in Procs, ReadClear(p) PROVE DrawnDown'
  BY <1>10 DEF ReadClear
<1>11. ASSUME NEW p \in Procs, ReadData(p) PROVE DrawnDown'
  BY <1>11 DEF ReadData, StartIo, Least
<1>12. ASSUME NEW p \in Procs, ReadStart(p) PROVE DrawnDown'
  BY <1>12 DEF ReadStart
<1>13. ASSUME NEW p \in Procs, ReadSubmit(p) PROVE DrawnDown'
  BY <1>13 DEF ReadSubmit, IoStarted, Least
<1>14. ASSUME NEW p \in Procs, ReadUnmark(p) PROVE DrawnDown'
  BY <1>14 DEF ReadUnmark
<1>15. ASSUME NEW p \in Procs, ReadExit(p) PROVE DrawnDown'
  BY <1>15 DEF ReadExit
<1>16. ASSUME NEW p \in Procs, WriteDown(p) PROVE DrawnDown'
  BY <1>16 DEF WriteDown
<1>17. ASSUME NEW p \in Procs, WriteErrors(p) PROVE DrawnDown'
  BY <1>17 DEF WriteErrors
<1>18. ASSUME NEW p \in Procs, WriteLock(p) PROVE DrawnDown'
  BY <1>18 DEF WriteLock, InterfaceThere
<1>19. ASSUME NEW p \in Procs, WriteSubmit(p) PROVE DrawnDown'
  BY <1>19 DEF WriteSubmit
<1>20. ASSUME NEW p \in Procs, WriteError(p) PROVE DrawnDown'
  BY <1>20 DEF WriteError, UpOnError
<1>21. ASSUME NEW p \in Procs, FlushLock(p) PROVE DrawnDown'
  BY <1>21 DEF FlushLock
<1>22. ASSUME NEW p \in Procs, FlushDrain(p) PROVE DrawnDown'
  BY <1>22 DEF FlushDrain, DrawDown, KillWrites, ReadCallback, CompleteRead
<1>23. ASSUME NEW p \in Procs, FlushErrors(p) PROVE DrawnDown'
  BY <1>23 DEF FlushErrors
<1>24. ASSUME NEW p \in Procs, ReleaseCount(p) PROVE DrawnDown'
  BY <1>24 DEF ReleaseCount
<1>25. ASSUME NEW p \in Procs, ReleasePut(p) PROVE DrawnDown'
  BY <1>25 DEF ReleasePut, KrefPut
<1>26. CASE HcRead
  BY <1>26 DEF HcRead, ReadCallback, CompleteRead
<1>27. CASE HcWrite
  BY <1>27 DEF HcWrite
<1>28. CASE PreResetLock
  BY <1>28 DEF PreResetLock, CoreGoto
<1>29. CASE PreResetDrain
  BY <1>29
     DEF PreResetDrain, CoreGoto, DrawDown, KillWrites, ReadCallback,
         CompleteRead
<1>30. CASE PostReset
  BY <1>30 DEF PostReset, CoreGoto
<1>31. CASE Suspend
  BY <1>31 DEF Suspend, DrawDown, KillWrites, ReadCallback, CompleteRead
<1>32. CASE Unbind
  BY <1>32 DEF Unbind, DrawDown, KillWrites, ReadCallback, CompleteRead
<1>33. CASE DisconnectClear
  BY <1>33 DEF DisconnectClear
<1>34. CASE DisconnectDeregister
  BY <1>34 DEF DisconnectDeregister, NobodyOpening
<1>35. CASE DisconnectLock
  BY <1>35 DEF DisconnectLock, CoreGoto
<1>36. CASE DisconnectKill
  BY <1>36 DEF DisconnectKill, CoreGoto, KillWrites
<1>37. CASE DisconnectPut
  BY <1>37 DEF DisconnectPut, CoreGoto, KrefPut
<1>39. ASSUME NEW p \in Procs, LockSignal(p) PROVE DrawnDown'
  BY <1>39 DEF LockSignal
<1>40. ASSUME NEW p \in Procs, WriteCall(p) PROVE DrawnDown'
  BY <1>40 DEF WriteCall
<1>41. ASSUME NEW p \in Procs, DownSignal(p) PROVE DrawnDown'
  BY <1>41 DEF DownSignal
<1>42. ASSUME NEW p \in Procs, FlushCall(p) PROVE DrawnDown'
  BY <1>42 DEF FlushCall
<1>38. CASE UNCHANGED vars
  BY <1>38 DEF vars
<1> QED
  BY <1>1, <1>2, <1>3, <1>4, <1>5, <1>6, <1>7, <1>8, <1>9, <1>10, <1>11,
     <1>12, <1>13, <1>14, <1>15, <1>16, <1>17, <1>18, <1>19, <1>20, <1>21,
     <1>22, <1>23, <1>24, <1>25, <1>26, <1>27, <1>28, <1>29, <1>30, <1>31,
     <1>32, <1>33, <1>34, <1>35, <1>36, <1>37, <1>38, <1>39, <1>40, <1>41,
     <1>42
     DEF Next, Open, Read, Write, Close, Call, Signal, Reset, Disconnect, Finished


(* Every step of a read or of its URB leaves a waiting reader its wake-up. *)
LEMMA ReadStep ==
    TypeOK /\ MutexInv /\ ReadInv /\ [Next]_vars => ReadInv'
<1> SUFFICES ASSUME TypeOK, MutexInv, ReadInv, [Next]_vars
             PROVE  ReadInv'
  OBVIOUS
<1> USE ThreadsAssumption, SizesAssumption DEF call, binding, opens, readio,
        data, writeio, Goto, TypeOK, MutexInv, Holding, InRead, MutexFree,
        ReadInv, ReaderIsWoken, At, Idle
<1>1. ASSUME NEW p \in Procs, OpenFind(p) PROVE ReadInv'
  BY <1>1 DEF OpenFind
<1>2. ASSUME NEW p \in Procs, OpenRef(p) PROVE ReadInv'
  BY <1>2 DEF OpenRef, KrefGet
<1>3. ASSUME NEW p \in Procs, OpenCount(p) PROVE ReadInv'
  BY <1>3 DEF OpenCount, KrefPut
<1>4. ASSUME NEW p \in Procs, ReadCall(p) PROVE ReadInv'
  BY <1>4 DEF ReadCall
<1>5. ASSUME NEW p \in Procs, ReadLock(p) PROVE ReadInv'
  BY <1>5 DEF ReadLock
<1>6. ASSUME NEW p \in Procs, ReadRetry(p) PROVE ReadInv'
  BY <1>6 DEF ReadRetry
<1>7. ASSUME NEW p \in Procs, ReadWait(p) PROVE ReadInv'
  BY <1>7 DEF ReadWait
<1>8. ASSUME NEW p \in Procs, ReadSignal(p) PROVE ReadInv'
  BY <1>8 DEF ReadSignal
<1>9. ASSUME NEW p \in Procs, ReadErrors(p) PROVE ReadInv'
  BY <1>9 DEF ReadErrors
<1>10. ASSUME NEW p \in Procs, ReadClear(p) PROVE ReadInv'
  BY <1>10 DEF ReadClear
<1>11. ASSUME NEW p \in Procs, ReadData(p) PROVE ReadInv'
  <2>1. /\ \A q \in Procs : q # p => pc'[q] = pc[q]
        /\ pc[p] = "r_data" /\ pc'[p] \in {"r_start", "r_exit"}
    BY <1>11 DEF ReadData, StartIo
  <2>2. /\ \A q \in Procs : q # p => count'[q] = count[q]
        /\ pc'[p] # "r_exit" => count'[p] > 0
    BY <1>11, <2>1, ReadDataEffect
  <2>3. UNCHANGED readio
    BY <1>11 DEF ReadData
  <2> QED
    BY <2>1, <2>2, <2>3
<1>12. ASSUME NEW p \in Procs, ReadStart(p) PROVE ReadInv'
  BY <1>12 DEF ReadStart
<1>13. ASSUME NEW p \in Procs, ReadSubmit(p) PROVE ReadInv'
  BY <1>13 DEF ReadSubmit, IoStarted, Least
<1>14. ASSUME NEW p \in Procs, ReadUnmark(p) PROVE ReadInv'
  BY <1>14 DEF ReadUnmark
<1>15. ASSUME NEW p \in Procs, ReadExit(p) PROVE ReadInv'
  BY <1>15 DEF ReadExit
<1>16. ASSUME NEW p \in Procs, WriteDown(p) PROVE ReadInv'
  BY <1>16 DEF WriteDown
<1>17. ASSUME NEW p \in Procs, WriteErrors(p) PROVE ReadInv'
  BY <1>17 DEF WriteErrors
<1>18. ASSUME NEW p \in Procs, WriteLock(p) PROVE ReadInv'
  BY <1>18 DEF WriteLock, InterfaceThere
<1>19. ASSUME NEW p \in Procs, WriteSubmit(p) PROVE ReadInv'
  BY <1>19 DEF WriteSubmit
<1>20. ASSUME NEW p \in Procs, WriteError(p) PROVE ReadInv'
  BY <1>20 DEF WriteError, UpOnError
<1>21. ASSUME NEW p \in Procs, FlushLock(p) PROVE ReadInv'
  BY <1>21 DEF FlushLock
<1>22. ASSUME NEW p \in Procs, FlushDrain(p) PROVE ReadInv'
  BY <1>22 DEF FlushDrain, DrawDown, KillWrites, ReadCallback, CompleteRead
<1>23. ASSUME NEW p \in Procs, FlushErrors(p) PROVE ReadInv'
  BY <1>23 DEF FlushErrors
<1>24. ASSUME NEW p \in Procs, ReleaseCount(p) PROVE ReadInv'
  BY <1>24 DEF ReleaseCount
<1>25. ASSUME NEW p \in Procs, ReleasePut(p) PROVE ReadInv'
  BY <1>25 DEF ReleasePut, KrefPut
<1>26. CASE HcRead
  BY <1>26 DEF HcRead, ReadCallback, CompleteRead
<1>27. CASE HcWrite
  BY <1>27 DEF HcWrite
<1>28. CASE PreResetLock
  BY <1>28 DEF PreResetLock, CoreGoto
<1>29. CASE PreResetDrain
  BY <1>29
     DEF PreResetDrain, CoreGoto, DrawDown, KillWrites, ReadCallback,
         CompleteRead
<1>30. CASE PostReset
  BY <1>30 DEF PostReset, CoreGoto
<1>31. CASE Suspend
  BY <1>31 DEF Suspend, DrawDown, KillWrites, ReadCallback, CompleteRead
<1>32. CASE Unbind
  BY <1>32 DEF Unbind, DrawDown, KillWrites, ReadCallback, CompleteRead
<1>33. CASE DisconnectClear
  BY <1>33 DEF DisconnectClear
<1>34. CASE DisconnectDeregister
  BY <1>34 DEF DisconnectDeregister, NobodyOpening
<1>35. CASE DisconnectLock
  BY <1>35 DEF DisconnectLock, CoreGoto
<1>36. CASE DisconnectKill
  BY <1>36 DEF DisconnectKill, CoreGoto, KillWrites
<1>37. CASE DisconnectPut
  BY <1>37 DEF DisconnectPut, CoreGoto, KrefPut
<1>39. ASSUME NEW p \in Procs, LockSignal(p) PROVE ReadInv'
  BY <1>39 DEF LockSignal
<1>40. ASSUME NEW p \in Procs, WriteCall(p) PROVE ReadInv'
  BY <1>40 DEF WriteCall
<1>41. ASSUME NEW p \in Procs, DownSignal(p) PROVE ReadInv'
  BY <1>41 DEF DownSignal
<1>42. ASSUME NEW p \in Procs, FlushCall(p) PROVE ReadInv'
  BY <1>42 DEF FlushCall
<1>38. CASE UNCHANGED vars
  BY <1>38 DEF vars
<1> QED
  BY <1>1, <1>2, <1>3, <1>4, <1>5, <1>6, <1>7, <1>8, <1>9, <1>10, <1>11,
     <1>12, <1>13, <1>14, <1>15, <1>16, <1>17, <1>18, <1>19, <1>20, <1>21,
     <1>22, <1>23, <1>24, <1>25, <1>26, <1>27, <1>28, <1>29, <1>30, <1>31,
     <1>32, <1>33, <1>34, <1>35, <1>36, <1>37, <1>38, <1>39, <1>40, <1>41,
     <1>42
     DEF Next, Open, Read, Write, Close, Call, Signal, Reset, Disconnect, Finished


(* Every step counts what it takes and gives back.                         *)
LEMMA CountStep ==
    TypeOK /\ BindInv /\ CountInv /\ [Next]_vars => CountInv'
<1> SUFFICES ASSUME TypeOK, BindInv, CountInv, [Next]_vars
             PROVE  CountInv'
  OBVIOUS
<1> USE SizesAssumption DEF call, binding, opens, readio, data, writeio, Goto
<1>1. ASSUME NEW p \in Procs, OpenFind(p) PROVE CountInv'
  <2>1. \E l \in {"o_ref", "done"} : Goto(p, l)
    BY <1>1 DEF OpenFind, binding, opens, writeio
  <2>2. /\ pc[p] \in {"closed"}
        /\ UNCHANGED <<core, kref, open_count, pm, interface, writes, limit_sem>>
    BY <1>1 DEF OpenFind, binding, opens, writeio
  <2>3. limit_sem' \in Int /\ writes' \in Int /\ limit_sem' + writes' = limit_sem + writes
    BY <2>2, SizesAssumption DEF TypeOK
  <2> QED
    BY <2>1, <2>2, <2>3, CountsKept DEF Referring, Counted, InRead, InWrite
<1>2. ASSUME NEW p \in Procs, OpenRef(p) PROVE CountInv'
  <2>1. /\ pc[p] = "o_ref" /\ Goto(p, "o_lock")
        /\ kref' = kref + 1 /\ UNCHANGED <<core, interface, open_count, pm, limit_sem, writes>>
    BY <1>2 DEF OpenRef, KrefGet, binding, opens, writeio
  <2>2. /\ Delta(Referring, "o_ref", "o_lock") = 1
        /\ Delta(Counted, "o_ref", "o_lock") = 0
        /\ Delta(InWrite, "o_ref", "o_lock") = 0
    BY DEF Delta, Referring, Counted, InRead, InWrite
  <2>3. open_count > 0 /\ interface => pm > 0
    BY DEF CountInv
  <2>5. /\ limit_sem' \in Int /\ writes' \in Int
        /\ kref' = kref + 1 /\ open_count' = open_count + 0
        /\ limit_sem' + writes' = limit_sem + writes - 0
        /\ open_count' > 0 /\ interface' => pm' > 0
    BY <2>1, <2>3, SizesAssumption DEF TypeOK
  <2> QED
    BY <2>1, <2>2, <2>5, CountsChange
<1>3. ASSUME NEW p \in Procs, OpenCount(p) PROVE CountInv'
  <2>1. CASE /\ pc[p] = "o_lock" /\ Goto(p, "open") /\ open_count' = open_count + 1
             /\ pm' = IF open_count = 0 THEN pm + 1 ELSE pm
             /\ UNCHANGED <<core, interface, kref, limit_sem, writes>>
    <3>2. /\ Delta(Referring, "o_lock", "open") = 0
          /\ Delta(Counted, "o_lock", "open") = 1
          /\ Delta(InWrite, "o_lock", "open") = 0
      BY DEF Delta, Referring, Counted, InRead, InWrite
    <3>3. open_count > 0 /\ interface => pm > 0
      BY DEF CountInv
    <3>5. /\ limit_sem' \in Int /\ writes' \in Int
          /\ kref' = kref + 0 /\ open_count' = open_count + 1
          /\ limit_sem' + writes' = limit_sem + writes - 0
          /\ open_count' > 0 /\ interface' => pm' > 0
      BY <2>1, <3>3, SizesAssumption DEF TypeOK
    <3> QED
      BY <2>1, <3>2, <3>5, CountsChange
  <2>2. CASE /\ pc[p] = "o_lock" /\ Goto(p, "done") /\ kref' = kref - 1
             /\ UNCHANGED <<core, interface, open_count, pm, limit_sem, writes>>
    <3>2. /\ Delta(Referring, "o_lock", "done") = -1
          /\ Delta(Counted, "o_lock", "done") = 0
          /\ Delta(InWrite, "o_lock", "done") = 0
      BY DEF Delta, Referring, Counted, InRead, InWrite
    <3>3. open_count > 0 /\ interface => pm > 0
      BY DEF CountInv
    <3>5. /\ limit_sem' \in Int /\ writes' \in Int
          /\ kref' = kref + -1 /\ open_count' = open_count + 0
          /\ limit_sem' + writes' = limit_sem + writes - 0
          /\ open_count' > 0 /\ interface' => pm' > 0
      BY <2>2, <3>3, SizesAssumption DEF TypeOK
    <3> QED
      BY <2>2, <3>2, <3>5, CountsChange
  <2> QED
    BY <1>3, <2>1, <2>2 DEF OpenCount, KrefPut, binding, writeio
<1>4. ASSUME NEW p \in Procs, ReadCall(p) PROVE CountInv'
  <2>1. \E l \in {"r_lock"} : Goto(p, l)
    BY <1>4 DEF ReadCall, binding, opens, writeio
  <2>2. /\ pc[p] \in {"open"}
        /\ UNCHANGED <<core, kref, open_count, pm, interface, writes, limit_sem>>
    BY <1>4 DEF ReadCall, binding, opens, writeio
  <2>3. limit_sem' \in Int /\ writes' \in Int /\ limit_sem' + writes' = limit_sem + writes
    BY <2>2, SizesAssumption DEF TypeOK
  <2> QED
    BY <2>1, <2>2, <2>3, CountsKept DEF Referring, Counted, InRead, InWrite
<1>5. ASSUME NEW p \in Procs, ReadLock(p) PROVE CountInv'
  <2>1. \E l \in {"r_retry", "r_exit"} : Goto(p, l)
    BY <1>5 DEF ReadLock, binding, opens, writeio
  <2>2. /\ pc[p] \in {"r_lock"}
        /\ UNCHANGED <<core, kref, open_count, pm, interface, writes, limit_sem>>
    BY <1>5 DEF ReadLock, binding, opens, writeio
  <2>3. limit_sem' \in Int /\ writes' \in Int /\ limit_sem' + writes' = limit_sem + writes
    BY <2>2, SizesAssumption DEF TypeOK
  <2> QED
    BY <2>1, <2>2, <2>3, CountsKept DEF Referring, Counted, InRead, InWrite
<1>6. ASSUME NEW p \in Procs, ReadRetry(p) PROVE CountInv'
  <2>1. \E l \in {"r_exit", "r_wait", "r_errors"} : Goto(p, l)
    BY <1>6 DEF ReadRetry, binding, opens, writeio
  <2>2. /\ pc[p] \in {"r_retry"}
        /\ UNCHANGED <<core, kref, open_count, pm, interface, writes, limit_sem>>
    BY <1>6 DEF ReadRetry, binding, opens, writeio
  <2>3. limit_sem' \in Int /\ writes' \in Int /\ limit_sem' + writes' = limit_sem + writes
    BY <2>2, SizesAssumption DEF TypeOK
  <2> QED
    BY <2>1, <2>2, <2>3, CountsKept DEF Referring, Counted, InRead, InWrite
<1>7. ASSUME NEW p \in Procs, ReadWait(p) PROVE CountInv'
  <2>1. \E l \in {"r_errors"} : Goto(p, l)
    BY <1>7 DEF ReadWait, binding, opens, writeio
  <2>2. /\ pc[p] \in {"r_wait"}
        /\ UNCHANGED <<core, kref, open_count, pm, interface, writes, limit_sem>>
    BY <1>7 DEF ReadWait, binding, opens, writeio
  <2>3. limit_sem' \in Int /\ writes' \in Int /\ limit_sem' + writes' = limit_sem + writes
    BY <2>2, SizesAssumption DEF TypeOK
  <2> QED
    BY <2>1, <2>2, <2>3, CountsKept DEF Referring, Counted, InRead, InWrite
<1>8. ASSUME NEW p \in Procs, ReadSignal(p) PROVE CountInv'
  <2>1. \E l \in {"r_exit"} : Goto(p, l)
    BY <1>8 DEF ReadSignal, binding, opens, writeio
  <2>2. /\ pc[p] \in {"r_wait"}
        /\ UNCHANGED <<core, kref, open_count, pm, interface, writes, limit_sem>>
    BY <1>8 DEF ReadSignal, binding, opens, writeio
  <2>3. limit_sem' \in Int /\ writes' \in Int /\ limit_sem' + writes' = limit_sem + writes
    BY <2>2, SizesAssumption DEF TypeOK
  <2> QED
    BY <2>1, <2>2, <2>3, CountsKept DEF Referring, Counted, InRead, InWrite
<1>9. ASSUME NEW p \in Procs, ReadErrors(p) PROVE CountInv'
  <2>1. \E l \in {"r_data", "r_clear"} : Goto(p, l)
    BY <1>9 DEF ReadErrors, binding, opens, writeio
  <2>2. /\ pc[p] \in {"r_errors"}
        /\ UNCHANGED <<core, kref, open_count, pm, interface, writes, limit_sem>>
    BY <1>9 DEF ReadErrors, binding, opens, writeio
  <2>3. limit_sem' \in Int /\ writes' \in Int /\ limit_sem' + writes' = limit_sem + writes
    BY <2>2, SizesAssumption DEF TypeOK
  <2> QED
    BY <2>1, <2>2, <2>3, CountsKept DEF Referring, Counted, InRead, InWrite
<1>10. ASSUME NEW p \in Procs, ReadClear(p) PROVE CountInv'
  <2>1. \E l \in {"r_exit"} : Goto(p, l)
    BY <1>10 DEF ReadClear, binding, opens, writeio
  <2>2. /\ pc[p] \in {"r_clear"}
        /\ UNCHANGED <<core, kref, open_count, pm, interface, writes, limit_sem>>
    BY <1>10 DEF ReadClear, binding, opens, writeio
  <2>3. limit_sem' \in Int /\ writes' \in Int /\ limit_sem' + writes' = limit_sem + writes
    BY <2>2, SizesAssumption DEF TypeOK
  <2> QED
    BY <2>1, <2>2, <2>3, CountsKept DEF Referring, Counted, InRead, InWrite
<1>11. ASSUME NEW p \in Procs, ReadData(p) PROVE CountInv'
  <2>1. \E l \in {"r_start", "r_exit"} : Goto(p, l)
    BY <1>11 DEF ReadData, StartIo, binding, opens, writeio
  <2>2. /\ pc[p] \in {"r_data"}
        /\ UNCHANGED <<core, kref, open_count, pm, interface, writes, limit_sem>>
    BY <1>11 DEF ReadData, StartIo, binding, opens, writeio
  <2>3. limit_sem' \in Int /\ writes' \in Int /\ limit_sem' + writes' = limit_sem + writes
    BY <2>2, SizesAssumption DEF TypeOK
  <2> QED
    BY <2>1, <2>2, <2>3, CountsKept DEF Referring, Counted, InRead, InWrite
<1>12. ASSUME NEW p \in Procs, ReadStart(p) PROVE CountInv'
  <2>1. \E l \in {"r_submit"} : Goto(p, l)
    BY <1>12 DEF ReadStart, binding, opens, writeio
  <2>2. /\ pc[p] \in {"r_start"}
        /\ UNCHANGED <<core, kref, open_count, pm, interface, writes, limit_sem>>
    BY <1>12 DEF ReadStart, binding, opens, writeio
  <2>3. limit_sem' \in Int /\ writes' \in Int /\ limit_sem' + writes' = limit_sem + writes
    BY <2>2, SizesAssumption DEF TypeOK
  <2> QED
    BY <2>1, <2>2, <2>3, CountsKept DEF Referring, Counted, InRead, InWrite
<1>13. ASSUME NEW p \in Procs, ReadSubmit(p) PROVE CountInv'
  <2>1. \E l \in {"r_retry", "r_exit", "r_unmark"} : Goto(p, l)
    BY <1>13 DEF ReadSubmit, IoStarted, binding, opens, writeio
  <2>2. /\ pc[p] \in {"r_submit"}
        /\ UNCHANGED <<core, kref, open_count, pm, interface, writes, limit_sem>>
    BY <1>13 DEF ReadSubmit, IoStarted, binding, opens, writeio
  <2>3. limit_sem' \in Int /\ writes' \in Int /\ limit_sem' + writes' = limit_sem + writes
    BY <2>2, SizesAssumption DEF TypeOK
  <2> QED
    BY <2>1, <2>2, <2>3, CountsKept DEF Referring, Counted, InRead, InWrite
<1>14. ASSUME NEW p \in Procs, ReadUnmark(p) PROVE CountInv'
  <2>1. \E l \in {"r_exit"} : Goto(p, l)
    BY <1>14 DEF ReadUnmark, binding, opens, writeio
  <2>2. /\ pc[p] \in {"r_unmark"}
        /\ UNCHANGED <<core, kref, open_count, pm, interface, writes, limit_sem>>
    BY <1>14 DEF ReadUnmark, binding, opens, writeio
  <2>3. limit_sem' \in Int /\ writes' \in Int /\ limit_sem' + writes' = limit_sem + writes
    BY <2>2, SizesAssumption DEF TypeOK
  <2> QED
    BY <2>1, <2>2, <2>3, CountsKept DEF Referring, Counted, InRead, InWrite
<1>15. ASSUME NEW p \in Procs, ReadExit(p) PROVE CountInv'
  <2>1. \E l \in {"open"} : Goto(p, l)
    BY <1>15 DEF ReadExit, binding, opens, writeio
  <2>2. /\ pc[p] \in {"r_exit"}
        /\ UNCHANGED <<core, kref, open_count, pm, interface, writes, limit_sem>>
    BY <1>15 DEF ReadExit, binding, opens, writeio
  <2>3. limit_sem' \in Int /\ writes' \in Int /\ limit_sem' + writes' = limit_sem + writes
    BY <2>2, SizesAssumption DEF TypeOK
  <2> QED
    BY <2>1, <2>2, <2>3, CountsKept DEF Referring, Counted, InRead, InWrite
<1>16. ASSUME NEW p \in Procs, WriteDown(p) PROVE CountInv'
  <2>1. CASE /\ pc[p] = "w_down" /\ Goto(p, "w_errors")
             /\ limit_sem' = limit_sem - 1
             /\ UNCHANGED <<core, interface, open_count, pm, kref, writes>>
    <3>2. /\ Delta(Referring, "w_down", "w_errors") = 0
          /\ Delta(Counted, "w_down", "w_errors") = 0
          /\ Delta(InWrite, "w_down", "w_errors") = 1
      BY DEF Delta, Referring, Counted, InRead, InWrite
    <3>3. open_count > 0 /\ interface => pm > 0
      BY DEF CountInv
    <3>5. /\ limit_sem' \in Int /\ writes' \in Int
          /\ kref' = kref + 0 /\ open_count' = open_count + 0
          /\ limit_sem' + writes' = limit_sem + writes - 1
          /\ open_count' > 0 /\ interface' => pm' > 0
      BY <2>1, <3>3, SizesAssumption DEF TypeOK
    <3> QED
      BY <2>1, <3>2, <3>5, CountsChange
  <2>2. CASE /\ pc[p] = "w_down" /\ Goto(p, "open")
             /\ UNCHANGED <<core, kref, open_count, pm, interface, writes, limit_sem>>
    <3>1. limit_sem' \in Int /\ writes' \in Int /\ limit_sem' + writes' = limit_sem + writes
      BY <2>2, SizesAssumption DEF TypeOK
    <3> QED
      BY <2>2, <3>1, CountsKept DEF Referring, Counted, InRead, InWrite
  <2> QED
    BY <1>16, <2>1, <2>2 DEF WriteDown, binding, opens
<1>17. ASSUME NEW p \in Procs, WriteErrors(p) PROVE CountInv'
  <2>1. \E l \in {"w_lock", "w_error"} : Goto(p, l)
    BY <1>17 DEF WriteErrors, binding, opens, writeio
  <2>2. /\ pc[p] \in {"w_errors"}
        /\ UNCHANGED <<core, kref, open_count, pm, interface, writes, limit_sem>>
    BY <1>17 DEF WriteErrors, binding, opens, writeio
  <2>3. limit_sem' \in Int /\ writes' \in Int /\ limit_sem' + writes' = limit_sem + writes
    BY <2>2, SizesAssumption DEF TypeOK
  <2> QED
    BY <2>1, <2>2, <2>3, CountsKept DEF Referring, Counted, InRead, InWrite
<1>18. ASSUME NEW p \in Procs, WriteLock(p) PROVE CountInv'
  <2>1. \E l \in {"w_submit", "w_error"} : Goto(p, l)
    BY <1>18 DEF WriteLock, binding, opens, writeio
  <2>2. /\ pc[p] \in {"w_lock"}
        /\ UNCHANGED <<core, kref, open_count, pm, interface, writes, limit_sem>>
    BY <1>18 DEF WriteLock, binding, opens, writeio
  <2>3. limit_sem' \in Int /\ writes' \in Int /\ limit_sem' + writes' = limit_sem + writes
    BY <2>2, SizesAssumption DEF TypeOK
  <2> QED
    BY <2>1, <2>2, <2>3, CountsKept DEF Referring, Counted, InRead, InWrite
<1>19. ASSUME NEW p \in Procs, WriteSubmit(p) PROVE CountInv'
  <2>1. CASE /\ pc[p] = "w_submit" /\ Goto(p, "open") /\ writes' = writes + 1
             /\ UNCHANGED <<core, interface, open_count, pm, kref, limit_sem>>
    <3>2. /\ Delta(Referring, "w_submit", "open") = 0
          /\ Delta(Counted, "w_submit", "open") = 0
          /\ Delta(InWrite, "w_submit", "open") = -1
      BY DEF Delta, Referring, Counted, InRead, InWrite
    <3>3. open_count > 0 /\ interface => pm > 0
      BY DEF CountInv
    <3>5. /\ limit_sem' \in Int /\ writes' \in Int
          /\ kref' = kref + 0 /\ open_count' = open_count + 0
          /\ limit_sem' + writes' = limit_sem + writes - -1
          /\ open_count' > 0 /\ interface' => pm' > 0
      BY <2>1, <3>3, SizesAssumption DEF TypeOK
    <3> QED
      BY <2>1, <3>2, <3>5, CountsChange
  <2>2. CASE /\ pc[p] = "w_submit" /\ Goto(p, "w_error")
             /\ UNCHANGED <<core, kref, open_count, pm, interface, writes, limit_sem>>
    <3>1. limit_sem' \in Int /\ writes' \in Int /\ limit_sem' + writes' = limit_sem + writes
      BY <2>2, SizesAssumption DEF TypeOK
    <3> QED
      BY <2>2, <3>1, CountsKept DEF Referring, Counted, InRead, InWrite
  <2> QED
    BY <1>19, <2>1, <2>2 DEF WriteSubmit, binding, opens
<1>20. ASSUME NEW p \in Procs, WriteError(p) PROVE CountInv'
  <2>1. /\ pc[p] = "w_error" /\ Goto(p, "open")
        /\ limit_sem' = limit_sem + 1 /\ UNCHANGED <<core, interface, open_count, pm, kref, writes>>
    BY <1>20 DEF WriteError, UpOnError, binding, opens, writeio
  <2>2. /\ Delta(Referring, "w_error", "open") = 0
        /\ Delta(Counted, "w_error", "open") = 0
        /\ Delta(InWrite, "w_error", "open") = -1
    BY DEF Delta, Referring, Counted, InRead, InWrite
  <2>3. open_count > 0 /\ interface => pm > 0
    BY DEF CountInv
  <2>5. /\ limit_sem' \in Int /\ writes' \in Int
        /\ kref' = kref + 0 /\ open_count' = open_count + 0
        /\ limit_sem' + writes' = limit_sem + writes - -1
        /\ open_count' > 0 /\ interface' => pm' > 0
    BY <2>1, <2>3, SizesAssumption DEF TypeOK
  <2> QED
    BY <2>1, <2>2, <2>5, CountsChange
<1>21. ASSUME NEW p \in Procs, FlushLock(p) PROVE CountInv'
  <2>1. \E l \in {"f_drain"} : Goto(p, l)
    BY <1>21 DEF FlushLock, binding, opens, writeio
  <2>2. /\ pc[p] \in {"f_lock"}
        /\ UNCHANGED <<core, kref, open_count, pm, interface, writes, limit_sem>>
    BY <1>21 DEF FlushLock, binding, opens, writeio
  <2>3. limit_sem' \in Int /\ writes' \in Int /\ limit_sem' + writes' = limit_sem + writes
    BY <2>2, SizesAssumption DEF TypeOK
  <2> QED
    BY <2>1, <2>2, <2>3, CountsKept DEF Referring, Counted, InRead, InWrite
<1>22. ASSUME NEW p \in Procs, FlushDrain(p) PROVE CountInv'
  <2>1. /\ limit_sem' = limit_sem + writes /\ writes' = 0
        /\ UNCHANGED <<core, interface, open_count, pm, kref>>
        /\ pc[p] = "f_drain" /\ Goto(p, "f_errors")
    BY <1>22 DEF FlushDrain, DrawDown, KillWrites, binding, opens
  <2>2. limit_sem' \in Int /\ writes' \in Int /\ limit_sem' + writes' = limit_sem + writes
    BY <2>1, SizesAssumption DEF TypeOK
  <2> QED
    BY <2>1, <2>2, CountsKept DEF Referring, Counted, InRead, InWrite
<1>23. ASSUME NEW p \in Procs, FlushErrors(p) PROVE CountInv'
  <2>1. \E l \in {"rel_lock", "open"} : Goto(p, l)
    BY <1>23 DEF FlushErrors, binding, opens, writeio
  <2>2. /\ pc[p] \in {"f_errors"}
        /\ UNCHANGED <<core, kref, open_count, pm, interface, writes, limit_sem>>
    BY <1>23 DEF FlushErrors, binding, opens, writeio
  <2>3. limit_sem' \in Int /\ writes' \in Int /\ limit_sem' + writes' = limit_sem + writes
    BY <2>2, SizesAssumption DEF TypeOK
  <2> QED
    BY <2>1, <2>2, <2>3, CountsKept DEF Referring, Counted, InRead, InWrite
<1>24. ASSUME NEW p \in Procs, ReleaseCount(p) PROVE CountInv'
  <2>1. /\ pc[p] = "rel_lock" /\ Goto(p, "rel_put")
        /\ open_count' = open_count - 1
        /\ IF open_count = 1 /\ interface THEN pm' = pm - 1 ELSE pm' = pm
        /\ UNCHANGED <<core, interface, kref, limit_sem, writes>>
    BY <1>24 DEF ReleaseCount, binding, opens, writeio
  <2>2. /\ Delta(Referring, "rel_lock", "rel_put") = 0
        /\ Delta(Counted, "rel_lock", "rel_put") = -1
        /\ Delta(InWrite, "rel_lock", "rel_put") = 0
    BY DEF Delta, Referring, Counted, InRead, InWrite
  <2>3. open_count > 0 /\ interface => pm > 0
    BY DEF CountInv
  <2>5. /\ limit_sem' \in Int /\ writes' \in Int
        /\ kref' = kref + 0 /\ open_count' = open_count + -1
        /\ limit_sem' + writes' = limit_sem + writes - 0
        /\ open_count' > 0 /\ interface' => pm' > 0
    BY <2>1, <2>3, SizesAssumption DEF TypeOK
  <2> QED
    BY <2>1, <2>2, <2>5, CountsChange
<1>25. ASSUME NEW p \in Procs, ReleasePut(p) PROVE CountInv'
  <2>1. /\ pc[p] = "rel_put" /\ Goto(p, "done")
        /\ kref' = kref - 1 /\ UNCHANGED <<core, interface, open_count, pm, limit_sem, writes>>
    BY <1>25 DEF ReleasePut, KrefPut, binding, opens, writeio
  <2>2. /\ Delta(Referring, "rel_put", "done") = -1
        /\ Delta(Counted, "rel_put", "done") = 0
        /\ Delta(InWrite, "rel_put", "done") = 0
    BY DEF Delta, Referring, Counted, InRead, InWrite
  <2>3. open_count > 0 /\ interface => pm > 0
    BY DEF CountInv
  <2>5. /\ limit_sem' \in Int /\ writes' \in Int
        /\ kref' = kref + -1 /\ open_count' = open_count + 0
        /\ limit_sem' + writes' = limit_sem + writes - 0
        /\ open_count' > 0 /\ interface' => pm' > 0
    BY <2>1, <2>3, SizesAssumption DEF TypeOK
  <2> QED
    BY <2>1, <2>2, <2>5, CountsChange
<1>26. CASE HcRead
  <2>1. /\ limit_sem' = limit_sem /\ writes' = writes
        /\ UNCHANGED <<core, pc, open_count, pm, kref, interface>>
    BY <1>26 DEF HcRead, binding, opens, writeio
  <2>2. limit_sem' \in Int /\ writes' \in Int /\ limit_sem' + writes' = limit_sem + writes
    BY <2>1, SizesAssumption DEF TypeOK
  <2> QED
    BY <2>1, <2>2, CountsStay
<1>27. CASE HcWrite
  <2>1. /\ limit_sem' = limit_sem + 1 /\ writes' = writes - 1
        /\ UNCHANGED <<core, pc, open_count, pm, kref, interface>>
    BY <1>27 DEF HcWrite, binding, opens, writeio
  <2>2. limit_sem' \in Int /\ writes' \in Int /\ limit_sem' + writes' = limit_sem + writes
    BY <2>1, SizesAssumption DEF TypeOK
  <2> QED
    BY <2>1, <2>2, CountsStay
<1>28. CASE PreResetLock
  <2>1. /\ limit_sem' = limit_sem /\ writes' = writes /\ core = "bound" /\ core' = "p_drain"
        /\ UNCHANGED <<pc, open_count, pm, kref, interface>>
    BY <1>28 DEF PreResetLock, CoreGoto, binding, opens, writeio
  <2>2. limit_sem' \in Int /\ writes' \in Int /\ limit_sem' + writes' = limit_sem + writes
    BY <2>1, SizesAssumption DEF TypeOK
  <2> QED
    BY <2>1, <2>2, CountsStay
<1>29. CASE PreResetDrain
  <2>1. /\ limit_sem' = limit_sem + writes /\ writes' = 0
        /\ core = "p_drain" /\ core' = "p_post"
        /\ UNCHANGED <<pc, open_count, pm, kref, interface>>
    BY <1>29
       DEF PreResetDrain, DrawDown, KillWrites, CoreGoto, binding, opens,
           writeio
  <2>2. limit_sem' \in Int /\ writes' \in Int /\ limit_sem' + writes' = limit_sem + writes
    BY <2>1, SizesAssumption DEF TypeOK
  <2> QED
    BY <2>1, <2>2, CountsStay
<1>30. CASE PostReset
  <2>1. /\ limit_sem' = limit_sem /\ writes' = writes /\ core = "p_post" /\ core' = "bound"
        /\ UNCHANGED <<pc, open_count, pm, kref, interface>>
    BY <1>30 DEF PostReset, CoreGoto, binding, opens, writeio
  <2>2. limit_sem' \in Int /\ writes' \in Int /\ limit_sem' + writes' = limit_sem + writes
    BY <2>1, SizesAssumption DEF TypeOK
  <2> QED
    BY <2>1, <2>2, CountsStay
<1>31. CASE Suspend
  <2>1. /\ limit_sem' = limit_sem + writes /\ writes' = 0
        /\ UNCHANGED <<core, pc, open_count, pm, kref, interface>>
    BY <1>31 DEF Suspend, DrawDown, KillWrites, binding, opens, writeio
  <2>2. limit_sem' \in Int /\ writes' \in Int /\ limit_sem' + writes' = limit_sem + writes
    BY <2>1, SizesAssumption DEF TypeOK
  <2> QED
    BY <2>1, <2>2, CountsStay
<1>32. CASE Unbind
  <2>1. /\ limit_sem' = limit_sem + writes /\ writes' = 0
        /\ core = "bound" /\ core' = "d_clear"
        /\ UNCHANGED <<pc, open_count, pm, kref, interface>>
    BY <1>32 DEF Unbind, DrawDown, KillWrites, binding, opens, writeio
  <2>2. limit_sem' \in Int /\ writes' \in Int /\ limit_sem' + writes' = limit_sem + writes
    BY <2>1, SizesAssumption DEF TypeOK
  <2> QED
    BY <2>1, <2>2, CountsStay
<1>33. CASE DisconnectClear
  <2>1. /\ limit_sem' = limit_sem /\ writes' = writes /\ core = "d_clear" /\ core' = "d_deregister"
        /\ UNCHANGED <<pc, open_count, pm, kref, interface>>
    BY <1>33 DEF DisconnectClear, binding, opens, writeio
  <2>2. limit_sem' \in Int /\ writes' \in Int /\ limit_sem' + writes' = limit_sem + writes
    BY <2>1, SizesAssumption DEF TypeOK
  <2> QED
    BY <2>1, <2>2, CountsStay
<1>34. CASE DisconnectDeregister
  <2>1. /\ limit_sem' = limit_sem /\ writes' = writes /\ core = "d_deregister" /\ core' = "d_lock"
        /\ UNCHANGED <<pc, open_count, pm, kref, interface>>
    BY <1>34 DEF DisconnectDeregister, binding, opens, writeio
  <2>2. limit_sem' \in Int /\ writes' \in Int /\ limit_sem' + writes' = limit_sem + writes
    BY <2>1, SizesAssumption DEF TypeOK
  <2> QED
    BY <2>1, <2>2, CountsStay
<1>35. CASE DisconnectLock
  <2>1. /\ limit_sem' = limit_sem /\ writes' = writes /\ core = "d_lock" /\ core' = "d_kill"
        /\ interface' = FALSE /\ UNCHANGED <<pc, open_count, pm, kref>>
    BY <1>35 DEF DisconnectLock, CoreGoto, binding, opens, writeio
  <2>2. limit_sem' \in Int /\ writes' \in Int /\ limit_sem' + writes' = limit_sem + writes
    BY <2>1, SizesAssumption DEF TypeOK
  <2> QED
    BY <2>1, <2>2, CountsStay
<1>36. CASE DisconnectKill
  <2>1. /\ limit_sem' = limit_sem + writes /\ writes' = 0
        /\ core = "d_kill" /\ core' = "d_put"
        /\ UNCHANGED <<pc, open_count, pm, kref, interface>>
    BY <1>36 DEF DisconnectKill, KillWrites, CoreGoto, binding, opens, writeio
  <2>2. limit_sem' \in Int /\ writes' \in Int /\ limit_sem' + writes' = limit_sem + writes
    BY <2>1, SizesAssumption DEF TypeOK
  <2> QED
    BY <2>1, <2>2, CountsStay DEF BindInv
<1>37. CASE DisconnectPut
  <2>1. /\ limit_sem' = limit_sem /\ writes' = writes /\ core = "d_put" /\ core' = "gone"
        /\ kref' = kref - 1 /\ UNCHANGED <<pc, open_count, pm, interface>>
    BY <1>37 DEF DisconnectPut, KrefPut, CoreGoto, binding, opens, writeio
  <2>2. limit_sem' \in Int /\ writes' \in Int /\ limit_sem' + writes' = limit_sem + writes
    BY <2>1, SizesAssumption DEF TypeOK
  <2> QED
    BY <2>1, <2>2, CountsStay DEF BindInv
<1>39. ASSUME NEW p \in Procs, LockSignal(p) PROVE CountInv'
  <2>1. \E l \in {"open"} : Goto(p, l)
    BY <1>39 DEF LockSignal, binding, opens, writeio
  <2>2. /\ pc[p] \in {"r_lock"}
        /\ UNCHANGED <<core, kref, open_count, pm, interface, writes, limit_sem>>
    BY <1>39 DEF LockSignal, binding, opens, writeio
  <2>3. limit_sem' \in Int /\ writes' \in Int /\ limit_sem' + writes' = limit_sem + writes
    BY <2>2, SizesAssumption DEF TypeOK
  <2> QED
    BY <2>1, <2>2, <2>3, CountsKept DEF Referring, Counted, InRead, InWrite
<1>40. ASSUME NEW p \in Procs, WriteCall(p) PROVE CountInv'
  <2>1. \E l \in {"w_down"} : Goto(p, l)
    BY <1>40 DEF WriteCall, binding, opens, writeio
  <2>2. /\ pc[p] \in {"open"}
        /\ UNCHANGED <<core, kref, open_count, pm, interface, writes, limit_sem>>
    BY <1>40 DEF WriteCall, binding, opens, writeio
  <2>3. limit_sem' \in Int /\ writes' \in Int /\ limit_sem' + writes' = limit_sem + writes
    BY <2>2, SizesAssumption DEF TypeOK
  <2> QED
    BY <2>1, <2>2, <2>3, CountsKept DEF Referring, Counted, InRead, InWrite
<1>41. ASSUME NEW p \in Procs, DownSignal(p) PROVE CountInv'
  <2>1. \E l \in {"open"} : Goto(p, l)
    BY <1>41 DEF DownSignal, binding, opens, writeio
  <2>2. /\ pc[p] \in {"w_down"}
        /\ UNCHANGED <<core, kref, open_count, pm, interface, writes, limit_sem>>
    BY <1>41 DEF DownSignal, binding, opens, writeio
  <2>3. limit_sem' \in Int /\ writes' \in Int /\ limit_sem' + writes' = limit_sem + writes
    BY <2>2, SizesAssumption DEF TypeOK
  <2> QED
    BY <2>1, <2>2, <2>3, CountsKept DEF Referring, Counted, InRead, InWrite
<1>42. ASSUME NEW p \in Procs, FlushCall(p) PROVE CountInv'
  <2>1. \E l \in {"f_lock"} : Goto(p, l)
    BY <1>42 DEF FlushCall, binding, opens, writeio
  <2>2. /\ pc[p] \in {"open"}
        /\ UNCHANGED <<core, kref, open_count, pm, interface, writes, limit_sem>>
    BY <1>42 DEF FlushCall, binding, opens, writeio
  <2>3. limit_sem' \in Int /\ writes' \in Int /\ limit_sem' + writes' = limit_sem + writes
    BY <2>2, SizesAssumption DEF TypeOK
  <2> QED
    BY <2>1, <2>2, <2>3, CountsKept DEF Referring, Counted, InRead, InWrite
<1>38. CASE UNCHANGED vars
  <2>1. UNCHANGED <<pc, core, open_count, pm, kref, interface, limit_sem, writes>>
    BY <1>38 DEF vars, binding, opens, writeio
  <2>2. {q \in Procs : pc'[q] \in InWrite} = {q \in Procs : pc[q] \in InWrite}
    BY <2>1
  <2> QED
    BY <2>1, <2>2 DEF CountInv, WriteSlotsConserved, At
<1> QED
  BY <1>1, <1>2, <1>3, <1>4, <1>5, <1>6, <1>7, <1>8, <1>9, <1>10, <1>11,
     <1>12, <1>13, <1>14, <1>15, <1>16, <1>17, <1>18, <1>19, <1>20, <1>21,
     <1>22, <1>23, <1>24, <1>25, <1>26, <1>27, <1>28, <1>29, <1>30, <1>31,
     <1>32, <1>33, <1>34, <1>35, <1>36, <1>37, <1>38, <1>39, <1>40, <1>41,
     <1>42
     DEF Next, Open, Read, Write, Close, Call, Signal, Reset, Disconnect, Finished


(* Every step preserves the types.                                         *)
LEMMA TypeStep ==
    TypeOK /\ MutexInv /\ BindInv /\ CountInv /\ CountInv' /\ ReadInv /\ [Next]_vars => TypeOK'
<1> SUFFICES ASSUME TypeOK, MutexInv, BindInv, CountInv, CountInv', ReadInv, [Next]_vars
             PROVE  TypeOK'
  OBVIOUS
<1> USE ThreadsAssumption, SizesAssumption DEF call, binding, opens, readio,
        data, writeio, Goto, TypeOK, Labels, InRead, InWrite, InOpen, InClose,
        Resting, Idle

<1>a. ASSUME limit_sem' \in Nat, writes' \in Nat
      PROVE  /\ kref' \in Nat /\ open_count' \in Nat
             /\ limit_sem' \in 0..WRITES_IN_FLIGHT /\ writes' \in 0..WRITES_IN_FLIGHT
  <2>1. ASSUME NEW CONSTANT L PROVE Cardinality(At(L)') \in Nat
    BY ProcsAssumption, FS_Subset, FS_CardinalityType DEF At
  <2>2. {p \in Procs : pc'[p] \in InWrite} = At(InWrite)'
    BY DEF At
  <2> QED
    BY <1>a, <2>1, <2>2 DEF CountInv, WriteSlotsConserved
<1>b. limit_sem \in Nat /\ writes \in Nat
  OBVIOUS
<1>1. ASSUME NEW p \in Procs, OpenFind(p) PROVE TypeOK'
  BY <1>1 DEF OpenFind
<1>2. ASSUME NEW p \in Procs, OpenRef(p) PROVE TypeOK'
  BY <1>2 DEF OpenRef, KrefGet
<1>3. ASSUME NEW p \in Procs, OpenCount(p) PROVE TypeOK'
  <2>1. limit_sem' \in Nat /\ writes' \in Nat
    BY <1>3, <1>b DEF OpenCount, KrefPut
  <2> QED
    BY <1>3, <1>a, <2>1 DEF OpenCount, KrefPut
<1>4. ASSUME NEW p \in Procs, ReadCall(p) PROVE TypeOK'
  BY <1>4 DEF ReadCall
<1>5. ASSUME NEW p \in Procs, ReadLock(p) PROVE TypeOK'
  BY <1>5 DEF ReadLock
<1>6. ASSUME NEW p \in Procs, ReadRetry(p) PROVE TypeOK'
  BY <1>6 DEF ReadRetry
<1>7. ASSUME NEW p \in Procs, ReadWait(p) PROVE TypeOK'
  BY <1>7 DEF ReadWait
<1>8. ASSUME NEW p \in Procs, ReadSignal(p) PROVE TypeOK'
  BY <1>8 DEF ReadSignal
<1>9. ASSUME NEW p \in Procs, ReadErrors(p) PROVE TypeOK'
  BY <1>9 DEF ReadErrors
<1>10. ASSUME NEW p \in Procs, ReadClear(p) PROVE TypeOK'
  BY <1>10 DEF ReadClear
<1>11. ASSUME NEW p \in Procs, ReadData(p) PROVE TypeOK'
  <2>1. /\ copied' \in 0..(Word - 1) /\ count' \in [Procs -> 0..(Word - 1)]
    BY <1>11, ReadDataEffect DEF ReadInv, ReadData
  <2>2. pc' \in [Procs -> Labels] /\ site' \in [Procs -> {"again", "fill", "ahead"}]
    BY <1>11 DEF ReadData, StartIo
  <2> QED
    BY <1>11, <2>1, <2>2 DEF ReadData
<1>12. ASSUME NEW p \in Procs, ReadStart(p) PROVE TypeOK'
  BY <1>12 DEF ReadStart
<1>13. ASSUME NEW p \in Procs, ReadSubmit(p) PROVE TypeOK'
  BY <1>13 DEF ReadSubmit, IoStarted, Least
<1>14. ASSUME NEW p \in Procs, ReadUnmark(p) PROVE TypeOK'
  BY <1>14 DEF ReadUnmark
<1>15. ASSUME NEW p \in Procs, ReadExit(p) PROVE TypeOK'
  BY <1>15 DEF ReadExit
<1>16. ASSUME NEW p \in Procs, WriteDown(p) PROVE TypeOK'
  BY <1>16 DEF WriteDown
<1>17. ASSUME NEW p \in Procs, WriteErrors(p) PROVE TypeOK'
  BY <1>17 DEF WriteErrors
<1>18. ASSUME NEW p \in Procs, WriteLock(p) PROVE TypeOK'
  BY <1>18 DEF WriteLock, InterfaceThere
<1>19. ASSUME NEW p \in Procs, WriteSubmit(p) PROVE TypeOK'
  <2>1. limit_sem' \in Nat /\ writes' \in Nat
    BY <1>19, <1>b DEF WriteSubmit
  <2> QED
    BY <1>19, <1>a, <2>1 DEF WriteSubmit
<1>20. ASSUME NEW p \in Procs, WriteError(p) PROVE TypeOK'
  <2>1. limit_sem' \in Nat /\ writes' \in Nat
    BY <1>20, <1>b DEF WriteError, UpOnError
  <2> QED
    BY <1>20, <1>a, <2>1 DEF WriteError, UpOnError
<1>21. ASSUME NEW p \in Procs, FlushLock(p) PROVE TypeOK'
  BY <1>21 DEF FlushLock
<1>22. ASSUME NEW p \in Procs, FlushDrain(p) PROVE TypeOK'
  <2>1. limit_sem' \in Nat /\ writes' \in Nat
    BY <1>22, DrawDownEffect DEF FlushDrain
  <2> QED
    BY <1>22, <1>a, <2>1, DrawDownEffect DEF FlushDrain
<1>23. ASSUME NEW p \in Procs, FlushErrors(p) PROVE TypeOK'
  BY <1>23 DEF FlushErrors
<1>24. ASSUME NEW p \in Procs, ReleaseCount(p) PROVE TypeOK'
  <2>1. pm' \in Nat
    <3>1. open_count = 1 /\ interface => pm > 0
      BY DEF CountInv
    <3> QED
      BY <1>24, <3>1 DEF ReleaseCount
  <2>2. limit_sem' \in Nat /\ writes' \in Nat
    BY <1>24, <1>b DEF ReleaseCount
  <2> QED
    BY <1>24, <1>a, <2>1, <2>2 DEF ReleaseCount
<1>25. ASSUME NEW p \in Procs, ReleasePut(p) PROVE TypeOK'
  <2>1. limit_sem' \in Nat /\ writes' \in Nat
    BY <1>25, <1>b DEF ReleasePut, KrefPut
  <2> QED
    BY <1>25, <1>a, <2>1 DEF ReleasePut, KrefPut
<1>26. CASE HcRead
  <2>1. \/ \E n \in 0..urb : ReadCallback("none", n)
        \/ \E e \in {"io", "pipe"} : ReadCallback(e, 0)
    BY <1>26 DEF HcRead
  <2>2. done < MaxDone /\ 0..urb \subseteq 0..BulkInSize
    BY <1>26 DEF HcRead, ReadInv
  <2>3. urb' = 0 /\ done' = done + 1 /\ ongoing_read' = FALSE
    BY <2>1 DEF ReadCallback, CompleteRead
  <2>4. filled' \in 0..BulkInSize
    BY <2>1, <2>2 DEF ReadCallback
  <2>5. errors' \in {"none", "io", "pipe", "unlinked"}
    BY <2>1 DEF ReadCallback
  <2>6. done' \in 0..MaxDone /\ urb' \in 0..BulkInSize
    BY <2>2, <2>3
  <2>7. UNCHANGED <<pc, call, binding, opens, io_mutex, writeio, copied>>
    BY <1>26 DEF HcRead
  <2> QED
    BY <2>3, <2>4, <2>5, <2>6, <2>7
<1>27. CASE HcWrite
  <2>1. limit_sem' \in Nat /\ writes' \in Nat
    BY <1>27, <1>b DEF HcWrite
  <2> QED
    BY <1>27, <1>a, <2>1 DEF HcWrite
<1>28. CASE PreResetLock
  BY <1>28 DEF PreResetLock, CoreGoto
<1>29. CASE PreResetDrain
  <2>1. limit_sem' \in Nat /\ writes' \in Nat
    BY <1>29, DrawDownEffect DEF PreResetDrain, CoreGoto
  <2> QED
    BY <1>29, <1>a, <2>1, DrawDownEffect DEF PreResetDrain, CoreGoto
<1>30. CASE PostReset
  BY <1>30 DEF PostReset, CoreGoto
<1>31. CASE Suspend
  <2>1. limit_sem' \in Nat /\ writes' \in Nat
    BY <1>31, DrawDownEffect DEF Suspend
  <2> QED
    BY <1>31, <1>a, <2>1, DrawDownEffect DEF Suspend
<1>32. CASE Unbind
  <2>1. limit_sem' \in Nat /\ writes' \in Nat
    BY <1>32, DrawDownEffect DEF Unbind
  <2>2. /\ urb' = Idle /\ ongoing_read' \in BOOLEAN
        /\ done' \in 0..MaxDone /\ filled' \in 0..BulkInSize
        /\ errors' \in {"none", "io", "pipe", "unlinked"}
    BY <1>32, DrawDownEffect DEF Unbind
  <2>3. /\ enabled' = FALSE /\ core' = "d_clear"
        /\ UNCHANGED <<pc, call, intfdata, minor, opens, io_mutex, copied>>
    BY <1>32 DEF Unbind
  <2>4. /\ kref' \in Nat /\ open_count' \in Nat
        /\ limit_sem' \in 0..WRITES_IN_FLIGHT /\ writes' \in 0..WRITES_IN_FLIGHT
    BY <1>a, <2>1
  <2>5. /\ enabled' \in BOOLEAN /\ core' = "d_clear"
        /\ intfdata' \in BOOLEAN /\ minor' \in BOOLEAN /\ interface' \in BOOLEAN
    BY <2>3
  <2>6. /\ pc' = pc /\ site' = site /\ count' = count /\ nonblock' = nonblock
        /\ pm' = pm /\ io_mutex' = io_mutex /\ copied' = copied
    BY <2>3
  <2> QED
    BY <2>2, <2>4, <2>5, <2>6
<1>33. CASE DisconnectClear
  BY <1>33 DEF DisconnectClear
<1>34. CASE DisconnectDeregister
  BY <1>34 DEF DisconnectDeregister, NobodyOpening
<1>35. CASE DisconnectLock
  BY <1>35 DEF DisconnectLock, CoreGoto
<1>36. CASE DisconnectKill
  <2>1. limit_sem' \in Nat /\ writes' \in Nat
    BY <1>36, <1>b DEF DisconnectKill, CoreGoto, KillWrites
  <2> QED
    BY <1>36, <1>a, <2>1 DEF DisconnectKill, CoreGoto, KillWrites
<1>37. CASE DisconnectPut
  <2>1. limit_sem' \in Nat /\ writes' \in Nat
    BY <1>37, <1>b DEF DisconnectPut, CoreGoto, KrefPut
  <2> QED
    BY <1>37, <1>a, <2>1 DEF DisconnectPut, CoreGoto, KrefPut
<1>39. ASSUME NEW p \in Procs, LockSignal(p) PROVE TypeOK'
  BY <1>39 DEF LockSignal
<1>40. ASSUME NEW p \in Procs, WriteCall(p) PROVE TypeOK'
  BY <1>40 DEF WriteCall
<1>41. ASSUME NEW p \in Procs, DownSignal(p) PROVE TypeOK'
  BY <1>41 DEF DownSignal
<1>42. ASSUME NEW p \in Procs, FlushCall(p) PROVE TypeOK'
  BY <1>42 DEF FlushCall
<1>38. CASE UNCHANGED vars
  BY <1>38 DEF vars
<1> QED
  BY <1>1, <1>2, <1>3, <1>4, <1>5, <1>6, <1>7, <1>8, <1>9, <1>10, <1>11,
     <1>12, <1>13, <1>14, <1>15, <1>16, <1>17, <1>18, <1>19, <1>20, <1>21,
     <1>22, <1>23, <1>24, <1>25, <1>26, <1>27, <1>28, <1>29, <1>30, <1>31,
     <1>32, <1>33, <1>34, <1>35, <1>36, <1>37, <1>38, <1>39, <1>40, <1>41,
     <1>42
     DEF Next, Open, Read, Write, Close, Call, Signal, Reset, Disconnect, Finished


(* It holds at first ...                                                   *)
LEMMA InitInv == Init => IInv
<1> SUFFICES ASSUME Init PROVE IInv
  OBVIOUS
<1> USE ThreadsAssumption, SizesAssumption
<1>1. TypeOK
  <2>1. /\ pc \in [Procs -> Labels] /\ site \in [Procs -> {"again", "fill", "ahead"}]
        /\ count \in [Procs -> 0..(Word - 1)] /\ nonblock \in [Procs -> BOOLEAN]
    BY DEF Init, Labels, Resting
  <2>2. /\ intfdata \in BOOLEAN /\ minor \in BOOLEAN /\ enabled \in BOOLEAN
        /\ interface \in BOOLEAN /\ ongoing_read \in BOOLEAN
    BY Zenon DEF Init
  <2>3. /\ limit_sem \in 0..WRITES_IN_FLIGHT /\ writes \in 0..WRITES_IN_FLIGHT
        /\ urb \in 0..BulkInSize /\ done \in 0..MaxDone
        /\ filled \in 0..BulkInSize /\ copied \in 0..(Word - 1)
    BY DEF Init, Idle
  <2>4. /\ core = "bound" /\ io_mutex = NobodyHolds /\ errors = "none"
        /\ open_count = 0 /\ pm = 0 /\ kref = 1
    BY DEF Init
  <2> QED
    BY <2>1, <2>2, <2>3, <2>4 DEF TypeOK
<1>2. ASSUME NEW CONSTANT L, "closed" \notin L PROVE At(L) = {}
  BY <1>2 DEF Init, At
<1>3. MutexInv
  BY DEF Init, MutexInv, Holding, InRead
<1>4. BindInv
  BY DEF Init, BindInv, Binding, Opening
<1>5. CountInv
  <2>1. Cardinality(At(Referring)) = 0 /\ Cardinality(At(Counted)) = 0
    BY <1>2, FS_EmptySet DEF Referring, Counted, InRead, InWrite
  <2>2. {p \in Procs : pc[p] \in InWrite} = {}
    BY DEF Init, InWrite
  <2>3. WriteSlotsConserved
    BY <2>2, FS_EmptySet DEF Init, WriteSlotsConserved
  <2> QED
    BY <2>1, <2>3 DEF Init, CountInv
<1>6. ReadInv
  BY DEF Init, ReadInv, ReaderIsWoken, Idle
<1>7. DrawnDown
  BY DEF Init, DrawnDown, Idle
<1> QED
  BY <1>1, <1>3, <1>4, <1>5, <1>6, <1>7 DEF IInv

(* ... and always, so that whatever follows from it is an invariant.       *)
THEOREM Invariance == Spec => []IInv
<1>1. IInv /\ [Next]_vars => IInv'
  BY TypeStep, MutexStep, BindStep, CountStep, ReadStep, DrawnStep DEF IInv
<1> QED
  BY InitInv, <1>1, PTL DEF Spec

(* Every variable keeps its type; the bounds of limit_sem and writes and   *)
(* that pm never falls below 0 are not by construction: skel_release gives *)
(* back only what skel_open took.                                          *)
THEOREM TypeCorrect == Spec => []TypeOK
<1>1. IInv => TypeOK
  BY DEF IInv
<1> QED
  BY Invariance, <1>1, PTL

(* No failure, completion, draw-down or disconnect loses or doubles a slot *)
(* of limit_sem (skel_write, skel_write_bulk_callback, usb_kill_anchored_- *)
(* urbs).                                                                  *)
THEOREM SlotsAreConserved == Spec => []WriteSlotsConserved
<1>1. IInv => WriteSlotsConserved
  BY DEF IInv, CountInv
<1> QED
  BY Invariance, <1>1, PTL

(* A reader that waits in skel_read has something to wait for.             *)
THEOREM WaitersAreWoken == Spec => []ReaderIsWoken
<1>1. IInv => ReaderIsWoken
  BY DEF IInv, ReadInv
<1> QED
  BY Invariance, <1>1, PTL

(* After a draw-down nothing is in flight while io_mutex is held           *)
(* (skel_pre_reset, skel_flush).                                           *)
THEOREM DrawDownsLast == Spec => []DrawnDown
<1>1. IInv => DrawnDown
  BY DEF IInv
<1> QED
  BY Invariance, <1>1, PTL

(* skel_delete frees the device when nobody refers to it any more: the     *)
(* references are those of the processes between skel_open and             *)
(* skel_release and that of the core, so at none everyone is out, and the  *)
(* core, which is gone, has disabled the endpoints before.                 *)
THEOREM FreedWhenUnused == Spec => []NoUseAfterFree
<1>1. IInv => NoUseAfterFree
  <2> SUFFICES ASSUME IInv, kref = 0
               PROVE  /\ core = "gone" /\ urb = Idle /\ writes = 0
                      /\ \A p \in Procs : pc[p] \in {"closed", "done"}
    BY DEF NoUseAfterFree
  <2>1. IsFiniteSet(At(Referring)) /\ Cardinality(At(Referring)) \in Nat
    BY ProcsAssumption, FS_Subset, FS_CardinalityType DEF At
  <2>2. core = "gone" /\ Cardinality(At(Referring)) = 0
    BY <2>1 DEF IInv, CountInv
  <2>3. At(Referring) = {}
    BY <2>1, <2>2, FS_EmptySet
  <2>4. Opening = {} /\ urb = Idle /\ writes = 0
    BY <2>2 DEF IInv, BindInv, Binding
  <2>5. ASSUME NEW p \in Procs PROVE pc[p] \in {"closed", "done"}
    <3>1. pc[p] \notin Referring /\ pc[p] \notin {"o_ref", "o_lock"}
      BY <2>3, <2>4 DEF At, Opening
    <3>2. pc[p] \in Labels
      BY DEF IInv, TypeOK
    <3> QED
      BY <3>1, <3>2
         DEF Labels, Referring, Counted, InRead, InWrite, InOpen, InClose,
         Resting
  <2> QED
    BY <2>2, <2>4, <2>5
<1> QED
  BY Invariance, <1>1, PTL

(* Whichever order the disconnect and the last close come in, the last     *)
(* kref_put runs skel_delete, and every open and slot is given back.       *)
THEOREM FreedInTheEnd == Spec => []NothingLeaked
<1>1. IInv => NothingLeaked
  <2> SUFFICES ASSUME IInv, core = "gone",
                      \A p \in Procs : pc[p] \in {"closed", "done"}
               PROVE  kref = 0 /\ open_count = 0 /\ limit_sem = WRITES_IN_FLIGHT
    BY DEF NothingLeaked
  <2>1. ASSUME NEW CONSTANT L, "closed" \notin L, "done" \notin L
        PROVE  Cardinality(At(L)) = 0
    BY <2>1, FS_EmptySet DEF At
  <2>2. Cardinality(At(Referring)) = 0 /\ Cardinality(At(Counted)) = 0
    BY <2>1 DEF Referring, Counted, InRead, InWrite
  <2>3. Cardinality({p \in Procs : pc[p] \in InWrite}) = 0
    <3>1. {p \in Procs : pc[p] \in InWrite} = At(InWrite)
      BY DEF At
    <3> QED
      BY <2>1, <3>1 DEF InWrite
  <2>4. writes = 0
    BY DEF IInv, BindInv, Binding
  <2>5. limit_sem + writes + 0 = WRITES_IN_FLIGHT /\ limit_sem \in Int
    BY <2>3, SizesAssumption DEF IInv, CountInv, WriteSlotsConserved, TypeOK
  <2> QED
    BY <2>2, <2>4, <2>5 DEF IInv, CountInv
<1> QED
  BY Invariance, <1>1, PTL

=============================================================================

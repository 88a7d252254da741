---------------------------- MODULE ButtonsProofs ----------------------------
(* Proofs about Buttons, for any finite set of processes and any number of *)
(* keys.                                                                   *)
EXTENDS Buttons, FiniteSetTheorems, WellFoundedInduction, TLAPS

(* The inductive invariant.  A process has a file while the core has given *)
(* it one, and walks the lines only in open and close; whoever shares a    *)
(* file has one driver, and no one else has the file that is being closed. *)
Opening(p) == pc[p] \in {"o_request", "o_undo"}

FilesInv ==
    /\ \A p \in Procs :
         /\ pc[p] \in {"closed", "o_request", "o_undo"} <=> file[p] = 0
         /\ pc[p] \in {"closed", "o_request", "o_undo", "closing"}
              => driver[p] = "buttons"
         /\ pc[p] \notin {"o_request", "o_undo", "closing"} => at[p] = 0
    /\ \A p, q \in Procs : p # q =>
         /\ ~(Opening(p) /\ Opening(q))
         /\ file[p] = file[q] /\ file[p] # 0
              => driver[p] = driver[q] /\ pc[p] # "closing"

(* An opener holds the lines it has passed, one that closes those it has   *)
(* not reached, and everybody else who uses "buttons" all of them.  The    *)
(* driver has a line exactly while somebody holds it, and only those who   *)
(* share a file hold a line together: an undo and a close that run at the  *)
(* same time free no line of each other's, although free_irq could.        *)
Holds(p, k) ==
    \/ Opening(p) /\ k < at[p]
    \/ pc[p] = "closing" /\ k >= at[p]
    \/ p \in Using /\ pc[p] # "closing"

LinesInv ==
    \A k \in Keys :
      /\ owner[k] = "buttons" <=> \E p \in Procs : Holds(p, k)
      /\ \A p, q \in Procs :
           Holds(p, k) /\ Holds(q, k) /\ p # q
             => file[p] = file[q] /\ file[p] # 0

IInv == TypeOK /\ FilesInv /\ LinesInv /\ NoChangeUnreported /\ NoMissedWakeUp

-----------------------------------------------------------------------------
(* A process without a file always finds one that nobody has: there are as *)
(* many files as processes.                                                *)
LEMMA FreshFileIsFresh ==
    ASSUME TypeOK, NEW p \in Procs, file[p] = 0
    PROVE  FreshFile \in Files /\ \A q \in Procs : file[q] # FreshFile
<1> DEFINE Free == {f \in Files : \A q \in Procs : file[q] # f}
<1>1. Cardinality(Procs) \in Nat /\ Files \subseteq Nat \ {0}
  BY ProcsAssumption, FS_CardinalityType DEF Files
<1>2. Free # {}
  <2> SUFFICES ASSUME Free = {} PROVE FALSE
    OBVIOUS
  <2> DEFINE user == [f \in Files |-> CHOOSE q \in Procs : file[q] = f]
             Others == Procs \ {p}
  <2>1. \A f \in Files : user[f] \in Others /\ file[user[f]] = f
    BY <1>1
  <2>2. IsFiniteSet(Others) /\ Cardinality(Others) = Cardinality(Procs) - 1
    BY ProcsAssumption, FS_RemoveElement
  <2>3. IsFiniteSet(Files) /\ Cardinality(Files) = Cardinality(Procs)
    <3>1. 1 \in Int /\ Cardinality(Procs) \in Int
      BY <1>1
    <3> QED
      BY <1>1, <3>1, FS_Interval DEF Files
  <2>4. user \in [Files -> Others] /\ Cardinality(Others) < Cardinality(Files)
    BY <1>1, <2>1, <2>2, <2>3
  <2>5. \E f, g \in Files : f # g /\ user[f] = user[g]
    <3> HIDE DEF user, Others
    <3> QED
      BY <2>2, <2>3, <2>4, FS_PigeonHole
  <2> QED
    BY <2>1, <2>5
<1>3. PICK f \in Free : \A g \in Free : ~(g < f)
  <2>1. PICK f \in Free : \A g \in Free : <<g, f>> \notin OpToRel(<, Nat)
    BY <1>1, <1>2, WFMin, NatLessThanWellFounded, Zenon
  <2> QED
    BY <1>1, <2>1 DEF OpToRel
<1>4. /\ f \in Files
      /\ \A q \in Procs : file[q] # f
      /\ \A g \in 1..(f - 1) : \E q \in Procs : file[q] = g
  BY <1>1, <1>3 DEF Files
<1> QED
  BY <1>4 DEF FreshFile

-----------------------------------------------------------------------------
(* Typing.                                                                 *)

(* Both drivers start from values of the right types.                      *)
LEMMA TypeInit == Init => TypeOK
BY KeysAssumption DEF Init, TypeOK, Keys, Files, Drivers

(* wake_up_interruptible moves those who sleep on the queue, and no one    *)
(* else.                                                                   *)
LEMMA WakeUpMoves ==
    ASSUME TypeOK, NEW d \in Drivers, WakeUp(d)
    PROVE  /\ TypeOK!1'
           /\ \A p \in Procs :
                IF driver[p] = d /\ pc[p] \in {"r_asleep", "p_asleep"}
                THEN pc'[p] \in {"r_wait", "p_wait"}
                ELSE pc'[p] = pc[p]
BY DEF TypeOK, WakeUp

(* free_irq leaves the line with someone, or with nobody.                  *)
LEMMA FreedType ==
    ASSUME TypeOK, NEW d \in Drivers, NEW k \in Keys
    PROVE  /\ Freed(d, k) \in [Keys -> Drivers \cup {"none"}]
           /\ \A j \in Keys : Freed(d, k)[j] = IF j = k /\ owner[j] = d THEN "none"
                                               ELSE owner[j]
BY DEF TypeOK, Freed

(* Every step preserves the types.                                         *)
LEMMA TypeStep == TypeOK /\ FilesInv /\ [Next]_vars => TypeOK'
<1> SUFFICES ASSUME TypeOK, FilesInv, [Next]_vars PROVE TypeOK'
  OBVIOUS
<1> USE DEF TypeOK, procs, lines, told, Goto
<1>1. ASSUME NEW k \in Keys, Edge(k) PROVE TypeOK'
  BY <1>1 DEF Edge
<1>2. ASSUME NEW k \in Keys, Interrupt(k) PROVE TypeOK'
  <2>1. ASSUME NEW d \in Drivers, Happened(d)
        PROVE  TypeOK!1' /\ event' \in [Drivers -> BOOLEAN]
    BY <2>1, WakeUpMoves DEF Happened
  <2>2. /\ TypeOK!1'
        /\ event' \in [Drivers -> BOOLEAN]
        /\ key_values' \in [Keys -> {0, 1}]
    BY <1>2, <2>1 DEF Interrupt, Down, Drivers
  <2> QED
    BY <1>2, <2>2 DEF Interrupt
<1>3. ASSUME NEW p \in Procs PROVE Open(p) => TypeOK'
  BY DEF Open
<1>4. ASSUME NEW p \in Procs, OpenRequest(p) PROVE TypeOK'
  <2>1. at[p] \in Keys /\ at[p] + 1 \in 0..NKeys
    BY <1>4, KeysAssumption DEF OpenRequest, Keys
  <2>2. owner' \in [Keys -> Drivers \cup {"none"}] /\ masked' \in [Keys -> BOOLEAN]
    BY <1>4, <2>1 DEF OpenRequest, RequestIrq, Drivers
  <2>3. at' \in [Procs -> 0..NKeys] /\ TypeOK!1'
    BY <1>4, <2>1 DEF OpenRequest, HeldBefore
  <2> QED
    BY <1>4, <2>2, <2>3 DEF OpenRequest
<1>5. ASSUME NEW p \in Procs, OpenDone(p) PROVE TypeOK'
  <2>1. FreshFile \in Files
    BY <1>5, FreshFileIsFresh DEF FilesInv, OpenDone
  <2> QED
    BY <1>5, <2>1, KeysAssumption DEF OpenDone, Drivers
<1>6. ASSUME NEW p \in Procs, OpenUndo(p) PROVE TypeOK'
  <2>1. at[p] > 0 => at[p] - 1 \in Keys /\ at[p] - 1 \in 0..NKeys
    BY KeysAssumption DEF Keys
  <2>2. owner' \in [Keys -> Drivers \cup {"none"}] /\ masked' \in [Keys -> BOOLEAN]
    <3>1. at[p] > 0 => Freed("buttons", at[p] - 1) \in [Keys -> Drivers \cup {"none"}]
      BY <2>1, FreedType DEF Drivers
    <3> QED
      BY <1>6, <2>1, <3>1 DEF OpenUndo
  <2>3. at' \in [Procs -> 0..NKeys] /\ TypeOK!1'
    BY <1>6, <2>1 DEF OpenUndo
  <2> QED
    BY <1>6, <2>2, <2>3 DEF OpenUndo
<1>7. ASSUME NEW p \in Procs, OpenButton1(p) PROVE TypeOK'
  <2>1. FreshFile \in Files
    BY <1>7, FreshFileIsFresh DEF FilesInv, OpenButton1
  <2>2. owner' \in [Keys -> Drivers \cup {"none"}] /\ masked' \in [Keys -> BOOLEAN]
    <3>1. BT1 \in Keys /\ "my-button1" \in Drivers
      BY KeysAssumption DEF Drivers
    <3>2. Freed("my-button1", BT1) \in [Keys -> Drivers \cup {"none"}]
      BY <3>1, FreedType
    <3>3. \/ owner' = [owner EXCEPT ![BT1] = "my-button1"]
             /\ masked' = [masked EXCEPT ![BT1] = FALSE]
          \/ owner' = Freed("my-button1", BT1) /\ masked' = [masked EXCEPT ![BT1] = TRUE]
      BY <1>7 DEF OpenButton1, RequestIrq
    <3>4. [owner EXCEPT ![BT1] = "my-button1"] \in [Keys -> Drivers \cup {"none"}]
      BY <3>1
    <3>5. masked' \in [Keys -> BOOLEAN]
      BY <3>1, <3>3
    <3> QED
      BY <3>2, <3>3, <3>4, <3>5
  <2>3. file' \in [Procs -> Files \cup {0}] /\ driver' \in [Procs -> Drivers] /\ TypeOK!1'
    BY <1>7, <2>1 DEF OpenButton1, Drivers
  <2> QED
    BY <1>7, <2>2, <2>3 DEF OpenButton1
<1>8. ASSUME NEW p \in Procs, NEW q \in Procs, Inherit(p, q) PROVE TypeOK'
  BY <1>8 DEF Inherit
<1>9. ASSUME NEW p \in Procs, Read(p) \/ ReadWait(p) \/ ReadSignal(p) \/ Poll(p)
      PROVE  TypeOK'
  BY <1>9 DEF Read, ReadWait, ReadSignal, Poll
<1>10. ASSUME NEW p \in Procs, ReadClear(p) PROVE TypeOK'
  <2>1. NKeys \in Nat \ {0}
    BY KeysAssumption
  <2>2. \A n \in 0..NKeys : 0..(n - 1) \subseteq Keys /\ n..(NKeys - 1) \subseteq Keys
    BY <2>1 DEF Keys
  <2>3. left' \in [Procs -> SUBSET Keys] /\ missed' \subseteq Keys
    <3>1. CASE UNCHANGED <<left, missed>>
      BY <3>1
    <3>2. ASSUME NEW n \in 0..NKeys, left' = [left EXCEPT ![p] = 0..(n - 1)],
                 missed' = missed \cup {k \in n..(NKeys - 1) : reported[k] # key_values[k]}
          PROVE  left' \in [Procs -> SUBSET Keys] /\ missed' \subseteq Keys
      <4>1. 0..(n - 1) \in SUBSET Keys /\ n..(NKeys - 1) \subseteq Keys
        BY <2>2
      <4> QED
        BY <3>2, <4>1
    <3> QED
      BY <1>10, <3>1, <3>2 DEF ReadClear, GiveUp
  <2>4. \E l \in {"open", "r_copy"} : pc' = [pc EXCEPT ![p] = l]
    BY <1>10 DEF ReadClear
  <2>5. TypeOK!1' /\ event' \in [Drivers -> BOOLEAN]
    BY <1>10, <2>4 DEF ReadClear
  <2> QED
    BY <1>10, <2>3, <2>5 DEF ReadClear
<1>11. ASSUME NEW p \in Procs, ReadCopy(p) \/ ReadFault(p) PROVE TypeOK'
  BY <1>11 DEF ReadCopy, CopyOne, ReadFault, GiveUp
<1>12. ASSUME NEW p \in Procs, CloseShared(p) \/ Close(p) PROVE TypeOK'
  BY <1>12 DEF CloseShared, Close, Forget, Drivers, Files
<1>13. ASSUME NEW p \in Procs, CloseButton1(p) PROVE TypeOK'
  BY <1>13, KeysAssumption DEF CloseButton1, Forget, Freed, Drivers, Files
<1>14. ASSUME NEW p \in Procs, CloseFree(p) PROVE TypeOK'
  <2>1. at[p] < NKeys => at[p] \in Keys /\ at[p] + 1 \in 0..NKeys
    BY KeysAssumption DEF Keys
  <2> QED
    BY <1>14, <2>1, KeysAssumption DEF CloseFree, Forget, Freed, Drivers, Files
<1>15. CASE UNCHANGED vars
  BY <1>15 DEF vars
<1> QED
  BY <1>1, <1>2, <1>3, <1>4, <1>5, <1>6, <1>7, <1>8, <1>9, <1>10, <1>11, <1>12,
     <1>13, <1>14, <1>15 DEF Next

-----------------------------------------------------------------------------
(* Who has a file, and the lines.                                          *)

(* Every step keeps the files of the processes apart.                      *)
LEMMA FilesStep == TypeOK /\ FilesInv /\ [Next]_vars => FilesInv'
<1> SUFFICES ASSUME TypeOK, FilesInv, [Next]_vars PROVE FilesInv'
  OBVIOUS
<1> USE DEF TypeOK, FilesInv, Opening, procs, told, Goto
<1>1. ASSUME NEW k \in Keys, Edge(k) PROVE FilesInv'
  BY <1>1 DEF Edge
<1>2. ASSUME NEW k \in Keys, Interrupt(k) PROVE FilesInv'
  <2>1. \A p \in Procs :
          pc'[p] = pc[p] \/ /\ pc[p] \in {"r_asleep", "p_asleep"}
                            /\ pc'[p] \in {"r_wait", "p_wait"}
    BY <1>2, WakeUpMoves DEF Interrupt, Happened, Drivers
  <2>2. UNCHANGED <<file, driver, at>>
    BY <1>2 DEF Interrupt
  <2> QED
    BY <2>1, <2>2
<1>3. ASSUME NEW p \in Procs PROVE Open(p) => FilesInv'
  BY DEF Open, NobodyOpening
<1>4. ASSUME NEW p \in Procs, OpenRequest(p) \/ OpenUndo(p) PROVE FilesInv'
  BY <1>4 DEF OpenRequest, OpenUndo, HeldBefore
<1>5. ASSUME NEW p \in Procs, OpenDone(p) PROVE FilesInv'
  <2>1. FreshFile \in Files /\ \A q \in Procs : file[q] # FreshFile
    BY <1>5, FreshFileIsFresh DEF OpenDone
  <2>2. FreshFile # 0
    BY <2>1, ProcsAssumption, FS_CardinalityType DEF Files
  <2> QED
    BY <1>5, <2>1, <2>2 DEF OpenDone
<1>6. ASSUME NEW p \in Procs, OpenButton1(p) PROVE FilesInv'
  <2>1. FreshFile \in Files /\ \A q \in Procs : file[q] # FreshFile
    BY <1>6, FreshFileIsFresh DEF OpenButton1
  <2>2. FreshFile # 0
    BY <2>1, ProcsAssumption, FS_CardinalityType DEF Files
  <2> QED
    BY <1>6, <2>1, <2>2 DEF OpenButton1
<1>7. ASSUME NEW p \in Procs, NEW q \in Procs, Inherit(p, q) PROVE FilesInv'
  BY <1>7 DEF Inherit
<1>8. ASSUME NEW p \in Procs,
             Read(p) \/ ReadWait(p) \/ ReadSignal(p) \/ ReadClear(p) \/ Poll(p)
      PROVE  FilesInv'
  <2>1. UNCHANGED <<file, driver, at>>
    BY <1>8 DEF Read, ReadWait, ReadSignal, ReadClear, Poll
  <2>2. /\ pc[p] \in {"open", "r_wait", "r_asleep", "r_clear", "p_wait", "p_asleep"}
        /\ \E l \in {"open", "r_wait", "r_asleep", "r_clear", "r_copy", "p_wait",
                     "p_asleep"} : pc' = [pc EXCEPT ![p] = l]
    BY <1>8 DEF Read, ReadWait, ReadSignal, ReadClear, Poll
  <2> QED
    BY <2>1, <2>2
<1>9. ASSUME NEW p \in Procs, ReadCopy(p) \/ ReadFault(p) PROVE FilesInv'
  BY <1>9 DEF ReadCopy, CopyOne, ReadFault
<1>10. ASSUME NEW p \in Procs, CloseShared(p) \/ CloseButton1(p) PROVE FilesInv'
  <2>1. /\ pc' = [pc EXCEPT ![p] = "closed"] /\ file' = [file EXCEPT ![p] = 0]
        /\ driver' = [driver EXCEPT ![p] = "buttons"] /\ at' = at
        /\ pc[p] = "open"
    BY <1>10 DEF CloseShared, CloseButton1, Forget
  <2> QED
    BY <2>1
<1>11. ASSUME NEW p \in Procs, Close(p) PROVE FilesInv'
  BY <1>11 DEF Close, Shared
<1>12. ASSUME NEW p \in Procs, CloseFree(p) PROVE FilesInv'
  BY <1>12 DEF CloseFree, Forget
<1>13. CASE UNCHANGED vars
  BY <1>13 DEF vars
<1> QED
  BY <1>1, <1>2, <1>3, <1>4, <1>5, <1>6, <1>7, <1>8, <1>9, <1>10, <1>11, <1>12,
     <1>13 DEF Next

(* A line is held by one file's processes: whoever holds a line that p     *)
(* holds while it opens or closes is p.                                    *)
LEMMA HeldAlone ==
    ASSUME TypeOK, FilesInv, LinesInv, NEW k \in Keys,
           NEW p \in Procs, Holds(p, k), Opening(p) \/ pc[p] = "closing",
           NEW q \in Procs, Holds(q, k)
    PROVE  q = p
BY DEF FilesInv, LinesInv, Opening

(* Every step keeps the lines with those who hold them.                    *)
LEMMA LinesStep ==
    TypeOK /\ FilesInv /\ LinesInv /\ TypeOK' /\ FilesInv' /\ [Next]_vars => LinesInv'
<1> SUFFICES ASSUME TypeOK, FilesInv, LinesInv, TypeOK', FilesInv', [Next]_vars
             PROVE  LinesInv'
  OBVIOUS
<1> USE DEF procs, lines, told, Goto
(* A step changes nothing when everybody holds the same and the lines of   *)
(* "buttons" stay.                                                         *)
<1>a. ASSUME \A k \in Keys : owner[k] = "buttons" <=> owner'[k] = "buttons",
             \A q \in Procs : \A k \in Keys : Holds(q, k)' => Holds(q, k),
             \A q \in Procs : \A k \in Keys : Holds(q, k) => Holds(q, k)',
             \A q \in Procs : file'[q] = file[q]
      PROVE  LinesInv'
  BY <1>a DEF LinesInv
<1>b. ASSUME UNCHANGED <<file, driver, at>>,
             \A q \in Procs : Opening(q) <=> Opening(q)',
             \A q \in Procs : pc[q] = "closing" <=> pc'[q] = "closing"
      PROVE  \A q \in Procs : \A k \in Keys : Holds(q, k) <=> Holds(q, k)'
  BY <1>b DEF Holds, Using
<1>1. ASSUME NEW k \in Keys, Edge(k) PROVE LinesInv'
  BY <1>1, <1>a, <1>b DEF Edge, Opening
<1>2. ASSUME NEW k \in Keys, Interrupt(k) PROVE LinesInv'
  <2>1. \A p \in Procs :
          pc'[p] = pc[p] \/ /\ pc[p] \in {"r_asleep", "p_asleep"}
                            /\ pc'[p] \in {"r_wait", "p_wait"}
    BY <1>2, WakeUpMoves DEF Interrupt, Happened, Drivers
  <2>2. UNCHANGED <<file, driver, at, owner>>
    BY <1>2 DEF Interrupt
  <2> QED
    BY <2>1, <2>2, <1>a, <1>b DEF Opening
<1>3. ASSUME NEW p \in Procs,
             \/ Read(p) \/ ReadWait(p) \/ ReadSignal(p) \/ ReadClear(p)
             \/ ReadCopy(p) \/ ReadFault(p) \/ Poll(p)
      PROVE  LinesInv'
  <2>1. /\ UNCHANGED <<file, driver, at, owner>>
        /\ \A q \in Procs : q # p => pc'[q] = pc[q]
        /\ {pc[p], pc'[p]} \cap {"o_request", "o_undo", "closing"} = {}
    BY <1>3
       DEF TypeOK, Read, ReadWait, ReadSignal, ReadClear, ReadCopy, CopyOne,
           ReadFault, Poll
  <2> QED
    BY <2>1, <1>a, <1>b DEF Opening
<1>4. ASSUME NEW p \in Procs, Open(p) PROVE LinesInv'
  <2>1. \A q \in Procs : \A k \in Keys : Holds(q, k) <=> Holds(q, k)'
    BY <1>4 DEF Open, TypeOK, FilesInv, Holds, Using, Opening, Keys
  <2> QED
    BY <1>4, <2>1, <1>a DEF Open
(* The lines of an opener grow by the one it gets ...                      *)
<1>5. ASSUME NEW p \in Procs, OpenRequest(p) PROVE LinesInv'
  <2>1. CASE pc' = pc /\ at' = [at EXCEPT ![p] = @ + 1] /\ RequestIrq("buttons", at[p])
    <3> DEFINE j == at[p]
    <3>1. j \in Keys /\ owner[j] = "none"
      BY <1>5, <2>1, KeysAssumption DEF TypeOK, OpenRequest, RequestIrq, Keys
    <3>2. \A k \in Keys : owner'[k] = IF k = j THEN "buttons" ELSE owner[k]
      BY <2>1, <3>1 DEF TypeOK, RequestIrq
    <3>3. \A q \in Procs : \A k \in Keys :
             Holds(q, k)' <=> Holds(q, k) \/ (q = p /\ k = j)
      BY <1>5, <2>1 DEF TypeOK, OpenRequest, Holds, Using, Opening, Keys
    <3>4. \A q \in Procs : ~Holds(q, j)
      BY <3>1 DEF LinesInv
    <3>5. file' = file
      BY <1>5 DEF OpenRequest
    <3> QED
      BY <3>1, <3>2, <3>3, <3>4, <3>5 DEF LinesInv
  <2>2. CASE at' = at /\ pc' = [pc EXCEPT ![p] = "o_undo"] /\ owner' = owner
    BY <1>5, <2>2, <1>a, <1>b DEF OpenRequest, TypeOK, Opening
  <2>3. \/ pc' = pc /\ at' = [at EXCEPT ![p] = @ + 1] /\ RequestIrq("buttons", at[p])
        \/ at' = at /\ pc' = [pc EXCEPT ![p] = "o_undo"] /\ owner' = owner
    BY <1>5 DEF OpenRequest, HeldBefore, TypeOK
  <2> QED
    BY <2>1, <2>2, <2>3
(* ... until it has them all, which are its file's from then on.           *)
<1>6. ASSUME NEW p \in Procs, OpenDone(p) PROVE LinesInv'
  <2>1. \A k \in Keys : Holds(p, k)
    BY <1>6, KeysAssumption DEF OpenDone, Holds, Opening, Keys
  <2>2. FreshFile # 0
    BY <1>6, FreshFileIsFresh, ProcsAssumption, FS_CardinalityType
       DEF OpenDone, FilesInv, Files
  <2>3. \A q \in Procs : \A k \in Keys : Holds(q, k)' <=> Holds(q, k)
    BY <1>6, <2>1, <2>2 DEF TypeOK, FilesInv, OpenDone, Holds, Using, Opening
  <2>4. \A q \in Procs : \A k \in Keys : Holds(q, k) => q = p
    BY <1>6, <2>1, HeldAlone DEF OpenDone, Opening
  <2>5. owner' = owner
    BY <1>6 DEF OpenDone
  <2> QED
    BY <2>1, <2>3, <2>4, <2>5 DEF LinesInv
(* An undo frees the last line that is left.                               *)
<1>7. ASSUME NEW p \in Procs, OpenUndo(p) PROVE LinesInv'
  <2>1. CASE at[p] > 0 /\ owner' = Freed("buttons", at[p] - 1)
             /\ at' = [at EXCEPT ![p] = @ - 1] /\ pc' = pc
    <3>1. PICK j \in Keys : j = at[p] - 1
      BY <1>7, <2>1, KeysAssumption DEF TypeOK, OpenUndo, Keys
    <3>2. \A k \in Keys : owner'[k] = IF k = j /\ owner[k] = "buttons" THEN "none"
                                                                     ELSE owner[k]
      BY <2>1, <3>1 DEF TypeOK, Freed
    <3>3. \A q \in Procs : \A k \in Keys :
             Holds(q, k)' <=> Holds(q, k) /\ ~(q = p /\ k = j)
      <4>1. ASSUME NEW k \in Keys PROVE Holds(p, k)' <=> Holds(p, k) /\ k # j
        <5>1. /\ Opening(p) /\ Opening(p)' /\ at'[p] = j /\ at[p] = j + 1
              /\ k \in Int /\ j \in Int
          BY <1>7, <2>1, <3>1, KeysAssumption
             DEF TypeOK, OpenUndo, Opening, Keys
        <5>2. Holds(p, k) <=> k < at[p]
          BY <5>1, <1>7 DEF OpenUndo, Holds, Opening, Using, FilesInv
        <5>3. Holds(p, k)' <=> k < at'[p]
          BY <5>1, <1>7, <2>1 DEF OpenUndo, Holds, Opening, Using, FilesInv
        <5> QED
          BY <5>1, <5>2, <5>3
      <4>2. ASSUME NEW q \in Procs, q # p, NEW k \in Keys
            PROVE  Holds(q, k)' <=> Holds(q, k)
        BY <1>7, <2>1, <4>2 DEF TypeOK, OpenUndo, Holds, Using, Opening
      <4> QED
        BY <4>1, <4>2
    <3>4. \A q \in Procs : Holds(q, j) => q = p
      <4>1. Holds(p, j) /\ Opening(p)
        BY <1>7, <2>1, <3>1 DEF TypeOK, OpenUndo, Holds, Opening, Keys
      <4> QED
        BY <4>1, HeldAlone
    <3>5. file' = file
      BY <1>7 DEF OpenUndo
    <3>6. Holds(p, j)
      BY <1>7, <2>1, <3>1 DEF TypeOK, OpenUndo, Holds, Opening, Keys
    <3> QED
      BY <3>2, <3>3, <3>4, <3>5, <3>6 DEF LinesInv
  <2>2. CASE at[p] = 0 /\ pc' = [pc EXCEPT ![p] = "closed"] /\ UNCHANGED <<owner, at>>
    <3>1. \A q \in Procs : \A k \in Keys : Holds(q, k)' <=> Holds(q, k)
      BY <1>7, <2>2 DEF TypeOK, FilesInv, OpenUndo, Holds, Using, Opening, Keys
    <3> QED
      BY <1>7, <2>2, <3>1, <1>a DEF OpenUndo
  <2> QED
    BY <1>7, <2>1, <2>2 DEF OpenUndo
<1>8. ASSUME NEW p \in Procs, OpenButton1(p) PROVE LinesInv'
  <2>1. \A k \in Keys : owner[k] = "buttons" <=> owner'[k] = "buttons"
    <3>1. BT1 \in Keys /\ "my-button1" \in Drivers
      BY KeysAssumption DEF Drivers
    <3>2. \A k \in Keys : Freed("my-button1", BT1)[k]
                           = IF k = BT1 /\ owner[k] = "my-button1" THEN "none" ELSE owner[k]
      BY <3>1, FreedType
    <3> QED
      BY <1>8, <3>1, <3>2 DEF TypeOK, OpenButton1, RequestIrq
  <2>2. \A q \in Procs : \A k \in Keys : Holds(q, k)' <=> Holds(q, k)
    BY <1>8 DEF TypeOK, FilesInv, OpenButton1, Holds, Using, Opening
  <2>3. \A q \in Procs : \A k \in Keys : Holds(q, k) => file'[q] = file[q]
    BY <1>8 DEF TypeOK, FilesInv, OpenButton1, Holds, Using, Opening
  <2> QED
    BY <2>1, <2>2, <2>3 DEF LinesInv
<1>9. ASSUME NEW p \in Procs, NEW r \in Procs, Inherit(p, r) PROVE LinesInv'
  <2>1. \A q \in Procs : \A k \in Keys :
           Holds(q, k)' <=> Holds(q, k) \/ (q = p /\ r \in Using)
    BY <1>9 DEF TypeOK, FilesInv, Inherit, Holds, Using, Opening
  <2>2. r \in Using => \A k \in Keys : Holds(r, k)
    BY <1>9 DEF Inherit, Holds
  <2>3. \A k \in Keys : ~Holds(p, k)
    BY <1>9 DEF FilesInv, Inherit, Holds, Using, Opening
  <2>4. /\ owner' = owner
        /\ \A q \in Procs : file'[q] = IF q = p THEN file[r] ELSE file[q]
        /\ file[r] # 0 /\ pc[r] # "closing" /\ ~Opening(r)
    BY <1>9 DEF TypeOK, FilesInv, Inherit, Opening
  <2> QED
    BY <2>1, <2>2, <2>3, <2>4, HeldAlone DEF LinesInv
<1>10. ASSUME NEW p \in Procs, CloseShared(p) PROVE LinesInv'
  <2>1. PICK r \in Procs \ {p} : file[r] = file[p]
    BY <1>10 DEF CloseShared, Shared
  <2>2. \A q \in Procs : \A k \in Keys : Holds(q, k)' <=> Holds(q, k) /\ q # p
    BY <1>10 DEF TypeOK, FilesInv, CloseShared, Forget, Holds, Using, Opening
  <2>3. \A k \in Keys : Holds(p, k) => Holds(r, k)
    BY <1>10, <2>1 DEF TypeOK, FilesInv, CloseShared, Holds, Using, Opening
  <2>4. owner' = owner /\ \A q \in Procs : q # p => file'[q] = file[q]
    BY <1>10 DEF TypeOK, CloseShared, Forget
  <2> QED
    BY <2>1, <2>2, <2>3, <2>4 DEF LinesInv
<1>11. ASSUME NEW p \in Procs, CloseButton1(p) PROVE LinesInv'
  <2>1. \A k \in Keys : owner[k] = "buttons" <=> owner'[k] = "buttons"
    <3>1. BT1 \in Keys /\ "my-button1" \in Drivers
      BY KeysAssumption DEF Drivers
    <3>2. \A k \in Keys : Freed("my-button1", BT1)[k]
                           = IF k = BT1 /\ owner[k] = "my-button1" THEN "none" ELSE owner[k]
      BY <3>1, FreedType
    <3> QED
      BY <1>11, <3>1, <3>2 DEF CloseButton1
  <2>2. \A q \in Procs : \A k \in Keys : Holds(q, k)' <=> Holds(q, k)
    BY <1>11 DEF TypeOK, FilesInv, CloseButton1, Forget, Holds, Using, Opening
  <2>3. \A q \in Procs : \A k \in Keys : Holds(q, k) => file'[q] = file[q]
    BY <1>11 DEF TypeOK, FilesInv, CloseButton1, Forget, Holds, Using, Opening
  <2> QED
    BY <2>1, <2>2, <2>3 DEF LinesInv
<1>12. ASSUME NEW p \in Procs, Close(p) PROVE LinesInv'
  <2>1. \A q \in Procs : \A k \in Keys : Holds(q, k)' <=> Holds(q, k)
    BY <1>12 DEF TypeOK, FilesInv, Close, Holds, Using, Opening, Keys
  <2> QED
    BY <1>12, <2>1, <1>a DEF Close
(* A close frees the next line, and only its own.                          *)
<1>13. ASSUME NEW p \in Procs, CloseFree(p) PROVE LinesInv'
  <2>1. CASE at[p] < NKeys /\ owner' = Freed("buttons", at[p])
             /\ at' = [at EXCEPT ![p] = @ + 1] /\ UNCHANGED <<pc, file, driver>>
    <3> DEFINE j == at[p]
    <3>1. j \in Keys /\ Holds(p, j) /\ pc[p] = "closing"
      BY <1>13, <2>1, KeysAssumption DEF TypeOK, CloseFree, Holds, Keys
    <3>2. \A k \in Keys : owner'[k] = IF k = j /\ owner[k] = "buttons" THEN "none"
                                                                     ELSE owner[k]
      BY <2>1, <3>1, FreedType DEF Drivers
    <3>3. \A q \in Procs : \A k \in Keys :
             Holds(q, k)' <=> Holds(q, k) /\ ~(q = p /\ k = j)
      BY <1>13, <2>1 DEF TypeOK, CloseFree, Holds, Using, Opening, Keys
    <3>4. \A q \in Procs : Holds(q, j) => q = p
      BY <3>1, HeldAlone
    <3> HIDE DEF j
    <3> QED
      BY <2>1, <3>1, <3>2, <3>3, <3>4 DEF LinesInv
  <2>2. CASE /\ at[p] = NKeys /\ at' = [at EXCEPT ![p] = 0] /\ owner' = owner
             /\ pc' = [pc EXCEPT ![p] = "closed"] /\ Forget(p)
    <3>1. \A q \in Procs : \A k \in Keys : Holds(q, k)' <=> Holds(q, k)
      BY <1>13, <2>2, KeysAssumption
         DEF TypeOK, CloseFree, Forget, Holds, Using, Opening, Keys
    <3>2. \A q \in Procs : \A k \in Keys : Holds(q, k) => file'[q] = file[q]
      BY <1>13, <2>2, KeysAssumption
         DEF TypeOK, CloseFree, Forget, Holds, Using, Opening, Keys
    <3> QED
      BY <2>2, <3>1, <3>2 DEF LinesInv
  <2> QED
    BY <1>13, <2>1, <2>2 DEF CloseFree
<1>14. CASE UNCHANGED vars
  BY <1>14, <1>a, <1>b DEF vars, Opening
<1> QED
  BY <1>1, <1>2, <1>3, <1>4, <1>5, <1>6, <1>7, <1>8, <1>9, <1>10, <1>11, <1>12,
     <1>13, <1>14 DEF Next

-----------------------------------------------------------------------------
(* What readers are told.                                                  *)

(* Every step leaves the event set, or a reader with what has changed.     *)
LEMMA ReportStep ==
    TypeOK /\ NoChangeUnreported /\ [Next]_vars => NoChangeUnreported'
<1> SUFFICES ASSUME TypeOK, NoChangeUnreported, [Next]_vars
             PROVE  NoChangeUnreported'
  OBVIOUS
<1> USE DEF procs, lines, told, Goto
(* Nothing is lost while no reader stops to copy and the event stays.      *)
<1>a. ASSUME UNCHANGED <<key_values, told, left>>,
             event["buttons"] => event'["buttons"],
             \A q \in Procs : pc[q] = "r_copy" => pc'[q] = "r_copy"
      PROVE  NoChangeUnreported'
  BY <1>a DEF NoChangeUnreported
<1>1. ASSUME NEW k \in Keys, Edge(k) PROVE NoChangeUnreported'
  BY <1>1, <1>a DEF Edge
<1>2. ASSUME NEW k \in Keys, Interrupt(k) PROVE NoChangeUnreported'
  <2>1. CASE Happened("buttons")
    BY <2>1 DEF NoChangeUnreported, Happened, TypeOK, Drivers
  <2>2. CASE Happened("my-button1") /\ key_values' = key_values
    <3>1. \A q \in Procs : pc[q] = "r_copy" => pc'[q] = "r_copy"
      BY <2>2, WakeUpMoves DEF Happened, Drivers
    <3>2. event["buttons"] => event'["buttons"]
      BY <2>2 DEF Happened, TypeOK, Drivers
    <3> QED
      BY <1>2, <2>2, <3>1, <3>2, <1>a DEF Interrupt
  <2>3. CASE UNCHANGED <<key_values, event, pc>>
    BY <1>2, <2>3, <1>a DEF Interrupt
  <2> QED
    BY <1>2, <2>1, <2>2, <2>3 DEF Interrupt
<1>3. ASSUME NEW p \in Procs,
             \/ Open(p) \/ OpenRequest(p) \/ OpenUndo(p) \/ OpenButton1(p)
             \/ \E q \in Procs : Inherit(p, q)
             \/ Read(p) \/ ReadWait(p) \/ ReadSignal(p) \/ Poll(p)
             \/ CloseShared(p) \/ CloseButton1(p) \/ Close(p) \/ CloseFree(p)
      PROVE  NoChangeUnreported'
  <2>1. /\ UNCHANGED <<key_values, told, left, event>>
        /\ pc[p] # "r_copy"
        /\ \A q \in Procs : q # p => pc'[q] = pc[q]
    BY <1>3
       DEF TypeOK, Open, OpenRequest, OpenUndo, OpenButton1, Inherit, Read,
                ReadWait, ReadSignal, Poll, CloseShared, CloseButton1, Close,
                CloseFree
  <2> QED
    BY <2>1, <1>a
<1>4. ASSUME NEW p \in Procs, OpenDone(p) PROVE NoChangeUnreported'
  BY <1>4 DEF OpenDone, NoChangeUnreported, TypeOK, Drivers
<1>5. ASSUME NEW p \in Procs, ReadClear(p) PROVE NoChangeUnreported'
  <2>1. CASE driver[p] = "buttons"
    <3>1. PICK n \in 0..NKeys : /\ left' = [left EXCEPT ![p] = 0..(n - 1)]
                               /\ GiveUp(n..(NKeys - 1))
                               /\ Goto(p, IF n = 0 THEN "open" ELSE "r_copy")
      BY <1>5, <2>1 DEF ReadClear, Drivers
    <3>2. UNCHANGED <<key_values, reported>>
      BY <1>5 DEF ReadClear
    <3>3. ASSUME NEW k \in Keys, reported[k] # key_values[k]
          PROVE  k \in missed' \/ (pc'[p] = "r_copy" /\ k \in left'[p])
      <4>1. NKeys \in Nat /\ k \in 0..(NKeys - 1)
        BY KeysAssumption DEF Keys
      <4>2. CASE k < n
        BY <3>1, <4>1, <4>2 DEF TypeOK
      <4>3. CASE k >= n
        BY <3>1, <3>3, <4>1, <4>3 DEF GiveUp
      <4> QED
        BY <4>1, <4>2, <4>3
    <3> QED
      BY <3>2, <3>3 DEF NoChangeUnreported
  <2>2. CASE driver[p] # "buttons"
    <3>1. /\ UNCHANGED <<key_values, reported, missed, left>>
          /\ event'["buttons"] = event["buttons"]
          /\ \A q \in Procs : pc[q] = "r_copy" => pc'[q] = "r_copy"
      BY <1>5, <2>2 DEF ReadClear, TypeOK, Drivers
    <3> QED
      BY <3>1, <1>a
  <2> QED
    BY <2>1, <2>2
<1>6. ASSUME NEW p \in Procs, ReadCopy(p) PROVE NoChangeUnreported'
  <2>1. PICK k \in left[p] :
          /\ reported' = [reported EXCEPT ![k] = key_values[k]]
          /\ missed' = missed \ {k}
          /\ left' = [left EXCEPT ![p] = @ \ {k}]
          /\ IF left[p] = {k} THEN Goto(p, "open") ELSE UNCHANGED pc
    BY <1>6 DEF ReadCopy, CopyOne
  <2>2. ASSUME NEW j \in Keys, reported'[j] # key_values'[j]
        PROVE  j # k /\ reported[j] # key_values[j]
    BY <1>6, <2>1, <2>2 DEF ReadCopy, TypeOK
  <2>3. ASSUME NEW q \in Procs, NEW j \in left[q], j # k, pc[q] = "r_copy"
        PROVE  pc'[q] = "r_copy" /\ j \in left'[q]
    BY <1>6, <2>1, <2>3 DEF ReadCopy, TypeOK
  <2>4. event' = event
    BY <1>6 DEF ReadCopy
  <2> QED
    BY <2>1, <2>2, <2>3, <2>4 DEF NoChangeUnreported
(* What a faulting read was about to copy, it gives up.                    *)
<1>8. ASSUME NEW p \in Procs, ReadFault(p) PROVE NoChangeUnreported'
  <2>1. /\ UNCHANGED <<key_values, reported, event>> /\ missed \subseteq missed'
        /\ \A k \in left[p] : reported[k] # key_values[k] => k \in missed'
    BY <1>8 DEF ReadFault, GiveUp
  <2>2. \A q \in Procs : q # p => pc'[q] = pc[q] /\ left'[q] = left[q]
    BY <1>8 DEF ReadFault, TypeOK
  <2> QED
    BY <2>1, <2>2 DEF NoChangeUnreported
<1>7. CASE UNCHANGED vars
  BY <1>7, <1>a DEF vars
<1> QED
  BY <1>1, <1>2, <1>3, <1>4, <1>5, <1>6, <1>7, <1>8 DEF Next

(* Every step wakes whom it gives something to read: nobody sleeps with    *)
(* the driver "buttons" when a new file of it sets the event (OpenDone).   *)
LEMMA WakeStep ==
    TypeOK /\ FilesInv /\ LinesInv /\ NoMissedWakeUp /\ [Next]_vars => NoMissedWakeUp'
<1> SUFFICES ASSUME TypeOK, FilesInv, LinesInv, NoMissedWakeUp, [Next]_vars,
                    NEW s \in Procs, pc'[s] \in {"r_asleep", "p_asleep"}
             PROVE  ~event'[driver'[s]]
  BY DEF NoMissedWakeUp
<1> USE DEF procs, lines, told, Goto
<1>a. ASSUME UNCHANGED <<pc, driver, event>> PROVE ~event'[driver'[s]]
  BY <1>a DEF NoMissedWakeUp
<1>1. ASSUME NEW k \in Keys, Edge(k) PROVE ~event'[driver'[s]]
  BY <1>1, <1>a DEF Edge
<1>2. ASSUME NEW k \in Keys, Interrupt(k) PROVE ~event'[driver'[s]]
  <2>1. ASSUME NEW d \in Drivers, Happened(d) PROVE ~event'[driver'[s]]
    <3>1. driver[s] # d /\ pc'[s] = pc[s]
      BY <2>1, WakeUpMoves DEF Happened
    <3> QED
      BY <1>2, <2>1, <3>1 DEF Interrupt, Happened, NoMissedWakeUp, TypeOK
  <2> QED
    BY <1>2, <2>1, <1>a DEF Interrupt, Drivers
<1>3. ASSUME NEW p \in Procs,
             \/ Open(p) \/ OpenRequest(p) \/ OpenUndo(p) \/ OpenButton1(p)
             \/ \E q \in Procs : Inherit(p, q)
             \/ Read(p) \/ ReadWait(p) \/ ReadSignal(p) \/ Poll(p)
             \/ CloseShared(p) \/ CloseButton1(p) \/ Close(p) \/ CloseFree(p)
      PROVE  ~event'[driver'[s]]
  <2>1. event' = event /\ (s # p => UNCHANGED <<pc[s], driver[s]>>)
    BY <1>3
       DEF TypeOK, Open, OpenRequest, OpenUndo, OpenButton1, Inherit, Read,
                ReadWait, ReadSignal, Poll, CloseShared, CloseButton1, Close,
                CloseFree, Forget
  <2>2. s = p => ~event[driver[s]] /\ driver' = driver
    BY <1>3
       DEF TypeOK, Open, OpenRequest, OpenUndo, OpenButton1, Inherit, Read,
                ReadWait, ReadSignal, Poll, CloseShared, CloseButton1, Close,
                CloseFree, NoMissedWakeUp
  <2> QED
    BY <2>1, <2>2 DEF NoMissedWakeUp
<1>4. ASSUME NEW p \in Procs, OpenDone(p) PROVE ~event'[driver'[s]]
  <2>1. 0 \in Keys /\ Holds(p, 0) /\ Opening(p)
    BY <1>4, KeysAssumption DEF OpenDone, Holds, Opening, Keys
  <2>2. s # p /\ pc[s] \in {"r_asleep", "p_asleep"} /\ driver'[s] = driver[s]
    BY <1>4 DEF OpenDone, TypeOK
  <2>3. file[s] # 0 /\ ~Holds(s, 0)
    BY <2>1, <2>2, HeldAlone DEF FilesInv
  <2>4. driver[s] # "buttons"
    BY <2>2, <2>3 DEF Holds, Using
  <2> QED
    BY <1>4, <2>2, <2>4 DEF OpenDone, NoMissedWakeUp, TypeOK, Drivers
<1>5. ASSUME NEW p \in Procs, ReadClear(p) PROVE ~event'[driver'[s]]
  BY <1>5 DEF ReadClear, NoMissedWakeUp, TypeOK
<1>6. ASSUME NEW p \in Procs, ReadCopy(p) \/ ReadFault(p) PROVE ~event'[driver'[s]]
  BY <1>6 DEF ReadCopy, CopyOne, ReadFault, NoMissedWakeUp, TypeOK
<1>7. CASE UNCHANGED vars
  BY <1>7, <1>a DEF vars
<1> QED
  BY <1>1, <1>2, <1>3, <1>4, <1>5, <1>6, <1>7 DEF Next

-----------------------------------------------------------------------------
(* The results.                                                            *)

(* The invariant holds at the start, every step keeps it, and the drivers  *)
(* of Buttons do so for ever.                                              *)
THEOREM Invariance == Spec => []IInv
<1>1. Init => IInv
  <2> SUFFICES ASSUME Init PROVE IInv
    OBVIOUS
  <2>1. FilesInv /\ NoChangeUnreported /\ NoMissedWakeUp
    BY DEF Init, FilesInv, Opening, NoChangeUnreported, NoMissedWakeUp
  <2>2. LinesInv
    BY DEF Init, LinesInv, Holds, Opening, Using
  <2> QED
    BY <2>1, <2>2, TypeInit DEF IInv
<1>2. IInv /\ [Next]_vars => IInv'
  BY TypeStep, FilesStep, LinesStep, ReportStep, WakeStep DEF IInv
<1> QED
  BY <1>1, <1>2, PTL DEF Spec

(* A change of a key that one reader has cleared the event for is copied   *)
(* to some user, whatever readers share the file, unless that reader did   *)
(* not ask for the key or gave a bad buffer (test.c:112-178).              *)
THEOREM ChangesAreReported == Spec => []NoChangeUnreported
<1>1. IInv => NoChangeUnreported
  BY DEF IInv
<1> QED
  BY <1>1, Invariance, PTL

(* No reader or poller sleeps on an event that has come, not even on the   *)
(* one that an open makes up (test.c:145).                                 *)
THEOREM SleepersAreWoken == Spec => []NoMissedWakeUp
<1>1. IInv => NoMissedWakeUp
  BY DEF IInv
<1> QED
  BY <1>1, Invariance, PTL

(* Between calls the driver has all lines or none, as its file is open or  *)
(* not, whatever opens fail and however closes overlap the next open.      *)
THEOREM LinesAreBalanced == Spec => []LinesFollowFile
<1>1. IInv => LinesFollowFile
  <2> SUFFICES ASSUME IInv, NEW k \in Keys,
                      \A p \in Procs : pc[p] \notin {"o_request", "o_undo", "closing"}
               PROVE  /\ owner[k] = "buttons" <=> Using # {}
                      /\ \A p, q \in Using : file[p] = file[q]
    BY DEF LinesFollowFile
  <2>1. \A p \in Procs : Holds(p, k) <=> p \in Using
    BY DEF Holds, Opening
  <2>2. Using \subseteq Procs
    BY DEF Using
  <2> QED
    BY <2>1, <2>2 DEF IInv, LinesInv
<1> QED
  BY <1>1, Invariance, PTL
=============================================================================

------------------------------ MODULE At24Proofs ------------------------------
(***************************************************************************)
(* Proofs about At24, for any processes, sizes of the chip and of its      *)
(* pages, limits of a transfer and write cycles.                           *)
(***************************************************************************)
EXTENDS At24, TLAPS

(* at24->lock is held; a transfer has been cut.                            *)
Held == {"chunk", "attempt", "transfer", "retry", "unlock"}
Cut  == {"attempt", "transfer", "retry"}

(* The chip has no byte beyond those behind its first address: the driver  *)
(* sends every message to client[0] with an offset of eight bits (113-130, *)
(* 219-242), and what lies beyond would land in the first bytes.           *)
NoAliases == byte_len <= Addressable

(* The inductive invariant.  A transfer goes on where the call has got to, *)
(* and a write stays in a page, so the chip never wraps around.            *)
ChunkFits(p) ==
    /\ chunk[p] \in 1..Wanted(p)
    /\ call[p].op = "write" =>
         chunk[p] <= page_size /\ (Position(p) % page_size) + chunk[p] <= page_size
    /\ call[p].op = "read" => chunk[p] = ReadChunk(Position(p), Wanted(p))

CallOf(p) ==
    /\ pc[p] \in Held <=> lock = p
    /\ pc[p] # "idle" => /\ call[p].op \in {"read", "write"}
                         /\ call[p].off + call[p].count <= byte_len
    /\ pc[p] = "lock" => call[p].retval = 0 /\ call[p].count >= 1
    /\ pc[p] \in Held => call[p].retval <= call[p].count
    /\ pc[p] \in Cut \cup {"chunk"} => call[p].retval < call[p].count
    /\ pc[p] \in Cut => ChunkFits(p)
CallInv == \A p \in Procs : CallOf(p)

(* While a transfer is retried no other write cycle begins, and the one    *)
(* under way is over before the timeout; a sample at or after the timeout  *)
(* was taken when the chip was ready.                                      *)
TimeOf(p) ==
    /\ pc[p] \in Cut => cycle <= left[p]
    /\ pc[p] = "transfer" /\ ~before[p] => cycle = 0
    /\ pc[p] = "retry" => before[p]
    /\ pc[p] = "unlock" => Wanted(p) = 0
TimeInv == healthy => \A p \in Procs : TimeOf(p)

(* What a call says it has done is done, from its first transfer on, but   *)
(* for a byte that was asked for alone on a bus that fails.                *)
DataOf(p) ==
    pc[p] \in Held =>
        /\ call[p].op = "write" => \A o \in Done(p) : mem[o] = Byte(p, o)
        /\ call[p].op = "read" =>
             \A o \in Done(p) : buf[p][o] = mem[o] \/ (~healthy /\ Alone(p, o))
DataInv == \A p \in Procs : DataOf(p)

IInv == TypeOK /\ CallInv /\ TimeInv

-----------------------------------------------------------------------------
(* Division, as the pages and the addresses use it.                        *)
LEMMA DivMod ==
    ASSUME NEW m \in Nat \ {0}, NEW a \in Nat
    PROVE  a \div m \in Nat /\ a % m \in 0..(m - 1) /\ a = (a \div m) * m + (a % m)
<1>1. a % m \in 0..(m - 1)
  OBVIOUS
<1>2. a = (a \div m) * m + (a % m)
  OBVIOUS
<1>3. a \div m \in Nat
  OBVIOUS
<1> QED
  BY <1>1, <1>2, <1>3

(* A larger quotient is larger by a whole divisor.                         *)
LEMMA Quotients ==
    ASSUME NEW m \in Nat \ {0}, NEW p \in Int, NEW q \in Int, p + 1 <= q
    PROVE  p * m + m <= q * m
<1> DEFINE d == q - p - 1
<1>1. d \in Nat /\ q = p + 1 + d
  OBVIOUS
<1>2. q * m = p * m + m + d * m
  BY <1>1
<1>3. d * m \in Nat
  BY <1>1
<1>4. p * m \in Int /\ q * m \in Int
  OBVIOUS
<1> HIDE DEF d
<1> QED
  BY <1>2, <1>3, <1>4

(* There is one remainder.                                                 *)
LEMMA ModUnique ==
    ASSUME NEW m \in Nat \ {0}, NEW q \in Nat, NEW r \in 0..(m - 1), NEW a \in Nat,
           a = q * m + r
    PROVE  a % m = r
<1> DEFINE p == a \div m
           s == a % m
<1>1. p \in Nat /\ s \in 0..(m - 1) /\ a = p * m + s
  BY DivMod
<1> HIDE DEF p, s
<1>2. p * m \in Int /\ q * m \in Int
  BY <1>1
<1>3. ~(p + 1 <= q)
  <2>1. p + 1 <= q => p * m + m <= q * m
    BY <1>1, Quotients
  <2> QED
    BY <1>1, <1>2, <2>1
<1>4. ~(q + 1 <= p)
  <2>1. q + 1 <= p => q * m + m <= p * m
    BY <1>1, Quotients
  <2> QED
    BY <1>1, <1>2, <2>1
<1>5. p = q
  BY <1>1, <1>3, <1>4
<1> QED
  BY <1>1, <1>5, <1>2 DEF s

(* A number below the divisor is its own remainder.                        *)
LEMMA ModSmall ==
    ASSUME NEW m \in Nat \ {0}, NEW a \in 0..(m - 1)
    PROVE  a % m = a
<1>1. a = 0 * m + a /\ a \in Nat
  OBVIOUS
<1> QED
  BY <1>1, ModUnique

-----------------------------------------------------------------------------
(* Pages.  A cell of the page that holds a, at the distance i of a.        *)
LEMMA CellInPage ==
    ASSUME NEW a \in Nat, NEW i \in Nat, (a % page_size) + i < page_size
    PROVE  WriteCell(a, i) = a + i
<1> DEFINE q == a \div page_size
           r == a % page_size
<1>1. page_size \in Nat \ {0}
  BY ChipAssumption
<1>2. q \in Nat /\ r \in 0..(page_size - 1) /\ a = q * page_size + r
  BY <1>1, DivMod
<1>3. r + i \in 0..(page_size - 1)
  BY <1>1, <1>2
<1> HIDE DEF q, r
<1>4. a + i = q * page_size + (r + i)
  <2>1. q * page_size \in Int
    BY <1>1, <1>2
  <2> QED
    BY <1>2, <2>1
<1>5. (a + i) % page_size = r + i
  BY <1>1, <1>2, <1>3, <1>4, ModUnique
<1>6. WriteCell(a, i) = q * page_size + ((a + i) % page_size)
  BY DEF WriteCell, q
<1> QED
  BY <1>4, <1>5, <1>6

(* Two bytes of one transfer never go to the same cell, even if the chip   *)
(* wraps around.                                                           *)
LEMMA CellsDiffer ==
    ASSUME NEW a \in Nat, NEW i \in Nat, NEW j \in Nat, i < j, j < page_size
    PROVE  WriteCell(a, i) # WriteCell(a, j)
<1> DEFINE q == (a + i) \div page_size
           r == (a + i) % page_size
           d == j - i
           b == a + j
<1>1. page_size \in Nat \ {0} /\ a + i \in Nat /\ b \in Nat
  BY ChipAssumption
<1>2. q \in Nat /\ r \in 0..(page_size - 1) /\ a + i = q * page_size + r
  BY <1>1, DivMod
<1>3. d \in 1..(page_size - 1) /\ b = (a + i) + d
  BY <1>1
<1> HIDE DEF q, r, d, b
<1>4. q * page_size \in Int /\ (q + 1) * page_size = q * page_size + page_size
  BY <1>1, <1>2
<1>5. b % page_size # r
  <2>1. CASE r + d < page_size
    <3> DEFINE e == r + d
    <3>1. e \in 0..(page_size - 1) /\ b = q * page_size + e /\ q \in Nat
      BY <1>1, <1>2, <1>3, <1>4, <2>1
    <3>2. e # r
      BY <1>2, <1>3
    <3> HIDE DEF e
    <3>3. b % page_size = e
      BY <1>1, <3>1, ModUnique
    <3> QED
      BY <3>2, <3>3
  <2>2. CASE r + d >= page_size
    <3> DEFINE e == r + d - page_size
               s == q + 1
    <3>1. e \in 0..(page_size - 1) /\ b = s * page_size + e /\ s \in Nat
      BY <1>1, <1>2, <1>3, <1>4, <2>2
    <3>2. e # r
      BY <1>1, <1>2, <1>3
    <3> HIDE DEF e, s
    <3>3. b % page_size = e
      BY <1>1, <3>1, ModUnique
    <3> QED
      BY <3>2, <3>3
  <2> QED
    BY <1>1, <1>2, <1>3, <2>1, <2>2
<1>6. (a \div page_size) * page_size \in Int /\ b % page_size \in Int
  BY <1>1, DivMod
<1> QED
  BY <1>2, <1>5, <1>6 DEF WriteCell, r, b

(* at24_eeprom_write: "Never roll over backwards, to the start of this     *)
(* page" (225-228).                                                        *)
LEMMA ChunkInPage ==
    ASSUME NEW o \in Nat, NEW n \in Nat \ {0}
    PROVE  /\ WriteChunk(o, n) \in 1..n /\ WriteChunk(o, n) <= page_size
           /\ (o % page_size) + WriteChunk(o, n) <= page_size
<1> DEFINE q == o \div page_size
           r == o % page_size
<1>1. page_size \in Nat \ {0} /\ io_limit \in Nat \ {0}
  BY ChipAssumption
<1>2. q \in Nat /\ r \in 0..(page_size - 1) /\ o = q * page_size + r
  BY <1>1, DivMod
<1>3. Next_page(o) = (q + 1) * page_size
  BY DEF Next_page
<1> HIDE DEF q, r
<1>4. Next_page(o) - o = page_size - r
  <2>1. (q + 1) * page_size = q * page_size + page_size /\ q * page_size \in Int
    BY <1>1, <1>2
  <2> QED
    BY <1>1, <1>2, <1>3, <2>1
<1>5. WriteChunk(o, n) = Least(Least(n, write_max), page_size - r)
  BY <1>4 DEF WriteChunk
<1>6. /\ write_max \in Nat \ {0} /\ write_max <= page_size
  BY <1>1 DEF write_max, Least
<1>7. Least(n, write_max) \in 1..n /\ Least(n, write_max) <= page_size
  BY <1>1, <1>6 DEF Least
<1> DEFINE k == Least(n, write_max)
<1> HIDE DEF k
<1>8. /\ Least(k, page_size - r) \in 1..n /\ Least(k, page_size - r) <= page_size
      /\ r + Least(k, page_size - r) <= page_size
  <2>1. k \in 1..n /\ k <= page_size
    BY <1>7 DEF k
  <2> QED
    BY <1>1, <1>2, <2>1 DEF Least
<1> QED
  BY <1>5, <1>8 DEF k, r

(* A read is cut to what one message may carry (115-116).                  *)
LEMMA ReadChunkType ==
    ASSUME NEW o, NEW n \in Nat \ {0}
    PROVE  ReadChunk(o, n) \in 1..n
  BY ChipAssumption DEF ReadChunk, Least

-----------------------------------------------------------------------------
(* The numbers of a call whose transfer has been cut.                      *)
LEMMA Numbers ==
    ASSUME TypeOK, NEW p \in Procs
    PROVE  /\ call[p].off \in 0..(byte_len - 1) /\ call[p].count \in 0..byte_len
           /\ call[p].retval \in 0..byte_len /\ chunk[p] \in 0..byte_len
           /\ byte_len \in Nat \ {0} /\ Position(p) \in Nat /\ Wanted(p) \in Int
<1>1. byte_len \in Nat \ {0}
  BY ChipAssumption
<1>2. /\ call[p].off \in 0..(byte_len - 1) /\ call[p].count \in 0..byte_len
      /\ call[p].retval \in 0..byte_len /\ chunk[p] \in 0..byte_len
  BY DEF TypeOK, Offsets
<1> QED
  BY <1>1, <1>2 DEF Position, Wanted

(* What a write puts into the memory, complete or not: bytes of its own,   *)
(* and if the offset is an address, each at its offset and no other.       *)
LEMMA WhatIsWritten ==
    ASSUME TypeOK, NEW p \in Procs, ChunkFits(p), call[p].op = "write",
           call[p].off + call[p].count <= byte_len, NEW n \in 1..chunk[p]
    PROVE  /\ Written(p, n) \in [Offsets -> Bytes]
           /\ NoAliases =>
                \A o \in Offsets :
                    Written(p, n)[o] = IF o \in Position(p)..(Position(p) + n - 1)
                                       THEN Byte(p, o) ELSE mem[o]
<1> DEFINE a == ChipAddress(Position(p))
           cells == {WriteCell(a, i) : i \in 0..(n - 1)}
           Last(c) == CHOOSE i \in 0..(n - 1) :
                        /\ WriteCell(a, i) = c
                        /\ \A j \in 0..(n - 1) : WriteCell(a, j) = c => j <= i
<1>1. /\ Position(p) \in Nat /\ n \in Nat \ {0} /\ n <= page_size
      /\ Position(p) + n <= byte_len /\ page_size \in Nat /\ byte_len \in Nat
      /\ (Position(p) % page_size) + n <= page_size
  <2>1. chunk[p] \in 1..Wanted(p) /\ chunk[p] <= page_size
    BY DEF ChunkFits
  <2>2. chunk[p] \in Nat /\ n \in Nat \ {0} /\ n <= chunk[p]
    BY <2>1, Numbers
  <2>3. Position(p) + chunk[p] <= byte_len
    BY <2>1, Numbers DEF Position, Wanted
  <2>4. page_size \in Nat \ {0} /\ byte_len \in Nat
    BY ChipAssumption
  <2>5. Position(p) % page_size \in Int
    BY <2>4, Numbers, DivMod
  <2>6. (Position(p) % page_size) + chunk[p] <= page_size
    BY DEF ChunkFits
  <2> QED
    BY <2>1, <2>2, <2>3, <2>4, <2>5, <2>6, Numbers
<1>2. a \in Nat
  <2>1. Position(p) \in Nat /\ Addressable \in Nat \ {0}
    BY <1>1, ChipAssumption
  <2> QED
    BY <2>1, DivMod DEF ChipAddress
<1>3. Written(p, n) = [c \in Offsets |-> IF c \in cells
                                         THEN Byte(p, Position(p) + Last(c)) ELSE mem[c]]
  BY DEF Written
<1> HIDE DEF a
<1>4. ASSUME NEW c \in cells
      PROVE  Last(c) \in 0..(n - 1) /\ WriteCell(a, Last(c)) = c
  <2>1. PICK i \in 0..(n - 1) : WriteCell(a, i) = c
    OBVIOUS
  <2>2. ASSUME NEW j \in 0..(n - 1), WriteCell(a, j) = c
        PROVE  j <= i
    <3>1. i \in Nat /\ j \in Nat /\ j < page_size
      BY <1>1
    <3>2. ~(i < j)
      BY <1>2, <2>1, <2>2, <3>1, CellsDiffer
    <3> QED
      BY <3>1, <3>2
  <2> QED
    BY <2>1, <2>2
<1> HIDE DEF Last
<1>5. Written(p, n) \in [Offsets -> Bytes]
  <2>1. ASSUME NEW c \in cells PROVE Byte(p, Position(p) + Last(c)) \in Bytes
    <3>1. Last(c) \in 0..(n - 1)
      BY <1>4
    <3>2. Position(p) + Last(c) \in Offsets
      BY <1>1, <3>1 DEF Offsets
    <3> QED
      BY <3>2 DEF Bytes, Byte
  <2>2. \A c \in Offsets : mem[c] \in Bytes
    BY DEF TypeOK
  <2> HIDE DEF cells
  <2> QED
    BY <1>3, <2>1, <2>2
<1>6. ASSUME NoAliases, NEW o \in Offsets
      PROVE  Written(p, n)[o] = IF o \in Position(p)..(Position(p) + n - 1)
                                THEN Byte(p, o) ELSE mem[o]
  <2>1. a = Position(p)
    <3>1. Position(p) \in 0..(Addressable - 1) /\ Addressable \in Nat \ {0}
      BY <1>1, <1>6, ChipAssumption DEF NoAliases
    <3> QED
      BY <3>1, ModSmall DEF a, ChipAddress
  <2>2. ASSUME NEW i \in 0..(n - 1) PROVE WriteCell(a, i) = a + i
    <3>1. i \in Nat /\ (a % page_size) + i < page_size
      <4>1. a % page_size \in Int
        BY <1>1, <1>2, ChipAssumption, DivMod
      <4>2. (a % page_size) + n <= page_size
        BY <1>1, <2>1
      <4> QED
        BY <1>1, <4>1, <4>2
    <3> QED
      BY <1>2, <3>1, CellInPage
  <2>3. CASE o \in Position(p)..(Position(p) + n - 1)
    <3> DEFINE i == o - Position(p)
    <3>1. i \in 0..(n - 1) /\ o = a + i
      BY <1>1, <2>1, <2>3
    <3> HIDE DEF i
    <3>2. o \in cells
      BY <2>2, <3>1
    <3>3. Last(o) \in 0..(n - 1) /\ o = a + Last(o)
      BY <1>4, <2>2, <3>2
    <3> QED
      BY <1>3, <2>1, <2>3, <3>2, <3>3
  <2>4. CASE o \notin Position(p)..(Position(p) + n - 1)
    <3>1. o \notin cells
      <4> SUFFICES ASSUME o \in cells PROVE FALSE
        OBVIOUS
      <4>1. Last(o) \in 0..(n - 1) /\ o = a + Last(o)
        BY <1>4, <2>2
      <4> QED
        BY <1>1, <2>1, <2>4, <4>1
    <3> QED
      BY <1>3, <2>4, <3>1
  <2> QED
    BY <2>3, <2>4
<1> QED
  BY <1>5, <1>6

(* Reading puts bytes into the caller's buffer, and if the offset is an    *)
(* address those of the offsets read.                                      *)
LEMMA WhatIsRead ==
    ASSUME TypeOK, NEW p \in Procs, chunk[p] \in 1..Wanted(p),
           call[p].off + call[p].count <= byte_len
    PROVE  /\ ReadIn(p) \in [Offsets -> Bytes]
           /\ NoAliases =>
                \A o \in Offsets :
                    ReadIn(p)[o] = IF o \in Position(p)..(Position(p) + chunk[p] - 1)
                                   THEN mem[o] ELSE buf[p][o]
<1> DEFINE a == ChipAddress(Position(p))
<1>1. /\ Position(p) \in Nat /\ chunk[p] \in Nat /\ byte_len \in Nat \ {0}
      /\ Position(p) + chunk[p] <= byte_len
  BY Numbers DEF Position, Wanted
<1>2. a \in Nat
  BY <1>1, ChipAssumption, DivMod DEF ChipAddress
<1>3. ReadIn(p) = [o \in Offsets |->
                     IF o \in Position(p)..(Position(p) + chunk[p] - 1)
                     THEN mem[ReadCell(a, o - Position(p))] ELSE buf[p][o]]
  BY DEF ReadIn
<1> HIDE DEF a
<1>4. /\ \A o \in Offsets : buf[p][o] \in Bytes
      /\ \A o \in Offsets : mem[o] \in Bytes
  BY DEF TypeOK
<1>5. ASSUME NEW o \in Offsets, o \in Position(p)..(Position(p) + chunk[p] - 1)
      PROVE  ReadCell(a, o - Position(p)) \in Offsets
  <2>1. o - Position(p) \in Nat
    BY <1>1, <1>5
  <2>2. a + (o - Position(p)) \in Nat
    BY <1>2, <2>1
  <2> QED
    BY <1>1, <2>2, DivMod DEF ReadCell, Offsets
<1>6. ReadIn(p) \in [Offsets -> Bytes]
  BY <1>3, <1>4, <1>5
<1>7. ASSUME NoAliases, NEW o \in Offsets, o \in Position(p)..(Position(p) + chunk[p] - 1)
      PROVE  ReadCell(a, o - Position(p)) = o
  <2>1. a = Position(p)
    <3>1. Position(p) \in 0..(Addressable - 1) /\ Addressable \in Nat \ {0}
      <4>1. chunk[p] >= 1
        BY Numbers
      <4> QED
        BY <1>1, <1>7, <4>1, ChipAssumption DEF NoAliases
    <3> QED
      BY <3>1, ModSmall DEF a, ChipAddress
  <2>2. a + (o - Position(p)) = o /\ o \in 0..(byte_len - 1)
    BY <1>1, <1>7, <2>1 DEF Offsets
  <2> QED
    BY <1>1, <2>2, ModSmall DEF ReadCell
<1> QED
  BY <1>3, <1>6, <1>7

-----------------------------------------------------------------------------
(* The steps.  A process leaves the others' variables alone, and Goto      *)
(* moves only itself.                                                      *)
LEMMA OthersKept ==
    ASSUME TypeOK, NEW p \in Procs, Call(p) \/ Steps(p), NEW q \in Procs, q # p
    PROVE  /\ pc'[q] = pc[q] /\ call'[q] = call[q] /\ chunk'[q] = chunk[q]
           /\ left'[q] = left[q] /\ before'[q] = before[q] /\ buf'[q] = buf[q]
<1> USE DEF attempt, chip, TypeOK, Goto
<1>1. CASE Call(p)
  BY <1>1 DEF Call
<1>2. CASE Lock(p)
  BY <1>2 DEF Lock
<1>3. CASE StartTransfer(p)
  BY <1>3 DEF StartTransfer
<1>4. CASE Attempt(p)
  BY <1>4 DEF Attempt, SampleTime
<1>5. CASE Transfer(p)
  BY <1>5 DEF Transfer, Succeeds, Stops, Fails, Advance
<1>6. CASE Retry(p)
  BY <1>6 DEF Retry
<1>7. CASE Unlock(p)
  BY <1>7 DEF Unlock
<1> QED
  BY <1>1, <1>2, <1>3, <1>4, <1>5, <1>6, <1>7 DEF Steps

(* A process keeps the invariant about calls for itself, ...               *)
LEMMA CallOwn ==
    ASSUME TypeOK, NEW p \in Procs, CallOf(p), Call(p) \/ Steps(p)
    PROVE  CallOf(p)'
<1> USE DEF attempt, chip, Goto
<1>n. /\ call[p].off \in 0..(byte_len - 1) /\ call[p].count \in 0..byte_len
      /\ call[p].retval \in 0..byte_len /\ chunk[p] \in 0..byte_len
      /\ byte_len \in Nat \ {0} /\ Position(p) \in Nat /\ Wanted(p) \in Int
  BY Numbers
<1>t. /\ pc \in [Procs -> Labels] /\ chunk \in [Procs -> 0..byte_len]
      /\ call \in [Procs -> [op : {"none", "read", "write"}, off : Offsets,
                             count : 0..byte_len, retval : 0..byte_len]]
      /\ NobodyHolds \notin Procs
  BY ChipAssumption DEF TypeOK
<1>1. CASE Call(p)
  <2>1. PICK op \in {"read", "write"}, o \in Offsets : \E n \in 1..(byte_len - o) :
            call'[p] = [op |-> op, off |-> o, count |-> n, retval |-> 0]
    BY <1>1, <1>t DEF Call
  <2>2. /\ call'[p].op \in {"read", "write"} /\ call'[p].retval = 0
        /\ call'[p].off + call'[p].count <= byte_len /\ call'[p].count >= 1
    BY <1>n, <2>1 DEF Offsets
  <2>3. pc[p] = "idle" /\ pc'[p] = "lock" /\ lock' = lock
    BY <1>1, <1>t DEF Call
  <2> QED
    BY <2>2, <2>3 DEF CallOf, Held, Cut
<1>2. CASE Lock(p)
  <2>1. pc[p] = "lock" /\ pc'[p] = "chunk" /\ lock' = p /\ call' = call
    BY <1>2, <1>t DEF Lock
  <2> QED
    BY <1>n, <2>1 DEF CallOf, Held, Cut
<1>3. CASE StartTransfer(p)
  <2>1. pc[p] = "chunk" /\ pc'[p] = "attempt" /\ lock' = lock /\ call' = call
    BY <1>3, <1>t DEF StartTransfer
  <2>2. chunk'[p] = IF call[p].op = "read" THEN ReadChunk(Position(p), Wanted(p))
                    ELSE WriteChunk(Position(p), Wanted(p))
    BY <1>3, <1>t DEF StartTransfer
  <2>3. Wanted(p) \in Nat \ {0}
    BY <1>n, <2>1 DEF CallOf, Cut, Wanted
  <2>4. Position(p)' = Position(p) /\ Wanted(p)' = Wanted(p)
    BY <2>1 DEF Position, Wanted
  <2>5. ChunkFits(p)'
    <3>1. CASE call[p].op = "read"
      <4>1. chunk'[p] \in 1..Wanted(p)
        BY <2>2, <2>3, <3>1, ReadChunkType
      <4> QED
        BY <2>1, <2>2, <2>4, <3>1, <4>1 DEF ChunkFits, ReadChunk
    <3>2. CASE call[p].op # "read"
      <4>1. /\ chunk'[p] \in 1..Wanted(p) /\ chunk'[p] <= page_size
            /\ (Position(p) % page_size) + chunk'[p] <= page_size
        BY <1>n, <2>2, <2>3, <3>2, ChunkInPage
      <4> QED
        BY <2>1, <2>4, <3>2, <4>1 DEF ChunkFits
    <3> QED
      BY <3>1, <3>2
  <2> QED
    BY <2>1, <2>5 DEF CallOf, Held, Cut
<1>4. CASE Attempt(p)
  <2>1. pc[p] = "attempt" /\ pc'[p] = "transfer" /\ UNCHANGED <<call, lock, chunk>>
    BY <1>4, <1>t DEF Attempt
  <2>2. ChunkFits(p)' <=> ChunkFits(p)
    BY <2>1 DEF ChunkFits, Position, Wanted
  <2> QED
    BY <2>1, <2>2 DEF CallOf, Held, Cut
<1>5. CASE Transfer(p)
  <2>0. pc[p] = "transfer" /\ UNCHANGED <<lock, chunk>>
    BY <1>5 DEF Transfer
  <2>1. CASE Advance(p)
    <3>1. /\ call' = [call EXCEPT ![p].retval = @ + chunk[p]]
          /\ pc'[p] = IF chunk[p] = Wanted(p) THEN "unlock" ELSE "chunk"
      BY <1>t, <2>1 DEF Advance
    <3>2. /\ call'[p].op = call[p].op /\ call'[p].off = call[p].off
          /\ call'[p].count = call[p].count /\ call'[p].retval = call[p].retval + chunk[p]
      BY <1>t, <3>1
    <3>3. chunk[p] \in 1..Wanted(p) /\ Wanted(p) = call[p].count - call[p].retval
      BY <2>0 DEF CallOf, Cut, ChunkFits, Wanted
    <3> QED
      BY <1>n, <2>0, <3>1, <3>2, <3>3 DEF CallOf, Held, Cut
  <2>2. CASE Goto(p, "retry") /\ UNCHANGED call
    <3>1. call' = call /\ pc'[p] = "retry"
      BY <1>t, <2>2
    <3>2. ChunkFits(p)' <=> ChunkFits(p)
      BY <2>0, <3>1 DEF ChunkFits, Position, Wanted
    <3> QED
      BY <2>0, <3>1, <3>2 DEF CallOf, Held, Cut
  <2> QED
    BY <1>5, <2>1, <2>2 DEF Transfer, Succeeds, Stops, Fails
<1>6. CASE Retry(p)
  <2>1. /\ pc[p] = "retry" /\ pc'[p] \in {"attempt", "unlock"}
        /\ UNCHANGED <<call, lock, chunk>>
    BY <1>6, <1>t DEF Retry
  <2>2. ChunkFits(p)' <=> ChunkFits(p)
    BY <2>1 DEF ChunkFits, Position, Wanted
  <2> QED
    BY <1>n, <2>1, <2>2 DEF CallOf, Held, Cut
<1>7. CASE Unlock(p)
  <2>1. pc[p] = "unlock" /\ pc'[p] = "idle" /\ lock' = NobodyHolds
    BY <1>7, <1>t DEF Unlock
  <2> QED
    BY <1>t, <2>1 DEF CallOf, Held, Cut
<1> QED
  BY <1>1, <1>2, <1>3, <1>4, <1>5, <1>6, <1>7 DEF Steps

(* ... and for the others, because it takes the lock when it is free and   *)
(* gives back only its own.                                                *)
LEMMA LockKept ==
    ASSUME TypeOK, CallInv, NEW p \in Procs, Call(p) \/ Steps(p), NEW q \in Procs, q # p
    PROVE  lock' = q <=> lock = q
<1> USE DEF attempt, chip, Goto
<1>1. NobodyHolds \notin Procs
  BY ChipAssumption
<1>2. CASE Lock(p)
  BY <1>1, <1>2 DEF Lock, MutexFree
<1>3. CASE Unlock(p)
  <2>1. lock = p /\ lock' = NobodyHolds
    BY <1>3 DEF Unlock, CallInv, CallOf, Held
  <2> QED
    BY <1>1, <2>1
<1>4. CASE UNCHANGED lock
  BY <1>4
<1> QED
  BY <1>2, <1>3, <1>4 DEF Steps, Call, StartTransfer, Attempt, Transfer, Retry

LEMMA CallStep == TypeOK /\ CallInv /\ [Next]_vars => CallInv'
<1> SUFFICES ASSUME TypeOK, CallInv, [Next]_vars, NEW q \in Procs
             PROVE  CallOf(q)'
  BY DEF CallInv
<1>1. CallOf(q)
  BY DEF CallInv
<1>2. ASSUME NEW p \in Procs, Call(p) \/ Steps(p)
      PROVE  CallOf(q)'
  <2>1. CASE p = q
    BY <1>1, <1>2, <2>1, CallOwn
  <2>2. CASE p # q
    <3>1. pc'[q] = pc[q] /\ call'[q] = call[q] /\ chunk'[q] = chunk[q]
      BY <1>2, <2>2, OthersKept
    <3>2. lock' = q <=> lock = q
      BY <1>2, <2>2, LockKept
    <3>3. ChunkFits(q)' <=> ChunkFits(q)
      BY <3>1 DEF ChunkFits, Position, Wanted
    <3> QED
      BY <1>1, <3>1, <3>2, <3>3 DEF CallOf
  <2> QED
    BY <2>1, <2>2
<1>3. CASE Tick \/ UNCHANGED vars
  <2>1. UNCHANGED <<pc, call, chunk, lock>>
    BY <1>3 DEF Tick, vars, attempt
  <2>2. ChunkFits(q)' <=> ChunkFits(q)
    BY <2>1 DEF ChunkFits, Position, Wanted
  <2> QED
    BY <1>1, <2>1, <2>2 DEF CallOf
<1> QED
  BY <1>2, <1>3 DEF Next

-----------------------------------------------------------------------------
(* While a process holds at24->lock no other begins a write cycle or       *)
(* changes the memory.                                                     *)
LEMMA ChipKept ==
    ASSUME TypeOK, CallInv, NEW p \in Procs, Call(p) \/ Steps(p),
           NEW q \in Procs, q # p, pc[q] \in Held
    PROVE  cycle' = cycle /\ mem' = mem
<1> USE DEF chip, attempt
<1>1. ~Transfer(p)
  <2>1. lock = q
    BY DEF CallInv, CallOf
  <2>2. pc[p] \notin Held
    BY <2>1 DEF CallInv, CallOf
  <2> QED
    BY <2>2 DEF Transfer, Held
<1> QED
  BY <1>1 DEF Steps, Call, Lock, StartTransfer, Attempt, Retry, Unlock

LEMMA TimeOwn ==
    ASSUME TypeOK, NEW p \in Procs, CallOf(p), TimeOf(p), healthy, Call(p) \/ Steps(p)
    PROVE  TimeOf(p)'
<1> USE DEF attempt, chip, Goto
<1>t. /\ pc \in [Procs -> Labels] /\ left \in [Procs -> 0..write_timeout]
      /\ before \in [Procs -> BOOLEAN] /\ cycle \in 0..WriteCycle
      /\ call \in [Procs -> [op : {"none", "read", "write"}, off : Offsets,
                             count : 0..byte_len, retval : 0..byte_len]]
  BY DEF TypeOK
<1>n. /\ left[p] \in Nat /\ cycle \in Nat /\ WriteCycle \in Nat /\ write_timeout \in Nat
      /\ cycle <= WriteCycle /\ WriteCycle <= write_timeout
  BY <1>t, TimeoutAssumption
<1>1. CASE Call(p)
  <2>1. pc'[p] = "lock"
    BY <1>1, <1>t DEF Call
  <2> QED
    BY <2>1 DEF TimeOf, Cut
<1>2. CASE Lock(p)
  <2>1. pc'[p] = "chunk"
    BY <1>2, <1>t DEF Lock
  <2> QED
    BY <2>1 DEF TimeOf, Cut
<1>3. CASE StartTransfer(p)
  <2>1. pc'[p] = "attempt" /\ left'[p] = write_timeout /\ cycle' = cycle
    BY <1>3, <1>t DEF StartTransfer
  <2> QED
    BY <1>n, <2>1 DEF TimeOf, Cut
<1>4. CASE Attempt(p)
  <2>1. /\ pc[p] = "attempt" /\ pc'[p] = "transfer" /\ left' = left /\ cycle' = cycle
        /\ before'[p] = (left[p] > 0)
    BY <1>4, <1>t DEF Attempt, SampleTime
  <2>2. cycle <= left[p]
    BY <2>1 DEF TimeOf, Cut
  <2>3. cycle' <= left'[p]
    BY <2>1, <2>2
  <2>4. ~before'[p] => ~(left[p] > 0)
    BY <2>1, Zenon
  <2>5. ~(left[p] > 0) => cycle' = 0
    BY <1>n, <2>1, <2>2
  <2> QED
    BY <2>1, <2>3, <2>4, <2>5 DEF TimeOf, Cut
<1>5. CASE Transfer(p)
  <2>0. pc[p] = "transfer" /\ UNCHANGED <<left, before, chunk>>
    BY <1>5 DEF Transfer
  <2>1. CASE Succeeds(p)
    <3>1. /\ call' = [call EXCEPT ![p].retval = @ + chunk[p]]
          /\ pc'[p] = IF chunk[p] = Wanted(p) THEN "unlock" ELSE "chunk"
      BY <1>t, <2>1 DEF Succeeds, Advance
    <3>2. /\ call'[p].count = call[p].count /\ call'[p].retval = call[p].retval + chunk[p]
      BY <1>t, <3>1
    <3>3. pc'[p] = "unlock" => Wanted(p)' = 0
      BY <3>1, <3>2, Numbers DEF Wanted
    <3> QED
      BY <3>1, <3>3 DEF TimeOf, Cut
  <2>2. CASE Fails(p)
    <3>1. pc'[p] = "retry" /\ cycle' = cycle /\ cycle > 0
      BY <1>t, <2>2 DEF Fails
    <3>2. before[p]
      BY <1>n, <2>0, <3>1 DEF TimeOf
    <3> QED
      BY <2>0, <3>1, <3>2 DEF TimeOf, Cut
  <2> QED
    BY <1>5, <2>1, <2>2 DEF Transfer, Stops
<1>6. CASE Retry(p)
  <2>1. pc[p] = "retry" /\ UNCHANGED <<left, cycle, call>>
    BY <1>6 DEF Retry
  <2>2. pc'[p] = "attempt"
    BY <1>6, <1>t, <2>1 DEF Retry, MayRetry, TimeOf
  <2> QED
    BY <2>1, <2>2 DEF TimeOf, Cut
<1>7. CASE Unlock(p)
  <2>1. pc'[p] = "idle"
    BY <1>7, <1>t DEF Unlock
  <2> QED
    BY <2>1 DEF TimeOf, Cut
<1> QED
  BY <1>1, <1>2, <1>3, <1>4, <1>5, <1>6, <1>7 DEF Steps

LEMMA TimeStep == TypeOK /\ CallInv /\ TimeInv /\ [Next]_vars => TimeInv'
<1> SUFFICES ASSUME TypeOK, CallInv, TimeInv, [Next]_vars, healthy', NEW q \in Procs
             PROVE  TimeOf(q)'
  BY DEF TimeInv
<1>1. healthy
  BY DEF Next, Steps, Call, Lock, StartTransfer, Attempt, Transfer, Retry,
     Unlock, Tick,
         vars, chip
<1>2. CallOf(q) /\ TimeOf(q)
  BY <1>1 DEF CallInv, TimeInv
<1>3. ASSUME NEW p \in Procs, Call(p) \/ Steps(p)
      PROVE  TimeOf(q)'
  <2>1. CASE p = q
    BY <1>1, <1>2, <1>3, <2>1, TimeOwn
  <2>2. CASE p # q
    <3>1. /\ pc'[q] = pc[q] /\ call'[q] = call[q] /\ left'[q] = left[q]
          /\ before'[q] = before[q]
      BY <1>3, <2>2, OthersKept
    <3>2. pc[q] \in Held => cycle' = cycle
      BY <1>3, <2>2, ChipKept
    <3> QED
      BY <1>2, <3>1, <3>2 DEF TimeOf, Held, Cut, Wanted
  <2> QED
    BY <2>1, <2>2
<1>4. CASE Tick
  <2>1. /\ UNCHANGED <<pc, call, before>> /\ cycle' = Less(cycle)
        /\ left'[q] = Less(left[q])
    BY <1>4 DEF Tick
  <2>2. left[q] \in Nat /\ cycle \in Nat
    BY TimeoutAssumption DEF TypeOK
  <2> QED
    BY <1>2, <2>1, <2>2 DEF TimeOf, Less, Wanted
<1>5. CASE UNCHANGED vars
  BY <1>2, <1>5 DEF vars, attempt, chip, TimeOf, Wanted
<1> QED
  BY <1>3, <1>4, <1>5 DEF Next

-----------------------------------------------------------------------------
(* If offsets are addresses, what is done stays done: the caller adds what *)
(* was asked for, nobody else writes while at24->lock is held, and a write *)
(* that failed half way changed only what the retry writes again.          *)
LEMMA DataOwn ==
    ASSUME NoAliases, TypeOK, NEW p \in Procs, CallOf(p), DataOf(p), Call(p) \/ Steps(p)
    PROVE  DataOf(p)'
<1> USE DEF attempt, chip, Goto
<1>n. /\ call[p].off \in 0..(byte_len - 1) /\ call[p].count \in 0..byte_len
      /\ call[p].retval \in 0..byte_len /\ chunk[p] \in 0..byte_len
      /\ byte_len \in Nat \ {0} /\ Position(p) \in Nat /\ Wanted(p) \in Int
  BY Numbers
<1>t. /\ pc \in [Procs -> Labels] /\ buf \in [Procs -> [Offsets -> Bytes]]
      /\ call \in [Procs -> [op : {"none", "read", "write"}, off : Offsets,
                             count : 0..byte_len, retval : 0..byte_len]]
  BY DEF TypeOK
<1>1. CASE Call(p) \/ Unlock(p)
  <2>1. pc'[p] \in {"lock", "idle"}
    BY <1>1, <1>t DEF Call, Unlock
  <2> QED
    BY <2>1 DEF DataOf, Held
<1>2. CASE Lock(p)
  <2>1. pc[p] = "lock" /\ call' = call
    BY <1>2 DEF Lock
  <2>2. Done(p)' = {}
    <3>1. Position(p)' = call[p].off /\ call'[p].off = call[p].off
      BY <1>n, <2>1 DEF CallOf, Position
    <3> QED
      BY <1>n, <3>1 DEF Done
  <2> QED
    BY <2>2 DEF DataOf
<1>3. CASE StartTransfer(p) \/ Attempt(p) \/ Retry(p)
  <2>1. pc[p] \in Held /\ UNCHANGED <<call, mem, buf, healthy>>
    BY <1>3 DEF StartTransfer, Attempt, Retry, Held
  <2> QED
    BY <2>1 DEF DataOf, Done, Position, Alone
<1>4. CASE Transfer(p)
  <2>1. /\ pc[p] = "transfer" /\ pc[p] \in Held /\ ChunkFits(p) /\ chunk[p] \in 1..Wanted(p)
        /\ call[p].off + call[p].count <= byte_len /\ healthy' = healthy
    BY <1>4 DEF Transfer, CallOf, Held, Cut, ChunkFits
  <2>2. Done(p) \subseteq Offsets
    BY <1>n, <2>1 DEF Done, Position, Wanted, Offsets
  <2>a. ASSUME Advance(p)
        PROVE  /\ call'[p].op = call[p].op
               /\ \A o : Alone(p, o)' <=> Alone(p, o)
               /\ \A o \in Done(p)' :
                     /\ o \in Offsets
                     /\ \/ o \in Position(p)..(Position(p) + chunk[p] - 1)
                        \/ o \in Done(p)
    <3>1. call' = [call EXCEPT ![p].retval = @ + chunk[p]]
      BY <2>a DEF Advance
    <3>2. /\ call'[p].op = call[p].op /\ call'[p].off = call[p].off
          /\ call'[p].retval = call[p].retval + chunk[p]
          /\ call'[p].count = call[p].count
      BY <1>t, <3>1
    <3>3. ASSUME NEW o \in Done(p)'
          PROVE  o \in call[p].off..(Position(p) + chunk[p] - 1)
      <4>1. o \in call'[p].off..((call'[p].off + call'[p].retval) - 1)
        BY DEF Done, Position
      <4> QED
        BY <1>n, <3>2, <4>1 DEF Position
    <3>4. \A o \in Done(p)' : /\ o \in Offsets
                             /\ \/ o \in Position(p)..(Position(p) + chunk[p] - 1)
                                \/ o \in Done(p)
      BY <1>n, <2>1, <3>3 DEF Done, Position, Wanted, Offsets
    <3> QED
      BY <3>2, <3>4 DEF Alone
  <2>3. CASE Succeeds(p)
    <3>2. Advance(p)
      BY <2>3 DEF Succeeds
    <3>5. CASE call[p].op = "write"
      <4>1. mem' = Written(p, chunk[p]) /\ chunk[p] \in 1..chunk[p]
        BY <1>n, <2>1, <2>3, <3>5 DEF Succeeds
      <4>2. ASSUME NEW o \in Offsets
            PROVE  mem'[o] = IF o \in Position(p)..(Position(p) + chunk[p] - 1)
                             THEN Byte(p, o) ELSE mem[o]
        BY <2>1, <3>5, <4>1, WhatIsWritten
      <4> QED
        BY <2>1, <2>a, <3>2, <3>5, <4>2 DEF DataOf
    <3>6. CASE call[p].op = "read"
      <4>1. buf'[p] = ReadIn(p) /\ mem' = mem
        BY <1>t, <2>3, <3>6 DEF Succeeds
      <4>2. ASSUME NEW o \in Offsets
            PROVE  buf'[p][o] = IF o \in Position(p)..(Position(p) + chunk[p] - 1)
                                THEN mem[o] ELSE buf[p][o]
        BY <2>1, <4>1, WhatIsRead
      <4> QED
        BY <2>1, <2>a, <3>2, <3>6, <4>1, <4>2 DEF DataOf
    <3> QED
      BY <2>3, <3>5, <3>6 DEF Succeeds
  <2>5. CASE Stops(p)
    <3>1. ~healthy /\ call[p].op = "read" /\ mem' = mem /\ buf' = buf
      BY <2>5 DEF Stops
    <3>2. CASE chunk[p] = 1 /\ Advance(p)
      <4>1. ReadChunk(Position(p), Wanted(p)) = 1
        BY <2>1, <3>1, <3>2 DEF ChunkFits
      <4>2. Alone(p, Position(p))
        BY <1>n, <4>1 DEF ReadChunk, Least, Alone, Position, Wanted
      <4>3. \A o \in Done(p)' : o \in Done(p) \/ o = Position(p)
        BY <1>n, <2>a, <3>2
      <4> QED
        BY <2>1, <2>a, <3>1, <3>2, <4>2, <4>3 DEF DataOf
    <3>3. CASE UNCHANGED call
      BY <2>1, <3>1, <3>3 DEF DataOf, Done, Position, Alone
    <3> QED
      BY <2>5, <3>2, <3>3 DEF Stops
  <2>4. CASE Fails(p)
    <3>1. call' = call /\ buf' = buf
      BY <2>4 DEF Fails
    <3>2. CASE mem' = mem
      BY <2>1, <3>1, <3>2 DEF DataOf, Done, Position, Alone
    <3>3. ASSUME call[p].op = "write", NEW n \in 1..chunk[p], mem' = Written(p, n)
          PROVE  DataOf(p)'
      <4>1. ASSUME NEW o \in Done(p) PROVE mem'[o] = mem[o]
        <5>1. o \in Offsets /\ o \notin Position(p)..(Position(p) + n - 1)
          BY <1>n, <2>2 DEF Done
        <5> QED
          BY <2>1, <3>3, <5>1, WhatIsWritten
      <4> QED
        BY <2>1, <3>1, <3>3, <4>1 DEF DataOf, Done, Position
    <3> QED
      BY <2>4, <3>2, <3>3 DEF Fails
  <2> QED
    BY <1>4, <2>3, <2>4, <2>5 DEF Transfer
<1> QED
  BY <1>1, <1>2, <1>3, <1>4 DEF Steps

LEMMA DataStep ==
    ASSUME NoAliases
    PROVE  TypeOK /\ CallInv /\ DataInv /\ [Next]_vars => DataInv'
<1> SUFFICES ASSUME TypeOK, CallInv, DataInv, [Next]_vars, NEW q \in Procs
             PROVE  DataOf(q)'
  BY DEF DataInv
<1>1. CallOf(q) /\ DataOf(q)
  BY DEF CallInv, DataInv
<1>2. ASSUME NEW p \in Procs, Call(p) \/ Steps(p)
      PROVE  DataOf(q)'
  <2>1. CASE p = q
    BY <1>1, <1>2, <2>1, DataOwn
  <2>2. CASE p # q
    <3>1. pc'[q] = pc[q] /\ call'[q] = call[q] /\ buf'[q] = buf[q]
      BY <1>2, <2>2, OthersKept
    <3>2. pc[q] \in Held => mem' = mem
      BY <1>2, <2>2, ChipKept
    <3>3. healthy' = healthy
      BY <1>2 DEF Steps, Call, Lock, StartTransfer, Attempt, Transfer, Retry, Unlock, chip
    <3> QED
      BY <1>1, <3>1, <3>2, <3>3 DEF DataOf, Done, Position, Alone
  <2> QED
    BY <2>1, <2>2
<1>3. CASE Tick \/ UNCHANGED vars
  <2>1. UNCHANGED <<pc, call, buf, mem, healthy>>
    BY <1>3 DEF Tick, vars, chip
  <2> QED
    BY <1>1, <2>1 DEF DataOf, Done, Position, Alone
<1> QED
  BY <1>2, <1>3 DEF Next

-----------------------------------------------------------------------------
LEMMA TypeInit == Init => TypeOK
<1> SUFFICES ASSUME Init PROVE TypeOK
  OBVIOUS
<1>1. 0 \in Offsets /\ 0 \in 0..byte_len
  BY ChipAssumption DEF Offsets
<1>2. 0 \in 0..write_timeout /\ 0 \in 0..WriteCycle
  BY TimeoutAssumption
<1>3. NothingRead \in [Offsets -> Bytes] /\ mem \in [Offsets -> Bytes]
  BY <1>1 DEF Init, NothingRead, Byte, Bytes
<1>4. /\ call \in [Procs -> [op : {"none", "read", "write"}, off : Offsets,
                             count : 0..byte_len, retval : 0..byte_len]]
      /\ pc \in [Procs -> Labels] /\ chunk \in [Procs -> 0..byte_len]
      /\ left \in [Procs -> 0..write_timeout] /\ cycle \in 0..WriteCycle
      /\ lock \in Procs \cup {NobodyHolds}
  BY <1>1, <1>2 DEF Init, NoCall, Labels
<1>5. buf \in [Procs -> [Offsets -> Bytes]]
  BY <1>3 DEF Init
<1>6. before \in [Procs -> BOOLEAN] /\ healthy \in BOOLEAN
  BY Zenon DEF Init
<1> QED
  BY <1>3, <1>4, <1>5, <1>6 DEF TypeOK

LEMMA TypeStep == TypeOK /\ CallInv /\ [Next]_vars => TypeOK'
<1> SUFFICES ASSUME TypeOK, CallInv, [Next]_vars
             PROVE  TypeOK'
  OBVIOUS
<1> USE DEF attempt, chip, Goto
<1> DEFINE Calls == [op : {"none", "read", "write"}, off : Offsets,
                     count : 0..byte_len, retval : 0..byte_len]
<1>t. /\ pc \in [Procs -> Labels] /\ call \in [Procs -> Calls]
      /\ chunk \in [Procs -> 0..byte_len] /\ left \in [Procs -> 0..write_timeout]
      /\ before \in [Procs -> BOOLEAN] /\ buf \in [Procs -> [Offsets -> Bytes]]
      /\ lock \in Procs \cup {NobodyHolds} /\ mem \in [Offsets -> Bytes]
      /\ cycle \in 0..WriteCycle /\ healthy \in BOOLEAN
  BY DEF TypeOK
<1>z. /\ 0 \in Offsets /\ 0 \in 0..byte_len /\ byte_len \in Nat
      /\ 0 \in 0..write_timeout /\ write_timeout \in Nat /\ WriteCycle \in Nat
  BY ChipAssumption, TimeoutAssumption DEF Offsets
<1>c. NoCall \in Calls /\ NothingRead \in [Offsets -> Bytes]
  BY <1>z DEF NoCall, NothingRead, Byte, Bytes
<1>1. ASSUME NEW p \in Procs, Call(p)
      PROVE  TypeOK'
  <2>1. PICK op \in {"read", "write"}, o \in Offsets : \E n \in 1..(byte_len - o) :
            call' = [call EXCEPT ![p] = [op |-> op, off |-> o, count |-> n, retval |-> 0]]
    BY <1>1 DEF Call
  <2>2. call' \in [Procs -> Calls]
    <3>1. \A n \in 1..(byte_len - o) : n \in 0..byte_len
      BY <1>z DEF Offsets
    <3> QED
      BY <1>t, <1>z, <2>1, <3>1
  <2>3. pc' \in [Procs -> Labels]
    BY <1>1, <1>t DEF Call, Labels
  <2>4. UNCHANGED <<chunk, left, before, buf, lock, mem, cycle, healthy>>
    BY <1>1 DEF Call
  <2> QED
    BY <1>t, <2>2, <2>3, <2>4, Zenon DEF TypeOK
<1>2. ASSUME NEW p \in Procs, Lock(p)
      PROVE  TypeOK'
  <2>1. pc' \in [Procs -> Labels] /\ lock' = p
    BY <1>2, <1>t DEF Lock, Labels
  <2>2. UNCHANGED <<call, chunk, left, before, buf, mem, cycle, healthy>>
    BY <1>2 DEF Lock
  <2>3. lock' \in Procs \cup {NobodyHolds}
    BY <2>1
  <2> QED
    BY <1>t, <2>1, <2>2, <2>3, Zenon DEF TypeOK
<1>3. ASSUME NEW p \in Procs, StartTransfer(p)
      PROVE  TypeOK'
  <2>1. /\ pc[p] = "chunk"
        /\ chunk' = [chunk EXCEPT ![p] = IF call[p].op = "read"
                                         THEN ReadChunk(Position(p), Wanted(p))
                                         ELSE WriteChunk(Position(p), Wanted(p))]
        /\ left' = [left EXCEPT ![p] = write_timeout]
    BY <1>3 DEF StartTransfer
  <2>2. Wanted(p) \in Nat \ {0} /\ Wanted(p) <= byte_len
    BY <1>z, <2>1, Numbers DEF CallInv, CallOf, Cut, Wanted
  <2>3. ReadChunk(Position(p), Wanted(p)) \in 0..byte_len
    <3>1. ReadChunk(Position(p), Wanted(p)) \in 1..Wanted(p)
      BY <2>2, ReadChunkType
    <3> QED
      BY <1>z, <2>2, <3>1
  <2>4. WriteChunk(Position(p), Wanted(p)) \in 0..byte_len
    <3>1. WriteChunk(Position(p), Wanted(p)) \in 1..Wanted(p)
      BY <2>2, ChunkInPage, Numbers
    <3> QED
      BY <1>z, <2>2, <3>1
  <2>5. chunk' \in [Procs -> 0..byte_len]
    BY <1>t, <2>1, <2>3, <2>4
  <2>6. left' \in [Procs -> 0..write_timeout]
    BY <1>t, <1>z, <2>1
  <2>7. pc' \in [Procs -> Labels]
    BY <1>3, <1>t DEF StartTransfer, Labels
  <2>8. UNCHANGED <<call, before, buf, lock, mem, cycle, healthy>>
    BY <1>3 DEF StartTransfer
  <2> QED
    BY <1>t, <2>5, <2>6, <2>7, <2>8, Zenon DEF TypeOK
<1>4. ASSUME NEW p \in Procs, Attempt(p)
      PROVE  TypeOK'
  <2>1. pc' \in [Procs -> Labels]
    BY <1>4, <1>t DEF Attempt, Labels
  <2>2. before' \in [Procs -> BOOLEAN]
    BY <1>4, <1>t DEF Attempt, SampleTime
  <2>3. UNCHANGED <<call, chunk, left, buf, lock, mem, cycle, healthy>>
    BY <1>4 DEF Attempt
  <2> QED
    BY <1>t, <2>1, <2>2, <2>3, Zenon DEF TypeOK
<1>5. ASSUME NEW p \in Procs, Transfer(p)
      PROVE  TypeOK'
  <2>0. /\ ChunkFits(p) /\ chunk[p] \in 1..Wanted(p)
        /\ call[p].op \in {"read", "write"} /\ call[p].off + call[p].count <= byte_len
    BY <1>5 DEF Transfer, CallInv, CallOf, Cut, ChunkFits
  <2>1. UNCHANGED <<chunk, left, before, lock, healthy>>
    BY <1>5 DEF Transfer
  <2>a. Advance(p) => pc' \in [Procs -> Labels] /\ call' \in [Procs -> Calls]
    <3> SUFFICES ASSUME Advance(p)
                 PROVE  pc' \in [Procs -> Labels] /\ call' \in [Procs -> Calls]
      OBVIOUS
    <3>1. pc' \in [Procs -> Labels]
      BY <1>t DEF Advance, Labels
    <3>2. call' = [call EXCEPT ![p].retval = @ + chunk[p]]
      BY DEF Advance
    <3>3. call[p].retval + chunk[p] \in 0..byte_len
      BY <2>0, Numbers DEF Wanted
    <3> QED
      BY <1>t, <3>1, <3>2, <3>3
  <2>2. CASE Succeeds(p)
    <3>4. pc' \in [Procs -> Labels] /\ call' \in [Procs -> Calls]
      BY <2>2, <2>a DEF Succeeds
    <3>5. buf' \in [Procs -> [Offsets -> Bytes]]
      <4>1. ReadIn(p) \in [Offsets -> Bytes]
        BY <2>0, WhatIsRead
      <4> QED
        BY <1>t, <2>2, <4>1 DEF Succeeds
    <3>6. mem' \in [Offsets -> Bytes] /\ cycle' \in 0..WriteCycle
      <4>1. CASE call[p].op = "write"
        <5>1. mem' = Written(p, chunk[p]) /\ cycle' = WriteCycle /\ chunk[p] \in 1..chunk[p]
          BY <2>0, <2>2, <4>1, Numbers DEF Succeeds
        <5>2. mem' \in [Offsets -> Bytes]
          BY <2>0, <4>1, <5>1, WhatIsWritten
        <5> QED
          BY <1>z, <5>1, <5>2
      <4>2. CASE call[p].op # "write"
        BY <1>t, <2>2, <4>2 DEF Succeeds
      <4> QED
        BY <4>1, <4>2
    <3> QED
      BY <1>t, <2>1, <3>4, <3>5, <3>6, Zenon DEF TypeOK
  <2>3. CASE Fails(p)
    <3>1. pc' \in [Procs -> Labels] /\ UNCHANGED <<call, buf>>
      BY <1>t, <2>3 DEF Fails, Labels
    <3>2. mem' \in [Offsets -> Bytes] /\ cycle' \in 0..WriteCycle
      <4>1. CASE UNCHANGED <<mem, cycle>>
        BY <1>t, <4>1
      <4>2. ASSUME call[p].op = "write", NEW n \in 1..chunk[p], mem' = Written(p, n),
                   cycle' = WriteCycle
            PROVE  mem' \in [Offsets -> Bytes] /\ cycle' \in 0..WriteCycle
        <5>1. mem' \in [Offsets -> Bytes]
          BY <2>0, <4>2, WhatIsWritten
        <5> QED
          BY <1>z, <4>2, <5>1
      <4> QED
        BY <2>3, <4>1, <4>2 DEF Fails
    <3> QED
      BY <1>t, <2>1, <3>1, <3>2, Zenon DEF TypeOK
  <2>4. CASE Stops(p)
    <3>1. pc' \in [Procs -> Labels] /\ call' \in [Procs -> Calls]
      BY <1>t, <2>4, <2>a DEF Stops, Labels
    <3>2. UNCHANGED <<buf, mem, cycle>>
      BY <2>4 DEF Stops
    <3> QED
      BY <1>t, <2>1, <3>1, <3>2, Zenon DEF TypeOK
  <2> QED
    BY <1>5, <2>2, <2>3, <2>4 DEF Transfer
<1>6. ASSUME NEW p \in Procs, Retry(p)
      PROVE  TypeOK'
  <2>1. pc' \in [Procs -> Labels]
    BY <1>6, <1>t DEF Retry, Labels
  <2>2. UNCHANGED <<call, chunk, left, before, buf, lock, mem, cycle, healthy>>
    BY <1>6 DEF Retry
  <2> QED
    BY <1>t, <2>1, <2>2, Zenon DEF TypeOK
<1>7. ASSUME NEW p \in Procs, Unlock(p)
      PROVE  TypeOK'
  <2>1. pc' \in [Procs -> Labels] /\ lock' \in Procs \cup {NobodyHolds}
    BY <1>7, <1>t DEF Unlock, Labels
  <2>2. /\ chunk' \in [Procs -> 0..byte_len] /\ left' \in [Procs -> 0..write_timeout]
        /\ buf' \in [Procs -> [Offsets -> Bytes]] /\ call' \in [Procs -> Calls]
    BY <1>7, <1>t, <1>z, <1>c DEF Unlock
  <2>3. before' \in [Procs -> BOOLEAN]
    BY <1>7, <1>t DEF Unlock
  <2>4. UNCHANGED <<mem, cycle, healthy>>
    BY <1>7 DEF Unlock
  <2> QED
    BY <1>t, <2>1, <2>2, <2>3, <2>4, Zenon DEF TypeOK
<1>8. CASE Tick
  <2>1. cycle' \in 0..WriteCycle
    BY <1>8, <1>t, <1>z DEF Tick, Less
  <2>2. left' \in [Procs -> 0..write_timeout]
    <3>1. ASSUME NEW p \in Procs PROVE Less(left[p]) \in 0..write_timeout
      BY <1>t, <1>z DEF Less
    <3> QED
      BY <1>8, <3>1 DEF Tick
  <2>3. UNCHANGED <<pc, call, chunk, before, buf, lock, mem, healthy>>
    BY <1>8 DEF Tick
  <2> QED
    BY <1>t, <2>1, <2>2, <2>3, Zenon DEF TypeOK
<1>9. CASE UNCHANGED vars
  <2>1. UNCHANGED <<pc, call, chunk, left, before, buf, lock, mem, cycle, healthy>>
    BY <1>9 DEF vars
  <2> QED
    BY <1>t, <2>1, Zenon DEF TypeOK
<1> QED
  BY <1>1, <1>2, <1>3, <1>4, <1>5, <1>6, <1>7, <1>8, <1>9 DEF Next, Steps

-----------------------------------------------------------------------------
(* The results.                                                            *)
LEMMA InitInv == Init => IInv /\ DataInv
<1> SUFFICES ASSUME Init PROVE IInv /\ DataInv
  OBVIOUS
<1>1. \A p \in Procs : pc[p] = "idle" /\ lock \notin Procs
  BY ChipAssumption DEF Init
<1>2. CallInv /\ TimeInv /\ DataInv
  BY <1>1 DEF CallInv, CallOf, TimeInv, TimeOf, DataInv, DataOf, Held, Cut
<1> QED
  BY <1>2, TypeInit DEF IInv

(* The driver keeps to its lock, its chunks and its timeouts, whatever the *)
(* chip and the bus do.                                                    *)
THEOREM Invariance == Spec => []IInv
<1>1. IInv /\ [Next]_vars => IInv'
  BY TypeStep, CallStep, TimeStep DEF IInv
<1> QED
  BY InitInv, <1>1, PTL DEF Spec

(* The wait for an earlier write never times out on a healthy bus, because *)
(* the time is sampled before each attempt and not after it (write_time).  *)
THEOREM WaitsAreLongEnough == Spec => []NoFalseTimeout
<1>1. IInv => NoFalseTimeout
  BY DEF IInv, TimeInv, TimeOf, NoFalseTimeout
<1> QED
  BY Invariance, <1>1, PTL

(* If the offsets of the chip are addresses, what is done stays done ...   *)
LEMMA DataInvariance ==
    ASSUME NoAliases
    PROVE  Spec => [](IInv /\ DataInv)
<1>1. IInv /\ DataInv /\ [Next]_vars => (IInv /\ DataInv)'
  BY TypeStep, CallStep, TimeStep, DataStep DEF IInv
<1> QED
  BY InitInv, <1>1, PTL DEF Spec

(* ... so a write that returns has written what it says, at the offsets    *)
(* asked for, over page boundaries and retries (at24_write) ...            *)
THEOREM WritesLand ==
    ASSUME NoAliases
    PROVE  Spec => []WriteLanded
<1>1. IInv /\ DataInv => WriteLanded
  BY DEF DataInv, DataOf, WriteLanded, Held
<1> QED
  BY DataInvariance, <1>1, PTL

(* ... and a read returns the memory as it is when the last transfer is    *)
(* over, because at24->lock is held over all of them (at24_read); only a   *)
(* byte asked for alone on a bus that fails may not have been read (149).  *)
THEOREM ReadsAreConsistent ==
    ASSUME NoAliases
    PROVE  Spec => []ReadConsistent
<1>1. IInv /\ DataInv => ReadConsistent
  BY DEF DataInv, DataOf, ReadConsistent, Held
<1> QED
  BY DataInvariance, <1>1, PTL

(* No transfer, complete or failed half way, touches a byte outside the    *)
(* range its caller asked to write: none crosses the end of a page.        *)
THEOREM OthersUntouched ==
    ASSUME NoAliases
    PROVE  Spec => OnlyAskedChanged
<1>1. IInv /\ [Next]_vars =>
        [\A o \in Offsets : mem'[o] # mem[o] =>
           \E p \in Procs : /\ pc[p] = "transfer" /\ call[p].op = "write"
                            /\ call[p].off <= o
                            /\ o < call[p].off + call[p].count]_vars
  <2> SUFFICES ASSUME IInv, [Next]_vars, NEW o \in Offsets, mem'[o] # mem[o]
               PROVE  \E p \in Procs : /\ pc[p] = "transfer" /\ call[p].op = "write"
                                       /\ call[p].off <= o
                                       /\ o < call[p].off + call[p].count
    OBVIOUS
  <2>1. PICK p \in Procs : Transfer(p)
    BY DEF Next, Steps, Call, Lock, StartTransfer, Attempt, Retry, Unlock, Tick,
                vars, chip
  <2>2. /\ pc[p] = "transfer" /\ ChunkFits(p) /\ chunk[p] \in 1..Wanted(p)
        /\ call[p].off + call[p].count <= byte_len
    BY <2>1 DEF Transfer, IInv, CallInv, CallOf, Cut, ChunkFits
  <2>3. PICK n \in 1..chunk[p] : call[p].op = "write" /\ mem' = Written(p, n)
    <3>1. chunk[p] \in 1..chunk[p]
      BY <2>2, Numbers DEF IInv
    <3> QED
      BY <2>1, <3>1 DEF Transfer, Succeeds, Stops, Fails
  <2>4. o \in Position(p)..(Position(p) + n - 1)
    BY <2>2, <2>3, WhatIsWritten DEF IInv
  <2>5. call[p].off <= o /\ o < call[p].off + call[p].count
    BY <2>2, <2>4, Numbers DEF IInv, Position, Wanted
  <2> QED
    BY <2>2, <2>3, <2>5
<1> QED
  BY Invariance, <1>1, PTL DEF OnlyAskedChanged, Spec
=============================================================================

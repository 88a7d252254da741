---------------------------- MODULE HciBcspProofs ----------------------------
(***************************************************************************)
(* Proofs about HciBcsp, for any modulus, any two windows below it, any    *)
(* number of packets and any capacity of the line.                         *)
(***************************************************************************)
EXTENDS HciBcsp, TLAPS

(* How far each sender and each receiver is, counted without the modulus.  *)
Base == sent["toCard"] - Len(rel) - Len(unack)
AtCard == Len(arrived["toCard"])
AtHost == Len(Taken["toHost"])

(* The host's queues hold the packets from Base on, and msgq_txseq is the  *)
(* number of the next one to send.  What arrived has arrived in order.     *)
HostInv ==
    /\ 0 <= Base /\ Base <= AtCard
    /\ AtCard <= sent["toCard"] /\ AtCard <= Base + BCSP_TXWINSIZE
    /\ \A i \in 1..Len(unack) : unack[i] = Base + i
    /\ \A i \in 1..Len(rel) : rel[i] = Base + Len(unack) + i
    /\ msgq_txseq = (Base + Len(unack)) % SEQ
    /\ UnackLocked => /\ rel # <<>> /\ Len(unack) < BCSP_TXWINSIZE
                      /\ tx.seq = msgq_txseq /\ tx.pkt = Head(rel)
    /\ tx # Idle => Room("toCard")
    /\ \A i \in 1..AtCard : arrived["toCard"][i] = i
CardInv ==
    /\ cAcked <= AtHost /\ AtHost <= sent["toHost"]
    /\ sent["toHost"] <= cAcked + CardWindow
    /\ rxseq_txack = AtHost % SEQ
    /\ \A i \in 1..AtHost : Taken["toHost"][i] = i

(* The packets on a line, of a sender with the given base and window and   *)
(* to a receiver that has r of them: none is so far from the one awaited   *)
(* that its number could be taken for that one's, now or when it arrives.  *)
IsData(f) == f.kind = "data"
Fits(f, base, window, r, last) ==
    /\ f.seq = (f.pkt - 1) % SEQ
    /\ r + 1 - window <= f.pkt /\ f.pkt <= base + window
    /\ 1 <= f.pkt /\ f.pkt <= last
Packets(q, base, window, r, last) ==
    /\ \A i \in 1..Len(q) : IsData(q[i]) => Fits(q[i], base, window, r, last)
    /\ \A i, j \in 1..Len(q) : IsData(q[i]) /\ IsData(q[j]) /\ i < j =>
         q[i].pkt + 1 - window <= q[j].pkt
LineInv ==
    /\ Packets(line["toCard"], Base, BCSP_TXWINSIZE, AtCard, sent["toCard"])
    /\ Packets(line["toHost"], cAcked, CardWindow, AtHost, sent["toHost"])

(* The packets acknowledged by number ack, from the base on.  On a line    *)
(* acknowledgements never go back.                                         *)
Upto(base, ack) == base + ((ack - base) % SEQ)
Behind(q, base, u) == \A i \in 1..Len(q) : Upto(base, q[i].ack) <= u
Ahead(q, base, u) == \A i \in 1..Len(q) : u <= Upto(base, q[i].ack)
Acks(q, base, r) ==
    /\ Behind(q, base, r)
    /\ \A i, j \in 1..Len(q) : i < j => Upto(base, q[i].ack) <= Upto(base, q[j].ack)
AckInv ==
    /\ Acks(line["toHost"], Base, AtCard) /\ Acks(line["toCard"], cAcked, AtHost)
    /\ rx # Idle => /\ Upto(Base, rx.ack) <= AtCard
                    /\ Ahead(line["toHost"], Base, Upto(Base, rx.ack))
    /\ tx # Idle => /\ Upto(cAcked, tx.ack) <= AtHost
                    /\ Behind(line["toCard"], cAcked, Upto(cAcked, tx.ack))

IInv == TypeOK /\ TimerRuns /\ HostInv /\ CardInv /\ LineInv /\ AckInv

-----------------------------------------------------------------------------
(* Remainders, also of negative numbers.                                   *)
LEMMA DivMod ==
    ASSUME NEW m \in Nat \ {0}, NEW a \in Int
    PROVE  a \div m \in Int /\ a % m \in 0..(m - 1) /\ a = (a \div m) * m + (a % m)
<1>1. a % m \in 0..(m - 1)
  OBVIOUS
<1>2. a = (a \div m) * m + (a % m)
  OBVIOUS
<1>3. a \div m \in Int
  OBVIOUS
<1> QED
  BY <1>1, <1>2, <1>3

LEMMA Quotients ==
    ASSUME NEW m \in Nat \ {0}, NEW p \in Int, NEW q \in Int, p + 1 <= q
    PROVE  p * m + m <= q * m
<1> DEFINE d == q - p - 1
<1>1. d \in Nat /\ q = p + 1 + d
  OBVIOUS
<1>2. q * m = p * m + m + d * m
  BY <1>1
<1>3. d * m \in Nat
  BY <1>1
<1>4. p * m \in Int /\ q * m \in Int
  OBVIOUS
<1> HIDE DEF d
<1> QED
  BY <1>2, <1>3, <1>4

LEMMA ModUnique ==
    ASSUME NEW m \in Nat \ {0}, NEW q \in Int, NEW r \in 0..(m - 1), NEW a \in Int,
           a = q * m + r
    PROVE  a % m = r
<1> DEFINE p == a \div m
           s == a % m
<1>1. p \in Int /\ s \in 0..(m - 1) /\ a = p * m + s
  BY DivMod
<1> HIDE DEF p, s
<1>2. p * m \in Int /\ q * m \in Int
  BY <1>1
<1>3. ~(p + 1 <= q)
  <2>1. p + 1 <= q => p * m + m <= q * m
    BY <1>1, Quotients
  <2> QED
    BY <1>1, <1>2, <2>1
<1>4. ~(q + 1 <= p)
  <2>1. q + 1 <= p => q * m + m <= p * m
    BY <1>1, Quotients
  <2> QED
    BY <1>1, <1>2, <2>1
<1>5. p = q
  BY <1>1, <1>3, <1>4
<1> QED
  BY <1>1, <1>5, <1>2 DEF s

(* Two numbers less than a modulus apart and with one remainder are one.   *)
LEMMA ModEq ==
    ASSUME NEW m \in Nat \ {0}, NEW a \in Int, NEW b \in Int,
           a % m = b % m, a < b + m, b < a + m
    PROVE  a = b
<1> DEFINE p == a \div m
           q == b \div m
           r == a % m
<1>1. p \in Int /\ r \in 0..(m - 1) /\ a = p * m + r
  BY DivMod
<1>2. q \in Int /\ b = q * m + r
  BY DivMod
<1> HIDE DEF p, q, r
<1>3. p * m \in Int /\ q * m \in Int
  BY <1>1, <1>2
<1>4. ~(p + 1 <= q)
  <2>1. p + 1 <= q => p * m + m <= q * m
    BY <1>1, <1>2, Quotients
  <2> QED
    BY <1>1, <1>2, <1>3, <2>1
<1>5. ~(q + 1 <= p)
  <2>1. q + 1 <= p => q * m + m <= p * m
    BY <1>1, <1>2, Quotients
  <2> QED
    BY <1>1, <1>2, <1>3, <2>1
<1>6. p = q
  BY <1>1, <1>2, <1>4, <1>5
<1> QED
  BY <1>1, <1>2, <1>3, <1>6

(* A sum may be reduced early.                                             *)
LEMMA ModAdd ==
    ASSUME NEW m \in Nat \ {0}, NEW a \in Int, NEW k \in Int
    PROVE  ((a % m) + k) % m = (a + k) % m
<1> DEFINE p == a \div m
           r == a % m
           q == (r + k) \div m
           s == (r + k) % m
<1>1. p \in Int /\ r \in 0..(m - 1) /\ a = p * m + r
  BY DivMod
<1>2. q \in Int /\ s \in 0..(m - 1) /\ r + k = q * m + s
  BY <1>1, DivMod
<1> HIDE DEF p, q, r, s
<1>3. p + q \in Int /\ a + k \in Int
  BY <1>1, <1>2
<1>4. a + k = (p + q) * m + s
  <2>1. (p + q) * m = p * m + q * m
    BY <1>1, <1>2
  <2>2. p * m \in Int /\ q * m \in Int
    BY <1>1, <1>2
  <2> QED
    BY <1>1, <1>2, <2>1, <2>2
<1>5. (a + k) % m = s
  <2>1. \A c, d : c \in Int /\ d \in Int /\ d = c * m + s => d % m = s
    BY <1>2, ModUnique
  <2> QED
    BY <1>3, <1>4, <2>1
<1> QED
  BY <1>5 DEF r, s

LEMMA ModSmall ==
    ASSUME NEW m \in Nat \ {0}, NEW a \in 0..(m - 1)
    PROVE  a % m = a
<1>1. a = 0 * m + a /\ a \in Int /\ 0 \in Int
  OBVIOUS
<1> QED
  BY <1>1, ModUnique

LEMMA Modulus ==
    /\ SEQ \in Nat \ {0} /\ BCSP_TXWINSIZE \in Nat /\ CardWindow \in Nat
    /\ 1 <= BCSP_TXWINSIZE /\ BCSP_TXWINSIZE < SEQ /\ CardWindow < SEQ
BY WindowAssumption

-----------------------------------------------------------------------------
(* What a number acknowledges, from a base on.                             *)
LEMMA UptoIs ==
    ASSUME NEW b \in Nat, NEW x \in 0..(SEQ - 1)
    PROVE  /\ Upto(b, x) \in Nat /\ b <= Upto(b, x) /\ Upto(b, x) < b + SEQ
           /\ Upto(b, x) % SEQ = x
<1>1. x - b \in Int /\ b \in Int /\ x \in Int
  BY Modulus
<1>2. (x - b) % SEQ \in 0..(SEQ - 1)
  BY <1>1, Modulus, DivMod
<1>3. (((x - b) % SEQ) + b) % SEQ = ((x - b) + b) % SEQ
  BY <1>1, Modulus, ModAdd
<1>4. (x - b) + b = x
  BY <1>1
<1>5. x % SEQ = x
  BY Modulus, ModSmall
<1>6. Upto(b, x) = ((x - b) % SEQ) + b
  BY <1>1, <1>2, Modulus DEF Upto
<1>7. Upto(b, x) % SEQ = x
  BY <1>3, <1>4, <1>5, <1>6
<1> HIDE DEF Upto
<1>8. Upto(b, x) \in Nat /\ b <= Upto(b, x) /\ Upto(b, x) < b + SEQ
  BY <1>1, <1>2, <1>6, Modulus
<1> QED
  BY <1>7, <1>8

LEMMA UptoUnique ==
    ASSUME NEW b \in Nat, NEW x \in 0..(SEQ - 1), NEW y \in Nat,
           b <= y, y < b + SEQ, y % SEQ = x
    PROVE  Upto(b, x) = y
<1> DEFINE u == Upto(b, x)
<1>1. u \in Nat /\ b <= u /\ u < b + SEQ /\ u % SEQ = x
  BY UptoIs
<1> HIDE DEF u
<1>2. u \in Int /\ y \in Int /\ u < y + SEQ /\ y < u + SEQ /\ u % SEQ = y % SEQ
  BY <1>1, Modulus
<1>3. u = y
  BY <1>2, Modulus, ModEq
<1> QED
  BY <1>3 DEF u

(* It does not change when the base moves up to it.                        *)
LEMMA UptoMoves ==
    ASSUME NEW b \in Nat, NEW c \in Nat, NEW x \in 0..(SEQ - 1),
           b <= c, c <= Upto(b, x)
    PROVE  Upto(c, x) = Upto(b, x)
<1> DEFINE u == Upto(b, x)
<1>1. u \in Nat /\ u < b + SEQ /\ u % SEQ = x /\ c <= u
  BY UptoIs
<1> HIDE DEF u
<1>2. u < c + SEQ
  BY <1>1, Modulus
<1>3. Upto(c, x) = u
  BY <1>1, <1>2, UptoUnique
<1> QED
  BY <1>3 DEF u

-----------------------------------------------------------------------------
(* Sequences and frames.                                                   *)
LEMMA SeqTail ==
    ASSUME NEW S, NEW q \in Seq(S), q # <<>>
    PROVE  /\ Tail(q) \in Seq(S) /\ Len(q) \in Nat /\ 1 <= Len(q)
           /\ Len(Tail(q)) = Len(q) - 1
           /\ Head(q) = q[1] /\ Head(q) \in S
           /\ \A i \in 1..Len(Tail(q)) : Tail(q)[i] = q[i + 1] /\ i + 1 \in 1..Len(q)
OBVIOUS

LEMMA SeqAppend ==
    ASSUME NEW S, NEW q \in Seq(S), NEW e \in S
    PROVE  /\ Append(q, e) \in Seq(S) /\ Len(q) \in Nat
           /\ Len(Append(q, e)) = Len(q) + 1
           /\ \A i \in 1..Len(q) : Append(q, e)[i] = q[i]
           /\ Append(q, e)[Len(q) + 1] = e
OBVIOUS

LEMMA SeqDrop ==
    ASSUME NEW S, NEW q \in Seq(S), NEW k \in 0..Len(q)
    PROVE  /\ SubSeq(q, k + 1, Len(q)) \in Seq(S)
           /\ Len(SubSeq(q, k + 1, Len(q))) = Len(q) - k
           /\ \A i \in 1..(Len(q) - k) : SubSeq(q, k + 1, Len(q))[i] = q[k + i]
<1> DEFINE n == Len(q)
<1>1. n \in Nat /\ k \in Nat /\ k <= n
  OBVIOUS
<1>2. Len(SubSeq(q, k + 1, n)) = n - k
  BY <1>1
<1>3. \A i \in 1..(n - k) : SubSeq(q, k + 1, n)[i] = q[k + i]
  BY <1>1
<1>4. SubSeq(q, k + 1, n) = [i \in 1..(n - k) |-> q[k + i]]
  BY <1>1
<1>5. [i \in 1..(n - k) |-> q[k + i]] \in [1..(n - k) -> S]
  BY <1>1
<1>6. SubSeq(q, k + 1, n) \in Seq(S)
  BY <1>1, <1>4, <1>5
<1> QED
  BY <1>2, <1>3, <1>6

LEMMA SeqElement ==
    ASSUME NEW S, NEW q \in Seq(S), NEW i \in 1..Len(q)
    PROVE  q[i] \in S
OBVIOUS

LEMMA FrameFields ==
    ASSUME NEW f \in FrameType
    PROVE  /\ f.kind \in Kinds /\ f.seq \in 0..(SEQ - 1) /\ f.ack \in 0..(SEQ - 1)
           /\ f.pkt \in Nat
BY DEF FrameType

-----------------------------------------------------------------------------
(* What becomes of Packets when a line or one of its ends changes.         *)
LEMMA PacketsTail ==
    ASSUME NEW q \in Seq(FrameType), q # <<>>, NEW b, NEW w, NEW r, NEW l,
           Packets(q, b, w, r, l)
    PROVE  Packets(Tail(q), b, w, r, l)
<1>1. /\ Len(q) \in Nat /\ Len(Tail(q)) = Len(q) - 1
      /\ \A i \in 1..Len(Tail(q)) : Tail(q)[i] = q[i + 1] /\ i + 1 \in 1..Len(q)
  BY SeqTail
<1>2. ASSUME NEW i \in 1..Len(Tail(q)), IsData(Tail(q)[i])
      PROVE  Fits(Tail(q)[i], b, w, r, l)
  BY <1>1, <1>2 DEF Packets
<1>3. ASSUME NEW i \in 1..Len(Tail(q)), NEW j \in 1..Len(Tail(q)),
             IsData(Tail(q)[i]), IsData(Tail(q)[j]), i < j
      PROVE  Tail(q)[i].pkt + 1 - w <= Tail(q)[j].pkt
  <2>1. i + 1 \in 1..Len(q) /\ j + 1 \in 1..Len(q) /\ i + 1 < j + 1
    BY <1>1, <1>3
  <2>2. Tail(q)[i] = q[i + 1] /\ Tail(q)[j] = q[j + 1]
    BY <1>1
  <2> QED
    BY <2>1, <2>2, <1>3 DEF Packets
<1> QED
  BY <1>2, <1>3 DEF Packets

LEMMA PacketsGrow ==
    ASSUME NEW q \in Seq(FrameType), NEW b \in Int, NEW w \in Int, NEW r \in Int,
           NEW l \in Int, NEW c \in Int, NEW k \in Int, b <= c, l <= k,
           Packets(q, b, w, r, l)
    PROVE  Packets(q, c, w, r, k)
<1>1. ASSUME NEW i \in 1..Len(q), IsData(q[i])
      PROVE  Fits(q[i], c, w, r, k)
  <2>1. Fits(q[i], b, w, r, l)
    BY <1>1 DEF Packets
  <2>2. q[i].pkt \in Nat
    BY SeqElement, FrameFields
  <2> QED
    BY <2>1, <2>2 DEF Fits
<1> QED
  BY <1>1 DEF Packets

LEMMA PacketsOther ==
    ASSUME NEW q \in Seq(FrameType), NEW f \in FrameType, ~IsData(f),
           NEW b, NEW w, NEW r, NEW l, Packets(q, b, w, r, l)
    PROVE  Packets(Append(q, f), b, w, r, l)
<1> DEFINE a == Append(q, f)
<1>1. /\ Len(q) \in Nat /\ Len(a) = Len(q) + 1 /\ a[Len(q) + 1] = f
      /\ \A i \in 1..Len(q) : a[i] = q[i]
  BY SeqAppend
<1> HIDE DEF a
<1>2. \A i \in 1..Len(a) : IsData(a[i]) => i \in 1..Len(q) /\ a[i] = q[i]
  BY <1>1
<1>3. Packets(a, b, w, r, l)
  BY <1>2 DEF Packets
<1> QED
  BY <1>3 DEF a

LEMMA PacketsData ==
    ASSUME NEW q \in Seq(FrameType), NEW f \in FrameType,
           NEW b \in Int, NEW w \in Int, NEW r \in Int, NEW l \in Int,
           Packets(q, b, w, r, l), f.seq = (f.pkt - 1) % SEQ,
           b + 1 <= f.pkt, f.pkt <= b + w, 1 <= f.pkt, f.pkt <= l, r <= b + w
    PROVE  Packets(Append(q, f), b, w, r, l)
<1> DEFINE a == Append(q, f)
<1>1. /\ Len(q) \in Nat /\ Len(a) = Len(q) + 1 /\ a[Len(q) + 1] = f
      /\ \A i \in 1..Len(q) : a[i] = q[i]
  BY SeqAppend
<1>2. f.pkt \in Nat
  BY FrameFields
<1>3. Fits(f, b, w, r, l)
  BY <1>2 DEF Fits
<1> HIDE DEF a
<1>4. ASSUME NEW i \in 1..Len(a), IsData(a[i])
      PROVE  Fits(a[i], b, w, r, l)
  <2>1. CASE i = Len(q) + 1
    BY <1>1, <1>3, <2>1
  <2>2. CASE i \in 1..Len(q)
    BY <1>1, <1>4, <2>2 DEF Packets
  <2> QED
    BY <1>1, <2>1, <2>2
<1>5. ASSUME NEW i \in 1..Len(a), NEW j \in 1..Len(a), IsData(a[i]), IsData(a[j]), i < j
      PROVE  a[i].pkt + 1 - w <= a[j].pkt
  <2>1. i \in 1..Len(q) /\ a[i] = q[i]
    BY <1>1, <1>5
  <2>2. CASE j \in 1..Len(q)
    BY <1>1, <1>5, <2>1, <2>2 DEF Packets
  <2>3. CASE j = Len(q) + 1
    <3>1. Fits(q[i], b, w, r, l) /\ q[i].pkt \in Nat
      BY <1>5, <2>1, SeqElement, FrameFields DEF Packets
    <3>2. q[i].pkt <= b + w
      BY <3>1 DEF Fits
    <3> QED
      BY <1>1, <1>2, <2>1, <2>3, <3>1, <3>2
  <2> QED
    BY <1>1, <2>2, <2>3
<1>6. Packets(a, b, w, r, l)
  BY <1>4, <1>5 DEF Packets
<1> QED
  BY <1>6 DEF a

(* The packet whose number the receiver awaits is the one it awaits ...    *)
LEMMA PacketsNext ==
    ASSUME NEW q \in Seq(FrameType), q # <<>>, IsData(Head(q)),
           NEW b \in Int, NEW w \in Int, NEW r \in Nat, NEW l \in Int,
           Packets(q, b, w, r, l), w < SEQ, b <= r, Head(q).seq = r % SEQ
    PROVE  Head(q).pkt = r + 1 /\ r + 1 <= l /\ r + 1 <= b + w
<1> DEFINE f == Head(q)
<1>1. f \in FrameType /\ f = q[1] /\ 1 \in 1..Len(q)
  BY SeqTail
<1>2. f.pkt \in Nat
  BY <1>1, FrameFields
<1>3. Fits(f, b, w, r, l)
  BY <1>1 DEF Packets
<1> HIDE DEF f
<1>4. /\ f.pkt - 1 \in Int /\ r \in Int
      /\ f.pkt - 1 < r + SEQ /\ r < (f.pkt - 1) + SEQ
  <2>1. r + 1 - w <= f.pkt /\ f.pkt <= b + w
    BY <1>3 DEF Fits
  <2>2. SEQ \in Int
    BY Modulus
  <2> QED
    BY <1>2, <2>1, <2>2
<1>5. (f.pkt - 1) % SEQ = r % SEQ
  BY <1>3 DEF Fits, f
<1>6. f.pkt - 1 = r
  BY <1>4, <1>5, Modulus, ModEq
<1>7. f.pkt = r + 1
  BY <1>2, <1>6
<1> QED
  BY <1>3, <1>7 DEF Fits, f

(* ... and what follows it on the line fits the receiver that has it.      *)
LEMMA PacketsTake ==
    ASSUME NEW q \in Seq(FrameType), q # <<>>, IsData(Head(q)),
           NEW b \in Int, NEW w \in Int, NEW r \in Nat, NEW l \in Int,
           Packets(q, b, w, r, l), Head(q).pkt = r + 1
    PROVE  Packets(Tail(q), b, w, r + 1, l)
<1> DEFINE t == Tail(q)
<1>1. /\ t \in Seq(FrameType) /\ Head(q) = q[1] /\ 1 \in 1..Len(q)
      /\ Len(q) \in Nat /\ Len(t) = Len(q) - 1
      /\ \A i \in 1..Len(t) : t[i] = q[i + 1] /\ i + 1 \in 1..Len(q)
  BY SeqTail
<1>2. Packets(t, b, w, r, l)
  BY PacketsTail
<1> HIDE DEF t
<1>3. ASSUME NEW i \in 1..Len(t), IsData(t[i])
      PROVE  Fits(t[i], b, w, r + 1, l)
  <2>1. Fits(t[i], b, w, r, l)
    BY <1>2, <1>3 DEF Packets
  <2>2. t[i].pkt \in Nat
    BY <1>1, SeqElement, FrameFields
  <2>3. i + 1 \in 1..Len(q) /\ 1 < i + 1 /\ t[i] = q[i + 1]
    BY <1>1
  <2>4. q[1].pkt + 1 - w <= q[i + 1].pkt
    BY <1>1, <1>3, <2>3 DEF Packets
  <2>5. (r + 1) + 1 - w <= t[i].pkt
    BY <1>1, <2>3, <2>4
  <2> QED
    BY <2>1, <2>2, <2>5 DEF Fits
<1>4. Packets(t, b, w, r + 1, l)
  BY <1>2, <1>3 DEF Packets
<1> QED
  BY <1>4 DEF t

-----------------------------------------------------------------------------
(* What becomes of Acks.                                                   *)
LEMMA UptoFrame ==
    ASSUME NEW q \in Seq(FrameType), NEW b \in Nat, NEW i \in 1..Len(q)
    PROVE  Upto(b, q[i].ack) \in Nat /\ b <= Upto(b, q[i].ack)
BY SeqElement, FrameFields, UptoIs

LEMMA AcksTail ==
    ASSUME NEW q \in Seq(FrameType), q # <<>>, NEW b \in Nat, NEW r, Acks(q, b, r)
    PROVE  /\ Acks(Tail(q), b, r)
           /\ Ahead(Tail(q), b, Upto(b, Head(q).ack))
           /\ Upto(b, Head(q).ack) <= r
<1> DEFINE t == Tail(q)
<1>1. /\ Head(q) = q[1] /\ 1 \in 1..Len(q) /\ Len(q) \in Nat /\ Len(t) = Len(q) - 1
      /\ \A i \in 1..Len(t) : t[i] = q[i + 1] /\ i + 1 \in 1..Len(q)
  BY SeqTail
<1> HIDE DEF t
<1>2. Behind(t, b, r)
  BY <1>1 DEF Behind, Acks
<1>3. ASSUME NEW i \in 1..Len(t), NEW j \in 1..Len(t), i < j
      PROVE  Upto(b, t[i].ack) <= Upto(b, t[j].ack)
  <2>1. i + 1 \in 1..Len(q) /\ j + 1 \in 1..Len(q) /\ i + 1 < j + 1
    BY <1>1, <1>3
  <2>2. t[i] = q[i + 1] /\ t[j] = q[j + 1]
    BY <1>1
  <2> QED
    BY <2>1, <2>2 DEF Acks
<1>4. Ahead(t, b, Upto(b, Head(q).ack))
  <2> SUFFICES ASSUME NEW i \in 1..Len(t)
               PROVE  Upto(b, q[1].ack) <= Upto(b, t[i].ack)
    BY <1>1 DEF Ahead
  <2>1. i + 1 \in 1..Len(q) /\ 1 < i + 1 /\ t[i] = q[i + 1]
    BY <1>1
  <2> QED
    BY <1>1, <2>1 DEF Acks
<1>5. Upto(b, Head(q).ack) <= r
  BY <1>1 DEF Acks, Behind
<1>6. Acks(t, b, r)
  BY <1>2, <1>3 DEF Acks
<1> QED
  BY <1>4, <1>5, <1>6 DEF t

LEMMA AcksGrow ==
    ASSUME NEW q \in Seq(FrameType), NEW b \in Nat, NEW r \in Nat, NEW k \in Nat,
           r <= k, Acks(q, b, r)
    PROVE  Acks(q, b, k)
<1>1. Behind(q, b, k)
  BY UptoFrame DEF Behind, Acks
<1> QED
  BY <1>1 DEF Acks

LEMMA AcksAppend ==
    ASSUME NEW q \in Seq(FrameType), NEW f \in FrameType, NEW b \in Nat, NEW r \in Nat,
           Acks(q, b, r), Upto(b, f.ack) <= r, Behind(q, b, Upto(b, f.ack))
    PROVE  Acks(Append(q, f), b, r)
<1> DEFINE a == Append(q, f)
<1>1. /\ Len(q) \in Nat /\ Len(a) = Len(q) + 1 /\ a[Len(q) + 1] = f
      /\ \A i \in 1..Len(q) : a[i] = q[i]
  BY SeqAppend
<1> HIDE DEF a
<1>2. \A i \in 1..Len(a) : i \in 1..Len(q) \/ i = Len(q) + 1
  BY <1>1
<1>3. Behind(a, b, r)
  BY <1>1, <1>2 DEF Behind, Acks
<1>4. ASSUME NEW i \in 1..Len(a), NEW j \in 1..Len(a), i < j
      PROVE  Upto(b, a[i].ack) <= Upto(b, a[j].ack)
  <2>1. i \in 1..Len(q) /\ a[i] = q[i]
    BY <1>1, <1>4
  <2>2. CASE j \in 1..Len(q)
    BY <1>1, <1>4, <2>1, <2>2 DEF Acks
  <2>3. CASE j = Len(q) + 1
    BY <1>1, <2>1, <2>3 DEF Behind
  <2> QED
    BY <1>2, <2>2, <2>3
<1>5. Acks(a, b, r)
  BY <1>3, <1>4 DEF Acks
<1> QED
  BY <1>5 DEF a

LEMMA AcksMove ==
    ASSUME NEW q \in Seq(FrameType), NEW b \in Nat, NEW c \in Nat, NEW r,
           b <= c, Acks(q, b, r), Ahead(q, b, c)
    PROVE  /\ \A i \in 1..Len(q) : Upto(c, q[i].ack) = Upto(b, q[i].ack)
           /\ Acks(q, c, r)
<1>1. ASSUME NEW i \in 1..Len(q)
      PROVE  Upto(c, q[i].ack) = Upto(b, q[i].ack)
  <2>1. q[i].ack \in 0..(SEQ - 1) /\ c <= Upto(b, q[i].ack)
    BY SeqElement, FrameFields DEF Ahead
  <2> QED
    BY <2>1, UptoMoves
<1> QED
  BY <1>1 DEF Acks, Behind

-----------------------------------------------------------------------------
(* The types of what the invariants speak of.                              *)
LEMMA Sorts ==
    ASSUME TypeOK
    PROVE  /\ rel \in Seq(Nat) /\ unack \in Seq(Nat)
           /\ Len(rel) \in Nat /\ Len(unack) \in Nat
           /\ line["toCard"] \in Seq(FrameType) /\ line["toHost"] \in Seq(FrameType)
           /\ sent["toCard"] \in Nat /\ sent["toHost"] \in Nat
           /\ arrived["toCard"] \in Seq(Nat) /\ arrived["toHost"] \in Seq(Nat)
           /\ cAcked \in Nat /\ AtCard \in Nat /\ Base \in Int
           /\ msgq_txseq \in Int
<1>1. \A n, q : n \in Nat /\ q \in Seq(1..n) => q \in Seq(Nat)
  <2> SUFFICES ASSUME NEW n \in Nat, NEW q \in Seq(1..n)
               PROVE  q \in Seq(Nat)
    OBVIOUS
  <2>1. \A i \in 1..Len(q) : q[i] \in Nat
    <3>1. \A i \in 1..Len(q) : q[i] \in 1..n
      OBVIOUS
    <3> QED
      BY <3>1
  <2> QED
    BY <2>1
<1>2. rel \in Seq(Nat) /\ unack \in Seq(Nat)
  BY <1>1, BoundsAssumption DEF TypeOK
<1>3. "toCard" \in Lines /\ "toHost" \in Lines
  BY DEF Lines
<1>4. line["toCard"] \in Seq(FrameType) /\ line["toHost"] \in Seq(FrameType)
  BY <1>3 DEF TypeOK
<1>5. /\ sent["toCard"] \in Nat /\ sent["toHost"] \in Nat
      /\ arrived["toCard"] \in Seq(Nat) /\ arrived["toHost"] \in Seq(Nat)
  BY <1>3 DEF TypeOK
<1>6. cAcked \in Nat
  <2>1. cAcked \in 0..sent["toHost"]
    BY DEF TypeOK
  <2> QED
    BY <2>1, <1>5
<1>7. Len(rel) \in Nat /\ Len(unack) \in Nat
  BY <1>2
<1>8. Base \in Int
  BY <1>5, <1>7 DEF Base
<1>9. AtCard \in Nat
  BY <1>5 DEF AtCard
<1>10. msgq_txseq \in Int
  BY Modulus DEF TypeOK
<1> QED
  BY <1>2, <1>4, <1>5, <1>6, <1>7, <1>8, <1>9, <1>10

(* A frame the host has counted is as good as arrived.                     *)
LEMMA TakenBy ==
    ASSUME NEW a \in [Lines -> Seq(Nat)], NEW r \in FrameType \cup {Idle},
           NEW t, t = IF r # Idle /\ r.kind = "data"
                      THEN [a EXCEPT !["toHost"] = Append(@, r.pkt)] ELSE a
    PROVE  /\ t["toCard"] = a["toCard"]
           /\ t["toHost"] \in Seq(Nat) /\ Len(t["toHost"]) \in Nat
           /\ t["toHost"] = IF r # Idle /\ r.kind = "data"
                            THEN Append(a["toHost"], r.pkt) ELSE a["toHost"]
<1>1. "toCard" \in Lines /\ "toHost" \in Lines /\ "toCard" # "toHost"
  BY DEF Lines
<1>2. a["toHost"] \in Seq(Nat)
  BY <1>1
<1>3. CASE r # Idle /\ r.kind = "data"
  <2>1. r.pkt \in Nat
    BY <1>3, FrameFields
  <2>2. t = [a EXCEPT !["toHost"] = Append(@, r.pkt)]
    BY <1>3
  <2>3. t["toCard"] = a["toCard"] /\ t["toHost"] = Append(a["toHost"], r.pkt)
    BY <1>1, <2>2
  <2>4. t["toHost"] \in Seq(Nat)
    BY <1>2, <2>1, <2>3
  <2> QED
    BY <1>3, <2>3, <2>4
<1>4. CASE ~(r # Idle /\ r.kind = "data")
  <2>1. t = a
    BY <1>4
  <2> QED
    BY <1>2, <1>4, <2>1
<1> QED
  BY <1>3, <1>4

LEMMA TakenIs ==
    ASSUME TypeOK
    PROVE  /\ Taken["toHost"] \in Seq(Nat) /\ AtHost \in Nat
           /\ Taken["toHost"] = IF rx # Idle /\ rx.kind = "data"
                                THEN Append(arrived["toHost"], rx.pkt)
                                ELSE arrived["toHost"]
BY TakenBy DEF TypeOK, Taken, AtHost

LEMMA TakenNext ==
    ASSUME TypeOK'
    PROVE  /\ Taken["toHost"]' \in Seq(Nat) /\ AtHost' \in Nat
           /\ Taken["toHost"]' = IF rx' # Idle /\ rx'.kind = "data"
                                 THEN Append(arrived'["toHost"], rx'.pkt)
                                 ELSE arrived'["toHost"]
<1>1. arrived' \in [Lines -> Seq(Nat)] /\ rx' \in FrameType \cup {Idle}
  BY DEF TypeOK
<1>2. Taken' = IF rx' # Idle /\ rx'.kind = "data"
               THEN [arrived' EXCEPT !["toHost"] = Append(@, rx'.pkt)] ELSE arrived'
  BY DEF Taken
<1>3. AtHost' = Len(Taken'["toHost"])
  BY DEF AtHost
<1> QED
  BY <1>1, <1>2, <1>3, TakenBy

-----------------------------------------------------------------------------
(* How much bcsp_pkt_cull removes, and how far the card moves on.          *)
LEMMA MaxOne ==
    ASSUME NEW k \in Nat
    PROVE  Max({0} \cup {k}) = k /\ Max({k}) = k
<1>1. k \in {0} \cup {k} /\ \A y \in {0} \cup {k} : k >= y
  OBVIOUS
<1>2. \A x \in {0} \cup {k} : (\A y \in {0} \cup {k} : x >= y) => x = k
  OBVIOUS
<1>3. Max({0} \cup {k}) = k
  BY <1>1, <1>2 DEF Max
<1>4. Max({k}) = k
  BY DEF Max
<1> QED
  BY <1>3, <1>4

LEMMA MaxTwo ==
    ASSUME NEW a \in Nat, NEW b \in Nat
    PROVE  /\ Max({a, b}) \in {a, b}
           /\ a <= Max({a, b}) /\ b <= Max({a, b})
<1>1. PICK x \in {a, b} : \A y \in {a, b} : x >= y
  OBVIOUS
<1>2. /\ Max({a, b}) \in {a, b} /\ \A y \in {a, b} : Max({a, b}) >= y
  BY <1>1 DEF Max
<1> QED
  BY <1>2

LEMMA AckedIs ==
    ASSUME TypeOK, HostInv, NEW a \in 0..(SEQ - 1)
    PROVE  /\ Acked(a) \in 0..Len(unack)
           /\ Upto(Base, a) \in Base + 1 .. Base + Len(unack) =>
                Base + Acked(a) = Upto(Base, a)
           /\ Upto(Base, a) \notin Base + 1 .. Base + Len(unack) => Acked(a) = 0
<1> DEFINE u == Upto(Base, a)
           L == Len(unack)
           b == Base
           A == {n \in 1..L : (msgq_txseq - (L - n)) % SEQ = a}
<1>1. b \in Nat /\ L \in Nat /\ L < SEQ /\ msgq_txseq = (b + L) % SEQ
  <2>1. b \in Int /\ L \in Nat /\ L <= BCSP_TXWINSIZE /\ 0 <= b
    BY Sorts DEF TypeOK, HostInv
  <2>2. msgq_txseq = (b + L) % SEQ
    BY DEF HostInv
  <2> QED
    BY <2>1, <2>2, Modulus
<1>2. u \in Nat /\ b <= u /\ u < b + SEQ /\ u % SEQ = a
  BY <1>1, UptoIs
<1>3. \A n \in 1..L : (msgq_txseq - (L - n)) % SEQ = (b + n) % SEQ
  <2> SUFFICES ASSUME NEW n \in 1..L
               PROVE  (msgq_txseq - (L - n)) % SEQ = (b + n) % SEQ
    OBVIOUS
  <2> DEFINE k == 0 - (L - n)
  <2>1. k \in Int /\ b + L \in Int /\ (b + L) + k = b + n
    BY <1>1
  <2>2. (b + L) % SEQ \in Int
    BY <1>1, <2>1, Modulus, DivMod
  <2>3. msgq_txseq - (L - n) = ((b + L) % SEQ) + k
    BY <1>1, <2>1, <2>2
  <2> HIDE DEF k
  <2>4. (((b + L) % SEQ) + k) % SEQ = ((b + L) + k) % SEQ
    BY <2>1, Modulus, ModAdd
  <2> QED
    BY <2>1, <2>3, <2>4
<1>4. \A n \in 1..L : (b + n) % SEQ = a <=> b + n = u
  <2> SUFFICES ASSUME NEW n \in 1..L
               PROVE  (b + n) % SEQ = a <=> b + n = u
    OBVIOUS
  <2>1. b + n \in Nat /\ b <= b + n /\ b + n < b + SEQ
    BY <1>1, Modulus
  <2>2. (b + n) % SEQ = a => Upto(b, a) = b + n
    BY <1>1, <2>1, UptoUnique
  <2> QED
    BY <1>2, <2>2
<1>5. A = {n \in 1..L : b + n = u}
  BY <1>3, <1>4
<1>6. Acked(a) = Max({0} \cup A)
  BY DEF Acked
<1> HIDE DEF A, u, b, L
<1>7. CASE u \in b + 1 .. b + L
  <2> DEFINE k == u - b
  <2>1. k \in Nat /\ k \in 1..L /\ u = b + k
    BY <1>1, <1>2, <1>7
  <2> HIDE DEF k
  <2>2. A = {k}
    BY <1>1, <1>5, <2>1
  <2>3. Acked(a) = k
    BY <1>6, <2>1, <2>2, MaxOne
  <2> QED
    BY <1>1, <1>7, <2>1, <2>3 DEF u, b, L
<1>8. CASE u \notin b + 1 .. b + L
  <2>1. A = {}
    BY <1>1, <1>2, <1>5, <1>8
  <2>2. {0} \cup A = {0} \cup {0}
    BY <2>1
  <2>3. Acked(a) = 0
    BY <1>6, <2>2, MaxOne
  <2> QED
    BY <1>1, <1>8, <2>3 DEF u, b, L
<1> QED
  BY <1>7, <1>8

LEMMA CardMoves ==
    ASSUME NEW c \in Nat, NEW n \in Nat, NEW a \in 0..(SEQ - 1),
           n < c + SEQ, Upto(c, a) <= n
    PROVE  Max({c} \cup {k \in c..n : k % SEQ = a}) = Upto(c, a)
<1> DEFINE u == Upto(c, a)
           A == {c} \cup {k \in c..n : k % SEQ = a}
<1>1. u \in Nat /\ c <= u /\ u < c + SEQ /\ u % SEQ = a
  BY UptoIs
<1>2. \A k \in c..n : k % SEQ = a => k = u
  <2> SUFFICES ASSUME NEW k \in c..n, k % SEQ = a
               PROVE  k = u
    OBVIOUS
  <2>1. k \in Nat /\ c <= k /\ k < c + SEQ
    BY Modulus
  <2> QED
    BY <2>1, UptoUnique
<1>3. u <= n
  OBVIOUS
<1> HIDE DEF u
<1>4. u \in A
  BY <1>1, <1>3
<1>5. \A y \in A : u >= y /\ y \in Nat
  BY <1>1, <1>2
<1> HIDE DEF A
<1>6. \A x \in A : (\A y \in A : x >= y) => x = u
  BY <1>1, <1>4, <1>5
<1>7. Max(A) = u
  BY <1>4, <1>5, <1>6 DEF Max
<1> QED
  BY <1>7 DEF A, u

-----------------------------------------------------------------------------
(* Frames that are put on a line and taken from it.                        *)
LEMMA PutDoes ==
    ASSUME TypeOK, NEW l \in Lines, NEW m \in Lines, NEW f \in FrameType, Put(l, f)
    PROVE  /\ line' \in [Lines -> Seq(FrameType)]
           /\ line'[l] = Append(line[l], f) /\ (m # l => line'[m] = line[m])
           /\ Len(line'[l]) = Len(line[l]) + 1
<1>1. line \in [Lines -> Seq(FrameType)]
  BY DEF TypeOK
<1>2. line' = [line EXCEPT ![l] = Append(@, f)]
  BY DEF Put
<1>3. line[l] \in Seq(FrameType)
  BY <1>1
<1>4. Append(line[l], f) \in Seq(FrameType) /\ Len(Append(line[l], f)) = Len(line[l]) + 1
  BY <1>3, SeqAppend
<1>5. line' \in [Lines -> Seq(FrameType)]
  BY <1>1, <1>2, <1>4
<1>6. line'[l] = Append(line[l], f)
  BY <1>1, <1>2
<1>7. m # l => line'[m] = line[m]
  BY <1>1, <1>2
<1> QED
  BY <1>4, <1>5, <1>6, <1>7

LEMMA TakeDoes ==
    ASSUME TypeOK, NEW l \in Lines, NEW m \in Lines, line[l] # <<>>,
           line' = [line EXCEPT ![l] = Tail(@)]
    PROVE  /\ line' \in [Lines -> Seq(FrameType)]
           /\ line'[l] = Tail(line[l]) /\ (m # l => line'[m] = line[m])
           /\ Len(line'[l]) = Len(line[l]) - 1
           /\ line[l] \in Seq(FrameType) /\ Head(line[l]) \in FrameType
<1>1. line \in [Lines -> Seq(FrameType)]
  BY DEF TypeOK
<1>3. line[l] \in Seq(FrameType)
  BY <1>1
<1>4. /\ Tail(line[l]) \in Seq(FrameType) /\ Len(Tail(line[l])) = Len(line[l]) - 1
      /\ Head(line[l]) \in FrameType
  BY <1>3, SeqTail
<1>5. line' \in [Lines -> Seq(FrameType)]
  BY <1>1, <1>4
<1>6. line'[l] = Tail(line[l])
  BY <1>1
<1>7. m # l => line'[m] = line[m]
  BY <1>1
<1> QED
  BY <1>3, <1>4, <1>5, <1>6, <1>7

LEMMA CapPut ==
    ASSUME TypeOK, NEW l \in Lines, NEW f \in FrameType, Put(l, f), Room(l)
    PROVE  line' \in [Lines -> Seq(FrameType)] /\ \A m \in Lines : Len(line'[m]) <= LineCap
<1>1. line' \in [Lines -> Seq(FrameType)]
  BY PutDoes
<1>2. ASSUME NEW m \in Lines
      PROVE  Len(line'[m]) <= LineCap
  <2>1. line[m] \in Seq(FrameType) /\ Len(line[m]) <= LineCap /\ Len(line[m]) \in Nat
    BY DEF TypeOK
  <2>2. CASE m = l
    <3>1. Len(line'[l]) = Len(line[l]) + 1
      BY PutDoes
    <3>2. Len(line[l]) < LineCap
      BY DEF Room
    <3> QED
      BY <2>1, <2>2, <3>1, <3>2, BoundsAssumption
  <2>3. CASE m # l
    BY <2>1, <2>3, PutDoes
  <2> QED
    BY <2>2, <2>3
<1> QED
  BY <1>1, <1>2

LEMMA CapTake ==
    ASSUME TypeOK, NEW l \in Lines, line[l] # <<>>, line' = [line EXCEPT ![l] = Tail(@)]
    PROVE  line' \in [Lines -> Seq(FrameType)] /\ \A m \in Lines : Len(line'[m]) <= LineCap
<1>1. line' \in [Lines -> Seq(FrameType)]
  BY TakeDoes
<1>2. ASSUME NEW m \in Lines
      PROVE  Len(line'[m]) <= LineCap
  <2>1. line[m] \in Seq(FrameType) /\ Len(line[m]) <= LineCap /\ Len(line[m]) \in Nat
    BY DEF TypeOK
  <2>2. CASE m = l
    <3>1. Len(line'[l]) = Len(line[l]) - 1
      BY TakeDoes
    <3> QED
      BY <2>1, <2>2, <3>1, BoundsAssumption
  <2>3. CASE m # l
    BY <2>1, <2>3, TakeDoes
  <2> QED
    BY <2>2, <2>3
<1> QED
  BY <1>1, <1>2

-----------------------------------------------------------------------------
(* The frames that are made.                                               *)
LEMMA NumberType ==
    ASSUME TypeOK, NEW p \in Int
    PROVE  p % SEQ \in 0..(SEQ - 1) /\ CardAwaits \in 0..(SEQ - 1) /\ 0 \in 0..(SEQ - 1)
<1>1. p % SEQ \in 0..(SEQ - 1) /\ 0 \in 0..(SEQ - 1)
  BY Modulus, DivMod
<1>2. Len(arrived["toCard"]) \in Int
  BY Sorts
<1>3. CardAwaits \in 0..(SEQ - 1)
  BY <1>2, Modulus, DivMod DEF CardAwaits
<1> QED
  BY <1>1, <1>3

LEMMA FrameIs ==
    ASSUME NEW k \in Kinds, NEW s \in 0..(SEQ - 1), NEW a \in 0..(SEQ - 1), NEW p \in Nat
    PROVE  /\ Frame(k, s, a, p) \in FrameType
           /\ Frame(k, s, a, p).kind = k /\ Frame(k, s, a, p).seq = s
           /\ Frame(k, s, a, p).ack = a /\ Frame(k, s, a, p).pkt = p
BY DEF Frame, FrameType

(* The loop's state and HCI_UART_TX_WAKEUP keep their types.               *)
SenderOK == loop \in {"idle", "running", "leaving"} /\ wakeup \in BOOLEAN

LEMMA SenderTyped == SenderOK /\ Next => SenderOK'
<1> SUFFICES ASSUME SenderOK, Next PROVE SenderOK'
  OBVIOUS
<1>1. TxWakeup => SenderOK'
  BY DEF TxWakeup, sender, SenderOK
<1>2. UNCHANGED sender => SenderOK'
  BY DEF sender, SenderOK
<1>3. Finish \/ Leave => SenderOK'
  BY DEF Finish, Leave, SenderOK
<1>4. CASE EnqueueRel \/ EnqueueUnrel \/ TimedEvent \/ TtyWakeup
  BY <1>4, <1>1 DEF EnqueueRel, EnqueueUnrel, TimedEvent, TtyWakeup
<1>5. CASE Receive
  BY <1>5, <1>1, <1>2 DEF Receive
<1>6. CASE Complete
  BY <1>6, <1>1, <1>2 DEF Complete
<1>7. CASE NothingToSend \/ OutOfMemory \/ Leave
  BY <1>7, <1>3 DEF NothingToSend, OutOfMemory
<1>8. ASSUME NEW kind \in Kinds, Dequeue(kind)
      PROVE  SenderOK'
  BY <1>8, <1>2 DEF Dequeue
<1>9. CASE Transmit \/ CardTakes \/ CardAcks \/ CardSends \/ CardConf
  BY <1>9, <1>2 DEF Transmit, CardTakes, CardAcks, CardSends, CardConf
<1>10. ASSUME NEW l \in Lines, Lose(l)
       PROVE  SenderOK'
  BY <1>10, <1>2 DEF Lose
<1> QED
  BY <1>4, <1>5, <1>6, <1>7, <1>8, <1>9, <1>10 DEF Next, Exchange

(* The steps of the loop that send nothing leave all else alone.           *)
LEMMA LoopOnly ==
    ASSUME Next, ~Exchange
    PROVE  UNCHANGED <<rel, unack, msgq_txseq, unrel, rxseq_txack, txack_req, timer, tx,
                       rx, line, cAcked, cOwes, sent, arrived, unrelLeft>>
BY DEF Next, NothingToSend, OutOfMemory, Finish, Leave, TtyWakeup, queues, card

(* Every step keeps the types.                                             *)
LEMMA TypeStep == IInv /\ Exchange => TypeOK'
<1> SUFFICES ASSUME IInv, Exchange PROVE TypeOK'
  OBVIOUS
<1>a. TypeOK /\ HostInv /\ CardInv /\ AckInv
  BY DEF IInv
<1>b. "toCard" \in Lines /\ "toHost" \in Lines /\ "toCard" # "toHost"
  BY DEF Lines
<1>c. sent \in [Lines -> Nat] /\ arrived \in [Lines -> Seq(Nat)]
  BY <1>a DEF TypeOK
<1>s. SenderOK'
  BY <1>a, SenderTyped DEF Next, TypeOK, SenderOK
<1>1. CASE EnqueueRel
  <2>1. rel \in Seq(1..HostPkts) /\ sent["toCard"] \in Nat /\ sent["toCard"] <= HostPkts
    BY <1>a, Sorts DEF TypeOK
  <2>2. sent' \in [Lines -> Nat] /\ sent'["toCard"] = sent["toCard"] + 1
        /\ sent'["toHost"] = sent["toHost"]
    BY <1>1, <1>b, <1>c, <2>1 DEF EnqueueRel
  <2>3. sent["toCard"] + 1 \in 1..HostPkts
    BY <1>1, <2>1, BoundsAssumption DEF EnqueueRel
  <2>4. rel' \in Seq(1..HostPkts)
    <3>1. rel' = Append(rel, sent["toCard"] + 1)
      BY <1>1, <2>2 DEF EnqueueRel
    <3> QED
      BY <2>1, <2>3, <3>1, SeqAppend
  <2>5. sent'["toCard"] <= HostPkts
    BY <2>2, <2>3
  <2>6. UNCHANGED <<unack, msgq_txseq, unrel, rxseq_txack, txack_req, timer, tx, rx,
                    line, cAcked, cOwes, arrived, unrelLeft>>
    BY <1>1 DEF EnqueueRel, card
  <2> QED
    BY <1>a, <2>2, <2>4, <2>5, <2>6, <1>s DEF TypeOK, SenderOK
<1>2. CASE EnqueueUnrel
  <2>1. unrel' \in Seq({"sco", "rsp"})
    BY <1>2, <1>a, SeqAppend DEF EnqueueUnrel, TypeOK
  <2>2. unrelLeft' \in 0..MaxUnrel
    BY <1>2, <1>a, BoundsAssumption DEF EnqueueUnrel, TypeOK
  <2>3. UNCHANGED <<rel, unack, msgq_txseq, rxseq_txack, txack_req, timer, tx, rx, line,
                    cAcked, cOwes, sent, arrived>>
    BY <1>2 DEF EnqueueUnrel, queues, card
  <2> QED
    BY <1>a, <2>1, <2>2, <2>3, <1>s DEF TypeOK, SenderOK
<1>3. ASSUME NEW kind \in Kinds, Dequeue(kind)
      PROVE  TypeOK'
  <2>1. tx' \in FrameType \cup {Idle}
    <3>1. rel \in Seq(Nat) /\ msgq_txseq \in 0..(SEQ - 1) /\ rxseq_txack \in 0..(SEQ - 1)
      BY <1>a, Sorts DEF TypeOK
    <3>2. 0 \in 0..(SEQ - 1)
      BY <1>a, NumberType
    <3>3. kind = "data" => rel # <<>>
      <4>1. CanSend(kind)
        BY <1>3 DEF Dequeue
      <4>2. CASE unrel # <<>> /\ kind = Head(unrel)
        <5>1. unrel \in Seq({"sco", "rsp"})
          BY <1>a DEF TypeOK
        <5>2. kind \in {"sco", "rsp"}
          BY <4>2, <5>1, SeqTail
        <5> QED
          BY <5>2
      <4>3. CASE kind = "data" /\ rel # <<>>
        BY <4>3
      <4>4. CASE kind = "ack"
        BY <4>4
      <4> QED
        BY <4>1, <4>2, <4>3, <4>4 DEF CanSend
    <3>4. kind = "data" => Head(rel) \in Nat
      BY <3>1, <3>3, SeqTail
    <3>5. CASE kind = "data"
      <4>1. tx' = Frame(kind, msgq_txseq, rxseq_txack, Head(rel))
        BY <1>3, <3>5 DEF Dequeue
      <4> QED
        BY <3>1, <3>4, <3>5, <4>1, FrameIs
    <3>6. CASE kind # "data"
      <4>1. tx' = Frame(kind, 0, rxseq_txack, 0) /\ 0 \in Nat
        BY <1>3, <3>6 DEF Dequeue
      <4> QED
        BY <3>1, <3>2, <4>1, FrameIs
    <3> QED
      BY <3>5, <3>6
  <2>2. unrel' \in Seq({"sco", "rsp"})
    <3>1. unrel \in Seq({"sco", "rsp"})
      BY <1>a DEF TypeOK
    <3>2. CASE kind \in {"sco", "rsp"}
      <4>1. unrel # <<>>
        BY <1>3, <3>2 DEF Dequeue, CanSend
      <4>2. unrel' = Tail(unrel)
        BY <1>3, <3>2 DEF Dequeue
      <4> QED
        BY <3>1, <4>1, <4>2, SeqTail
    <3>3. CASE kind \notin {"sco", "rsp"}
      <4>1. unrel' = unrel
        BY <1>3, <3>3 DEF Dequeue
      <4> QED
        BY <3>1, <4>1
    <3> QED
      BY <3>2, <3>3
  <2>3. UNCHANGED <<rel, unack, msgq_txseq, rxseq_txack, txack_req, timer, rx, line,
                    cAcked, cOwes, sent, arrived, unrelLeft>>
    BY <1>3 DEF Dequeue, queues, card
  <2> QED
    BY <1>a, <2>1, <2>2, <2>3, <1>s DEF TypeOK, SenderOK
<1>4. CASE Transmit
  <2>1. tx \in FrameType /\ Room("toCard") /\ Put("toCard", tx)
    BY <1>4, <1>a DEF Transmit, TypeOK, HostInv
  <2>2. line' \in [Lines -> Seq(FrameType)] /\ \A m \in Lines : Len(line'[m]) <= LineCap
    BY <1>a, <1>b, <2>1, CapPut
  <2>3. tx' = Idle /\ txack_req' = FALSE
    BY <1>4 DEF Transmit
  <2>4. /\ rel' \in Seq(1..HostPkts) /\ unack' \in Seq(1..HostPkts)
        /\ Len(unack') <= BCSP_TXWINSIZE
        /\ msgq_txseq' \in 0..(SEQ - 1)
    <3>1. CASE tx.kind = "data"
      <4>1. /\ rel # <<>> /\ Len(unack) < BCSP_TXWINSIZE /\ tx.pkt = Head(rel)
            /\ rel \in Seq(1..HostPkts) /\ unack \in Seq(1..HostPkts)
        BY <1>4, <1>a, <3>1 DEF Transmit, UnackLocked, HostInv, TypeOK
      <4>2. /\ msgq_txseq' = (msgq_txseq + 1) % SEQ
            /\ rel' = Tail(rel) /\ unack' = Append(unack, Head(rel))
        BY <1>4, <3>1, <4>1 DEF Transmit
      <4>3. Head(rel) \in 1..HostPkts /\ rel' \in Seq(1..HostPkts)
        BY <4>1, <4>2, SeqTail
      <4>4. unack' \in Seq(1..HostPkts) /\ Len(unack') = Len(unack) + 1 /\ Len(unack) \in Nat
        BY <4>1, <4>2, <4>3, SeqAppend
      <4>5. msgq_txseq' \in 0..(SEQ - 1)
        <5>1. msgq_txseq + 1 \in Int
          BY <1>a, Sorts
        <5> QED
          BY <1>a, <4>2, <5>1, NumberType
      <4> QED
        BY <4>1, <4>3, <4>4, <4>5, Modulus
    <3>2. CASE tx.kind # "data"
      <4>1. UNCHANGED <<rel, unack, msgq_txseq>>
        BY <1>4, <3>2 DEF Transmit, queues
      <4> QED
        BY <1>a, <4>1 DEF TypeOK
    <3> QED
      BY <3>1, <3>2
  <2>5. timer' \in BOOLEAN
    <3>1. timer' = TRUE \/ timer' = timer
      BY <1>4 DEF Transmit, StartTimer
    <3> QED
      BY <1>a, <3>1 DEF TypeOK
  <2>6. UNCHANGED <<unrel, rxseq_txack, rx, cAcked, cOwes, sent, arrived, unrelLeft>>
    BY <1>4 DEF Transmit, card
  <2> QED
    BY <1>a, <2>2, <2>3, <2>4, <2>5, <2>6, <1>s DEF TypeOK, SenderOK
<1>5. CASE Receive
  <2> DEFINE f == Head(line["toHost"])
  <2>1. line["toHost"] # <<>> /\ line' = [line EXCEPT !["toHost"] = Tail(@)]
    BY <1>5 DEF Receive
  <2>2. line' \in [Lines -> Seq(FrameType)] /\ \A m \in Lines : Len(line'[m]) <= LineCap
    BY <1>a, <1>b, <2>1, CapTake
  <2>3. f \in FrameType
    BY <1>a, <1>b, <2>1, TakeDoes
  <2>4. rx' \in FrameType \cup {Idle}
    <3>1. rx' = f \/ rx' = Idle
      BY <1>5 DEF Receive
    <3> QED
      BY <2>3, <3>1
  <2>5. rxseq_txack' \in 0..(SEQ - 1) /\ txack_req' \in BOOLEAN
    <3>1. \/ rxseq_txack' = (rxseq_txack + 1) % SEQ /\ txack_req' = TRUE
          \/ rxseq_txack' = rxseq_txack /\ txack_req' = txack_req
      BY <1>5 DEF Receive
    <3>2. rxseq_txack \in 0..(SEQ - 1) /\ txack_req \in BOOLEAN
      BY <1>a DEF TypeOK
    <3>3. rxseq_txack + 1 \in Int
      BY <3>2, Modulus
    <3>4. (rxseq_txack + 1) % SEQ \in 0..(SEQ - 1)
      BY <1>a, <3>3, NumberType
    <3>5. CASE rxseq_txack' = (rxseq_txack + 1) % SEQ /\ txack_req' = TRUE
      BY <3>4, <3>5
    <3>6. CASE rxseq_txack' = rxseq_txack /\ txack_req' = txack_req
      BY <3>2, <3>6
    <3> QED
      BY <3>1, <3>5, <3>6
  <2>6. UNCHANGED <<rel, unack, msgq_txseq, unrel, timer, tx, cAcked, cOwes, sent, arrived,
                    unrelLeft>>
    BY <1>5 DEF Receive, queues, card
  <2> QED
    BY <1>a, <2>2, <2>4, <2>5, <2>6, <1>s DEF TypeOK, SenderOK
<1>6. CASE Complete
  <2>1. rx \in FrameType /\ rx' = Idle
    BY <1>6, <1>a DEF Complete, TypeOK
  <2>2. unack' \in Seq(1..HostPkts) /\ Len(unack') <= BCSP_TXWINSIZE
    <3> DEFINE k == Acked(rx.ack)
               m == Len(unack)
    <3>1. unack \in Seq(1..HostPkts) /\ m \in Nat /\ m <= BCSP_TXWINSIZE
      BY <1>a DEF TypeOK
    <3>2. k \in 0..m
      BY <1>a, <2>1, FrameFields, AckedIs
    <3>3. unack' = SubSeq(unack, k + 1, m)
      BY <1>6 DEF Complete
    <3> HIDE DEF k
    <3>4. /\ SubSeq(unack, k + 1, m) \in Seq(1..HostPkts)
          /\ Len(SubSeq(unack, k + 1, m)) = m - k
      BY <3>1, <3>2, SeqDrop
    <3> QED
      BY <3>1, <3>2, <3>3, <3>4, Modulus
  <2>3. timer' \in BOOLEAN
    <3>1. timer \in BOOLEAN
      BY <1>a DEF TypeOK
    <3>2. timer' = (timer /\ unack' # <<>>)
      BY <1>6 DEF Complete, StopTimer
    <3> QED
      BY <3>1, <3>2, Zenon
  <2>4. arrived' \in [Lines -> Seq(Nat)]
    <3>1. rx.pkt \in Nat
      BY <2>1, FrameFields
    <3>2. \/ arrived' = [arrived EXCEPT !["toHost"] = Append(@, rx.pkt)]
          \/ arrived' = arrived
      BY <1>6 DEF Complete
    <3>3. Append(arrived["toHost"], rx.pkt) \in Seq(Nat)
      BY <1>a, <3>1, Sorts, SeqAppend
    <3> QED
      BY <1>c, <3>2, <3>3
  <2>5. unrel' \in Seq({"sco", "rsp"})
    <3>1. unrel \in Seq({"sco", "rsp"})
      BY <1>a DEF TypeOK
    <3>2. unrel' = <<"rsp">> \o unrel \/ unrel' = unrel
      BY <1>6 DEF Complete
    <3>3. <<"rsp">> \in Seq({"sco", "rsp"})
      OBVIOUS
    <3>4. <<"rsp">> \o unrel \in Seq({"sco", "rsp"})
      BY <3>1, <3>3
    <3> QED
      BY <3>1, <3>2, <3>4
  <2>6. UNCHANGED <<rel, msgq_txseq, rxseq_txack, txack_req, tx, line, cAcked, cOwes, sent,
                    unrelLeft>>
    BY <1>6 DEF Complete, card
  <2> QED
    BY <1>a, <2>1, <2>2, <2>3, <2>4, <2>5, <2>6, <1>s DEF TypeOK, SenderOK
<1>7. CASE TimedEvent
  <2>1. timer' \in BOOLEAN
    BY <1>7 DEF TimedEvent
  <2>2. rel' \in Seq(1..HostPkts) /\ unack' \in Seq(1..HostPkts)
    BY <1>7, <1>a DEF TimedEvent, TypeOK
  <2>3. Len(unack') <= BCSP_TXWINSIZE
    <3>1. unack' = <<>> /\ Len(<<>>) = 0
      BY <1>7 DEF TimedEvent
    <3> QED
      BY <3>1, Modulus
  <2>4. msgq_txseq' \in 0..(SEQ - 1)
    <3>1. msgq_txseq - Len(unack) \in Int
      BY <1>a, Sorts
    <3> QED
      BY <1>7, <1>a, <3>1, NumberType DEF TimedEvent, SeqBack
  <2>5. UNCHANGED <<unrel, rxseq_txack, txack_req, tx, rx, line, cAcked, cOwes, sent,
                    arrived, unrelLeft>>
    BY <1>7 DEF TimedEvent, card
  <2> QED
    BY <1>a, <2>1, <2>2, <2>3, <2>4, <2>5, <1>s DEF TypeOK, SenderOK
<1>8. CASE CardTakes
  <2> DEFINE f == Head(line["toCard"])
  <2>1. line["toCard"] # <<>> /\ line' = [line EXCEPT !["toCard"] = Tail(@)]
    BY <1>8 DEF CardTakes
  <2>2. line' \in [Lines -> Seq(FrameType)] /\ \A m \in Lines : Len(line'[m]) <= LineCap
    BY <1>a, <1>b, <2>1, CapTake
  <2>3. f \in FrameType
    BY <1>a, <1>b, <2>1, TakeDoes
  <2>4. arrived' \in [Lines -> Seq(Nat)]
    <3>1. f.pkt \in Nat
      BY <2>3, FrameFields
    <3>2. \/ arrived' = [arrived EXCEPT !["toCard"] = Append(@, f.pkt)]
          \/ arrived' = arrived
      BY <1>8 DEF CardTakes
    <3> HIDE DEF f
    <3>3. Append(arrived["toCard"], f.pkt) \in Seq(Nat)
      BY <1>a, <3>1, Sorts, SeqAppend
    <3> QED
      BY <1>c, <3>2, <3>3
  <2>5. cOwes' \in BOOLEAN
    <3>1. cOwes \in BOOLEAN /\ cOwes' = (cOwes \/ f.kind = "data")
      BY <1>8, <1>a DEF CardTakes, TypeOK
    <3> QED
      BY <3>1, Zenon
  <2>6. cAcked' \in 0..sent'["toHost"]
    <3>1. /\ cAcked \in Nat /\ sent["toHost"] \in Nat /\ cAcked <= sent["toHost"]
          /\ sent["toHost"] <= cAcked + CardWindow /\ AtHost <= sent["toHost"]
          /\ AtHost \in Nat
      BY <1>a, Sorts, TakenIs DEF CardInv, TypeOK
    <3>2. Upto(cAcked, f.ack) <= AtHost
      BY <1>a, <2>1, <3>1, Sorts, AcksTail DEF AckInv
    <3>3. f.ack \in 0..(SEQ - 1)
      BY <2>3, FrameFields
    <3>4. cAcked' = Max({cAcked} \cup {n \in cAcked..sent["toHost"] : n % SEQ = f.ack})
      BY <1>8 DEF CardTakes
    <3> HIDE DEF f
    <3>5. Upto(cAcked, f.ack) \in Nat /\ Upto(cAcked, f.ack) <= sent["toHost"]
      BY <3>1, <3>2, <3>3, UptoIs
    <3>6. sent["toHost"] < cAcked + SEQ
      BY <3>1, Modulus
    <3>7. cAcked' = Upto(cAcked, f.ack)
      BY <3>1, <3>3, <3>4, <3>5, <3>6, CardMoves
    <3>8. sent' = sent
      BY <1>8 DEF CardTakes
    <3> QED
      BY <3>1, <3>5, <3>7, <3>8
  <2>7. UNCHANGED <<rel, unack, msgq_txseq, unrel, rxseq_txack, txack_req, timer, tx, rx,
                    sent, unrelLeft>>
    BY <1>8 DEF CardTakes, queues
  <2> QED
    BY <1>a, <2>2, <2>4, <2>5, <2>6, <2>7, <1>s DEF TypeOK, SenderOK
<1>9. CASE CardAcks
  <2>1. Frame("ack", 0, CardAwaits, 0) \in FrameType
    BY <1>a, NumberType, FrameIs DEF Kinds
  <2>2. line' \in [Lines -> Seq(FrameType)] /\ \A m \in Lines : Len(line'[m]) <= LineCap
    BY <1>9, <1>a, <1>b, <2>1, CapPut DEF CardAcks
  <2>3. cOwes' = FALSE
    BY <1>9 DEF CardAcks
  <2>4. UNCHANGED <<rel, unack, msgq_txseq, unrel, rxseq_txack, txack_req, timer, tx, rx,
                    cAcked, sent, arrived, unrelLeft>>
    BY <1>9 DEF CardAcks, queues
  <2> QED
    BY <1>a, <2>2, <2>3, <2>4, <1>s DEF TypeOK, SenderOK
<1>10. CASE CardSends
  <2>1. PICK p \in cAcked + 1 .. CardPkts :
           /\ p <= cAcked + CardWindow /\ p <= sent["toHost"] + 1
           /\ sent' = [sent EXCEPT !["toHost"] = Max({@, p})]
           /\ Put("toHost", Frame("data", (p - 1) % SEQ, CardAwaits, p))
    BY <1>10 DEF CardSends
  <2>2. p \in Nat /\ p <= CardPkts /\ sent["toHost"] \in Nat /\ sent["toHost"] <= CardPkts
        /\ p - 1 \in Int /\ cAcked \in Nat
    BY <1>a, Sorts, BoundsAssumption DEF TypeOK
  <2>3. Frame("data", (p - 1) % SEQ, CardAwaits, p) \in FrameType
    BY <1>a, <2>2, NumberType, FrameIs DEF Kinds
  <2>4. line' \in [Lines -> Seq(FrameType)] /\ \A m \in Lines : Len(line'[m]) <= LineCap
    <3>1. Room("toHost")
      BY <1>10 DEF CardSends
    <3> QED
      BY <1>a, <1>b, <2>1, <2>3, <3>1, CapPut
  <2>5. /\ Max({sent["toHost"], p}) \in Nat /\ Max({sent["toHost"], p}) <= CardPkts
        /\ sent["toHost"] <= Max({sent["toHost"], p})
    BY <2>2, MaxTwo
  <2>6. sent' \in [Lines -> Nat] /\ sent'["toHost"] = Max({sent["toHost"], p})
        /\ sent'["toCard"] = sent["toCard"]
    BY <1>b, <1>c, <2>1, <2>5
  <2>7. cAcked' \in 0..sent'["toHost"]
    <3>1. cAcked' = cAcked /\ cAcked \in 0..sent["toHost"]
      BY <1>10, <1>a DEF CardSends, TypeOK
    <3> QED
      BY <2>2, <2>5, <2>6, <3>1
  <2>8. cOwes' = FALSE
    BY <1>10 DEF CardSends
  <2>9. UNCHANGED <<rel, unack, msgq_txseq, unrel, rxseq_txack, txack_req, timer, tx, rx,
                    arrived, unrelLeft>>
    BY <1>10 DEF CardSends, queues
  <2> QED
    BY <1>a, <2>4, <2>5, <2>6, <2>7, <2>8, <2>9, <1>s DEF TypeOK, SenderOK
<1>11. CASE CardConf
  <2>1. Frame("conf", 0, CardAwaits, 0) \in FrameType
    BY <1>a, NumberType, FrameIs DEF Kinds
  <2>2. line' \in [Lines -> Seq(FrameType)] /\ \A m \in Lines : Len(line'[m]) <= LineCap
    BY <1>11, <1>a, <1>b, <2>1, CapPut DEF CardConf
  <2>3. unrelLeft' \in 0..MaxUnrel
    BY <1>11, <1>a, BoundsAssumption DEF CardConf, TypeOK
  <2>4. UNCHANGED <<rel, unack, msgq_txseq, unrel, rxseq_txack, txack_req, timer, tx, rx,
                    cAcked, cOwes, sent, arrived>>
    BY <1>11 DEF CardConf, queues, card
  <2> QED
    BY <1>a, <2>2, <2>3, <2>4, <1>s DEF TypeOK, SenderOK
<1>12. ASSUME NEW l \in Lines, Lose(l)
       PROVE  TypeOK'
  <2>1. line' \in [Lines -> Seq(FrameType)] /\ \A m \in Lines : Len(line'[m]) <= LineCap
    BY <1>12, <1>a, CapTake DEF Lose
  <2>2. UNCHANGED <<rel, unack, msgq_txseq, unrel, rxseq_txack, txack_req, timer, tx, rx,
                    cAcked, cOwes, sent, arrived, unrelLeft>>
    BY <1>12 DEF Lose, queues, card
  <2> QED
    BY <1>a, <2>1, <2>2, <1>s DEF TypeOK, SenderOK
<1> QED
  BY <1>1, <1>2, <1>3, <1>4, <1>5, <1>6, <1>7, <1>8, <1>9, <1>10, <1>11, <1>12 DEF Exchange

-----------------------------------------------------------------------------
(* The host's queues.                                                      *)
LEMMA HostSame ==
    ASSUME TypeOK, HostInv, UNCHANGED <<rel, unack, msgq_txseq, tx>>,
           sent'["toCard"] = sent["toCard"], arrived'["toCard"] = arrived["toCard"],
           Room("toCard") => Room("toCard")'
    PROVE  HostInv' /\ Base' = Base /\ AtCard' = AtCard
<1>1. Base' = Base
  BY DEF Base
<1>2. AtCard' = AtCard
  BY DEF AtCard
<1>3. /\ 0 <= Base' /\ Base' <= AtCard' /\ AtCard' <= sent'["toCard"]
      /\ AtCard' <= Base' + BCSP_TXWINSIZE
  BY <1>1, <1>2 DEF HostInv
<1>4. \A i \in 1..Len(unack') : unack'[i] = Base' + i
  BY <1>1 DEF HostInv
<1>5. \A i \in 1..Len(rel') : rel'[i] = Base' + Len(unack') + i
  BY <1>1 DEF HostInv
<1>6. msgq_txseq' = (Base' + Len(unack')) % SEQ
  BY <1>1 DEF HostInv
<1>7. UnackLocked' => /\ rel' # <<>> /\ Len(unack') < BCSP_TXWINSIZE
                      /\ tx'.seq = msgq_txseq' /\ tx'.pkt = Head(rel')
  BY DEF HostInv, UnackLocked
<1>8. tx' # Idle => Room("toCard")'
  BY DEF HostInv
<1>9. \A i \in 1..AtCard' : arrived'["toCard"][i] = i
  BY <1>2 DEF HostInv
<1> QED
  BY <1>1, <1>2, <1>3, <1>4, <1>5, <1>6, <1>7, <1>8, <1>9 DEF HostInv

LEMMA EnqueueHost ==
    ASSUME TypeOK, HostInv, EnqueueRel
    PROVE  HostInv' /\ Base' = Base /\ AtCard' = AtCard
<1> DEFINE p == sent["toCard"] + 1
<1>1. /\ sent \in [Lines -> Nat] /\ "toCard" \in Lines
      /\ rel \in Seq(Nat) /\ Len(rel) \in Nat /\ Len(unack) \in Nat /\ Base \in Int
      /\ sent["toCard"] \in Nat /\ AtCard \in Nat
  BY Sorts DEF TypeOK, Lines
<1>2. sent'["toCard"] = p
  BY <1>1 DEF EnqueueRel
<1>3. rel' = Append(rel, p)
  BY <1>2 DEF EnqueueRel
<1>4. UNCHANGED <<unack, msgq_txseq, tx, line, arrived>>
  BY DEF EnqueueRel
<1>5. p \in Nat
  BY <1>1
<1> HIDE DEF p
<1>6. /\ Len(rel') = Len(rel) + 1 /\ rel'[Len(rel) + 1] = p
      /\ \A i \in 1..Len(rel) : rel'[i] = rel[i]
  BY <1>1, <1>3, <1>5, SeqAppend
<1>7. Base' = Base
  BY <1>1, <1>2, <1>4, <1>6 DEF Base, p
<1>8. AtCard' = AtCard
  BY <1>4 DEF AtCard
<1>9. /\ 0 <= Base' /\ Base' <= AtCard' /\ AtCard' <= sent'["toCard"]
      /\ AtCard' <= Base' + BCSP_TXWINSIZE
  <2>1. /\ 0 <= Base /\ Base <= AtCard /\ AtCard <= sent["toCard"]
        /\ AtCard <= Base + BCSP_TXWINSIZE
    BY DEF HostInv
  <2> QED
    BY <1>1, <1>2, <1>7, <1>8, <2>1 DEF p
<1>10. \A i \in 1..Len(unack') : unack'[i] = Base' + i
  BY <1>4, <1>7 DEF HostInv
<1>11. \A i \in 1..Len(rel') : rel'[i] = Base' + Len(unack') + i
  <2> SUFFICES ASSUME NEW i \in 1..Len(rel')
               PROVE  rel'[i] = Base + Len(unack) + i
    BY <1>4, <1>7
  <2>1. CASE i \in 1..Len(rel)
    BY <1>6, <2>1 DEF HostInv
  <2>2. CASE i = Len(rel) + 1
    BY <1>1, <1>6, <2>2 DEF Base, p
  <2> QED
    BY <1>1, <1>6, <2>1, <2>2
<1>12. msgq_txseq' = (Base' + Len(unack')) % SEQ
  BY <1>4, <1>7 DEF HostInv
<1>13. UnackLocked' => /\ rel' # <<>> /\ Len(unack') < BCSP_TXWINSIZE
                       /\ tx'.seq = msgq_txseq' /\ tx'.pkt = Head(rel')
  <2>1. UnackLocked' => UnackLocked
    BY <1>4 DEF UnackLocked
  <2>2. rel # <<>> => rel' # <<>> /\ Head(rel') = Head(rel)
    BY <1>1, <1>3, <1>5
  <2> QED
    BY <1>4, <2>1, <2>2 DEF HostInv
<1>14. tx' # Idle => Room("toCard")'
  BY <1>4 DEF HostInv, Room
<1>15. \A i \in 1..AtCard' : arrived'["toCard"][i] = i
  BY <1>4, <1>8 DEF HostInv
<1> QED
  BY <1>7, <1>8, <1>9, <1>10, <1>11, <1>12, <1>13, <1>14, <1>15 DEF HostInv

(* What bcsp_dequeue sends as data is the first packet of rel.             *)
LEMMA DequeueData ==
    ASSUME TypeOK, NEW kind \in Kinds, Dequeue(kind)
    PROVE  /\ tx' # Idle /\ tx' \in FrameType /\ tx'.ack = rxseq_txack
           /\ IsData(tx') => /\ rel # <<>> /\ WindowOpen
                             /\ tx'.seq = msgq_txseq /\ tx'.pkt = Head(rel)
<1>1. rel \in Seq(Nat) /\ msgq_txseq \in 0..(SEQ - 1) /\ rxseq_txack \in 0..(SEQ - 1)
  BY Sorts DEF TypeOK
<1>2. 0 \in 0..(SEQ - 1)
  BY NumberType
<1>3. kind = "data" => rel # <<>> /\ WindowOpen
  <2>1. CanSend(kind)
    BY DEF Dequeue
  <2>2. CASE unrel # <<>> /\ kind = Head(unrel)
    <3>1. unrel \in Seq({"sco", "rsp"})
      BY DEF TypeOK
    <3>2. kind \in {"sco", "rsp"}
      BY <2>2, <3>1, SeqTail
    <3> QED
      BY <3>2
  <2>3. CASE kind = "data" /\ WindowOpen /\ rel # <<>>
    BY <2>3
  <2>4. CASE kind = "ack"
    BY <2>4
  <2> QED
    BY <2>1, <2>2, <2>3, <2>4 DEF CanSend
<1>4. kind = "data" => Head(rel) \in Nat
  BY <1>1, <1>3, SeqTail
<1>5. CASE kind = "data"
  <2>1. tx' = Frame(kind, msgq_txseq, rxseq_txack, Head(rel))
    BY <1>5 DEF Dequeue
  <2>2. /\ tx' \in FrameType /\ tx'.ack = rxseq_txack
        /\ tx'.seq = msgq_txseq /\ tx'.pkt = Head(rel)
    BY <1>1, <1>4, <1>5, <2>1, FrameIs
  <2> QED
    BY <1>3, <1>5, <2>2, IdleAssumption
<1>6. CASE kind # "data"
  <2>1. tx' = Frame(kind, 0, rxseq_txack, 0) /\ 0 \in Nat
    BY <1>6 DEF Dequeue
  <2>2. tx' \in FrameType /\ tx'.ack = rxseq_txack /\ tx'.kind = kind
    BY <1>1, <1>2, <2>1, FrameIs
  <2> QED
    BY <1>6, <2>2, IdleAssumption DEF IsData
<1> QED
  BY <1>5, <1>6

LEMMA DequeueHost ==
    ASSUME TypeOK, HostInv, NEW kind \in Kinds, Dequeue(kind)
    PROVE  HostInv' /\ Base' = Base /\ AtCard' = AtCard
<1>1. UNCHANGED <<rel, unack, msgq_txseq, line, sent, arrived>>
  BY DEF Dequeue, queues
<1>2. Base' = Base /\ AtCard' = AtCard
  BY <1>1 DEF Base, AtCard
<1>3. UnackLocked' => /\ rel' # <<>> /\ Len(unack') < BCSP_TXWINSIZE
                      /\ tx'.seq = msgq_txseq' /\ tx'.pkt = Head(rel')
  BY <1>1, DequeueData DEF UnackLocked, IsData, WindowOpen
<1>4. Room("toCard")'
  BY <1>1 DEF Dequeue, Room
<1> QED
  BY <1>1, <1>2, <1>3, <1>4 DEF HostInv

(* What is sent moves from rel to unack.                                   *)
LEMMA TransmitHost ==
    ASSUME TypeOK, HostInv, Transmit
    PROVE  /\ HostInv' /\ Base' = Base /\ AtCard' = AtCard
           /\ IsData(tx) => tx.seq = (tx.pkt - 1) % SEQ /\ tx.pkt = Base + Len(unack) + 1
                            /\ Len(unack) < BCSP_TXWINSIZE /\ tx.pkt <= sent["toCard"]
<1>1. UNCHANGED <<sent, arrived>> /\ tx' = Idle
  BY DEF Transmit
<1>2. CASE ~IsData(tx)
  <2>1. UNCHANGED <<rel, unack, msgq_txseq>>
    BY <1>2 DEF Transmit, queues, IsData
  <2>2. Base' = Base /\ AtCard' = AtCard
    BY <1>1, <2>1 DEF Base, AtCard
  <2> QED
    BY <1>1, <1>2, <2>1, <2>2 DEF HostInv, UnackLocked
<1>3. CASE IsData(tx)
  <2>1. /\ rel # <<>> /\ Len(unack) < BCSP_TXWINSIZE
        /\ tx.seq = msgq_txseq /\ tx.pkt = Head(rel)
    BY <1>3 DEF Transmit, UnackLocked, HostInv, IsData
  <2>2. /\ rel \in Seq(Nat) /\ unack \in Seq(Nat) /\ Len(unack) \in Nat /\ Base \in Int
        /\ Len(rel) \in Nat /\ sent["toCard"] \in Nat /\ AtCard \in Nat
    BY Sorts
  <2>3. /\ msgq_txseq' = (msgq_txseq + 1) % SEQ
        /\ rel' = Tail(rel) /\ unack' = Append(unack, Head(rel))
    BY <1>3, <2>1 DEF Transmit, IsData
  <2>4. /\ Head(rel) = rel[1] /\ Head(rel) \in Nat /\ 1 <= Len(rel)
        /\ Len(rel') = Len(rel) - 1
        /\ \A i \in 1..Len(rel') : rel'[i] = rel[i + 1] /\ i + 1 \in 1..Len(rel)
    BY <2>1, <2>2, <2>3, SeqTail
  <2>5. /\ Len(unack') = Len(unack) + 1 /\ unack'[Len(unack) + 1] = Head(rel)
        /\ \A i \in 1..Len(unack) : unack'[i] = unack[i]
    BY <2>2, <2>3, <2>4, SeqAppend
  <2>6. Head(rel) = Base + Len(unack) + 1
    <3>1. 1 \in 1..Len(rel)
      BY <2>2, <2>4
    <3> QED
      BY <2>4, <3>1 DEF HostInv
  <2>7. Base' = Base
    <3>1. /\ sent' = sent /\ Len(rel') = Len(rel) - 1 /\ Len(unack') = Len(unack) + 1
          /\ Len(rel) \in Nat /\ Len(unack) \in Nat /\ sent["toCard"] \in Nat
      BY <1>1, <2>2, <2>4, <2>5
    <3> QED
      BY <3>1 DEF Base
  <2>8. AtCard' = AtCard
    BY <1>1 DEF AtCard
  <2>9. /\ 0 <= Base' /\ Base' <= AtCard' /\ AtCard' <= sent'["toCard"]
        /\ AtCard' <= Base' + BCSP_TXWINSIZE
    BY <1>1, <2>7, <2>8 DEF HostInv
  <2>10. \A i \in 1..Len(unack') : unack'[i] = Base' + i
    <3> SUFFICES ASSUME NEW i \in 1..Len(unack')
                 PROVE  unack'[i] = Base + i
      BY <2>7
    <3>1. CASE i \in 1..Len(unack)
      BY <2>5, <3>1 DEF HostInv
    <3>2. CASE i = Len(unack) + 1
      BY <2>2, <2>5, <2>6, <3>2
    <3> QED
      BY <2>2, <2>5, <3>1, <3>2
  <2>11. \A i \in 1..Len(rel') : rel'[i] = Base' + Len(unack') + i
    <3> SUFFICES ASSUME NEW i \in 1..Len(rel')
                 PROVE  rel'[i] = Base + Len(unack') + i
      BY <2>7
    <3>1. rel'[i] = rel[i + 1] /\ i + 1 \in 1..Len(rel)
      BY <2>4
    <3>2. rel[i + 1] = Base + Len(unack) + (i + 1)
      BY <3>1 DEF HostInv
    <3> QED
      BY <2>2, <2>5, <3>1, <3>2
  <2>12. msgq_txseq' = (Base' + Len(unack')) % SEQ
    <3>1. msgq_txseq = (Base + Len(unack)) % SEQ
      BY DEF HostInv
    <3>2. Base + Len(unack) \in Int /\ (Base + Len(unack)) + 1 = Base + Len(unack')
      BY <2>2, <2>5
    <3>3. (((Base + Len(unack)) % SEQ) + 1) % SEQ = ((Base + Len(unack)) + 1) % SEQ
      <4> DEFINE c == Base + Len(unack)
      <4>1. c \in Int /\ 1 \in Int
        BY <3>2
      <4> HIDE DEF c
      <4>2. ((c % SEQ) + 1) % SEQ = (c + 1) % SEQ
        BY <4>1, Modulus, ModAdd
      <4> QED
        BY <4>2 DEF c
    <3>4. msgq_txseq' = ((Base + Len(unack)) + 1) % SEQ
      BY <2>3, <3>1, <3>3
    <3> QED
      BY <2>7, <3>2, <3>4
  <2>13. ~UnackLocked' /\ ~(tx' # Idle)
    BY <1>1 DEF UnackLocked
  <2>14. \A i \in 1..AtCard' : arrived'["toCard"][i] = i
    BY <1>1, <2>8 DEF HostInv
  <2>15. HostInv'
    BY <2>9, <2>10, <2>11, <2>12, <2>13, <2>14 DEF HostInv
  <2>16. tx.seq = (tx.pkt - 1) % SEQ
    <3>1. tx.pkt - 1 = Base + Len(unack)
      BY <2>1, <2>2, <2>6
    <3> QED
      BY <2>1, <3>1 DEF HostInv
  <2>17. tx.pkt <= sent["toCard"]
    BY <2>1, <2>2, <2>4, <2>6 DEF Base
  <2> QED
    BY <2>1, <2>6, <2>7, <2>8, <2>15, <2>16, <2>17
<1> QED
  BY <1>2, <1>3

(* What is acknowledged leaves unack.                                      *)
LEMMA CompleteHost ==
    ASSUME TypeOK, HostInv, AckInv, Complete
    PROVE  /\ HostInv' /\ AtCard' = AtCard /\ Base' = Base + Acked(rx.ack)
           /\ Acked(rx.ack) \in Nat /\ rx \in FrameType
           /\ \/ Base' = Base
              \/ Base' = Upto(Base, rx.ack)
<1> DEFINE k == Acked(rx.ack)
           n == Len(unack)
<1>1. rx \in FrameType /\ rx # Idle
  BY DEF Complete, TypeOK
<1>2. rx.ack \in 0..(SEQ - 1)
  BY <1>1, FrameFields
<1>3. /\ k \in 0..n
      /\ Upto(Base, rx.ack) \in Base + 1 .. Base + n => Base + k = Upto(Base, rx.ack)
      /\ Upto(Base, rx.ack) \notin Base + 1 .. Base + n => k = 0
  BY <1>2, AckedIs
<1>4. /\ unack' = SubSeq(unack, k + 1, n) /\ rx' = Idle
      /\ UNCHANGED <<rel, msgq_txseq, tx, line, sent>>
  BY DEF Complete
<1>5. arrived'["toCard"] = arrived["toCard"]
  <2>1. arrived \in [Lines -> Seq(Nat)] /\ "toCard" \in Lines /\ "toCard" # "toHost"
    BY DEF TypeOK, Lines
  <2>2. \/ arrived' = [arrived EXCEPT !["toHost"] = Append(@, rx.pkt)]
        \/ arrived' = arrived
    BY DEF Complete
  <2> QED
    BY <2>1, <2>2
<1>6. /\ unack \in Seq(Nat) /\ n \in Nat /\ Base \in Int /\ Len(rel) \in Nat
      /\ sent["toCard"] \in Nat /\ AtCard \in Nat
  BY Sorts
<1> HIDE DEF k
<1>7. /\ Len(unack') = n - k
      /\ \A i \in 1..Len(unack') : unack'[i] = unack[k + i]
  BY <1>3, <1>4, <1>6, SeqDrop
<1>8. Base' = Base + k
  <2>1. /\ sent' = sent /\ rel' = rel /\ Len(unack') = Len(unack) - k
        /\ Len(rel) \in Nat /\ Len(unack) \in Nat /\ sent["toCard"] \in Nat /\ k \in Int
    BY <1>3, <1>4, <1>6, <1>7
  <2> QED
    BY <2>1 DEF Base
<1>9. AtCard' = AtCard
  BY <1>5 DEF AtCard
<1>10. 0 <= Base /\ Base <= AtCard /\ AtCard <= sent["toCard"] /\ AtCard <= Base + BCSP_TXWINSIZE
  BY DEF HostInv
<1>11. Base' <= AtCard /\ (Base' = Base \/ Base' = Upto(Base, rx.ack))
  <2>1. Upto(Base, rx.ack) <= AtCard
    BY <1>1 DEF AckInv
  <2>2. CASE Upto(Base, rx.ack) \in Base + 1 .. Base + n
    BY <1>3, <1>8, <2>1, <2>2
  <2>3. CASE Upto(Base, rx.ack) \notin Base + 1 .. Base + n
    BY <1>3, <1>6, <1>8, <1>10, <2>3
  <2> QED
    BY <2>2, <2>3
<1>12. /\ 0 <= Base' /\ Base' <= AtCard' /\ AtCard' <= sent'["toCard"]
       /\ AtCard' <= Base' + BCSP_TXWINSIZE
  BY <1>3, <1>4, <1>6, <1>8, <1>9, <1>10, <1>11, Modulus
<1>13. \A i \in 1..Len(unack') : unack'[i] = Base' + i
  <2> SUFFICES ASSUME NEW i \in 1..Len(unack')
               PROVE  unack'[i] = (Base + k) + i
    BY <1>8
  <2>1. k + i \in 1..n
    <3>1. Len(unack') = n - k /\ n \in Nat /\ k \in 0..n /\ i \in 1..Len(unack')
      BY <1>3, <1>6, <1>7
    <3> HIDE DEF n
    <3> QED
      BY <3>1
  <2>2. unack[k + i] = Base + (k + i)
    BY <2>1 DEF HostInv
  <2> QED
    BY <1>3, <1>6, <1>7, <2>1, <2>2
<1>14. Base' + Len(unack') = Base + n
  BY <1>3, <1>6, <1>7, <1>8
<1>15. \A i \in 1..Len(rel') : rel'[i] = Base' + Len(unack') + i
  BY <1>4, <1>14 DEF HostInv
<1>16. msgq_txseq' = (Base' + Len(unack')) % SEQ
  BY <1>4, <1>14 DEF HostInv
<1>17. ~UnackLocked'
  <2>1. ~UnackLocked
    BY DEF Complete
  <2> QED
    BY <1>4, <2>1 DEF UnackLocked
<1>18. tx' # Idle => Room("toCard")'
  BY <1>4 DEF HostInv, Room
<1>19. \A i \in 1..AtCard' : arrived'["toCard"][i] = i
  BY <1>5, <1>9 DEF HostInv
<1>20. HostInv'
  BY <1>12, <1>13, <1>15, <1>16, <1>17, <1>18, <1>19 DEF HostInv
<1> QED
  BY <1>1, <1>3, <1>8, <1>9, <1>11, <1>20 DEF k

(* What is not acknowledged goes back to the head of rel.                  *)
LEMMA TimedHost ==
    ASSUME TypeOK, HostInv, TimedEvent
    PROVE  HostInv' /\ Base' = Base /\ AtCard' = AtCard
<1> DEFINE n == Len(unack)
           m == Len(rel)
<1>1. /\ rel' = unack \o rel /\ unack' = <<>> /\ msgq_txseq' = SeqBack
      /\ UNCHANGED <<tx, line, sent, arrived>>
  BY DEF TimedEvent
<1>2. /\ unack \in Seq(Nat) /\ n \in Nat /\ Base \in Int /\ rel \in Seq(Nat) /\ m \in Nat
      /\ sent["toCard"] \in Nat
  BY Sorts
<1>3. Len(unack') = 0
  BY <1>1
<1>4. /\ Len(rel') = n + m
      /\ \A i \in 1..n : rel'[i] = unack[i]
      /\ \A i \in n + 1 .. n + m : rel'[i] = rel[i - n]
  BY <1>1, <1>2
<1>5. Base' = Base
  BY <1>1, <1>2, <1>3, <1>4 DEF Base
<1>6. AtCard' = AtCard
  BY <1>1 DEF AtCard
<1>7. /\ 0 <= Base' /\ Base' <= AtCard' /\ AtCard' <= sent'["toCard"]
      /\ AtCard' <= Base' + BCSP_TXWINSIZE
  BY <1>1, <1>5, <1>6 DEF HostInv
<1>8. \A i \in 1..Len(unack') : unack'[i] = Base' + i
  BY <1>3
<1>9. \A i \in 1..Len(rel') : rel'[i] = Base' + Len(unack') + i
  <2> SUFFICES ASSUME NEW i \in 1..Len(rel')
               PROVE  rel'[i] = Base + i
    BY <1>2, <1>3, <1>5
  <2>1. CASE i \in 1..n
    BY <1>4, <2>1 DEF HostInv
  <2>2. CASE i \in n + 1 .. n + m
    <3>1. i - n \in 1..m
      BY <1>2, <2>2
    <3>2. rel[i - n] = Base + n + (i - n)
      BY <3>1 DEF HostInv
    <3> QED
      BY <1>2, <1>4, <2>2, <3>1, <3>2
  <2> QED
    BY <1>2, <1>4, <2>1, <2>2
<1>10. msgq_txseq' = (Base' + Len(unack')) % SEQ
  <2> DEFINE j == 0 - n
  <2>1. j \in Int /\ Base + n \in Int /\ (Base + n) + j = Base' + Len(unack')
    BY <1>2, <1>3, <1>5
  <2>2. msgq_txseq = (Base + n) % SEQ /\ msgq_txseq \in Int
    BY Sorts DEF HostInv
  <2>3. msgq_txseq - n = ((Base + n) % SEQ) + j
    BY <1>2, <2>2
  <2> HIDE DEF j
  <2>4. (msgq_txseq - n) % SEQ = ((Base + n) + j) % SEQ
    BY <2>1, <2>3, Modulus, ModAdd
  <2>5. SeqBack = (msgq_txseq - n) % SEQ
    BY DEF SeqBack
  <2> QED
    BY <1>1, <2>1, <2>4, <2>5
<1>11. ~UnackLocked'
  <2>1. ~UnackLocked
    BY DEF TimedEvent
  <2> QED
    BY <1>1, <2>1 DEF UnackLocked
<1>12. tx' # Idle => Room("toCard")'
  BY <1>1 DEF HostInv, Room
<1>13. \A i \in 1..AtCard' : arrived'["toCard"][i] = i
  BY <1>1, <1>6 DEF HostInv
<1> QED
  BY <1>5, <1>6, <1>7, <1>8, <1>9, <1>10, <1>11, <1>12, <1>13 DEF HostInv

-----------------------------------------------------------------------------
(* What the card does with a frame: it moves on as the frame tells it to,  *)
(* and takes the packet if it is the next one.                             *)
LEMMA CardTakesDoes ==
    ASSUME IInv, CardTakes, TypeOK'
    PROVE  LET f == Head(line["toCard"]) IN
           /\ line["toCard"] \in Seq(FrameType) /\ line["toCard"] # <<>>
           /\ f \in FrameType
           /\ line'["toCard"] = Tail(line["toCard"]) /\ line'["toHost"] = line["toHost"]
           /\ cAcked' = Upto(cAcked, f.ack) /\ cAcked <= cAcked' /\ cAcked' <= AtHost
           /\ Base' = Base /\ Taken["toHost"]' = Taken["toHost"]
           /\ \/ arrived' = arrived
              \/ /\ IsData(f) /\ f.pkt = AtCard + 1
                 /\ AtCard + 1 <= sent["toCard"] /\ AtCard + 1 <= Base + BCSP_TXWINSIZE
                 /\ arrived' = [arrived EXCEPT !["toCard"] = Append(@, AtCard + 1)]
<1> DEFINE f == Head(line["toCard"])
           q == line["toCard"]
<1>a. TypeOK /\ HostInv /\ CardInv /\ AckInv /\ LineInv
  BY DEF IInv
<1>b. /\ "toCard" \in Lines /\ "toHost" \in Lines /\ "toCard" # "toHost"
      /\ arrived \in [Lines -> Seq(Nat)]
  BY <1>a DEF Lines, TypeOK
<1>1. /\ q # <<>> /\ line' = [line EXCEPT !["toCard"] = Tail(@)]
      /\ UNCHANGED <<rel, unack, rx, sent>>
  BY DEF CardTakes, queues
<1>2. /\ q \in Seq(FrameType) /\ f \in FrameType
      /\ line'["toCard"] = Tail(q) /\ line'["toHost"] = line["toHost"]
  BY <1>a, <1>b, <1>1, TakeDoes
<1>3. /\ cAcked \in Nat /\ sent["toHost"] \in Nat /\ cAcked <= sent["toHost"]
      /\ sent["toHost"] <= cAcked + CardWindow /\ AtHost <= sent["toHost"]
      /\ AtHost \in Nat /\ AtCard \in Nat /\ sent["toCard"] \in Nat /\ Base \in Int
      /\ Base <= AtCard
  <2>1. /\ cAcked \in Nat /\ sent["toHost"] \in Nat /\ AtCard \in Nat
        /\ sent["toCard"] \in Nat /\ Base \in Int
    BY <1>a, Sorts
  <2>2. AtHost \in Nat
    BY <1>a, TakenIs
  <2>3. sent["toHost"] <= cAcked + CardWindow /\ AtHost <= sent["toHost"]
    BY <1>a DEF CardInv
  <2>4. cAcked \in 0..sent["toHost"]
    BY <1>a DEF TypeOK
  <2>5. Base <= AtCard
    BY <1>a DEF HostInv
  <2> QED
    BY <2>1, <2>2, <2>3, <2>4, <2>5
<1>4. Upto(cAcked, f.ack) <= AtHost
  BY <1>a, <1>1, <1>2, <1>3, AcksTail DEF AckInv
<1>5. f.ack \in 0..(SEQ - 1)
  BY <1>2, FrameFields
<1>6. cAcked' = Max({cAcked} \cup {n \in cAcked..sent["toHost"] : n % SEQ = f.ack})
  BY DEF CardTakes
<1>7. arrived' = IF f.kind = "data" /\ f.seq = CardAwaits
                 THEN [arrived EXCEPT !["toCard"] = Append(@, f.pkt)] ELSE arrived
  BY DEF CardTakes
<1>8. Base' = Base
  BY <1>1 DEF Base
<1>9. \/ arrived' = arrived
      \/ /\ IsData(f) /\ f.pkt = AtCard + 1
         /\ AtCard + 1 <= sent["toCard"] /\ AtCard + 1 <= Base + BCSP_TXWINSIZE
         /\ arrived' = [arrived EXCEPT !["toCard"] = Append(@, AtCard + 1)]
  <2>1. CASE f.kind = "data" /\ f.seq = CardAwaits
    <3>1. f.seq = AtCard % SEQ /\ IsData(f)
      BY <2>1 DEF CardAwaits, AtCard, IsData
    <3>2. Packets(q, Base, BCSP_TXWINSIZE, AtCard, sent["toCard"])
      BY <1>a DEF LineInv
    <3>3. BCSP_TXWINSIZE \in Int /\ BCSP_TXWINSIZE < SEQ /\ sent["toCard"] \in Int
      BY <1>3, Modulus
    <3> HIDE DEF q
    <3>4. f.pkt = AtCard + 1 /\ AtCard + 1 <= sent["toCard"]
          /\ AtCard + 1 <= Base + BCSP_TXWINSIZE
      BY <1>1, <1>2, <1>3, <3>1, <3>2, <3>3, PacketsNext DEF q
    <3> QED
      BY <1>7, <2>1, <3>1, <3>4
  <2>2. CASE ~(f.kind = "data" /\ f.seq = CardAwaits)
    BY <1>7, <2>2
  <2> QED
    BY <2>1, <2>2
<1>10. arrived'["toHost"] = arrived["toHost"]
  BY <1>b, <1>9
<1>11. Taken["toHost"]' = Taken["toHost"]
  BY <1>a, <1>1, <1>10, TakenIs, TakenNext
<1> HIDE DEF f, q
<1>12. cAcked' = Upto(cAcked, f.ack) /\ cAcked <= Upto(cAcked, f.ack)
  <2>1. Upto(cAcked, f.ack) \in Nat /\ cAcked <= Upto(cAcked, f.ack)
    BY <1>3, <1>5, UptoIs
  <2>2. Upto(cAcked, f.ack) <= sent["toHost"]
    BY <1>3, <1>4, <2>1
  <2>3. sent["toHost"] < cAcked + SEQ
    BY <1>3, Modulus
  <2> QED
    BY <1>3, <1>5, <1>6, <2>1, <2>2, <2>3, CardMoves
<1>13. cAcked <= cAcked' /\ cAcked' <= AtHost
  BY <1>4, <1>12
<1> QED
  BY <1>1, <1>2, <1>8, <1>9, <1>11, <1>12, <1>13 DEF f, q

LEMMA CardTakesHost ==
    ASSUME IInv, CardTakes, TypeOK'
    PROVE  HostInv' /\ Base' = Base /\ AtCard <= AtCard'
<1>a. TypeOK /\ HostInv
  BY DEF IInv
<1>b. "toCard" \in Lines /\ arrived \in [Lines -> Seq(Nat)] /\ arrived["toCard"] \in Seq(Nat)
  BY <1>a, Sorts DEF Lines, TypeOK
<1>1. /\ Base' = Base /\ line["toCard"] # <<>> /\ line["toCard"] \in Seq(FrameType)
      /\ line'["toCard"] = Tail(line["toCard"])
  BY CardTakesDoes
<1>2. UNCHANGED <<rel, unack, msgq_txseq, tx, sent>>
  BY DEF CardTakes, queues
<1>3. Room("toCard") => Room("toCard")'
  BY <1>1, SeqTail, BoundsAssumption DEF Room
<1>4. AtCard \in Nat /\ Base \in Int /\ sent["toCard"] \in Nat
  BY <1>a, Sorts
<1>5. CASE arrived' = arrived
  <2>1. HostInv' /\ AtCard' = AtCard
    BY <1>a, <1>2, <1>3, <1>5, HostSame
  <2> QED
    BY <1>1, <1>4, <2>1
<1>6. CASE /\ AtCard + 1 <= sent["toCard"] /\ AtCard + 1 <= Base + BCSP_TXWINSIZE
           /\ arrived' = [arrived EXCEPT !["toCard"] = Append(@, AtCard + 1)]
  <2>1. arrived'["toCard"] = Append(arrived["toCard"], AtCard + 1)
    BY <1>b, <1>6
  <2>2. AtCard + 1 \in Nat /\ Len(arrived["toCard"]) = AtCard
    BY <1>4 DEF AtCard
  <2>3. /\ Len(arrived'["toCard"]) = AtCard + 1
        /\ arrived'["toCard"][AtCard + 1] = AtCard + 1
        /\ \A i \in 1..AtCard : arrived'["toCard"][i] = arrived["toCard"][i]
    BY <1>b, <2>1, <2>2, SeqAppend
  <2>4. AtCard' = AtCard + 1
    BY <2>3 DEF AtCard
  <2>5. \A i \in 1..AtCard' : arrived'["toCard"][i] = i
    <3> SUFFICES ASSUME NEW i \in 1..(AtCard + 1)
                 PROVE  arrived'["toCard"][i] = i
      BY <2>4
    <3>1. CASE i \in 1..AtCard
      BY <1>a, <2>3, <3>1 DEF HostInv
    <3>2. CASE i = AtCard + 1
      BY <2>3, <3>2
    <3> QED
      BY <1>4, <3>1, <3>2
  <2>6. /\ 0 <= Base' /\ Base' <= AtCard' /\ AtCard' <= sent'["toCard"]
        /\ AtCard' <= Base' + BCSP_TXWINSIZE
    <3>1. 0 <= Base /\ Base <= AtCard
      BY <1>a DEF HostInv
    <3> QED
      BY <1>1, <1>2, <1>4, <1>6, <2>4, <3>1
  <2>7. /\ \A i \in 1..Len(unack') : unack'[i] = Base' + i
        /\ \A i \in 1..Len(rel') : rel'[i] = Base' + Len(unack') + i
        /\ msgq_txseq' = (Base' + Len(unack')) % SEQ
    BY <1>a, <1>1, <1>2 DEF HostInv
  <2>8. UnackLocked' => /\ rel' # <<>> /\ Len(unack') < BCSP_TXWINSIZE
                        /\ tx'.seq = msgq_txseq' /\ tx'.pkt = Head(rel')
    BY <1>a, <1>2 DEF HostInv, UnackLocked
  <2>9. tx' # Idle => Room("toCard")'
    BY <1>a, <1>2, <1>3 DEF HostInv
  <2>10. HostInv'
    BY <2>5, <2>6, <2>7, <2>8, <2>9 DEF HostInv
  <2> QED
    BY <1>1, <1>4, <2>4, <2>10
<1> QED
  BY <1>5, <1>6, CardTakesDoes

(* Every step keeps the host's queues right.                               *)
LEMMA HostStep == IInv /\ Exchange /\ TypeOK' => HostInv'
<1> SUFFICES ASSUME IInv, Exchange, TypeOK' PROVE HostInv'
  OBVIOUS
<1>a. TypeOK /\ HostInv /\ AckInv
  BY DEF IInv
<1>b. "toCard" \in Lines /\ "toHost" \in Lines /\ "toCard" # "toHost"
  BY DEF Lines
<1>1. CASE EnqueueRel
  BY <1>1, <1>a, EnqueueHost
<1>2. CASE EnqueueUnrel
  <2>1. UNCHANGED <<rel, unack, msgq_txseq, tx, line, sent, arrived>>
    BY <1>2 DEF EnqueueUnrel, queues
  <2>2. Room("toCard") => Room("toCard")'
    BY <2>1 DEF Room
  <2> QED
    BY <1>a, <2>1, <2>2, HostSame
<1>3. ASSUME NEW kind \in Kinds, Dequeue(kind)
      PROVE  HostInv'
  BY <1>3, <1>a, DequeueHost
<1>4. CASE Transmit
  BY <1>4, <1>a, TransmitHost
<1>5. CASE Receive
  <2>1. /\ UNCHANGED <<rel, unack, msgq_txseq, tx, sent, arrived>>
        /\ line["toHost"] # <<>> /\ line' = [line EXCEPT !["toHost"] = Tail(@)]
    BY <1>5 DEF Receive, queues
  <2>2. Room("toCard") => Room("toCard")'
    BY <1>a, <1>b, <2>1, TakeDoes DEF Room
  <2> QED
    BY <1>a, <2>1, <2>2, HostSame
<1>6. CASE Complete
  BY <1>6, <1>a, CompleteHost
<1>7. CASE TimedEvent
  BY <1>7, <1>a, TimedHost
<1>8. CASE CardTakes
  BY <1>8, CardTakesHost
<1>9. CASE CardAcks \/ CardConf
  <2>1. /\ UNCHANGED <<rel, unack, msgq_txseq, tx, sent, arrived>>
        /\ \E k \in Kinds : Put("toHost", Frame(k, 0, CardAwaits, 0))
    BY <1>9 DEF CardAcks, CardConf, queues, Kinds
  <2>2. PICK k \in Kinds : Put("toHost", Frame(k, 0, CardAwaits, 0))
    BY <2>1
  <2>3. Frame(k, 0, CardAwaits, 0) \in FrameType
    BY <1>a, NumberType, FrameIs
  <2>4. Room("toCard") => Room("toCard")'
    BY <1>a, <1>b, <2>2, <2>3, PutDoes DEF Room
  <2> QED
    BY <1>a, <2>1, <2>4, HostSame
<1>10. CASE CardSends
  <2>1. PICK p \in cAcked + 1 .. CardPkts :
           /\ sent' = [sent EXCEPT !["toHost"] = Max({@, p})]
           /\ Put("toHost", Frame("data", (p - 1) % SEQ, CardAwaits, p))
    BY <1>10 DEF CardSends
  <2>2. p \in Nat /\ p - 1 \in Int
    BY <1>a, Sorts, BoundsAssumption
  <2>3. Frame("data", (p - 1) % SEQ, CardAwaits, p) \in FrameType
    BY <1>a, <2>2, NumberType, FrameIs DEF Kinds
  <2>4. sent'["toCard"] = sent["toCard"]
    BY <1>a, <1>b, <2>1 DEF TypeOK
  <2>5. UNCHANGED <<rel, unack, msgq_txseq, tx, arrived>>
    BY <1>10 DEF CardSends, queues
  <2>6. Room("toCard") => Room("toCard")'
    BY <1>a, <1>b, <2>1, <2>3, PutDoes DEF Room
  <2> QED
    BY <1>a, <2>4, <2>5, <2>6, HostSame
<1>11. ASSUME NEW l \in Lines, Lose(l)
       PROVE  HostInv'
  <2>1. /\ UNCHANGED <<rel, unack, msgq_txseq, tx, sent, arrived>>
        /\ line[l] # <<>> /\ line' = [line EXCEPT ![l] = Tail(@)]
    BY <1>11 DEF Lose, queues
  <2>2. Room("toCard") => Room("toCard")'
    <3>1. CASE l = "toCard"
      <4>1. line["toCard"] \in Seq(FrameType) /\ line'["toCard"] = Tail(line["toCard"])
        BY <1>a, <1>b, <2>1, <3>1, TakeDoes
      <4> QED
        BY <2>1, <3>1, <4>1, SeqTail, BoundsAssumption DEF Room
    <3>2. CASE l # "toCard"
      BY <1>a, <1>b, <2>1, <3>2, TakeDoes DEF Room
    <3> QED
      BY <3>1, <3>2
  <2> QED
    BY <1>a, <2>1, <2>2, HostSame
<1> QED
  BY <1>1, <1>2, <1>3, <1>4, <1>5, <1>6, <1>7, <1>8, <1>9, <1>10, <1>11 DEF Exchange

-----------------------------------------------------------------------------
(* What the host does with a frame: it counts the packet it awaits.        *)
LEMMA ReceiveDoes ==
    ASSUME IInv, Receive, TypeOK'
    PROVE  LET f == Head(line["toHost"]) IN
           /\ line["toHost"] \in Seq(FrameType) /\ line["toHost"] # <<>>
           /\ f \in FrameType
           /\ line'["toHost"] = Tail(line["toHost"]) /\ line'["toCard"] = line["toCard"]
           /\ rx' = Idle \/ rx' = f
           /\ \/ /\ rxseq_txack' = rxseq_txack
                 /\ Taken["toHost"]' = Taken["toHost"] /\ AtHost' = AtHost
              \/ /\ IsData(f) /\ f.pkt = AtHost + 1 /\ rx' = f
                 /\ AtHost + 1 <= sent["toHost"]
                 /\ rxseq_txack' = (rxseq_txack + 1) % SEQ
                 /\ Taken["toHost"]' = Append(Taken["toHost"], AtHost + 1)
                 /\ AtHost' = AtHost + 1
<1> DEFINE f == Head(line["toHost"])
           q == line["toHost"]
<1>a. TypeOK /\ CardInv /\ LineInv
  BY DEF IInv
<1>b. "toCard" \in Lines /\ "toHost" \in Lines /\ "toCard" # "toHost"
  BY DEF Lines
<1>1. /\ q # <<>> /\ line' = [line EXCEPT !["toHost"] = Tail(@)]
      /\ rx = Idle /\ UNCHANGED <<arrived, sent>>
      /\ rx' = IF InOrder(f) THEN f ELSE Idle
  BY DEF Receive
<1>2. /\ q \in Seq(FrameType) /\ f \in FrameType
      /\ line'["toHost"] = Tail(q) /\ line'["toCard"] = line["toCard"]
  BY <1>a, <1>b, <1>1, TakeDoes
<1>3. f # Idle
  BY <1>2, IdleAssumption
<1>4. Taken["toHost"] = arrived["toHost"] /\ AtHost \in Nat /\ AtHost = Len(Taken["toHost"])
      /\ Taken["toHost"] \in Seq(Nat)
  BY <1>a, <1>1, TakenIs DEF AtHost
<1>5. \/ /\ rxseq_txack' = rxseq_txack
         /\ Taken["toHost"]' = Taken["toHost"] /\ AtHost' = AtHost
      \/ /\ IsData(f) /\ f.pkt = AtHost + 1 /\ rx' = f
         /\ AtHost + 1 <= sent["toHost"]
         /\ rxseq_txack' = (rxseq_txack + 1) % SEQ
         /\ Taken["toHost"]' = Append(Taken["toHost"], AtHost + 1)
         /\ AtHost' = AtHost + 1
  <2>1. CASE InOrder(f) /\ f.kind = "data"
    <3>1. IsData(f) /\ f.seq = AtHost % SEQ /\ rx' = f
      BY <1>a, <1>1, <2>1 DEF InOrder, IsData, CardInv
    <3>2. Packets(q, cAcked, CardWindow, AtHost, sent["toHost"]) /\ cAcked <= AtHost
      BY <1>a DEF LineInv, CardInv
    <3>3. /\ CardWindow \in Int /\ CardWindow < SEQ /\ sent["toHost"] \in Int
          /\ cAcked \in Int
      BY <1>a, Sorts, Modulus
    <3>4. f.pkt = AtHost + 1 /\ AtHost + 1 <= sent["toHost"]
      <4>1. q \in Seq(FrameType) /\ q # <<>> /\ AtHost \in Nat
        BY <1>1, <1>2, <1>4
      <4>2. IsData(Head(q)) /\ Head(q).seq = AtHost % SEQ
        BY <3>1
      <4> HIDE DEF q
      <4>3. Head(q).pkt = AtHost + 1 /\ AtHost + 1 <= sent["toHost"]
        BY <3>2, <3>3, <4>1, <4>2, PacketsNext
      <4> QED
        BY <4>3 DEF q
    <3>5. Taken["toHost"]' = Append(Taken["toHost"], AtHost + 1)
      <4>1. rx' # Idle /\ rx'.kind = "data" /\ rx'.pkt = AtHost + 1
        BY <1>3, <3>1, <3>4 DEF IsData
      <4>2. arrived'["toHost"] = Taken["toHost"]
        BY <1>1, <1>4
      <4>3. Taken["toHost"]' = Append(arrived'["toHost"], rx'.pkt)
        BY <4>1, TakenNext
      <4> QED
        BY <4>1, <4>2, <4>3
    <3>6. AtHost' = AtHost + 1
      <4>1. AtHost + 1 \in Nat
        BY <1>4
      <4> QED
        BY <1>4, <3>5, <4>1, SeqAppend DEF AtHost
    <3>7. rxseq_txack' = (rxseq_txack + 1) % SEQ
      BY <2>1 DEF Receive
    <3> QED
      BY <3>1, <3>4, <3>5, <3>6, <3>7
  <2>2. CASE ~(InOrder(f) /\ f.kind = "data")
    <3>1. rxseq_txack' = rxseq_txack
      BY <2>2 DEF Receive
    <3>2. ~(rx' # Idle /\ rx'.kind = "data")
      BY <1>1, <2>2
    <3>3. Taken["toHost"]' = Taken["toHost"]
      BY <1>1, <1>4, <3>2, TakenNext
    <3> QED
      BY <3>1, <3>3 DEF AtHost
  <2> QED
    BY <2>1, <2>2
<1>6. rx' = Idle \/ rx' = f
  BY <1>1
<1> HIDE DEF f, q
<1> QED
  BY <1>1, <1>2, <1>5, <1>6 DEF f, q

(* A packet that goes up was counted before.                               *)
LEMMA CompleteTaken ==
    ASSUME TypeOK, TypeOK', Complete
    PROVE  Taken["toHost"]' = Taken["toHost"] /\ AtHost' = AtHost
<1>1. rx # Idle /\ rx' = Idle /\ rx \in FrameType
  BY DEF Complete, TypeOK
<1>2. "toHost" \in Lines /\ arrived \in [Lines -> Seq(Nat)]
  BY DEF Lines, TypeOK
<1>3. Taken["toHost"]' = arrived'["toHost"]
  BY <1>1, TakenNext
<1>4. CASE rx.kind = "data"
  <2>1. arrived' = [arrived EXCEPT !["toHost"] = Append(@, rx.pkt)]
    BY <1>4 DEF Complete
  <2>2. arrived'["toHost"] = Append(arrived["toHost"], rx.pkt)
    BY <1>2, <2>1
  <2>3. Taken["toHost"] = Append(arrived["toHost"], rx.pkt)
    BY <1>1, <1>4, TakenIs
  <2> QED
    BY <1>3, <2>2, <2>3 DEF AtHost
<1>5. CASE rx.kind # "data"
  <2>1. arrived' = arrived
    BY <1>5 DEF Complete
  <2>2. Taken["toHost"] = arrived["toHost"]
    BY <1>5, TakenIs
  <2> QED
    BY <1>3, <2>1, <2>2 DEF AtHost
<1> QED
  BY <1>4, <1>5

(* What the card sends is the next packet, or one it sent before.          *)
LEMMA CardSendsDoes ==
    ASSUME TypeOK, CardInv, CardSends
    PROVE  \E p \in Nat :
             /\ cAcked + 1 <= p /\ p <= cAcked + CardWindow
             /\ sent'["toHost"] \in Nat /\ sent["toHost"] <= sent'["toHost"]
             /\ sent'["toHost"] = sent["toHost"] \/ sent'["toHost"] = p
             /\ p <= sent'["toHost"] /\ sent'["toCard"] = sent["toCard"]
             /\ sent'["toHost"] <= sent["toHost"] + 1
             /\ Put("toHost", Frame("data", (p - 1) % SEQ, CardAwaits, p))
             /\ Frame("data", (p - 1) % SEQ, CardAwaits, p) \in FrameType
             /\ sent' = [sent EXCEPT !["toHost"] = sent'["toHost"]]
<1>1. PICK p \in cAcked + 1 .. CardPkts :
         /\ p <= cAcked + CardWindow /\ p <= sent["toHost"] + 1
         /\ sent' = [sent EXCEPT !["toHost"] = Max({@, p})]
         /\ Put("toHost", Frame("data", (p - 1) % SEQ, CardAwaits, p))
  BY DEF CardSends
<1>2. /\ cAcked \in Nat /\ sent["toHost"] \in Nat /\ CardPkts \in Nat
      /\ sent \in [Lines -> Nat] /\ "toHost" \in Lines /\ "toCard" \in Lines
      /\ "toCard" # "toHost"
  BY Sorts, BoundsAssumption DEF TypeOK, Lines
<1>3. p \in Nat /\ p - 1 \in Int
  BY <1>2
<1>4. Frame("data", (p - 1) % SEQ, CardAwaits, p) \in FrameType
  BY <1>3, NumberType, FrameIs DEF Kinds
<1> DEFINE m == Max({sent["toHost"], p})
<1>5. m \in {sent["toHost"], p} /\ sent["toHost"] <= m /\ p <= m
  BY <1>2, <1>3, MaxTwo
<1> HIDE DEF m
<1>6. sent' = [sent EXCEPT !["toHost"] = m]
  BY <1>1 DEF m
<1>7. sent'["toHost"] = m /\ sent'["toCard"] = sent["toCard"]
  BY <1>2, <1>6
<1>8. m \in Nat /\ m <= sent["toHost"] + 1
  BY <1>1, <1>2, <1>3, <1>5
<1>9. sent' = [sent EXCEPT !["toHost"] = sent'["toHost"]]
  BY <1>6, <1>7
<1>10. /\ cAcked + 1 <= p /\ p <= cAcked + CardWindow
       /\ sent'["toHost"] \in Nat /\ sent["toHost"] <= sent'["toHost"]
       /\ sent'["toHost"] = sent["toHost"] \/ sent'["toHost"] = p
       /\ p <= sent'["toHost"] /\ sent'["toCard"] = sent["toCard"]
       /\ sent'["toHost"] <= sent["toHost"] + 1
  BY <1>1, <1>2, <1>3, <1>5, <1>7, <1>8
<1>11. Put("toHost", Frame("data", (p - 1) % SEQ, CardAwaits, p))
  BY <1>1
<1> USE <1>3
<1> WITNESS p \in Nat
<1> QED
  BY <1>4, <1>9, <1>10, <1>11

LEMMA CardSame ==
    ASSUME CardInv, UNCHANGED <<cAcked, rxseq_txack>>,
           sent'["toHost"] = sent["toHost"], Taken["toHost"]' = Taken["toHost"]
    PROVE  CardInv' /\ AtHost' = AtHost
<1>1. AtHost' = AtHost
  BY DEF AtHost
<1> QED
  BY <1>1 DEF CardInv

(* Every step keeps what the card has sent and the host has taken right.   *)
LEMMA CardStep == IInv /\ Exchange /\ TypeOK' => CardInv'
<1> SUFFICES ASSUME IInv, Exchange, TypeOK' PROVE CardInv'
  OBVIOUS
<1>a. TypeOK /\ CardInv
  BY DEF IInv
<1>b. "toCard" \in Lines /\ "toHost" \in Lines /\ "toCard" # "toHost"
  BY DEF Lines
<1>c. /\ cAcked \in Nat /\ AtHost \in Nat /\ sent["toHost"] \in Nat
      /\ cAcked <= AtHost /\ AtHost <= sent["toHost"]
      /\ sent["toHost"] <= cAcked + CardWindow /\ CardWindow \in Nat
  BY <1>a, Sorts, TakenIs, Modulus DEF CardInv
<1>1. CASE EnqueueRel
  <2>1. UNCHANGED <<cAcked, rxseq_txack, rx, arrived>>
    BY <1>1 DEF EnqueueRel, card
  <2>2. sent'["toHost"] = sent["toHost"]
    BY <1>1, <1>a, <1>b DEF EnqueueRel, TypeOK
  <2>3. Taken' = Taken
    BY <2>1 DEF Taken
  <2> QED
    BY <1>a, <2>1, <2>2, <2>3, CardSame
<1>2. CASE EnqueueUnrel \/ Transmit \/ TimedEvent \/ CardAcks \/ CardConf
           \/ (\E kind \in Kinds : Dequeue(kind)) \/ (\E l \in Lines : Lose(l))
  <2>1. UNCHANGED <<cAcked, rxseq_txack, rx, arrived, sent>>
    BY <1>2 DEF EnqueueUnrel, Transmit, TimedEvent, CardAcks, CardConf, Dequeue, Lose, card
  <2>2. Taken' = Taken
    BY <2>1 DEF Taken
  <2> QED
    BY <1>a, <2>1, <2>2, CardSame
<1>3. CASE Receive
  <2>1. UNCHANGED <<cAcked, sent>>
    BY <1>3 DEF Receive, card
  <2>2. CASE rxseq_txack' = rxseq_txack /\ Taken["toHost"]' = Taken["toHost"]
    BY <1>a, <2>1, <2>2, CardSame
  <2>3. CASE /\ AtHost + 1 <= sent["toHost"]
             /\ rxseq_txack' = (rxseq_txack + 1) % SEQ
             /\ Taken["toHost"]' = Append(Taken["toHost"], AtHost + 1)
             /\ AtHost' = AtHost + 1
    <3>1. cAcked' <= AtHost' /\ AtHost' <= sent'["toHost"]
          /\ sent'["toHost"] <= cAcked' + CardWindow
      BY <1>c, <2>1, <2>3
    <3>2. rxseq_txack' = AtHost' % SEQ
      <4>1. rxseq_txack = AtHost % SEQ
        BY <1>a DEF CardInv
      <4>2. AtHost \in Int /\ 1 \in Int
        BY <1>c
      <4> DEFINE n == AtHost
      <4> HIDE DEF n
      <4>3. ((n % SEQ) + 1) % SEQ = (n + 1) % SEQ
        BY <4>2, Modulus, ModAdd DEF n
      <4> QED
        BY <2>3, <4>1, <4>3 DEF n
    <3>3. \A i \in 1..AtHost' : Taken'["toHost"][i] = i
      <4>1. Taken["toHost"] \in Seq(Nat) /\ Len(Taken["toHost"]) = AtHost
        BY <1>a, TakenIs DEF AtHost
      <4>2. AtHost + 1 \in Nat
        BY <1>c
      <4>3. /\ \A i \in 1..AtHost : Taken["toHost"]'[i] = Taken["toHost"][i]
            /\ Taken["toHost"]'[AtHost + 1] = AtHost + 1
        BY <2>3, <4>1, <4>2, SeqAppend
      <4> SUFFICES ASSUME NEW i \in 1..(AtHost + 1)
                   PROVE  Taken'["toHost"][i] = i
        BY <2>3
      <4>4. CASE i \in 1..AtHost
        BY <1>a, <4>3, <4>4 DEF CardInv
      <4>5. CASE i = AtHost + 1
        BY <4>3, <4>5
      <4> QED
        BY <1>c, <4>4, <4>5
    <3> QED
      BY <3>1, <3>2, <3>3 DEF CardInv
  <2> QED
    BY <1>3, <2>2, <2>3, ReceiveDoes
<1>4. CASE Complete
  <2>1. UNCHANGED <<cAcked, rxseq_txack, sent>>
    BY <1>4 DEF Complete, card
  <2> QED
    BY <1>4, <1>a, <2>1, CompleteTaken, CardSame
<1>5. CASE CardTakes
  <2>1. UNCHANGED <<rxseq_txack, sent>>
    BY <1>5 DEF CardTakes
  <2>2. /\ cAcked <= cAcked' /\ cAcked' <= AtHost
        /\ Taken["toHost"]' = Taken["toHost"]
    BY <1>5, CardTakesDoes
  <2>3. AtHost' = AtHost
    BY <2>2 DEF AtHost
  <2>4. cAcked' \in Nat
    BY Sorts, <1>b DEF TypeOK
  <2>5. sent'["toHost"] <= cAcked' + CardWindow
    BY <1>c, <2>1, <2>2, <2>4
  <2> QED
    BY <1>a, <2>1, <2>2, <2>3, <2>5 DEF CardInv
<1>6. CASE CardSends
  <2>1. UNCHANGED <<cAcked, rxseq_txack, rx, arrived>>
    BY <1>6 DEF CardSends
  <2>2. Taken' = Taken
    BY <2>1 DEF Taken
  <2>3. AtHost' = AtHost
    BY <2>2 DEF AtHost
  <2>4. PICK p \in Nat :
             /\ p <= cAcked + CardWindow
             /\ sent'["toHost"] \in Nat /\ sent["toHost"] <= sent'["toHost"]
             /\ sent'["toHost"] = sent["toHost"] \/ sent'["toHost"] = p
    BY <1>6, <1>a, CardSendsDoes
  <2>5. AtHost' <= sent'["toHost"] /\ sent'["toHost"] <= cAcked' + CardWindow
    BY <1>c, <2>1, <2>3, <2>4
  <2> QED
    BY <1>a, <2>1, <2>2, <2>3, <2>5 DEF CardInv
<1> QED
  BY <1>1, <1>2, <1>3, <1>4, <1>5, <1>6 DEF Exchange

-----------------------------------------------------------------------------
(* The frames on the way to the card.                                      *)
LEMMA ToCardStep ==
    ASSUME IInv, Exchange, TypeOK'
    PROVE  Packets(line'["toCard"], Base', BCSP_TXWINSIZE, AtCard', sent'["toCard"])
<1> DEFINE q == line["toCard"]
           W == BCSP_TXWINSIZE
           l == sent["toCard"]
           P == Packets(line'["toCard"], Base', W, AtCard', sent'["toCard"])
<1>a. TypeOK /\ HostInv /\ CardInv /\ LineInv /\ AckInv
  BY DEF IInv
<1>b. "toCard" \in Lines /\ "toHost" \in Lines /\ "toCard" # "toHost"
  BY DEF Lines
<1>c. /\ q \in Seq(FrameType) /\ Base \in Int /\ AtCard \in Nat /\ l \in Nat /\ W \in Nat
      /\ Len(unack) \in Nat
  BY <1>a, Sorts, Modulus
<1>d. Packets(q, Base, W, AtCard, l)
  BY <1>a DEF LineInv
<1>e. 0 <= Base /\ Base <= AtCard /\ AtCard <= l /\ AtCard <= Base + W
  BY <1>a DEF HostInv
<1> HIDE DEF q, W, l
<1>1. CASE EnqueueRel
  <2>1. Base' = Base /\ AtCard' = AtCard
    BY <1>1, <1>a, EnqueueHost
  <2>2. line' = line /\ sent'["toCard"] = l + 1
    BY <1>1, <1>a, <1>b DEF EnqueueRel, TypeOK, l
  <2>3. Packets(q, Base, W, AtCard, l + 1)
    <3>1. l + 1 \in Int /\ l <= l + 1
      BY <1>c
    <3> QED
      BY <1>c, <1>d, <3>1, PacketsGrow
  <2> QED
    BY <2>1, <2>2, <2>3 DEF q, W
<1>2. CASE EnqueueUnrel \/ (\E kind \in Kinds : Dequeue(kind))
  <2>1. UNCHANGED <<rel, unack, line, sent, arrived>>
    BY <1>2 DEF EnqueueUnrel, Dequeue, queues
  <2>2. Base' = Base /\ AtCard' = AtCard
    BY <2>1 DEF Base, AtCard
  <2> QED
    BY <1>d, <2>1, <2>2 DEF q, W, l
<1>3. CASE Transmit
  <2>1. /\ Base' = Base /\ AtCard' = AtCard
        /\ IsData(tx) => tx.seq = (tx.pkt - 1) % SEQ /\ tx.pkt = Base + Len(unack) + 1
                         /\ Len(unack) < W /\ tx.pkt <= l
    BY <1>3, <1>a, TransmitHost DEF W, l
  <2>2. tx \in FrameType /\ Put("toCard", tx) /\ sent' = sent
    BY <1>3, <1>a DEF Transmit, TypeOK
  <2>3. line'["toCard"] = Append(q, tx)
    BY <1>a, <1>b, <2>2, PutDoes DEF q
  <2>4. Packets(Append(q, tx), Base, W, AtCard, l)
    <3>1. CASE IsData(tx)
      <4>1. tx.pkt = Base + Len(unack) + 1 /\ Len(unack) < W /\ tx.pkt <= l
            /\ tx.seq = (tx.pkt - 1) % SEQ
        BY <2>1, <3>1
      <4>2. Base + 1 <= tx.pkt /\ tx.pkt <= Base + W /\ 1 <= tx.pkt
        BY <1>c, <1>e, <4>1
      <4>3. W \in Int /\ AtCard \in Int /\ l \in Int
        BY <1>c
      <4> QED
        BY <1>c, <1>d, <1>e, <2>2, <3>1, <4>1, <4>2, <4>3, PacketsData
    <3>2. CASE ~IsData(tx)
      BY <1>c, <1>d, <2>2, <3>2, PacketsOther
    <3> QED
      BY <3>1, <3>2
  <2> QED
    BY <2>1, <2>2, <2>3, <2>4 DEF W, l
<1>4. CASE Receive
  <2>1. UNCHANGED <<rel, unack, sent, arrived>>
    BY <1>4 DEF Receive, queues
  <2>2. Base' = Base /\ AtCard' = AtCard
    BY <2>1 DEF Base, AtCard
  <2>3. line'["toCard"] = q
    BY <1>4, ReceiveDoes DEF q
  <2> QED
    BY <1>d, <2>1, <2>2, <2>3 DEF W, l
<1>5. CASE Complete
  <2>1. AtCard' = AtCard /\ Base' = Base + Acked(rx.ack) /\ Acked(rx.ack) \in Nat
    BY <1>5, <1>a, CompleteHost
  <2>2. line' = line /\ sent' = sent
    BY <1>5 DEF Complete
  <2>3. Base' \in Int /\ Base <= Base'
    BY <1>c, <2>1
  <2>4. Packets(q, Base', W, AtCard, l)
    BY <1>c, <1>d, <2>3, PacketsGrow
  <2> QED
    BY <2>1, <2>2, <2>4 DEF q, W, l
<1>6. CASE TimedEvent
  <2>1. Base' = Base /\ AtCard' = AtCard
    BY <1>6, <1>a, TimedHost
  <2>2. line' = line /\ sent' = sent
    BY <1>6 DEF TimedEvent
  <2> QED
    BY <1>d, <2>1, <2>2 DEF q, W, l
<1>7. CASE CardTakes
  <2>1. sent' = sent
    BY <1>7 DEF CardTakes
  <2> DEFINE f == Head(q)
  <2>2. /\ q # <<>> /\ line'["toCard"] = Tail(q) /\ Base' = Base
        /\ \/ arrived' = arrived
           \/ /\ IsData(f) /\ f.pkt = AtCard + 1
              /\ arrived' = [arrived EXCEPT !["toCard"] = Append(@, AtCard + 1)]
    BY <1>7, CardTakesDoes DEF q
  <2>3. CASE arrived' = arrived
    <3>1. AtCard' = AtCard
      BY <2>3 DEF AtCard
    <3>2. Packets(Tail(q), Base, W, AtCard, l)
      BY <1>c, <1>d, <2>2, PacketsTail
    <3> QED
      BY <2>1, <2>2, <3>1, <3>2 DEF W, l
  <2>4. CASE /\ IsData(f) /\ f.pkt = AtCard + 1
             /\ arrived' = [arrived EXCEPT !["toCard"] = Append(@, AtCard + 1)]
    <3>1. AtCard' = AtCard + 1
      <4>1. arrived \in [Lines -> Seq(Nat)] /\ arrived["toCard"] \in Seq(Nat)
        BY <1>a, Sorts DEF TypeOK
      <4>2. arrived'["toCard"] = Append(arrived["toCard"], AtCard + 1) /\ AtCard + 1 \in Nat
        BY <1>b, <1>c, <2>4, <4>1
      <4> QED
        BY <4>1, <4>2, SeqAppend DEF AtCard
    <3>2. Packets(Tail(q), Base, W, AtCard + 1, l)
      <4>1. W \in Int /\ l \in Int
        BY <1>c
      <4> QED
        BY <1>c, <1>d, <2>2, <2>4, <4>1, PacketsTake
    <3> QED
      BY <2>1, <2>2, <3>1, <3>2 DEF W, l
  <2> QED
    BY <2>2, <2>3, <2>4
<1>8. CASE CardAcks \/ CardConf \/ CardSends
  <2>1. UNCHANGED <<rel, unack, arrived>> /\ sent'["toCard"] = sent["toCard"]
    <3>1. CASE CardAcks \/ CardConf
      BY <3>1 DEF CardAcks, CardConf, queues
    <3>2. CASE CardSends
      BY <3>2, <1>a, CardSendsDoes DEF CardSends, queues
    <3> QED
      BY <1>8, <3>1, <3>2
  <2>2. Base' = Base /\ AtCard' = AtCard
    BY <2>1 DEF Base, AtCard
  <2>3. line'["toCard"] = q
    <3>1. \E f \in FrameType : Put("toHost", f)
      <4>1. CASE CardAcks \/ CardConf
        <5>1. \E k \in Kinds : Put("toHost", Frame(k, 0, CardAwaits, 0))
          BY <4>1 DEF CardAcks, CardConf, Kinds
        <5>2. \A k \in Kinds : Frame(k, 0, CardAwaits, 0) \in FrameType
          BY <1>a, NumberType, FrameIs
        <5> QED
          BY <5>1, <5>2
      <4>2. CASE CardSends
        BY <4>2, <1>a, CardSendsDoes
      <4> QED
        BY <1>8, <4>1, <4>2
    <3> QED
      BY <1>a, <1>b, <3>1, PutDoes DEF q
  <2> QED
    BY <1>d, <2>1, <2>2, <2>3 DEF W, l
<1>9. ASSUME NEW m \in Lines, Lose(m)
      PROVE  P
  <2>1. /\ UNCHANGED <<rel, unack, sent, arrived>> /\ line[m] # <<>>
        /\ line' = [line EXCEPT ![m] = Tail(@)]
    BY <1>9 DEF Lose, queues
  <2>2. Base' = Base /\ AtCard' = AtCard
    BY <2>1 DEF Base, AtCard
  <2>3. CASE m = "toCard"
    <3>1. line'["toCard"] = Tail(q) /\ q # <<>>
      BY <1>a, <1>b, <2>1, <2>3, TakeDoes DEF q
    <3>2. Packets(Tail(q), Base, W, AtCard, l)
      BY <1>c, <1>d, <3>1, PacketsTail
    <3> QED
      BY <2>1, <2>2, <3>1, <3>2 DEF W, l
  <2>4. CASE m # "toCard"
    <3>1. line'["toCard"] = q
      BY <1>a, <1>b, <2>1, <2>4, TakeDoes DEF q
    <3> QED
      BY <1>d, <2>1, <2>2, <3>1 DEF W, l
  <2> QED
    BY <2>3, <2>4
<1> QED
  BY <1>1, <1>2, <1>3, <1>4, <1>5, <1>6, <1>7, <1>8, <1>9 DEF Exchange, W

(* The frames on the way to the host.                                      *)
LEMMA ToHostStep ==
    ASSUME IInv, Exchange, TypeOK'
    PROVE  Packets(line'["toHost"], cAcked', CardWindow, AtHost', sent'["toHost"])
<1> DEFINE q == line["toHost"]
           W == CardWindow
           l == sent["toHost"]
           P == Packets(line'["toHost"], cAcked', W, AtHost', sent'["toHost"])
<1>a. TypeOK /\ HostInv /\ CardInv /\ LineInv /\ AckInv
  BY DEF IInv
<1>b. "toCard" \in Lines /\ "toHost" \in Lines /\ "toCard" # "toHost"
  BY DEF Lines
<1>c. q \in Seq(FrameType) /\ cAcked \in Nat /\ AtHost \in Nat /\ l \in Nat /\ W \in Nat
  BY <1>a, Sorts, TakenIs, Modulus
<1>d. Packets(q, cAcked, W, AtHost, l)
  BY <1>a DEF LineInv
<1>e. cAcked <= AtHost /\ AtHost <= l /\ l <= cAcked + W
  BY <1>a DEF CardInv
<1> HIDE DEF q, W, l
<1>1. CASE EnqueueRel
  <2>1. UNCHANGED <<cAcked, rx, arrived, line>> /\ sent'["toHost"] = l
    BY <1>1, <1>a, <1>b DEF EnqueueRel, TypeOK, l, card
  <2>2. AtHost' = AtHost
    BY <2>1 DEF AtHost, Taken
  <2> QED
    BY <1>d, <2>1, <2>2 DEF q, W
<1>2. CASE EnqueueUnrel \/ TimedEvent \/ (\E kind \in Kinds : Dequeue(kind))
  <2>1. UNCHANGED <<cAcked, rx, arrived, line, sent>>
    BY <1>2 DEF EnqueueUnrel, TimedEvent, Dequeue, card
  <2>2. AtHost' = AtHost
    BY <2>1 DEF AtHost, Taken
  <2> QED
    BY <1>d, <2>1, <2>2 DEF q, W, l
<1>3. CASE Transmit
  <2>1. UNCHANGED <<cAcked, rx, arrived, sent>>
    BY <1>3 DEF Transmit, card
  <2>2. AtHost' = AtHost
    BY <2>1 DEF AtHost, Taken
  <2>3. tx \in FrameType /\ Put("toCard", tx)
    BY <1>3, <1>a DEF Transmit, TypeOK
  <2>4. line'["toHost"] = q
    BY <1>a, <1>b, <2>3, PutDoes DEF q
  <2> QED
    BY <1>d, <2>1, <2>2, <2>4 DEF W, l
<1>4. CASE Receive
  <2>1. UNCHANGED <<cAcked, sent>>
    BY <1>4 DEF Receive, card
  <2> DEFINE f == Head(q)
  <2>2. /\ q # <<>> /\ line'["toHost"] = Tail(q)
        /\ \/ AtHost' = AtHost
           \/ IsData(f) /\ f.pkt = AtHost + 1 /\ AtHost' = AtHost + 1
    BY <1>4, ReceiveDoes DEF q
  <2>3. CASE AtHost' = AtHost
    <3>1. Packets(Tail(q), cAcked, W, AtHost, l)
      BY <1>c, <1>d, <2>2, PacketsTail
    <3> QED
      BY <2>1, <2>2, <2>3, <3>1 DEF W, l
  <2>4. CASE IsData(f) /\ f.pkt = AtHost + 1 /\ AtHost' = AtHost + 1
    <3>1. cAcked \in Int /\ W \in Int /\ l \in Int
      BY <1>c
    <3>2. Packets(Tail(q), cAcked, W, AtHost + 1, l)
      BY <1>c, <1>d, <2>2, <2>4, <3>1, PacketsTake
    <3> QED
      BY <2>1, <2>2, <2>4, <3>2 DEF W, l
  <2> QED
    BY <2>2, <2>3, <2>4
<1>5. CASE Complete
  <2>1. UNCHANGED <<cAcked, line, sent>>
    BY <1>5 DEF Complete, card
  <2>2. AtHost' = AtHost
    BY <1>5, <1>a, CompleteTaken
  <2> QED
    BY <1>d, <2>1, <2>2 DEF q, W, l
<1>6. CASE CardTakes
  <2>1. sent' = sent
    BY <1>6 DEF CardTakes
  <2>2. /\ line'["toHost"] = q /\ cAcked <= cAcked'
        /\ Taken["toHost"]' = Taken["toHost"]
    BY <1>6, CardTakesDoes DEF q
  <2>3. AtHost' = AtHost
    BY <2>2 DEF AtHost
  <2>4. cAcked' \in Int
    BY <1>b DEF TypeOK
  <2>5. Packets(q, cAcked', W, AtHost, l)
    <3>1. cAcked \in Int /\ W \in Int /\ l \in Int /\ AtHost \in Int /\ l <= l
      BY <1>c
    <3> QED
      BY <1>c, <1>d, <2>2, <2>4, <3>1, PacketsGrow
  <2> QED
    BY <2>1, <2>2, <2>3, <2>5 DEF W, l
<1>7. CASE CardAcks \/ CardConf
  <2>1. UNCHANGED <<cAcked, rx, arrived, sent>>
    BY <1>7 DEF CardAcks, CardConf, card
  <2>2. AtHost' = AtHost
    BY <2>1 DEF AtHost, Taken
  <2>3. PICK k \in {"ack", "conf"} : Put("toHost", Frame(k, 0, CardAwaits, 0))
    BY <1>7 DEF CardAcks, CardConf
  <2> DEFINE f == Frame(k, 0, CardAwaits, 0)
  <2>4. f \in FrameType /\ ~IsData(f)
    <3>1. k \in Kinds /\ k # "data" /\ 0 \in Nat
      BY DEF Kinds
    <3>2. CardAwaits \in 0..(SEQ - 1) /\ 0 \in 0..(SEQ - 1)
      <4>1. 0 \in Int
        OBVIOUS
      <4> QED
        BY <1>a, <4>1, NumberType
    <3>3. f \in FrameType /\ f.kind = k
      BY <3>1, <3>2, FrameIs
    <3> QED
      BY <3>1, <3>3 DEF IsData
  <2>5. line'["toHost"] = Append(q, f)
    BY <1>a, <1>b, <2>3, <2>4, PutDoes DEF q
  <2> HIDE DEF f
  <2>6. Packets(Append(q, f), cAcked, W, AtHost, l)
    BY <1>c, <1>d, <2>4, PacketsOther
  <2> QED
    BY <2>1, <2>2, <2>5, <2>6 DEF W, l
<1>8. CASE CardSends
  <2>1. UNCHANGED <<cAcked, rx, arrived>>
    BY <1>8 DEF CardSends
  <2>2. AtHost' = AtHost
    BY <2>1 DEF AtHost, Taken
  <2>3. PICK p \in Nat :
             /\ cAcked + 1 <= p /\ p <= cAcked + CardWindow
             /\ sent'["toHost"] \in Nat /\ sent["toHost"] <= sent'["toHost"]
             /\ p <= sent'["toHost"]
             /\ Put("toHost", Frame("data", (p - 1) % SEQ, CardAwaits, p))
             /\ Frame("data", (p - 1) % SEQ, CardAwaits, p) \in FrameType
    BY <1>8, <1>a, CardSendsDoes
  <2> DEFINE f == Frame("data", (p - 1) % SEQ, CardAwaits, p)
             k == sent'["toHost"]
  <2>4. f \in FrameType
    BY <2>3
  <2>5. IsData(f) /\ f.pkt = p /\ f.seq = (p - 1) % SEQ
    BY DEF Frame, IsData
  <2>6. line'["toHost"] = Append(q, f)
    BY <1>a, <1>b, <2>3, PutDoes DEF q
  <2>7. k \in Int /\ l <= k /\ p <= k
    BY <2>3 DEF l
  <2>8. cAcked + 1 <= p /\ p <= cAcked + W
    BY <2>3 DEF W
  <2> HIDE DEF f, k
  <2>9. cAcked \in Int /\ W \in Int /\ l \in Int /\ AtHost \in Int /\ cAcked <= cAcked
    BY <1>c
  <2>10. Packets(q, cAcked, W, AtHost, k)
    BY <1>c, <1>d, <2>7, <2>9, PacketsGrow
  <2>11. 1 <= p /\ AtHost <= cAcked + W
    BY <1>c, <1>e, <2>8
  <2>12. f.seq = (f.pkt - 1) % SEQ
    BY <2>5
  <2>13. Packets(Append(q, f), cAcked, W, AtHost, k)
    BY <1>c, <2>4, <2>5, <2>7, <2>8, <2>9, <2>10, <2>11, <2>12, PacketsData
  <2> QED
    BY <2>1, <2>2, <2>6, <2>13 DEF W, k
<1>9. ASSUME NEW m \in Lines, Lose(m)
      PROVE  P
  <2>1. /\ UNCHANGED <<cAcked, rx, arrived, sent>> /\ line[m] # <<>>
        /\ line' = [line EXCEPT ![m] = Tail(@)]
    BY <1>9 DEF Lose, card
  <2>2. AtHost' = AtHost
    BY <2>1 DEF AtHost, Taken
  <2>3. CASE m = "toHost"
    <3>1. line'["toHost"] = Tail(q) /\ q # <<>>
      BY <1>a, <1>b, <2>1, <2>3, TakeDoes DEF q
    <3>2. Packets(Tail(q), cAcked, W, AtHost, l)
      BY <1>c, <1>d, <3>1, PacketsTail
    <3> QED
      BY <2>1, <2>2, <3>1, <3>2 DEF W, l
  <2>4. CASE m # "toHost"
    <3>1. line'["toHost"] = q
      BY <1>a, <1>b, <2>1, <2>4, TakeDoes DEF q
    <3> QED
      BY <1>d, <2>1, <2>2, <3>1 DEF W, l
  <2> QED
    BY <2>3, <2>4
<1> QED
  BY <1>1, <1>2, <1>3, <1>4, <1>5, <1>6, <1>7, <1>8, <1>9 DEF Exchange, W

LEMMA LineStep == IInv /\ Exchange /\ TypeOK' => LineInv'
<1> SUFFICES ASSUME IInv, Exchange, TypeOK' PROVE LineInv'
  OBVIOUS
<1> QED
  BY ToCardStep, ToHostStep DEF LineInv

-----------------------------------------------------------------------------
(* The acknowledgements.                                                   *)
LEMMA BoundsTail ==
    ASSUME NEW q \in Seq(FrameType), q # <<>>, NEW b, NEW u
    PROVE  /\ Ahead(q, b, u) => Ahead(Tail(q), b, u)
           /\ Behind(q, b, u) => Behind(Tail(q), b, u)
BY SeqTail DEF Ahead, Behind

LEMMA AheadAppend ==
    ASSUME NEW q \in Seq(FrameType), NEW f \in FrameType, NEW b, NEW u,
           Ahead(q, b, u), u <= Upto(b, f.ack)
    PROVE  Ahead(Append(q, f), b, u)
<1> DEFINE a == Append(q, f)
<1>1. /\ Len(q) \in Nat /\ Len(a) = Len(q) + 1 /\ a[Len(q) + 1] = f
      /\ \A i \in 1..Len(q) : a[i] = q[i]
  BY SeqAppend
<1> HIDE DEF a
<1>2. \A i \in 1..Len(a) : i \in 1..Len(q) \/ i = Len(q) + 1
  BY <1>1
<1>3. Ahead(a, b, u)
  BY <1>1, <1>2 DEF Ahead
<1> QED
  BY <1>3 DEF a

(* What the card adds acknowledges all that it has.                        *)
LEMMA CardPuts ==
    ASSUME TypeOK, CardInv, CardAcks \/ CardConf \/ CardSends
    PROVE  /\ UNCHANGED <<rel, unack, rx, arrived, tx, cAcked>>
           /\ sent'["toCard"] = sent["toCard"]
           /\ \E f \in FrameType : Put("toHost", f) /\ f.ack = AtCard % SEQ
<1>1. CASE CardAcks \/ CardConf
  <2>1. /\ UNCHANGED <<rel, unack, rx, arrived, tx, cAcked, sent>>
        /\ \E k \in Kinds : Put("toHost", Frame(k, 0, CardAwaits, 0))
    BY <1>1 DEF CardAcks, CardConf, queues, card, Kinds
  <2>2. \A k \in Kinds : /\ Frame(k, 0, CardAwaits, 0) \in FrameType
                         /\ Frame(k, 0, CardAwaits, 0).ack = CardAwaits
    <3>1. 0 \in Int /\ 0 \in Nat
      OBVIOUS
    <3>2. CardAwaits \in 0..(SEQ - 1) /\ 0 \in 0..(SEQ - 1)
      BY <3>1, NumberType
    <3> QED
      BY <3>1, <3>2, FrameIs
  <2> QED
    BY <2>1, <2>2 DEF CardAwaits, AtCard
<1>2. CASE CardSends
  <2>1. UNCHANGED <<rel, unack, rx, arrived, tx, cAcked>>
    BY <1>2 DEF CardSends, queues
  <2>2. PICK p \in Nat :
             /\ sent'["toCard"] = sent["toCard"]
             /\ Put("toHost", Frame("data", (p - 1) % SEQ, CardAwaits, p))
             /\ Frame("data", (p - 1) % SEQ, CardAwaits, p) \in FrameType
    BY <1>2, CardSendsDoes
  <2>3. Frame("data", (p - 1) % SEQ, CardAwaits, p).ack = CardAwaits
    BY DEF Frame
  <2> QED
    BY <2>1, <2>2, <2>3 DEF CardAwaits, AtCard
<1> QED
  BY <1>1, <1>2

(* The acknowledgements the host gets.                                     *)
ToHostAcks ==
    /\ Acks(line["toHost"], Base, AtCard)
    /\ rx # Idle => /\ Upto(Base, rx.ack) <= AtCard
                    /\ Ahead(line["toHost"], Base, Upto(Base, rx.ack))

LEMMA ToHostAcksStep ==
    ASSUME IInv, Exchange, TypeOK'
    PROVE  ToHostAcks'
<1> DEFINE q == line["toHost"]
<1>a. TypeOK /\ HostInv /\ CardInv /\ LineInv /\ AckInv
  BY DEF IInv
<1>b. "toCard" \in Lines /\ "toHost" \in Lines /\ "toCard" # "toHost"
  BY DEF Lines
<1>c. /\ q \in Seq(FrameType) /\ Base \in Nat /\ AtCard \in Nat
      /\ rx # Idle => rx \in FrameType
      /\ Base <= AtCard /\ AtCard < Base + SEQ
  <2>1. q \in Seq(FrameType) /\ Base \in Int /\ AtCard \in Nat
    BY <1>a, Sorts
  <2>2. 0 <= Base /\ Base <= AtCard /\ AtCard <= Base + BCSP_TXWINSIZE
    BY <1>a DEF HostInv
  <2>3. rx # Idle => rx \in FrameType
    BY <1>a DEF TypeOK
  <2> QED
    BY <2>1, <2>2, <2>3, Modulus
<1>d. /\ Acks(q, Base, AtCard)
      /\ rx # Idle => Upto(Base, rx.ack) <= AtCard /\ Ahead(q, Base, Upto(Base, rx.ack))
  BY <1>a DEF AckInv
<1> HIDE DEF q
<1>1. ASSUME Base' = Base, AtCard' = AtCard, line'["toHost"] = q, rx' = rx
      PROVE  ToHostAcks'
  BY <1>d, <1>1 DEF ToHostAcks
<1>2. CASE EnqueueRel
  <2>1. line' = line /\ rx' = rx
    BY <1>2 DEF EnqueueRel
  <2> QED
    BY <1>1, <1>2, <1>a, <2>1, EnqueueHost DEF q
<1>3. CASE EnqueueUnrel \/ (\E kind \in Kinds : Dequeue(kind))
  <2>1. UNCHANGED <<rel, unack, line, sent, arrived, rx>>
    BY <1>3 DEF EnqueueUnrel, Dequeue, queues
  <2>2. Base' = Base /\ AtCard' = AtCard
    BY <2>1 DEF Base, AtCard
  <2> QED
    BY <1>1, <2>1, <2>2 DEF q
<1>4. CASE Transmit
  <2>1. tx \in FrameType /\ Put("toCard", tx) /\ rx' = rx
    BY <1>4, <1>a DEF Transmit, TypeOK
  <2>2. line'["toHost"] = q
    BY <1>a, <1>b, <2>1, PutDoes DEF q
  <2>3. Base' = Base /\ AtCard' = AtCard
    BY <1>4, <1>a, TransmitHost
  <2> QED
    BY <1>1, <2>1, <2>2, <2>3
<1>5. CASE Receive
  <2>1. UNCHANGED <<rel, unack, sent, arrived>>
    BY <1>5 DEF Receive, queues
  <2>2. Base' = Base /\ AtCard' = AtCard
    BY <2>1 DEF Base, AtCard
  <2>3. /\ q # <<>> /\ line'["toHost"] = Tail(q)
        /\ rx' = Idle \/ rx' = Head(q)
    BY <1>5, ReceiveDoes DEF q
  <2>4. /\ Acks(Tail(q), Base, AtCard)
        /\ Ahead(Tail(q), Base, Upto(Base, Head(q).ack))
        /\ Upto(Base, Head(q).ack) <= AtCard
    BY <1>c, <1>d, <2>3, AcksTail
  <2> QED
    BY <2>2, <2>3, <2>4 DEF ToHostAcks
<1>6. CASE Complete
  <2>1. /\ AtCard' = AtCard /\ rx \in FrameType
        /\ Base' = Base + Acked(rx.ack) /\ Acked(rx.ack) \in Nat
        /\ Base' = Base \/ Base' = Upto(Base, rx.ack)
    BY <1>6, <1>a, CompleteHost
  <2>2. line' = line /\ rx' = Idle
    BY <1>6 DEF Complete
  <2>3. Base' \in Nat /\ Base <= Base'
    BY <1>c, <2>1
  <2>4. Acks(q, Base', AtCard)
    <3>1. CASE Base' = Base
      BY <1>d, <3>1
    <3>2. CASE Base' = Upto(Base, rx.ack)
      <4>1. rx # Idle
        BY <1>6 DEF Complete
      <4>2. Ahead(q, Base, Base')
        BY <1>d, <3>2, <4>1
      <4> QED
        BY <1>c, <1>d, <2>3, <4>2, AcksMove
    <3> QED
      BY <2>1, <3>1, <3>2
  <2> QED
    BY <2>1, <2>2, <2>4 DEF ToHostAcks, q
<1>7. CASE TimedEvent
  <2>1. line' = line /\ rx' = rx
    BY <1>7 DEF TimedEvent
  <2> QED
    BY <1>1, <1>7, <1>a, <2>1, TimedHost DEF q
<1>8. CASE CardTakes
  <2>1. Base' = Base /\ AtCard <= AtCard' /\ line'["toHost"] = q /\ rx' = rx
    BY <1>8, CardTakesHost, CardTakesDoes DEF CardTakes, q
  <2>2. AtCard' \in Nat
    <3>1. arrived'["toCard"] \in Seq(Nat)
      BY <1>b DEF TypeOK
    <3> QED
      BY <3>1 DEF AtCard
  <2>3. Acks(q, Base, AtCard')
    BY <1>c, <1>d, <2>1, <2>2, AcksGrow
  <2>4. rx # Idle => Upto(Base, rx.ack) <= AtCard'
    <3>1. rx # Idle => Upto(Base, rx.ack) \in Nat
      BY <1>c, FrameFields, UptoIs
    <3> QED
      BY <1>c, <1>d, <2>1, <2>2, <3>1
  <2> QED
    BY <1>d, <2>1, <2>3, <2>4 DEF ToHostAcks
<1>9. CASE CardAcks \/ CardConf \/ CardSends
  <2>1. UNCHANGED <<rel, unack, rx, arrived>> /\ sent'["toCard"] = sent["toCard"]
    BY <1>9, <1>a, CardPuts
  <2>2. PICK f \in FrameType : Put("toHost", f) /\ f.ack = AtCard % SEQ
    BY <1>9, <1>a, CardPuts
  <2>3. Base' = Base /\ AtCard' = AtCard
    BY <2>1 DEF Base, AtCard
  <2>4. line'["toHost"] = Append(q, f)
    BY <1>a, <1>b, <2>2, PutDoes DEF q
  <2>5. f.ack \in 0..(SEQ - 1)
    BY FrameFields
  <2>6. Upto(Base, f.ack) = AtCard
    BY <1>c, <2>2, <2>5, UptoUnique
  <2>7. Acks(Append(q, f), Base, AtCard)
    <3>1. Upto(Base, f.ack) <= AtCard /\ Behind(q, Base, Upto(Base, f.ack))
      BY <1>c, <1>d, <2>6 DEF Acks
    <3> QED
      BY <1>c, <1>d, <3>1, AcksAppend
  <2>8. rx # Idle => Ahead(Append(q, f), Base, Upto(Base, rx.ack))
    BY <1>c, <1>d, <2>6, AheadAppend
  <2> QED
    BY <1>d, <2>1, <2>3, <2>4, <2>7, <2>8 DEF ToHostAcks
<1>10. ASSUME NEW m \in Lines, Lose(m)
       PROVE  ToHostAcks'
  <2>1. /\ UNCHANGED <<rel, unack, sent, arrived, rx>> /\ line[m] # <<>>
        /\ line' = [line EXCEPT ![m] = Tail(@)]
    BY <1>10 DEF Lose, queues
  <2>2. Base' = Base /\ AtCard' = AtCard
    BY <2>1 DEF Base, AtCard
  <2>3. CASE m = "toHost"
    <3>1. line'["toHost"] = Tail(q) /\ q # <<>>
      BY <1>a, <1>b, <2>1, <2>3, TakeDoes DEF q
    <3>2. Acks(Tail(q), Base, AtCard)
      BY <1>c, <1>d, <3>1, AcksTail
    <3>3. rx # Idle => Ahead(Tail(q), Base, Upto(Base, rx.ack))
      BY <1>c, <1>d, <3>1, BoundsTail
    <3> QED
      BY <1>d, <2>1, <2>2, <3>1, <3>2, <3>3 DEF ToHostAcks
  <2>4. CASE m # "toHost"
    <3>1. line'["toHost"] = q
      BY <1>a, <1>b, <2>1, <2>4, TakeDoes DEF q
    <3> QED
      BY <1>1, <2>1, <2>2, <3>1
  <2> QED
    BY <2>3, <2>4
<1> QED
  BY <1>2, <1>3, <1>4, <1>5, <1>6, <1>7, <1>8, <1>9, <1>10 DEF Exchange

(* The acknowledgements the card gets.                                     *)
ToCardAcks ==
    /\ Acks(line["toCard"], cAcked, AtHost)
    /\ tx # Idle => /\ Upto(cAcked, tx.ack) <= AtHost
                    /\ Behind(line["toCard"], cAcked, Upto(cAcked, tx.ack))

LEMMA ToCardAcksStep ==
    ASSUME IInv, Exchange, TypeOK'
    PROVE  ToCardAcks'
<1> DEFINE q == line["toCard"]
           c == cAcked
<1>a. TypeOK /\ HostInv /\ CardInv /\ LineInv /\ AckInv
  BY DEF IInv
<1>b. "toCard" \in Lines /\ "toHost" \in Lines /\ "toCard" # "toHost"
  BY DEF Lines
<1>c. /\ q \in Seq(FrameType) /\ c \in Nat /\ AtHost \in Nat
      /\ tx # Idle => tx \in FrameType
      /\ c <= AtHost /\ AtHost < c + SEQ
  <2>1. q \in Seq(FrameType) /\ c \in Nat /\ AtHost \in Nat /\ sent["toHost"] \in Nat
    BY <1>a, Sorts, TakenIs
  <2>2. c <= AtHost /\ AtHost <= sent["toHost"] /\ sent["toHost"] <= c + CardWindow
    BY <1>a DEF CardInv
  <2>3. tx # Idle => tx \in FrameType
    BY <1>a DEF TypeOK
  <2> QED
    BY <2>1, <2>2, <2>3, Modulus
<1>d. /\ Acks(q, c, AtHost)
      /\ tx # Idle => Upto(c, tx.ack) <= AtHost /\ Behind(q, c, Upto(c, tx.ack))
  BY <1>a DEF AckInv
<1> HIDE DEF q, c
<1>1. ASSUME cAcked' = c, AtHost' = AtHost, line'["toCard"] = q, tx' = tx
      PROVE  ToCardAcks'
  BY <1>d, <1>1 DEF ToCardAcks
<1>2. CASE EnqueueRel \/ EnqueueUnrel \/ TimedEvent
  <2>1. UNCHANGED <<line, rx, tx, arrived, cAcked>>
    BY <1>2 DEF EnqueueRel, EnqueueUnrel, TimedEvent, card
  <2>2. AtHost' = AtHost
    BY <2>1 DEF AtHost, Taken
  <2> QED
    BY <1>1, <2>1, <2>2 DEF q, c
<1>3. ASSUME NEW kind \in Kinds, Dequeue(kind)
      PROVE  ToCardAcks'
  <2>1. UNCHANGED <<line, rx, arrived, cAcked>>
    BY <1>3 DEF Dequeue, card
  <2>2. AtHost' = AtHost
    BY <2>1 DEF AtHost, Taken
  <2>3. tx' \in FrameType /\ tx'.ack = rxseq_txack
    BY <1>3, <1>a, DequeueData
  <2>4. tx'.ack = AtHost % SEQ /\ tx'.ack \in 0..(SEQ - 1)
    BY <1>a, <2>3, FrameFields DEF CardInv
  <2>5. Upto(c, tx'.ack) = AtHost
    BY <1>c, <2>4, UptoUnique
  <2>6. Upto(c, tx'.ack) <= AtHost /\ Behind(q, c, Upto(c, tx'.ack))
    BY <1>c, <1>d, <2>5 DEF Acks
  <2> QED
    BY <1>d, <2>1, <2>2, <2>6 DEF ToCardAcks, q, c
<1>4. CASE Transmit
  <2>1. tx \in FrameType /\ Put("toCard", tx) /\ tx # Idle
        /\ UNCHANGED <<rx, arrived, cAcked>> /\ tx' = Idle
    BY <1>4, <1>a DEF Transmit, TypeOK, card
  <2>2. line'["toCard"] = Append(q, tx)
    BY <1>a, <1>b, <2>1, PutDoes DEF q
  <2>3. AtHost' = AtHost
    BY <2>1 DEF AtHost, Taken
  <2>4. Acks(Append(q, tx), c, AtHost)
    BY <1>c, <1>d, <2>1, AcksAppend
  <2> QED
    BY <2>1, <2>2, <2>3, <2>4 DEF ToCardAcks, c
<1>5. CASE Receive
  <2>1. UNCHANGED <<cAcked, tx>>
    BY <1>5 DEF Receive, card
  <2>2. line'["toCard"] = q /\ (AtHost' = AtHost \/ AtHost' = AtHost + 1)
    BY <1>5, ReceiveDoes DEF q
  <2>3. AtHost' \in Nat /\ AtHost <= AtHost'
    BY <1>c, <2>2
  <2>4. Acks(q, c, AtHost')
    BY <1>c, <1>d, <2>3, AcksGrow
  <2>5. tx # Idle => Upto(c, tx.ack) <= AtHost'
    <3>1. tx # Idle => Upto(c, tx.ack) \in Nat
      BY <1>c, FrameFields, UptoIs
    <3> QED
      BY <1>c, <1>d, <2>3, <3>1
  <2> QED
    BY <1>d, <2>1, <2>2, <2>4, <2>5 DEF ToCardAcks, c
<1>6. CASE Complete
  <2>1. UNCHANGED <<line, tx, cAcked>>
    BY <1>6 DEF Complete, card
  <2>2. AtHost' = AtHost
    BY <1>6, <1>a, CompleteTaken
  <2> QED
    BY <1>1, <2>1, <2>2 DEF q, c
<1>7. CASE CardTakes
  <2> DEFINE f == Head(q)
             t == Tail(q)
             u == Upto(c, f.ack)
  <2>1. /\ q # <<>> /\ f \in FrameType /\ line'["toCard"] = t
        /\ cAcked' = u /\ Taken["toHost"]' = Taken["toHost"]
    BY <1>7, CardTakesDoes DEF q, c
  <2>2. AtHost' = AtHost
    BY <2>1 DEF AtHost
  <2>3. tx' = tx
    BY <1>7 DEF CardTakes
  <2>4. u \in Nat /\ c <= u
    BY <1>c, <2>1, FrameFields, UptoIs
  <2>5. Acks(t, c, AtHost) /\ Ahead(t, c, u)
    BY <1>c, <1>d, <2>1, AcksTail
  <2>6. t \in Seq(FrameType) /\ f = q[1] /\ 1 \in 1..Len(q)
    BY <1>c, <2>1, SeqTail
  <2> HIDE DEF t, u, f
  <2>7. /\ Acks(t, u, AtHost)
        /\ \A i \in 1..Len(t) : Upto(u, t[i].ack) = Upto(c, t[i].ack)
    BY <1>c, <2>4, <2>5, <2>6, AcksMove
  <2>8. ASSUME tx # Idle
        PROVE  Upto(u, tx.ack) <= AtHost /\ Behind(t, u, Upto(u, tx.ack))
    <3>1. Behind(q, c, Upto(c, tx.ack)) /\ Upto(c, tx.ack) <= AtHost
      BY <1>d, <2>8
    <3>2. u <= Upto(c, tx.ack)
      BY <2>6, <3>1 DEF Behind, u
    <3>3. tx.ack \in 0..(SEQ - 1)
      BY <1>c, <2>8, FrameFields
    <3>4. Upto(u, tx.ack) = Upto(c, tx.ack)
      BY <1>c, <2>4, <3>2, <3>3, UptoMoves
    <3>5. Behind(t, c, Upto(c, tx.ack))
      BY <1>c, <2>1, <3>1, BoundsTail DEF t
    <3>6. Behind(t, u, Upto(c, tx.ack))
      BY <2>7, <3>5 DEF Behind
    <3> QED
      BY <3>1, <3>4, <3>6
  <2> QED
    BY <2>1, <2>2, <2>3, <2>7, <2>8 DEF ToCardAcks
<1>8. CASE CardAcks \/ CardConf \/ CardSends
  <2>1. UNCHANGED <<rx, arrived, tx, cAcked>>
    BY <1>8, <1>a, CardPuts
  <2>2. PICK f \in FrameType : Put("toHost", f)
    BY <1>8, <1>a, CardPuts
  <2>3. AtHost' = AtHost
    BY <2>1 DEF AtHost, Taken
  <2>4. line'["toCard"] = q
    BY <1>a, <1>b, <2>2, PutDoes DEF q
  <2> QED
    BY <1>1, <2>1, <2>3, <2>4 DEF c
<1>9. ASSUME NEW m \in Lines, Lose(m)
      PROVE  ToCardAcks'
  <2>1. /\ UNCHANGED <<tx, arrived, rx, cAcked>> /\ line[m] # <<>>
        /\ line' = [line EXCEPT ![m] = Tail(@)]
    BY <1>9 DEF Lose, card
  <2>2. AtHost' = AtHost
    BY <2>1 DEF AtHost, Taken
  <2>3. CASE m = "toCard"
    <3>1. line'["toCard"] = Tail(q) /\ q # <<>>
      BY <1>a, <1>b, <2>1, <2>3, TakeDoes DEF q
    <3>2. Acks(Tail(q), c, AtHost)
      BY <1>c, <1>d, <3>1, AcksTail
    <3>3. tx # Idle => Behind(Tail(q), c, Upto(c, tx.ack))
      BY <1>c, <1>d, <3>1, BoundsTail
    <3> QED
      BY <1>d, <2>1, <2>2, <3>1, <3>2, <3>3 DEF ToCardAcks, c
  <2>4. CASE m # "toCard"
    <3>1. line'["toCard"] = q
      BY <1>a, <1>b, <2>1, <2>4, TakeDoes DEF q
    <3> QED
      BY <1>1, <2>1, <2>2, <3>1 DEF c
  <2> QED
    BY <2>3, <2>4
<1> QED
  BY <1>2, <1>3, <1>4, <1>5, <1>6, <1>7, <1>8, <1>9 DEF Exchange

LEMMA AckStep == IInv /\ Exchange /\ TypeOK' => AckInv'
<1> SUFFICES ASSUME IInv, Exchange, TypeOK' PROVE AckInv'
  OBVIOUS
<1> QED
  BY ToHostAcksStep, ToCardAcksStep DEF AckInv, ToHostAcks, ToCardAcks

-----------------------------------------------------------------------------
(* The timer.                                                              *)
LEMMA TimerStep == IInv /\ Exchange => TimerRuns'
<1> SUFFICES ASSUME IInv, Exchange PROVE TimerRuns'
  OBVIOUS
<1>a. TypeOK /\ HostInv /\ AckInv /\ TimerRuns
  BY DEF IInv
<1>1. CASE Transmit
  <2>1. CASE tx.kind = "data"
    BY <1>1, <2>1 DEF Transmit, StartTimer, TimerRuns
  <2>2. CASE tx.kind # "data"
    BY <1>1, <1>a, <2>2 DEF Transmit, queues, TimerRuns
  <2> QED
    BY <2>1, <2>2
<1>2. CASE Complete
  <2>1. timer' = (timer /\ unack' # <<>>) /\ unack' = SubSeq(unack, Acked(rx.ack) + 1, Len(unack))
    BY <1>2 DEF Complete, StopTimer
  <2>2. unack' # <<>> => unack # <<>>
    <3> SUFFICES ASSUME unack = <<>>
                 PROVE  unack' = <<>>
      OBVIOUS
    <3>1. rx.ack \in 0..(SEQ - 1)
      BY <1>2, <1>a, FrameFields, CompleteHost
    <3>2. unack \in Seq(Nat) /\ Acked(rx.ack) \in 0..Len(unack)
      BY <1>a, <3>1, Sorts, AckedIs
    <3>3. Len(unack) = 0
      OBVIOUS
    <3>4. unack' \in Seq(Nat) /\ Len(unack') = 0
      BY <2>1, <3>2, <3>3, SeqDrop
    <3> QED
      BY <3>4
  <2> QED
    BY <1>a, <2>1, <2>2 DEF TimerRuns
<1>3. CASE TimedEvent
  BY <1>3 DEF TimedEvent, TimerRuns
<1>4. CASE \/ EnqueueRel \/ EnqueueUnrel \/ (\E kind \in Kinds : Dequeue(kind)) \/ Receive
           \/ CardTakes \/ CardAcks \/ CardSends \/ CardConf \/ (\E l \in Lines : Lose(l))
  <2>1. UNCHANGED <<unack, timer>>
    BY <1>4 DEF EnqueueRel, EnqueueUnrel, Dequeue, Receive, CardTakes, CardAcks, CardSends,
                CardConf, Lose, queues
  <2> QED
    BY <1>a, <2>1 DEF TimerRuns
<1> QED
  BY <1>1, <1>2, <1>3, <1>4 DEF Exchange

LEMMA InitInv == Init => IInv
<1> SUFFICES ASSUME Init PROVE IInv
  OBVIOUS
<1>a. "toCard" \in Lines /\ "toHost" \in Lines
  BY DEF Lines
<1>1. /\ rel = <<>> /\ unack = <<>> /\ tx = Idle /\ rx = Idle /\ cAcked = 0
      /\ msgq_txseq = 0 /\ rxseq_txack = 0
      /\ sent["toCard"] = 0 /\ sent["toHost"] = 0
      /\ arrived["toCard"] = <<>> /\ arrived["toHost"] = <<>>
      /\ line["toCard"] = <<>> /\ line["toHost"] = <<>>
      /\ Len(<<>>) = 0
  BY <1>a DEF Init
<1>2. TypeOK
  <2>1. /\ rel \in Seq(1..HostPkts) /\ unack \in Seq(1..HostPkts)
        /\ unrel \in Seq({"sco", "rsp"})
    BY DEF Init
  <2>2. 0 \in 0..(SEQ - 1) /\ 0 <= BCSP_TXWINSIZE
    BY Modulus
  <2>3. txack_req \in BOOLEAN /\ timer \in BOOLEAN /\ cOwes \in BOOLEAN
    BY DEF Init
  <2>4. line \in [Lines -> Seq(FrameType)] /\ arrived \in [Lines -> Seq(Nat)]
        /\ sent \in [Lines -> Nat]
    BY DEF Init
  <2>5. \A l \in Lines : Len(line[l]) <= LineCap
    BY <1>1, BoundsAssumption DEF Init
  <2>6. unrelLeft \in 0..MaxUnrel /\ cAcked \in 0..sent["toHost"]
    BY <1>1, BoundsAssumption DEF Init
  <2>7. sent["toCard"] <= HostPkts /\ sent["toHost"] <= CardPkts
    BY <1>1, BoundsAssumption
  <2> QED
    BY <1>1, <2>1, <2>2, <2>3, <2>4, <2>5, <2>6, <2>7 DEF Init, TypeOK
<1>3. Base = 0 /\ AtCard = 0 /\ AtHost = 0
  <2>1. Len(rel) = 0 /\ Len(unack) = 0 /\ sent["toCard"] = 0
    BY <1>1
  <2>2. Base = 0
    BY <2>1 DEF Base
  <2>3. AtCard = 0
    BY <1>1 DEF AtCard
  <2>4. Taken = arrived
    BY <1>1 DEF Taken
  <2>5. AtHost = 0
    BY <1>1, <2>4 DEF AtHost
  <2> QED
    BY <2>2, <2>3, <2>5
<1>4. 0 % SEQ = 0
  <2>1. 0 \in 0..(SEQ - 1)
    BY Modulus
  <2> QED
    BY <2>1, Modulus, ModSmall
<1>5. TimerRuns
  BY <1>1 DEF TimerRuns
<1>6. HostInv
  <2>1. /\ 0 <= Base /\ Base <= AtCard
        /\ AtCard <= sent["toCard"] /\ AtCard <= Base + BCSP_TXWINSIZE
    BY <1>1, <1>3, Modulus
  <2>2. /\ \A i \in 1..Len(unack) : unack[i] = Base + i
        /\ \A i \in 1..Len(rel) : rel[i] = Base + Len(unack) + i
        /\ \A i \in 1..AtCard : arrived["toCard"][i] = i
    BY <1>1, <1>3
  <2>3. msgq_txseq = (Base + Len(unack)) % SEQ
    <3>1. Base + Len(unack) = 0
      BY <1>1, <1>3
    <3> QED
      BY <1>1, <1>4, <3>1
  <2>4. ~UnackLocked /\ ~(tx # Idle)
    BY <1>1 DEF UnackLocked
  <2> QED
    BY <2>1, <2>2, <2>3, <2>4 DEF HostInv
<1>7. CardInv
  <2>1. /\ cAcked <= AtHost /\ AtHost <= sent["toHost"]
        /\ sent["toHost"] <= cAcked + CardWindow
    BY <1>1, <1>3, Modulus
  <2>2. rxseq_txack = AtHost % SEQ
    BY <1>1, <1>3, <1>4
  <2>3. \A i \in 1..AtHost : Taken["toHost"][i] = i
    BY <1>3
  <2> QED
    BY <2>1, <2>2, <2>3 DEF CardInv
<1>8. LineInv
  BY <1>1 DEF LineInv, Packets
<1>9. AckInv
  BY <1>1 DEF AckInv, Acks, Behind
<1> QED
  BY <1>2, <1>5, <1>6, <1>7, <1>8, <1>9 DEF IInv

LEMMA InvStep == IInv /\ [Next]_vars => IInv'
<1> SUFFICES ASSUME IInv, [Next]_vars PROVE IInv'
  OBVIOUS
<1>1. CASE Exchange
  <2>1. TypeOK'
    BY <1>1, TypeStep
  <2>2. TimerRuns'
    BY <1>1, TimerStep
  <2>3. HostInv' /\ CardInv' /\ LineInv' /\ AckInv'
    BY <1>1, <2>1, HostStep, CardStep, LineStep, AckStep
  <2> QED
    BY <2>1, <2>2, <2>3 DEF IInv
<1>2. CASE (Next /\ ~Exchange) \/ UNCHANGED vars
  <2>1. UNCHANGED <<rel, unack, msgq_txseq, unrel, rxseq_txack, txack_req, timer, tx, rx,
                    line, cAcked, cOwes, sent, arrived, unrelLeft>>
    BY <1>2, LoopOnly DEF vars, queues, card
  <2>2. UNCHANGED <<Base, AtCard, AtHost, Taken, UnackLocked>> /\ (Room("toCard") <=> Room("toCard")')
    BY <2>1 DEF Base, AtCard, AtHost, Taken, UnackLocked, Room
  <2>3. TypeOK'
    <3>1. SenderOK'
      BY <1>2, SenderTyped DEF IInv, TypeOK, SenderOK, vars, sender
    <3> QED
      BY <2>1, <3>1 DEF IInv, TypeOK, SenderOK
  <2>4. TimerRuns'
    BY <2>1 DEF IInv, TimerRuns
  <2>5. HostInv'
    BY <2>1, <2>2 DEF IInv, HostInv
  <2>6. CardInv'
    BY <2>1, <2>2 DEF IInv, CardInv
  <2>7. LineInv'
    BY <2>1, <2>2 DEF IInv, LineInv
  <2>8. AckInv'
    BY <2>1, <2>2 DEF IInv, AckInv
  <2> QED
    BY <2>3, <2>4, <2>5, <2>6, <2>7, <2>8 DEF IInv
<1> QED
  BY <1>1, <1>2

-----------------------------------------------------------------------------
(* The invariant: the host's queues and numbers are those of the packets   *)
(* that wait, what came out is 1, 2, ... on both sides, and no frame on    *)
(* the way is old enough to be taken for another, whatever the line loses  *)
(* and the timer sends again.                                              *)
THEOREM Invariance == Spec => []IInv
<1>1. Init => IInv
  BY InitInv
<1>2. IInv /\ [Next]_vars => IInv'
  BY InvStep
<1> QED
  BY <1>1, <1>2, PTL DEF Spec

(* A packet that waits for its acknowledgement has a timer that will send  *)
(* it again: bcsp_dequeue, bcsp_pkt_cull and bcsp_timed_event never leave  *)
(* one behind without.                                                     *)
THEOREM TimerAlwaysRuns == Spec => []TimerRuns
<1>1. IInv => TimerRuns
  BY DEF IInv
<1> QED
  BY Invariance, <1>1, PTL

-----------------------------------------------------------------------------
(* What the two ends promise.  Two functions on the lines are one if they  *)
(* agree on both.                                                          *)
LEMMA TwoLines ==
    ASSUME NEW S, NEW T, NEW f \in [Lines -> S], NEW g \in [Lines -> T],
           f["toCard"] = g["toCard"], f["toHost"] = g["toHost"]
    PROVE  f = g
BY DEF Lines

LEMMA TakenType ==
    ASSUME NEW a \in [Lines -> Seq(Nat)], NEW r \in FrameType \cup {Idle},
           NEW t, t = IF r # Idle /\ r.kind = "data"
                      THEN [a EXCEPT !["toHost"] = Append(@, r.pkt)] ELSE a
    PROVE  t \in [Lines -> Seq(Nat)]
<1>1. "toHost" \in Lines
  BY DEF Lines
<1>2. CASE r # Idle /\ r.kind = "data"
  <2>1. r.pkt \in Nat
    BY <1>2, FrameFields
  <2>2. Append(a["toHost"], r.pkt) \in Seq(Nat)
    BY <1>1, <2>1
  <2> QED
    BY <1>2, <2>2
<1> QED
  BY <1>2

(* How the mapping's variables move.                                       *)
LEMMA Mapping ==
    ASSUME TypeOK, TypeOK'
    PROVE  /\ Taken \in [Lines -> Seq(Nat)] /\ Taken' \in [Lines -> Seq(Nat)]
           /\ Taken["toCard"] = arrived["toCard"] /\ Taken'["toCard"] = arrived'["toCard"]
           /\ Forgotten \in [Lines -> Int] /\ Forgotten' \in [Lines -> Int]
           /\ Forgotten["toCard"] = Base /\ Forgotten["toHost"] = cAcked
           /\ Forgotten'["toCard"] = Base' /\ Forgotten'["toHost"] = cAcked'
<1>a. "toCard" \in Lines /\ "toHost" \in Lines /\ "toCard" # "toHost"
      /\ \A l \in Lines : l = "toCard" \/ l = "toHost"
  BY DEF Lines
<1>1. /\ arrived \in [Lines -> Seq(Nat)] /\ rx \in FrameType \cup {Idle}
      /\ arrived' \in [Lines -> Seq(Nat)] /\ rx' \in FrameType \cup {Idle}
  BY DEF TypeOK
<1>2. Taken = IF rx # Idle /\ rx.kind = "data"
              THEN [arrived EXCEPT !["toHost"] = Append(@, rx.pkt)] ELSE arrived
  BY DEF Taken
<1>3. Taken' = IF rx' # Idle /\ rx'.kind = "data"
               THEN [arrived' EXCEPT !["toHost"] = Append(@, rx'.pkt)] ELSE arrived'
  BY DEF Taken
<1>4. Taken \in [Lines -> Seq(Nat)] /\ Taken["toCard"] = arrived["toCard"]
  BY <1>1, <1>2, TakenType, TakenBy
<1>5. Taken' \in [Lines -> Seq(Nat)] /\ Taken'["toCard"] = arrived'["toCard"]
  BY <1>1, <1>3, TakenType, TakenBy
<1>6. Base \in Int /\ cAcked \in Int
  BY Sorts
<1>7. Base' \in Int /\ cAcked' \in Int
  <2>1. /\ sent' \in [Lines -> Nat] /\ rel' \in Seq(1..HostPkts)
        /\ unack' \in Seq(1..HostPkts) /\ cAcked' \in 0..sent'["toHost"]
    BY DEF TypeOK
  <2>2. sent'["toCard"] \in Nat /\ sent'["toHost"] \in Nat
        /\ Len(rel') \in Nat /\ Len(unack') \in Nat
    BY <1>a, <2>1
  <2> QED
    BY <2>1, <2>2 DEF Base
<1>8. /\ Forgotten \in [Lines -> Int]
      /\ Forgotten["toCard"] = Base /\ Forgotten["toHost"] = cAcked
  <2>1. Forgotten["toCard"] = Base /\ Forgotten["toHost"] = cAcked
    BY <1>a DEF Forgotten, Base
  <2>2. \A l \in Lines : Forgotten[l] \in Int
    BY <1>a, <1>6, <2>1
  <2>3. Forgotten = [l \in Lines |-> Forgotten[l]]
    BY DEF Forgotten
  <2> QED
    BY <2>1, <2>2, <2>3
<1>9. /\ Forgotten' \in [Lines -> Int]
      /\ Forgotten'["toCard"] = Base' /\ Forgotten'["toHost"] = cAcked'
  <2>1. Forgotten'["toCard"] = Base' /\ Forgotten'["toHost"] = cAcked'
    BY <1>a DEF Forgotten, Base
  <2>2. \A l \in Lines : Forgotten'[l] \in Int
    BY <1>a, <1>7, <2>1
  <2>3. Forgotten' = [l \in Lines |-> Forgotten'[l]]
    BY DEF Forgotten
  <2> QED
    BY <2>1, <2>2, <2>3
<1> QED
  BY <1>4, <1>5, <1>8, <1>9

(* The steps of the link, for each kind of change.                         *)
LEMMA SendServes ==
    ASSUME NEW l \in Lines, sent' = [sent EXCEPT ![l] = @ + 1],
           Taken' = Taken, Forgotten' = Forgotten
    PROVE  Link!Next
<1>1. Link!Send(l)
  BY DEF Link!Send
<1> QED
  BY <1>1 DEF Link!Next

LEMMA ArriveServes ==
    ASSUME NEW l \in Lines, Len(Taken[l]) < sent[l], sent' = sent,
           Taken' = [Taken EXCEPT ![l] = Append(@, Len(@) + 1)],
           Forgotten' = Forgotten
    PROVE  Link!Next
<1>1. Link!Arrive(l)
  BY DEF Link!Arrive
<1> QED
  BY <1>1 DEF Link!Next

LEMMA ForgetServes ==
    ASSUME NEW l \in Lines, NEW n \in Forgotten[l] + 1 .. Len(Taken[l]), sent' = sent,
           Taken' = Taken, Forgotten' = [Forgotten EXCEPT ![l] = n]
    PROVE  Link!Next
<1>1. Link!Forget(l)
  BY DEF Link!Forget
<1> QED
  BY <1>1 DEF Link!Next

LEMMA BothServe ==
    ASSUME NEW l \in Lines, NEW m \in Lines, l # m, sent' = sent,
           Len(Taken[l]) < sent[l],
           Taken' = [Taken EXCEPT ![l] = Append(@, Len(@) + 1)],
           NEW n \in Forgotten[m] + 1 .. Len(Taken[m]),
           Forgotten' = [Forgotten EXCEPT ![m] = n]
    PROVE  Link!Next
<1>1. Link!Arrive(l)
  BY DEF Link!Arrive
<1>2. Link!Forget(m)
  BY DEF Link!Forget
<1> QED
  BY <1>1, <1>2 DEF Link!Next

(* Every step of the two ends is one of the link, or none.                 *)
LEMMA LinkStep ==
    ASSUME IInv, IInv', Exchange
    PROVE  [Link!Next]_(Link!link)
<1>a. TypeOK /\ TypeOK' /\ HostInv /\ CardInv /\ AckInv /\ HostInv' /\ CardInv'
  BY DEF IInv
<1>b. "toCard" \in Lines /\ "toHost" \in Lines /\ "toCard" # "toHost"
  BY DEF Lines
<1>c. /\ Taken \in [Lines -> Seq(Nat)] /\ Taken' \in [Lines -> Seq(Nat)]
      /\ Taken["toCard"] = arrived["toCard"] /\ Taken'["toCard"] = arrived'["toCard"]
      /\ Forgotten \in [Lines -> Int] /\ Forgotten' \in [Lines -> Int]
      /\ Forgotten["toCard"] = Base /\ Forgotten["toHost"] = cAcked
      /\ Forgotten'["toCard"] = Base' /\ Forgotten'["toHost"] = cAcked'
  BY <1>a, Mapping
<1>d. /\ Len(Taken["toHost"]) = AtHost /\ Len(Taken["toCard"]) = AtCard
      /\ AtHost \in Nat /\ AtCard \in Nat /\ Base \in Int /\ cAcked \in Nat
      /\ sent["toHost"] \in Nat /\ sent \in [Lines -> Nat]
      /\ arrived \in [Lines -> Seq(Nat)]
  BY <1>a, <1>c, Sorts, TakenIs DEF AtHost, AtCard, TypeOK
<1>1. ASSUME Base' = Base, cAcked' = cAcked
      PROVE  Forgotten' = Forgotten
  BY <1>c, <1>1, TwoLines
<1>2. ASSUME UNCHANGED <<rx, arrived>>
      PROVE  Taken' = Taken
  BY <1>2 DEF Taken
<1>3. ASSUME Taken["toHost"]' = Taken["toHost"], arrived'["toCard"] = arrived["toCard"]
      PROVE  Taken' = Taken
  BY <1>c, <1>3, TwoLines
<1>4. CASE EnqueueRel
  <2>1. UNCHANGED <<rx, arrived, cAcked>>
    BY <1>4 DEF EnqueueRel, card
  <2>2. Base' = Base
    BY <1>4, <1>a, EnqueueHost
  <2>3. sent' = [sent EXCEPT !["toCard"] = @ + 1]
    BY <1>4 DEF EnqueueRel
  <2> QED
    BY <1>b, <1>1, <1>2, <2>1, <2>2, <2>3, SendServes
<1>5. CASE \/ EnqueueUnrel \/ Transmit \/ TimedEvent \/ CardAcks \/ CardConf
           \/ (\E kind \in Kinds : Dequeue(kind)) \/ (\E l \in Lines : Lose(l))
  <2>1. UNCHANGED <<rx, arrived, cAcked, sent>>
    BY <1>5 DEF EnqueueUnrel, Transmit, TimedEvent, CardAcks, CardConf, Dequeue, Lose, card
  <2>2. Base' = Base
    <3>1. CASE Transmit
      BY <3>1, <1>a, TransmitHost
    <3>2. CASE TimedEvent
      BY <3>2, <1>a, TimedHost
    <3>3. CASE \/ EnqueueUnrel \/ CardAcks \/ CardConf
               \/ (\E kind \in Kinds : Dequeue(kind)) \/ (\E l \in Lines : Lose(l))
      <4>1. UNCHANGED <<rel, unack, sent>>
        BY <3>3 DEF EnqueueUnrel, CardAcks, CardConf, Dequeue, Lose, queues
      <4> QED
        BY <4>1 DEF Base
    <3> QED
      BY <1>5, <3>1, <3>2, <3>3
  <2>3. Taken' = Taken /\ Forgotten' = Forgotten /\ sent' = sent
    BY <1>1, <1>2, <2>1, <2>2
  <2> QED
    BY <2>3 DEF Link!link
<1>6. CASE Receive
  <2>1. UNCHANGED <<rel, unack, sent, arrived, cAcked>>
    BY <1>6 DEF Receive, queues, card
  <2>2. Forgotten' = Forgotten
    BY <1>1, <2>1 DEF Base
  <2>3. CASE Taken["toHost"]' = Taken["toHost"]
    <3>1. Taken' = Taken
      BY <1>3, <2>1, <2>3
    <3> QED
      BY <2>1, <2>2, <3>1 DEF Link!link
  <2>4. CASE /\ Taken["toHost"]' = Append(Taken["toHost"], AtHost + 1)
             /\ AtHost + 1 <= sent["toHost"]
    <3> DEFINE t == [Taken EXCEPT !["toHost"] = Append(@, Len(@) + 1)]
    <3>1. AtHost + 1 \in Nat /\ Taken["toHost"] \in Seq(Nat)
      BY <1>b, <1>c, <1>d
    <3>2. /\ Append(Taken["toHost"], AtHost + 1) \in Seq(Nat)
          /\ t = [Taken EXCEPT !["toHost"] = Append(Taken["toHost"], AtHost + 1)]
      BY <1>d, <3>1
    <3>3. /\ t \in [Lines -> Seq(Nat)] /\ t["toCard"] = Taken["toCard"]
          /\ t["toHost"] = Append(Taken["toHost"], AtHost + 1)
      BY <1>b, <1>c, <3>2
    <3> HIDE DEF t
    <3>4. Taken' = t
      BY <1>c, <2>1, <2>4, <3>3, TwoLines
    <3>5. Len(Taken["toHost"]) < sent["toHost"]
      BY <1>d, <2>4
    <3> QED
      BY <1>b, <2>1, <2>2, <3>4, <3>5, ArriveServes DEF t
  <2> QED
    BY <1>6, <1>a, <2>3, <2>4, ReceiveDoes
<1>7. CASE Complete
  <2>1. UNCHANGED <<sent, cAcked>>
    BY <1>7 DEF Complete, card
  <2>2. /\ AtCard' = AtCard /\ Base' = Base + Acked(rx.ack) /\ Acked(rx.ack) \in Nat
    BY <1>7, <1>a, CompleteHost
  <2>3. arrived'["toCard"] = arrived["toCard"]
    <3>1. \/ arrived' = [arrived EXCEPT !["toHost"] = Append(@, rx.pkt)]
          \/ arrived' = arrived
      BY <1>7 DEF Complete
    <3> QED
      BY <1>b, <1>d, <3>1
  <2>4. Taken' = Taken
    BY <1>3, <1>7, <1>a, <2>3, CompleteTaken
  <2>5. CASE Base' = Base
    BY <1>1, <2>1, <2>4, <2>5 DEF Link!link
  <2>6. CASE Base' # Base
    <3> DEFINE n == Base'
               g == [Forgotten EXCEPT !["toCard"] = n]
    <3>1. n <= AtCard
      BY <1>a, <2>2 DEF HostInv
    <3>2. n \in Int /\ Base + 1 <= n
      BY <1>d, <2>2, <2>6
    <3> HIDE DEF n
    <3>3. n \in Forgotten["toCard"] + 1 .. Len(Taken["toCard"])
      BY <1>c, <1>d, <3>1, <3>2
    <3>4. /\ g \in [Lines -> Int] /\ g["toCard"] = n
          /\ g["toHost"] = Forgotten["toHost"]
      BY <1>b, <1>c, <3>2
    <3> HIDE DEF g
    <3>5. Forgotten' = g
      BY <1>c, <2>1, <3>4, TwoLines DEF n
    <3> QED
      BY <1>b, <2>1, <2>4, <3>3, <3>5, ForgetServes DEF g
  <2> QED
    BY <2>5, <2>6
<1>8. CASE CardTakes
  <2> DEFINE n == cAcked'
             g == [Forgotten EXCEPT !["toHost"] = n]
             t == [Taken EXCEPT !["toCard"] = Append(@, Len(@) + 1)]
  <2>1. sent' = sent
    BY <1>8 DEF CardTakes
  <2>2. /\ cAcked <= n /\ n <= AtHost /\ Base' = Base
        /\ Taken["toHost"]' = Taken["toHost"]
        /\ \/ arrived' = arrived
           \/ /\ AtCard + 1 <= sent["toCard"]
              /\ arrived' = [arrived EXCEPT !["toCard"] = Append(@, AtCard + 1)]
    BY <1>8, <1>a, CardTakesDoes
  <2>3. n \in Int
    BY <1>a DEF TypeOK
  <2>4. n = cAcked \/ n \in Forgotten["toHost"] + 1 .. Len(Taken["toHost"])
    BY <1>c, <1>d, <2>2, <2>3
  <2>5. Forgotten' = g
    <3>1. /\ g \in [Lines -> Int] /\ g["toHost"] = n
          /\ g["toCard"] = Forgotten["toCard"]
      BY <1>b, <1>c, <2>3
    <3> HIDE DEF g
    <3> QED
      BY <1>c, <2>2, <3>1, TwoLines
  <2>6. n = cAcked => Forgotten' = Forgotten
    BY <1>1, <2>2
  <2>7. CASE arrived' = arrived
    <3>1. Taken' = Taken
      BY <1>3, <2>2, <2>7
    <3>2. CASE n = cAcked
      BY <2>1, <2>6, <3>1, <3>2 DEF Link!link
    <3>3. CASE n \in Forgotten["toHost"] + 1 .. Len(Taken["toHost"])
      <4> HIDE DEF n
      <4> QED
        BY <1>b, <2>1, <2>5, <3>1, <3>3, ForgetServes
    <3> QED
      BY <2>4, <3>2, <3>3
  <2>8. CASE /\ AtCard + 1 <= sent["toCard"]
             /\ arrived' = [arrived EXCEPT !["toCard"] = Append(@, AtCard + 1)]
    <3>1. AtCard + 1 \in Nat /\ Taken["toCard"] \in Seq(Nat)
      BY <1>b, <1>c, <1>d
    <3>2. /\ Append(Taken["toCard"], AtCard + 1) \in Seq(Nat)
          /\ t = [Taken EXCEPT !["toCard"] = Append(Taken["toCard"], AtCard + 1)]
      BY <1>d, <3>1
    <3>3. /\ t \in [Lines -> Seq(Nat)] /\ t["toHost"] = Taken["toHost"]
          /\ t["toCard"] = Append(Taken["toCard"], AtCard + 1)
      BY <1>b, <1>c, <3>2
    <3>4. arrived'["toCard"] = Append(arrived["toCard"], AtCard + 1)
      BY <1>b, <1>d, <2>8
    <3> HIDE DEF t
    <3>5. Taken' = t
      BY <1>c, <2>2, <3>3, <3>4, TwoLines
    <3>6. Len(Taken["toCard"]) < sent["toCard"]
      <4>1. sent["toCard"] \in Nat
        BY <1>b, <1>d
      <4> QED
        BY <1>d, <2>8, <4>1
    <3>7. CASE n = cAcked
      BY <1>b, <2>1, <2>6, <3>5, <3>6, <3>7, ArriveServes DEF t
    <3>8. CASE n \in Forgotten["toHost"] + 1 .. Len(Taken["toHost"])
      <4> HIDE DEF n
      <4>1. Taken' = [Taken EXCEPT !["toCard"] = Append(@, Len(@) + 1)]
        BY <3>5 DEF t
      <4>2. Forgotten' = [Forgotten EXCEPT !["toHost"] = n]
        BY <2>5
      <4> HIDE DEF g
      <4> QED
        BY <1>b, <2>1, <3>6, <3>8, <4>1, <4>2, BothServe
    <3> QED
      BY <2>4, <3>7, <3>8
  <2> QED
    BY <2>2, <2>7, <2>8
<1>9. CASE CardSends
  <2>1. UNCHANGED <<rel, unack, rx, arrived, cAcked>>
    BY <1>9 DEF CardSends, queues
  <2>2. /\ sent'["toHost"] \in Nat /\ sent["toHost"] <= sent'["toHost"]
        /\ sent'["toHost"] <= sent["toHost"] + 1
        /\ sent' = [sent EXCEPT !["toHost"] = sent'["toHost"]]
        /\ sent'["toCard"] = sent["toCard"]
    BY <1>9, <1>a, CardSendsDoes
  <2>3. Base' = Base
    BY <2>1, <2>2 DEF Base
  <2>4. Taken' = Taken /\ Forgotten' = Forgotten
    BY <1>1, <1>2, <2>1, <2>3
  <2>5. CASE sent'["toHost"] = sent["toHost"]
    <3>1. sent' \in [Lines -> Nat]
      BY <1>a DEF TypeOK
    <3>2. sent' = sent
      BY <1>d, <2>2, <2>5, <3>1, TwoLines
    <3> QED
      BY <2>4, <3>2 DEF Link!link
  <2>6. CASE sent'["toHost"] = sent["toHost"] + 1
    <3>1. sent' = [sent EXCEPT !["toHost"] = sent["toHost"] + 1]
      BY <2>2, <2>6
    <3>2. sent' = [sent EXCEPT !["toHost"] = @ + 1]
      BY <1>b, <1>d, <3>1
    <3> QED
      BY <1>b, <2>4, <3>2, SendServes
  <2>7. sent'["toHost"] = sent["toHost"] \/ sent'["toHost"] = sent["toHost"] + 1
    BY <1>d, <2>2
  <2> QED
    BY <2>5, <2>6, <2>7
<1> QED
  BY <1>4, <1>5, <1>6, <1>7, <1>8, <1>9 DEF Exchange

(* The link delivers in both directions what it was given, once and in     *)
(* order, and neither end gives up a packet that has not arrived, whatever *)
(* frames the line loses and however often the timer sends them again.     *)
THEOREM DeliversInOrder == Spec => ImplementsLink
<1>1. Init => Link!Init
  <2> SUFFICES ASSUME Init PROVE Link!Init
    OBVIOUS
  <2>1. Taken = arrived
    BY DEF Init, Taken
  <2>2. Forgotten = [l \in Lines |-> 0]
    <3>1. \A l \in Lines : sent[l] = 0 /\ cAcked = 0 /\ Len(rel) = 0 /\ Len(unack) = 0
      BY DEF Init
    <3>2. \A l \in Lines : (IF l = "toHost" THEN cAcked
                            ELSE sent[l] - Len(rel) - Len(unack)) = 0
      BY <3>1
    <3> QED
      BY <3>2 DEF Forgotten
  <2> QED
    BY <2>1, <2>2 DEF Init, Link!Init
<1>2. IInv /\ IInv' /\ [Next]_vars => [Link!Next]_(Link!link)
  <2>1. ASSUME IInv, IInv', Exchange
        PROVE  [Link!Next]_(Link!link)
    BY <2>1, LinkStep
  <2>2. ASSUME (Next /\ ~Exchange) \/ UNCHANGED vars
        PROVE  UNCHANGED Link!link
    <3>1. UNCHANGED <<rel, unack, rx, cAcked, sent, arrived>>
      BY <2>2, LoopOnly DEF vars, queues, card
    <3>2. Taken' = Taken /\ Forgotten' = Forgotten
      BY <3>1 DEF Taken, Forgotten
    <3> QED
      BY <3>1, <3>2 DEF Link!link
  <2> QED
    BY <2>1, <2>2
<1> QED
  BY <1>1, <1>2, Invariance, PTL DEF Spec, ImplementsLink, Link!Spec
=============================================================================

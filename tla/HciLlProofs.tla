------------------------------ MODULE HciLlProofs ------------------------------
(***************************************************************************)
(* Proofs about HciLl, for any number of tasklets that send, any number of *)
(* packets and any size of the UART's buffer.                              *)
(***************************************************************************)
EXTENDS HciLl, TLAPS

(* The loop of hci_uart_tx_wakeup, which HCI_UART_SENDING guards, and what *)
(* is left of the frame it has in hand or has put back.                    *)
Loop == {"restart", "dequeue", "write", "check", "release"}
Hand == IF skb # None THEN skb ELSE tx_skb

LoopInv ==
    /\ \A s, t \in Threads : pc[s] \in Loop /\ pc[t] \in Loop => s = t
    /\ \A t \in Threads : pc[t] \in Loop => sending
    /\ \A t \in Threads : pc[t] = "write" => skb # None
    /\ skb # None => tx_skb = None /\ \E t \in Threads : pc[t] = "write"

(* A signal is one unit, a packet is two, and nothing comes between them:  *)
(* after the first unit the second follows, in the UART or in hand.        *)
HandData == Hand # None /\ Hand.frame \in Data
FrameInv ==
    /\ \A i \in 1..Len(uart) : uart[i][1] \notin Data => uart[i][2] = 1
    /\ Hand # None /\ Hand.frame \notin Data => Hand.from = 1
    /\ \A i \in 1..Len(uart) : uart[i][1] \in Data /\ uart[i][2] = 1 =>
         IF i < Len(uart) THEN uart[i + 1][1] \in Data ELSE HandData
    /\ part # None => IF uart # <<>> THEN uart[1][1] \in Data ELSE HandData

(* Behind the acknowledgement that lets the chip sleep, and to a chip that *)
(* sleeps, goes nothing but the request to wake up.                        *)
Silent == toHost = <<>> /\ hcill_state # "AWAKE"
UartWakes(k) == \A i \in k..Len(uart) : uart[i][1] = WAKE_UP_IND
HandWakes == Hand # None => Hand.frame = WAKE_UP_IND
QueueWakes(k) == \A i \in k..Len(txq) : txq[i] = WAKE_UP_IND

SleepInv ==
    /\ toHost \in {<<>>, <<WAKE_UP_IND>>, <<GO_TO_SLEEP_IND>>, <<WAKE_UP_ACK>>}
    /\ toHost = <<GO_TO_SLEEP_IND>> => chip = "going"
    /\ chip = "asleep" => Silent /\ UartWakes(1) /\ HandWakes /\ QueueWakes(1)
    /\ \A i \in 1..Len(uart) : uart[i][1] = GO_TO_SLEEP_ACK =>
         chip = "going" /\ Silent /\ UartWakes(i + 1) /\ HandWakes /\ QueueWakes(1)
    /\ Hand # None /\ Hand.frame = GO_TO_SLEEP_ACK =>
         chip = "going" /\ Silent /\ QueueWakes(1)
    /\ \A i \in 1..Len(txq) : txq[i] = GO_TO_SLEEP_ACK =>
         chip = "going" /\ Silent /\ QueueWakes(i + 1)

(* The packets that the chip has not got are in the UART, in hand, in txq  *)
(* and in tx_wait_q, in this order and none missing.  In the UART it is    *)
(* units that are numbered: those up to Upto(v), if the packets up to v    *)
(* have left txq.                                                          *)
Num(unit) == 2 * (unit[1] - 1) + unit[2]
Low == 2 * Len(got) + (IF part = None THEN 0 ELSE 1)
Upto(v) == IF HandData THEN 2 * (v - 1) + (Hand.from - 1) ELSE 2 * v
Unsent == sent - Len(tx_wait_q)

Run(q, low, u) ==
    /\ low <= u
    /\ \A i \in 1..Len(q) : q[i][1] \in Data => low < Num(q[i]) /\ Num(q[i]) <= u
    /\ \A i, j \in 1..Len(q) : q[i][1] \in Data /\ q[j][1] \in Data /\ i < j
                               => Num(q[i]) < Num(q[j])
    /\ \A k \in (low + 1)..u : \E i \in 1..Len(q) : q[i][1] \in Data /\ Num(q[i]) = k
Line(q, v, w) ==
    /\ v <= w
    /\ \A i \in 1..Len(q) : q[i] \in Data => v < q[i] /\ q[i] <= w
    /\ \A i, j \in 1..Len(q) : q[i] \in Data /\ q[j] \in Data /\ i < j => q[i] < q[j]
    /\ \A k \in (v + 1)..w : \E i \in 1..Len(q) : q[i] = k /\ q[i] \in Data
Ordered(v) ==
    /\ HandData => v = Hand.frame
    /\ Run(uart, Low, Upto(v)) /\ Line(txq, v, Unsent)
OrderInv ==
    /\ ArriveInOrder
    /\ part # None => part = Len(got) + 1
    /\ hcill_state = "AWAKE" => tx_wait_q = <<>>
    /\ 0 <= Unsent
    /\ \A i \in 1..Len(tx_wait_q) : tx_wait_q[i] = Unsent + i
    /\ \E v \in 0..sent : Ordered(v)

IInv == TypeOK /\ LoopInv /\ FrameInv /\ SleepInv /\ OrderInv

-----------------------------------------------------------------------------
(* The signals differ from the packets and from each other.                *)
LEMMA Apart ==
    /\ GO_TO_SLEEP_IND \notin Data /\ GO_TO_SLEEP_ACK \notin Data
    /\ WAKE_UP_IND \notin Data /\ WAKE_UP_ACK \notin Data
    /\ WAKE_UP_IND # GO_TO_SLEEP_IND /\ WAKE_UP_IND # GO_TO_SLEEP_ACK
    /\ WAKE_UP_IND # WAKE_UP_ACK /\ GO_TO_SLEEP_IND # GO_TO_SLEEP_ACK
    /\ GO_TO_SLEEP_IND # WAKE_UP_ACK /\ GO_TO_SLEEP_ACK # WAKE_UP_ACK
    /\ \A f \in Data : f \in Nat /\ f > 0
  BY DataAssumption DEF GO_TO_SLEEP_IND, GO_TO_SLEEP_ACK, WAKE_UP_IND, WAKE_UP_ACK

(* What is left of a frame is a record, and None is not.                   *)
LEMMA HandType ==
    ASSUME TypeOK, LoopInv
    PROVE  /\ Hand \in Rests
           /\ Hand # None => /\ Hand.frame \in Frames /\ Hand.from \in 1..2
                             /\ Hand = [frame |-> Hand.frame, from |-> Hand.from]
  BY DEF TypeOK, Hand, Rests

(* What is left of a packet is not None.                                   *)
LEMMA RestIsNotNone ==
    ASSUME NEW f \in Data, NEW k \in 1..2
    PROVE  [frame |-> f, from |-> k] # None
<1> DEFINE rest == [frame |-> f, from |-> k]
           Pieces == [frame : Data \cup Signals, from : 1..2]
<1>1. rest \in Pieces
  OBVIOUS
<1>2. None \notin Pieces
  BY NoneAssumption
<1> HIDE DEF rest, Pieces
<1>3. rest # None
  BY <1>1, <1>2
<1> QED
  BY <1>3 DEF rest

-----------------------------------------------------------------------------
(* The steps of the loop that move a frame: dequeue takes the next one in  *)
(* hand ...                                                                *)
Kept == <<hcill_state, tx_wait_q, chip, part, toHost, sent, got>>
Take ==
    /\ Hand = None /\ txq # <<>>
    /\ Hand' = [frame |-> Head(txq), from |-> 1] /\ txq' = Tail(txq)
    /\ UNCHANGED <<uart, Kept>>
(* ... and write gives the UART as many units of it as it has room for.    *)
Put ==
    /\ Hand # None /\ UNCHANGED <<txq, Kept>>
    /\ \E n \in 0..(Size(Hand.frame) - Hand.from + 1) :
         /\ uart' \in Seq(Frames \X {1, 2})
         /\ Len(uart') = Len(uart) + n /\ Len(uart') <= UartSize
         /\ \A i \in 1..Len(uart) : uart'[i] = uart[i]
         /\ \A i \in (Len(uart) + 1)..(Len(uart) + n) :
              uart'[i] = <<Hand.frame, Hand.from + (i - Len(uart) - 1)>>
         /\ Hand' = IF n < Size(Hand.frame) - Hand.from + 1
                    THEN [frame |-> Hand.frame, from |-> Hand.from + n] ELSE None
Stay == UNCHANGED <<Hand, txq, uart, Kept>>

(* The units of what is left of a frame.                                   *)
LEMMA UnitsType ==
    ASSUME NEW f \in Frames, NEW k \in 1..2, NEW s, s = [frame |-> f, from |-> k]
    PROVE  /\ Units(s) \in Seq(Frames \X {1, 2})
           /\ Len(Units(s)) = Size(f) - k + 1 /\ Size(f) - k + 1 \in 0..2
           /\ \A i \in 1..(Size(f) - k + 1) : Units(s)[i] = <<f, k + i - 1>>
<1>1. Size(f) \in 1..2
  BY DEF Size
<1>2. Size(f) - k + 1 \in 0..2
  BY <1>1
<1>3. Units(s) = [i \in 1..(Size(f) - k + 1) |-> <<f, k + i - 1>>]
  BY DEF Units
<1>4. \A i \in 1..(Size(f) - k + 1) : <<f, k + i - 1>> \in Frames \X {1, 2}
  BY <1>1
<1> QED
  BY <1>2, <1>3, <1>4

LEMMA Room ==
    ASSUME NEW a \in Nat, NEW b \in Nat
    PROVE  Min({a, b}) \in 0..a /\ Min({a, b}) <= b
<1>1. \E x \in {a, b} : \A y \in {a, b} : x <= y
  OBVIOUS
<1> QED
  BY <1>1 DEF Min

LEMMA DequeueTakes ==
    ASSUME TypeOK, LoopInv, NEW t \in Threads, DequeueSkb(t), Driver
    PROVE  Take \/ Stay
<1> USE DEF bits, hand, Driver, Kept
<1>1. skb = None
  BY DEF LoopInv, DequeueSkb, Loop
<1>2. Hand = tx_skb /\ tx_skb' = None
  BY <1>1 DEF DequeueSkb, Hand
<1>3. Hand' = skb'
  BY <1>2 DEF Hand
<1>4. UNCHANGED <<uart, Kept>>
  BY DEF DequeueSkb
<1>5. CASE tx_skb # None
  BY <1>2, <1>3, <1>4, <1>5 DEF DequeueSkb, Stay
<1>6. CASE tx_skb = None /\ txq # <<>>
  BY <1>2, <1>3, <1>4, <1>6 DEF DequeueSkb, Take, Whole
<1>7. CASE tx_skb = None /\ txq = <<>>
  BY <1>2, <1>3, <1>4, <1>7 DEF DequeueSkb, Stay
<1> QED
  BY <1>5, <1>6, <1>7

LEMMA WritePuts ==
    ASSUME TypeOK, LoopInv, NEW t \in Threads, WriteSkb(t), Driver
    PROVE  Put
<1> USE DEF bits, hand, Driver, Kept
<1> DEFINE rest == Units(skb)
           n == Taken(rest)
           L == Size(skb.frame) - skb.from + 1
<1>1. Hand = skb /\ skb # None /\ skb' = None
  BY DEF LoopInv, WriteSkb, Hand
<1>2. Hand' = tx_skb'
  BY <1>1 DEF Hand
<1>3. /\ skb.frame \in Frames /\ skb.from \in 1..2
      /\ skb = [frame |-> skb.frame, from |-> skb.from]
  BY <1>1, HandType
<1>4. /\ rest \in Seq(Frames \X {1, 2}) /\ Len(rest) = L /\ L \in 0..2
      /\ \A i \in 1..L : rest[i] = <<skb.frame, skb.from + i - 1>>
  BY <1>3, UnitsType
<1>5. n \in 0..L /\ n <= UartSize - Len(uart)
  <2>1. UartSize - Len(uart) \in Nat
    BY UartAssumption DEF TypeOK
  <2>2. n = Min({Len(rest), UartSize - Len(uart)})
    BY DEF Taken
  <2> HIDE DEF n, rest, L
  <2> QED
    BY <1>4, <2>1, <2>2, Room
<1>6. /\ uart' = uart \o SubSeq(rest, 1, n)
      /\ tx_skb' = IF n < Len(rest) THEN [skb EXCEPT !.from = @ + n] ELSE None
  BY DEF WriteSkb
<1> HIDE DEF rest, n, L
<1>7. uart \in Seq(Frames \X {1, 2})
  BY DEF TypeOK
<1>8. /\ SubSeq(rest, 1, n) \in Seq(Frames \X {1, 2}) /\ Len(SubSeq(rest, 1, n)) = n
      /\ \A i \in 1..n : SubSeq(rest, 1, n)[i] = rest[i]
  BY <1>4, <1>5
<1>9. /\ uart' \in Seq(Frames \X {1, 2}) /\ Len(uart') = Len(uart) + n
      /\ \A i \in 1..Len(uart) : uart'[i] = uart[i]
      /\ \A i \in (Len(uart) + 1)..(Len(uart) + n) :
           uart'[i] = SubSeq(rest, 1, n)[i - Len(uart)]
  <2> DEFINE part1 == SubSeq(rest, 1, n)
  <2>1. part1 \in Seq(Frames \X {1, 2}) /\ Len(part1) = n /\ n \in Nat
    BY <1>4, <1>5, <1>8
  <2> HIDE DEF part1
  <2> QED
    BY <1>6, <1>7, <2>1 DEF part1
<1>10. \A i \in (Len(uart) + 1)..(Len(uart) + n) :
          uart'[i] = <<skb.frame, skb.from + (i - Len(uart) - 1)>>
  <2> SUFFICES ASSUME NEW i \in (Len(uart) + 1)..(Len(uart) + n)
               PROVE  uart'[i] = <<skb.frame, skb.from + (i - Len(uart) - 1)>>
    OBVIOUS
  <2>1. Len(uart) \in Nat /\ n \in Nat /\ n <= L /\ L \in Nat /\ skb.from \in Nat
    BY <1>3, <1>4, <1>5, <1>7
  <2>2. i - Len(uart) \in 1..n /\ i - Len(uart) \in 1..L
    BY <2>1
  <2>3. uart'[i] = rest[i - Len(uart)]
    BY <1>8, <1>9, <2>2
  <2>4. rest[i - Len(uart)] = <<skb.frame, skb.from + (i - Len(uart)) - 1>>
    BY <1>4, <2>2
  <2>5. skb.from + (i - Len(uart)) - 1 = skb.from + (i - Len(uart) - 1)
    BY <2>1
  <2> QED
    BY <2>3, <2>4, <2>5
<1>11. Hand' = IF n < L THEN [frame |-> skb.frame, from |-> skb.from + n] ELSE None
  <2>1. [skb EXCEPT !.from = @ + n] = [frame |-> skb.frame, from |-> skb.from + n]
    BY <1>3
  <2> QED
    BY <1>2, <1>4, <1>6, <2>1
<1>12. UNCHANGED <<txq, Kept>>
  BY DEF WriteSkb
<1>13. Len(uart') <= UartSize
  BY <1>5, <1>7, <1>9, UartAssumption
<1> QED
  BY <1>1, <1>5, <1>9, <1>10, <1>11, <1>12, <1>13 DEF Put, L

(* The rest of the loop moves no frame.                                    *)
LEMMA OthersStay ==
    ASSUME NEW t \in Threads, Driver,
           Enter(t) \/ Mark(t) \/ Restart(t) \/ Check(t) \/ Release(t)
    PROVE  Stay
  BY DEF Enter, Mark, Restart, Check, Release, Driver, Stay, Kept, Hand, hand

LEMMA TtyStays ==
    ASSUME TtyWakeup, Driver
    PROVE  Stay
  BY DEF TtyWakeup, Driver, Stay, Kept, Hand, hand

-----------------------------------------------------------------------------
(* Only one thread is in the loop, and it alone has a frame in hand.       *)
LEMMA LoopStep ==
    ASSUME TypeOK, LoopInv, [Next]_vars
    PROVE  LoopInv'
<1> USE DEF Goto, bits, hand, Loop
<1>1. pc \in [Threads -> {"idle", "wakeup", "mark", "restart", "dequeue", "write",
                         "check", "release"}]
  BY DEF TypeOK
<1>2. CASE UNCHANGED <<pc, sending, skb, tx_skb>>
  BY <1>2 DEF LoopInv
<1>3. ASSUME NEW t \in Threads, NEW l, pc' = [pc EXCEPT ![t] = l], l \notin Loop,
             pc[t] \notin Loop, UNCHANGED <<sending, hand>>
      PROVE  LoopInv'
  <2>1. \A o \in Threads : pc'[o] \in Loop => pc[o] \in Loop /\ pc'[o] = pc[o]
    BY <1>1, <1>3
  <2>2. \A o \in Threads : pc[o] = "write" => pc'[o] = "write"
    BY <1>1, <1>3
  <2> QED
    BY <1>3, <2>1, <2>2 DEF LoopInv
<1>4. ASSUME NEW t \in Threads, NEW l \in Loop, pc' = [pc EXCEPT ![t] = l],
             \A o \in Threads : pc[o] \in Loop => o = t, sending',
             l = "write" => skb' # None, skb' # None => tx_skb' = None /\ l = "write"
      PROVE  LoopInv'
  <2>1. pc'[t] = l /\ \A o \in Threads : o # t => pc'[o] = pc[o]
    BY <1>1, <1>4
  <2>2. \A o \in Threads : pc'[o] \in Loop => o = t
    BY <1>4, <2>1
  <2>3. \A o \in Threads : pc'[o] = "write" => o = t
    BY <2>2
  <2> QED
    BY <1>4, <2>1, <2>2, <2>3 DEF LoopInv
<1>5. ASSUME NEW s \in Senders, SendFrame(s)
      PROVE  LoopInv'
  BY <1>3, <1>5 DEF SendFrame, Threads
<1>6. CASE Recv
  BY <1>3, <1>6 DEF Recv, Threads
<1>7. CASE TtyWakeup
  BY <1>2, <1>3, <1>7 DEF TtyWakeup, Threads
<1>8. CASE Drain
  BY <1>2, <1>8 DEF Drain
<1>9. CASE ChipAsks
  BY <1>2, <1>9 DEF ChipAsks, ldisc
<1>10. ASSUME NEW t \in Threads, TxWakeup(t)
       PROVE  LoopInv'
  <2>1. pc[t] \in Loop => sending /\ \A o \in Threads : pc[o] \in Loop => o = t
    BY DEF LoopInv
  <2>2. pc[t] \in Loop /\ pc[t] # "write" => skb = None
    BY <2>1 DEF LoopInv
  <2>3. CASE Enter(t)
    <3>1. CASE sending
      BY <1>3, <2>3, <3>1 DEF Enter
    <3>2. CASE ~sending
      <4>1. \A o \in Threads : pc[o] \notin Loop
        BY <3>2 DEF LoopInv
      <4>2. skb = None
        BY <4>1 DEF LoopInv
      <4> QED
        BY <1>4, <2>3, <3>2, <4>1, <4>2 DEF Enter
    <3> QED
      BY <3>1, <3>2
  <2>4. CASE Mark(t)
    BY <1>3, <2>4 DEF Mark
  <2>5. CASE Restart(t)
    BY <1>4, <2>1, <2>2, <2>5 DEF Restart
  <2>6. CASE DequeueSkb(t)
    BY <1>4, <2>1, <2>2, <2>6 DEF DequeueSkb
  <2>7. CASE WriteSkb(t)
    <3>1. \E l \in {"check", "dequeue"} : pc' = [pc EXCEPT ![t] = l]
      BY <2>7 DEF WriteSkb
    <3> QED
      BY <1>4, <2>1, <2>7, <3>1 DEF WriteSkb
  <2>8. CASE Check(t)
    BY <1>4, <2>1, <2>2, <2>8 DEF Check
  <2>9. CASE Release(t)
    <3>1. \A o \in Threads : pc'[o] \notin Loop
      BY <1>1, <2>1, <2>9 DEF Release
    <3>2. skb' = None
      BY <2>1, <2>2, <2>9 DEF Release
    <3> QED
      BY <3>1, <3>2 DEF LoopInv
  <2> QED
    BY <1>10, <2>3, <2>4, <2>5, <2>6, <2>7, <2>8, <2>9 DEF TxWakeup
<1> QED
  BY <1>2, <1>5, <1>6, <1>7, <1>8, <1>9, <1>10 DEF Next, vars, ldisc

-----------------------------------------------------------------------------
(* What ll_recv does, whichever signal it is.                              *)
LEMMA RecvDoes ==
    ASSUME TypeOK, SleepInv, Recv
    PROVE  /\ toHost # <<>> /\ toHost' = <<>> /\ failed' \in BOOLEAN
           /\ \/ DoAwake(txq)
              \/ DoAwake(Append(txq, WAKE_UP_ACK))
              \/ UNCHANGED <<txq, tx_wait_q, hcill_state>>
              \/ /\ toHost = <<GO_TO_SLEEP_IND>> /\ txq' = Append(txq, GO_TO_SLEEP_ACK)
                 /\ hcill_state' = "ASLEEP" /\ UNCHANGED tx_wait_q
<1>0. toHost # <<>> /\ toHost' = Tail(toHost)
  BY DEF Recv
<1>1. toHost' = <<>>
  <2>1. Len(toHost) = 1
    BY <1>0 DEF SleepInv
  <2>2. Tail(toHost) \in Seq(Signals) /\ Len(Tail(toHost)) = 0
    BY <1>0, <2>1 DEF TypeOK
  <2> QED
    BY <1>0, <2>2
<1>2. CASE toHost = <<WAKE_UP_IND>>
  <2>1. Head(toHost) = WAKE_UP_IND
    BY <1>2
  <2>2. WantToWakeUp
    BY <2>1, Apart DEF Recv
  <2>3. /\ failed' \in BOOLEAN
        /\ \/ DoAwake(txq) \/ DoAwake(Append(txq, WAKE_UP_ACK))
           \/ UNCHANGED <<txq, tx_wait_q, hcill_state>>
    BY <2>2 DEF WantToWakeUp, TypeOK
  <2> QED
    BY <1>0, <1>1, <2>3
<1>3. CASE toHost = <<GO_TO_SLEEP_IND>>
  <2>1. Head(toHost) = GO_TO_SLEEP_IND
    BY <1>3
  <2>2. WantToSleep
    BY <2>1, Apart DEF Recv
  <2>3. /\ failed' \in BOOLEAN
        /\ \/ UNCHANGED <<txq, tx_wait_q, hcill_state>>
           \/ /\ txq' = Append(txq, GO_TO_SLEEP_ACK) /\ hcill_state' = "ASLEEP"
              /\ UNCHANGED tx_wait_q
    BY <2>2 DEF WantToSleep, Signalled, TypeOK
  <2> QED
    BY <1>0, <1>1, <1>3, <2>3
<1>4. CASE toHost = <<WAKE_UP_ACK>>
  BY <1>1, <1>4, Apart DEF Recv, WokeUp, TypeOK
<1> QED
  BY <1>2, <1>3, <1>4 DEF SleepInv, Recv

(* What ll_enqueue does with packet p.                                     *)
LEMMA EnqueueDoes ==
    ASSUME TypeOK, NEW p, Enqueue(p)
    PROVE  /\ failed' \in BOOLEAN
           /\ hcill_state' \in {"ASLEEP", "ASLEEP_TO_AWAKE", "AWAKE"}
           /\ hcill_state' = "AWAKE" <=> hcill_state = "AWAKE"
           /\ hcill_state = "AWAKE" => txq' = Append(txq, p) /\ UNCHANGED tx_wait_q
           /\ hcill_state # "AWAKE" => /\ tx_wait_q' = Append(tx_wait_q, p)
                                       /\ txq' = txq \/ txq' = Append(txq, WAKE_UP_IND)
<1>1. CASE hcill_state = "AWAKE"
  BY <1>1 DEF Enqueue, Signalled, TypeOK
<1>2. CASE hcill_state = "ASLEEP"
  BY <1>2 DEF Enqueue, Signalled, TypeOK
<1>3. CASE hcill_state = "ASLEEP_TO_AWAKE"
  BY <1>3 DEF Enqueue, Signalled, TypeOK
<1> QED
  BY <1>1, <1>2, <1>3 DEF TypeOK

(* What the chip does when the UART has sent the unit at its head.         *)
Hears ==
    /\ uart # <<>> /\ uart' = Tail(uart)
    /\ UNCHANGED <<Hand, txq, hcill_state, tx_wait_q, sent>>
HearsSignal ==
    /\ Head(uart)[1] \notin Data /\ part' = None /\ UNCHANGED got
    /\ \/ UNCHANGED <<chip, toHost>>
       \/ /\ Head(uart)[1] = GO_TO_SLEEP_ACK /\ chip = "going" /\ chip' = "asleep"
          /\ UNCHANGED toHost
       \/ chip = "asleep" /\ chip' = "awake" /\ toHost' = Append(toHost, WAKE_UP_ACK)
       \/ chip = "waking" /\ chip' \in {"waking", "awake"} /\ UNCHANGED toHost
HearsPacket ==
    /\ Head(uart)[1] \in Data /\ UNCHANGED <<chip, toHost>>
    /\ \/ Head(uart)[2] = 1 /\ part' = Head(uart)[1] /\ UNCHANGED got
       \/ /\ Head(uart)[2] = 2 /\ part' = None
          /\ got' = IF part = Head(uart)[1] /\ chip # "asleep"
                    THEN Append(got, Head(uart)[1]) ELSE got

LEMMA DrainHears ==
    ASSUME TypeOK, FrameInv, Drain
    PROVE  Hears /\ (HearsSignal \/ HearsPacket)
<1> DEFINE frame == Head(uart)[1]
           n == Head(uart)[2]
<1>1. Hears
  BY DEF Drain, Hears, Hand, hand, bits
<1>2. frame \in Frames /\ n \in {1, 2}
  BY DEF Drain, TypeOK
<1>3. /\ n < Size(frame) => part' = frame /\ UNCHANGED <<chip, toHost, got>>
      /\ ~(n < Size(frame)) =>
           /\ part' = None
           /\ IF part = (IF n = 1 THEN None ELSE frame)
              THEN ChipGets(frame) ELSE UNCHANGED <<chip, toHost, got>>
  BY DEF Drain
<1>4. CASE frame \in Data
  <2>1. Size(frame) = 2
    BY <1>4 DEF Size
  <2>2. ChipGets(frame) => /\ UNCHANGED <<chip, toHost>>
                           /\ got' = IF chip # "asleep" THEN Append(got, frame) ELSE got
    <3>1. frame \notin {GO_TO_SLEEP_ACK, WAKE_UP_IND, WAKE_UP_ACK}
      BY <1>4, Apart
    <3> HIDE DEF frame
    <3> QED
      BY <1>4, <3>1 DEF ChipGets
  <2>3. CASE n = 1
    <3>1. part' = frame /\ UNCHANGED <<chip, toHost, got>>
      BY <1>3, <2>1, <2>3
    <3> QED
      BY <1>1, <1>4, <2>3, <3>1 DEF HearsPacket
  <2>4. CASE n = 2
    <3>1. /\ part' = None
          /\ IF part = frame THEN ChipGets(frame) ELSE UNCHANGED <<chip, toHost, got>>
      BY <1>3, <2>1, <2>4
    <3>2. /\ UNCHANGED <<chip, toHost>>
          /\ got' = IF part = frame /\ chip # "asleep" THEN Append(got, frame) ELSE got
      BY <2>2, <3>1
    <3> QED
      BY <1>1, <1>4, <2>4, <3>1, <3>2 DEF HearsPacket
  <2> QED
    BY <1>1, <1>2, <2>3, <2>4
<1>5. CASE frame \notin Data
  <2>1. n = 1
    BY <1>5 DEF Drain, FrameInv, TypeOK
  <2>2. Size(frame) = 1
    BY <1>5 DEF Size
  <2>3. part' = None /\ (ChipGets(frame) \/ UNCHANGED <<chip, toHost, got>>)
    BY <1>3, <2>1, <2>2
  <2>4. ChipGets(frame) => HearsSignal
    <3>1. ASSUME ChipGets(frame)
          PROVE  /\ UNCHANGED got
                 /\ \/ UNCHANGED <<chip, toHost>>
                    \/ /\ frame = GO_TO_SLEEP_ACK /\ chip = "going"
                       /\ chip' = "asleep" /\ UNCHANGED toHost
                    \/ /\ chip = "asleep" /\ chip' = "awake"
                       /\ toHost' = Append(toHost, WAKE_UP_ACK)
                    \/ /\ chip = "waking" /\ chip' \in {"waking", "awake"}
                       /\ UNCHANGED toHost
      <4> HIDE DEF frame
      <4> QED
        BY <1>5, <3>1, Apart DEF ChipGets
    <3> QED
      BY <1>5, <2>3, <3>1 DEF HearsSignal
  <2> QED
    BY <1>1, <1>5, <2>3, <2>4 DEF HearsSignal
<1> QED
  BY <1>4, <1>5

-----------------------------------------------------------------------------
(* Every step keeps the types ...                                          *)
LEMMA TypeStep ==
    ASSUME TypeOK, LoopInv, FrameInv, SleepInv, [Next]_vars
    PROVE  TypeOK'
<1> USE DEF bits, hand
<1> DEFINE Labels == {"idle", "wakeup", "mark", "restart", "dequeue", "write", "check",
                      "release"}
<1>0. /\ pc \in [Threads -> Labels] /\ skb \in Rests /\ tx_skb \in Rests
      /\ txq \in Seq(Frames) /\ tx_wait_q \in Seq(Data) /\ got \in Seq(Data)
      /\ uart \in Seq(Frames \X {1, 2}) /\ Len(uart) <= UartSize
      /\ toHost \in Seq(Signals) /\ Signals \subseteq Frames /\ Data \subseteq Frames
      /\ WAKE_UP_IND \in Signals /\ WAKE_UP_ACK \in Signals
      /\ GO_TO_SLEEP_ACK \in Signals /\ GO_TO_SLEEP_IND \in Signals
  BY DEF TypeOK, Frames, Signals
<1>1. ASSUME NEW t \in Threads, NEW l \in Labels, pc' = [pc EXCEPT ![t] = l]
      PROVE  pc' \in [Threads -> Labels]
  BY <1>0, <1>1
<1>2. CASE UNCHANGED vars
  BY <1>2 DEF vars, ldisc, TypeOK
<1>3. ASSUME NEW s \in Senders, SendFrame(s)
      PROVE  TypeOK'
  <2>1. pc' \in [Threads -> Labels]
    BY <1>1, <1>3 DEF SendFrame, Goto, Threads
  <2>2. /\ failed' \in BOOLEAN /\ hcill_state' \in {"ASLEEP", "ASLEEP_TO_AWAKE", "AWAKE"}
        /\ txq' \in Seq(Frames) /\ tx_wait_q' \in Seq(Data)
    <3>1. sent + 1 \in Data /\ Enqueue(sent + 1)
      BY <1>3 DEF SendFrame
    <3>2. Append(txq, sent + 1) \in Seq(Frames) /\ Append(txq, WAKE_UP_IND) \in Seq(Frames)
      BY <1>0, <3>1
    <3>3. Append(tx_wait_q, sent + 1) \in Seq(Data)
      BY <1>0, <3>1
    <3> QED
      BY <1>0, <3>1, <3>2, <3>3, EnqueueDoes
  <2>3. sent' \in Data
    BY <1>3 DEF SendFrame
  <2>4. UNCHANGED <<sending, wakeup, skb, tx_skb, do_write_wakeup, uart, drained, passedBy,
                    chip, part, toHost, got>>
    BY <1>3 DEF SendFrame
  <2> QED
    BY <2>1, <2>2, <2>3, <2>4 DEF TypeOK
<1>4. CASE Recv
  <2>1. pc' \in [Threads -> Labels]
    BY <1>1, <1>4 DEF Recv, Goto, Threads
  <2>2. /\ failed' \in BOOLEAN /\ hcill_state' \in {"ASLEEP", "ASLEEP_TO_AWAKE", "AWAKE"}
        /\ txq' \in Seq(Frames) /\ tx_wait_q' \in Seq(Data)
    <3>1. /\ Append(txq, WAKE_UP_ACK) \in Seq(Frames)
          /\ Append(txq, GO_TO_SLEEP_ACK) \in Seq(Frames)
      BY <1>0
    <3>2. tx_wait_q \in Seq(Frames)
      BY <1>0
    <3>3. ASSUME NEW q \in Seq(Frames), DoAwake(q)
          PROVE  /\ hcill_state' \in {"ASLEEP", "ASLEEP_TO_AWAKE", "AWAKE"}
                 /\ txq' \in Seq(Frames) /\ tx_wait_q' \in Seq(Data)
      BY <3>2, <3>3 DEF DoAwake
    <3>4. hcill_state \in {"ASLEEP", "ASLEEP_TO_AWAKE", "AWAKE"}
      BY DEF TypeOK
    <3> QED
      BY <1>0, <1>4, <3>1, <3>3, <3>4, RecvDoes
  <2>3. toHost' \in Seq(Signals)
    BY <1>4, RecvDoes
  <2>4. UNCHANGED <<sending, wakeup, skb, tx_skb, do_write_wakeup, uart, drained, passedBy,
                    chip, part, sent, got>>
    BY <1>4 DEF Recv
  <2> QED
    BY <2>1, <2>2, <2>3, <2>4 DEF TypeOK
<1>5. CASE TtyWakeup /\ Driver
  <2>1. pc' \in [Threads -> Labels]
    BY <1>0, <1>1, <1>5 DEF TtyWakeup, Goto, Threads
  <2>2. drained' \in BOOLEAN /\ do_write_wakeup' \in BOOLEAN
    BY <1>5 DEF TtyWakeup
  <2>3. UNCHANGED <<sending, wakeup, skb, tx_skb, txq, uart, passedBy, hcill_state,
                    tx_wait_q, chip, part, toHost, sent, got, failed>>
    BY <1>5 DEF TtyWakeup, Driver
  <2> QED
    BY <2>1, <2>2, <2>3 DEF TypeOK
<1>6. CASE Drain
  <2>1. uart' \in Seq(Frames \X {1, 2}) /\ Len(uart') <= UartSize
    <3>1. uart # <<>> /\ uart' = Tail(uart)
      BY <1>6 DEF Drain
    <3> QED
      BY <1>0, <3>1, UartAssumption
  <2>2. /\ chip' \in {"asleep", "waking", "awake", "going"} /\ toHost' \in Seq(Signals)
        /\ part' \in Data \cup {None} /\ got' \in Seq(Data)
    <3>1. Append(toHost, WAKE_UP_ACK) \in Seq(Signals)
      BY <1>0
    <3>2. CASE HearsSignal
      BY <1>0, <3>1, <3>2 DEF HearsSignal, TypeOK
    <3>3. CASE HearsPacket
      <4>1. Head(uart)[1] \in Data => Append(got, Head(uart)[1]) \in Seq(Data)
        BY <1>0
      <4> QED
        BY <1>0, <3>3, <4>1 DEF HearsPacket, TypeOK
    <3> QED
      BY <1>6, <3>2, <3>3, DrainHears
  <2>3. drained' \in BOOLEAN
    BY <1>6 DEF Drain
  <2>4. UNCHANGED <<pc, sending, wakeup, skb, tx_skb, txq, do_write_wakeup, passedBy,
                    hcill_state, tx_wait_q, sent, failed>>
    BY <1>6 DEF Drain
  <2> QED
    BY <2>1, <2>2, <2>3, <2>4 DEF TypeOK
<1>7. CASE ChipAsks
  <2>1. chip' \in {"asleep", "waking", "awake", "going"} /\ toHost' \in Seq(Signals)
    <3>1. <<GO_TO_SLEEP_IND>> \in Seq(Signals) /\ <<WAKE_UP_IND>> \in Seq(Signals)
      BY <1>0
    <3> QED
      BY <1>7, <3>1 DEF ChipAsks
  <2>2. UNCHANGED <<pc, sending, wakeup, skb, tx_skb, txq, do_write_wakeup, uart, drained,
                    passedBy, hcill_state, tx_wait_q, part, sent, got, failed>>
    BY <1>7 DEF ChipAsks, ldisc
  <2> QED
    BY <2>1, <2>2 DEF TypeOK
<1>8. ASSUME NEW t \in Threads, TxWakeup(t), Driver
      PROVE  TypeOK'
  <2>0. UNCHANGED <<hcill_state, tx_wait_q, chip, part, toHost, sent, got, failed>>
    BY <1>8 DEF Driver
  <2>1. CASE Enter(t)
    <3>1. pc' \in [Threads -> Labels]
      BY <1>1, <2>1 DEF Enter, Goto
    <3>2. sending' \in BOOLEAN
      BY <2>1 DEF Enter
    <3>3. UNCHANGED <<wakeup, skb, tx_skb, txq, do_write_wakeup, uart, drained, passedBy>>
      BY <2>1 DEF Enter
    <3> QED
      BY <2>0, <3>1, <3>2, <3>3 DEF TypeOK
  <2>2. CASE Mark(t)
    <3>1. pc' \in [Threads -> Labels]
      BY <1>1, <2>2 DEF Mark, Goto
    <3>2. wakeup' \in BOOLEAN /\ passedBy' \in BOOLEAN
      BY <2>2 DEF Mark
    <3>3. UNCHANGED <<sending, skb, tx_skb, txq, do_write_wakeup, uart, drained>>
      BY <2>2 DEF Mark
    <3> QED
      BY <2>0, <3>1, <3>2, <3>3 DEF TypeOK
  <2>3. CASE Restart(t)
    <3>1. pc' \in [Threads -> Labels]
      BY <1>1, <2>3 DEF Restart, Goto
    <3>2. wakeup' \in BOOLEAN /\ passedBy' \in BOOLEAN
      BY <2>3 DEF Restart
    <3>3. UNCHANGED <<sending, skb, tx_skb, txq, do_write_wakeup, uart, drained>>
      BY <2>3 DEF Restart
    <3> QED
      BY <2>0, <3>1, <3>2, <3>3 DEF TypeOK
  <2>4. CASE DequeueSkb(t)
    <3>1. pc' \in [Threads -> Labels]
      BY <1>1, <2>4 DEF DequeueSkb, Goto
    <3>2. skb' \in Rests /\ tx_skb' \in Rests /\ txq' \in Seq(Frames)
      <4>1. txq # <<>> => Whole(Head(txq)) \in Rests /\ Tail(txq) \in Seq(Frames)
        BY <1>0 DEF Whole, Rests
      <4>2. None \in Rests
        BY DEF Rests
      <4> QED
        BY <1>0, <2>4, <4>1, <4>2 DEF DequeueSkb
    <3>3. do_write_wakeup' \in BOOLEAN
      BY <2>4 DEF DequeueSkb, Asked, TypeOK
    <3>4. UNCHANGED <<sending, wakeup, uart, drained, passedBy>>
      BY <2>4 DEF DequeueSkb
    <3> QED
      BY <2>0, <3>1, <3>2, <3>3, <3>4 DEF TypeOK
  <2>5. CASE WriteSkb(t)
    <3>1. pc' \in [Threads -> Labels]
      <4>1. \E l \in {"check", "dequeue"} : pc' = [pc EXCEPT ![t] = l]
        BY <2>5 DEF WriteSkb, Goto
      <4> QED
        BY <1>1, <4>1
    <3>2. Put
      BY <1>8, <2>5, WritePuts
    <3>3. uart' \in Seq(Frames \X {1, 2}) /\ Len(uart') <= UartSize
      BY <3>2 DEF Put
    <3>4. skb' \in Rests /\ tx_skb' \in Rests
      <4>1. skb' = None /\ tx_skb' = Hand'
        BY <2>5 DEF WriteSkb, Hand
      <4>2. PICK n \in 0..(Size(Hand.frame) - Hand.from + 1) :
              Hand' = IF n < Size(Hand.frame) - Hand.from + 1
                      THEN [frame |-> Hand.frame, from |-> Hand.from + n] ELSE None
        BY <3>2 DEF Put
      <4>3. Hand.frame \in Frames /\ Hand.from \in 1..2 /\ Size(Hand.frame) \in 1..2
        BY <3>2, HandType DEF Put, Size
      <4>4. n < Size(Hand.frame) - Hand.from + 1 => Hand.from + n \in 1..2
        BY <4>2, <4>3
      <4> QED
        BY <4>1, <4>2, <4>3, <4>4 DEF Rests
    <3>5. UNCHANGED <<sending, wakeup, txq, do_write_wakeup, drained, passedBy>>
      BY <2>5 DEF WriteSkb
    <3> QED
      BY <2>0, <3>1, <3>3, <3>4, <3>5 DEF TypeOK
  <2>6. CASE Check(t)
    <3>1. pc' \in [Threads -> Labels]
      BY <1>1, <2>6 DEF Check, Goto
    <3>2. UNCHANGED <<sending, wakeup, skb, tx_skb, txq, do_write_wakeup, uart, drained,
                      passedBy>>
      BY <2>6 DEF Check
    <3> QED
      BY <2>0, <3>1, <3>2 DEF TypeOK
  <2>7. CASE Release(t)
    <3>1. pc' \in [Threads -> Labels]
      BY <1>1, <2>7 DEF Release, Goto
    <3>2. sending' \in BOOLEAN
      BY <2>7 DEF Release
    <3>3. UNCHANGED <<wakeup, skb, tx_skb, txq, do_write_wakeup, uart, drained, passedBy>>
      BY <2>7 DEF Release
    <3> QED
      BY <2>0, <3>1, <3>2, <3>3 DEF TypeOK
  <2> QED
    BY <1>8, <2>1, <2>2, <2>3, <2>4, <2>5, <2>6, <2>7 DEF TxWakeup
<1> QED
  BY <1>2, <1>3, <1>4, <1>5, <1>6, <1>7, <1>8 DEF Next

-----------------------------------------------------------------------------
(* ... and what a frame's units look like ...                              *)
LEMMA HandSame ==
    ASSUME Hand' = Hand
    PROVE  (HandData' <=> HandData) /\ (HandWakes' <=> HandWakes)
  BY DEF HandData, HandWakes

LEMMA FrameTake ==
    ASSUME TypeOK, LoopInv, FrameInv, Take
    PROVE  FrameInv'
<1>1. /\ Hand = None /\ ~HandData /\ Hand'.from = 1 /\ uart' = uart /\ part' = part
  BY DEF Take, Kept, HandData
<1> QED
  BY <1>1 DEF FrameInv

LEMMA FramePut ==
    ASSUME TypeOK, LoopInv, FrameInv, Put
    PROVE  FrameInv'
<1> DEFINE f == Hand.frame
           k == Hand.from
<1>1. PICK n \in 0..(Size(f) - k + 1) :
         /\ uart' \in Seq(Frames \X {1, 2})
         /\ Len(uart') = Len(uart) + n
         /\ \A i \in 1..Len(uart) : uart'[i] = uart[i]
         /\ \A i \in (Len(uart) + 1)..(Len(uart) + n) :
              uart'[i] = <<f, k + (i - Len(uart) - 1)>>
         /\ Hand' = IF n < Size(f) - k + 1 THEN [frame |-> f, from |-> k + n] ELSE None
  BY DEF Put
<1>2. Hand # None /\ part' = part /\ f \in Frames /\ k \in 1..2
  BY HandType DEF Put, Kept
<1>3. uart \in Seq(Frames \X {1, 2}) /\ Len(uart) \in Nat /\ n \in Nat
  BY <1>1, <1>2 DEF TypeOK, Size
<1>4. f \notin Data => k = 1 /\ Size(f) = 1 /\ n \in 0..1
  BY <1>1, <1>2 DEF FrameInv, Size
<1>5. f \in Data => Size(f) = 2 /\ n <= 3 - k
  BY <1>1, <1>2, <1>3 DEF Size
<1>6. Hand' # None => Hand'.frame = f /\ Hand'.from = k + n
  BY <1>1
<1>7. f \in Data /\ k + n <= 2 => HandData'
  <2>1. f \in Data /\ k + n <= 2 => n < Size(f) - k + 1
    BY <1>2, <1>3, <1>5
  <2>2. f \in Data /\ k + n <= 2 => [frame |-> f, from |-> k + n] # None
    <3>1. f \in Data /\ k + n <= 2 => k + n \in 1..2
      BY <1>2, <1>3
    <3> QED
      BY <3>1, RestIsNotNone
  <2> QED
    BY <1>1, <2>1, <2>2 DEF HandData
<1>8. /\ \A i \in 1..Len(uart) : uart'[i] = uart[i]
      /\ \A i \in (Len(uart) + 1)..Len(uart') :
           uart'[i][1] = f /\ uart'[i][2] = k + (i - Len(uart) - 1)
  BY <1>1
<1> HIDE DEF f, k
<1>9. ASSUME NEW i \in 1..Len(uart'), uart'[i][1] \notin Data
      PROVE  uart'[i][2] = 1
  <2>1. CASE i <= Len(uart)
    BY <1>3, <1>8, <1>9, <2>1 DEF FrameInv
  <2>2. CASE i > Len(uart)
    <3>1. i \in (Len(uart) + 1)..Len(uart')
      BY <1>1, <1>3, <2>2
    <3>2. f \notin Data
      BY <1>8, <1>9, <3>1
    <3>3. i = Len(uart) + 1 /\ k = 1
      BY <1>1, <1>3, <1>4, <3>1, <3>2
    <3> QED
      BY <1>3, <1>8, <3>1, <3>3
  <2> QED
    BY <1>1, <1>3, <2>1, <2>2
<1>10. Hand' # None /\ Hand'.frame \notin Data => Hand'.from = 1
  <2>1. CASE Hand' # None /\ f \notin Data
    <3>1. n < Size(f) - k + 1
      BY <1>1, <2>1
    <3> QED
      BY <1>3, <1>4, <1>6, <2>1, <3>1
  <2> QED
    BY <1>6, <2>1
<1>11. ASSUME NEW i \in 1..Len(uart'), uart'[i][1] \in Data, uart'[i][2] = 1
       PROVE  IF i < Len(uart') THEN uart'[i + 1][1] \in Data ELSE HandData'
  <2>1. CASE i < Len(uart)
    <3>1. i \in 1..Len(uart) /\ i + 1 \in 1..Len(uart) /\ i < Len(uart')
      BY <1>1, <1>3, <2>1
    <3> QED
      BY <1>8, <1>11, <2>1, <3>1 DEF FrameInv
  <2>2. CASE i = Len(uart)
    <3>1. HandData
      BY <1>3, <1>8, <1>11, <2>2 DEF FrameInv
    <3>2. f \in Data
      BY <3>1 DEF HandData, f
    <3>3. CASE n = 0
      BY <1>1, <1>2, <1>3, <1>7, <2>2, <3>2, <3>3
    <3>4. CASE n > 0
      <4>1. i < Len(uart') /\ i + 1 \in (Len(uart) + 1)..Len(uart')
        BY <1>1, <1>3, <2>2, <3>4
      <4> QED
        BY <1>8, <3>2, <4>1
    <3> QED
      BY <1>3, <3>3, <3>4
  <2>3. CASE i > Len(uart)
    <3>1. i \in (Len(uart) + 1)..Len(uart')
      BY <1>1, <1>3, <2>3
    <3>2. f \in Data /\ k + (i - Len(uart) - 1) = 1
      BY <1>8, <1>11, <3>1
    <3>3. i = Len(uart) + 1 /\ k = 1
      BY <1>2, <1>3, <3>1, <3>2
    <3>4. CASE i < Len(uart')
      <4>1. i + 1 \in (Len(uart) + 1)..Len(uart')
        BY <1>1, <1>3, <3>1, <3>4
      <4> QED
        BY <1>8, <3>2, <3>4, <4>1
    <3>5. CASE ~(i < Len(uart'))
      <4>1. n = 1
        BY <1>1, <1>3, <3>1, <3>3, <3>5
      <4> QED
        BY <1>7, <3>2, <3>3, <3>5, <4>1
    <3> QED
      BY <3>4, <3>5
  <2> QED
    BY <1>1, <1>3, <2>1, <2>2, <2>3
<1>12. part' # None => IF uart' # <<>> THEN uart'[1][1] \in Data ELSE HandData'
  <2>1. CASE part # None /\ uart # <<>>
    <3>1. uart' # <<>> /\ 1 \in 1..Len(uart)
      BY <1>1, <1>3, <2>1
    <3> QED
      BY <1>8, <2>1, <3>1 DEF FrameInv
  <2>2. CASE part # None /\ uart = <<>>
    <3>1. f \in Data
      BY <2>2 DEF FrameInv, HandData, f
    <3>2. Len(uart) = 0 /\ Len(uart') = n
      BY <1>1, <1>3, <2>2
    <3>3. CASE n = 0
      <4>1. uart' = <<>>
        BY <1>1, <3>2, <3>3
      <4> QED
        BY <1>2, <1>7, <3>1, <3>3, <4>1
    <3>4. CASE n > 0
      <4>1. uart' # <<>> /\ 1 \in (Len(uart) + 1)..Len(uart')
        BY <1>1, <1>3, <3>2, <3>4
      <4> QED
        BY <1>8, <3>1, <4>1
    <3> QED
      BY <1>3, <3>3, <3>4
  <2> QED
    BY <1>2, <2>1, <2>2
<1> QED
  BY <1>9, <1>10, <1>11, <1>12 DEF FrameInv

LEMMA FrameDrain ==
    ASSUME TypeOK, LoopInv, FrameInv, Hears, HearsSignal \/ HearsPacket
    PROVE  FrameInv'
<1>1. /\ uart \in Seq(Frames \X {1, 2}) /\ uart # <<>> /\ uart' = Tail(uart)
      /\ Len(uart) \in Nat /\ Hand' = Hand
  BY DEF TypeOK, Hears
<1>2. /\ Len(uart') = Len(uart) - 1 /\ \A i \in 1..Len(uart') : uart'[i] = uart[i + 1]
      /\ Head(uart) = uart[1] /\ 1 \in 1..Len(uart)
  BY <1>1
<1>3. HandData' <=> HandData
  BY <1>1, HandSame
<1>4. ASSUME NEW i \in 1..Len(uart')
      PROVE  /\ uart'[i][1] \notin Data => uart'[i][2] = 1
             /\ uart'[i][1] \in Data /\ uart'[i][2] = 1 =>
                  IF i < Len(uart') THEN uart'[i + 1][1] \in Data ELSE HandData'
  <2>1. /\ i + 1 \in 1..Len(uart) /\ uart'[i] = uart[i + 1]
        /\ i < Len(uart') <=> i + 1 < Len(uart)
    BY <1>1, <1>2
  <2>2. i < Len(uart') => uart'[i + 1] = uart[(i + 1) + 1]
    BY <1>1, <1>2
  <2> QED
    BY <1>3, <2>1, <2>2 DEF FrameInv
<1>5. part' # None => IF uart' # <<>> THEN uart'[1][1] \in Data ELSE HandData'
  <2> SUFFICES ASSUME part' # None
               PROVE  IF uart' # <<>> THEN uart'[1][1] \in Data ELSE HandData'
    OBVIOUS
  <2>1. uart[1][1] \in Data /\ uart[1][2] = 1
    BY <1>2 DEF HearsSignal, HearsPacket
  <2>2. IF 1 < Len(uart) THEN uart[1 + 1][1] \in Data ELSE HandData
    BY <1>2, <2>1 DEF FrameInv
  <2>3. CASE uart' # <<>>
    <3>1. 1 < Len(uart) /\ 1 \in 1..Len(uart')
      BY <1>1, <1>2, <2>3
    <3> QED
      BY <1>2, <2>2, <2>3, <3>1
  <2>4. CASE uart' = <<>>
    <3>1. ~(1 < Len(uart))
      <4>1. Len(uart') = 0
        BY <2>4
      <4> QED
        BY <1>1, <1>2, <4>1
    <3> QED
      BY <1>3, <2>2, <2>4, <3>1
  <2> QED
    BY <2>3, <2>4
<1> QED
  BY <1>1, <1>4, <1>5 DEF FrameInv

(* What a step does to the frames and to the chip.                         *)
LEMMA Steps ==
    ASSUME TypeOK, LoopInv, FrameInv, Next
    PROVE  \/ \E s \in Senders : SendFrame(s)
           \/ Recv \/ ChipAsks \/ Take \/ Put \/ Stay
           \/ Drain /\ Hears /\ (HearsSignal \/ HearsPacket)
<1>1. ASSUME NEW t \in Threads, TxWakeup(t), Driver
      PROVE  Take \/ Put \/ Stay
  BY <1>1, OthersStay, DequeueTakes, WritePuts DEF TxWakeup
<1> QED
  BY <1>1, TtyStays, DrainHears DEF Next

LEMMA FrameStep ==
    ASSUME TypeOK, LoopInv, FrameInv, [Next]_vars
    PROVE  FrameInv'
<1>1. CASE UNCHANGED <<uart, Hand, part>>
  BY <1>1, HandSame DEF FrameInv
<1>2. CASE UNCHANGED vars
  BY <1>1, <1>2 DEF vars, ldisc, hand, Hand
<1>3. ASSUME NEW s \in Senders, SendFrame(s)
      PROVE  FrameInv'
  BY <1>1, <1>3 DEF SendFrame, hand, Hand
<1>4. CASE Recv
  BY <1>1, <1>4 DEF Recv, hand, Hand
<1>5. CASE ChipAsks
  BY <1>1, <1>5 DEF ChipAsks, ldisc, hand, Hand
<1>6. CASE Stay
  BY <1>1, <1>6 DEF Stay, Kept
<1> QED
  BY <1>2, <1>3, <1>4, <1>5, <1>6, Steps, FrameTake, FramePut, FrameDrain

-----------------------------------------------------------------------------
(* ... and the chip does not sleep while anything but the request to wake  *)
(* up is on its way.                                                       *)
LEMMA SleepTake ==
    ASSUME TypeOK, LoopInv, FrameInv, SleepInv, Take
    PROVE  SleepInv'
<1>1. /\ Hand = None /\ txq # <<>> /\ txq \in Seq(Frames) /\ txq' = Tail(txq)
      /\ Hand'.frame = txq[1]
      /\ uart' = uart /\ toHost' = toHost /\ chip' = chip /\ hcill_state' = hcill_state
  BY DEF Take, Kept, TypeOK
<1>2. /\ Len(txq) \in Nat /\ 1 \in 1..Len(txq) /\ Len(txq') = Len(txq) - 1
      /\ \A i \in 1..Len(txq') : i + 1 \in 1..Len(txq) /\ txq'[i] = txq[i + 1]
  BY <1>1
<1>3. ASSUME QueueWakes(1)
      PROVE  HandWakes' /\ QueueWakes(1)'
  BY <1>1, <1>2, <1>3 DEF QueueWakes, HandWakes
<1>4. /\ Silent' <=> Silent
      /\ \A k \in Nat : UartWakes(k)' <=> UartWakes(k)
  BY <1>1 DEF Silent, UartWakes
<1>5. /\ toHost' \in {<<>>, <<WAKE_UP_IND>>, <<GO_TO_SLEEP_IND>>, <<WAKE_UP_ACK>>}
      /\ toHost' = <<GO_TO_SLEEP_IND>> => chip' = "going"
  BY <1>1 DEF SleepInv
<1>6. chip' = "asleep" => Silent' /\ UartWakes(1)' /\ HandWakes' /\ QueueWakes(1)'
  BY <1>1, <1>3, <1>4 DEF SleepInv
<1>7. ASSUME NEW i \in 1..Len(uart'), uart'[i][1] = GO_TO_SLEEP_ACK
      PROVE  chip' = "going" /\ Silent' /\ UartWakes(i + 1)' /\ HandWakes' /\ QueueWakes(1)'
  <2>1. i + 1 \in Nat
    OBVIOUS
  <2> QED
    BY <1>1, <1>3, <1>4, <1>7, <2>1 DEF SleepInv
<1>8. ASSUME Hand'.frame = GO_TO_SLEEP_ACK
      PROVE  chip' = "going" /\ Silent' /\ QueueWakes(1)'
  <2>1. chip = "going" /\ Silent /\ QueueWakes(1 + 1)
    BY <1>1, <1>2, <1>8 DEF SleepInv
  <2>2. QueueWakes(1)'
    BY <1>2, <2>1 DEF QueueWakes
  <2> QED
    BY <1>1, <1>4, <2>1, <2>2
<1>9. ASSUME NEW i \in 1..Len(txq'), txq'[i] = GO_TO_SLEEP_ACK
      PROVE  chip' = "going" /\ Silent' /\ QueueWakes(i + 1)'
  <2>1. chip = "going" /\ Silent /\ QueueWakes((i + 1) + 1)
    BY <1>2, <1>9 DEF SleepInv
  <2>2. QueueWakes(i + 1)'
    BY <1>2, <2>1 DEF QueueWakes
  <2> QED
    BY <1>1, <1>4, <2>1, <2>2
<1> QED
  BY <1>5, <1>6, <1>7, <1>8, <1>9 DEF SleepInv

LEMMA SleepPut ==
    ASSUME TypeOK, LoopInv, FrameInv, SleepInv, Put
    PROVE  SleepInv'
<1> DEFINE f == Hand.frame
           k == Hand.from
<1>1. PICK n \in 0..(Size(f) - k + 1) :
         /\ Len(uart') = Len(uart) + n
         /\ \A i \in 1..Len(uart) : uart'[i] = uart[i]
         /\ \A i \in (Len(uart) + 1)..(Len(uart) + n) :
              uart'[i] = <<f, k + (i - Len(uart) - 1)>>
         /\ Hand' = IF n < Size(f) - k + 1 THEN [frame |-> f, from |-> k + n] ELSE None
  BY DEF Put
<1>2. /\ Hand # None /\ f \in Frames /\ k \in 1..2 /\ Len(uart) \in Nat /\ n \in Nat
      /\ txq' = txq /\ toHost' = toHost /\ chip' = chip /\ hcill_state' = hcill_state
  BY <1>1, HandType DEF Put, Kept, TypeOK, Size
<1>3. Hand' # None => Hand'.frame = f
  BY <1>1
<1>4. HandWakes => HandWakes' /\ f = WAKE_UP_IND
  BY <1>2, <1>3 DEF HandWakes
<1>5. /\ \A i \in 1..Len(uart) : uart'[i] = uart[i]
      /\ \A i \in (Len(uart) + 1)..Len(uart') : uart'[i][1] = f
  BY <1>1
<1> HIDE DEF f, k
<1>6. ASSUME NEW j \in Nat \ {0}, UartWakes(j), HandWakes
      PROVE  UartWakes(j)'
  <2> SUFFICES ASSUME NEW i \in j..Len(uart')
               PROVE  uart'[i][1] = WAKE_UP_IND
    BY DEF UartWakes
  <2>1. CASE i <= Len(uart)
    BY <1>2, <1>5, <1>6, <2>1 DEF UartWakes
  <2>2. CASE i > Len(uart)
    <3>1. i \in (Len(uart) + 1)..Len(uart')
      BY <1>1, <1>2, <2>2
    <3> QED
      BY <1>4, <1>5, <1>6, <3>1
  <2> QED
    BY <1>2, <2>1, <2>2
<1>7. /\ Silent' <=> Silent
      /\ \A j \in Nat : QueueWakes(j)' <=> QueueWakes(j)
  BY <1>2 DEF Silent, QueueWakes
<1>8. /\ toHost' \in {<<>>, <<WAKE_UP_IND>>, <<GO_TO_SLEEP_IND>>, <<WAKE_UP_ACK>>}
      /\ toHost' = <<GO_TO_SLEEP_IND>> => chip' = "going"
  BY <1>2 DEF SleepInv
<1>9. chip' = "asleep" => Silent' /\ UartWakes(1)' /\ HandWakes' /\ QueueWakes(1)'
  BY <1>2, <1>4, <1>6, <1>7 DEF SleepInv
<1>10. ASSUME NEW i \in 1..Len(uart'), uart'[i][1] = GO_TO_SLEEP_ACK
       PROVE  chip' = "going" /\ Silent' /\ UartWakes(i + 1)' /\ HandWakes' /\ QueueWakes(1)'
  <2>1. CASE i <= Len(uart)
    <3>1. i \in 1..Len(uart) /\ i + 1 \in Nat \ {0}
      BY <1>2, <2>1
    <3>2. chip = "going" /\ Silent /\ UartWakes(i + 1) /\ HandWakes /\ QueueWakes(1)
      BY <1>5, <1>10, <3>1 DEF SleepInv
    <3> QED
      BY <1>2, <1>4, <1>6, <1>7, <3>1, <3>2
  <2>2. CASE i > Len(uart)
    <3>1. i \in (Len(uart) + 1)..Len(uart')
      BY <1>1, <1>2, <2>2
    <3>2. f = GO_TO_SLEEP_ACK
      BY <1>5, <1>10, <3>1
    <3>3. f \notin Data /\ Size(f) = 1 /\ k = 1
      BY <1>2, <3>2, Apart DEF FrameInv, Size, f, k
    <3>4. n = 1 /\ i = Len(uart')
      BY <1>1, <1>2, <3>1, <3>3
    <3>5. Hand' = None
      BY <1>1, <3>3, <3>4
    <3>6. HandWakes' /\ UartWakes(i + 1)'
      BY <1>2, <3>4, <3>5 DEF HandWakes, UartWakes
    <3>7. chip = "going" /\ Silent /\ QueueWakes(1)
      BY <1>2, <3>2 DEF SleepInv, f
    <3> QED
      BY <1>2, <1>7, <3>6, <3>7
  <2> QED
    BY <1>1, <1>2, <2>1, <2>2
<1>11. ASSUME Hand' # None, Hand'.frame = GO_TO_SLEEP_ACK
       PROVE  chip' = "going" /\ Silent' /\ QueueWakes(1)'
  BY <1>2, <1>3, <1>7, <1>11 DEF SleepInv, f
<1>12. ASSUME NEW i \in 1..Len(txq'), txq'[i] = GO_TO_SLEEP_ACK
       PROVE  chip' = "going" /\ Silent' /\ QueueWakes(i + 1)'
  <2>1. chip = "going" /\ Silent /\ QueueWakes(i + 1) /\ i + 1 \in Nat
    BY <1>2, <1>12 DEF SleepInv, TypeOK
  <2> QED
    BY <1>2, <1>7, <2>1
<1> QED
  BY <1>8, <1>9, <1>10, <1>11, <1>12 DEF SleepInv

LEMMA SleepDrain ==
    ASSUME TypeOK, SleepInv, Hears, HearsSignal \/ HearsPacket
    PROVE  SleepInv'
<1>1. /\ uart \in Seq(Frames \X {1, 2}) /\ uart # <<>> /\ uart' = Tail(uart)
      /\ Len(uart) \in Nat /\ Hand' = Hand /\ txq' = txq /\ hcill_state' = hcill_state
  BY DEF TypeOK, Hears
<1>2. /\ Len(uart') = Len(uart) - 1
      /\ \A i \in 1..Len(uart') : i + 1 \in 1..Len(uart) /\ uart'[i] = uart[i + 1]
      /\ Head(uart) = uart[1] /\ 1 \in 1..Len(uart)
  BY <1>1
<1>3. /\ HandWakes' <=> HandWakes
      /\ \A j \in Nat : QueueWakes(j)' <=> QueueWakes(j)
  BY <1>1, HandSame DEF QueueWakes
<1>4. ASSUME NEW j \in Nat \ {0}, UartWakes(j + 1)
      PROVE  UartWakes(j)'
  BY <1>1, <1>2, <1>4 DEF UartWakes
<1>5. UartWakes(1) => UartWakes(1 + 1)
  BY <1>1 DEF UartWakes
<1>6. CASE UNCHANGED <<chip, toHost>>
  <2>1. Silent' <=> Silent
    BY <1>1, <1>6 DEF Silent
  <2>2. /\ toHost' \in {<<>>, <<WAKE_UP_IND>>, <<GO_TO_SLEEP_IND>>, <<WAKE_UP_ACK>>}
        /\ toHost' = <<GO_TO_SLEEP_IND>> => chip' = "going"
    BY <1>6 DEF SleepInv
  <2>3. chip' = "asleep" => Silent' /\ UartWakes(1)' /\ HandWakes' /\ QueueWakes(1)'
    BY <1>3, <1>4, <1>5, <1>6, <2>1 DEF SleepInv
  <2>4. ASSUME NEW i \in 1..Len(uart'), uart'[i][1] = GO_TO_SLEEP_ACK
        PROVE  chip' = "going" /\ Silent' /\ UartWakes(i + 1)' /\ HandWakes' /\ QueueWakes(1)'
    <3>1. /\ chip = "going" /\ Silent /\ UartWakes((i + 1) + 1) /\ HandWakes
          /\ QueueWakes(1)
      BY <1>2, <2>4 DEF SleepInv
    <3>2. UartWakes(i + 1)'
      BY <1>4, <3>1
    <3> QED
      BY <1>3, <1>6, <2>1, <3>1, <3>2
  <2>5. ASSUME Hand' # None, Hand'.frame = GO_TO_SLEEP_ACK
        PROVE  chip' = "going" /\ Silent' /\ QueueWakes(1)'
    BY <1>1, <1>3, <1>6, <2>1, <2>5 DEF SleepInv
  <2>6. ASSUME NEW i \in 1..Len(txq'), txq'[i] = GO_TO_SLEEP_ACK
        PROVE  chip' = "going" /\ Silent' /\ QueueWakes(i + 1)'
    <3>1. chip = "going" /\ Silent /\ QueueWakes(i + 1) /\ i + 1 \in Nat
      BY <1>1, <2>6 DEF SleepInv, TypeOK
    <3> QED
      BY <1>3, <1>6, <2>1, <3>1
  <2> QED
    BY <2>2, <2>3, <2>4, <2>5, <2>6 DEF SleepInv
<1>7. CASE Head(uart)[1] = GO_TO_SLEEP_ACK /\ chip' = "asleep" /\ UNCHANGED toHost
  <2>1. Silent /\ UartWakes(1 + 1) /\ HandWakes /\ QueueWakes(1)
    BY <1>2, <1>7 DEF SleepInv
  <2>2. Silent' /\ UartWakes(1)' /\ HandWakes' /\ QueueWakes(1)'
    BY <1>1, <1>3, <1>4, <1>7, <2>1 DEF Silent
  <2>3. Silent' => toHost' = <<>>
    BY DEF Silent
  <2> QED
    BY <1>7, <2>2, <2>3, Apart DEF SleepInv, UartWakes, HandWakes, QueueWakes
<1>8. ASSUME \/ chip = "asleep" /\ toHost' = Append(toHost, WAKE_UP_ACK)
             \/ chip = "waking" /\ UNCHANGED toHost,
             chip' \in {"waking", "awake"}
      PROVE  SleepInv'
  <2>1. /\ \A i \in 1..Len(uart) : uart[i][1] # GO_TO_SLEEP_ACK
        /\ Hand # None => Hand.frame # GO_TO_SLEEP_ACK
        /\ \A i \in 1..Len(txq) : txq[i] # GO_TO_SLEEP_ACK
    BY <1>8, Apart DEF SleepInv, UartWakes, HandWakes, QueueWakes
  <2>2. \A i \in 1..Len(uart') : uart'[i][1] # GO_TO_SLEEP_ACK
    BY <1>2, <2>1
  <2>3. /\ toHost' \in {<<>>, <<WAKE_UP_IND>>, <<GO_TO_SLEEP_IND>>, <<WAKE_UP_ACK>>}
        /\ toHost' # <<GO_TO_SLEEP_IND>>
    <3>1. CASE chip = "asleep"
      <4>1. toHost = <<>>
        BY <3>1 DEF SleepInv, Silent
      <4>2. toHost' = <<WAKE_UP_ACK>>
        BY <1>8, <3>1, <4>1
      <4>3. WAKE_UP_ACK # GO_TO_SLEEP_IND
        BY DEF WAKE_UP_ACK, GO_TO_SLEEP_IND
      <4>4. <<WAKE_UP_ACK>>[1] # <<GO_TO_SLEEP_IND>>[1]
        BY <4>3
      <4> QED
        BY <4>2, <4>4
    <3>2. CASE chip = "waking" /\ UNCHANGED toHost
      BY <3>2 DEF SleepInv
    <3> QED
      BY <1>8, <3>1, <3>2
  <2> QED
    BY <1>1, <1>8, <2>1, <2>2, <2>3 DEF SleepInv
<1> QED
  BY <1>6, <1>7, <1>8 DEF HearsSignal, HearsPacket

(* No acknowledgement to go to sleep is anywhere on its way.               *)
NoAck ==
    /\ \A i \in 1..Len(uart) : uart[i][1] # GO_TO_SLEEP_ACK
    /\ Hand # None => Hand.frame # GO_TO_SLEEP_ACK
    /\ \A i \in 1..Len(txq) : txq[i] # GO_TO_SLEEP_ACK

LEMMA SleepSend ==
    ASSUME TypeOK, SleepInv, NEW s \in Senders, SendFrame(s)
    PROVE  SleepInv'
<1> USE DEF hand
<1>1. /\ uart' = uart /\ Hand' = Hand /\ toHost' = toHost /\ chip' = chip
      /\ sent + 1 \in Data /\ Enqueue(sent + 1)
  BY DEF SendFrame, Hand
<1>2. /\ HandWakes' <=> HandWakes
      /\ \A j \in Nat : UartWakes(j)' <=> UartWakes(j)
  BY <1>1, HandSame DEF UartWakes
<1>3. /\ toHost' \in {<<>>, <<WAKE_UP_IND>>, <<GO_TO_SLEEP_IND>>, <<WAKE_UP_ACK>>}
      /\ toHost' = <<GO_TO_SLEEP_IND>> => chip' = "going"
  BY <1>1 DEF SleepInv
<1>4. txq \in Seq(Frames) /\ Len(txq) \in Nat /\ uart \in Seq(Frames \X {1, 2})
  BY DEF TypeOK
<1>5. CASE hcill_state = "AWAKE"
  <2>1. chip # "asleep" /\ NoAck
    BY <1>5 DEF SleepInv, Silent, NoAck
  <2>2. txq' = Append(txq, sent + 1)
    BY <1>1, <1>5, EnqueueDoes
  <2>3. \A i \in 1..Len(txq') : txq'[i] # GO_TO_SLEEP_ACK
    <3> SUFFICES ASSUME NEW i \in 1..Len(txq')
                 PROVE  txq'[i] # GO_TO_SLEEP_ACK
      OBVIOUS
    <3>1. i \in 1..Len(txq) => txq'[i] = txq[i]
      BY <1>1, <1>4, <2>2
    <3>2. i \notin 1..Len(txq) => txq'[i] = sent + 1
      BY <1>1, <1>4, <2>2
    <3> QED
      BY <1>1, <2>1, <3>1, <3>2, Apart DEF NoAck
  <2> QED
    BY <1>1, <1>3, <2>1, <2>3 DEF SleepInv, NoAck
<1>6. CASE hcill_state # "AWAKE"
  <2>1. hcill_state' # "AWAKE" /\ (txq' = txq \/ txq' = Append(txq, WAKE_UP_IND))
    BY <1>1, <1>6, EnqueueDoes
  <2>2. Silent' <=> Silent
    BY <1>1, <1>6, <2>1 DEF Silent
  <2>3. /\ \A i \in 1..Len(txq) : i \in 1..Len(txq') /\ txq'[i] = txq[i]
        /\ \A i \in 1..Len(txq') : i \in 1..Len(txq) \/ txq'[i] = WAKE_UP_IND
    BY <1>4, <2>1
  <2>4. ASSUME NEW j \in Nat \ {0}, QueueWakes(j)
        PROVE  QueueWakes(j)'
    <3> SUFFICES ASSUME NEW i \in j..Len(txq')
                 PROVE  txq'[i] = WAKE_UP_IND
      BY DEF QueueWakes
    <3>1. i \in 1..Len(txq') /\ (i \in 1..Len(txq) => i \in j..Len(txq))
      BY <1>4, <2>1
    <3> QED
      BY <2>3, <2>4, <3>1 DEF QueueWakes
  <2>5. chip' = "asleep" => Silent' /\ UartWakes(1)' /\ HandWakes' /\ QueueWakes(1)'
    BY <1>1, <1>2, <2>2, <2>4 DEF SleepInv
  <2>6. ASSUME NEW i \in 1..Len(uart'), uart'[i][1] = GO_TO_SLEEP_ACK
        PROVE  chip' = "going" /\ Silent' /\ UartWakes(i + 1)' /\ HandWakes' /\ QueueWakes(1)'
    <3>1. i + 1 \in Nat /\ i \in 1..Len(uart) /\ uart[i][1] = GO_TO_SLEEP_ACK
      BY <1>1, <1>4, <2>6
    <3> QED
      BY <1>1, <1>2, <2>2, <2>4, <3>1 DEF SleepInv
  <2>7. ASSUME Hand' # None, Hand'.frame = GO_TO_SLEEP_ACK
        PROVE  chip' = "going" /\ Silent' /\ QueueWakes(1)'
    BY <1>1, <2>2, <2>4, <2>7 DEF SleepInv
  <2>8. ASSUME NEW i \in 1..Len(txq'), txq'[i] = GO_TO_SLEEP_ACK
        PROVE  chip' = "going" /\ Silent' /\ QueueWakes(i + 1)'
    <3>1. i \in 1..Len(txq) /\ txq[i] = GO_TO_SLEEP_ACK
      BY <2>3, <2>8, Apart
    <3>2. chip = "going" /\ Silent /\ QueueWakes(i + 1) /\ i + 1 \in Nat \ {0}
      BY <1>4, <3>1 DEF SleepInv
    <3> QED
      BY <1>1, <2>2, <2>4, <3>2
  <2> QED
    BY <1>3, <2>5, <2>6, <2>7, <2>8 DEF SleepInv
<1> QED
  BY <1>5, <1>6

LEMMA SleepRecv ==
    ASSUME TypeOK, SleepInv, Recv
    PROVE  SleepInv'
<1> USE DEF hand
<1>1. uart' = uart /\ Hand' = Hand /\ chip' = chip
  BY DEF Recv, Hand
<1>2. toHost # <<>> /\ toHost' = <<>>
  BY RecvDoes
<1>3. chip # "asleep" /\ NoAck
  BY <1>2 DEF SleepInv, Silent, NoAck
<1>4. /\ txq \in Seq(Frames) /\ Len(txq) \in Nat
      /\ tx_wait_q \in Seq(Data) /\ Len(tx_wait_q) \in Nat
  BY DEF TypeOK
<1>5. toHost' # <<GO_TO_SLEEP_IND>>
  BY <1>2
<1>6. ASSUME \A i \in 1..Len(txq') : txq'[i] # GO_TO_SLEEP_ACK
      PROVE  SleepInv'
  BY <1>1, <1>2, <1>3, <1>5, <1>6 DEF SleepInv, NoAck
<1>7. ASSUME NEW q \in Seq(Frames), \A i \in 1..Len(q) : q[i] # GO_TO_SLEEP_ACK, DoAwake(q)
      PROVE  SleepInv'
  <2>1. txq' = q \o tx_wait_q /\ tx_wait_q \in Seq(Frames) /\ Len(q) \in Nat
    BY <1>4, <1>7 DEF DoAwake, Frames
  <2>2. ASSUME NEW i \in 1..Len(txq')
        PROVE  txq'[i] # GO_TO_SLEEP_ACK
    <3>1. i \in 1..Len(q) => txq'[i] = q[i]
      BY <1>4, <2>1
    <3>2. i \notin 1..Len(q) =>
            i - Len(q) \in 1..Len(tx_wait_q) /\ txq'[i] = tx_wait_q[i - Len(q)]
      BY <1>4, <2>1
    <3>3. \A j \in 1..Len(tx_wait_q) : tx_wait_q[j] \in Data
      BY <1>4
    <3> QED
      BY <1>7, <3>1, <3>2, <3>3, Apart
  <2> QED
    BY <1>6, <2>2
<1>8. CASE DoAwake(txq)
  BY <1>3, <1>4, <1>7, <1>8 DEF NoAck
<1>9. CASE DoAwake(Append(txq, WAKE_UP_ACK))
  <2>1. Append(txq, WAKE_UP_ACK) \in Seq(Frames)
    BY <1>4 DEF Frames, Signals
  <2>2. \A i \in 1..Len(Append(txq, WAKE_UP_ACK)) :
           Append(txq, WAKE_UP_ACK)[i] # GO_TO_SLEEP_ACK
    BY <1>3, <1>4, Apart DEF NoAck
  <2> QED
    BY <1>7, <1>9, <2>1, <2>2
<1>10. CASE UNCHANGED <<txq, tx_wait_q, hcill_state>>
  BY <1>3, <1>6, <1>10 DEF NoAck
<1>11. CASE /\ toHost = <<GO_TO_SLEEP_IND>> /\ txq' = Append(txq, GO_TO_SLEEP_ACK)
            /\ hcill_state' = "ASLEEP"
  <2>1. chip' = "going" /\ Silent'
    BY <1>1, <1>2, <1>11 DEF SleepInv, Silent
  <2>2. ASSUME NEW i \in 1..Len(txq'), txq'[i] = GO_TO_SLEEP_ACK
        PROVE  QueueWakes(i + 1)'
    <3>1. Len(txq') = Len(txq) + 1
      BY <1>4, <1>11
    <3>2. i \in 1..Len(txq) => txq'[i] = txq[i]
      BY <1>4, <1>11
    <3>3. i = Len(txq')
      BY <1>3, <1>4, <2>2, <3>1, <3>2 DEF NoAck
    <3> QED
      BY <1>4, <3>1, <3>3 DEF QueueWakes
  <2> QED
    BY <1>1, <1>2, <1>3, <1>5, <2>1, <2>2 DEF SleepInv, NoAck
<1> QED
  BY <1>8, <1>9, <1>10, <1>11, RecvDoes

LEMMA SleepAsk ==
    ASSUME TypeOK, SleepInv, ChipAsks
    PROVE  SleepInv'
<1>1. /\ uart' = uart /\ Hand' = Hand /\ txq' = txq
      /\ chip \in {"awake", "asleep"} /\ chip' \in {"going", "waking"}
  BY DEF ChipAsks, ldisc, hand, Hand
<1>2. NoAck
  BY <1>1, Apart DEF SleepInv, NoAck, UartWakes, HandWakes, QueueWakes
<1>3. /\ toHost' \in {<<>>, <<WAKE_UP_IND>>, <<GO_TO_SLEEP_IND>>, <<WAKE_UP_ACK>>}
      /\ toHost' = <<GO_TO_SLEEP_IND>> => chip' = "going"
  <2>1. <<WAKE_UP_IND>>[1] # <<GO_TO_SLEEP_IND>>[1]
    BY Apart
  <2> QED
    BY <2>1 DEF ChipAsks
<1> QED
  BY <1>1, <1>2, <1>3 DEF SleepInv, NoAck

LEMMA SleepStep ==
    ASSUME TypeOK, LoopInv, FrameInv, SleepInv, [Next]_vars
    PROVE  SleepInv'
<1>1. CASE UNCHANGED <<uart, Hand, txq, toHost, chip, hcill_state>>
  <2>1. /\ Silent' <=> Silent
        /\ HandWakes' <=> HandWakes
        /\ \A j \in Nat : UartWakes(j)' <=> UartWakes(j)
        /\ \A j \in Nat : QueueWakes(j)' <=> QueueWakes(j)
    BY <1>1, HandSame DEF Silent, UartWakes, QueueWakes
  <2>2. UNCHANGED uart /\ UNCHANGED Hand /\ UNCHANGED txq /\ UNCHANGED toHost /\ UNCHANGED chip
    BY <1>1
  <2> QED
    BY <2>1, <2>2 DEF SleepInv
<1>2. CASE UNCHANGED vars
  BY <1>1, <1>2 DEF vars, ldisc, hand, Hand
<1>3. CASE Stay
  BY <1>1, <1>3 DEF Stay, Kept
<1> QED
  BY <1>2, <1>3, Steps, SleepSend, SleepRecv, SleepAsk, SleepTake, SleepPut, SleepDrain

-----------------------------------------------------------------------------
(* What taking from and adding to the queues does to the packets in them.  *)
LEMMA FramesAreInt == Frames \subseteq Int /\ Data \subseteq Frames /\ Signals \subseteq Frames
  BY Apart DEF Frames, Signals, GO_TO_SLEEP_IND, GO_TO_SLEEP_ACK, WAKE_UP_IND, WAKE_UP_ACK

LEMMA NumType ==
    ASSUME NEW q \in Seq(Frames \X {1, 2}), NEW i \in 1..Len(q)
    PROVE  Num(q[i]) \in Int /\ q[i][1] \in Int /\ q[i][2] \in {1, 2}
<1>1. q[i] \in Frames \X {1, 2}
  OBVIOUS
<1>2. q[i][1] \in Frames /\ q[i][2] \in {1, 2}
  BY <1>1
<1>3. q[i][1] \in Int
  BY <1>2, FramesAreInt
<1> QED
  BY <1>2, <1>3 DEF Num

LEMMA RunDrops ==
    ASSUME NEW q \in Seq(Frames \X {1, 2}), q # <<>>, NEW low \in Nat, NEW u \in Nat,
           Run(q, low, u)
    PROVE  /\ q[1][1] \in Data => Num(q[1]) = low + 1 /\ Run(Tail(q), low + 1, u)
           /\ q[1][1] \notin Data => Run(Tail(q), low, u)
<1> DEFINE r == Tail(q)
<1>1. /\ Len(q) \in Nat /\ 1 \in 1..Len(q) /\ Len(r) = Len(q) - 1
      /\ \A i \in 1..Len(r) : i + 1 \in 1..Len(q) /\ r[i] = q[i + 1]
      /\ \A i \in 1..Len(q) : i # 1 => i - 1 \in 1..Len(r) /\ r[i - 1] = q[i]
  OBVIOUS
<1>2. \A i \in 1..Len(q) : Num(q[i]) \in Int
  BY NumType
<1> HIDE DEF r
<1>3. \A i, j \in 1..Len(r) : r[i][1] \in Data /\ r[j][1] \in Data /\ i < j
                             => Num(r[i]) < Num(r[j])
  <2> SUFFICES ASSUME NEW i \in 1..Len(r), NEW j \in 1..Len(r),
                      r[i][1] \in Data, r[j][1] \in Data, i < j
               PROVE  Num(r[i]) < Num(r[j])
    OBVIOUS
  <2>1. /\ i + 1 \in 1..Len(q) /\ j + 1 \in 1..Len(q) /\ i + 1 < j + 1
        /\ r[i] = q[i + 1] /\ r[j] = q[j + 1]
    BY <1>1
  <2> QED
    BY <2>1 DEF Run
<1>4. CASE q[1][1] \notin Data
  <2>1. \A i \in 1..Len(r) : r[i][1] \in Data => low < Num(r[i]) /\ Num(r[i]) <= u
    BY <1>1 DEF Run
  <2>2. ASSUME NEW k \in (low + 1)..u
        PROVE  \E i \in 1..Len(r) : r[i][1] \in Data /\ Num(r[i]) = k
    <3>1. PICK i \in 1..Len(q) : q[i][1] \in Data /\ Num(q[i]) = k
      BY <2>2 DEF Run
    <3>2. i # 1
      BY <1>4, <3>1
    <3> QED
      BY <1>1, <3>1, <3>2
  <2> QED
    BY <1>3, <1>4, <2>1, <2>2 DEF Run, r
<1>5. CASE q[1][1] \in Data
  <2>1. low < Num(q[1]) /\ Num(q[1]) <= u /\ Num(q[1]) \in Int
    BY <1>1, <1>2, <1>5 DEF Run
  <2>2. low + 1 \in (low + 1)..u
    BY <2>1
  <2>3. PICK i \in 1..Len(q) : q[i][1] \in Data /\ Num(q[i]) = low + 1
    BY <2>2 DEF Run
  <2>4. Num(q[1]) = low + 1
    <3>1. CASE i = 1
      BY <2>3, <3>1
    <3>2. CASE i # 1
      <4>1. 1 < i
        BY <1>1, <3>2
      <4>2. Num(q[1]) < Num(q[i])
        BY <1>1, <1>5, <2>3, <4>1 DEF Run
      <4> QED
        BY <2>1, <2>3, <4>2
    <3> QED
      BY <3>1, <3>2
  <2>5. ASSUME NEW j \in 1..Len(r), r[j][1] \in Data
        PROVE  low + 1 < Num(r[j]) /\ Num(r[j]) <= u
    <3>1. j + 1 \in 1..Len(q) /\ r[j] = q[j + 1] /\ 1 < j + 1
      BY <1>1
    <3>2. Num(q[1]) < Num(q[j + 1]) /\ Num(q[j + 1]) <= u
      BY <1>1, <1>5, <2>5, <3>1 DEF Run
    <3> QED
      BY <2>4, <3>1, <3>2
  <2>6. ASSUME NEW k \in ((low + 1) + 1)..u
        PROVE  \E j \in 1..Len(r) : r[j][1] \in Data /\ Num(r[j]) = k
    <3>1. k \in (low + 1)..u /\ k # low + 1
      OBVIOUS
    <3>2. PICK j \in 1..Len(q) : q[j][1] \in Data /\ Num(q[j]) = k
      BY <3>1 DEF Run
    <3>3. j # 1
      BY <2>4, <3>1, <3>2
    <3> QED
      BY <1>1, <3>2, <3>3
  <2>7. low + 1 <= u
    BY <2>1
  <2> QED
    BY <1>3, <1>5, <2>4, <2>5, <2>6, <2>7 DEF Run, r
<1> QED
  BY <1>4, <1>5

LEMMA RunGrows ==
    ASSUME NEW q \in Seq(Frames \X {1, 2}), NEW low \in Nat, NEW u \in Nat, Run(q, low, u),
           NEW r \in Seq(Frames \X {1, 2}), NEW n \in Nat, Len(r) = Len(q) + n,
           \A i \in 1..Len(q) : r[i] = q[i],
           NEW f \in Frames,
           \A i \in (Len(q) + 1)..Len(r) : r[i][1] = f,
           f \in Data => \A i \in (Len(q) + 1)..Len(r) : Num(r[i]) = u + (i - Len(q))
    PROVE  Run(r, low, IF f \in Data THEN u + n ELSE u)
<1> DEFINE w == IF f \in Data THEN u + n ELSE u
           Old == 1..Len(q)
           New == (Len(q) + 1)..Len(r)
<1>1. /\ Len(q) \in Nat /\ Len(r) \in Nat /\ w \in Nat /\ u <= w
      /\ \A i \in Old : i \in 1..Len(r) /\ Num(r[i]) = Num(q[i]) /\ Num(r[i]) \in Int
      /\ \A i \in 1..Len(r) : i \in Old \/ i \in New
      /\ \A i \in New : i \in 1..Len(r)
  <2>1. Len(q) \in Nat /\ Len(r) \in Nat /\ w \in Nat /\ u <= w
    OBVIOUS
  <2>2. \A i \in Old : i \in 1..Len(r) /\ r[i] = q[i]
    BY <2>1
  <2>3. \A i \in Old : Num(q[i]) \in Int
    BY NumType
  <2> QED
    BY <2>1, <2>2, <2>3
<1>2. \A i \in New : r[i][1] \in Data => f \in Data /\ Num(r[i]) = u + (i - Len(q))
  OBVIOUS
<1>3. \A i \in Old : r[i][1] \in Data => low < Num(r[i]) /\ Num(r[i]) <= u
  BY <1>1 DEF Run
<1>4. ASSUME NEW i \in 1..Len(r), r[i][1] \in Data
      PROVE  low < Num(r[i]) /\ Num(r[i]) <= w
  <2>1. CASE i \in Old
    BY <1>1, <1>3, <1>4, <2>1
  <2>2. CASE i \in New
    <3>1. f \in Data /\ Num(r[i]) = u + (i - Len(q)) /\ i - Len(q) \in 1..n
      BY <1>1, <1>2, <1>4, <2>2
    <3>2. low <= u
      BY DEF Run
    <3> QED
      BY <3>1, <3>2
  <2> QED
    BY <1>1, <2>1, <2>2
<1>5. ASSUME NEW i \in 1..Len(r), NEW j \in 1..Len(r),
             r[i][1] \in Data, r[j][1] \in Data, i < j
      PROVE  Num(r[i]) < Num(r[j])
  <2>1. CASE i \in Old /\ j \in Old
    BY <1>1, <1>5, <2>1 DEF Run
  <2>2. CASE i \in Old /\ j \in New
    <3>1. Num(r[j]) = u + (j - Len(q)) /\ j - Len(q) \in 1..n
      BY <1>1, <1>2, <1>5, <2>2
    <3> QED
      BY <1>1, <1>3, <1>5, <2>2, <3>1
  <2>3. CASE i \in New /\ j \in New
    BY <1>1, <1>2, <1>5, <2>3
  <2>4. ~(i \in New /\ j \in Old)
    BY <1>1, <1>5
  <2> QED
    BY <1>1, <2>1, <2>2, <2>3, <2>4
<1>6. ASSUME NEW k \in (low + 1)..w
      PROVE  \E i \in 1..Len(r) : r[i][1] \in Data /\ Num(r[i]) = k
  <2>1. CASE k <= u
    <3>1. k \in (low + 1)..u
      BY <1>1, <2>1
    <3>2. PICK i \in 1..Len(q) : q[i][1] \in Data /\ Num(q[i]) = k
      BY <3>1 DEF Run
    <3> QED
      BY <1>1, <3>2
  <2>2. CASE k > u
    <3>1. f \in Data /\ k - u \in 1..n
      BY <1>1, <2>2
    <3>2. Len(q) + (k - u) \in New
      BY <1>1, <3>1
    <3>3. (Len(q) + (k - u)) - Len(q) = k - u /\ u + (k - u) = k
      BY <1>1
    <3>4. r[Len(q) + (k - u)][1] = f /\ Num(r[Len(q) + (k - u)]) = k
      BY <3>1, <3>2, <3>3
    <3> QED
      BY <1>1, <3>1, <3>2, <3>4
  <2> QED
    BY <1>1, <2>1, <2>2
<1>7. low <= w
  BY <1>1 DEF Run
<1> HIDE DEF w
<1>8. Run(r, low, w)
  BY <1>4, <1>5, <1>6, <1>7 DEF Run
<1> QED
  BY <1>8 DEF w

LEMMA LineDrops ==
    ASSUME NEW q \in Seq(Frames), q # <<>>, NEW v \in Nat, NEW w \in Nat, Line(q, v, w)
    PROVE  /\ q[1] \in Data => q[1] = v + 1 /\ Line(Tail(q), v + 1, w)
           /\ q[1] \notin Data => Line(Tail(q), v, w)
<1> DEFINE r == Tail(q)
<1>1. /\ Len(q) \in Nat /\ 1 \in 1..Len(q) /\ Len(r) = Len(q) - 1
      /\ \A i \in 1..Len(r) : i + 1 \in 1..Len(q) /\ r[i] = q[i + 1]
      /\ \A i \in 1..Len(q) : i # 1 => i - 1 \in 1..Len(r) /\ r[i - 1] = q[i]
  OBVIOUS
<1>2. \A i \in 1..Len(q) : q[i] \in Int
  <2>1. \A i \in 1..Len(q) : q[i] \in Frames
    OBVIOUS
  <2> QED
    BY <2>1, FramesAreInt
<1> HIDE DEF r
<1>3. \A i, j \in 1..Len(r) : r[i] \in Data /\ r[j] \in Data /\ i < j => r[i] < r[j]
  <2> SUFFICES ASSUME NEW i \in 1..Len(r), NEW j \in 1..Len(r),
                      r[i] \in Data, r[j] \in Data, i < j
               PROVE  r[i] < r[j]
    OBVIOUS
  <2>1. /\ i + 1 \in 1..Len(q) /\ j + 1 \in 1..Len(q) /\ i + 1 < j + 1
        /\ r[i] = q[i + 1] /\ r[j] = q[j + 1]
    BY <1>1
  <2> QED
    BY <2>1 DEF Line
<1>4. CASE q[1] \notin Data
  <2>1. \A i \in 1..Len(r) : r[i] \in Data => v < r[i] /\ r[i] <= w
    BY <1>1 DEF Line
  <2>2. ASSUME NEW k \in (v + 1)..w
        PROVE  \E i \in 1..Len(r) : r[i] = k /\ r[i] \in Data
    <3>1. PICK i \in 1..Len(q) : q[i] = k /\ q[i] \in Data
      BY <2>2 DEF Line
    <3>2. i # 1
      BY <1>4, <3>1
    <3> QED
      BY <1>1, <3>1, <3>2
  <2> QED
    BY <1>3, <1>4, <2>1, <2>2 DEF Line, r
<1>5. CASE q[1] \in Data
  <2>1. v < q[1] /\ q[1] <= w /\ q[1] \in Int
    BY <1>1, <1>2, <1>5 DEF Line
  <2>2. v + 1 \in (v + 1)..w
    BY <2>1
  <2>3. PICK i \in 1..Len(q) : q[i] = v + 1 /\ q[i] \in Data
    BY <2>2 DEF Line
  <2>4. q[1] = v + 1
    <3>1. CASE i = 1
      BY <2>3, <3>1
    <3>2. CASE i # 1
      <4>1. 1 < i
        BY <1>1, <3>2
      <4>2. q[1] < q[i]
        BY <1>1, <1>5, <2>3, <4>1 DEF Line
      <4> QED
        BY <2>1, <2>3, <4>2
    <3> QED
      BY <3>1, <3>2
  <2>5. ASSUME NEW j \in 1..Len(r), r[j] \in Data
        PROVE  v + 1 < r[j] /\ r[j] <= w
    <3>1. j + 1 \in 1..Len(q) /\ r[j] = q[j + 1] /\ 1 < j + 1
      BY <1>1
    <3>2. q[1] < q[j + 1] /\ q[j + 1] <= w
      BY <1>1, <1>5, <2>5, <3>1 DEF Line
    <3> QED
      BY <2>4, <3>1, <3>2
  <2>6. ASSUME NEW k \in ((v + 1) + 1)..w
        PROVE  \E j \in 1..Len(r) : r[j] = k /\ r[j] \in Data
    <3>1. k \in (v + 1)..w /\ k # v + 1
      OBVIOUS
    <3>2. PICK j \in 1..Len(q) : q[j] = k /\ q[j] \in Data
      BY <3>1 DEF Line
    <3>3. j # 1
      BY <2>4, <3>1, <3>2
    <3> QED
      BY <1>1, <3>2, <3>3
  <2>7. v + 1 <= w
    BY <2>1
  <2> QED
    BY <1>3, <1>5, <2>4, <2>5, <2>6, <2>7 DEF Line, r
<1> QED
  BY <1>4, <1>5

(* Signals do not count, and the packets that follow are the next ones.    *)
LEMMA LineSignal ==
    ASSUME NEW q \in Seq(Frames), NEW v \in Nat, NEW w \in Nat, Line(q, v, w),
           NEW f \in Frames, f \notin Data
    PROVE  Line(Append(q, f), v, w)
<1> DEFINE r == Append(q, f)
<1>1. /\ Len(q) \in Nat /\ Len(r) = Len(q) + 1
      /\ \A i \in 1..Len(q) : i \in 1..Len(r) /\ r[i] = q[i]
      /\ \A i \in 1..Len(r) : r[i] \in Data => i \in 1..Len(q)
  OBVIOUS
<1> HIDE DEF r
<1>2. Line(r, v, w)
  BY <1>1 DEF Line
<1> QED
  BY <1>2 DEF r

LEMMA LineConcat ==
    ASSUME NEW q \in Seq(Frames), NEW v \in Nat, NEW w \in Nat, Line(q, v, w),
           NEW p \in Seq(Data), \A i \in 1..Len(p) : p[i] = w + i
    PROVE  Line(q \o p, v, w + Len(p))
<1> DEFINE r == q \o p
           Old == 1..Len(q)
           New == (Len(q) + 1)..Len(r)
<1>1. /\ Len(q) \in Nat /\ Len(p) \in Nat /\ Len(r) = Len(q) + Len(p)
      /\ \A i \in 1..Len(r) : i \in Old \/ i \in New
      /\ \A i \in Old : i \in 1..Len(r) /\ r[i] = q[i]
      /\ \A i \in New : i \in 1..Len(r)
  OBVIOUS
<1>2. \A i \in New : i - Len(q) \in 1..Len(p) /\ r[i] = p[i - Len(q)]
  <2> SUFFICES ASSUME NEW i \in New
               PROVE  i - Len(q) \in 1..Len(p) /\ r[i] = p[i - Len(q)]
    OBVIOUS
  <2>1. i \in 1..Len(r) /\ i > Len(q) /\ i - Len(q) \in 1..Len(p)
    BY <1>1
  <2> QED
    BY <1>1, <2>1
<1> HIDE DEF r
<1>3. \A i \in New : r[i] = w + (i - Len(q)) /\ r[i] \in Data
  BY <1>2
<1>4. \A i \in Old : q[i] \in Int
  <2>1. \A i \in Old : q[i] \in Frames
    OBVIOUS
  <2> QED
    BY <2>1, FramesAreInt
<1>5. ASSUME NEW i \in 1..Len(r), r[i] \in Data
      PROVE  v < r[i] /\ r[i] <= w + Len(p)
  <2>1. CASE i \in Old
    BY <1>1, <1>4, <1>5, <2>1 DEF Line
  <2>2. CASE i \in New
    <3>1. r[i] = w + (i - Len(q)) /\ i - Len(q) \in 1..Len(p) /\ v <= w
      BY <1>2, <1>3, <2>2 DEF Line
    <3> QED
      BY <1>1, <3>1
  <2> QED
    BY <1>1, <2>1, <2>2
<1>6. ASSUME NEW i \in 1..Len(r), NEW j \in 1..Len(r), r[i] \in Data, r[j] \in Data, i < j
      PROVE  r[i] < r[j]
  <2>1. CASE i \in Old /\ j \in Old
    BY <1>1, <1>6, <2>1 DEF Line
  <2>2. CASE i \in Old /\ j \in New
    <3>1. r[j] = w + (j - Len(q)) /\ j - Len(q) \in 1..Len(p)
      BY <1>2, <1>3, <2>2
    <3>2. r[i] <= w /\ r[i] \in Int
      BY <1>1, <1>4, <1>6, <2>2 DEF Line
    <3> QED
      BY <3>1, <3>2
  <2>3. CASE i \in New /\ j \in New
    BY <1>1, <1>3, <1>6, <2>3
  <2>4. ~(i \in New /\ j \in Old)
    BY <1>1, <1>6
  <2> QED
    BY <1>1, <2>1, <2>2, <2>3, <2>4
<1>7. ASSUME NEW k \in (v + 1)..(w + Len(p))
      PROVE  \E i \in 1..Len(r) : r[i] = k /\ r[i] \in Data
  <2>1. CASE k <= w
    <3>1. k \in (v + 1)..w
      BY <1>1, <2>1
    <3>2. PICK i \in 1..Len(q) : q[i] = k /\ q[i] \in Data
      BY <3>1 DEF Line
    <3> QED
      BY <1>1, <3>2
  <2>2. CASE k > w
    <3>1. Len(q) + (k - w) \in New
      BY <1>1, <2>2
    <3>2. (Len(q) + (k - w)) - Len(q) = k - w /\ w + (k - w) = k
      BY <1>1
    <3>3. r[Len(q) + (k - w)] = k /\ r[Len(q) + (k - w)] \in Data
      BY <1>3, <3>1, <3>2
    <3> QED
      BY <1>1, <3>1, <3>3
  <2> QED
    BY <1>1, <2>1, <2>2
<1>8. v <= w + Len(p)
  BY <1>1 DEF Line
<1>9. Line(r, v, w + Len(p))
  BY <1>5, <1>6, <1>7, <1>8 DEF Line
<1> QED
  BY <1>9 DEF r

-----------------------------------------------------------------------------
(* Every step keeps the packets in order and lets none get lost.           *)
LEMMA Numbers ==
    ASSUME TypeOK, LoopInv, OrderInv
    PROVE  /\ sent \in Nat /\ Low \in Nat /\ Unsent \in Nat /\ Len(tx_wait_q) \in Nat
           /\ Unsent = sent - Len(tx_wait_q) /\ Unsent <= sent
           /\ \A v \in Nat : (HandData => v = Hand.frame) => Upto(v) \in Nat
<1>1. sent \in Nat
  BY Apart DEF TypeOK
<1>2. Len(tx_wait_q) \in Nat /\ Len(got) \in Nat
  BY DEF TypeOK
<1>3. 0 <= Unsent /\ Unsent = sent - Len(tx_wait_q)
  BY DEF OrderInv, Unsent
<1>4. Low \in Nat
  BY <1>2 DEF Low
<1>5. ASSUME NEW v \in Nat, HandData => v = Hand.frame
      PROVE  Upto(v) \in Nat
  <2>1. CASE HandData
    <3>1. v > 0 /\ Hand.from \in 1..2
      BY <1>5, <2>1, HandType, Apart DEF HandData
    <3>2. Upto(v) = 2 * (v - 1) + (Hand.from - 1)
      BY <2>1 DEF Upto
    <3> QED
      BY <3>1, <3>2
  <2>2. CASE ~HandData
    BY <1>5, <2>2 DEF Upto
  <2> QED
    BY <2>1, <2>2
<1>6. Unsent \in Nat /\ Unsent <= sent
  BY <1>1, <1>2, <1>3
<1> QED
  BY <1>1, <1>2, <1>3, <1>4, <1>5, <1>6

LEMMA OrderTake ==
    ASSUME TypeOK, LoopInv, OrderInv, Take
    PROVE  OrderInv'
<1>1. /\ Hand = None /\ ~HandData /\ txq # <<>> /\ txq' = Tail(txq) /\ txq \in Seq(Frames)
      /\ Hand' = [frame |-> txq[1], from |-> 1] /\ txq[1] \in Frames
      /\ uart' = uart /\ hcill_state' = hcill_state /\ tx_wait_q' = tx_wait_q
      /\ part' = part /\ sent' = sent /\ got' = got
  BY DEF Take, Kept, HandData, TypeOK
<1>2. Unsent' = Unsent /\ Low' = Low /\ ArriveInOrder' = ArriveInOrder
  BY <1>1 DEF Unsent, Low, ArriveInOrder
<1>3. PICK v \in 0..sent : Run(uart, Low, Upto(v)) /\ Line(txq, v, Unsent)
  BY DEF OrderInv, Ordered
<1>4. v \in Nat /\ Unsent \in Nat /\ Upto(v) = 2 * v /\ sent \in Nat /\ Unsent <= sent
  BY <1>1, <1>3, Numbers DEF Upto
<1>5. HandData' <=> txq[1] \in Data
  <2>1. CASE txq[1] \in Data
    <3>1. Hand' # None /\ Hand'.frame = txq[1]
      BY <1>1, <2>1, RestIsNotNone
    <3> QED
      BY <2>1, <3>1 DEF HandData
  <2>2. CASE txq[1] \notin Data
    BY <1>1, <2>2 DEF HandData
  <2> QED
    BY <2>1, <2>2
<1>6. CASE txq[1] \in Data
  <2>1. txq[1] = v + 1 /\ Line(Tail(txq), v + 1, Unsent)
    BY <1>1, <1>3, <1>4, <1>6, LineDrops
  <2>2. v + 1 \in 0..sent'
    BY <1>1, <1>4, <2>1 DEF Line
  <2>3. Upto(v + 1)' = Upto(v)
    <3>1. Upto(v + 1)' = 2 * ((v + 1) - 1) + (Hand'.from - 1)
      BY <1>5, <1>6 DEF Upto
    <3>2. Hand'.from = 1
      BY <1>1
    <3> QED
      BY <1>4, <3>1, <3>2
  <2>4. Hand'.frame = v + 1
    BY <1>1, <2>1
  <2>5. Run(uart', Low', Upto(v + 1)') /\ Line(txq', v + 1, Unsent')
    BY <1>1, <1>2, <1>3, <2>1, <2>3
  <2> QED
    BY <1>1, <1>2, <2>2, <2>4, <2>5 DEF OrderInv, Ordered
<1>7. CASE txq[1] \notin Data
  <2>1. Line(Tail(txq), v, Unsent)
    BY <1>1, <1>3, <1>4, <1>7, LineDrops
  <2>2. Upto(v)' = Upto(v)
    BY <1>4, <1>5, <1>7 DEF Upto
  <2>3. Run(uart', Low', Upto(v)') /\ Line(txq', v, Unsent') /\ v \in 0..sent'
    BY <1>1, <1>2, <1>3, <2>1, <2>2
  <2> QED
    BY <1>1, <1>2, <1>5, <1>7, <2>3 DEF OrderInv, Ordered
<1> QED
  BY <1>6, <1>7

LEMMA OrderPut ==
    ASSUME TypeOK, LoopInv, FrameInv, OrderInv, Put
    PROVE  OrderInv'
<1> DEFINE f == Hand.frame
           k == Hand.from
<1>1. PICK n \in 0..(Size(f) - k + 1) :
         /\ uart' \in Seq(Frames \X {1, 2})
         /\ Len(uart') = Len(uart) + n
         /\ \A i \in 1..Len(uart) : uart'[i] = uart[i]
         /\ \A i \in (Len(uart) + 1)..(Len(uart) + n) :
              uart'[i] = <<f, k + (i - Len(uart) - 1)>>
         /\ Hand' = IF n < Size(f) - k + 1 THEN [frame |-> f, from |-> k + n] ELSE None
  BY DEF Put
<1>2. /\ Hand # None /\ f \in Frames /\ k \in 1..2
      /\ HandData <=> f \in Data
      /\ txq' = txq /\ hcill_state' = hcill_state /\ tx_wait_q' = tx_wait_q
      /\ part' = part /\ sent' = sent /\ got' = got
  BY HandType DEF Put, Kept, HandData
<1>3. Unsent' = Unsent /\ Low' = Low /\ ArriveInOrder' = ArriveInOrder
  BY <1>2 DEF Unsent, Low, ArriveInOrder
<1>4. /\ uart \in Seq(Frames \X {1, 2}) /\ Len(uart) \in Nat /\ Size(f) \in 1..2
      /\ n \in Nat
  BY <1>1, <1>2 DEF TypeOK, Size
<1>5. PICK v \in 0..sent : /\ HandData => v = f
                           /\ Run(uart, Low, Upto(v)) /\ Line(txq, v, Unsent)
  BY DEF OrderInv, Ordered
<1>6. v \in Nat /\ Low \in Nat /\ Upto(v) \in Nat
  BY <1>5, Numbers
<1>7. Hand' # None => Hand'.frame = f
  BY <1>1
<1>8. HandData' => f \in Data
  BY <1>7 DEF HandData
<1>9. Upto(v)' = IF f \in Data THEN Upto(v) + n ELSE Upto(v)
  <2>1. CASE f \in Data
    <3>1. Size(f) = 2 /\ n <= 3 - k /\ Upto(v) = 2 * (v - 1) + (k - 1)
      <4>1. Upto(v) = 2 * (v - 1) + (k - 1)
        BY <1>2, <2>1 DEF Upto
      <4>2. Size(f) = 2
        BY <2>1 DEF Size
      <4>3. n <= 3 - k
        <5>1. n \in 0..(2 - k + 1)
          BY <1>1, <4>2
        <5> HIDE DEF f, k
        <5> QED
          BY <1>2, <1>4, <5>1
      <4> QED
        BY <4>1, <4>2, <4>3
    <3>2. CASE n < 3 - k
      <4>1. k + n \in 1..2 /\ n < Size(f) - k + 1
        BY <1>2, <1>4, <3>1, <3>2
      <4>2. Hand' = [frame |-> f, from |-> k + n]
        BY <1>1, <4>1
      <4>3. Hand' # None
        BY <2>1, <4>1, <4>2, RestIsNotNone
      <4>4. Hand'.frame = f /\ Hand'.from = k + n
        BY <4>2
      <4>5. HandData'
        BY <2>1, <4>3, <4>4 DEF HandData
      <4>6. Upto(v)' = 2 * (v - 1) + (Hand'.from - 1)
        BY <4>5 DEF Upto
      <4> HIDE DEF f, k
      <4> QED
        BY <1>2, <1>4, <1>6, <2>1, <3>1, <4>4, <4>6
    <3>3. CASE ~(n < 3 - k)
      <4>1. n = 3 - k
        BY <1>2, <1>4, <3>1, <3>3
      <4>2. ~(n < Size(f) - k + 1)
        BY <1>2, <3>1, <4>1
      <4>3. Hand' = None
        BY <1>1, <4>2
      <4>4. Upto(v)' = 2 * v
        BY <4>3 DEF Upto, HandData
      <4> HIDE DEF f, k
      <4> QED
        BY <1>2, <1>6, <2>1, <3>1, <4>1, <4>4
    <3> QED
      BY <3>2, <3>3
  <2>2. CASE f \notin Data
    BY <1>2, <1>8, <2>2 DEF Upto
  <2> QED
    BY <2>1, <2>2
<1>10. Run(uart', Low, IF f \in Data THEN Upto(v) + n ELSE Upto(v))
  <2>1. \A i \in (Len(uart) + 1)..Len(uart') :
           uart'[i][1] = f /\ uart'[i][2] = k + (i - Len(uart) - 1)
    BY <1>1
  <2>2. f \in Data =>
          \A i \in (Len(uart) + 1)..Len(uart') : Num(uart'[i]) = Upto(v) + (i - Len(uart))
    <3> SUFFICES ASSUME f \in Data, NEW i \in (Len(uart) + 1)..Len(uart')
                 PROVE  Num(uart'[i]) = Upto(v) + (i - Len(uart))
      OBVIOUS
    <3>1. v = f /\ Upto(v) = 2 * (v - 1) + (k - 1)
      BY <1>2, <1>5 DEF Upto
    <3>2. Num(uart'[i]) = 2 * (f - 1) + (k + (i - Len(uart) - 1))
      BY <2>1 DEF Num
    <3> HIDE DEF f, k
    <3> QED
      BY <1>2, <1>4, <1>6, <3>1, <3>2
  <2> HIDE DEF f, k
  <2> QED
    BY <1>1, <1>2, <1>4, <1>5, <1>6, <2>1, <2>2, RunGrows
<1>11. HandData' => v = Hand'.frame
  BY <1>2, <1>5, <1>7, <1>8 DEF HandData
<1>12. Run(uart', Low', Upto(v)') /\ Line(txq', v, Unsent') /\ v \in 0..sent'
  BY <1>2, <1>3, <1>5, <1>9, <1>10
<1> QED
  BY <1>2, <1>3, <1>11, <1>12 DEF OrderInv, Ordered

LEMMA OrderDrain ==
    ASSUME TypeOK, LoopInv, FrameInv, SleepInv, OrderInv,
           Hears, HearsSignal \/ HearsPacket
    PROVE  OrderInv'
<1>1. /\ uart \in Seq(Frames \X {1, 2}) /\ uart # <<>> /\ uart' = Tail(uart)
      /\ Head(uart) = uart[1] /\ 1 \in 1..Len(uart)
      /\ Hand' = Hand /\ txq' = txq /\ hcill_state' = hcill_state
      /\ tx_wait_q' = tx_wait_q /\ sent' = sent
  BY DEF Hears, TypeOK
<1>2. Unsent' = Unsent /\ \A v \in Nat : Upto(v)' = Upto(v)
  BY <1>1, HandSame DEF Unsent, Upto
<1>3. HandData' => HandData
  BY <1>1, HandSame
<1>4. PICK v \in 0..sent : /\ HandData => v = Hand.frame
                           /\ Run(uart, Low, Upto(v)) /\ Line(txq, v, Unsent)
  BY DEF OrderInv, Ordered
<1>5. v \in Nat /\ Low \in Nat /\ Upto(v) \in Nat
  BY <1>4, Numbers
<1>6. /\ got \in Seq(Data) /\ Len(got) \in Nat
      /\ uart[1][1] \in Frames /\ uart[1][2] \in {1, 2}
  BY <1>1 DEF TypeOK
<1>7. ASSUME ArriveInOrder', part' # None => part' = Len(got') + 1,
             Run(uart', Low', Upto(v))
      PROVE  OrderInv'
  <2>1. /\ v \in 0..sent'
        /\ HandData' => v = Hand'.frame
        /\ Run(uart', Low', Upto(v)') /\ Line(txq', v, Unsent')
    BY <1>1, <1>2, <1>3, <1>4, <1>5, <1>7
  <2>2. /\ hcill_state' = "AWAKE" => tx_wait_q' = <<>>
        /\ 0 <= Unsent'
        /\ \A i \in 1..Len(tx_wait_q') : tx_wait_q'[i] = Unsent' + i
    BY <1>1, <1>2 DEF OrderInv
  <2>3. Ordered(v)'
    BY <2>1 DEF Ordered
  <2> QED
    BY <1>7, <2>1, <2>2, <2>3 DEF OrderInv
<1>8. CASE HearsSignal
  <2>1. uart[1][1] \notin Data /\ part' = None /\ got' = got
    BY <1>1, <1>8 DEF HearsSignal
  <2>2. part = None
    BY <1>1, <2>1 DEF FrameInv
  <2>3. Low' = Low
    BY <2>1, <2>2 DEF Low
  <2>4. Run(uart', Low', Upto(v))
    BY <1>1, <1>4, <1>5, <2>1, <2>3, RunDrops
  <2>5. ArriveInOrder'
    BY <2>1 DEF OrderInv, ArriveInOrder
  <2> QED
    BY <1>7, <2>1, <2>4, <2>5
<1>9. CASE HearsPacket
  <2>1. /\ uart[1][1] \in Data /\ chip # "asleep"
        /\ \/ uart[1][2] = 1 /\ part' = uart[1][1] /\ got' = got
           \/ /\ uart[1][2] = 2 /\ part' = None
              /\ got' = IF part = uart[1][1] THEN Append(got, uart[1][1]) ELSE got
    <3>1. chip = "asleep" => uart[1][1] = WAKE_UP_IND
      BY <1>1 DEF SleepInv, UartWakes
    <3> QED
      BY <1>1, <1>9, <3>1, Apart DEF HearsPacket
  <2>2. Num(uart[1]) = Low + 1 /\ Run(uart', Low + 1, Upto(v))
    BY <1>1, <1>4, <1>5, <2>1, RunDrops
  <2>3. 2 * (uart[1][1] - 1) + uart[1][2] = 2 * Len(got) + (IF part = None THEN 0 ELSE 1) + 1
    BY <2>2 DEF Num, Low
  <2>4. uart[1][1] \in Int
    BY <1>6, FramesAreInt
  <2>5. CASE uart[1][2] = 1
    <3>1. uart[1][1] = Len(got) + 1 /\ part = None
      BY <1>6, <2>3, <2>4, <2>5
    <3>2. part' = Len(got') + 1 /\ got' = got /\ part' # None
      BY <2>1, <2>5, <3>1, NoneAssumption
    <3>3. Low' = Low + 1
      BY <1>6, <3>1, <3>2 DEF Low
    <3>4. ArriveInOrder'
      BY <3>2 DEF OrderInv, ArriveInOrder
    <3> QED
      BY <1>7, <2>2, <3>2, <3>3, <3>4
  <2>6. CASE uart[1][2] = 2
    <3>1. uart[1][1] = Len(got) + 1 /\ part # None
      BY <1>6, <2>3, <2>4, <2>6
    <3>2. part = uart[1][1]
      BY <3>1 DEF OrderInv
    <3>3. part' = None /\ got' = Append(got, Len(got) + 1)
      BY <2>1, <2>6, <3>1, <3>2
    <3>4. Len(got') = Len(got) + 1
      BY <1>6, <3>3
    <3>5. Low' = Low + 1
      BY <1>6, <3>1, <3>3, <3>4 DEF Low
    <3>6. ArriveInOrder'
      <4>1. ASSUME NEW i \in 1..Len(got')
            PROVE  got'[i] = i
        <5>1. i \in 1..Len(got) => got'[i] = got[i]
          BY <1>6, <3>3, <3>4
        <5>2. i \notin 1..Len(got) => got'[i] = Len(got) + 1 /\ i = Len(got) + 1
          BY <1>6, <3>3, <3>4
        <5> QED
          BY <5>1, <5>2 DEF OrderInv, ArriveInOrder
      <4> QED
        BY <4>1 DEF ArriveInOrder
    <3> QED
      BY <1>7, <2>2, <3>3, <3>5, <3>6
  <2> QED
    BY <1>6, <2>5, <2>6
<1> QED
  BY <1>8, <1>9

LEMMA OrderSend ==
    ASSUME TypeOK, LoopInv, OrderInv, NEW s \in Senders, SendFrame(s)
    PROVE  OrderInv'
<1> USE DEF hand
<1>1. /\ uart' = uart /\ Hand' = Hand /\ part' = part /\ got' = got
      /\ sent + 1 \in Data /\ sent' = sent + 1 /\ Enqueue(sent + 1)
  BY DEF SendFrame, Hand
<1>2. Low' = Low /\ ArriveInOrder' = ArriveInOrder /\ \A v \in Nat : Upto(v)' = Upto(v)
  BY <1>1, HandSame DEF Low, ArriveInOrder, Upto
<1>3. HandData' => HandData
  BY <1>1, HandSame
<1>4. PICK v \in 0..sent : /\ HandData => v = Hand.frame
                           /\ Run(uart, Low, Upto(v)) /\ Line(txq, v, Unsent)
  BY DEF OrderInv, Ordered
<1>5. /\ v \in Nat /\ sent \in Nat /\ Unsent \in Nat /\ Len(tx_wait_q) \in Nat
      /\ Unsent = sent - Len(tx_wait_q)
  BY <1>4, Numbers
<1>6. /\ v \in 0..sent'
      /\ HandData' => v = Hand'.frame
      /\ Run(uart', Low', Upto(v)')
  BY <1>1, <1>2, <1>3, <1>4, <1>5
<1>7. txq \in Seq(Frames) /\ tx_wait_q \in Seq(Data)
  BY DEF TypeOK
<1>8. CASE hcill_state = "AWAKE"
  <2>1. tx_wait_q = <<>> /\ tx_wait_q' = <<>> /\ txq' = Append(txq, sent + 1)
    BY <1>1, <1>8, EnqueueDoes DEF OrderInv
  <2>2. Unsent = sent /\ Unsent' = sent + 1
    <3>1. Len(tx_wait_q) = 0 /\ Len(tx_wait_q') = 0
      BY <2>1
    <3> QED
      BY <1>1, <1>5, <3>1 DEF Unsent
  <2>3. Line(txq', v, Unsent')
    <3> DEFINE p == <<sent + 1>>
    <3>1. p \in Seq(Data) /\ Len(p) = 1 /\ \A i \in 1..Len(p) : p[i] = Unsent + i
      BY <1>1, <2>2
    <3>2. txq' = txq \o p
      BY <1>1, <1>7, <2>1
    <3> HIDE DEF p
    <3>3. Line(txq \o p, v, Unsent + Len(p))
      BY <1>4, <1>5, <1>7, <3>1, LineConcat
    <3> QED
      BY <2>2, <3>1, <3>2, <3>3
  <2>4. 0 <= Unsent' /\ \A i \in 1..Len(tx_wait_q') : tx_wait_q'[i] = Unsent' + i
    BY <1>5, <2>1, <2>2
  <2>5. Ordered(v)'
    BY <1>6, <2>3 DEF Ordered
  <2>6. ArriveInOrder' /\ (part' # None => part' = Len(got') + 1)
    BY <1>1, <1>2 DEF OrderInv
  <2> QED
    BY <1>6, <2>1, <2>4, <2>5, <2>6 DEF OrderInv
<1>9. CASE hcill_state # "AWAKE"
  <2>1. /\ hcill_state' # "AWAKE" /\ tx_wait_q' = Append(tx_wait_q, sent + 1)
        /\ txq' = txq \/ txq' = Append(txq, WAKE_UP_IND)
    BY <1>1, <1>9, EnqueueDoes
  <2>2. Len(tx_wait_q') = Len(tx_wait_q) + 1 /\ Unsent' = Unsent
    <3>1. Len(tx_wait_q') = Len(tx_wait_q) + 1
      BY <1>7, <2>1
    <3> QED
      BY <1>1, <1>5, <3>1 DEF Unsent
  <2>3. Line(txq', v, Unsent')
    <3>1. WAKE_UP_IND \in Frames /\ WAKE_UP_IND \notin Data
      BY Apart DEF Frames, Signals
    <3> QED
      BY <1>4, <1>5, <1>7, <2>1, <2>2, <3>1, LineSignal
  <2>4. ASSUME NEW i \in 1..Len(tx_wait_q')
        PROVE  tx_wait_q'[i] = Unsent' + i
    <3>1. i \in 1..Len(tx_wait_q) => tx_wait_q'[i] = tx_wait_q[i]
      BY <1>1, <1>7, <2>1
    <3>2. i \notin 1..Len(tx_wait_q) =>
            tx_wait_q'[i] = sent + 1 /\ i = Len(tx_wait_q) + 1
      BY <1>1, <1>5, <1>7, <2>1, <2>2
    <3> QED
      BY <1>5, <2>2, <3>1, <3>2 DEF OrderInv
  <2>5. 0 <= Unsent'
    BY <1>5, <2>2
  <2>6. Ordered(v)'
    BY <1>6, <2>3 DEF Ordered
  <2>7. ArriveInOrder' /\ (part' # None => part' = Len(got') + 1)
    BY <1>1, <1>2 DEF OrderInv
  <2> QED
    BY <1>6, <2>1, <2>4, <2>5, <2>6, <2>7 DEF OrderInv
<1> QED
  BY <1>8, <1>9

LEMMA OrderRecv ==
    ASSUME TypeOK, LoopInv, SleepInv, OrderInv, Recv
    PROVE  OrderInv'
<1> USE DEF hand
<1>1. uart' = uart /\ Hand' = Hand /\ part' = part /\ got' = got /\ sent' = sent
  BY DEF Recv, Hand
<1>2. Low' = Low /\ ArriveInOrder' = ArriveInOrder /\ \A v \in Nat : Upto(v)' = Upto(v)
  BY <1>1, HandSame DEF Low, ArriveInOrder, Upto
<1>3. HandData' => HandData
  BY <1>1, HandSame
<1>4. PICK v \in 0..sent : /\ HandData => v = Hand.frame
                           /\ Run(uart, Low, Upto(v)) /\ Line(txq, v, Unsent)
  BY DEF OrderInv, Ordered
<1>5. /\ v \in Nat /\ sent \in Nat /\ Unsent \in Nat /\ Len(tx_wait_q) \in Nat
      /\ Unsent = sent - Len(tx_wait_q)
  BY <1>4, Numbers
<1>6. /\ v \in 0..sent'
      /\ HandData' => v = Hand'.frame
      /\ Run(uart', Low', Upto(v)')
  BY <1>1, <1>2, <1>3, <1>4, <1>5
<1>7. /\ txq \in Seq(Frames) /\ tx_wait_q \in Seq(Data)
      /\ WAKE_UP_ACK \in Frames \ Data /\ GO_TO_SLEEP_ACK \in Frames \ Data
  BY Apart DEF TypeOK, Frames, Signals
<1>8. ASSUME NEW q \in Seq(Frames), Line(q, v, Unsent), DoAwake(q)
      PROVE  OrderInv'
  <2>1. tx_wait_q' = <<>> /\ txq' = q \o tx_wait_q
    BY <1>8 DEF DoAwake
  <2>2. Unsent' = Unsent + Len(tx_wait_q)
    <3>1. Len(tx_wait_q') = 0
      BY <2>1
    <3> QED
      BY <1>1, <1>5, <3>1 DEF Unsent
  <2>3. Line(txq', v, Unsent')
    <3>1. \A i \in 1..Len(tx_wait_q) : tx_wait_q[i] = Unsent + i
      BY DEF OrderInv
    <3> QED
      BY <1>5, <1>7, <1>8, <2>1, <2>2, <3>1, LineConcat
  <2>4. 0 <= Unsent' /\ \A i \in 1..Len(tx_wait_q') : tx_wait_q'[i] = Unsent' + i
    BY <1>5, <2>1, <2>2
  <2> QED
    BY <1>1, <1>2, <1>6, <2>1, <2>3, <2>4 DEF OrderInv, Ordered
<1>9. ASSUME UNCHANGED tx_wait_q, hcill_state' = "AWAKE" => hcill_state = "AWAKE",
             Line(txq', v, Unsent)
      PROVE  OrderInv'
  <2>1. Unsent' = Unsent
    BY <1>1, <1>9 DEF Unsent
  <2>2. /\ hcill_state' = "AWAKE" => tx_wait_q' = <<>>
        /\ 0 <= Unsent'
        /\ \A i \in 1..Len(tx_wait_q') : tx_wait_q'[i] = Unsent' + i
    BY <1>9, <2>1 DEF OrderInv
  <2> QED
    BY <1>1, <1>2, <1>6, <1>9, <2>1, <2>2 DEF OrderInv, Ordered
<1>10. CASE DoAwake(txq)
  BY <1>4, <1>7, <1>8, <1>10
<1>11. CASE DoAwake(Append(txq, WAKE_UP_ACK))
  <2>1. /\ Append(txq, WAKE_UP_ACK) \in Seq(Frames)
        /\ Line(Append(txq, WAKE_UP_ACK), v, Unsent)
    BY <1>4, <1>5, <1>7, LineSignal
  <2> QED
    BY <1>8, <1>11, <2>1
<1>12. CASE UNCHANGED <<txq, tx_wait_q, hcill_state>>
  BY <1>4, <1>9, <1>12
<1>13. CASE /\ txq' = Append(txq, GO_TO_SLEEP_ACK) /\ hcill_state' = "ASLEEP"
            /\ UNCHANGED tx_wait_q
  <2>1. Line(txq', v, Unsent)
    BY <1>4, <1>5, <1>7, <1>13, LineSignal
  <2> QED
    BY <1>9, <1>13, <2>1
<1> QED
  BY <1>10, <1>11, <1>12, <1>13, RecvDoes

LEMMA OrderStep ==
    ASSUME TypeOK, LoopInv, FrameInv, SleepInv, OrderInv, [Next]_vars
    PROVE  OrderInv'
<1>1. CASE UNCHANGED <<Hand, txq, uart, hcill_state, tx_wait_q, part, sent, got>>
  <2>1. UNCHANGED <<Low, Unsent>> /\ \A v \in Nat : Upto(v)' = Upto(v)
    BY <1>1, HandSame DEF Low, Unsent, Upto
  <2>2. PICK v \in 0..sent : /\ HandData => v = Hand.frame
                             /\ Run(uart, Low, Upto(v)) /\ Line(txq, v, Unsent)
    BY DEF OrderInv, Ordered
  <2>3. /\ v \in 0..sent'
        /\ HandData' => v = Hand'.frame
        /\ Run(uart', Low', Upto(v)') /\ Line(txq', v, Unsent')
    <3>1. v \in Nat /\ sent' = sent /\ Hand' = Hand /\ txq' = txq /\ uart' = uart
      BY <1>1, <2>2, Numbers
    <3>2. HandData' => HandData
      BY <3>1, HandSame
    <3> QED
      BY <2>1, <2>2, <3>1, <3>2
  <2>4. Ordered(v)'
    BY <2>3 DEF Ordered
  <2>5. /\ ArriveInOrder'
        /\ part' # None => part' = Len(got') + 1
        /\ hcill_state' = "AWAKE" => tx_wait_q' = <<>>
        /\ 0 <= Unsent' /\ \A i \in 1..Len(tx_wait_q') : tx_wait_q'[i] = Unsent' + i
    BY <1>1, <2>1 DEF OrderInv, ArriveInOrder
  <2> QED
    BY <2>3, <2>4, <2>5 DEF OrderInv
<1>2. CASE UNCHANGED vars
  BY <1>1, <1>2 DEF vars, ldisc, hand, Hand
<1>3. CASE Stay
  BY <1>1, <1>3 DEF Stay, Kept
<1>4. CASE ChipAsks
  BY <1>1, <1>4 DEF ChipAsks, ldisc, hand, Hand
<1> QED
  BY <1>2, <1>3, <1>4, Steps, OrderSend, OrderRecv, OrderTake, OrderPut, OrderDrain

-----------------------------------------------------------------------------
(* A driver just started.                                                  *)
LEMMA InitInv ==
    ASSUME Init
    PROVE  IInv
<1> USE DEF Init, UartInit
<1>1. Hand = None /\ ~HandData
  BY DEF Hand, HandData
<1>2. TypeOK
  <2>1. /\ sending \in BOOLEAN /\ wakeup \in BOOLEAN /\ do_write_wakeup \in BOOLEAN
        /\ drained \in BOOLEAN /\ passedBy \in BOOLEAN /\ failed \in BOOLEAN
    OBVIOUS
  <2>2. /\ txq \in Seq(Frames) /\ tx_wait_q \in Seq(Data) /\ got \in Seq(Data)
        /\ uart \in Seq(Frames \X {1, 2}) /\ toHost \in Seq(Signals)
        /\ Len(uart) <= UartSize
    BY UartAssumption
  <2>3. /\ pc \in [Threads -> {"idle", "wakeup", "mark", "restart", "dequeue", "write",
                             "check", "release"}]
        /\ skb \in Rests /\ tx_skb \in Rests /\ part \in Data \cup {None}
    BY DEF Rests
  <2>4. /\ hcill_state \in {"ASLEEP", "ASLEEP_TO_AWAKE", "AWAKE"}
        /\ chip \in {"asleep", "waking", "awake", "going"}
        /\ sent = 0 \/ sent \in Data
    OBVIOUS
  <2> QED
    BY <2>1, <2>2, <2>3, <2>4 DEF TypeOK
<1>3. LoopInv
  BY DEF LoopInv, Loop
<1>4. FrameInv
  BY <1>1 DEF FrameInv
<1>5. SleepInv
  <2>1. toHost # <<GO_TO_SLEEP_IND>>
    OBVIOUS
  <2> QED
    BY <1>1, <2>1 DEF SleepInv
<1>6. OrderInv
  <2>1. Low = 0 /\ Unsent = 0 /\ Upto(0) = 0
    <3>1. Len(got) = 0 /\ Len(tx_wait_q) = 0
      OBVIOUS
    <3>2. Low = 0
      BY <3>1 DEF Low
    <3>3. Unsent = 0
      <4>1. sent = 0 /\ Len(tx_wait_q) = 0
        OBVIOUS
      <4>2. Unsent = sent - Len(tx_wait_q)
        BY Zenon DEF Unsent
      <4> QED
        BY <4>1, <4>2
    <3>4. Upto(0) = 0
      BY <1>1 DEF Upto
    <3> QED
      BY <3>2, <3>3, <3>4
  <2>2. Run(uart, 0, 0) /\ Line(txq, 0, 0)
    BY DEF Run, Line
  <2>3. Ordered(0)
    BY <1>1, <2>1, <2>2 DEF Ordered
  <2>4. 0 \in 0..sent
    OBVIOUS
  <2> QED
    BY <2>1, <2>3, <2>4 DEF OrderInv, ArriveInOrder
<1> QED
  BY <1>2, <1>3, <1>4, <1>5, <1>6 DEF IInv

(* The inductive invariant holds of every state the driver, the UART and   *)
(* the chip reach, whoever sends and whatever the chip asks for.           *)
THEOREM Invariance == Spec => []IInv
<1>1. Init => IInv
  BY InitInv
<1>2. IInv /\ [Next]_vars => IInv'
  BY TypeStep, LoopStep, FrameStep, SleepStep, OrderStep DEF IInv
<1> QED
  BY <1>1, <1>2, PTL DEF Spec

(* The packets arrive whole and in the order in which ll_enqueue got them, *)
(* whichever thread runs the loop of hci_uart_tx_wakeup (hci_ldisc.c, 120) *)
(* and however often the chip sleeps in between.                           *)
THEOREM PacketsInOrder == Spec => []ArriveInOrder
<1>1. IInv => ArriveInOrder
  BY DEF IInv, OrderInv
<1> QED
  BY <1>1, Invariance, PTL

(* Nothing but the request to wake up reaches a chip that sleeps: what was *)
(* sent before it slept is ahead of the acknowledgement that lets it, and  *)
(* ll_enqueue keeps what comes later in tx_wait_q.                         *)
THEOREM SleepersAreLeftAlone == Spec => []AsleepHearsOnlyWake
<1>1. IInv => AsleepHearsOnlyWake
  <2> SUFFICES ASSUME TypeOK, SleepInv, chip = "asleep", uart # <<>>
               PROVE  Head(uart)[1] = WAKE_UP_IND
    BY DEF IInv, AsleepHearsOnlyWake
  <2>1. 1 \in 1..Len(uart) /\ Head(uart) = uart[1]
    BY DEF TypeOK
  <2> QED
    BY <2>1 DEF SleepInv, UartWakes
<1> QED
  BY <1>1, Invariance, PTL
=============================================================================

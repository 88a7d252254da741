------------------------------- MODULE HciBcsp -------------------------------
(***************************************************************************)
(* The reliable link of src/usb-logger/bluetooth-stand/hci_bcsp.c: a host  *)
(* and a Bluetooth card exchange frames over a serial line that may lose   *)
(* any of them.  Packets are numbered modulo SEQ; at most BCSP_TXWINSIZE   *)
(* of the host's wait for their acknowledgement, which every frame of the  *)
(* card carries; when the timer expires all of them are sent again.        *)
(*                                                                         *)
(* One thread sends at a time, in the loop of hci_uart_tx_wakeup, and one  *)
(* receives (rx_lock), beside each other and beside the timer.  The loop   *)
(* is run by one of those who call it; here it is beside them all, which   *)
(* only adds interleavings.  What the tty does with a frame that it takes  *)
(* in pieces is HciUart's subject: here the loop waits for it.  unack.lock *)
(* covers the choice and preparation of a reliable packet, the culling and *)
(* the timer's work, but neither the acknowledgements and unreliable       *)
(* packets nor the host's own sequence number for received packets.        *)
(*                                                                         *)
(* A byte that arrives damaged costs the frame (header checksum, CRC), as  *)
(* does a failed allocation in bcsp_recv: Lose stands for both.            *)
(***************************************************************************)
EXTENDS Integers, Sequences, FiniteSetsExt

CONSTANTS
    SEQ,               (* sequence numbers are counted modulo SEQ (8)        *)
    BCSP_TXWINSIZE,    (* packets sent and not acknowledged (4)              *)
    HostPkts,          (* bound: packets the host sends                      *)
    CardWindow,        (* packets the card sends ahead of their acknowledgement *)
    CardPkts,          (* bound: reliable packets the card sends             *)
    MaxUnrel,          (* bound: unreliable packets and "conf" frames        *)
    LineCap,           (* bound: frames on the way in each direction         *)
    Idle               (* nobody is preparing or receiving a frame           *)

ASSUME WindowAssumption ==
    /\ SEQ \in Nat \ {0}
    /\ BCSP_TXWINSIZE \in 1..(SEQ - 1)
    /\ CardWindow \in 0..(SEQ - 1)
ASSUME BoundsAssumption ==
    HostPkts \in Nat /\ CardPkts \in Nat /\ MaxUnrel \in Nat /\ LineCap \in Nat

VARIABLES
    rel, unack,        (* packets to be sent, and sent but not acknowledged  *)
    unrel,             (* unreliable packets to be sent                      *)
    msgq_txseq, rxseq_txack, txack_req,
    loop, wakeup,      (* the loop of hci_uart_tx_wakeup; HCI_UART_TX_WAKEUP *)
    timer,             (* tbcsp is armed, or its handler is due              *)
    tx,                (* the frame bcsp_prepare_pkt is working on           *)
    rx,                (* the frame bcsp_complete_rx_pkt is working on       *)
    line,              (* the frames on the way, in each direction           *)
    cAcked, cOwes,     (* card: packets acknowledged to it; it owes an ack   *)
    sent, arrived,     (* packets handed over, and the packets that came out *)
    unrelLeft

queues == <<rel, unack, msgq_txseq>>
card   == <<cAcked, cOwes>>
sender == <<loop, wakeup>>
vars == <<queues, unrel, rxseq_txack, txack_req, sender, timer, tx, rx, line, card,
          sent, arrived, unrelLeft>>

Lines == {"toCard", "toHost"}
Kinds == {"data", "ack", "sco", "conf", "rsp"}
Frame(kind, seq, ack, pkt) == [kind |-> kind, seq |-> seq, ack |-> ack, pkt |-> pkt]
FrameType == [kind : Kinds, seq : 0..(SEQ - 1), ack : 0..(SEQ - 1), pkt : Nat]
ASSUME IdleAssumption == Idle \notin FrameType

Room(l) == Len(line[l]) < LineCap
Put(l, f) == line' = [line EXCEPT ![l] = Append(@, f)]

Init ==
    /\ rel = <<>> /\ unack = <<>> /\ unrel = <<>>
    /\ msgq_txseq = 0 /\ rxseq_txack = 0 /\ txack_req = FALSE
    /\ loop = "idle" /\ wakeup = FALSE
    /\ timer = FALSE
    /\ tx = Idle /\ rx = Idle
    /\ line = [l \in Lines |-> <<>>]
    /\ cAcked = 0 /\ cOwes = FALSE
    /\ sent = [l \in Lines |-> 0]
    /\ arrived = [l \in Lines |-> <<>>]
    /\ unrelLeft = MaxUnrel

-----------------------------------------------------------------------------
(* AckedOffByOne and StopTimerAlways are faulty variants that only serve   *)
(* to test the properties.                                                 *)

(* hci_uart_tx_wakeup: whoever finds the loop running (HCI_UART_SENDING)   *)
(* leaves it HCI_UART_TX_WAKEUP.  A loop that has looked at the flag for   *)
(* the last time misses it, and the next one clears it before it begins:   *)
(* the flag is then as good as not set.                                    *)
TxWakeup ==
    \/ loop = "idle" /\ loop' = "running" /\ UNCHANGED wakeup
    \/ loop = "running" /\ wakeup' = TRUE /\ UNCHANGED loop
    \/ loop = "leaving" /\ UNCHANGED sender

(* bcsp_enqueue: commands and ACL data are reliable, voice is not.         *)
EnqueueRel ==
    /\ sent["toCard"] < HostPkts
    /\ sent' = [sent EXCEPT !["toCard"] = @ + 1]
    /\ rel' = Append(rel, sent'["toCard"])
    /\ TxWakeup
    /\ UNCHANGED <<unack, msgq_txseq, unrel, rxseq_txack, txack_req, timer, tx, rx,
                   line, card, arrived, unrelLeft>>

EnqueueUnrel ==
    /\ unrelLeft > 0
    /\ unrelLeft' = unrelLeft - 1
    /\ unrel' = Append(unrel, "sco")
    /\ TxWakeup
    /\ UNCHANGED <<queues, rxseq_txack, txack_req, timer, tx, rx, line, card, sent,
                   arrived>>

-----------------------------------------------------------------------------
(* bcsp_dequeue prefers an unreliable packet to a reliable one, and that   *)
(* to a bare acknowledgement; when alloc_skb fails the packet goes back to *)
(* the head of its queue and the next kind is tried, so any kind that can  *)
(* be sent may be the one that is.  The header's acknowledgement is read   *)
(* here (240) ...                                                          *)
WindowOpen == Len(unack) < BCSP_TXWINSIZE

CanSend(kind) ==
    \/ kind = "data" /\ WindowOpen /\ rel # <<>>
    \/ kind = "ack" /\ txack_req
    \/ unrel # <<>> /\ kind = Head(unrel)

Dequeue(kind) ==
    /\ loop = "running" /\ tx = Idle /\ Room("toCard") /\ CanSend(kind)
    /\ tx' = Frame(kind, IF kind = "data" THEN msgq_txseq ELSE 0, rxseq_txack,
                   IF kind = "data" THEN Head(rel) ELSE 0)
    /\ unrel' = IF kind \in {"sco", "rsp"} THEN Tail(unrel) ELSE unrel
    /\ UNCHANGED <<queues, rxseq_txack, txack_req, sender, timer, rx, line, card,
                   sent, arrived, unrelLeft>>

(* ... and the request for one is cleared here (241), whatever has come in *)
(* between.  A reliable packet moves to unack and the timer starts again.  *)
StartTimer == timer' = TRUE

Transmit ==
    /\ tx # Idle
    /\ tx' = Idle
    /\ txack_req' = FALSE
    /\ Put("toCard", tx)
    /\ IF tx.kind = "data"
       THEN /\ msgq_txseq' = (msgq_txseq + 1) % SEQ
            /\ rel' = Tail(rel)
            /\ unack' = Append(unack, tx.pkt)
            /\ StartTimer
       ELSE UNCHANGED <<queues, timer>>
    /\ UNCHANGED <<unrel, rxseq_txack, sender, rx, card, sent, arrived, unrelLeft>>

UnackLocked == tx # Idle /\ tx.kind = "data"

(* bcsp_dequeue returns NULL, because there is nothing to send or because  *)
(* alloc_skb fails for all there is: the loop looks at HCI_UART_TX_WAKEUP, *)
(* and only then clears HCI_UART_SENDING.                                  *)
Finish ==
    /\ loop = "running" /\ tx = Idle
    /\ loop' = IF wakeup THEN "running" ELSE "leaving"
    /\ wakeup' = FALSE
    /\ UNCHANGED <<queues, unrel, rxseq_txack, txack_req, timer, tx, rx, line, card,
                   sent, arrived, unrelLeft>>

NothingToSend == Finish /\ \A kind \in Kinds : ~CanSend(kind)
OutOfMemory   == Finish /\ \E kind \in Kinds : CanSend(kind)

Leave ==
    /\ loop = "leaving"
    /\ loop' = "idle"
    /\ UNCHANGED <<queues, unrel, rxseq_txack, txack_req, wakeup, timer, tx, rx, line,
                   card, sent, arrived, unrelLeft>>

(* hci_uart_tty_wakeup: the tty has sent what it had, once or many times.  *)
TtyWakeup ==
    /\ TxWakeup
    /\ UNCHANGED <<queues, unrel, rxseq_txack, txack_req, timer, tx, rx, line, card,
                   sent, arrived, unrelLeft>>

-----------------------------------------------------------------------------
(* bcsp_recv drops a reliable frame that is not the one it awaits.  Of any *)
(* other, bcsp_complete_rx_pkt first counts a reliable one, asks for an    *)
(* acknowledgement and calls the loop ...                                  *)
InOrder(f) == f.kind = "data" => f.seq = rxseq_txack

Receive ==
    /\ rx = Idle /\ line["toHost"] # <<>>
    /\ LET f == Head(line["toHost"]) IN
         /\ line' = [line EXCEPT !["toHost"] = Tail(@)]
         /\ rx' = IF InOrder(f) THEN f ELSE Idle
         /\ IF InOrder(f) /\ f.kind = "data"
            THEN /\ rxseq_txack' = (rxseq_txack + 1) % SEQ /\ txack_req' = TRUE
                 /\ TxWakeup
            ELSE UNCHANGED <<rxseq_txack, txack_req, sender>>
    /\ UNCHANGED <<queues, unrel, timer, tx, card, sent, arrived, unrelLeft>>

(* ... then bcsp_pkt_cull walks back from msgq_txseq, at most as far as    *)
(* unack goes, until it meets the number the card awaits; what was sent    *)
(* before that is done with.  A number it does not meet removes nothing.   *)
(* Nobody calls the loop for the packets that may go now.                  *)
AckedOffByOne(ack) ==
    Max({0} \cup {n \in 1..Len(unack) : (msgq_txseq - (Len(unack) - n) - 1) % SEQ = ack})
Acked(ack) ==
    Max({0} \cup {n \in 1..Len(unack) : (msgq_txseq - (Len(unack) - n)) % SEQ = ack})

StopTimerAlways == timer' = FALSE
StopTimer == timer' = (timer /\ unack' # <<>>)

(* The packet goes up to the Bluetooth core; a "conf" of the card is       *)
(* answered ahead of all that waits, unless there is no memory for it.     *)
Complete ==
    /\ rx # Idle /\ ~UnackLocked
    /\ rx' = Idle
    /\ unack' = SubSeq(unack, Acked(rx.ack) + 1, Len(unack))
    /\ StopTimer
    /\ arrived' = IF rx.kind = "data"
                  THEN [arrived EXCEPT !["toHost"] = Append(@, rx.pkt)] ELSE arrived
    /\ \/ rx.kind = "conf" /\ unrel' = <<"rsp">> \o unrel /\ TxWakeup
       \/ UNCHANGED <<unrel, sender>>
    /\ UNCHANGED <<rel, msgq_txseq, rxseq_txack, txack_req, tx, line, card,
                   sent, unrelLeft>>

-----------------------------------------------------------------------------
(* bcsp_timed_event takes everything back that is not acknowledged, in     *)
(* order.  A handler that waited for the lock may leave behind a timer     *)
(* that bcsp_dequeue has started again meanwhile.                          *)
SeqBack == (msgq_txseq - Len(unack)) % SEQ

TimedEvent ==
    /\ timer /\ ~UnackLocked
    /\ timer' \in BOOLEAN
    /\ msgq_txseq' = SeqBack
    /\ rel' = unack \o rel
    /\ unack' = <<>>
    /\ TxWakeup
    /\ UNCHANGED <<unrel, rxseq_txack, txack_req, tx, rx, line, card, sent,
                   arrived, unrelLeft>>

-----------------------------------------------------------------------------
(* The card, as far as the host relies on it: it takes reliable packets in *)
(* order, says in every frame which one it awaits, owes a frame for every  *)
(* reliable one it gets, expected or not, and sends its own packets again  *)
(* until they are acknowledged.                                            *)
CardAwaits == Len(arrived["toCard"]) % SEQ

CardTakes ==
    /\ line["toCard"] # <<>>
    /\ LET f == Head(line["toCard"]) IN
         /\ line' = [line EXCEPT !["toCard"] = Tail(@)]
         /\ cAcked' = Max({cAcked} \cup
                          {n \in cAcked..sent["toHost"] : n % SEQ = f.ack})
         /\ cOwes' = (cOwes \/ f.kind = "data")
         /\ arrived' = IF f.kind = "data" /\ f.seq = CardAwaits
                       THEN [arrived EXCEPT !["toCard"] = Append(@, f.pkt)] ELSE arrived
    /\ UNCHANGED <<queues, unrel, rxseq_txack, txack_req, sender, timer, tx, rx, sent,
                   unrelLeft>>

CardAcks ==
    /\ cOwes /\ Room("toHost")
    /\ cOwes' = FALSE
    /\ Put("toHost", Frame("ack", 0, CardAwaits, 0))
    /\ UNCHANGED <<queues, unrel, rxseq_txack, txack_req, sender, timer, tx, rx,
                   cAcked, sent, arrived, unrelLeft>>

CardSends ==
    /\ Room("toHost")
    /\ \E p \in cAcked + 1 .. CardPkts :
         /\ p <= cAcked + CardWindow /\ p <= sent["toHost"] + 1
         /\ sent' = [sent EXCEPT !["toHost"] = Max({@, p})]
         /\ Put("toHost", Frame("data", (p - 1) % SEQ, CardAwaits, p))
    /\ cOwes' = FALSE
    /\ UNCHANGED <<queues, unrel, rxseq_txack, txack_req, sender, timer, tx, rx,
                   cAcked, arrived, unrelLeft>>

CardConf ==
    /\ unrelLeft > 0 /\ Room("toHost")
    /\ unrelLeft' = unrelLeft - 1
    /\ Put("toHost", Frame("conf", 0, CardAwaits, 0))
    /\ UNCHANGED <<queues, unrel, rxseq_txack, txack_req, sender, timer, tx, rx,
                   card, sent, arrived>>

Lose(l) ==
    /\ line[l] # <<>>
    /\ line' = [line EXCEPT ![l] = Tail(@)]
    /\ UNCHANGED <<queues, unrel, rxseq_txack, txack_req, sender, timer, tx, rx,
                   card, sent, arrived, unrelLeft>>

-----------------------------------------------------------------------------
Exchange ==
    \/ EnqueueRel \/ EnqueueUnrel
    \/ \E kind \in Kinds : Dequeue(kind)
    \/ Transmit \/ Receive \/ Complete \/ TimedEvent
    \/ CardTakes \/ CardAcks \/ CardSends \/ CardConf
    \/ \E l \in Lines : Lose(l)
Next == Exchange \/ NothingToSend \/ OutOfMemory \/ Leave \/ TtyWakeup

Spec == Init /\ [][Next]_vars

(* The loop, once it is called, the receive path and the timer's handler   *)
(* run when they are due; nobody has to call the loop.  The line loses     *)
(* frames, but not every one that matters: what is sent again and again    *)
(* gets through.                                                           *)
LoopStep == (\E kind \in Kinds : Dequeue(kind)) \/ Transmit \/ NothingToSend \/ Leave
TakesSeq(q) == CardTakes /\ \E f \in {Head(line["toCard"])} : f.kind = "data" /\ f.seq = q
ReceivesAck == Receive /\ rx' # Idle /\ Acked(Head(line["toHost"]).ack) > 0

FairSpec ==
    /\ Spec
    /\ WF_vars(LoopStep)
    /\ WF_vars(Receive \/ Complete)
    /\ WF_vars(TimedEvent)
    /\ WF_vars(CardTakes) /\ WF_vars(CardAcks)
    /\ SF_vars(ReceivesAck) /\ \A q \in 0..(SEQ - 1) : SF_vars(TakesSeq(q))

-----------------------------------------------------------------------------
(* Every variable keeps its type.                                          *)
TypeOK ==
    /\ rel \in Seq(1..HostPkts) /\ unack \in Seq(1..HostPkts)
    /\ Len(unack) <= BCSP_TXWINSIZE
    /\ unrel \in Seq({"sco", "rsp"})
    /\ msgq_txseq \in 0..(SEQ - 1) /\ rxseq_txack \in 0..(SEQ - 1)
    /\ loop \in {"idle", "running", "leaving"} /\ wakeup \in BOOLEAN
    /\ txack_req \in BOOLEAN /\ timer \in BOOLEAN /\ cOwes \in BOOLEAN
    /\ tx \in FrameType \cup {Idle} /\ rx \in FrameType \cup {Idle}
    /\ line \in [Lines -> Seq(FrameType)] /\ \A l \in Lines : Len(line[l]) <= LineCap
    /\ sent \in [Lines -> Nat] /\ sent["toCard"] <= HostPkts /\ sent["toHost"] <= CardPkts
    /\ arrived \in [Lines -> Seq(Nat)]
    /\ cAcked \in 0..sent["toHost"]
    /\ unrelLeft \in 0..MaxUnrel

(* A packet that waits for its acknowledgement has a timer that will send  *)
(* it again: armed, or its handler due (bcsp_dequeue, bcsp_pkt_cull and    *)
(* bcsp_timed_event start, stop and consume it).                           *)
TimerRuns == unack # <<>> => timer

(* The link keeps its promise in both directions (ReliableLink): whatever  *)
(* is lost or sent again, packets arrive once and in order, and neither    *)
(* side gives up a packet that has not arrived.  A frame the host has      *)
(* counted is on its way up.                                               *)
Forgotten ==
    [l \in Lines |-> IF l = "toHost" THEN cAcked
                     ELSE sent[l] - Len(rel) - Len(unack)]
Taken ==
    IF rx # Idle /\ rx.kind = "data"
    THEN [arrived EXCEPT !["toHost"] = Append(@, rx.pkt)] ELSE arrived
Link == INSTANCE ReliableLink WITH arrived <- Taken, forgotten <- Forgotten
ImplementsLink == Link!Spec

(* Every command and data packet handed to the link comes out at the card, *)
(* if from some time on the timer (a quarter of a second) does not expire  *)
(* while frames or answers of the last round are still on the way, and     *)
(* there is memory.  Excepted is a packet that stays in rel with nobody to *)
(* call the loop: an acknowledgement of all that was sent has opened the   *)
(* window and stopped the timer, or the loop was called as it left.        *)
RoundOver ==
    /\ loop = "idle" /\ rx = Idle /\ ~cOwes
    /\ \A l \in Lines : line[l] = <<>>
PromptLine == <>[][TimedEvent => RoundOver]_vars
MemoryLasts == <>[][~OutOfMemory]_vars
LeftBehind == rel # <<>> /\ unack = <<>> /\ loop = "idle" /\ ~timer
AllArrive == []<>(Len(arrived["toCard"]) = sent["toCard"])
PacketsArrive == PromptLine /\ MemoryLasts /\ []<>~LeftBehind => AllArrive
=============================================================================

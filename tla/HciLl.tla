-------------------------------- MODULE HciLl --------------------------------
(***************************************************************************)
(* The HCILL protocol of src/usb-logger/bluetooth-stand/hci_ll.c above the *)
(* line discipline: the chip may go to sleep, and each side may wake the   *)
(* other.  Packets handed over while the chip sleeps wait in tx_wait_q.    *)
(* Everything done under hcill_lock is one step; the call of               *)
(* hci_uart_tx_wakeup that follows is HciUart's.                           *)
(***************************************************************************)
EXTENDS Integers, HciUart

VARIABLES
    hcill_state, tx_wait_q,
    chip, part,        (* the chip's power state, and the frame it is getting *)
    toHost,            (* its signals on their way                           *)
    sent, got,         (* packets handed over; packets the chip got          *)
    failed             (* history: there was no memory for a signal          *)

vars == <<ldisc, hcill_state, tx_wait_q, chip, part, toHost, sent, got, failed>>

(* The signals are bytes, here with a minus; packets are numbered from 1.  *)
GO_TO_SLEEP_IND == -48
GO_TO_SLEEP_ACK == -49
WAKE_UP_IND == -50
WAKE_UP_ACK == -51
Signals == {GO_TO_SLEEP_IND, GO_TO_SLEEP_ACK, WAKE_UP_IND, WAKE_UP_ACK}

ASSUME DataAssumption == Data \subseteq Nat \ {0}
ASSUME NoneAssumption ==
    None \notin Data /\ None \notin [frame : Data \cup Signals, from : 1..2]

Init ==
    /\ UartInit
    /\ hcill_state = "AWAKE" /\ tx_wait_q = <<>>
    /\ chip = "awake" /\ part = None
    /\ toHost = <<>>
    /\ sent = 0 /\ got = <<>>
    /\ failed = FALSE

-----------------------------------------------------------------------------
(* EnqueueAwakeTooEarly, WantToSleepOnly and (in HciUart) NotAsked are     *)
(* faulty variants that only serve to test the properties.                 *)

(* send_hcill_cmd with what depends on its success; without memory for the *)
(* signal the state stays as it is.                                        *)
Signalled(q, cmd, state) ==
    \/ txq' = Append(q, cmd) /\ hcill_state' = state /\ UNCHANGED failed
    \/ txq' = q /\ failed' = TRUE /\ UNCHANGED hcill_state

(* ll_enqueue, called by hci_uart_send_frame.                              *)
EnqueueAwakeTooEarly(p) ==
    \/ /\ hcill_state \in {"AWAKE", "ASLEEP_TO_AWAKE"}
       /\ txq' = Append(txq, p)
       /\ UNCHANGED <<hcill_state, tx_wait_q, failed>>
    \/ /\ hcill_state = "ASLEEP"
       /\ tx_wait_q' = Append(tx_wait_q, p)
       /\ Signalled(txq, WAKE_UP_IND, "ASLEEP_TO_AWAKE")
Enqueue(p) ==
    \/ /\ hcill_state = "AWAKE"
       /\ txq' = Append(txq, p)
       /\ UNCHANGED <<hcill_state, tx_wait_q, failed>>
    \/ /\ hcill_state = "ASLEEP"
       /\ tx_wait_q' = Append(tx_wait_q, p)
       /\ Signalled(txq, WAKE_UP_IND, "ASLEEP_TO_AWAKE")
    \/ /\ hcill_state = "ASLEEP_TO_AWAKE"
       /\ tx_wait_q' = Append(tx_wait_q, p)
       /\ UNCHANGED <<txq, hcill_state, failed>>

SendFrame(s) ==
    /\ pc[s] = "idle" /\ sent + 1 \in Data
    /\ sent' = sent + 1
    /\ Enqueue(sent + 1)
    /\ Goto(s, "wakeup")
    /\ UNCHANGED <<bits, hand, do_write_wakeup, uart, drained, passedBy, chip, part,
                   toHost, got>>

-----------------------------------------------------------------------------
(* What ll_recv does with the chip's signals.                              *)

(* __ll_do_awake after the queue q: the waiting packets go first.          *)
DoAwake(q) ==
    /\ txq' = q \o tx_wait_q
    /\ tx_wait_q' = <<>>
    /\ hcill_state' = "AWAKE"

(* ll_device_want_to_wakeup: while asleep or waking, only with an          *)
(* acknowledgement; in any other state an error is logged, no more.        *)
WantToWakeUp ==
    IF hcill_state \in {"ASLEEP", "ASLEEP_TO_AWAKE"}
    THEN \/ DoAwake(Append(txq, WAKE_UP_ACK)) /\ UNCHANGED failed
         \/ failed' = TRUE /\ UNCHANGED <<txq, tx_wait_q, hcill_state>>
    ELSE DoAwake(txq) /\ UNCHANGED failed

(* ll_device_want_to_sleep, in any state.                                  *)
WantToSleepOnly == Signalled(txq, GO_TO_SLEEP_ACK, hcill_state) /\ UNCHANGED tx_wait_q
WantToSleep == Signalled(txq, GO_TO_SLEEP_ACK, "ASLEEP") /\ UNCHANGED tx_wait_q

(* ll_device_woke_up.                                                      *)
WokeUp == DoAwake(txq) /\ UNCHANGED failed

Recv ==
    /\ pc[Rx] = "idle" /\ toHost # <<>>
    /\ toHost' = Tail(toHost)
    /\ CASE Head(toHost) = WAKE_UP_IND  -> WantToWakeUp
         [] Head(toHost) = GO_TO_SLEEP_IND -> WantToSleep
         [] Head(toHost) = WAKE_UP_ACK  -> WokeUp
    /\ Goto(Rx, "wakeup")
    /\ UNCHANGED <<bits, hand, do_write_wakeup, uart, drained, passedBy, chip, part,
                   sent, got>>

-----------------------------------------------------------------------------
(* The chip, as the comments of hci_ll.c describe it.  It asks before it   *)
(* sleeps and before it talks; woken by the host it answers; when both     *)
(* have asked to wake at once, the host's request is enough for some chips *)
(* (209-211) and the others wait for the acknowledgement.                  *)
ChipGets(frame) ==
    CASE frame = GO_TO_SLEEP_ACK /\ chip = "going" ->
           chip' = "asleep" /\ UNCHANGED <<toHost, got>>
      [] frame = WAKE_UP_IND /\ chip = "asleep" ->
           chip' = "awake" /\ toHost' = Append(toHost, WAKE_UP_ACK) /\ UNCHANGED got
      [] frame = WAKE_UP_IND /\ chip = "waking" ->
           chip' \in {"waking", "awake"} /\ UNCHANGED <<toHost, got>>
      [] frame = WAKE_UP_ACK /\ chip = "waking" ->
           chip' = "awake" /\ UNCHANGED <<toHost, got>>
      [] frame \in Data /\ chip # "asleep" ->
           got' = Append(got, frame) /\ UNCHANGED <<chip, toHost>>
      [] OTHER -> UNCHANGED <<chip, toHost, got>>

(* The UART sends one unit; the chip acts on whole frames.                 *)
Drain ==
    /\ uart # <<>>
    /\ uart' = Tail(uart)
    /\ drained' = TRUE
    /\ LET frame == Head(uart)[1]
           n == Head(uart)[2]
       IN IF n < Size(frame)
          THEN part' = frame /\ UNCHANGED <<chip, toHost, got>>
          ELSE /\ part' = None
               /\ IF part = (IF n = 1 THEN None ELSE frame)
                  THEN ChipGets(frame) ELSE UNCHANGED <<chip, toHost, got>>
    /\ UNCHANGED <<pc, bits, hand, txq, do_write_wakeup, passedBy, hcill_state,
                   tx_wait_q, sent, failed>>

ChipAsks ==
    /\ toHost = <<>>
    /\ \/ chip = "awake" /\ chip' = "going" /\ toHost' = <<GO_TO_SLEEP_IND>>
       \/ chip = "asleep" /\ chip' = "waking" /\ toHost' = <<WAKE_UP_IND>>
    /\ UNCHANGED <<ldisc, hcill_state, tx_wait_q, part, sent, got, failed>>

-----------------------------------------------------------------------------
Driver == UNCHANGED <<hcill_state, tx_wait_q, chip, part, toHost, sent, got, failed>>

Next ==
    \/ \E s \in Senders : SendFrame(s)
    \/ Recv
    \/ \E t \in Threads : TxWakeup(t) /\ Driver
    \/ TtyWakeup /\ Driver
    \/ Drain \/ ChipAsks

Spec == Init /\ [][Next]_vars

(* Threads that have begun a call finish it, signals that came in are      *)
(* handled, and the UART sends what it has.  Nobody need send, and the     *)
(* chip need not ask.                                                      *)
FairSpec ==
    /\ Spec
    /\ \A t \in Threads : WF_vars(TxWakeup(t) /\ Driver)
    /\ WF_vars(Recv) /\ WF_vars(TtyWakeup /\ Driver) /\ WF_vars(Drain)

-----------------------------------------------------------------------------
(* Every variable keeps its type.                                          *)
Frames == Data \cup Signals
Rests == [frame : Frames, from : 1..2] \cup {None}

TypeOK ==
    /\ pc \in [Threads -> {"idle", "wakeup", "mark", "restart", "dequeue", "write",
                           "check", "release"}]
    /\ sending \in BOOLEAN /\ wakeup \in BOOLEAN /\ do_write_wakeup \in BOOLEAN
    /\ drained \in BOOLEAN /\ passedBy \in BOOLEAN /\ failed \in BOOLEAN
    /\ skb \in Rests /\ tx_skb \in Rests
    /\ txq \in Seq(Frames) /\ tx_wait_q \in Seq(Data) /\ got \in Seq(Data)
    /\ uart \in Seq(Frames \X {1, 2}) /\ Len(uart) <= UartSize
    /\ hcill_state \in {"ASLEEP", "ASLEEP_TO_AWAKE", "AWAKE"}
    /\ chip \in {"asleep", "waking", "awake", "going"}
    /\ part \in Data \cup {None}
    /\ toHost \in Seq(Signals)
    /\ sent = 0 \/ sent \in Data

(* Packets arrive whole and in the order in which they were handed over,   *)
(* whoever hands them over and whoever runs the loop, across UARTs that    *)
(* take half a frame and packets that waited for the chip to wake.         *)
ArriveInOrder == \A i \in 1..Len(got) : got[i] = i

(* A sleeping chip gets nothing but the request to wake up: packets and    *)
(* acknowledgements sent before it slept are ahead of the signal that let  *)
(* it sleep, later ones wait (ll_enqueue, ll_device_want_to_sleep).        *)
AsleepHearsOnlyWake ==
    chip = "asleep" /\ uart # <<>> => Head(uart)[1] = WAKE_UP_IND

(* Every packet arrives at the chip, whatever the chip does about sleep,   *)
(* as long as there is memory for signals and no caller finds SENDING set  *)
(* but marks TX_WAKEUP after the loop's last look at it (hci_ldisc.c:154). *)
PacketsArrive ==
    [](~failed /\ ~passedBy) => \A p \in Data : sent >= p ~> Len(got) >= p
=============================================================================

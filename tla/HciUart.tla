------------------------------- MODULE HciUart -------------------------------
(***************************************************************************)
(* The transmit side of the line discipline of the Bluetooth UART driver,  *)
(* src/usb-logger/bluetooth-stand/hci_ldisc.c.  Any thread that has made   *)
(* something ready to go calls hci_uart_tx_wakeup; HCI_UART_SENDING lets   *)
(* one of them through, which dequeues and writes until nothing is left,   *)
(* and HCI_UART_TX_WAKEUP tells it that another one came by.  A frame the  *)
(* UART has no room for is kept in tx_skb until the UART asks for more.    *)
(*                                                                         *)
(* The bit operations and the queues' own operations are atomic; anything  *)
(* may happen between two of them.  The protocol's dequeue takes the head  *)
(* of txq (hci_ll.c, 504).                                                 *)
(***************************************************************************)
EXTENDS Naturals, Sequences, FiniteSetsExt

CONSTANTS
    Senders,           (* the tasklets that send commands and data           *)
    Rx, Wake,          (* the receive path, and the UART's tasklet           *)
    UartSize,          (* units of a frame the UART has room for             *)
    Data,              (* the packets, which take two units                  *)
    None

Threads == Senders \cup {Rx, Wake}

ASSUME UartAssumption == UartSize \in Nat \ {0} /\ Rx # Wake /\ Senders \cap {Rx, Wake} = {}

VARIABLES
    pc,                (* where each thread stands in hci_uart_tx_wakeup     *)
    sending, wakeup,   (* HCI_UART_SENDING and HCI_UART_TX_WAKEUP            *)
    skb, tx_skb,       (* the frame in hand, and the rest of one             *)
    txq,               (* the protocol's queue of frames                     *)
    do_write_wakeup,   (* TTY_DO_WRITE_WAKEUP                                *)
    uart,              (* the units in the UART's buffer                     *)
    drained,           (* the UART's tasklet is due                          *)
    passedBy           (* history: a caller found SENDING set, but marked    *)
                       (* TX_WAKEUP after the loop's last look at it         *)

bits == <<sending, wakeup>>
hand == <<skb, tx_skb>>
ldisc == <<pc, bits, hand, txq, do_write_wakeup, uart, drained, passedBy>>

UartInit ==
    /\ pc = [t \in Threads |-> "idle"]
    /\ sending = FALSE /\ wakeup = FALSE
    /\ skb = None /\ tx_skb = None
    /\ txq = <<>>
    /\ do_write_wakeup = FALSE
    /\ uart = <<>>
    /\ drained = FALSE
    /\ passedBy = FALSE

Goto(t, label) == pc' = [pc EXCEPT ![t] = label]

(* The units of a frame still to be written, and what is left of it.       *)
Size(frame) == IF frame \in Data THEN 2 ELSE 1
Whole(frame) == [frame |-> frame, from |-> 1]
Units(s) == [i \in 1..(Size(s.frame) - s.from + 1) |-> <<s.frame, s.from + i - 1>>]

-----------------------------------------------------------------------------
(* test_and_set_bit(HCI_UART_SENDING), and set_bit(HCI_UART_TX_WAKEUP) for *)
(* whoever finds it set (127-129).                                         *)
Enter(t) ==
    /\ pc[t] = "wakeup"
    /\ sending' = TRUE
    /\ Goto(t, IF sending THEN "mark" ELSE "restart")
    /\ UNCHANGED <<wakeup, hand, txq, do_write_wakeup, uart, drained, passedBy>>

LooksAgain == {"restart", "dequeue", "write", "check"}
Mark(t) ==
    /\ pc[t] = "mark"
    /\ wakeup' = TRUE
    /\ passedBy' = (passedBy \/ \A o \in Threads : pc[o] \notin LooksAgain)
    /\ Goto(t, "idle")
    /\ UNCHANGED <<sending, hand, txq, do_write_wakeup, uart, drained>>

Restart(t) ==
    /\ pc[t] = "restart"
    /\ wakeup' = FALSE
    /\ passedBy' = FALSE
    /\ Goto(t, "dequeue")
    /\ UNCHANGED <<sending, hand, txq, do_write_wakeup, uart, drained>>

(* set_bit(TTY_DO_WRITE_WAKEUP), before every write.                       *)
NotAsked == do_write_wakeup
Asked == do_write_wakeup \/ skb' # None

(* hci_uart_dequeue: the rest of a frame goes before the next one.         *)
DequeueSkb(t) ==
    /\ pc[t] = "dequeue"
    /\ skb' = IF tx_skb # None THEN tx_skb
              ELSE IF txq # <<>> THEN Whole(Head(txq)) ELSE None
    /\ tx_skb' = None
    /\ txq' = IF tx_skb = None /\ txq # <<>> THEN Tail(txq) ELSE txq
    /\ do_write_wakeup' = Asked
    /\ Goto(t, IF skb' # None THEN "write" ELSE "check")
    /\ UNCHANGED <<bits, uart, drained, passedBy>>

(* What the UART takes of it.                                              *)
Taken(rest) == Min({Len(rest), UartSize - Len(uart)})

WriteSkb(t) ==
    /\ pc[t] = "write"
    /\ LET rest == Units(skb)
           n == Taken(rest)
       IN  /\ uart' = uart \o SubSeq(rest, 1, n)
           /\ tx_skb' = IF n < Len(rest) THEN [skb EXCEPT !.from = @ + n] ELSE None
           /\ Goto(t, IF n < Len(rest) THEN "check" ELSE "dequeue")
    /\ skb' = None
    /\ UNCHANGED <<bits, txq, do_write_wakeup, drained, passedBy>>

(* The last look at TX_WAKEUP (154), and the release of SENDING (157).     *)
Check(t) ==
    /\ pc[t] = "check"
    /\ Goto(t, IF wakeup THEN "restart" ELSE "release")
    /\ UNCHANGED <<bits, hand, txq, do_write_wakeup, uart, drained, passedBy>>

Release(t) ==
    /\ pc[t] = "release"
    /\ sending' = FALSE
    /\ Goto(t, "idle")
    /\ UNCHANGED <<wakeup, hand, txq, do_write_wakeup, uart, drained, passedBy>>

TxWakeup(t) ==
    Enter(t) \/ Mark(t) \/ Restart(t) \/ DequeueSkb(t) \/ WriteSkb(t) \/ Check(t) \/ Release(t)

(* The UART has sent some of what it had; its tasklet calls tty_wakeup,    *)
(* which looks at TTY_DO_WRITE_WAKEUP, and hci_uart_tty_wakeup clears it.  *)
TtyWakeup ==
    /\ drained /\ pc[Wake] = "idle"
    /\ drained' = FALSE
    /\ do_write_wakeup' = FALSE
    /\ IF do_write_wakeup THEN Goto(Wake, "wakeup") ELSE UNCHANGED pc
    /\ UNCHANGED <<bits, hand, txq, uart, passedBy>>
=============================================================================

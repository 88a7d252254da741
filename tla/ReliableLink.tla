---------------------------- MODULE ReliableLink ----------------------------
(***************************************************************************)
(* What a BCSP link promises in each direction: packets numbered 1, 2, ... *)
(* arrive once each and in the order in which they were handed over, and   *)
(* the sender forgets a packet only when it has arrived.                   *)
(***************************************************************************)
EXTENDS Naturals, Sequences

CONSTANT Lines      (* the directions of the link                           *)

VARIABLES
    sent,           (* how many packets were handed over, for each line     *)
    arrived,        (* the packets that came out, in order                  *)
    forgotten       (* how many the sender no longer keeps                  *)

link == <<sent, arrived, forgotten>>

Init ==
    /\ sent = [l \in Lines |-> 0]
    /\ arrived = [l \in Lines |-> <<>>]
    /\ forgotten = [l \in Lines |-> 0]

Send(l) ==
    /\ sent' = [sent EXCEPT ![l] = @ + 1]
    /\ UNCHANGED <<arrived, forgotten>>

Arrive(l) ==
    /\ Len(arrived[l]) < sent[l]
    /\ arrived' = [arrived EXCEPT ![l] = Append(@, Len(@) + 1)]
    /\ UNCHANGED sent

Forget(l) ==
    /\ \E n \in forgotten[l] + 1 .. Len(arrived[l]) :
         forgotten' = [forgotten EXCEPT ![l] = n]
    /\ UNCHANGED sent

(* A frame may carry a packet of one line and the acknowledgement of       *)
(* another, so both may change in one step.                                *)
Next ==
    \/ \E l \in Lines : Send(l)
    \/ \E l \in Lines : Arrive(l) /\ UNCHANGED forgotten
    \/ \E l \in Lines : Forget(l) /\ UNCHANGED arrived
    \/ \E l, m \in Lines : l # m /\ Arrive(l) /\ Forget(m)

Spec == Init /\ [][Next]_link
=============================================================================

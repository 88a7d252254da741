----------------------------- MODULE ScsiService -----------------------------
(***************************************************************************)
(* What a SCSI host driver with can_queue = 1 promises to the midlayer, no *)
(* matter how it carries commands out: it holds one command at a time,     *)
(* lets go of each command it holds once, answers a command only while it  *)
(* holds it, and the error handler takes a command back only after the     *)
(* driver has let go of it.  UsbStorage implements it.                     *)
(***************************************************************************)
CONSTANTS Cmds, NoCmd

VARIABLES
    status,    (* the midlayer's view of each command                        *)
    held,      (* the command the driver holds                               *)
    answered,  (* the commands for which scsi_done has been called           *)
    gone       (* the driver accepts no more commands                        *)

vars == <<status, held, answered, gone>>

Init ==
    /\ status = [c \in Cmds |-> "new"]
    /\ held = NoCmd
    /\ answered = {}
    /\ gone = FALSE

Quiet == \A c \in Cmds : status[c] \notin {"issued", "expired"}

Accept(c) ==
    /\ ~gone
    /\ Quiet
    /\ status[c] = "new"
    /\ held = NoCmd
    /\ held' = c
    /\ status' = [status EXCEPT ![c] = "issued"]
    /\ UNCHANGED <<answered, gone>>

(* After an unplug a command is answered at once (DID_NO_CONNECT).         *)
Refuse(c) ==
    /\ gone
    /\ Quiet
    /\ status[c] = "new"
    /\ status' = [status EXCEPT ![c] = "finished"]
    /\ answered' = answered \cup {c}
    /\ UNCHANGED <<held, gone>>

(* The midlayer ignores the answer when the timer has already fired.       *)
Answer ==
    /\ held # NoCmd
    /\ held \notin answered
    /\ answered' = answered \cup {held}
    /\ status' = [status EXCEPT ![held] = IF @ = "issued" THEN "finished" ELSE @]
    /\ held' = NoCmd
    /\ UNCHANGED gone

(* A command is dropped without an answer only when it has timed out.      *)
Drop ==
    /\ held # NoCmd
    /\ status[held] = "expired"
    /\ held' = NoCmd
    /\ UNCHANGED <<status, answered, gone>>

Expire(c) ==
    /\ status[c] = "issued"
    /\ status' = [status EXCEPT ![c] = "expired"]
    /\ UNCHANGED <<held, answered, gone>>

TakeBack(c) ==
    /\ status[c] = "expired"
    /\ held = NoCmd
    /\ status' = [status EXCEPT ![c] = "finished"]
    /\ UNCHANGED <<held, answered, gone>>

Unplug ==
    /\ gone' = TRUE
    /\ UNCHANGED <<status, held, answered>>

Next == \/ \E c \in Cmds : Accept(c) \/ Refuse(c) \/ Expire(c) \/ TakeBack(c)
        \/ Answer \/ Drop \/ Unplug

Spec == Init /\ [][Next]_vars
=============================================================================

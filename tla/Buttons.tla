------------------------------- MODULE Buttons -------------------------------
(***************************************************************************)
(* The two drivers of the board's keys, src/button-test/test.c (device     *)
(* "buttons", every key) and src/button-test/my-button1.c (device          *)
(* "my-button1", one key), loaded together: both want the interrupt line   *)
(* of that key.  Processes open, share, read, poll and close the devices   *)
(* while keys are pressed and released.                                    *)
(*                                                                         *)
(* The board has one processor and a handler runs with interrupts off, so  *)
(* a handler is one action, which may come between any two steps of a      *)
(* process.  misc_open holds misc_mtx, so opens exclude each other.        *)
(***************************************************************************)
EXTENDS Integers, FiniteSets

CONSTANTS
    Procs,
    NKeys,   (* the length of button_irqs; its indices are the keys          *)
    BT1      (* the key of my-button1                                        *)

Keys == 0..(NKeys - 1)

ASSUME ProcsAssumption == IsFiniteSet(Procs)
ASSUME KeysAssumption == NKeys \in Nat \ {0} /\ BT1 \in Keys

VARIABLES
    pc,          (* where each process stands                                *)
    file,        (* its open file, 0 for none                                *)
    driver,      (* and the driver behind it                                 *)
    at,          (* the loop variable of open and close of "buttons"         *)
    left,        (* the keys copy_to_user has not copied yet                 *)
    pin,         (* 1 while a key is held down                               *)
    pending,     (* its edge detector has seen an edge                       *)
    owner,       (* whose handler is installed on its line                   *)
    masked,      (* its line is disabled                                     *)
    key_values,
    event,       (* ev_press of "buttons" and press of "my-button1"          *)
    reported,    (* history: the value of each key last copied to a user     *)
    missed       (* history: the keys whose change a read gave up            *)

procs == <<pc, file, driver, at, left>>
told  == <<reported, missed>>
lines == <<owner, masked>>
vars  == <<procs, lines, pin, pending, key_values, event, told>>

Drivers == {"buttons", "my-button1"}
Files   == 1..Cardinality(Procs)

Init ==
    /\ pc = [p \in Procs |-> "closed"]
    /\ file = [p \in Procs |-> 0]
    /\ driver = [p \in Procs |-> "buttons"]
    /\ at = [p \in Procs |-> 0]
    /\ left = [p \in Procs |-> {}]
    /\ pin = [k \in Keys |-> 0]
    /\ pending = [k \in Keys |-> FALSE]
    /\ owner = [k \in Keys |-> "none"]
    /\ masked = [k \in Keys |-> FALSE]
    /\ key_values = [k \in Keys |-> 0]
    /\ event = [d \in Drivers |-> FALSE]
    /\ reported = [k \in Keys |-> 0]
    /\ missed = {}

Goto(p, label) == pc' = [pc EXCEPT ![p] = label]

-----------------------------------------------------------------------------
(* The definitions named Nobody, Unnormalised, Included or ThenClear are   *)
(* faulty variants that only serve to test the properties.                 *)

(* request_irq, disable_irq and free_irq, which frees the caller's own     *)
(* handler only.                                                           *)
RequestIrq(d, k) ==
    /\ owner[k] = "none"
    /\ owner' = [owner EXCEPT ![k] = d]
    /\ masked' = [masked EXCEPT ![k] = FALSE]

Freed(d, k) == [owner EXCEPT ![k] = IF @ = d THEN "none" ELSE @]

(* A key is pressed or released.  A line nobody listens to may keep the    *)
(* edge for whoever comes next.                                            *)
Edge(k) ==
    /\ pin' = [pin EXCEPT ![k] = 1 - @]
    /\ \E latched \in BOOLEAN :
         /\ owner[k] # "none" => latched
         /\ pending' = [pending EXCEPT ![k] = latched]
    /\ UNCHANGED <<procs, lines, key_values, event, told>>

(* wake_up_interruptible on the driver's queue: who sleeps there looks at  *)
(* the condition again.                                                    *)
WakeNobody(d) == UNCHANGED pc
WakeUp(d) ==
    pc' = [p \in Procs |->
             CASE driver[p] = d /\ pc[p] = "r_asleep" -> "r_wait"
               [] driver[p] = d /\ pc[p] = "p_asleep" -> "p_wait"
               [] OTHER -> pc[p]]

Happened(d) == event' = [event EXCEPT ![d] = TRUE] /\ WakeUp(d)

Down(k) == pin[k]

(* buttons_interrupt of either driver.                                     *)
Interrupt(k) ==
    /\ pending[k] /\ owner[k] # "none" /\ ~masked[k]
    /\ pending' = [pending EXCEPT ![k] = FALSE]
    /\ \/ /\ owner[k] = "buttons" /\ Down(k) # key_values[k]
          /\ key_values' = [key_values EXCEPT ![k] = Down(k)]
          /\ Happened("buttons")
       \/ /\ owner[k] = "my-button1" /\ pin[k] = 1
          /\ Happened("my-button1")
          /\ UNCHANGED key_values
       \/ /\ owner[k] = "buttons" => Down(k) = key_values[k]
          /\ owner[k] = "my-button1" => pin[k] = 0
          /\ UNCHANGED <<key_values, event, pc>>
    /\ UNCHANGED <<file, driver, at, left, lines, pin, told>>

-----------------------------------------------------------------------------
(* Opening.                                                                *)

NobodyOpening == \A p \in Procs : pc[p] \notin {"o_request", "o_undo"}

FreshFile ==
    CHOOSE f \in Files :
      /\ \A p \in Procs : file[p] # f
      /\ \A g \in 1..(f - 1) : \E p \in Procs : file[p] = g

(* s3c64xx_buttons_open: every line in turn ...                            *)
Open(p) ==
    /\ pc[p] = "closed" /\ NobodyOpening
    /\ Goto(p, "o_request")
    /\ UNCHANGED <<file, driver, at, left, lines, pin, pending, key_values,
                   event, told>>

FailedIncluded(i) == i + 1
HeldBefore(i) == i

OpenRequest(p) ==
    /\ pc[p] = "o_request" /\ at[p] < NKeys
    /\ \/ /\ RequestIrq("buttons", at[p])
          /\ at' = [at EXCEPT ![p] = @ + 1]
          /\ UNCHANGED pc
       \/ /\ at' = [at EXCEPT ![p] = HeldBefore(@)]
          /\ Goto(p, "o_undo")
          /\ UNCHANGED lines
    /\ UNCHANGED <<file, driver, left, pin, pending, key_values, event,
                   told>>

OpenDone(p) ==
    /\ pc[p] = "o_request" /\ at[p] = NKeys
    /\ event' = [event EXCEPT !["buttons"] = TRUE]
    /\ file' = [file EXCEPT ![p] = FreshFile]
    /\ at' = [at EXCEPT ![p] = 0]
    /\ Goto(p, "open")
    /\ UNCHANGED <<driver, left, lines, pin, pending, key_values, told>>

(* ... and when one fails, those it has are given back.                    *)
OpenUndo(p) ==
    /\ pc[p] = "o_undo"
    /\ \/ /\ at[p] > 0
          /\ owner' = Freed("buttons", at[p] - 1)
          /\ masked' = [masked EXCEPT ![at[p] - 1] = TRUE]
          /\ at' = [at EXCEPT ![p] = @ - 1]
          /\ UNCHANGED pc
       \/ at[p] = 0 /\ Goto(p, "closed") /\ UNCHANGED <<lines, at>>
    /\ UNCHANGED <<file, driver, left, pin, pending, key_values, event,
                   told>>

(* my_buttons_open: when the request fails, the line is disabled and freed *)
(* all the same.                                                           *)
OpenButton1(p) ==
    /\ pc[p] = "closed" /\ NobodyOpening
    /\ \/ /\ RequestIrq("my-button1", BT1)
          /\ driver' = [driver EXCEPT ![p] = "my-button1"]
          /\ file' = [file EXCEPT ![p] = FreshFile]
          /\ Goto(p, "open")
       \/ /\ masked' = [masked EXCEPT ![BT1] = TRUE]
          /\ owner' = Freed("my-button1", BT1)
          /\ UNCHANGED <<pc, file, driver>>
    /\ UNCHANGED <<at, left, pin, pending, key_values, event, told>>

(* A child inherits an open file.                                          *)
Inherit(p, q) ==
    /\ pc[p] = "closed" /\ file[q] # 0 /\ pc[q] # "closing"
    /\ file' = [file EXCEPT ![p] = file[q]]
    /\ driver' = [driver EXCEPT ![p] = driver[q]]
    /\ Goto(p, "open")
    /\ UNCHANGED <<at, left, lines, pin, pending, key_values, event, told>>

-----------------------------------------------------------------------------
(* s3c64xx_buttons_read and my_buttons_read.                               *)

Read(p) ==
    /\ pc[p] = "open"
    /\ \/ event[driver[p]] /\ Goto(p, "r_clear")
       \/ ~event[driver[p]] /\ Goto(p, "r_wait")
       \/ ~event[driver[p]] /\ UNCHANGED pc         \* O_NONBLOCK: -EAGAIN
    /\ UNCHANGED <<file, driver, at, left, lines, pin, pending, key_values,
                   event, told>>

(* wait_event_interruptible; that a signal ended it is ignored.            *)
ReadWait(p) ==
    /\ pc[p] = "r_wait"
    /\ Goto(p, IF event[driver[p]] THEN "r_clear" ELSE "r_asleep")
    /\ UNCHANGED <<file, driver, at, left, lines, pin, pending, key_values,
                   event, told>>

ReadSignal(p) ==
    /\ pc[p] = "r_asleep"
    /\ Goto(p, "r_clear")
    /\ UNCHANGED <<file, driver, at, left, lines, pin, pending, key_values,
                   event, told>>

(* A change of these keys will be copied to nobody.                        *)
GiveUp(keys) ==
    missed' = missed \cup {k \in keys : reported[k] # key_values[k]}

(* The event is cleared, whatever the read asked for: the first n keys.    *)
ReadClear(p) ==
    /\ pc[p] = "r_clear"
    /\ event' = [event EXCEPT ![driver[p]] = FALSE]
    /\ \/ /\ driver[p] = "buttons"
          /\ \E n \in 0..NKeys :
                /\ left' = [left EXCEPT ![p] = 0..(n - 1)]
                /\ GiveUp(n..(NKeys - 1))
                /\ Goto(p, IF n = 0 THEN "open" ELSE "r_copy")
       \/ /\ driver[p] = "my-button1"
          /\ Goto(p, "open") /\ UNCHANGED <<left, missed>>
    /\ UNCHANGED <<file, driver, at, lines, pin, pending, key_values,
                   reported>>

(* copy_to_user, with interrupts on, of one key more ...                   *)
CopyOne(p) ==
    \E k \in left[p] :
       /\ reported' = [reported EXCEPT ![k] = key_values[k]]
       /\ missed' = missed \ {k}
       /\ left' = [left EXCEPT ![p] = @ \ {k}]
       /\ IF left[p] = {k} THEN Goto(p, "open") ELSE UNCHANGED pc

ReadCopyThenClear(p) ==
    /\ pc[p] = "r_copy"
    /\ CopyOne(p)
    /\ event' = [event EXCEPT !["buttons"] = FALSE]
    /\ UNCHANGED <<file, driver, at, lines, pin, pending, key_values>>

ReadCopy(p) ==
    /\ pc[p] = "r_copy"
    /\ CopyOne(p)
    /\ UNCHANGED <<file, driver, at, lines, pin, pending, key_values, event>>

(* ... or the page is not there, and the read returns -EFAULT.             *)
ReadFault(p) ==
    /\ pc[p] = "r_copy"
    /\ GiveUp(left[p])
    /\ left' = [left EXCEPT ![p] = {}]
    /\ Goto(p, "open")
    /\ UNCHANGED <<file, driver, at, lines, pin, pending, key_values, event,
                   reported>>

(* select with the driver's poll; it may time out.                         *)
Poll(p) ==
    /\ \/ pc[p] = "open" /\ Goto(p, "p_wait")
       \/ pc[p] = "p_wait" /\ event[driver[p]] /\ Goto(p, "open")
       \/ pc[p] = "p_wait" /\ ~event[driver[p]] /\ Goto(p, "p_asleep")
       \/ pc[p] = "p_asleep" /\ Goto(p, "open")
    /\ UNCHANGED <<file, driver, at, left, lines, pin, pending, key_values,
                   event, told>>

-----------------------------------------------------------------------------
(* Closing; the last one to share the file calls the driver.               *)

Forget(p) ==
    /\ file' = [file EXCEPT ![p] = 0]
    /\ driver' = [driver EXCEPT ![p] = "buttons"]

Shared(p) == \E q \in Procs \ {p} : file[q] = file[p]

CloseShared(p) ==
    /\ pc[p] = "open" /\ Shared(p)
    /\ Forget(p)
    /\ Goto(p, "closed")
    /\ UNCHANGED <<at, left, lines, pin, pending, key_values, event,
                   told>>

(* my_buttons_close.                                                       *)
CloseButton1(p) ==
    /\ pc[p] = "open" /\ ~Shared(p) /\ driver[p] = "my-button1"
    /\ masked' = [masked EXCEPT ![BT1] = TRUE]
    /\ owner' = Freed("my-button1", BT1)
    /\ Forget(p)
    /\ Goto(p, "closed")
    /\ UNCHANGED <<at, left, pin, pending, key_values, event, told>>

(* s3c64xx_buttons_close.                                                  *)
Close(p) ==
    /\ pc[p] = "open" /\ ~Shared(p) /\ driver[p] = "buttons"
    /\ Goto(p, "closing")
    /\ UNCHANGED <<file, driver, at, left, lines, pin, pending, key_values,
                   event, told>>

CloseFree(p) ==
    /\ pc[p] = "closing"
    /\ \/ /\ at[p] < NKeys
          /\ owner' = Freed("buttons", at[p])
          /\ at' = [at EXCEPT ![p] = @ + 1]
          /\ UNCHANGED <<pc, file, driver>>
       \/ /\ at[p] = NKeys
          /\ at' = [at EXCEPT ![p] = 0]
          /\ Forget(p)
          /\ Goto(p, "closed")
          /\ UNCHANGED owner
    /\ UNCHANGED <<left, masked, pin, pending, key_values, event,
                   told>>

-----------------------------------------------------------------------------
Next ==
    \/ \E k \in Keys : Edge(k) \/ Interrupt(k)
    \/ \E p \in Procs :
         \/ Open(p) \/ OpenRequest(p) \/ OpenDone(p) \/ OpenUndo(p)
         \/ OpenButton1(p) \/ \E q \in Procs : Inherit(p, q)
         \/ Read(p) \/ ReadWait(p) \/ ReadSignal(p) \/ ReadClear(p)
         \/ ReadCopy(p) \/ ReadFault(p) \/ Poll(p)
         \/ CloseShared(p) \/ CloseButton1(p) \/ Close(p) \/ CloseFree(p)

Spec == Init /\ [][Next]_vars

-----------------------------------------------------------------------------
TypeOK ==
    /\ pc \in [Procs -> {"closed", "o_request", "o_undo", "open", "r_wait",
                         "r_asleep", "r_clear", "r_copy", "p_wait",
                         "p_asleep", "closing"}]
    /\ file \in [Procs -> Files \cup {0}]
    /\ driver \in [Procs -> Drivers]
    /\ at \in [Procs -> 0..NKeys]
    /\ left \in [Procs -> SUBSET Keys]
    /\ pin \in [Keys -> {0, 1}]
    /\ pending \in [Keys -> BOOLEAN]
    /\ masked \in [Keys -> BOOLEAN]
    /\ owner \in [Keys -> Drivers \cup {"none"}]
    /\ key_values \in [Keys -> {0, 1}]
    /\ event \in [Drivers -> BOOLEAN]
    /\ reported \in [Keys -> {0, 1}]
    /\ missed \subseteq Keys

(* A change of a key is not lost between interrupt and read, however many  *)
(* readers share the file: when ev_press is clear, every key is as it was  *)
(* last copied to a user, or a reader is about to copy it.  Excepted is a  *)
(* change that a read cleared without asking for the key, or for a buffer  *)
(* that was not there.                                                     *)
NoChangeUnreported ==
    event["buttons"] \/ \A k \in Keys :
        reported[k] # key_values[k]
        => k \in missed \/ \E p \in Procs : pc[p] = "r_copy" /\ k \in left[p]

(* Nobody sleeps in read or select while there is something to read.       *)
NoMissedWakeUp ==
    \A p \in Procs :
        pc[p] \in {"r_asleep", "p_asleep"} => ~event[driver[p]]

(* Whatever opens fail half way, because the line is taken by another file *)
(* or by my-button1, the driver "buttons" has all its lines while its one  *)
(* file is open, and none when it is not.                                  *)
Using == {p \in Procs : driver[p] = "buttons" /\ file[p] # 0}
LinesFollowFile ==
    (\A p \in Procs : pc[p] \notin {"o_request", "o_undo", "closing"})
    => \A k \in Keys :
         /\ owner[k] = "buttons" <=> Using # {}
         /\ \A p, q \in Using : file[p] = file[q]
=============================================================================

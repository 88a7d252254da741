--------------------------------- MODULE At24 ---------------------------------
(***************************************************************************)
(* The EEPROM driver src/i2c-module/at24.c: reads and writes of any length *)
(* cut into transfers, one page at most for a write, each retried while    *)
(* the chip is busy with the write before it.                              *)
(*                                                                         *)
(* A byte of the memory is named by who wrote it and for which offset.     *)
(* Time is what is left: of the chip's write cycle, and for each process   *)
(* until the timeout it computed.                                          *)
(***************************************************************************)
EXTENDS Integers

CONSTANTS
    Procs,         (* processes that read or write the file                  *)
    NobodyHolds,   (* at24->lock is free                                     *)
    Factory,       (* what the memory holds at first                         *)
    byte_len,      (* bytes of the chip                                      *)
    page_size,     (* what it can write at once                              *)
    Addressable,   (* bytes behind one I2C address: 256                      *)
    io_limit,      (* most bytes of one transfer                             *)
    write_timeout, (* how long to retry                                      *)
    WriteCycle     (* how long the chip may be busy after a write            *)

ASSUME ChipAssumption ==
    /\ byte_len \in Nat \ {0} /\ page_size \in Nat \ {0}
    /\ Addressable \in Nat \ {0} /\ io_limit \in Nat \ {0}
    /\ NobodyHolds \notin Procs /\ Factory \notin Procs
(* "waiting at least long enough for one entire page write to work".       *)
ASSUME TimeoutAssumption ==
    /\ write_timeout \in Nat /\ WriteCycle \in Nat
    /\ WriteCycle <= write_timeout

VARIABLES
    pc,       (* where each process stands                                   *)
    call,     (* its operation, offset, count, and how much is done          *)
    chunk,    (* the length of its transfer                                  *)
    left,     (* the time until its timeout                                  *)
    before,   (* its time_before(write_time, timeout)                        *)
    buf,      (* what it has read                                            *)
    lock,     (* at24->lock                                                  *)
    mem,      (* the memory of the chip                                      *)
    cycle,    (* the rest of the chip's write cycle                          *)
    healthy   (* no transfer fails except while the chip is busy             *)

attempt == <<chunk, left, before>>
chip    == <<mem, cycle, healthy>>
vars    == <<pc, call, attempt, buf, lock, chip>>

Offsets == 0..(byte_len - 1)
Bytes   == [by : Procs \cup {Factory}, at : Offsets]
Byte(p, o) == [by |-> p, at |-> o]
Least(a, b) == IF a < b THEN a ELSE b
write_max == Least(page_size, io_limit)
Goto(p, label) == pc' = [pc EXCEPT ![p] = label]

NoCall == [op |-> "none", off |-> 0, count |-> 0, retval |-> 0]
NothingRead == [o \in Offsets |-> Byte(Factory, 0)]

Init ==
    /\ pc = [p \in Procs |-> "idle"]
    /\ call = [p \in Procs |-> NoCall]
    /\ chunk = [p \in Procs |-> 0]
    /\ left = [p \in Procs |-> 0]
    /\ before = [p \in Procs |-> FALSE]
    /\ buf = [p \in Procs |-> NothingRead]
    /\ lock = NobodyHolds
    /\ mem = [o \in Offsets |-> Byte(Factory, o)]
    /\ cycle = 0
    /\ healthy \in BOOLEAN

(* at24_bin_read or at24_bin_write, with what sysfs lets pass; the         *)
(* definitions named Ignored, Crossed or Late are faulty variants that     *)
(* only serve to test the properties.                                      *)
Call(p) ==
    /\ pc[p] = "idle"
    /\ \E op \in {"read", "write"}, o \in Offsets :
       \E n \in 1..(byte_len - o) :
         call' = [call EXCEPT ![p] =
                    [op |-> op, off |-> o, count |-> n, retval |-> 0]]
    /\ Goto(p, "lock")
    /\ UNCHANGED <<attempt, buf, lock, chip>>

MutexIgnored == TRUE
MutexFree == lock = NobodyHolds

Lock(p) ==
    /\ pc[p] = "lock"
    /\ MutexFree
    /\ lock' = p
    /\ Goto(p, "chunk")
    /\ UNCHANGED <<call, attempt, buf, chip>>

Next_page(o) == ((o \div page_size) + 1) * page_size

(* How much of a call that has got to offset o the next transfer takes.    *)
ReadChunk(o, n) == Least(n, io_limit)
PageCrossed(o, n) == Least(n, write_max)
WriteChunk(o, n) == Least(Least(n, write_max), Next_page(o) - o)

Position(p) == call[p].off + call[p].retval
Wanted(p)   == call[p].count - call[p].retval

StartTransfer(p) ==
    /\ pc[p] = "chunk"
    /\ chunk' = [chunk EXCEPT ![p] =
                   IF call[p].op = "read"
                   THEN ReadChunk(Position(p), Wanted(p))
                   ELSE WriteChunk(Position(p), Wanted(p))]
    /\ left' = [left EXCEPT ![p] = write_timeout]
    /\ Goto(p, "attempt")
    /\ UNCHANGED <<call, before, buf, lock, chip>>

(* write_time = jiffies: before the transfer, not after it.                *)
SampleTime(p) == before' = [before EXCEPT ![p] = left[p] > 0]

Attempt(p) ==
    /\ pc[p] = "attempt"
    /\ SampleTime(p)
    /\ Goto(p, "transfer")
    /\ UNCHANGED <<call, chunk, left, buf, lock, chip>>

(* msgbuf is a u8, and the slave is always client[0].                      *)
ChipAddress(o) == o % Addressable

(* The chip wraps around within the page when it is written ...            *)
WriteCell(a, i) ==
    (a \div page_size) * page_size + ((a + i) % page_size)
Written(p, n) ==
    LET a == ChipAddress(Position(p))
        cells == {WriteCell(a, i) : i \in 0..(n - 1)}
        Last(c) == CHOOSE i \in 0..(n - 1) :
                     /\ WriteCell(a, i) = c
                     /\ \A j \in 0..(n - 1) : WriteCell(a, j) = c => j <= i
    IN  [c \in Offsets |-> IF c \in cells THEN Byte(p, Position(p) + Last(c))
                           ELSE mem[c]]
(* ... and over the whole memory when it is read.                          *)
ReadCell(a, i) == (a + i) % byte_len
ReadIn(p) ==
    LET a == ChipAddress(Position(p)) IN
    [o \in Offsets |->
       IF o \in Position(p)..(Position(p) + chunk[p] - 1)
       THEN mem[ReadCell(a, o - Position(p))] ELSE buf[p][o]]

(* The transfer counts as done.                                            *)
Advance(p) ==
    /\ call' = [call EXCEPT ![p].retval = @ + chunk[p]]
    /\ Goto(p, IF chunk[p] = Wanted(p) THEN "unlock" ELSE "chunk")

(* i2c_transfer, with the chip's part in it.                               *)
Succeeds(p) ==
    /\ cycle = 0
    /\ \/ /\ call[p].op = "read"
          /\ buf' = [buf EXCEPT ![p] = ReadIn(p)]
          /\ UNCHANGED <<mem, cycle>>
       \/ /\ call[p].op = "write"
          /\ mem' = Written(p, chunk[p])
          /\ cycle' = WriteCycle
          /\ UNCHANGED buf
    /\ Advance(p)

(* It executes the first message of a read, the byte address, and returns  *)
(* their number, 1, which is taken for a read of one byte.                 *)
Stops(p) ==
    /\ ~healthy /\ cycle = 0 /\ call[p].op = "read"
    /\ \/ chunk[p] = 1 /\ Advance(p)
       \/ chunk[p] # 1 /\ Goto(p, "retry") /\ UNCHANGED call
    /\ UNCHANGED <<buf, mem, cycle>>

(* It is not acknowledged by a busy chip, or fails, perhaps after the chip *)
(* has got some of the bytes.                                              *)
Fails(p) ==
    /\ \/ cycle > 0 /\ UNCHANGED <<mem, cycle>>
       \/ ~healthy /\ UNCHANGED <<mem, cycle>>
       \/ /\ ~healthy /\ cycle = 0 /\ call[p].op = "write"
          /\ \E n \in 1..chunk[p] : mem' = Written(p, n)
          /\ cycle' = WriteCycle
    /\ Goto(p, "retry")
    /\ UNCHANGED <<call, buf>>

Transfer(p) ==
    /\ pc[p] = "transfer"
    /\ Succeeds(p) \/ Stops(p) \/ Fails(p)
    /\ UNCHANGED <<attempt, lock, healthy>>

(* while (time_before(write_time, timeout)), else -ETIMEDOUT.              *)
SampledLate(p) == left[p] > 0
MayRetry(p) == before[p]

Retry(p) ==
    /\ pc[p] = "retry"
    /\ Goto(p, IF MayRetry(p) THEN "attempt" ELSE "unlock")
    /\ UNCHANGED <<call, attempt, buf, lock, chip>>

Unlock(p) ==
    /\ pc[p] = "unlock"
    /\ lock' = NobodyHolds
    /\ call' = [call EXCEPT ![p] = NoCall]
    /\ chunk' = [chunk EXCEPT ![p] = 0]
    /\ left' = [left EXCEPT ![p] = 0]
    /\ before' = [before EXCEPT ![p] = FALSE]
    /\ buf' = [buf EXCEPT ![p] = NothingRead]
    /\ Goto(p, "idle")
    /\ UNCHANGED chip

(* Time passes, between any two steps.                                     *)
Less(t) == IF t > 0 THEN t - 1 ELSE 0
Tick ==
    /\ cycle > 0 \/ \E p \in Procs : left[p] > 0
    /\ cycle' = Less(cycle)
    /\ left' = [p \in Procs |-> Less(left[p])]
    /\ UNCHANGED <<pc, call, chunk, before, buf, lock, mem, healthy>>

Steps(p) == \/ Lock(p) \/ StartTransfer(p) \/ Attempt(p) \/ Transfer(p)
            \/ Retry(p) \/ Unlock(p)
Next == (\E p \in Procs : Call(p) \/ Steps(p)) \/ Tick

Spec == Init /\ [][Next]_vars

-----------------------------------------------------------------------------
Labels == {"idle", "lock", "chunk", "attempt", "transfer", "retry", "unlock"}

TypeOK ==
    /\ pc \in [Procs -> Labels]
    /\ call \in [Procs -> [op : {"none", "read", "write"}, off : Offsets,
                           count : 0..byte_len, retval : 0..byte_len]]
    /\ chunk \in [Procs -> 0..byte_len]
    /\ left \in [Procs -> 0..write_timeout]
    /\ before \in [Procs -> BOOLEAN]
    /\ buf \in [Procs -> [Offsets -> Bytes]]
    /\ lock \in Procs \cup {NobodyHolds}
    /\ mem \in [Offsets -> Bytes]
    /\ cycle \in 0..WriteCycle
    /\ healthy \in BOOLEAN

Done(p) == call[p].off..(Position(p) - 1)

(* When a write returns, all it says it has written is in the memory, at   *)
(* the offsets asked for, whatever was retried.                            *)
WriteLanded ==
    \A p \in Procs : pc[p] = "unlock" /\ call[p].op = "write"
        => \A o \in Done(p) : mem[o] = Byte(p, o)

(* A read returns the memory as it is at one moment, although it takes     *)
(* several transfers: "protecting against concurrent updates".  Excepted   *)
(* is a byte that was asked for alone on a bus that fails (Stops).         *)
Alone(p, o) == io_limit = 1 \/ o = call[p].off + call[p].count - 1
ReadConsistent ==
    \A p \in Procs : pc[p] = "unlock" /\ call[p].op = "read"
        => \A o \in Done(p) :
             buf[p][o] = mem[o] \/ (~healthy /\ Alone(p, o))

(* "Never roll over backwards, to the start of this page": no transfer,    *)
(* complete or failed, changes a byte outside the range of its write.      *)
OnlyAskedChanged ==
    [][\A o \in Offsets : mem'[o] # mem[o] =>
         \E p \in Procs : /\ pc[p] = "transfer" /\ call[p].op = "write"
                          /\ call[p].off <= o
                          /\ o < call[p].off + call[p].count]_vars

(* A call on a healthy bus does all it was asked to: the wait for an       *)
(* earlier write never times out, however late the process is scheduled.   *)
NoFalseTimeout ==
    healthy => \A p \in Procs : pc[p] = "unlock" => Wanted(p) = 0
=============================================================================

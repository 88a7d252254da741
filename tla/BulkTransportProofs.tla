-------------------------- MODULE BulkTransportProofs --------------------------
(***************************************************************************)
(* Proofs about BulkTransport, for any lengths of data, size of the sense  *)
(* data, signatures and number of commands.                                *)
(***************************************************************************)
EXTENDS BulkTransport, TLAPS

(* A transport is under way, or has returned and is not yet judged; the    *)
(* status wrapper is awaited; what a transport returns if it got one.      *)
InCsw  == {"csw", "csw after empty", "csw after stall"}
Active == {"cbw", "data", "returned"} \cup InCsw
Answers == {"good", "failed", "no sense"}

(* The inductive invariant.  First, the whole of the records whose fields  *)
(* TypeOK names in part.                                                   *)
Sizes == Lengths \cup {SenseSize}
Devices ==
    [phase : {"command", "data", "status"}, tag : 0..tag, dir : {"in", "out"},
     length : Nat, want : 0..Nonsense, used : Nat, moved : Nat,
     status : DevStatus, empty : BOOLEAN]
Truths ==
    [status : DevStatus \cup {"none"}, used : Nat, moved : Nat, residue : Nat]
Records ==
    /\ dev \in Devices
    /\ truth \in Truths
    /\ asked.tag \in Nat

(* A transport that got a status has left the device ready for a command,  *)
(* and any other ends in a reset.                                          *)
PhaseInv ==
    /\ stage \in {"idle", "cbw"} /\ ~lame => dev.phase = "command"
    /\ stage = "returned" /\ transport \in Answers => dev.phase = "command"
    /\ stage = "cbw" /\ sensing => dev.phase = "command"

(* The command keeps its tag until the REQUEST SENSE takes the next one;   *)
(* a device that has that tag has taken the wrapper sent with it.          *)
TagInv ==
    /\ stage \in Active /\ ~sensing => asked.tag = tag /\ tag < 2 * number
    /\ sensing => stage \in Active /\ asked.tag < tag
    /\ stage \in Active /\ dev.tag = tag => dev.length = request.length
    /\ sensing /\ stage \in {"data"} \cup InCsw => dev.tag = tag

(* The request is the command's, or that of the REQUEST SENSE while the    *)
(* old_... variables keep the command's; the residual is set where it is   *)
(* relied on.                                                              *)
RequestInv ==
    /\ ~sensing => request \in Requests /\ request.length = asked.length
    /\ sensing => /\ request = REQUEST_SENSE
                  /\ old.request.length = asked.length
                  /\ old.resid \in 0..asked.length
    /\ stage = "cbw" => resid = 0
    /\ stage \in InCsw => resid \in 0..request.length
    /\ stage = "returned" /\ transport \in Answers => resid \in 0..request.length

(* While the status is awaited the residual covers all that was not moved; *)
(* what the transport returned is what the device has said of the command, *)
(* the residue included, and stays so while the sense data are fetched.    *)
TruthInv ==
    /\ stage \in InCsw /\ dev.tag = tag => dev.moved >= request.length - resid
    /\ stage = "returned" /\ ~sensing =>
         /\ transport \in {"good", "no sense"} => truth.status = "ok"
         /\ transport = "failed" => truth.status = "fail"
         /\ transport = "good" =>
              /\ truth.moved >= request.length - resid
              /\ \/ truth.used >= request.length - resid
                 \/ truth.residue < request.length - truth.used
    /\ sensing => truth.status = "fail"
    /\ stage \in {"port reset", "bulk reset"} => result \in {"error", "abort"}

IInv ==
    /\ TypeOK /\ Records /\ PhaseInv /\ TagInv /\ RequestInv /\ TruthInv
    /\ VerdictIsTrue /\ NoShortGood /\ ResidTrusted

-----------------------------------------------------------------------------
(* Nonsense is a number, and larger than the length of any transfer.       *)
LEMMA NonsenseIsLong ==
    Nonsense \in Nat /\ \A m \in Sizes : m \in Nat /\ m < Nonsense
<1>1. PICK n \in Sizes : \A m \in Sizes : m <= n
  BY LongestAssumption DEF Sizes
<1> DEFINE longest == CHOOSE k \in Sizes : \A m \in Sizes : m <= k
<1>2. longest \in Sizes /\ \A m \in Sizes : m <= longest
  BY <1>1
<1>3. Sizes \subseteq Nat
  BY LengthsAssumption DEF Sizes
<1>4. Nonsense = 1 + longest
  BY DEF Nonsense, Sizes
<1> HIDE DEF longest
<1> QED
  BY <1>2, <1>3, <1>4

(* The request has a length and a direction, whichever it is.              *)
LEMMA RequestType ==
    ASSUME request \in Requests \cup {REQUEST_SENSE}
    PROVE  /\ request.length \in Sizes /\ request.length \in Nat
           /\ request.length < Nonsense /\ request.dir \in {"in", "out"}
<1>1. request.length \in Sizes /\ request.dir \in {"in", "out"}
  BY DEF Requests, REQUEST_SENSE, Sizes
<1> QED
  BY <1>1, NonsenseIsLong

LEMMA TagType == TypeOK => tag \in Nat /\ number \in Nat
<1> SUFFICES ASSUME TypeOK PROVE tag \in Nat /\ number \in Nat
  OBVIOUS
<1>1. number \in 0..MaxCommands /\ tag \in number..2 * number
  BY DEF TypeOK
<1>2. number \in Nat
  BY <1>1, LengthsAssumption
<1> QED
  BY <1>1, <1>2

-----------------------------------------------------------------------------
(* What the device may make of a wrapper: nothing, or it takes it, or it   *)
(* swallows it as data.                                                    *)
LEMMA CbwOutcome ==
    ASSUME TypeOK, Records, NEW o \in CbwOutcomes
    PROVE  /\ o.dev \in Devices
           /\ \/ o.dev = dev /\ o.xfer # "good"
              \/ dev.phase = "command" /\ o.dev.tag = tag /\ o.dev.length = request.length
              \/ dev.phase = "data" /\ o.dev = [dev EXCEPT !.phase = "status"]
<1> USE DEF Records
<1>1. CASE o \in Failures
  BY <1>1 DEF Failures
<1>2. ASSUME dev.phase = "command", NEW d \in Takes(dev, tag),
             o = Out("good", 0, d) \/ o = Out("error", 0, d)
      PROVE  o.dev \in Devices /\ o.dev.tag = tag /\ o.dev.length = request.length
  <2>1. /\ request.length \in Nat /\ request.dir \in {"in", "out"} /\ tag \in 0..tag
    <3>1. request \in Requests \cup {REQUEST_SENSE}
      BY DEF TypeOK
    <3> QED
      BY <3>1, RequestType, TagType
  <2>2. /\ d.phase \in {"command", "data", "status"} /\ d.tag = tag /\ d.dir = request.dir
        /\ d.length = request.length /\ d.want \in 0..Nonsense /\ d.used = 0
        /\ d.moved = 0
        /\ d.status \in DevStatus /\ d.empty \in BOOLEAN
        /\ d = [phase |-> d.phase, tag |-> d.tag, dir |-> d.dir, length |-> d.length,
                want |-> d.want, used |-> d.used, moved |-> d.moved,
                status |-> d.status, empty |-> d.empty]
    BY DEF Takes, DevStatus
  <2>3. d \in Devices
    BY <2>1, <2>2 DEF Devices
  <2> QED
    BY <1>2, <2>2, <2>3 DEF Out
<1>3. CASE dev.phase = "data" /\ o = Out("good", 0, [dev EXCEPT !.phase = "status"])
  BY <1>3 DEF Out, Devices
<1>4. \/ o \in Failures
      \/ /\ dev.phase = "command"
         /\ \E d \in Takes(dev, tag) : o = Out("good", 0, d) \/ o = Out("error", 0, d)
      \/ dev.phase = "data" /\ o = Out("good", 0, [dev EXCEPT !.phase = "status"])
  <2>1. CASE dev.phase = "command"
    BY <2>1 DEF CbwOutcomes
  <2>2. CASE dev.phase = "data" /\ dev.dir = "out"
    BY <2>2 DEF CbwOutcomes
  <2>3. CASE dev.phase # "command" /\ ~(dev.phase = "data" /\ dev.dir = "out")
    BY <2>3 DEF CbwOutcomes
  <2> QED
    BY <2>1, <2>2, <2>3
<1> QED
  BY <1>1, <1>2, <1>3, <1>4

(* In the data stage the device keeps the tag and the length, and no more  *)
(* than was asked for, or than was moved, counts as transferred.           *)
LEMMA DataOutcome ==
    ASSUME TypeOK, Records, NEW o \in DataOutcomes
    PROVE  /\ o.dev \in Devices /\ o.dev.tag = dev.tag /\ o.dev.length = dev.length
           /\ o.partial \in 0..request.length /\ o.dev.moved >= o.partial
<1> DEFINE n == Smaller(dev.want, request.length)
           then(m) == [dev EXCEPT !.phase = "status", !.used = n, !.moved = m]
           ended == [dev EXCEPT !.phase = "command"]
<1>1. /\ request.length \in Nat /\ request.dir \in {"in", "out"}
      /\ dev.want \in Nat /\ dev \in Devices /\ dev.moved \in Nat
  <2>1. request \in Requests \cup {REQUEST_SENSE}
    BY DEF TypeOK
  <2>2. dev.want \in 0..Nonsense /\ dev \in Devices /\ dev.moved \in Nat
    BY DEF Records, Devices
  <2>3. dev.want \in Nat
    BY <2>2, NonsenseIsLong
  <2> QED
    BY <2>1, <2>2, <2>3, RequestType
<1>2. n \in 0..request.length
  BY <1>1 DEF Smaller
<1>3. ASSUME NEW m \in 0..request.length
      PROVE  /\ then(m) \in Devices /\ then(m).tag = dev.tag
             /\ then(m).length = dev.length /\ then(m).moved = m
  <2>1. n \in Nat /\ m \in Nat
    BY <1>1, <1>2
  <2> HIDE DEF n
  <2> QED
    BY <1>1, <2>1 DEF Devices
<1>4. ended \in Devices /\ ended.tag = dev.tag /\ ended.length = dev.length
      /\ ended.moved \in Nat
  BY <1>1 DEF Devices
<1> HIDE DEF n, then, ended
<1>5. \/ o \in Failures
      \/ \E x \in {"good", "short", "stalled", "long", "error"},
            m \in 0..request.length : o = Out(x, m, then(m))
      \/ \E x \in {"short", "long"} : o = Out(x, 0, ended)
  <2>1. CASE dev.phase = "data" /\ dev.dir = request.dir
    <3>1. o \in Failures \cup {Out("error", k, then(k)) : k \in 0..n}
                \cup
                 IF dev.want < request.length
                 THEN {Out("stalled", n, then(n)),
                       Out("good", request.length, then(request.length))}
                      \cup IF request.dir = "in"
                           THEN {Out("short", n, then(n))} ELSE {}
                 ELSE {Out("good", n, then(n))}
                      \cup IF request.dir = "in" /\ dev.want > n
                           THEN {Out("long", n, then(n))} ELSE {}
      BY <2>1 DEF DataOutcomes, n, then
    <3>2. /\ 0..n \subseteq 0..request.length
          /\ request.length \in 0..request.length
      BY <1>1, <1>2
    <3> QED
      BY <1>2, <3>1, <3>2
  <2>2. CASE dev.phase = "status" /\ request.dir = "in"
    BY <2>2 DEF DataOutcomes, ended
  <2>3. CASE /\ ~(dev.phase = "data" /\ dev.dir = request.dir)
             /\ ~(dev.phase = "status" /\ request.dir = "in")
    BY <2>3 DEF DataOutcomes
  <2> QED
    BY <2>1, <2>2, <2>3
<1>6. CASE o \in Failures
  BY <1>1, <1>6 DEF Failures
<1>7. ASSUME NEW x, NEW m \in 0..request.length, o = Out(x, m, then(m))
      PROVE  /\ o.dev \in Devices /\ o.dev.tag = dev.tag /\ o.dev.length = dev.length
             /\ o.partial \in 0..request.length /\ o.dev.moved >= o.partial
  BY <1>1, <1>3, <1>7 DEF Out
<1>8. ASSUME NEW x, o = Out(x, 0, ended)
      PROVE  /\ o.dev \in Devices /\ o.dev.tag = dev.tag /\ o.dev.length = dev.length
             /\ o.partial \in 0..request.length /\ o.dev.moved >= o.partial
  BY <1>1, <1>4, <1>8 DEF Out
<1> QED
  BY <1>5, <1>6, <1>7, <1>8

(* A status wrapper comes from a device that owes one, and after it the    *)
(* device is ready for a command.                                          *)
LEMMA CswOutcome ==
    ASSUME TypeOK, Records, NEW c \in CswOutcomes
    PROVE  /\ c.out.dev \in Devices
           /\ c.out.dev.tag = dev.tag /\ c.out.dev.length = dev.length
           /\ c.out.dev.moved = dev.moved /\ c.csw.residue \in 0..Nonsense
           /\ c.out.xfer = "good" =>
                /\ dev.phase = "status" /\ c.out.dev.phase = "command"
                /\ c.csw \in Statuses(dev)
<1> DEFINE after == [dev EXCEPT !.phase = "command"]
           dried == [dev EXCEPT !.empty = FALSE]
<1>1. /\ after \in Devices /\ after.tag = dev.tag /\ after.length = dev.length
      /\ after.phase = "command" /\ after.moved = dev.moved
  BY DEF Records, Devices
<1>2. dried \in Devices /\ dried.tag = dev.tag /\ dried.length = dev.length
      /\ dried.moved = dev.moved
  BY DEF Records, Devices
<1> HIDE DEF after, dried
<1>3. \/ \E f \in Failures : c = [out |-> f, csw |-> NoStatus]
      \/ c = [out |-> Out("short", 0, dried), csw |-> NoStatus]
      \/ /\ dev.phase = "status"
         /\ \E s \in Statuses(dev) : c = [out |-> Out("good", 1, after), csw |-> s]
      \/ \E x \in {"short", "long", "error"} :
            c = [out |-> Out(x, 1, after), csw |-> NoStatus]
  <2>1. CASE dev.phase = "status" /\ dev.empty
    BY <2>1 DEF CswOutcomes, dried
  <2>2. CASE dev.phase = "status" /\ ~dev.empty
    BY <2>2 DEF CswOutcomes, after
  <2>3. CASE dev.phase # "status"
    BY <2>3 DEF CswOutcomes
  <2> QED
    BY <2>1, <2>2, <2>3
<1>4. ASSUME NEW f \in Failures
      PROVE  f.dev = dev /\ f.xfer \in {"error", "stalled"}
  BY DEF Failures
<1>5. /\ NoStatus.residue \in 0..Nonsense
      /\ \A s \in Statuses(dev) : s.residue \in 0..Nonsense
  BY NonsenseIsLong DEF NoStatus, Statuses
<1> HIDE DEF NoStatus
<1> QED
  BY <1>1, <1>2, <1>3, <1>4, <1>5 DEF Out, Records

(* What ReadCsw does: it skips an empty packet or overcomes a stall, gives *)
(* up, or takes the wrapper if it has the tag.                             *)
Reads ==
    \/ /\ stage' \in InCsw /\ UNCHANGED <<bcs_signature, resid, transport>>
    \/ /\ stage' = "returned" /\ transport' = "error"
       /\ UNCHANGED <<bcs_signature, resid>>
    \/ /\ stage' = "returned" /\ dev.tag = tag
       /\ dev.phase = "status" /\ dev'.phase = "command"
       /\ bcs_signature' \in Signatures
       /\ resid' \in 0..request.length /\ resid' >= resid
       /\ dev.tag = asked.tag =>
            \/ dev.used >= request.length - resid'
            \/ truth'.residue < request.length - dev.used
       /\ \/ dev.status = "ok" /\ transport' \in {"good", "no sense"}
          \/ dev.status = "fail" /\ transport' = "failed"
          \/ dev.status = "phase" /\ transport' = "error"

LEMMA ReadCswEffect ==
    ASSUME TypeOK, Records, RequestInv, ReadCsw
    PROVE  /\ dev' \in Devices /\ dev'.tag = dev.tag /\ dev'.length = dev.length
           /\ dev'.moved = dev.moved
           /\ \/ truth' = truth /\ ~(/\ dev.phase = "status" /\ dev'.phase = "command"
                                     /\ dev.tag = asked.tag)
              \/ /\ \E r \in Nat :
                      truth' = [status |-> dev.status, used |-> dev.used,
                                moved |-> dev.moved, residue |-> r]
                 /\ dev.tag = asked.tag
           /\ stage \in InCsw /\ Reads
<1>1. PICK c \in CswOutcomes :
         /\ dev' = c.out.dev
         /\ truth' = IF dev.phase = "status" /\ dev'.phase = "command"
                        /\ dev.tag = asked.tag
                     THEN [status |-> dev.status, used |-> dev.used,
                           moved |-> dev.moved, residue |-> c.csw.residue]
                     ELSE truth
         /\ \/ c.out.xfer = "good" /\ CheckStatus(c.csw)
            \/ /\ stage' \in {"csw after empty", "csw after stall"}
               /\ UNCHANGED <<bcs_signature, resid, transport>>
            \/ Returns("error") /\ UNCHANGED <<bcs_signature, resid>>
  BY DEF ReadCsw
<1>2. /\ dev' \in Devices /\ dev'.tag = dev.tag /\ dev'.length = dev.length
      /\ dev'.moved = dev.moved /\ c.csw.residue \in 0..Nonsense
      /\ c.out.xfer = "good" => /\ dev.phase = "status" /\ dev'.phase = "command"
                                /\ c.csw \in Statuses(dev)
  BY <1>1, CswOutcome
<1>3. stage \in InCsw
  BY DEF ReadCsw, InCsw
<1>4. ASSUME c.out.xfer = "good", CheckStatus(c.csw)
      PROVE  Reads
  <2> DEFINE csw == c.csw
  <2>1. /\ csw.tag = dev.tag /\ csw.status = dev.status
        /\ csw.residue \in 0..Nonsense
        /\ csw.signature \in Signatures /\ dev.status \in DevStatus
        /\ dev.length \in Nat /\ dev.used \in Nat
        /\ dev.phase = "status" /\ dev'.phase = "command"
    BY <1>2, <1>4 DEF Statuses, Records, Devices
  <2>2. dev.tag = asked.tag => truth'.residue = csw.residue
    BY <1>1, <2>1
  <2> HIDE DEF csw
  <2>3. CASE Returns("error") /\ UNCHANGED <<bcs_signature, resid>>
    BY <2>3 DEF Reads, Returns
  <2>4. CASE /\ TagMatches(csw) /\ bcs_signature' = csw.signature
             /\ TakeResidue(csw)
             /\ \/ csw.status = "ok" /\ fake_sense /\ Returns("no sense")
                \/ csw.status = "ok" /\ ~fake_sense /\ Returns("good")
                \/ csw.status = "fail" /\ Returns("failed")
                \/ csw.status = "phase" /\ Returns("error")
    <3>1. request.length \in Nat /\ Nonsense \in Nat
      BY RequestType, NonsenseIsLong DEF TypeOK
    <3>2. resid \in 0..request.length
      BY <1>3 DEF RequestInv
    <3>3. /\ resid' \in 0..request.length /\ resid' >= resid
          /\ \/ dev.used >= request.length - resid'
             \/ csw.residue < request.length - dev.used
      <4>1. csw.residue \in Nat
        BY <2>1, <3>1
      <4>2. resid' = Larger(resid, Smaller(csw.residue, request.length))
        BY <2>4 DEF TakeResidue
      <4> QED
        BY <2>1, <3>1, <3>2, <4>1, <4>2 DEF Larger, Smaller
    <3> QED
      BY <2>1, <2>2, <2>4, <3>3 DEF Reads, Returns, TagMatches
  <2> QED
    BY <1>4, <2>3, <2>4 DEF CheckStatus, csw
<1>5. Reads
  BY <1>1, <1>4 DEF Reads, Returns, InCsw
<1>6. c.csw.residue \in Nat
  BY <1>2, NonsenseIsLong
<1> QED
  BY <1>1, <1>2, <1>3, <1>5, <1>6

-----------------------------------------------------------------------------
(* The numbers are numbers.                                                *)
LEMMA Numbers ==
    ASSUME TypeOK, Records
    PROVE  /\ tag \in Nat /\ number \in Nat /\ dev.tag \in 0..tag /\ asked.tag \in Nat
           /\ request.length \in Nat /\ asked.length \in Nat /\ resid \in Int
           /\ asked.underflow \in Int /\ dev.length \in Nat /\ dev.used \in Nat
           /\ dev.moved \in Nat /\ truth \in Truths
<1>1. request.length \in Nat /\ Nonsense \in Nat
  BY RequestType, NonsenseIsLong DEF TypeOK
<1>2. asked.length \in Nat /\ asked.underflow \in 0..asked.length
  BY LengthsAssumption DEF TypeOK
<1>3. resid \in Int
  <2>1. resid \in -1..Nonsense
    BY DEF TypeOK, Garbage
  <2> QED
    BY <1>1, <2>1
<1> QED
  BY <1>1, <1>2, <1>3, TagType DEF Records, Devices

(* What SendCbw does: the wrapper is refused, or taken, or swallowed.      *)
LEMMA SendCbwEffect ==
    ASSUME TypeOK, Records, SendCbw
    PROVE  /\ dev' \in Devices /\ stage = "cbw"
           /\ \/ dev' = dev /\ stage' = "returned"
              \/ /\ dev.phase = "command"
                 /\ dev'.tag = tag /\ dev'.length = request.length
              \/ /\ dev.phase = "data"
                 /\ dev'.tag = dev.tag /\ dev'.length = dev.length
           /\ \/ stage' = "data" /\ UNCHANGED transport
              \/ stage' = "csw" /\ request.length = 0 /\ UNCHANGED transport
              \/ stage' = "returned" /\ transport' = "error"
           /\ UNCHANGED <<srb, us, sensing, old, fake_sense, number, lame, truth>>
<1>1. PICK o \in CbwOutcomes :
         /\ dev' = o.dev
         /\ \/ /\ o.xfer = "good"
               /\ stage' = IF request.length > 0 THEN "data" ELSE "csw"
               /\ UNCHANGED transport
            \/ o.xfer # "good" /\ Returns("error")
  BY DEF SendCbw
<1>2. request.length \in Nat
  BY RequestType DEF TypeOK
<1>3. dev.phase = "data" /\ dev' = [dev EXCEPT !.phase = "status"]
      => dev'.tag = dev.tag /\ dev'.length = dev.length
  BY DEF Records, Devices
<1>4. /\ dev' \in Devices
      /\ \/ dev' = dev /\ o.xfer # "good"
         \/ dev.phase = "command" /\ dev'.tag = tag /\ dev'.length = request.length
         \/ dev.phase = "data" /\ dev'.tag = dev.tag /\ dev'.length = dev.length
  BY <1>1, <1>3, CbwOutcome
<1>5. stage = "cbw" /\ UNCHANGED <<srb, us, sensing, old, fake_sense, number, lame, truth>>
  BY DEF SendCbw, local
<1> QED
  BY <1>1, <1>2, <1>4, <1>5 DEF Returns

(* What TransferData does: the residual is right if a status is awaited.   *)
LEMMA TransferDataEffect ==
    ASSUME TypeOK, Records, TransferData
    PROVE  /\ stage = "data"
           /\ dev' \in Devices /\ dev'.tag = dev.tag /\ dev'.length = dev.length
           /\ resid' \in Garbage /\ sensebuf' \in {sensebuf, number}
           /\ \/ stage' = "returned" /\ transport' = "error" /\ UNCHANGED fake_sense
              \/ /\ stage' = "csw" /\ UNCHANGED transport
                 /\ resid' \in 0..request.length /\ fake_sense' \in BOOLEAN
                 /\ dev'.moved >= request.length - resid'
           /\ UNCHANGED <<asked, request, result, sense, tag, bcs_signature,
                          timed_out, sensing, old, number, lame, truth>>
<1>1. PICK o \in DataOutcomes :
         /\ dev' = o.dev
         /\ resid' \in Residuals(o)
         /\ sensebuf' = IF sensing /\ o.partial > 0 THEN number ELSE sensebuf
         /\ \/ o.xfer = "error" /\ Returns("error") /\ UNCHANGED fake_sense
            \/ /\ o.xfer # "error"
               /\ fake_sense' = (o.xfer = "long")
               /\ stage' = "csw"
               /\ UNCHANGED transport
  BY DEF TransferData
<1>2. /\ dev' \in Devices /\ dev'.tag = dev.tag /\ dev'.length = dev.length
      /\ o.partial \in 0..request.length /\ dev'.moved >= o.partial
  BY <1>1, DataOutcome
<1>3. /\ request.length \in Nat /\ request.length < Nonsense /\ Nonsense \in Nat
  BY RequestType, NonsenseIsLong DEF TypeOK
<1>4. request.length - o.partial \in 0..request.length
  BY <1>2, <1>3
<1>5. 0..request.length \subseteq Garbage
  BY <1>3 DEF Garbage
<1>6. /\ resid' \in Garbage
      /\ o.xfer # "error" => /\ resid' = request.length - o.partial
                             /\ resid' \in 0..request.length
  BY <1>1, <1>4, <1>5 DEF Residuals
<1>7. stage = "data" /\ UNCHANGED <<asked, request, result, sense, tag, bcs_signature,
                                   timed_out, sensing, old, number, lame, truth>>
  BY DEF TransferData
<1>8. (o.xfer = "long") \in BOOLEAN
  OBVIOUS
<1>9. o.xfer # "error" => dev'.moved >= request.length - resid'
  BY <1>2, <1>3, <1>6
<1> QED
  BY <1>1, <1>2, <1>6, <1>7, <1>8, <1>9 DEF Returns

(* What Verdict does: it ends the command, or asks for the sense data.     *)
LEMMA VerdictEffect ==
    ASSUME Verdict
    PROVE  /\ stage = "returned" /\ ~sensing
           /\ UNCHANGED <<asked, sensebuf, bcs_signature, timed_out, number, device>>
           /\ \/ /\ \/ stage' = "port reset" /\ result' \in {"abort", "error"}
                       /\ UNCHANGED sense
                    \/ stage' = "idle" /\ transport = "good" /\ UNCHANGED sense
                       /\ result' = IF Underflow THEN "retry" ELSE "good"
                    \/ stage' = "idle" /\ transport = "no sense"
                       /\ result' = "check condition" /\ sense' = "invalid CDB"
                 /\ UNCHANGED <<request, resid, tag, sensing, old, fake_sense, transport>>
              \/ /\ stage' = "cbw" /\ transport = "failed" /\ transport' = "none"
                 /\ old' = [request |-> request, resid |-> resid]
                 /\ sensing' = TRUE /\ request' = REQUEST_SENSE /\ resid' = 0
                 /\ tag' = tag + 1 /\ fake_sense' = FALSE
                 /\ UNCHANGED <<result, sense>>
BY DEF Verdict, AutoSense, HandleErrors, Finish, BulkTransport, NextTag, local

(* Every step leaves the device and the history what they are.             *)
LEMMA RecordsStep ==
    TypeOK /\ Records /\ RequestInv /\ [Next]_vars => Records'
<1> SUFFICES ASSUME TypeOK, Records, RequestInv, [Next]_vars
             PROVE  Records'
  OBVIOUS
<1> USE DEF srb, us, local, device
<1>n. /\ tag \in Nat /\ number \in Nat /\ dev.tag \in 0..tag /\ asked.tag \in Nat
      /\ request.length \in Nat /\ asked.length \in Nat /\ resid \in Int
      /\ asked.underflow \in Int /\ dev.length \in Nat /\ dev.used \in Nat
      /\ dev.moved \in Nat /\ truth \in Truths
  BY Numbers
<1>1. CASE Invoke
  <2>1. dev' = dev /\ tag' = tag + 1 /\ tag \in Nat
    BY <1>1, TagType DEF Invoke, BulkTransport, NextTag
  <2>2. truth' = NotServed /\ asked'.tag = tag + 1
    BY <1>1 DEF Invoke
  <2>3. 0..tag \subseteq 0..tag'
    BY <2>1
  <2>4. Devices \subseteq Devices'
    BY <2>3 DEF Devices
  <2> QED
    BY <2>1, <2>2, <2>4 DEF NotServed, Records, Truths
<1>2. CASE SendCbw
  BY <1>2, SendCbwEffect DEF Devices, Records
<1>3. CASE TransferData
  BY <1>3, TransferDataEffect DEF Devices, Records
<1>4. CASE ReadCsw
  <2>1. tag' = tag /\ asked' = asked
    BY <1>4 DEF ReadCsw
  <2>2. dev.status \in DevStatus /\ dev.used \in Nat /\ dev.moved \in Nat
    BY DEF Records, Devices
  <2>3. dev' \in Devices'
    BY <1>4, <2>1, ReadCswEffect DEF Devices, Records
  <2>4. truth' \in Truths
    BY <1>4, <2>2, ReadCswEffect DEF Records, Truths
  <2> QED
    BY <2>1, <2>3, <2>4 DEF Records
<1>5. CASE Verdict
  <2>1. dev' = dev /\ truth' = truth /\ asked' = asked /\ tag' \in {tag, tag + 1}
    BY <1>5, VerdictEffect
  <2>2. 0..tag \subseteq 0..tag'
    BY <2>1, TagType
  <2>3. Devices \subseteq Devices'
    BY <2>2 DEF Devices
  <2> QED
    BY <2>1, <2>3 DEF Records
<1>6. CASE SenseVerdict
  <2>1. dev' = dev /\ truth' = truth /\ asked' = asked /\ tag' = tag
    BY <1>6 DEF SenseVerdict
  <2> QED
    BY <2>1 DEF Devices, Records
<1>7. CASE HandlePortReset
  <2>1. dev' \in {dev, Fresh} /\ truth' = truth /\ asked' = asked /\ tag' = tag
    BY <1>7 DEF HandlePortReset, PortReset
  <2>2. Fresh \in Devices
    BY TagType, NonsenseIsLong DEF Fresh, Devices, DevStatus
  <2> QED
    BY <2>1, <2>2 DEF Devices, Records
<1>8. CASE BulkReset
  <2>1. dev' \in {dev, Fresh} /\ truth' = truth /\ asked' = asked /\ tag' = tag
    BY <1>8 DEF BulkReset, PortReset
  <2>2. Fresh \in Devices
    BY TagType, NonsenseIsLong DEF Fresh, Devices, DevStatus
  <2> QED
    BY <2>1, <2>2 DEF Devices, Records
<1>9. CASE Abort
  <2>1. dev' = dev /\ truth' = truth /\ asked' = asked /\ tag' = tag
    BY <1>9 DEF Abort
  <2> QED
    BY <2>1 DEF Devices, Records
<1>10. CASE UNCHANGED vars
  <2>1. dev' = dev /\ truth' = truth /\ asked' = asked /\ tag' = tag
    BY <1>10 DEF vars
  <2> QED
    BY <2>1 DEF Devices, Records
<1> QED
  BY <1>1, <1>2, <1>3, <1>4, <1>5, <1>6, <1>7, <1>8, <1>9, <1>10 DEF Next, Done


(* Every step preserves the types.                                         *)
LEMMA TypeStep ==
    TypeOK /\ Records /\ TagInv /\ RequestInv /\ [Next]_vars => TypeOK'
<1> SUFFICES ASSUME TypeOK, Records, TagInv, RequestInv, [Next]_vars
             PROVE  TypeOK'
  OBVIOUS
<1> USE DEF srb, us, local, device
<1>p. /\ dev' \in Devices' /\ truth' \in Truths
      /\ truth'.status \in DevStatus \cup {"none"}
  BY RecordsStep DEF Records, Truths
<1>q. /\ number \in 0..MaxCommands /\ tag \in number..2 * number /\ dev.tag \in 0..tag
      /\ number \in Nat /\ tag \in Nat /\ MaxCommands \in Nat
  BY Numbers, LengthsAssumption DEF TypeOK
<1>r. 0 \in Garbage
  BY NonsenseIsLong DEF Garbage
<1>n. /\ tag \in Nat /\ number \in Nat /\ dev.tag \in 0..tag /\ asked.tag \in Nat
      /\ request.length \in Nat /\ asked.length \in Nat /\ resid \in Int
      /\ asked.underflow \in Int /\ dev.length \in Nat /\ dev.used \in Nat
      /\ dev.moved \in Nat /\ truth \in Truths
  BY Numbers
<1>1. CASE Invoke
  <2>1. number' \in 0..MaxCommands /\ tag' \in number'..2 * number' /\ dev'.tag \in 0..tag'
    <3>1. /\ number < MaxCommands /\ number' = number + 1 /\ tag' = tag + 1 /\ dev' = dev
      BY <1>1 DEF Invoke, BulkTransport, NextTag
    <3> QED
      BY <1>q, <3>1
  <2>2. /\ stage' \in Stages /\ request' \in Requests \cup {REQUEST_SENSE}
        /\ asked'.length \in Lengths /\ asked'.underflow \in 0..asked'.length
        /\ old' \in [request : Requests, resid : Garbage] /\ resid' \in Garbage
    <3>1. PICK r \in Requests : \E u \in 0..r.length :
              /\ request' = r
              /\ asked' = [cdb |-> r.cdb, dir |-> r.dir, length |-> r.length,
                           underflow |-> u, tag |-> tag + 1]
      BY <1>1 DEF Invoke
    <3>2. stage' = "cbw" /\ old' = old /\ resid' = 0
      BY <1>1 DEF Invoke, BulkTransport
    <3>3. r.length \in Lengths
      BY DEF Requests
    <3>4. asked'.length = r.length /\ asked'.underflow \in 0..r.length
      BY <3>1
    <3>5. old \in [request : Requests, resid : Garbage]
      BY DEF TypeOK
    <3> QED
      BY <1>r, <3>1, <3>2, <3>3, <3>4, <3>5 DEF Stages
  <2>3. /\ sensebuf' \in 0..number' /\ bcs_signature' \in {0} \cup Signatures
        /\ result' \in {"none", "good", "retry", "check condition", "error", "abort"}
        /\ sense' \in {"none", "invalid CDB", "own", "stale"}
        /\ transport' \in {"none", "good", "failed", "no sense", "error"}
    <3>1. /\ number' = number + 1 /\ sensebuf' = sensebuf /\ bcs_signature' = bcs_signature
          /\ result' = "none" /\ sense' = "none" /\ transport' = "none"
      BY <1>1 DEF Invoke, BulkTransport
    <3>2. sensebuf \in 0..number /\ bcs_signature \in {0} \cup Signatures
      BY DEF TypeOK
    <3> QED
      BY <1>q, <3>1, <3>2
  <2>4. /\ fake_sense' \in BOOLEAN /\ timed_out' \in BOOLEAN /\ lame' \in BOOLEAN
        /\ sensing' \in BOOLEAN
    BY <1>1, Zenon DEF Invoke, BulkTransport, TypeOK
  <2>5. /\ dev'.phase \in {"command", "data", "status"} /\ dev'.status \in DevStatus
        /\ truth'.status \in DevStatus \cup {"none"}
    BY <1>p DEF Devices, DevStatus
  <2> QED
    BY <2>1, <2>2, <2>3, <2>4, <2>5 DEF TypeOK
<1>2. CASE SendCbw
  <2>1. number' \in 0..MaxCommands /\ tag' \in number'..2 * number' /\ dev'.tag \in 0..tag'
    BY <1>2, <1>p, <1>q, SendCbwEffect DEF Devices
  <2>2. /\ stage' \in Stages /\ request' \in Requests \cup {REQUEST_SENSE}
        /\ asked'.length \in Lengths /\ asked'.underflow \in 0..asked'.length
        /\ old' \in [request : Requests, resid : Garbage] /\ resid' \in Garbage
    <3>1. UNCHANGED <<asked, request, resid, old>> /\ stage' \in {"data", "csw", "returned"}
      BY <1>2, SendCbwEffect
    <3> QED
      BY <3>1 DEF TypeOK, Stages
  <2>3. /\ sensebuf' \in 0..number' /\ bcs_signature' \in {0} \cup Signatures
        /\ result' \in {"none", "good", "retry", "check condition", "error", "abort"}
        /\ sense' \in {"none", "invalid CDB", "own", "stale"}
        /\ transport' \in {"none", "good", "failed", "no sense", "error"}
    <3>1. /\ UNCHANGED <<result, sense, sensebuf, bcs_signature, number>>
          /\ transport' \in {transport, "error"}
      BY <1>2, SendCbwEffect
    <3> QED
      BY <3>1 DEF TypeOK
  <2>4. /\ fake_sense' \in BOOLEAN /\ timed_out' \in BOOLEAN /\ lame' \in BOOLEAN
        /\ sensing' \in BOOLEAN
    BY <1>2, Zenon, SendCbwEffect DEF TypeOK
  <2>5. /\ dev'.phase \in {"command", "data", "status"} /\ dev'.status \in DevStatus
        /\ truth'.status \in DevStatus \cup {"none"}
    BY <1>p DEF Devices, DevStatus
  <2> QED
    BY <2>1, <2>2, <2>3, <2>4, <2>5 DEF TypeOK
<1>3. CASE TransferData
  <2>1. number' \in 0..MaxCommands /\ tag' \in number'..2 * number' /\ dev'.tag \in 0..tag'
    BY <1>3, <1>p, <1>q, TransferDataEffect DEF Devices
  <2>2. /\ stage' \in Stages /\ request' \in Requests \cup {REQUEST_SENSE}
        /\ asked'.length \in Lengths /\ asked'.underflow \in 0..asked'.length
        /\ old' \in [request : Requests, resid : Garbage] /\ resid' \in Garbage
    <3>1. UNCHANGED <<asked, request, old>> /\ stage' \in {"csw", "returned"} /\ resid' \in Garbage
      BY <1>3, TransferDataEffect
    <3> QED
      BY <3>1 DEF TypeOK, Stages
  <2>3. /\ sensebuf' \in 0..number' /\ bcs_signature' \in {0} \cup Signatures
        /\ result' \in {"none", "good", "retry", "check condition", "error", "abort"}
        /\ sense' \in {"none", "invalid CDB", "own", "stale"}
        /\ transport' \in {"none", "good", "failed", "no sense", "error"}
    <3>1. /\ UNCHANGED <<result, sense, bcs_signature, number>>
          /\ transport' \in {transport, "error"} /\ sensebuf' \in {sensebuf, number}
      BY <1>3, TransferDataEffect
    <3>2. sensebuf \in 0..number /\ number \in Nat /\ number' = number
      BY <1>q, <3>1, TagType DEF TypeOK
    <3>3. sensebuf' \in 0..number'
      BY <3>1, <3>2
    <3> QED
      BY <3>1, <3>3 DEF TypeOK
  <2>4. /\ fake_sense' \in BOOLEAN /\ timed_out' \in BOOLEAN /\ lame' \in BOOLEAN
        /\ sensing' \in BOOLEAN
    <3>1. UNCHANGED <<timed_out, lame, sensing>> /\ (fake_sense' = fake_sense \/ fake_sense' \in BOOLEAN)
      BY <1>3, TransferDataEffect
    <3> QED
      BY <3>1, Zenon DEF TypeOK
  <2>5. /\ dev'.phase \in {"command", "data", "status"} /\ dev'.status \in DevStatus
        /\ truth'.status \in DevStatus \cup {"none"}
    BY <1>p DEF Devices, DevStatus
  <2> QED
    BY <2>1, <2>2, <2>3, <2>4, <2>5 DEF TypeOK
<1>4. CASE ReadCsw
  <2>1. number' \in 0..MaxCommands /\ tag' \in number'..2 * number' /\ dev'.tag \in 0..tag'
    <3>1. number' = number /\ tag' = tag
      BY <1>4 DEF ReadCsw
    <3> QED
      BY <1>p, <1>q, <3>1 DEF Devices
  <2>2. /\ stage' \in Stages /\ request' \in Requests \cup {REQUEST_SENSE}
        /\ asked'.length \in Lengths /\ asked'.underflow \in 0..asked'.length
        /\ old' \in [request : Requests, resid : Garbage] /\ resid' \in Garbage
    <3>1. UNCHANGED <<asked, request, old>>
      BY <1>4 DEF ReadCsw
    <3>2. stage' \in Stages /\ (resid' = resid \/ resid' \in 0..request.length)
      BY <1>4, ReadCswEffect DEF Reads, InCsw, Stages
    <3>3. 0..request.length \subseteq Garbage
      <4>1. request.length \in Nat /\ request.length < Nonsense /\ Nonsense \in Nat
        BY RequestType, NonsenseIsLong DEF TypeOK
      <4> QED
        BY <4>1 DEF Garbage
    <3> QED
      BY <3>1, <3>2, <3>3 DEF TypeOK
  <2>3. /\ sensebuf' \in 0..number' /\ bcs_signature' \in {0} \cup Signatures
        /\ result' \in {"none", "good", "retry", "check condition", "error", "abort"}
        /\ sense' \in {"none", "invalid CDB", "own", "stale"}
        /\ transport' \in {"none", "good", "failed", "no sense", "error"}
    <3>1. UNCHANGED <<result, sense, sensebuf, number>>
      BY <1>4 DEF ReadCsw
    <3>2. /\ transport' \in {transport, "good", "failed", "no sense", "error"}
          /\ bcs_signature' \in {bcs_signature} \cup Signatures
      BY <1>4, ReadCswEffect DEF Reads
    <3> QED
      BY <3>1, <3>2 DEF TypeOK
  <2>4. /\ fake_sense' \in BOOLEAN /\ timed_out' \in BOOLEAN /\ lame' \in BOOLEAN
        /\ sensing' \in BOOLEAN
    <3>1. UNCHANGED <<timed_out, lame, sensing, fake_sense>>
      BY <1>4 DEF ReadCsw
    <3> QED
      BY <3>1, Zenon DEF TypeOK
  <2>5. /\ dev'.phase \in {"command", "data", "status"} /\ dev'.status \in DevStatus
        /\ truth'.status \in DevStatus \cup {"none"}
    BY <1>p DEF Devices, DevStatus
  <2> QED
    BY <2>1, <2>2, <2>3, <2>4, <2>5 DEF TypeOK
<1>5. CASE Verdict
  <2>1. number' \in 0..MaxCommands /\ tag' \in number'..2 * number' /\ dev'.tag \in 0..tag'
    <3>1. number' = number /\ dev' = dev /\ (tag' = tag \/ (tag' = tag + 1 /\ ~sensing /\ stage = "returned"))
      BY <1>5, VerdictEffect
    <3>2. tag' = tag + 1 => tag < 2 * number
      BY <3>1 DEF TagInv, Active
    <3> QED
      BY <1>q, <3>1, <3>2
  <2>2. /\ stage' \in Stages /\ request' \in Requests \cup {REQUEST_SENSE}
        /\ asked'.length \in Lengths /\ asked'.underflow \in 0..asked'.length
        /\ old' \in [request : Requests, resid : Garbage] /\ resid' \in Garbage
    <3>1. /\ asked' = asked /\ stage' \in {"port reset", "idle", "cbw"} /\ ~sensing
          /\ \/ UNCHANGED <<request, resid, old>>
             \/ /\ request' = REQUEST_SENSE /\ resid' = 0
                /\ old' = [request |-> request, resid |-> resid]
      BY <1>5, VerdictEffect
    <3>2. request \in Requests
      BY <3>1 DEF RequestInv
    <3>3. stage' \in Stages
      BY <3>1 DEF Stages
    <3>4. /\ asked'.length \in Lengths /\ asked'.underflow \in 0..asked'.length
          /\ request' \in Requests \cup {REQUEST_SENSE}
      BY <3>1 DEF TypeOK
    <3>5. resid \in Garbage /\ old \in [request : Requests, resid : Garbage]
      BY DEF TypeOK
    <3>6. [request |-> request, resid |-> resid] \in [request : Requests, resid : Garbage]
      BY <3>2, <3>5
    <3>7. old' \in [request : Requests, resid : Garbage] /\ resid' \in Garbage
      BY <1>r, <3>1, <3>5, <3>6
    <3> QED
      BY <3>3, <3>4, <3>7
  <2>3. /\ sensebuf' \in 0..number' /\ bcs_signature' \in {0} \cup Signatures
        /\ result' \in {"none", "good", "retry", "check condition", "error", "abort"}
        /\ sense' \in {"none", "invalid CDB", "own", "stale"}
        /\ transport' \in {"none", "good", "failed", "no sense", "error"}
    <3>1. /\ UNCHANGED <<sensebuf, bcs_signature, number>>
          /\ result' \in {result, "abort", "error", "retry", "good", "check condition"}
          /\ sense' \in {sense, "invalid CDB"} /\ transport' \in {transport, "none"}
      BY <1>5, VerdictEffect
    <3> QED
      BY <3>1 DEF TypeOK
  <2>4. /\ fake_sense' \in BOOLEAN /\ timed_out' \in BOOLEAN /\ lame' \in BOOLEAN
        /\ sensing' \in BOOLEAN
    <3>1. /\ timed_out' = timed_out /\ lame' = lame
          /\ sensing' = sensing \/ sensing' = TRUE
          /\ fake_sense' = fake_sense \/ fake_sense' = FALSE
      BY <1>5, VerdictEffect, Zenon
    <3> QED
      BY <3>1, Zenon DEF TypeOK
  <2>5. /\ dev'.phase \in {"command", "data", "status"} /\ dev'.status \in DevStatus
        /\ truth'.status \in DevStatus \cup {"none"}
    BY <1>p DEF Devices, DevStatus
  <2> QED
    BY <2>1, <2>2, <2>3, <2>4, <2>5 DEF TypeOK
<1>6. CASE SenseVerdict
  <2>1. number' \in 0..MaxCommands /\ tag' \in number'..2 * number' /\ dev'.tag \in 0..tag'
    BY <1>6, <1>q DEF SenseVerdict
  <2>2. /\ stage' \in Stages /\ request' \in Requests \cup {REQUEST_SENSE}
        /\ asked'.length \in Lengths /\ asked'.underflow \in 0..asked'.length
        /\ old' \in [request : Requests, resid : Garbage] /\ resid' \in Garbage
    <3>1. /\ asked' = asked /\ stage' \in {"port reset", "idle"} /\ old' = old
          /\ request' = old.request /\ resid' = old.resid
      BY <1>6 DEF SenseVerdict, Restore, HandleErrors, Finish
    <3> QED
      BY <3>1 DEF TypeOK, Stages
  <2>3. /\ sensebuf' \in 0..number' /\ bcs_signature' \in {0} \cup Signatures
        /\ result' \in {"none", "good", "retry", "check condition", "error", "abort"}
        /\ sense' \in {"none", "invalid CDB", "own", "stale"}
        /\ transport' \in {"none", "good", "failed", "no sense", "error"}
    <3>1. /\ UNCHANGED <<sensebuf, bcs_signature, number, transport>>
          /\ result' \in {"abort", "error", "check condition"} /\ sense' \in {"own", "stale"}
      BY <1>6 DEF SenseVerdict, Restore, HandleErrors, Finish
    <3> QED
      BY <3>1 DEF TypeOK
  <2>4. /\ fake_sense' \in BOOLEAN /\ timed_out' \in BOOLEAN /\ lame' \in BOOLEAN
        /\ sensing' \in BOOLEAN
    <3>1. UNCHANGED <<timed_out, lame, fake_sense>> /\ sensing' = FALSE
      BY <1>6 DEF SenseVerdict
    <3> QED
      BY <3>1, Zenon DEF TypeOK
  <2>5. /\ dev'.phase \in {"command", "data", "status"} /\ dev'.status \in DevStatus
        /\ truth'.status \in DevStatus \cup {"none"}
    BY <1>p DEF Devices, DevStatus
  <2> QED
    BY <2>1, <2>2, <2>3, <2>4, <2>5 DEF TypeOK
<1>7. CASE HandlePortReset
  <2>1. number' \in 0..MaxCommands /\ tag' \in number'..2 * number' /\ dev'.tag \in 0..tag'
    <3>1. number' = number /\ tag' = tag
      BY <1>7 DEF HandlePortReset
    <3> QED
      BY <1>p, <1>q, <3>1 DEF Devices
  <2>2. /\ stage' \in Stages /\ request' \in Requests \cup {REQUEST_SENSE}
        /\ asked'.length \in Lengths /\ asked'.underflow \in 0..asked'.length
        /\ old' \in [request : Requests, resid : Garbage] /\ resid' \in Garbage
    <3>1. UNCHANGED <<asked, request, resid, old>> /\ stage' \in {"bulk reset", "idle"}
      BY <1>7 DEF HandlePortReset, PortReset
    <3> QED
      BY <3>1 DEF TypeOK, Stages
  <2>3. /\ sensebuf' \in 0..number' /\ bcs_signature' \in {0} \cup Signatures
        /\ result' \in {"none", "good", "retry", "check condition", "error", "abort"}
        /\ sense' \in {"none", "invalid CDB", "own", "stale"}
        /\ transport' \in {"none", "good", "failed", "no sense", "error"}
    <3>1. UNCHANGED <<result, sense, sensebuf, bcs_signature, number, transport>>
      BY <1>7 DEF HandlePortReset
    <3> QED
      BY <3>1 DEF TypeOK
  <2>4. /\ fake_sense' \in BOOLEAN /\ timed_out' \in BOOLEAN /\ lame' \in BOOLEAN
        /\ sensing' \in BOOLEAN
    <3>1. /\ UNCHANGED <<timed_out, sensing, fake_sense>>
          /\ lame' = lame \/ lame' = FALSE \/ lame' = TRUE
      BY <1>7, Zenon DEF HandlePortReset, PortReset
    <3> QED
      BY <3>1, Zenon DEF TypeOK
  <2>5. /\ dev'.phase \in {"command", "data", "status"} /\ dev'.status \in DevStatus
        /\ truth'.status \in DevStatus \cup {"none"}
    BY <1>p DEF Devices, DevStatus
  <2> QED
    BY <2>1, <2>2, <2>3, <2>4, <2>5 DEF TypeOK
<1>8. CASE BulkReset
  <2>1. number' \in 0..MaxCommands /\ tag' \in number'..2 * number' /\ dev'.tag \in 0..tag'
    <3>1. number' = number /\ tag' = tag
      BY <1>8 DEF BulkReset
    <3> QED
      BY <1>p, <1>q, <3>1 DEF Devices
  <2>2. /\ stage' \in Stages /\ request' \in Requests \cup {REQUEST_SENSE}
        /\ asked'.length \in Lengths /\ asked'.underflow \in 0..asked'.length
        /\ old' \in [request : Requests, resid : Garbage] /\ resid' \in Garbage
    <3>1. UNCHANGED <<asked, request, resid, old>> /\ stage' \in {"bulk reset", "idle"}
      BY <1>8 DEF BulkReset, PortReset
    <3> QED
      BY <3>1 DEF TypeOK, Stages
  <2>3. /\ sensebuf' \in 0..number' /\ bcs_signature' \in {0} \cup Signatures
        /\ result' \in {"none", "good", "retry", "check condition", "error", "abort"}
        /\ sense' \in {"none", "invalid CDB", "own", "stale"}
        /\ transport' \in {"none", "good", "failed", "no sense", "error"}
    <3>1. UNCHANGED <<result, sense, sensebuf, bcs_signature, number, transport>>
      BY <1>8 DEF BulkReset
    <3> QED
      BY <3>1 DEF TypeOK
  <2>4. /\ fake_sense' \in BOOLEAN /\ timed_out' \in BOOLEAN /\ lame' \in BOOLEAN
        /\ sensing' \in BOOLEAN
    <3>1. /\ UNCHANGED <<timed_out, sensing, fake_sense>>
          /\ lame' = lame \/ lame' = FALSE \/ lame' = TRUE
      BY <1>8, Zenon DEF BulkReset, PortReset
    <3> QED
      BY <3>1, Zenon DEF TypeOK
  <2>5. /\ dev'.phase \in {"command", "data", "status"} /\ dev'.status \in DevStatus
        /\ truth'.status \in DevStatus \cup {"none"}
    BY <1>p DEF Devices, DevStatus
  <2> QED
    BY <2>1, <2>2, <2>3, <2>4, <2>5 DEF TypeOK
<1>9. CASE Abort
  <2>1. timed_out' = TRUE
    BY <1>9 DEF Abort
  <2>2. UNCHANGED <<stage, asked, request, resid, result, sense, sensebuf, tag, bcs_signature, sensing,
                    old, fake_sense, transport, number, dev, lame, truth>>
    BY <1>9 DEF Abort
  <2>3. /\ fake_sense' \in BOOLEAN /\ timed_out' \in BOOLEAN /\ lame' \in BOOLEAN
        /\ sensing' \in BOOLEAN
    BY <2>1, <2>2, Zenon DEF TypeOK
  <2>4. /\ stage' \in Stages /\ asked'.length \in Lengths
        /\ asked'.underflow \in 0..asked'.length
        /\ request' \in Requests \cup {REQUEST_SENSE}
        /\ old' \in [request : Requests, resid : Garbage] /\ resid' \in Garbage
        /\ result' \in {"none", "good", "retry", "check condition", "error", "abort"}
        /\ sense' \in {"none", "invalid CDB", "own", "stale"}
        /\ number' \in 0..MaxCommands /\ sensebuf' \in 0..number'
        /\ tag' \in number'..2 * number' /\ bcs_signature' \in {0} \cup Signatures
        /\ transport' \in {"none", "good", "failed", "no sense", "error"}
        /\ dev'.phase \in {"command", "data", "status"} /\ dev'.tag \in 0..tag'
        /\ dev'.status \in DevStatus /\ truth'.status \in DevStatus \cup {"none"}
    <3>1. UNCHANGED <<stage, asked, request, resid, result, sense, sensebuf, tag,
                      bcs_signature, old, transport, number, dev, truth>>
      BY <2>2
    <3> QED
      BY <3>1 DEF TypeOK
  <2> QED
    BY <2>3, <2>4, Zenon DEF TypeOK
<1>10. CASE UNCHANGED vars
  <2>2. UNCHANGED <<stage, asked, request, resid, result, sense, sensebuf, tag, bcs_signature, sensing,
                    old, fake_sense, transport, number, dev, lame, truth>> /\ timed_out' = timed_out
    BY <1>10 DEF vars
  <2>3. /\ fake_sense' \in BOOLEAN /\ timed_out' \in BOOLEAN /\ lame' \in BOOLEAN
        /\ sensing' \in BOOLEAN
    BY <2>2, Zenon DEF TypeOK
  <2>4. /\ stage' \in Stages /\ asked'.length \in Lengths
        /\ asked'.underflow \in 0..asked'.length
        /\ request' \in Requests \cup {REQUEST_SENSE}
        /\ old' \in [request : Requests, resid : Garbage] /\ resid' \in Garbage
        /\ result' \in {"none", "good", "retry", "check condition", "error", "abort"}
        /\ sense' \in {"none", "invalid CDB", "own", "stale"}
        /\ number' \in 0..MaxCommands /\ sensebuf' \in 0..number'
        /\ tag' \in number'..2 * number' /\ bcs_signature' \in {0} \cup Signatures
        /\ transport' \in {"none", "good", "failed", "no sense", "error"}
        /\ dev'.phase \in {"command", "data", "status"} /\ dev'.tag \in 0..tag'
        /\ dev'.status \in DevStatus /\ truth'.status \in DevStatus \cup {"none"}
    <3>1. UNCHANGED <<stage, asked, request, resid, result, sense, sensebuf, tag,
                      bcs_signature, old, transport, number, dev, truth>>
      BY <2>2
    <3> QED
      BY <3>1 DEF TypeOK
  <2> QED
    BY <2>3, <2>4, Zenon DEF TypeOK
<1> QED
  BY <1>1, <1>2, <1>3, <1>4, <1>5, <1>6, <1>7, <1>8, <1>9, <1>10 DEF Next, Done


(* Every step of a transport leaves the device where the next one needs it. *)
LEMMA PhaseStep ==
    TypeOK /\ Records /\ TagInv /\ RequestInv /\ PhaseInv /\ [Next]_vars => PhaseInv'
<1> SUFFICES ASSUME TypeOK, Records, TagInv, RequestInv, PhaseInv, [Next]_vars
             PROVE  PhaseInv'
  OBVIOUS
<1> USE DEF srb, us, local, device
<1>n. /\ tag \in Nat /\ number \in Nat /\ dev.tag \in 0..tag /\ asked.tag \in Nat
      /\ request.length \in Nat /\ asked.length \in Nat /\ resid \in Int
      /\ asked.underflow \in Int /\ dev.length \in Nat /\ dev.used \in Nat
      /\ dev.moved \in Nat /\ truth \in Truths
  BY Numbers
<1>1. CASE Invoke
  BY <1>n, <1>1
     DEF Invoke, BulkTransport, TagInv, Active, PhaseInv, InCsw, Answers,
         Fresh
<1>2. CASE SendCbw
  BY <1>n, <1>2, SendCbwEffect DEF PhaseInv, InCsw, Answers, Fresh
<1>3. CASE TransferData
  BY <1>n, <1>3, TransferDataEffect DEF PhaseInv, InCsw, Answers, Fresh
<1>4. CASE ReadCsw
  <2>1. lame' = lame /\ sensing' = sensing
    BY <1>n, <1>4 DEF ReadCsw
  <2> QED
    BY <1>n, <1>4, <2>1, ReadCswEffect
       DEF Reads, PhaseInv, InCsw, Answers, Fresh
<1>5. CASE Verdict
  BY <1>n, <1>5, VerdictEffect DEF PhaseInv, InCsw, Answers, Fresh
<1>6. CASE SenseVerdict
  BY <1>6
     DEF SenseVerdict, Restore, HandleErrors, Finish, PhaseInv, InCsw,
         Answers, Fresh
<1>7. CASE HandlePortReset
  <2>1. CASE dev' = Fresh /\ ~lame' /\ stage' = "idle"
    <3>1. dev'.phase = "command"
      BY <2>1 DEF Fresh
    <3> QED
      BY <2>1, <3>1 DEF PhaseInv, InCsw, Answers, Fresh
  <2>2. CASE stage' = "bulk reset" \/ (stage' = "idle" /\ lame')
    BY <2>2 DEF PhaseInv, InCsw, Answers, Fresh
  <2>3. \/ dev' = Fresh /\ lame' = FALSE /\ stage' = "idle"
        \/ stage' = "bulk reset"
    BY <1>7 DEF HandlePortReset, PortReset
  <2>4. CASE stage' = "bulk reset"
    BY <2>2, <2>4
  <2>5. CASE dev' = Fresh /\ lame' = FALSE /\ stage' = "idle"
    BY <2>1, <2>5
  <2> QED
    BY <2>3, <2>4, <2>5, Zenon
<1>8. CASE BulkReset
  <2>1. CASE dev' = Fresh /\ ~lame' /\ stage' = "idle"
    <3>1. dev'.phase = "command"
      BY <2>1 DEF Fresh
    <3> QED
      BY <2>1, <3>1 DEF PhaseInv, InCsw, Answers, Fresh
  <2>2. CASE stage' = "bulk reset" \/ (stage' = "idle" /\ lame')
    BY <2>2 DEF PhaseInv, InCsw, Answers, Fresh
  <2> QED
    BY <1>8, <2>1, <2>2 DEF HandlePortReset, PortReset, BulkReset
<1>9. CASE Abort
  BY <1>9 DEF Abort, PhaseInv, InCsw, Answers, Fresh
<1>10. CASE UNCHANGED vars
  BY <1>10 DEF vars, PhaseInv, InCsw, Answers, Fresh
<1> QED
  BY <1>1, <1>2, <1>3, <1>4, <1>5, <1>6, <1>7, <1>8, <1>9, <1>10 DEF Next, Done


(* Every step keeps to the tags.                                           *)
LEMMA TagStep ==
    TypeOK /\ Records /\ PhaseInv /\ TagInv /\ RequestInv /\ [Next]_vars => TagInv'
<1> SUFFICES ASSUME TypeOK, Records, PhaseInv, TagInv, RequestInv, [Next]_vars
             PROVE  TagInv'
  OBVIOUS
<1> USE DEF srb, us, local, device
<1>n. /\ tag \in Nat /\ number \in Nat /\ dev.tag \in 0..tag /\ asked.tag \in Nat
      /\ request.length \in Nat /\ asked.length \in Nat /\ resid \in Int
      /\ asked.underflow \in Int /\ dev.length \in Nat /\ dev.used \in Nat
      /\ dev.moved \in Nat /\ truth \in Truths
  BY Numbers
<1>1. CASE Invoke
  <2>1. /\ stage = "idle" /\ stage' = "cbw" /\ sensing' = sensing /\ dev' = dev
        /\ asked'.tag = tag + 1 /\ tag' = tag + 1 /\ number' = number + 1
    BY <1>1 DEF Invoke, BulkTransport, NextTag
  <2>2. ~sensing
    BY <2>1 DEF TagInv, Active, InCsw
  <2>3. tag <= 2 * number
    <3>1. tag \in number..2 * number
      BY DEF TypeOK
    <3> QED
      BY <1>n, <3>1
  <2> QED
    BY <1>n, <2>1, <2>2, <2>3 DEF TagInv, InCsw, Active
<1>2. CASE SendCbw
  <2>1. UNCHANGED <<asked, request, resid, result, sense, tag, sensing, old, number, truth>>
    BY <1>2, SendCbwEffect
  <2>2. /\ stage = "cbw"
        /\ \/ stage' = "data" /\ UNCHANGED transport
           \/ stage' = "csw" /\ request.length = 0 /\ UNCHANGED transport
           \/ stage' = "returned" /\ transport' = "error"
    BY <1>2, SendCbwEffect
  <2>3. \/ dev' = dev /\ stage' = "returned"
        \/ dev'.tag = tag /\ dev'.length = request.length
        \/ /\ dev.phase = "data" /\ ~sensing
           /\ dev'.tag = dev.tag /\ dev'.length = dev.length
    BY <1>2, SendCbwEffect DEF PhaseInv
  <2> QED
    BY <1>n, <2>1, <2>2, <2>3 DEF TagInv, InCsw, Active
<1>3. CASE TransferData
  <2>1. UNCHANGED <<asked, request, result, sense, tag, sensing, old, number, truth>>
    BY <1>3, TransferDataEffect
  <2>2. /\ stage = "data" /\ dev'.tag = dev.tag /\ dev'.length = dev.length
        /\ \/ stage' = "returned" /\ transport' = "error"
           \/ /\ stage' = "csw" /\ UNCHANGED transport
              /\ resid' \in 0..request.length
    BY <1>3, TransferDataEffect
  <2> QED
    BY <1>n, <2>1, <2>2 DEF TagInv, InCsw, Active
<1>4. CASE ReadCsw
  <2>1. UNCHANGED <<asked, request, sensing, number, tag>>
    BY <1>n, <1>4 DEF ReadCsw
  <2> QED
    BY <1>n, <1>4, <2>1, ReadCswEffect DEF Reads, TagInv, InCsw, Active
<1>5. CASE Verdict
  <2>1. CASE stage' \in {"port reset", "idle"}
    <3>1. /\ UNCHANGED <<asked, number, dev, truth, request, resid, tag, sensing, old,
                         transport>>
          /\ stage = "returned" /\ ~sensing
          /\ stage' = "port reset" => result' \in {"error", "abort"}
      BY <1>5, <2>1, VerdictEffect
    <3> QED
      BY <1>n, <2>1, <3>1 DEF TagInv, InCsw, Active
  <2>2. CASE stage' = "cbw"
    <3>1. /\ UNCHANGED <<asked, number, dev, truth>>
          /\ stage = "returned" /\ ~sensing /\ transport = "failed" /\ sensing'
          /\ old' = [request |-> request, resid |-> resid]
          /\ request' = REQUEST_SENSE /\ resid' = 0 /\ tag' = tag + 1
      BY <1>5, <2>2, VerdictEffect
    <3> QED
      BY <1>n, <2>2, <3>1 DEF TagInv, InCsw, Active
  <2> QED
    BY <1>5, <2>1, <2>2, VerdictEffect
<1>6. CASE SenseVerdict
  BY <1>6
     DEF SenseVerdict, Restore, HandleErrors, Finish, TagInv, InCsw, Active
<1>7. CASE HandlePortReset
  BY <1>7 DEF HandlePortReset, PortReset, TagInv, InCsw, Active
<1>8. CASE BulkReset
  BY <1>8 DEF BulkReset, TagInv, InCsw, Active
<1>9. CASE Abort
  BY <1>9 DEF Abort, TagInv, InCsw, Active
<1>10. CASE UNCHANGED vars
  BY <1>10 DEF vars, TagInv, InCsw, Active
<1> QED
  BY <1>1, <1>2, <1>3, <1>4, <1>5, <1>6, <1>7, <1>8, <1>9, <1>10 DEF Next, Done


(* Every step leaves the request and its residual what they are.           *)
LEMMA RequestStep ==
    TypeOK /\ Records /\ TagInv /\ RequestInv /\ [Next]_vars => RequestInv'
<1> SUFFICES ASSUME TypeOK, Records, TagInv, RequestInv, [Next]_vars
             PROVE  RequestInv'
  OBVIOUS
<1> USE DEF srb, us, local, device
<1>n. /\ tag \in Nat /\ number \in Nat /\ dev.tag \in 0..tag /\ asked.tag \in Nat
      /\ request.length \in Nat /\ asked.length \in Nat /\ resid \in Int
      /\ asked.underflow \in Int /\ dev.length \in Nat /\ dev.used \in Nat
      /\ dev.moved \in Nat /\ truth \in Truths
  BY Numbers
<1>1. CASE Invoke
  <2>1. /\ stage' = "cbw" /\ resid' = 0 /\ sensing' = sensing /\ ~sensing /\ old' = old
        /\ request' \in Requests /\ asked'.length = request'.length
    BY <1>n, <1>1 DEF Invoke, RequestInv, BulkTransport, TagInv, Active, InCsw
  <2> QED
    BY <1>n, <2>1 DEF RequestInv, InCsw, Answers
<1>2. CASE SendCbw
  <2>1. UNCHANGED <<asked, request, resid, sensing, old>>
    BY <1>2, SendCbwEffect
  <2>2. resid = 0 /\ resid' = 0 /\ stage = "cbw"
    BY <1>2, <2>1, SendCbwEffect DEF RequestInv
  <2>3. CASE stage' = "csw" /\ request.length = 0
    <3>1. resid' \in 0..request'.length
      BY <2>1, <2>2, <2>3
    <3> QED
      BY <2>1, <2>3, <3>1 DEF RequestInv, InCsw, Answers
  <2>4. CASE stage' = "data" \/ (stage' = "returned" /\ transport' = "error")
    BY <2>1, <2>4 DEF RequestInv, InCsw, Answers
  <2>5. \/ stage' = "csw" /\ request.length = 0
        \/ stage' = "data"
        \/ stage' = "returned" /\ transport' = "error"
    BY <1>2, SendCbwEffect
  <2> QED
    BY <2>3, <2>4, <2>5, Zenon
<1>3. CASE TransferData
  <2>1. UNCHANGED <<asked, request, result, sense, tag, sensing, old, number, truth>>
    BY <1>3, TransferDataEffect
  <2>2. /\ stage = "data" /\ dev'.tag = dev.tag /\ dev'.length = dev.length
        /\ \/ stage' = "returned" /\ transport' = "error"
           \/ /\ stage' = "csw" /\ UNCHANGED transport
              /\ resid' \in 0..request.length
    BY <1>3, TransferDataEffect
  <2> QED
    BY <1>n, <2>1, <2>2 DEF RequestInv, InCsw, Answers
<1>4. CASE ReadCsw
  <2>1. UNCHANGED <<asked, request, sensing, old>>
    BY <1>4 DEF ReadCsw
  <2>2. stage \in InCsw /\ resid \in 0..request.length
    BY <1>4, ReadCswEffect DEF RequestInv
  <2>3. \/ stage' \in InCsw /\ resid' \in 0..request.length
        \/ stage' = "returned" /\ (transport' = "error" \/ resid' \in 0..request.length)
    BY <1>4, <2>2, ReadCswEffect DEF Reads
  <2> QED
    BY <1>n, <2>1, <2>2, <2>3 DEF RequestInv, InCsw, Answers
<1>5. CASE Verdict
  <2>1. CASE stage' \in {"port reset", "idle"}
    <3>1. /\ UNCHANGED <<asked, number, dev, truth, request, resid, tag, sensing, old,
                         transport>>
          /\ stage = "returned" /\ ~sensing
          /\ stage' = "port reset" => result' \in {"error", "abort"}
      BY <1>5, <2>1, VerdictEffect
    <3> QED
      BY <1>n, <2>1, <3>1 DEF RequestInv, InCsw, Answers
  <2>2. CASE stage' = "cbw"
    <3>1. /\ UNCHANGED <<asked, number, dev, truth>>
          /\ stage = "returned" /\ ~sensing /\ transport = "failed" /\ sensing'
          /\ old' = [request |-> request, resid |-> resid]
          /\ request' = REQUEST_SENSE /\ resid' = 0 /\ tag' = tag + 1
      BY <1>5, <2>2, VerdictEffect
    <3> QED
      BY <1>n, <2>2, <3>1 DEF RequestInv, InCsw, Answers
  <2> QED
    BY <1>5, <2>1, <2>2, VerdictEffect
<1>6. CASE SenseVerdict
  <2>1. /\ stage = "returned" /\ sensing /\ sensing' = FALSE /\ stage' \in {"port reset", "idle"}
        /\ request' = old.request /\ asked' = asked
    BY <1>6 DEF SenseVerdict, Restore, HandleErrors, Finish
  <2>2. old.request \in Requests /\ old.request.length = asked.length
    BY <2>1 DEF RequestInv, TypeOK
  <2> QED
    BY <2>1, <2>2 DEF RequestInv, InCsw, Answers
<1>7. CASE HandlePortReset
  BY <1>7 DEF HandlePortReset, PortReset, RequestInv, InCsw, Answers
<1>8. CASE BulkReset
  BY <1>8 DEF BulkReset, RequestInv, InCsw, Answers
<1>9. CASE Abort
  BY <1>9 DEF Abort, RequestInv, InCsw, Answers
<1>10. CASE UNCHANGED vars
  BY <1>10 DEF vars, RequestInv, InCsw, Answers
<1> QED
  BY <1>1, <1>2, <1>3, <1>4, <1>5, <1>6, <1>7, <1>8, <1>9, <1>10 DEF Next, Done


(* Every verdict is the device's.                                          *)
LEMMA TruthStep ==
    TypeOK /\ Records /\ TagInv /\ RequestInv /\ TruthInv /\ [Next]_vars => TruthInv'
<1> SUFFICES ASSUME TypeOK, Records, TagInv, RequestInv, TruthInv, [Next]_vars
             PROVE  TruthInv'
  OBVIOUS
<1> USE DEF srb, us, local, device
<1>n. /\ tag \in Nat /\ number \in Nat /\ dev.tag \in 0..tag /\ asked.tag \in Nat
      /\ request.length \in Nat /\ asked.length \in Nat /\ resid \in Int
      /\ asked.underflow \in Int /\ dev.length \in Nat /\ dev.used \in Nat
      /\ dev.moved \in Nat /\ truth \in Truths
  BY Numbers
<1>1. CASE Invoke
  <2>1. stage' = "cbw" /\ sensing' = sensing /\ ~sensing
    BY <1>n, <1>1 DEF Invoke, InCsw, BulkTransport, TagInv, Active
  <2> QED
    BY <1>n, <2>1 DEF TruthInv, InCsw
<1>2. CASE SendCbw
  <2>1. UNCHANGED <<asked, request, resid, result, sense, tag, sensing, old, number, truth>>
    BY <1>2, SendCbwEffect
  <2>2. /\ stage = "cbw"
        /\ \/ stage' = "data" /\ UNCHANGED transport
           \/ stage' = "csw" /\ request.length = 0 /\ UNCHANGED transport
           \/ stage' = "returned" /\ transport' = "error"
    BY <1>2, SendCbwEffect
  <2>3. dev'.moved \in Nat
    BY <1>2, SendCbwEffect DEF Devices
  <2>4. stage' = "csw" => resid' = 0 /\ request'.length = 0
    BY <2>1, <2>2 DEF RequestInv
  <2> QED
    <3>1. stage' = "csw" => dev'.moved >= request'.length - resid'
      BY <2>3, <2>4
    <3> QED
      BY <1>n, <2>1, <2>2, <3>1 DEF TruthInv, InCsw
<1>3. CASE TransferData
  <2>1. UNCHANGED <<asked, request, result, sense, tag, sensing, old, number, truth>>
    BY <1>3, TransferDataEffect
  <2>2. /\ stage = "data" /\ dev'.tag = dev.tag /\ dev'.length = dev.length
        /\ \/ stage' = "returned" /\ transport' = "error"
           \/ /\ stage' = "csw" /\ UNCHANGED transport
              /\ resid' \in 0..request.length
              /\ dev'.moved >= request.length - resid'
    BY <1>3, TransferDataEffect
  <2> QED
    BY <1>n, <2>1, <2>2 DEF TruthInv, InCsw
<1>4. CASE ReadCsw
  <2>1. UNCHANGED <<asked, request, sensing, result>>
    BY <1>4 DEF ReadCsw
  <2>2. /\ stage \in InCsw /\ Reads /\ tag' = tag
        /\ dev'.tag = dev.tag /\ dev'.moved = dev.moved
    BY <1>4, ReadCswEffect DEF ReadCsw
  <2>3. CASE sensing
    <3>1. dev.tag # asked.tag
      BY <1>n, <2>2, <2>3 DEF TagInv
    <3>2. truth' = truth
      BY <1>4, <3>1, ReadCswEffect
    <3>3. stage' \in InCsw \cup {"returned"}
      BY <2>2 DEF Reads
    <3> QED
      BY <2>1, <2>2, <2>3, <3>2, <3>3 DEF TruthInv, InCsw, Reads
  <2>4. CASE ~sensing
    <3>1. asked.tag = tag /\ (dev.tag = tag => dev.length = request.length)
      BY <2>2, <2>4 DEF TagInv, InCsw, Active
    <3>2. CASE stage' \in InCsw
      BY <2>1, <2>2, <2>4, <3>2 DEF TruthInv, InCsw, Reads
    <3>3. CASE stage' = "returned" /\ transport' = "error"
      BY <2>1, <2>4, <3>3 DEF TruthInv, InCsw
    <3>4. CASE stage' = "returned" /\ transport' # "error"
      <4>1. /\ dev.tag = tag /\ dev.phase = "status" /\ dev'.phase = "command"
            /\ resid' \in 0..request.length /\ resid' >= resid
            /\ \/ dev.used >= request.length - resid'
               \/ truth'.residue < request.length - dev.used
            /\ transport' \in {"good", "no sense"} => dev.status = "ok"
            /\ transport' = "failed" => dev.status = "fail"
        BY <2>2, <3>1, <3>4 DEF Reads, InCsw
      <4>2. /\ truth'.status = dev.status /\ truth'.used = dev.used
            /\ truth'.moved = dev.moved
        <5>1. PICK r : truth' = [status |-> dev.status, used |-> dev.used,
                                 moved |-> dev.moved, residue |-> r]
          BY <1>4, <3>1, <4>1, ReadCswEffect
        <5> QED
          BY <5>1
      <4>3. dev.moved >= request.length - resid'
        <5>1. dev.moved >= request.length - resid
          BY <2>2, <4>1 DEF TruthInv
        <5>2. resid' \in 0..request.length /\ resid' >= resid
          BY <4>1
        <5>3. /\ request.length \in Nat /\ resid \in Int
              /\ dev.moved \in Nat
          BY <1>n
        <5> QED
          BY <5>1, <5>2, <5>3
      <4> QED
        BY <2>1, <2>4, <3>4, <4>1, <4>2, <4>3 DEF TruthInv, InCsw
    <3> QED
      BY <2>2, <3>2, <3>3, <3>4 DEF Reads
  <2> QED
    BY <2>3, <2>4
<1>5. CASE Verdict
  <2>1. CASE stage' \in {"port reset", "idle"}
    <3>1. /\ UNCHANGED <<asked, number, dev, truth, request, resid, tag, sensing, old,
                         transport>>
          /\ stage = "returned" /\ ~sensing
          /\ stage' = "port reset" => result' \in {"error", "abort"}
      BY <1>5, <2>1, VerdictEffect
    <3> QED
      BY <1>n, <2>1, <3>1 DEF TruthInv, InCsw
  <2>2. CASE stage' = "cbw"
    <3>1. /\ UNCHANGED <<asked, number, dev, truth>>
          /\ stage = "returned" /\ ~sensing /\ transport = "failed" /\ sensing'
          /\ old' = [request |-> request, resid |-> resid]
          /\ request' = REQUEST_SENSE /\ resid' = 0 /\ tag' = tag + 1
      BY <1>5, <2>2, VerdictEffect
    <3> QED
      BY <1>n, <2>2, <3>1 DEF TruthInv, InCsw
  <2> QED
    BY <1>5, <2>1, <2>2, VerdictEffect
<1>6. CASE SenseVerdict
  BY <1>6 DEF SenseVerdict, Restore, HandleErrors, Finish, TruthInv, InCsw
<1>7. CASE HandlePortReset
  BY <1>7 DEF HandlePortReset, PortReset, TruthInv, InCsw
<1>8. CASE BulkReset
  BY <1>8 DEF BulkReset, TruthInv, InCsw
<1>9. CASE Abort
  BY <1>9 DEF Abort, TruthInv, InCsw
<1>10. CASE UNCHANGED vars
  BY <1>10 DEF vars, TruthInv, InCsw
<1> QED
  BY <1>1, <1>2, <1>3, <1>4, <1>5, <1>6, <1>7, <1>8, <1>9, <1>10 DEF Next, Done


(* Every result of a command is the one it deserves.                       *)
LEMMA VerdictStep ==
    TypeOK /\ Records /\ RequestInv /\ TruthInv /\ VerdictIsTrue /\ [Next]_vars => VerdictIsTrue'
<1> SUFFICES ASSUME TypeOK, Records, RequestInv, TruthInv, VerdictIsTrue, [Next]_vars
             PROVE  VerdictIsTrue'
  OBVIOUS
<1> USE DEF srb, us, local, device
<1>n. /\ tag \in Nat /\ number \in Nat /\ dev.tag \in 0..tag /\ asked.tag \in Nat
      /\ request.length \in Nat /\ asked.length \in Nat /\ resid \in Int
      /\ asked.underflow \in Int /\ dev.length \in Nat /\ dev.used \in Nat
      /\ dev.moved \in Nat /\ truth \in Truths
  BY Numbers
<1>1. CASE Invoke
  BY <1>1
     DEF Invoke, BulkTransport, NextTag, TruthInv, VerdictIsTrue, Answered,
         InCsw
<1>2. CASE SendCbw
  <2>1. UNCHANGED <<asked, request, resid, result, sense, tag, sensing, old, number, truth>>
    BY <1>2, SendCbwEffect
  <2>2. /\ stage = "cbw"
        /\ \/ stage' = "data" /\ UNCHANGED transport
           \/ stage' = "csw" /\ request.length = 0 /\ UNCHANGED transport
           \/ stage' = "returned" /\ transport' = "error"
    BY <1>2, SendCbwEffect
  <2> QED
    BY <1>n, <2>1, <2>2 DEF TruthInv, VerdictIsTrue, Answered, InCsw
<1>3. CASE TransferData
  <2>1. UNCHANGED <<asked, request, result, sense, tag, sensing, old, number, truth>>
    BY <1>3, TransferDataEffect
  <2>2. /\ stage = "data" /\ dev'.tag = dev.tag /\ dev'.length = dev.length
        /\ \/ stage' = "returned" /\ transport' = "error"
           \/ /\ stage' = "csw" /\ UNCHANGED transport
              /\ resid' \in 0..request.length
    BY <1>3, TransferDataEffect
  <2> QED
    BY <1>n, <2>1, <2>2 DEF TruthInv, VerdictIsTrue, Answered, InCsw
<1>4. CASE ReadCsw
  <2>1. stage \in InCsw /\ stage' \in InCsw \cup {"returned"}
    BY <1>4, ReadCswEffect DEF Reads
  <2> QED
    BY <2>1 DEF InCsw, TruthInv, VerdictIsTrue, Answered, InCsw
<1>5. CASE Verdict
  BY <1>n, <1>5, VerdictEffect DEF TruthInv, VerdictIsTrue, Answered, InCsw
<1>6. CASE SenseVerdict
  BY <1>6
     DEF SenseVerdict, Restore, HandleErrors, Finish, TruthInv, VerdictIsTrue,
         Answered, InCsw
<1>7. CASE HandlePortReset
  BY <1>7
     DEF HandlePortReset, PortReset, TruthInv, VerdictIsTrue, Answered, InCsw
<1>8. CASE BulkReset
  BY <1>8 DEF BulkReset, TruthInv, VerdictIsTrue, Answered, InCsw
<1>9. CASE Abort
  BY <1>9 DEF Abort, TruthInv, VerdictIsTrue, Answered, InCsw
<1>10. CASE UNCHANGED vars
  BY <1>10 DEF vars, TruthInv, VerdictIsTrue, Answered, InCsw
<1> QED
  BY <1>1, <1>2, <1>3, <1>4, <1>5, <1>6, <1>7, <1>8, <1>9, <1>10 DEF Next, Done


(* Every result of a command is the one it deserves.                       *)
LEMMA ShortStep ==
    TypeOK /\ Records /\ TruthInv /\ RequestInv /\ NoShortGood /\ [Next]_vars => NoShortGood'
<1> SUFFICES ASSUME TypeOK, Records, TruthInv, RequestInv, NoShortGood, [Next]_vars
             PROVE  NoShortGood'
  OBVIOUS
<1> USE DEF srb, us, local, device
<1>n. /\ tag \in Nat /\ number \in Nat /\ dev.tag \in 0..tag /\ asked.tag \in Nat
      /\ request.length \in Nat /\ asked.length \in Nat /\ resid \in Int
      /\ asked.underflow \in Int /\ dev.length \in Nat /\ dev.used \in Nat
      /\ dev.moved \in Nat /\ truth \in Truths
  BY Numbers
<1>1. CASE Invoke
  BY <1>1 DEF Invoke, BulkTransport, NextTag, TruthInv, NoShortGood, Answered
<1>2. CASE SendCbw
  <2>1. UNCHANGED <<asked, request, resid, result, sense, tag, sensing, old, number, truth>>
    BY <1>2, SendCbwEffect
  <2>2. /\ stage = "cbw"
        /\ \/ stage' = "data" /\ UNCHANGED transport
           \/ stage' = "csw" /\ request.length = 0 /\ UNCHANGED transport
           \/ stage' = "returned" /\ transport' = "error"
    BY <1>2, SendCbwEffect
  <2> QED
    BY <1>n, <2>1, <2>2 DEF TruthInv, NoShortGood, Answered
<1>3. CASE TransferData
  <2>1. UNCHANGED <<asked, request, result, sense, tag, sensing, old, number, truth>>
    BY <1>3, TransferDataEffect
  <2>2. /\ stage = "data" /\ dev'.tag = dev.tag /\ dev'.length = dev.length
        /\ \/ stage' = "returned" /\ transport' = "error"
           \/ /\ stage' = "csw" /\ UNCHANGED transport
              /\ resid' \in 0..request.length
    BY <1>3, TransferDataEffect
  <2> QED
    BY <1>n, <2>1, <2>2 DEF TruthInv, NoShortGood, Answered
<1>4. CASE ReadCsw
  <2>1. stage \in InCsw /\ stage' \in InCsw \cup {"returned"}
    BY <1>4, ReadCswEffect DEF Reads
  <2> QED
    BY <2>1 DEF InCsw, TruthInv, NoShortGood, Answered
<1>5. CASE Verdict
  <2>1. CASE stage' = "idle" /\ result' = "good"
    <3>1. /\ transport = "good" /\ ~Underflow /\ stage = "returned" /\ ~sensing
          /\ truth' = truth /\ asked' = asked
      BY <1>5, <2>1, VerdictEffect
    <3>2. /\ truth.moved >= request.length - resid
          /\ \/ truth.used >= request.length - resid
             \/ truth.residue < request.length - truth.used
          /\ request.length = asked.length
      BY <3>1 DEF TruthInv, RequestInv
    <3>3. ~(request.length - resid < asked.underflow)
      BY <3>1 DEF Underflow
    <3> QED
      BY <1>n, <3>1, <3>2, <3>3 DEF NoShortGood, Truths
  <2> QED
    BY <2>1 DEF NoShortGood, Answered
<1>6. CASE SenseVerdict
  BY <1>6
     DEF SenseVerdict, Restore, HandleErrors, Finish, TruthInv, NoShortGood,
         Answered
<1>7. CASE HandlePortReset
  BY <1>7 DEF HandlePortReset, PortReset, TruthInv, NoShortGood, Answered
<1>8. CASE BulkReset
  BY <1>8 DEF BulkReset, TruthInv, NoShortGood, Answered
<1>9. CASE Abort
  BY <1>9 DEF Abort, TruthInv, NoShortGood, Answered
<1>10. CASE UNCHANGED vars
  BY <1>10 DEF vars, TruthInv, NoShortGood, Answered
<1> QED
  BY <1>1, <1>2, <1>3, <1>4, <1>5, <1>6, <1>7, <1>8, <1>9, <1>10 DEF Next, Done


(* Every result of a command is the one it deserves.                       *)
LEMMA ResidStep ==
    TypeOK /\ Records /\ TruthInv /\ RequestInv /\ ResidTrusted /\ [Next]_vars => ResidTrusted'
<1> SUFFICES ASSUME TypeOK, Records, TruthInv, RequestInv, ResidTrusted, [Next]_vars
             PROVE  ResidTrusted'
  OBVIOUS
<1> USE DEF srb, us, local, device
<1>n. /\ tag \in Nat /\ number \in Nat /\ dev.tag \in 0..tag /\ asked.tag \in Nat
      /\ request.length \in Nat /\ asked.length \in Nat /\ resid \in Int
      /\ asked.underflow \in Int /\ dev.length \in Nat /\ dev.used \in Nat
      /\ dev.moved \in Nat /\ truth \in Truths
  BY Numbers
<1>1. CASE Invoke
  BY <1>1
     DEF Invoke, BulkTransport, NextTag, TruthInv, RequestInv, ResidTrusted,
         Answered, Answers
<1>2. CASE SendCbw
  <2>1. UNCHANGED <<asked, request, resid, result, sense, tag, sensing, old, number, truth>>
    BY <1>2, SendCbwEffect
  <2>2. /\ stage = "cbw"
        /\ \/ stage' = "data" /\ UNCHANGED transport
           \/ stage' = "csw" /\ request.length = 0 /\ UNCHANGED transport
           \/ stage' = "returned" /\ transport' = "error"
    BY <1>2, SendCbwEffect
  <2> QED
    BY <1>n, <2>1, <2>2
       DEF TruthInv, RequestInv, ResidTrusted, Answered, Answers
<1>3. CASE TransferData
  <2>1. UNCHANGED <<asked, request, result, sense, tag, sensing, old, number, truth>>
    BY <1>3, TransferDataEffect
  <2>2. /\ stage = "data" /\ dev'.tag = dev.tag /\ dev'.length = dev.length
        /\ \/ stage' = "returned" /\ transport' = "error"
           \/ /\ stage' = "csw" /\ UNCHANGED transport
              /\ resid' \in 0..request.length
    BY <1>3, TransferDataEffect
  <2> QED
    BY <1>n, <2>1, <2>2
       DEF TruthInv, RequestInv, ResidTrusted, Answered, Answers
<1>4. CASE ReadCsw
  <2>1. stage \in InCsw /\ stage' \in InCsw \cup {"returned"}
    BY <1>4, ReadCswEffect DEF Reads
  <2> QED
    BY <2>1 DEF InCsw, TruthInv, RequestInv, ResidTrusted, Answered, Answers
<1>5. CASE Verdict
  BY <1>n, <1>5, VerdictEffect
     DEF TruthInv, RequestInv, ResidTrusted, Answered, Answers
<1>6. CASE SenseVerdict
  BY <1>6
     DEF SenseVerdict, Restore, HandleErrors, Finish, TruthInv, RequestInv,
         ResidTrusted, Answered, Answers
<1>7. CASE HandlePortReset
  BY <1>7
     DEF HandlePortReset, PortReset, TruthInv, RequestInv, ResidTrusted,
         Answered, Answers
<1>8. CASE BulkReset
  BY <1>8 DEF BulkReset, TruthInv, RequestInv, ResidTrusted, Answered, Answers
<1>9. CASE Abort
  BY <1>9 DEF Abort, TruthInv, RequestInv, ResidTrusted, Answered, Answers
<1>10. CASE UNCHANGED vars
  BY <1>10 DEF vars, TruthInv, RequestInv, ResidTrusted, Answered, Answers
<1> QED
  BY <1>1, <1>2, <1>3, <1>4, <1>5, <1>6, <1>7, <1>8, <1>9, <1>10 DEF Next, Done


-----------------------------------------------------------------------------
(* It holds at first ...                                                   *)
LEMMA InitInv == Init => IInv
<1> SUFFICES ASSUME Init PROVE IInv
  OBVIOUS
<1>1. Nonsense \in Nat /\ 0 \in Garbage
  BY NonsenseIsLong DEF Garbage
<1>2. request \in Requests /\ request.length = 0 /\ asked.length = 0
  BY LengthsAssumption DEF Init, Requests
<1>3. Records
  BY <1>1 DEF Init, Records, Devices, Fresh, NotServed, DevStatus, Truths
<1>4. TypeOK
  <2>1. number \in 0..MaxCommands /\ tag \in number..2 * number /\ dev.tag \in 0..tag
    BY LengthsAssumption DEF Init, Fresh
  <2>2. /\ stage \in Stages /\ request \in Requests \cup {REQUEST_SENSE}
        /\ asked.length \in Lengths /\ asked.underflow \in 0..asked.length
        /\ old \in [request : Requests, resid : Garbage] /\ resid \in Garbage
    BY <1>1, <1>2, LengthsAssumption DEF Init, Stages
  <2>3. /\ sensebuf \in 0..number /\ bcs_signature \in {0} \cup Signatures
        /\ result = "none" /\ sense = "none" /\ transport = "none"
    BY DEF Init
  <2>4. /\ fake_sense \in BOOLEAN /\ timed_out \in BOOLEAN /\ lame \in BOOLEAN
        /\ sensing \in BOOLEAN
    BY Zenon DEF Init
  <2>5. /\ dev.phase \in {"command", "data", "status"} /\ dev.status \in DevStatus
        /\ truth.status \in DevStatus \cup {"none"}
    BY <1>3 DEF Records, Devices, Truths
  <2> QED
    BY <2>1, <2>2, <2>3, <2>4, <2>5 DEF TypeOK
<1>5. stage = "idle" /\ ~sensing /\ number = 0 /\ dev.phase = "command"
  BY DEF Init, Fresh
<1>6. PhaseInv /\ TagInv /\ RequestInv /\ TruthInv
  BY <1>2, <1>5 DEF PhaseInv, TagInv, RequestInv, TruthInv, InCsw, Active
<1>7. VerdictIsTrue /\ NoShortGood /\ ResidTrusted
  BY <1>5 DEF VerdictIsTrue, NoShortGood, ResidTrusted, Answered
<1> QED
  BY <1>3, <1>4, <1>6, <1>7 DEF IInv

(* ... and always, so that whatever follows from it is an invariant.       *)
THEOREM Invariance == Spec => []IInv
<1>1. IInv /\ [Next]_vars => IInv'
  BY TypeStep, RecordsStep, PhaseStep, TagStep, RequestStep, TruthStep,
     VerdictStep,
     ShortStep, ResidStep DEF IInv
<1> QED
  BY InitInv, <1>1, PTL DEF Spec

(* Every variable keeps its type: no REQUEST SENSE is sent about another,  *)
(* and usb_stor_Bulk_transport takes at most two tags for a command.       *)
THEOREM TypeCorrect == Spec => []TypeOK
<1>1. IInv => TypeOK
  BY DEF IInv
<1> QED
  BY Invariance, <1>1, PTL

(* A command wrapper is sent to a device that expects one: a transport     *)
(* that ended without a status was followed by a reset                     *)
(* (usb_stor_invoke_transport, Handle_Errors).                             *)
THEOREM StaysInStep == Spec => []InStep
<1>1. IInv => InStep
  BY DEF IInv, PhaseInv, InStep
<1> QED
  BY Invariance, <1>1, PTL

(* A verdict of good or of failed with sense data is the device's, of this *)
(* command: the tag of the status wrapper was compared with the command's  *)
(* before the REQUEST SENSE took a new one.                                *)
THEOREM VerdictsAreTrue == Spec => []VerdictIsTrue
<1>1. IInv => VerdictIsTrue
  BY DEF IInv
<1> QED
  BY Invariance, <1>1, PTL

(* A command that moved less than its underflow is not reported good, nor  *)
(* is one the device used less of and says so: the residual is at least    *)
(* what was not moved, and at least the residue up to the length.          *)
THEOREM ShortIsNotGood == Spec => []NoShortGood
<1>1. IInv => NoShortGood
  BY DEF IInv
<1> QED
  BY Invariance, <1>1, PTL

(* The residual of a command that was carried out is within its length,    *)
(* whatever residue the device claims, and survives the REQUEST SENSE.     *)
THEOREM ResidualsAreSane == Spec => []ResidTrusted
<1>1. IInv => ResidTrusted
  BY DEF IInv
<1> QED
  BY Invariance, <1>1, PTL

=============================================================================

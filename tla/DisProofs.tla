------------------------------- MODULE DisProofs -------------------------------
(***************************************************************************)
(* Theorems about DisBackend for every set of entities, folding, frame     *)
(* contents, timestamp range, reordering bound and broadcast period.       *)
(***************************************************************************)
EXTENDS DisBackend, BackendProofs

Counters == [received : Nat, accepted : Nat, malformed : Nat, stale : Nat]

LEMMA Constants ==
  /\ Half \in Nat /\ Half > 1 /\ SeqMod = 2 * Half /\ SeqMod \in Nat \ {0}
  /\ WireSeq = 0 .. (SeqMod - 1)
  /\ None \notin Int /\ None \notin [seq : Int, val : Int] /\ None \notin Entities
  /\ Sat \in Entities /\ \A e \in Entities : Fold(e) \in Ids
  /\ TsHalf \in Nat \ {0} /\ TsMod = 2 * TsHalf /\ TsMod \in Nat \ {0}
  /\ MaxSent \in Nat /\ Lag \in Nat /\ MaxReceived \in Nat
  /\ \A t \in 0 .. MaxSent : Frame(t) \in Seq(Entities) /\ Frame(t) # << >>
  /\ Faults \subseteq SUBSET Defects
  /\ Period \in Nat \ {0} /\ MaxNow \in Nat \ {0}
BY StoreAssumption, BackendAssumption, DisAssumption DEF SeqMod, WireSeq, TsMod

\* Counting keeps the counters natural numbers.
LEMMA CountType ==
  ASSUME NEW c \in {"received", "accepted", "malformed", "stale"}, NEW st \in Counters
  PROVE  [st EXCEPT ![c] = @ + 1] \in Counters
BY DEF Counters

\* The successor of a sequence number, u32 arithmetic.
LEMMA NextNumber ==
  ASSUME NEW s \in WireSeq
  PROVE  /\ (s + 1) % SeqMod \in WireSeq
         /\ (((s + 1) % SeqMod) - s) % SeqMod = 1
<1>1. /\ s \in Nat /\ s < SeqMod /\ SeqMod \in Nat \ {0} /\ SeqMod > 2
      /\ WireSeq = 0 .. (SeqMod - 1)
  BY Constants
<1>2. CASE s + 1 < SeqMod
  <2>1. s + 1 \in 0 .. (SeqMod - 1) /\ 1 \in 0 .. (SeqMod - 1) /\ (s + 1) - s = 1
    BY <1>1, <1>2
  <2>2. (s + 1) % SeqMod = s + 1 /\ 1 % SeqMod = 1
    <3>1. \A d \in 0 .. (SeqMod - 1) : d % SeqMod = d
      BY <1>1
    <3>2. QED
      BY <2>1, <3>1
  <2>3. QED
    BY <1>1, <2>1, <2>2
<1>3. CASE s + 1 = SeqMod
  <2>1. SeqMod % SeqMod = 0
    BY <1>1
  <2>2. 0 - s \in (1 - SeqMod) .. -1 /\ (0 - s) + SeqMod = 1
    BY <1>1, <1>3
  <2>3. (0 - s) % SeqMod = 1
    BY <1>1, <2>2, ModSmall
  <2>4. QED
    BY <1>1, <1>3, <2>1, <2>3
<1>4. QED
  BY <1>1, <1>2, <1>3

-------------------------------------------------------------------------------
(* Steps of the sender.                                                    *)

\* A frame appends PDUs of the present time; what was sent stays.
LEMMA FrameSent ==
  ASSUME TypeOK, SendFrame
  PROVE  /\ wire' \in Seq(Pdu) /\ Len(wire') <= MaxSent /\ Len(wire') > Len(wire)
         /\ Len(wire) \in Nat /\ Len(wire') \in Nat
         /\ \A i \in 1 .. Len(wire) : wire'[i] = wire[i] /\ i \in 1 .. Len(wire')
         /\ \A i \in 1 .. Len(wire') : i > Len(wire) => wire'[i].run = run /\ wire'[i].time = time
         /\ time' = time + 1 /\ time \in Nat /\ time <= Len(wire) /\ run' = run /\ run \in Nat
         /\ UNCHANGED <<backendVars, dataVars, taken>>
<1> DEFINE f == Frame(time)
           new == [i \in 1 .. Len(f) |-> [e |-> f[i], run |-> run, time |-> time]]
<1>1. /\ wire \in Seq(Pdu) /\ Len(wire) \in Nat /\ Len(wire) <= MaxSent
      /\ time \in 0 .. Len(wire) /\ run \in Nat /\ MaxSent \in Nat
  BY Constants, LenProperties DEF TypeOK
<1>2. /\ f \in Seq(Entities) /\ f # << >> /\ Len(f) \in Nat /\ Len(f) > 0
      /\ \A i \in 1 .. Len(f) : f[i] \in Entities
  <2>1. time \in 0 .. MaxSent
    BY <1>1
  <2>2. f \in Seq(Entities) /\ f # << >>
    BY <2>1, Constants
  <2>3. QED
    BY <2>2, EmptySeq, LenProperties, ElementOfSeq
<1> HIDE DEF f
<1>3. \A i \in 1 .. Len(f) : [e |-> f[i], run |-> run, time |-> time] \in Pdu
  BY <1>1, <1>2 DEF Pdu
<1>4. new \in Seq(Pdu) /\ Len(new) = Len(f)
  BY <1>2, <1>3
<1>5. wire' = wire \o new /\ time' = time + 1 /\ Len(wire) + Len(f) <= MaxSent
  BY DEF SendFrame, f
<1>6. /\ wire' \in Seq(Pdu) /\ Len(wire') = Len(wire) + Len(f)
      /\ \A i \in 1 .. Len(wire) + Len(f) :
           wire'[i] = IF i <= Len(wire) THEN wire[i] ELSE new[i - Len(wire)]
  BY <1>1, <1>4, <1>5, ConcatProperties
<1>7. ASSUME NEW i \in 1 .. Len(wire'), i > Len(wire)
      PROVE  wire'[i].run = run /\ wire'[i].time = time
  <2>1. i - Len(wire) \in 1 .. Len(f) /\ wire'[i] = new[i - Len(wire)]
    BY <1>1, <1>2, <1>6, <1>7
  <2>2. QED
    BY <2>1
<1>8. run' = run /\ UNCHANGED <<backendVars, dataVars, taken>>
  BY DEF SendFrame
<1>9. QED
  BY <1>1, <1>2, <1>5, <1>6, <1>7, <1>8

-------------------------------------------------------------------------------
(* Types.                                                                  *)

\* A frame keeps every position of a sent PDU a position.
LEMMA FrameType ==
  ASSUME TypeOK, SendFrame
  PROVE  TypeOK'
<1>1. /\ wire' \in Seq(Pdu) /\ Len(wire') <= MaxSent
      /\ Len(wire) \in Nat /\ Len(wire') \in Nat /\ Len(wire) < Len(wire')
      /\ time' \in 0 .. Len(wire') /\ run' \in Nat
      /\ UNCHANGED <<backendVars, dataVars, taken>>
  BY FrameSent
<1>2. \A i \in 1 .. Len(wire) : i \in 1 .. Len(wire')
  BY <1>1
<1>3. \A i \in 0 .. Len(wire) : i \in 0 .. Len(wire')
  BY <1>1
<1>4. \A id \in DOMAIN objects : objects[id] \in [val : 1 .. Len(wire'), at : Nat]
  <2>1. TAKE id \in DOMAIN objects
  <2>2. objects[id] \in [val : 1 .. Len(wire), at : Nat]
    BY DEF TypeOK
  <2>3. QED
    BY <1>2, <2>2
<1>5. IF pc = "receive" THEN rx = None
      ELSE rx \in [n : 1 .. Len(wire'), defects : SUBSET Defects]
  <2>1. IF pc = "receive" THEN rx = None
        ELSE rx \in [n : 1 .. Len(wire), defects : SUBSET Defects]
    BY DEF TypeOK
  <2>2. QED
    BY <1>2, <2>1
<1>6. taken \in [Entities -> 0 .. Len(wire')]
  BY <1>3 DEF TypeOK
<1>7. QED
  BY <1>1, <1>4, <1>5, <1>6
  DEF TypeOK, backendVars, storeVars, clockVars, tickVars, inputVars, historyVars, dataVars

\* The broadcast thread only prunes.
LEMMA ServerType ==
  ASSUME TypeOK, ServerNext, UNCHANGED <<senderVars, dataVars, taken>>
  PROVE  TypeOK'
<1>1. CASE Advance
  BY <1>1 DEF TypeOK, Advance, storeVars, tickVars, inputVars, historyVars, senderVars, dataVars
<1>2. CASE BeginTick
  BY <1>2 DEF TypeOK, BeginTick, storeVars, clockVars, inputVars, historyVars, senderVars, dataVars
<1>3. CASE TakeSnapshot
  <2>1. acceptTimes' \in Seq(Nat)
    BY <1>3, LiveTimesType DEF TypeOK, TakeSnapshot, Snapshot
  <2>2. /\ DOMAIN objects' \subseteq Ids
        /\ \A id \in DOMAIN objects' : objects'[id] \in [val : 1 .. Len(wire), at : Nat]
    BY <1>3 DEF TypeOK, TakeSnapshot, Snapshot, Unexpired
  <2>3. timerAt' \in Nat
    BY <1>3, BackendAssumption DEF TypeOK, TakeSnapshot
  <2>4. QED
    BY <1>3, <2>1, <2>2, <2>3
    DEF TypeOK, TakeSnapshot, Snapshot, inputVars, historyVars, senderVars, dataVars
<1>4. QED
  BY <1>1, <1>2, <1>3 DEF ServerNext

\* The datagram in hand, once decoded.
LEMMA InHand ==
  ASSUME TypeOK, pc # "receive"
  PROVE  /\ rx.n \in 1 .. Len(wire) /\ rx.n \in Nat \ {0} /\ Len(wire) \in Nat
         /\ wire[rx.n] \in Pdu /\ wire[rx.n].e \in Entities /\ TsOf(rx.n) \in Nat
         /\ wire[rx.n].time \in Nat
<1>1. rx.n \in 1 .. Len(wire) /\ wire \in Seq(Pdu)
  BY DEF TypeOK
<1>2. Len(wire) \in Nat /\ wire[rx.n] \in Pdu
  BY <1>1, LenProperties, ElementOfSeq
<1>3. wire[rx.n].e \in Entities /\ wire[rx.n].time \in Nat
  BY <1>2 DEF Pdu
<1>4. TsOf(rx.n) \in Nat
  BY <1>3, Constants DEF TsOf
<1>5. QED
  BY <1>1, <1>2, <1>3, <1>4

LEMMA DecodedType ==
  ASSUME TypeOK, Decoded
  PROVE  TypeOK'
<1>1. /\ pc = "decode" /\ rx.n \in 1 .. Len(wire) /\ rx.n \in 0 .. Len(wire) /\ rx.n \in Nat
      /\ wire[rx.n].e \in Entities /\ TsOf(rx.n) \in Nat
  BY InHand DEF Decoded, Intact
<1>2. seq' \in WireSeq
  BY NextNumber DEF Decoded, NextSeq, TypeOK
<1>3. lastTs' \in [Entities -> Nat \cup {None}] /\ taken' \in [Entities -> 0 .. Len(wire)]
  BY <1>1 DEF Decoded, TypeOK
<1>4. sat' \in [seq : WireSeq, val : Nat]
  BY <1>1, NextNumber DEF Decoded, NextSeq, TypeOK
<1>5. objectFold' \in [Ids -> Entities \cup {None}]
  BY <1>1, Constants DEF Decoded, Owner, TypeOK
<1>6. /\ stamp' = now /\ pc' = "apply" /\ rx' = rx /\ UNCHANGED senderVars
      /\ UNCHANGED <<storeVars, clockVars, tickVars, historyVars>>
  BY DEF Decoded, ReadClock
<1>7. QED
  BY <1>1, <1>2, <1>3, <1>4, <1>5, <1>6
  DEF TypeOK, storeVars, clockVars, tickVars, historyVars, senderVars

\* The store's own check: the number of the packet in hand is the next one.
LEMMA NotStale ==
  ASSUME TypeOK, Numbered, pc = "apply"
  PROVE  ~StaleSeq(seq)
<1>1. lastSeq \in WireSeq /\ seq = (lastSeq + 1) % SeqMod
  BY DEF TypeOK, Numbered
<1>2. (seq - lastSeq) % SeqMod = 1
  BY <1>1, NextNumber
<1>3. QED
  BY <1>2, Constants DEF StaleSeq, NotNewer

\* What applying the packet in hand does.
LEMMA Applied ==
  ASSUME TypeOK, Numbered, ApplyPdu
  PROVE  /\ pc = "apply" /\ pc' = "receive" /\ rx' = None
         /\ haveSeq' = TRUE /\ lastSeq' = seq
         /\ stats' = [stats EXCEPT !.accepted = @ + 1]
         /\ satellite' = [seq |-> seq, val |-> sat.val] /\ satelliteT' = None
         /\ objects' = Upsert(objects, PacketOf(rx.n).rows, stamp)
         /\ DOMAIN PacketOf(rx.n).rows =
              IF wire[rx.n].e = Sat THEN {} ELSE {Fold(wire[rx.n].e)}
         /\ \A id \in DOMAIN PacketOf(rx.n).rows : PacketOf(rx.n).rows[id] = rx.n
         /\ DOMAIN PacketOf(rx.n).rows \subseteq Ids
         /\ lastData' = stamp /\ acceptTimes' = Append(acceptTimes, stamp)
         /\ RecordAccept(PacketOf(rx.n).rows)
         /\ UNCHANGED <<pendingTrail, stamp, clockVars, tickVars, senderVars, dataVars, taken>>
<1>1. pc = "apply" /\ ~StaleSeq(seq)
  BY NotStale DEF ApplyPdu
<1>2. wire[rx.n].e \in Entities
  BY <1>1, InHand
<1>3. PacketOf(rx.n).seq = seq /\ PacketOf(rx.n).sat = sat.val
  BY DEF PacketOf
<1>4. Merge(PacketOf(rx.n), stamp, stamp)
  BY <1>1, <1>3 DEF ApplyPdu, Apply
<1>5. PacketOf(rx.n).rows = [id \in {Fold(e) : e \in {wire[rx.n].e} \ {Sat}} |-> rx.n]
  BY DEF PacketOf
<1>6. {Fold(e) : e \in {wire[rx.n].e} \ {Sat}} =
        IF wire[rx.n].e = Sat THEN {} ELSE {Fold(wire[rx.n].e)}
  OBVIOUS
<1>7. QED
  BY <1>1, <1>2, <1>3, <1>4, <1>5, <1>6, Constants DEF ApplyPdu, Merge

LEMMA ApplyType ==
  ASSUME TypeOK, Numbered, ApplyPdu
  PROVE  TypeOK'
<1> DEFINE rows == PacketOf(rx.n).rows
<1>1. /\ pc = "apply" /\ rx.n \in 1 .. Len(wire) /\ stamp \in Nat /\ seq \in WireSeq
      /\ sat.val \in Nat
  BY InHand DEF TypeOK, ApplyPdu
<1>2. /\ objects' = Upsert(objects, rows, stamp) /\ DOMAIN rows \subseteq Ids
      /\ \A id \in DOMAIN rows : rows[id] = rx.n
      /\ RecordAccept(rows)
  BY Applied
<1> HIDE DEF rows
<1>3. /\ DOMAIN objects' \subseteq Ids
      /\ \A id \in DOMAIN objects' : objects'[id] \in [val : 1 .. Len(wire), at : Nat]
  <2>1. objects' = [id \in DOMAIN objects \cup DOMAIN rows |->
                      IF id \in DOMAIN rows THEN [val |-> rows[id], at |-> stamp]
                                            ELSE objects[id]]
    BY <1>2 DEF Upsert
  <2>2. /\ DOMAIN objects \subseteq Ids
        /\ \A id \in DOMAIN objects : objects[id] \in [val : 1 .. Len(wire), at : Nat]
    BY DEF TypeOK
  <2>3. QED
    BY <1>1, <1>2, <2>1, <2>2
<1>4. touched' \in [Ids -> Nat \cup {None}] /\ acceptLog' \in Seq(Nat)
  BY <1>1, <1>2, AppendProperties DEF TypeOK, RecordAccept
<1>5. acceptTimes' \in Seq(Nat)
  <2>1. acceptTimes' = Append(acceptTimes, stamp) /\ acceptTimes \in Seq(Nat)
    BY Applied DEF TypeOK
  <2>2. QED
    BY <1>1, <2>1, AppendProperties
<1>6. stats' \in Counters
  <2>1. stats' = [stats EXCEPT !.accepted = @ + 1] /\ stats \in Counters
    BY Applied DEF TypeOK, Counters
  <2>2. QED
    BY <2>1, CountType
<1>7. satellite' \in [seq : WireSeq, val : Nat]
  BY <1>1, Applied
<1>8. /\ pc' = "receive" /\ rx' = None /\ haveSeq' = TRUE /\ lastSeq' = seq
      /\ satelliteT' = None /\ lastData' = stamp
      /\ UNCHANGED <<pendingTrail, stamp, clockVars, tickVars, senderVars, dataVars, taken>>
  BY Applied
<1>9. QED
  BY <1>1, <1>3, <1>4, <1>5, <1>6, <1>7, <1>8
  DEF TypeOK, Counters, clockVars, tickVars, senderVars, dataVars

\* The datagrams that reach the store only through its counters.
LEMMA CountingType ==
  ASSUME TypeOK,
         \/ \E n \in 1 .. Len(wire), f \in Faults : Receive(n, f)
         \/ DropMalformed \/ Ignore \/ DropStale
  PROVE  TypeOK'
<1>1. ASSUME NEW n \in 1 .. Len(wire), NEW f \in Faults, Receive(n, f) PROVE TypeOK'
  <2>1. stats' \in Counters
    BY <1>1, CountType DEF TypeOK, Counters, Receive, BeginDatagram, CountReceived
  <2>2. rx' \in [n : 1 .. Len(wire), defects : SUBSET Defects] /\ pc' = "decode"
    BY <1>1, Constants DEF Receive, BeginDatagram
  <2>3. QED
    BY <1>1, <2>1, <2>2
    DEF TypeOK, Counters, Receive, BeginDatagram, CountReceived, clockVars, tickVars,
        historyVars, senderVars, dataVars
<1>2. CASE DropMalformed \/ DropStale
  <2>1. stats' \in Counters
    BY <1>2, CountType
    DEF TypeOK, Counters, DropMalformed, DropStale, DropDatagram, CountDropped
  <2>2. QED
    BY <1>2, <2>1
    DEF TypeOK, Counters, DropMalformed, DropStale, DropDatagram, CountDropped, clockVars,
        tickVars, historyVars, senderVars, dataVars
<1>3. CASE Ignore
  BY <1>3 DEF TypeOK, Ignore, storeVars, clockVars, tickVars, historyVars, senderVars, dataVars
<1>4. QED
  BY <1>1, <1>2, <1>3

-------------------------------------------------------------------------------
(* The invariant.                                                          *)

\* Each part of DataInv speaks of a few variables only.
LEMMA Kept ==
  /\ WireOrdered /\ UNCHANGED <<wire, run, time>> => WireOrdered'
  /\ Known /\ UNCHANGED <<wire, lastTs, taken>> => Known'
  /\ Numbered /\ UNCHANGED <<seq, lastSeq>> /\ (pc = "apply" <=> pc' = "apply") => Numbered'
  /\ Carried /\ UNCHANGED <<sat, taken, satellite>> /\ (pc = "apply" <=> pc' = "apply") => Carried'
  /\ Claimed /\ UNCHANGED <<wire, objects, objectFold>> /\ pc # "apply" /\ pc' # "apply" => Claimed'
  /\ Claimed /\ UNCHANGED <<wire, objects, objectFold, pc, rx>> => Claimed'
<1>1. WireOrdered /\ UNCHANGED <<wire, run, time>> => WireOrdered'
  BY DEF WireOrdered, Before
<1>2. Known /\ UNCHANGED <<wire, lastTs, taken>> => Known'
  BY DEF Known, TsOf
<1>3. Numbered /\ UNCHANGED <<seq, lastSeq>> /\ (pc = "apply" <=> pc' = "apply") => Numbered'
  BY DEF Numbered
<1>4. Carried /\ UNCHANGED <<sat, taken, satellite>> /\ (pc = "apply" <=> pc' = "apply") => Carried'
  BY DEF Carried
<1>5. Claimed /\ UNCHANGED <<wire, objects, objectFold>> /\ pc # "apply" /\ pc' # "apply" => Claimed'
  BY DEF Claimed, Claims
<1>6. Claimed /\ UNCHANGED <<wire, objects, objectFold, pc, rx>> => Claimed'
  BY DEF Claimed, Claims
<1>7. QED
  BY <1>1, <1>2, <1>3, <1>4, <1>5, <1>6

\* What is sent stays where it is, and comes after what was sent.
LEMMA FrameStep ==
  ASSUME TypeOK, DataInv, SendFrame
  PROVE  DataInv'
<1>1. /\ Len(wire) \in Nat /\ Len(wire') \in Nat /\ wire' \in Seq(Pdu)
      /\ \A i \in 1 .. Len(wire) : wire'[i] = wire[i] /\ i \in 1 .. Len(wire')
      /\ \A i \in 1 .. Len(wire') : i > Len(wire) => wire'[i].run = run /\ wire'[i].time = time
      /\ time' = time + 1 /\ time \in Nat /\ run' = run /\ run \in Nat
  BY FrameSent
<1>2. UNCHANGED <<backendVars, dataVars, taken>>
  BY FrameSent
<1>3. WireOrdered'
  <2>1. \A i \in 1 .. Len(wire') : wire'[i].run \in Nat /\ wire'[i].time \in Nat
    <3>1. \A i \in 1 .. Len(wire') : wire'[i] \in Pdu
      BY <1>1, ElementOfSeq
    <3>2. QED
      BY <3>1 DEF Pdu
  <2>2. ASSUME NEW i \in 1 .. Len(wire')
        PROVE  \/ wire'[i].run < run
               \/ wire'[i].run = run /\ wire'[i].time <= time
    <3>1. CASE i <= Len(wire)
      BY <1>1, <3>1 DEF DataInv, WireOrdered, Before
    <3>2. CASE i > Len(wire)
      BY <1>1, <3>2
    <3>3. QED
      BY <1>1, <3>1, <3>2
  <2>3. ASSUME NEW i \in 1 .. Len(wire'), NEW j \in 1 .. Len(wire'), i <= j
        PROVE  Before(i, wire[j].run, wire[j].time)'
    <3>1. CASE j <= Len(wire)
      <4>1. i \in 1 .. Len(wire) /\ j \in 1 .. Len(wire)
        BY <1>1, <2>3, <3>1
      <4>2. QED
        BY <1>1, <2>3, <4>1 DEF DataInv, WireOrdered, Before
    <3>2. CASE j > Len(wire)
      BY <1>1, <2>2, <3>2 DEF Before
    <3>3. QED
      BY <1>1, <3>1, <3>2
  <2>4. \A i \in 1 .. Len(wire') : Before(i, run, time)'
    BY <1>1, <2>1, <2>2 DEF Before
  <2>5. QED
    BY <2>3, <2>4 DEF WireOrdered
<1>4. Known'
  <2>1. SUFFICES ASSUME NEW e \in Entities
                 PROVE  (IF taken[e] = 0 THEN lastTs[e] = None
                         ELSE wire[taken[e]].e = e /\ lastTs[e] = TsOf(taken[e]))'
    BY DEF Known
  <2>2. /\ taken'[e] = taken[e] /\ lastTs'[e] = lastTs[e]
        /\ taken[e] # 0 => taken[e] \in 1 .. Len(wire)
    BY <1>1, <1>2 DEF TypeOK, dataVars
  <2>3. QED
    BY <1>1, <2>2 DEF DataInv, Known, TsOf
<1>5. Numbered' /\ Carried'
  BY <1>2, Kept DEF DataInv, backendVars, storeVars, inputVars, dataVars
<1>6. Claimed'
  <2>1. /\ UNCHANGED <<objects, objectFold, pc, rx>>
        /\ \A id \in DOMAIN objects : wire'[objects[id].val] = wire[objects[id].val]
    BY <1>1, <1>2 DEF TypeOK, backendVars, storeVars, inputVars, dataVars
  <2>2. pc # "receive" => wire'[rx.n] = wire[rx.n]
    BY <1>1, InHand
  <2>3. QED
    BY <2>1, <2>2 DEF DataInv, Claimed, Claims
<1>7. QED
  BY <1>3, <1>4, <1>5, <1>6 DEF DataInv

\* An accepted PDU is recorded, numbered, and claims its folded id.
LEMMA DecodedStep ==
  ASSUME TypeOK, DataInv, Decoded
  PROVE  DataInv'
<1> DEFINE e == wire[rx.n].e
<1>1. /\ pc = "decode" /\ pc' = "apply" /\ rx' = rx /\ wire' = wire
      /\ UNCHANGED <<run, time, haveSeq, lastSeq, satellite, objects>>
      /\ lastTs' = [lastTs EXCEPT ![e] = TsOf(rx.n)]
      /\ seq' = (seq + 1) % SeqMod /\ taken' = [taken EXCEPT ![e] = rx.n]
      /\ e = Sat => sat'.val = rx.n /\ objectFold' = objectFold
      /\ e # Sat => sat' = sat /\ objectFold' = [objectFold EXCEPT ![Fold(e)] = e]
  BY DEF Decoded, Intact, ReadClock, NextSeq, Owner, storeVars, senderVars
<1>2. e \in Entities /\ rx.n \in Nat \ {0} /\ Fold(e) \in Ids
  BY <1>1, InHand, Constants
<1> HIDE DEF e
<1>3. WireOrdered'
  BY <1>1, Kept DEF DataInv
<1>4. Known'
  <2>1. ASSUME NEW d \in Entities
        PROVE  (IF taken[d] = 0 THEN lastTs[d] = None
                ELSE wire[taken[d]].e = d /\ lastTs[d] = TsOf(taken[d]))'
    <3>1. CASE d = e
      <4>1. taken'[d] = rx.n /\ lastTs'[d] = TsOf(rx.n)
        BY <1>1, <1>2, <3>1 DEF TypeOK
      <4>2. wire'[rx.n].e = d /\ TsOf(rx.n)' = TsOf(rx.n)
        BY <1>1, <3>1 DEF TsOf, e
      <4>3. QED
        BY <1>1, <1>2, <4>1, <4>2 DEF TsOf
    <3>2. CASE d # e
      <4>1. taken'[d] = taken[d] /\ lastTs'[d] = lastTs[d]
        BY <1>1, <3>2 DEF TypeOK
      <4>2. QED
        BY <1>1, <4>1 DEF DataInv, Known, TsOf
    <3>3. QED
      BY <3>1, <3>2
  <2>2. QED
    BY <2>1 DEF Known
<1>5. Numbered'
  BY <1>1 DEF DataInv, Numbered
<1>6. Carried'
  BY <1>1, <1>2, Constants DEF DataInv, Carried, TypeOK
<1>7. Claimed'
  <2>1. ASSUME NEW id \in Ids, Claims(id)' PROVE objectFold'[id] = wire'[rx'.n].e
    BY <1>1, <1>2, <2>1 DEF Claims, TypeOK, e
  <2>2. ASSUME NEW id \in Ids, id \in DOMAIN objects', ~Claims(id)'
        PROVE  wire'[objects'[id].val].e = objectFold'[id]
    <3>1. objectFold'[id] = objectFold[id]
      BY <1>1, <1>2, <2>2 DEF Claims, TypeOK, e
    <3>2. id \in DOMAIN objects /\ ~Claims(id)
      BY <1>1, <2>2 DEF Claims
    <3>3. QED
      BY <1>1, <3>1, <3>2 DEF DataInv, Claimed
  <2>3. QED
    BY <2>1, <2>2 DEF Claimed
<1>8. QED
  BY <1>3, <1>4, <1>5, <1>6, <1>7 DEF DataInv

\* Applying the packet brings the store up to what the input thread holds.
LEMMA ApplyStep ==
  ASSUME TypeOK, DataInv, ApplyPdu
  PROVE  DataInv'
<1> DEFINE rows == PacketOf(rx.n).rows
<1>0. Numbered
  BY DEF DataInv
<1>1. /\ pc = "apply" /\ pc' = "receive" /\ lastSeq' = seq /\ satellite'.val = sat.val
      /\ objects' = Upsert(objects, rows, stamp)
      /\ DOMAIN rows = IF wire[rx.n].e = Sat THEN {} ELSE {Fold(wire[rx.n].e)}
      /\ \A id \in DOMAIN rows : rows[id] = rx.n
      /\ UNCHANGED <<wire, run, time, lastTs, seq, sat, objectFold, taken>>
  BY <1>0, Applied DEF senderVars, dataVars
<1> HIDE DEF rows
<1>2. WireOrdered' /\ Known'
  BY <1>1, Kept DEF DataInv
<1>3. Numbered' /\ Carried'
  BY <1>1 DEF DataInv, Numbered, Carried
<1>4. Claimed'
  <2>1. objects' = [id \in DOMAIN objects \cup DOMAIN rows |->
                      IF id \in DOMAIN rows THEN [val |-> rows[id], at |-> stamp]
                                            ELSE objects[id]]
    BY <1>1 DEF Upsert
  <2>2. ASSUME NEW id \in Ids, id \in DOMAIN objects'
        PROVE  wire'[objects'[id].val].e = objectFold'[id]
    <3>1. CASE id \in DOMAIN rows
      <4>1. Claims(id) /\ objects'[id].val = rx.n
        BY <1>1, <2>1, <3>1 DEF Claims
      <4>2. objectFold[id] = wire[rx.n].e
        BY <4>1 DEF DataInv, Claimed
      <4>3. QED
        BY <1>1, <4>1, <4>2
    <3>2. CASE id \notin DOMAIN rows
      <4>1. ~Claims(id) /\ id \in DOMAIN objects /\ objects'[id] = objects[id]
        BY <1>1, <2>1, <2>2, <3>2 DEF Claims
      <4>2. QED
        BY <1>1, <4>1 DEF DataInv, Claimed
    <3>3. QED
      BY <3>1, <3>2
  <2>3. QED
    BY <1>1, <2>2 DEF Claimed, Claims
<1>5. QED
  BY <1>2, <1>3, <1>4 DEF DataInv

\* Every other step leaves the sender's log and the input thread's maps alone.
LEMMA OtherStep ==
  ASSUME TypeOK, DataInv,
         \/ Restart
         \/ \E n \in 1 .. Len(wire), f \in Faults : Receive(n, f)
         \/ DropMalformed \/ Ignore \/ DropStale
         \/ ServerNext /\ UNCHANGED <<senderVars, dataVars, taken>>
  PROVE  DataInv'
<1>1. CASE Restart
  <2>1. /\ run' = run + 1 /\ time' = 0 /\ wire' = wire /\ run \in Nat
        /\ UNCHANGED <<backendVars, dataVars, taken>>
    BY <1>1 DEF Restart, TypeOK
  <2>2. \A i \in 1 .. Len(wire) : wire[i].run \in Nat
    <3>1. \A i \in 1 .. Len(wire) : wire[i] \in Pdu
      BY ElementOfSeq DEF TypeOK
    <3>2. QED
      BY <3>1 DEF Pdu
  <2>3. WireOrdered'
    BY <2>1, <2>2 DEF DataInv, WireOrdered, Before
  <2>4. QED
    BY <2>1, <2>3, Kept DEF DataInv, backendVars, storeVars, inputVars, dataVars
<1>2. ASSUME NEW n \in 1 .. Len(wire), NEW f \in Faults, Receive(n, f) PROVE DataInv'
  <2>1. /\ pc = "receive" /\ pc' = "decode"
        /\ UNCHANGED <<lastSeq, satellite, objects, senderVars, dataVars, taken>>
    BY <1>2 DEF Receive, BeginDatagram, CountReceived
  <2>2. QED
    BY <2>1, Kept DEF DataInv, senderVars, dataVars
<1>3. CASE DropMalformed \/ Ignore \/ DropStale
  <2>1. /\ pc = "decode" /\ pc' = "receive"
        /\ UNCHANGED <<lastSeq, satellite, objects, senderVars, dataVars, taken>>
    BY <1>3 DEF DropMalformed, Ignore, DropStale, Intact, DropDatagram, CountDropped, storeVars
  <2>2. QED
    BY <2>1, Kept DEF DataInv, senderVars, dataVars
<1>4. CASE (Advance \/ BeginTick) /\ UNCHANGED <<senderVars, dataVars, taken>>
  <2>1. UNCHANGED <<lastSeq, satellite, objects, pc, rx, senderVars, dataVars, taken>>
    BY <1>4 DEF Advance, BeginTick, storeVars, inputVars
  <2>2. QED
    BY <2>1, Kept DEF DataInv, senderVars, dataVars
<1>5. CASE TakeSnapshot /\ UNCHANGED <<senderVars, dataVars, taken>>
  <2>1. /\ UNCHANGED <<lastSeq, satellite, pc, rx, senderVars, dataVars, taken>>
        /\ DOMAIN objects' \subseteq DOMAIN objects
        /\ \A id \in DOMAIN objects' : objects'[id] = objects[id]
    BY <1>5 DEF TakeSnapshot, Snapshot, Unexpired, inputVars
  <2>2. Claimed'
    BY <2>1 DEF DataInv, Claimed, Claims, senderVars, dataVars
  <2>3. QED
    BY <2>1, <2>2, Kept DEF DataInv, senderVars, dataVars
<1>6. QED
  BY <1>1, <1>2, <1>3, <1>4, <1>5 DEF ServerNext

LEMMA InitOK == Init => TypeOK /\ DataInv
<1> SUFFICES ASSUME Init PROVE TypeOK /\ DataInv
  OBVIOUS
<1>1. /\ 0 \in WireSeq /\ << >> \in Seq(Nat) /\ << >> \in Seq(Pdu) /\ Len(<< >>) = 0
      /\ DOMAIN << >> = {} /\ (IF Period > MaxNow THEN MaxNow ELSE Period) \in Nat
      /\ MaxSent \in Nat
  BY Constants
<1>2. /\ haveSeq = FALSE /\ lastSeq = 0 /\ seq = 0 /\ satellite = None /\ objects = << >>
      /\ wire = << >> /\ pc = "receive" /\ sat = [seq |-> 0, val |-> 0]
      /\ taken = [e \in Entities |-> 0] /\ lastTs = [e \in Entities |-> None]
  BY DEF Init, BackendInit, StoreInit
<1>3. TypeOK
  <2>1. stats \in [received : Nat, accepted : Nat, malformed : Nat, stale : Nat]
    BY DEF Init, BackendInit, StoreInit
  <2>2. touched \in [Ids -> Nat \cup {None}] /\ objectFold \in [Ids -> Entities \cup {None}]
    BY DEF Init, BackendInit
  <2>3. lastTs \in [Entities -> Nat \cup {None}] /\ taken \in [Entities -> 0 .. Len(wire)]
    BY <1>1, <1>2
  <2>4. sat \in [seq : WireSeq, val : Nat]
    BY <1>1, <1>2
  <2>5. /\ lastData = None /\ satelliteT = None /\ pendingTrail = << >>
        /\ acceptTimes \in Seq(Nat) /\ acceptLog \in Seq(Nat)
        /\ now \in Nat /\ timerAt \in Nat /\ tickMono \in Nat /\ stamp \in Nat
        /\ tickPc = "wait" /\ rx = None /\ run \in Nat /\ time \in 0 .. Len(wire)
    BY <1>1, <1>2 DEF Init, BackendInit, StoreInit
  <2>6. /\ DOMAIN objects \subseteq Ids /\ wire \in Seq(Pdu) /\ Len(wire) <= MaxSent
        /\ \A id \in DOMAIN objects : objects[id] \in [val : 1 .. Len(wire), at : Nat]
    BY <1>1, <1>2
  <2>7. QED
    BY <1>1, <1>2, <2>1, <2>2, <2>3, <2>4, <2>5, <2>6 DEF TypeOK
<1>4. DataInv
  BY <1>1, <1>2, Constants
  DEF DataInv, WireOrdered, Known, Numbered, Carried, Claimed, Claims
<1>5. QED
  BY <1>3, <1>4

LEMMA NextOK ==
  ASSUME TypeOK, DataInv, [Next]_vars
  PROVE  TypeOK' /\ DataInv'
<1>0. Numbered
  BY DEF DataInv
<1>1. CASE SendFrame
  BY <1>1, FrameType, FrameStep
<1>2. CASE Restart
  <2>1. TypeOK'
    BY <1>2 DEF Restart, TypeOK, backendVars, storeVars, clockVars, tickVars, inputVars,
               historyVars, dataVars
  <2>2. QED
    BY <1>2, <2>1, OtherStep
<1>3. ASSUME NEW n \in 1 .. Len(wire), NEW f \in Faults, Receive(n, f) PROVE TypeOK' /\ DataInv'
  BY <1>3, CountingType, OtherStep
<1>4. CASE DropMalformed \/ Ignore \/ DropStale
  BY <1>4, CountingType, OtherStep
<1>5. CASE Decoded
  BY <1>5, DecodedType, DecodedStep
<1>6. CASE ApplyPdu
  BY <1>0, <1>6, ApplyType, ApplyStep
<1>7. CASE Tick \/ TimePasses
  <2>1. ServerNext /\ UNCHANGED <<senderVars, dataVars, taken>>
    BY <1>7 DEF Tick, TimePasses, ServerNext
  <2>2. QED
    BY <2>1, ServerType, OtherStep
<1>8. CASE UNCHANGED vars
  BY <1>8, Kept
  DEF TypeOK, DataInv, vars, backendVars, storeVars, clockVars, tickVars, inputVars, historyVars,
      senderVars, dataVars
<1>9. QED
  BY <1>1, <1>2, <1>3, <1>4, <1>5, <1>6, <1>7, <1>8 DEF Next, Handle

LEMMA Invariant == Spec => [](TypeOK /\ DataInv)
<1>1. TypeOK /\ DataInv /\ [Next]_vars => (TypeOK /\ DataInv)'
  BY NextOK
<1>2. QED
  BY <1>1, InitOK, PTL DEF Spec

-------------------------------------------------------------------------------
(* Theorems.                                                               *)

\* Every variable of the store, the two threads, the sender and the maps of the
\* input source keeps its type (dis_input_source.hpp, state_store.hpp).
THEOREM TypeCorrect == Spec => []TypeOK
BY Invariant, PTL

\* The synthesized numbers pass the store's sequence check through every
\* wraparound of the u32 (dis_input_source.cpp:232-283, state_store.cpp:36-41).
THEOREM Synthesized == Spec => []NeverStaleInStore
<1>1. TypeOK /\ DataInv => NeverStaleInStore
  BY NotStale DEF DataInv, NeverStaleInStore
<1>2. QED
  BY <1>1, Invariant, PTL

\* Whatever entity a PDU is of, the store holds the satellite last accepted
\* (dis_input_source.cpp:269-279).
THEOREM SatelliteKept == Spec => []SatelliteCarried
<1>1. DataInv => SatelliteCarried
  BY DEF DataInv, Carried, SatelliteCarried
<1>2. QED
  BY <1>1, Invariant, PTL

\* The owner of a folded id is the entity whose PDU its row shows, for every
\* folding and any number of collisions (dis_input_source.cpp:240-251).
THEOREM FoldOwner == Spec => []FoldNamesOwner
<1>1. TypeOK /\ DataInv => FoldNamesOwner
  BY DEF TypeOK, DataInv, Claimed, Claims, FoldNamesOwner
<1>2. QED
  BY <1>1, Invariant, PTL

-------------------------------------------------------------------------------
(* Order within the hour.                                                  *)

\* Division with remainder.
LEMMA DivMod ==
  ASSUME NEW K \in Nat \ {0}, NEW n \in Int
  PROVE  n = K * (n \div K) + (n % K) /\ n \div K \in Int /\ (n % K) \in 0 .. (K - 1)
<1>1. n = K * (n \div K) + (n % K)
  OBVIOUS
<1>2. n \div K \in Int /\ (n % K) \in 0 .. K-1
  OBVIOUS
<1>3. QED
  BY <1>1, <1>2

\* A product with a natural number.
LEMMA TimesNat ==
  ASSUME NEW K \in Nat, NEW x \in Int, NEW d \in Nat
  PROVE  /\ K * d \in Nat /\ K * x \in Int
         /\ K * (x + d) = K * x + K * d /\ K * (x + 1 + d) = K * x + K + K * d
OBVIOUS

\* Timestamps of one sender's run: a later PDU with a timestamp behind by less
\* than half an hour was sent over half an hour later.
LEMMA HourGap ==
  ASSUME NEW a \in Nat, NEW b \in Nat, a <= b,
         (b % TsMod) < (a % TsMod), (a % TsMod) - (b % TsMod) < TsHalf
  PROVE  b - a > TsHalf
<1> DEFINE p == a \div TsMod
           q == b \div TsMod
           x == (a % TsMod)
           y == (b % TsMod)
<1>1. TsHalf \in Nat \ {0} /\ TsMod = 2 * TsHalf /\ TsMod \in Nat \ {0}
  BY Constants
<1>2. /\ a = TsMod * p + x /\ p \in Int /\ x \in 0 .. (TsMod - 1)
      /\ b = TsMod * q + y /\ q \in Int /\ y \in 0 .. (TsMod - 1)
  <2>1. \A n \in Int : /\ n = TsMod * (n \div TsMod) + (n % TsMod)
                       /\ n \div TsMod \in Int /\ (n % TsMod) \in 0 .. (TsMod - 1)
    BY <1>1, DivMod
  <2>2. a \in Int /\ b \in Int
    OBVIOUS
  <2>3. QED
    BY <2>1, <2>2, Zenon
<1>3. y < x /\ x - y < TsHalf
  OBVIOUS
<1>4. x \in Int /\ y \in Int
  <2>1. TsMod - 1 \in Int
    BY <1>1
  <2> HIDE DEF x, y
  <2>2. QED
    BY <1>2, <2>1
<1> HIDE DEF p, q, x, y
<1>5. TsMod * p \in Int /\ TsMod * q \in Int
  BY <1>1, <1>2, TimesNat
<1>6. q > p
  <2>1. SUFFICES ASSUME q <= p PROVE FALSE
    BY <1>2
  <2>2. PICK d \in Nat : p = q + d
    <3>1. p - q \in Nat /\ p = q + (p - q)
      BY <1>2, <2>1
    <3>2. QED
      BY <3>1
  <2>3. TsMod * p = TsMod * q + TsMod * d /\ TsMod * d \in Nat
    BY <1>1, <1>2, <2>2, TimesNat
  <2>4. QED
    BY <1>2, <1>3, <1>4, <1>5, <2>3
<1>7. PICK d \in Nat : q = p + 1 + d
  <2>1. q - p - 1 \in Nat /\ q = p + 1 + (q - p - 1)
    BY <1>2, <1>6
  <2>2. QED
    BY <2>1
<1>8. TsMod * q = TsMod * p + TsMod + TsMod * d /\ TsMod * d \in Nat
  BY <1>1, <1>2, <1>7, TimesNat
<1>9. QED
  BY <1>1, <1>2, <1>3, <1>4, <1>5, <1>8

\* Within an hour timestamps differ as times do.
LEMMA SameHour ==
  ASSUME NEW a \in Nat, NEW b \in Nat, a \div TsMod = b \div TsMod
  PROVE  /\ a - b = (a % TsMod) - (b % TsMod)
         /\ (a % TsMod) \in Int /\ (b % TsMod) \in Int
<1> DEFINE p == a \div TsMod
           x == (a % TsMod)
           y == (b % TsMod)
<1>1. TsMod \in Nat \ {0}
  BY Constants
<1>2. /\ a = TsMod * p + x /\ p \in Int /\ x \in 0 .. (TsMod - 1)
      /\ b = TsMod * p + y /\ y \in 0 .. (TsMod - 1)
  <2>1. \A n \in Int : /\ n = TsMod * (n \div TsMod) + (n % TsMod)
                       /\ n \div TsMod \in Int /\ (n % TsMod) \in 0 .. (TsMod - 1)
    BY <1>1, DivMod
  <2>2. a \in Int /\ b \in Int
    OBVIOUS
  <2>3. QED
    BY <2>1, <2>2, Zenon
<1> HIDE DEF p, x, y
<1>3. TsMod * p \in Int /\ TsMod - 1 \in Int
  BY <1>1, <1>2, TimesNat
<1>4. a - b = x - y /\ x \in Int /\ y \in Int
  BY <1>2, <1>3
<1>5. QED
  BY <1>4 DEF x, y

\* Which steps count a stale datagram and which record an accepted one.
LEMMA StaleOrTaken ==
  ASSUME TypeOK, DataInv, [Next]_vars
  PROVE  /\ stats'.stale # stats.stale => DropStale
         /\ taken' # taken => Decoded
<1>0. stats \in [received : Nat, accepted : Nat, malformed : Nat, stale : Nat] /\ Numbered
  BY DEF TypeOK, DataInv
<1>1. CASE SendFrame \/ Restart
  BY <1>1 DEF SendFrame, Restart, backendVars, storeVars
<1>2. ASSUME NEW n \in 1 .. Len(wire), NEW f \in Faults, Receive(n, f)
      PROVE  stats'.stale = stats.stale /\ taken' = taken
  BY <1>0, <1>2 DEF Receive, BeginDatagram, CountReceived
<1>3. CASE DropMalformed
  BY <1>0, <1>3 DEF DropMalformed, DropDatagram, CountDropped
<1>4. CASE Ignore
  BY <1>4 DEF Ignore, storeVars
<1>5. CASE DropStale
  BY <1>5 DEF DropStale
<1>6. CASE Decoded
  BY <1>6 DEF Decoded, ReadClock, storeVars
<1>7. CASE ApplyPdu
  BY <1>0, <1>7, Applied
<1>8. CASE Tick \/ TimePasses
  BY <1>8 DEF Tick, TimePasses, Advance, BeginTick, TakeSnapshot, Snapshot, storeVars
<1>9. CASE UNCHANGED vars
  BY <1>9 DEF vars, backendVars, storeVars
<1>10. QED
  BY <1>1, <1>2, <1>3, <1>4, <1>5, <1>6, <1>7, <1>8, <1>9 DEF Next, Handle

\* The entity's last accepted PDU, where last_ts_ has an entry.
LEMMA LastKnown ==
  ASSUME TypeOK, DataInv, NEW e \in Entities, taken[e] # 0
  PROVE  /\ taken[e] \in 1 .. Len(wire) /\ taken[e] \in Nat
         /\ lastTs[e] = TsOf(taken[e]) /\ TsOf(taken[e]) \in Nat /\ lastTs[e] # None
         /\ wire[taken[e]].time \in Nat /\ wire[taken[e]].run \in Nat
<1>1. taken[e] \in 0 .. Len(wire) /\ wire \in Seq(Pdu) /\ Len(wire) \in Nat
  BY LenProperties DEF TypeOK
<1>2. taken[e] \in 1 .. Len(wire)
  BY <1>1
<1>3. wire[taken[e]] \in Pdu
  BY <1>1, <1>2, ElementOfSeq
<1>4. wire[taken[e]].time \in Nat /\ wire[taken[e]].run \in Nat
  BY <1>3 DEF Pdu
<1>5. TsOf(taken[e]) \in Nat
  BY <1>4, Constants DEF TsOf
<1>6. lastTs[e] = TsOf(taken[e])
  BY DEF DataInv, Known
<1>7. QED
  BY <1>1, <1>2, <1>4, <1>5, <1>6, Constants

\* The order of sending is the order of runs and times.
LEMMA SentBefore ==
  ASSUME TypeOK, DataInv, NEW i \in 1 .. Len(wire), NEW j \in 1 .. Len(wire), i <= j,
         wire[i].run = wire[j].run
  PROVE  wire[i].time <= wire[j].time
<1>1. Before(i, wire[j].run, wire[j].time)
  BY DEF DataInv, WireOrdered
<1>2. wire[j] \in Pdu
  BY ElementOfSeq DEF TypeOK
<1>3. wire[j].run \in Nat
  BY <1>2 DEF Pdu
<1>4. QED
  BY <1>1, <1>3 DEF Before

\* A PDU called stale was overtaken, or is of another run, or follows over
\* half an hour of silence: for every timestamp range and every order of
\* arrival (dis_input_source.cpp:135-157).
THEOREM Justified == Spec => StaleJustified
<1>1. TypeOK /\ DataInv /\ [Next]_vars =>
        [stats'.stale # stats.stale =>
           LET n == rx.n
               last == taken[wire[n].e]
           IN  /\ TsOf(n) # 0
               /\ \/ n < last
                  \/ wire[n].run # wire[last].run
                  \/ wire[n].time - wire[last].time > TsHalf]_stats
  <2> SUFFICES ASSUME TypeOK, DataInv, [Next]_vars, stats'.stale # stats.stale,
                      ~(rx.n < taken[wire[rx.n].e]),
                      wire[rx.n].run = wire[taken[wire[rx.n].e]].run
               PROVE  /\ TsOf(rx.n) # 0
                      /\ wire[rx.n].time - wire[taken[wire[rx.n].e]].time > TsHalf
    <3>1. ASSUME TypeOK, DataInv, [Next]_vars, stats'.stale # stats.stale
          PROVE  TsOf(rx.n) # 0
      BY <3>1, StaleOrTaken DEF DropStale, IsStale
    <3>2. QED
      BY <3>1
  <2> DEFINE n == rx.n
             e == wire[rx.n].e
             last == taken[e]
  <2>1. Intact /\ IsStale(e, TsOf(n))
    BY StaleOrTaken DEF DropStale
  <2>2. /\ n \in 1 .. Len(wire) /\ n \in Nat /\ e \in Entities /\ wire[n].time \in Nat
        /\ TsOf(n) \in Nat
    BY <2>1, InHand DEF Intact
  <2>3. lastTs[e] # None /\ TsOf(n) # 0 /\ TsOf(n) < lastTs[e] /\ lastTs[e] - TsOf(n) < TsHalf
    BY <2>1 DEF IsStale
  <2>4. last # 0
    BY <2>2, <2>3 DEF DataInv, Known
  <2>5. /\ last \in 1 .. Len(wire) /\ last \in Nat /\ lastTs[e] = TsOf(last)
        /\ wire[last].time \in Nat
    BY <2>2, <2>4, LastKnown
  <2> HIDE DEF n, e, last
  <2>6. last <= n /\ wire[last].run = wire[n].run
    BY <2>2, <2>5 DEF n, e, last
  <2>7. wire[last].time <= wire[n].time
    BY <2>2, <2>5, <2>6, SentBefore
  <2>8. /\ (wire[n].time % TsMod) < (wire[last].time % TsMod)
        /\ (wire[last].time % TsMod) - (wire[n].time % TsMod) < TsHalf
    <3>1. TsOf(n) = (wire[n].time % TsMod) /\ TsOf(last) = (wire[last].time % TsMod)
      BY DEF TsOf
    <3>2. TsOf(n) < TsOf(last) /\ TsOf(last) - TsOf(n) < TsHalf
      BY <2>3, <2>5
    <3>3. QED
      BY <3>1, <3>2
  <2>9. wire[n].time - wire[last].time > TsHalf
    BY <2>2, <2>5, <2>7, <2>8, HourGap
  <2>10. QED
    BY <2>3, <2>9 DEF n, e, last
<1>2. QED
  BY <1>1, Invariant, PTL DEF Spec, StaleJustified

\* Within an hour of one run an entity never jumps back by less than half an
\* hour (dis_input_source.cpp:135-157).
THEOREM WithinHour == Spec => OrderWithinHour
<1>1. TypeOK /\ DataInv /\ [Next]_vars =>
        [\A e \in Entities :
           LET n == taken'[e]
               last == taken[e]
           IN  n < last =>
                 \/ TsOf(n) = 0
                 \/ wire[n].run # wire[last].run
                 \/ wire[n].time = wire[last].time
                 \/ wire[n].time \div TsMod # wire[last].time \div TsMod
                 \/ wire[last].time - wire[n].time >= TsHalf]_taken
  <2> SUFFICES ASSUME TypeOK, DataInv, [Next]_vars, taken' # taken, NEW e \in Entities,
                      taken'[e] < taken[e],
                      TsOf(taken'[e]) # 0,
                      wire[taken'[e]].run = wire[taken[e]].run,
                      wire[taken'[e]].time \div TsMod = wire[taken[e]].time \div TsMod
               PROVE  \/ wire[taken'[e]].time = wire[taken[e]].time
                      \/ wire[taken[e]].time - wire[taken'[e]].time >= TsHalf
    BY Zenon
  <2> DEFINE n == rx.n
             last == taken[e]
  <2>1. Decoded
    BY StaleOrTaken
  <2>2. /\ n \in 1 .. Len(wire) /\ n \in Nat /\ wire[n].e \in Entities /\ wire[n].time \in Nat
        /\ TsOf(n) \in Nat
    BY <2>1, InHand DEF Decoded, Intact
  <2>3. taken \in [Entities -> 0 .. Len(wire)] /\ taken' = [taken EXCEPT ![wire[n].e] = n]
    BY <2>1 DEF TypeOK, Decoded
  <2>4. e = wire[n].e /\ taken'[e] = n
    <3>1. last \in Int
      BY <2>3
    <3>2. QED
      BY <2>2, <2>3, <3>1
  <2>5. n < last /\ last # 0
    BY <2>2, <2>4
  <2>6. /\ last \in 1 .. Len(wire) /\ last \in Nat /\ lastTs[e] = TsOf(last)
        /\ TsOf(last) \in Nat /\ lastTs[e] # None /\ wire[last].time \in Nat
    BY <2>5, LastKnown
  <2>7. ~IsStale(e, TsOf(n))
    BY <2>1, <2>4 DEF Decoded
  <2>8. /\ TsOf(n) # 0 /\ wire[n].run = wire[last].run
        /\ wire[n].time \div TsMod = wire[last].time \div TsMod
    BY <2>4
  <2> HIDE DEF n, last
  <2>9. TsOf(n) >= TsOf(last) \/ TsOf(last) - TsOf(n) >= TsHalf
    BY <2>2, <2>6, <2>7, <2>8, Constants DEF IsStale
  <2>10. wire[n].time <= wire[last].time
    BY <2>2, <2>5, <2>6, <2>8, SentBefore
  <2>11. wire[last].time - wire[n].time = TsOf(last) - TsOf(n)
    <3>1. TsOf(n) = (wire[n].time % TsMod) /\ TsOf(last) = (wire[last].time % TsMod)
      BY DEF TsOf
    <3>2. wire[last].time - wire[n].time = (wire[last].time % TsMod) - (wire[n].time % TsMod)
      BY <2>2, <2>6, <2>8, SameHour
    <3>3. QED
      BY <3>1, <3>2
  <2>12. wire[n].time = wire[last].time \/ wire[last].time - wire[n].time >= TsHalf
    BY <2>2, <2>6, <2>9, <2>10, <2>11
  <2>13. QED
    BY <2>4, <2>12 DEF last
<1>2. QED
  BY <1>1, Invariant, PTL DEF Spec, OrderWithinHour

-------------------------------------------------------------------------------
(* Freshness and rate of the broadcasts.                                   *)

\* Every step of DIS mode is of a kind BackendProofs knows.
LEMMA StepKinds ==
  ASSUME TypeOK, DataInv, Next
  PROVE  ServerNext \/ QuietStep \/ \E rows : AcceptStep(rows)
<1>1. CASE SendFrame \/ Restart
  BY <1>1
  DEF SendFrame, Restart, QuietStep, backendVars, storeVars, clockVars, tickVars, inputVars,
      historyVars
<1>2. ASSUME NEW n \in 1 .. Len(wire), NEW f \in Faults, Receive(n, f) PROVE QuietStep
  BY <1>2 DEF Receive, BeginDatagram, CountReceived, QuietStep, clockVars, tickVars, historyVars
<1>3. CASE DropMalformed \/ DropStale
  BY <1>3
  DEF DropMalformed, DropStale, DropDatagram, CountDropped, QuietStep, clockVars, tickVars,
      historyVars
<1>4. CASE Ignore
  BY <1>4 DEF Ignore, QuietStep, storeVars, clockVars, tickVars, historyVars
<1>5. CASE Decoded
  BY <1>5 DEF Decoded, ReadClock, QuietStep, storeVars, clockVars, tickVars, historyVars
<1>6. CASE ApplyPdu
  <2>1. Numbered
    BY DEF DataInv
  <2>2. AcceptStep(PacketOf(rx.n).rows)
    <3>1. /\ DOMAIN PacketOf(rx.n).rows \subseteq Ids
          /\ objects' = Upsert(objects, PacketOf(rx.n).rows, stamp)
          /\ acceptTimes' = Append(acceptTimes, stamp)
          /\ RecordAccept(PacketOf(rx.n).rows)
          /\ UNCHANGED <<stamp, clockVars, tickVars>>
      BY <1>6, <2>1, Applied
    <3>2. QED
      BY <3>1 DEF AcceptStep, clockVars
  <2>3. QED
    BY <2>2
<1>7. CASE Tick \/ TimePasses
  BY <1>7 DEF Tick, TimePasses, ServerNext
<1>8. QED
  BY <1>1, <1>2, <1>3, <1>4, <1>5, <1>6, <1>7 DEF Next, Handle

\* FreshInv and RateInv hold in DIS mode.
LEMMA FreshAndRate == Spec => [](FreshInv /\ RateInv)
<1>1. Init => FreshInv /\ RateInv
  <2> SUFFICES ASSUME Init PROVE FreshInv /\ RateInv
    OBVIOUS
  <2>1. /\ now = 0 /\ tickMono = 0 /\ stamp = 0 /\ touched = [id \in Ids |-> None]
        /\ objects = << >> /\ acceptTimes = << >> /\ acceptLog = << >>
    BY DEF Init, BackendInit, StoreInit
  <2>2. FreshInv
    BY <2>1 DEF FreshInv
  <2>3. RateInv
    BY <2>1 DEF RateInv
  <2>4. QED
    BY <2>2, <2>3
<1>2. TypeOK /\ DataInv /\ FreshInv /\ RateInv /\ [Next]_vars => (FreshInv /\ RateInv)'
  <2> SUFFICES ASSUME TypeOK, DataInv, FreshInv, RateInv, [Next]_vars
               PROVE  (FreshInv /\ RateInv)'
    OBVIOUS
  <2>1. CASE Next
    BY <2>1, StepKinds, FreshStep, RateStep
  <2>2. CASE UNCHANGED vars
    BY <2>2
    DEF FreshInv, RateInv, vars, backendVars, storeVars, clockVars, tickVars, inputVars, historyVars
  <2>3. QED
    BY <2>1, <2>2
<1>3. QED
  BY <1>1, <1>2, Invariant, PTL DEF Spec

\* A broadcast shows exactly the objects refreshed within the expiry window
\* (state_store.cpp:91-98), also when several entities share an id.
THEOREM Freshness == Spec => SnapshotFresh
<1>1. TypeOK /\ DataInv /\ FreshInv /\ [Next]_vars =>
        [Broadcast => DOMAIN published'.objects =
           {id \in Ids : touched[id] # None /\ tickMono - touched[id] <= Expiry}]_published
  <2> SUFFICES ASSUME TypeOK, DataInv, FreshInv, [Next]_vars, published' # published
               PROVE  DOMAIN published'.objects =
                 {id \in Ids : touched[id] # None /\ tickMono - touched[id] <= Expiry}
    BY DEF Broadcast
  <2>1. Next
    BY DEF vars, backendVars, tickVars
  <2>2. TakeSnapshot
    BY <2>1, StepKinds, OnlyTicksBroadcast
  <2>3. QED
    BY <2>2, FreshBroadcast
<1>2. QED
  BY <1>1, Invariant, FreshAndRate, PTL DEF Spec, SnapshotFresh

\* The rate a broadcast reports counts exactly the PDUs accepted in the window
\* (state_store.cpp:100-109).
THEOREM Rate == Spec => RateExact
<1>1. TypeOK /\ DataInv /\ FreshInv /\ RateInv /\ [Next]_vars =>
        [Broadcast => published'.rate =
           Cardinality({i \in DOMAIN acceptLog : tickMono - acceptLog[i] <= RateWindow})]_published
  <2> SUFFICES ASSUME TypeOK, DataInv, FreshInv, RateInv, [Next]_vars, published' # published
               PROVE  published'.rate =
                 Cardinality({i \in DOMAIN acceptLog : tickMono - acceptLog[i] <= RateWindow})
    BY DEF Broadcast
  <2>1. Next
    BY DEF vars, backendVars, tickVars
  <2>2. TakeSnapshot
    BY <2>1, StepKinds, OnlyTicksBroadcast
  <2>3. QED
    BY <2>2, RateBroadcast
<1>2. QED
  BY <1>1, Invariant, FreshAndRate, PTL DEF Spec, RateExact

===============================================================================

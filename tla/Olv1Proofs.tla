------------------------------ MODULE Olv1Proofs ------------------------------
(***************************************************************************)
(* Theorems about Olv1Backend for every sequence space, reordering bound,  *)
(* expiry, rate window, broadcast period and packet contents.              *)
(***************************************************************************)
EXTENDS Olv1Backend, BackendProofs

LEMMA Constants ==
  /\ Half \in Nat \ {0} /\ SeqMod = 2 * Half /\ SeqMod \in Nat \ {0}
  /\ WireSeq = 0 .. (SeqMod - 1)
  /\ None \notin Int /\ None \notin [seq : Int, val : Int]
  /\ Lag \in 1 .. Half /\ MaxSent \in Nat /\ MaxReceived \in Nat
  /\ \A n \in 1 .. MaxSent : RowsOf(n) \subseteq Ids
  /\ Period \in Nat \ {0} /\ MaxNow \in Nat \ {0}
BY StoreAssumption, BackendAssumption, Olv1Assumption DEF SeqMod, WireSeq

\* What the sender writes is a wire sequence number.
LEMMA WireSeqType == \A n \in Int : WireSeqOf(n) \in WireSeq
BY Constants DEF WireSeqOf

\* Counting keeps the counters natural numbers.
LEMMA CountType ==
  ASSUME NEW c \in {"received", "accepted", "malformed", "stale"},
         NEW st \in [received : Nat, accepted : Nat, malformed : Nat, stale : Nat]
  PROVE  [st EXCEPT ![c] = @ + 1] \in
           [received : Nat, accepted : Nat, malformed : Nat, stale : Nat]
OBVIOUS

\* The parts of the store that ServerNext leaves alone or only prunes.
LEMMA ServerType ==
  ASSUME TypeOK, ServerNext, UNCHANGED <<sent, newest>>
  PROVE  TypeOK'
<1> USE Constants
<1>1. CASE Advance
  BY <1>1 DEF TypeOK, Advance, storeVars, tickVars, inputVars, historyVars
<1>2. CASE BeginTick
  BY <1>2 DEF TypeOK, BeginTick, storeVars, clockVars, inputVars, historyVars
<1>3. CASE TakeSnapshot
  <2>1. acceptTimes' \in Seq(Nat)
    BY <1>3, LiveTimesType DEF TypeOK, TakeSnapshot, Snapshot
  <2>2. /\ DOMAIN objects' \subseteq Ids
        /\ \A id \in DOMAIN objects' : objects'[id] \in [val : Nat, at : Nat]
    BY <1>3 DEF TypeOK, TakeSnapshot, Snapshot, Unexpired
  <2>3. timerAt' \in Nat
    BY <1>3 DEF TypeOK, TakeSnapshot
  <2>4. QED
    BY <1>3, <2>1, <2>2, <2>3 DEF TypeOK, TakeSnapshot, Snapshot, inputVars, historyVars
<1>4. QED
  BY <1>1, <1>2, <1>3 DEF ServerNext

\* Applying a datagram, stale or not, keeps the types.
LEMMA ApplyType ==
  ASSUME TypeOK, ApplyPacket
  PROVE  TypeOK'
<1> USE Constants
<1>1. rx.n \in 1 .. MaxSent /\ stamp \in Nat /\ RowsOf(rx.n) \subseteq Ids
  BY DEF TypeOK, ApplyPacket
<1>2. WireSeqOf(rx.n) \in WireSeq
  <2>1. rx.n \in Int
    BY <1>1
  <2>2. QED
    BY <2>1, WireSeqType
<1>3. CASE StaleSeq(WireSeqOf(rx.n))
  <2>1. CountDropped("stale")
    BY <1>3 DEF ApplyPacket, Apply, PacketOf
  <2>2. stats' \in [received : Nat, accepted : Nat, malformed : Nat, stale : Nat]
    BY <2>1, CountType DEF TypeOK, CountDropped
  <2>3. /\ UNCHANGED <<haveSeq, lastSeq, satellite, satelliteT, lastData, objects,
                       acceptTimes, pendingTrail>>
        /\ UNCHANGED <<historyVars, newest, stamp, clockVars, tickVars, sent>>
        /\ pc' = "receive" /\ rx' = None
    BY <1>3, <2>1 DEF ApplyPacket, CountDropped
  <2>4. QED
    BY <2>2, <2>3 DEF TypeOK, historyVars, clockVars, tickVars
<1>4. CASE ~StaleSeq(WireSeqOf(rx.n))
  <2>1. /\ Merge(PacketOf(rx.n), stamp, stamp)
        /\ RecordAccept([id \in RowsOf(rx.n) |-> rx.n])
        /\ newest' = rx.n /\ pc' = "receive" /\ rx' = None
        /\ UNCHANGED <<stamp, clockVars, tickVars, sent>>
    BY <1>4 DEF ApplyPacket, Apply, PacketOf
  <2>2. /\ DOMAIN objects' \subseteq Ids
        /\ \A id \in DOMAIN objects' : objects'[id] \in [val : Nat, at : Nat]
    <3>1. objects' = [id \in DOMAIN objects \cup RowsOf(rx.n) |->
                        IF id \in RowsOf(rx.n) THEN [val |-> rx.n, at |-> stamp]
                                               ELSE objects[id]]
      BY <2>1 DEF Merge, PacketOf, Upsert
    <3>2. rx.n \in Nat
      BY <1>1
    <3>3. QED
      BY <1>1, <3>1, <3>2 DEF TypeOK
  <2>3. touched' \in [Ids -> Nat \cup {None}]
    BY <1>1, <2>1 DEF TypeOK, RecordAccept
  <2>4. acceptTimes' \in Seq(Nat) /\ acceptLog' \in Seq(Nat)
    BY <1>1, <2>1, AppendProperties DEF TypeOK, Merge, RecordAccept
  <2>5. satellite' \in [seq : WireSeq, val : Nat] /\ lastSeq' \in WireSeq
    BY <1>1, <1>2, <2>1 DEF Merge, PacketOf
  <2>6. stats' \in [received : Nat, accepted : Nat, malformed : Nat, stale : Nat]
    BY <2>1, CountType DEF TypeOK, Merge
  <2>7. /\ haveSeq' = TRUE /\ satelliteT' = None /\ lastData' = stamp
        /\ UNCHANGED pendingTrail /\ newest' \in Nat
    BY <1>1, <2>1 DEF Merge
  <2>8. QED
    BY <1>1, <2>1, <2>2, <2>3, <2>4, <2>5, <2>6, <2>7 DEF TypeOK, clockVars, tickVars
<1>5. QED
  BY <1>3, <1>4

\* Every variable of the store, the two threads and the clock keeps its type
\* (the C++ member declarations of StateStore and Olv1InputSource).
THEOREM TypeCorrect == Spec => []TypeOK
<1> USE Constants
<1>1. Init => TypeOK
  <2>1. 0 \in WireSeq /\ << >> \in Seq(Nat)
    OBVIOUS
  <2>2. [id \in Ids |-> None] \in [Ids -> Nat \cup {None}]
    OBVIOUS
  <2>3. [received |-> 0, accepted |-> 0, malformed |-> 0, stale |-> 0] \in
          [received : Nat, accepted : Nat, malformed : Nat, stale : Nat]
    OBVIOUS
  <2>4. DOMAIN << >> = {}
    OBVIOUS
  <2>5. (IF Period > MaxNow THEN MaxNow ELSE Period) \in Nat
    OBVIOUS
  <2>6. SUFFICES ASSUME Init PROVE TypeOK
    OBVIOUS
  <2>7. /\ haveSeq \in BOOLEAN /\ lastSeq \in WireSeq
        /\ satellite = None /\ satelliteT = None /\ lastData = None
        /\ DOMAIN objects = {} /\ acceptTimes \in Seq(Nat) /\ pendingTrail = << >>
    BY <2>1, <2>4, <2>6 DEF Init, BackendInit, StoreInit
  <2>8. stats \in [received : Nat, accepted : Nat, malformed : Nat, stale : Nat]
    BY <2>3, <2>6 DEF Init, BackendInit, StoreInit
  <2>9. QED
    BY <2>1, <2>2, <2>5, <2>6, <2>7, <2>8 DEF Init, TypeOK, BackendInit
<1>2. TypeOK /\ [Next]_vars => TypeOK'
  <2> SUFFICES ASSUME TypeOK, [Next]_vars PROVE TypeOK'
    OBVIOUS
  <2>1. CASE ServerNext /\ UNCHANGED <<sent, newest>>
    BY <2>1, ServerType
  <2>2. CASE Send
    BY <2>2 DEF TypeOK, Send, backendVars, storeVars, clockVars, tickVars, inputVars, historyVars
  <2>3. ASSUME NEW n \in 1 .. sent, NEW intact \in BOOLEAN, Receive(n, intact) PROVE TypeOK'
    <3>1. n \in 1 .. MaxSent
      BY DEF TypeOK
    <3>2. stats' \in [received : Nat, accepted : Nat, malformed : Nat, stale : Nat]
      BY <2>3, CountType DEF TypeOK, Receive, BeginDatagram, CountReceived
    <3>3. rx' \in [n : 1 .. MaxSent, intact : BOOLEAN] /\ pc' = "decode"
      BY <2>3, <3>1 DEF Receive, BeginDatagram
    <3>4. QED
      BY <2>3, <3>2, <3>3
      DEF TypeOK, Receive, BeginDatagram, CountReceived, clockVars, tickVars, historyVars
  <2>4. CASE DropMalformed
    <3>1. stats' \in [received : Nat, accepted : Nat, malformed : Nat, stale : Nat]
      BY <2>4, CountType DEF TypeOK, DropMalformed, DropDatagram, CountDropped
    <3>2. QED
      BY <2>4, <3>1
      DEF TypeOK, DropMalformed, DropDatagram, CountDropped, clockVars, tickVars, historyVars
  <2>5. CASE Decoded
    BY <2>5 DEF TypeOK, Decoded, ReadClock, storeVars, clockVars, tickVars, historyVars
  <2>6. CASE ApplyPacket
    BY <2>6, ApplyType
  <2>7. CASE UNCHANGED vars
    BY <2>7 DEF TypeOK, vars, backendVars, storeVars, clockVars, tickVars, inputVars, historyVars
  <2>8. QED
    BY <2>1, <2>2, <2>3, <2>4, <2>5, <2>6, <2>7 DEF Next, Handle
<1>3. QED
  BY <1>1, <1>2, PTL DEF Spec

-------------------------------------------------------------------------------
(* Freshness and rate of the broadcasts.                                   *)

\* Every step of OLV1 mode is of a kind BackendProofs knows.
LEMMA StepKinds ==
  ASSUME TypeOK, Next
  PROVE  ServerNext \/ QuietStep \/ \E rows : AcceptStep(rows)
<1>1. CASE Send
  BY <1>1 DEF Send, QuietStep, backendVars, storeVars, clockVars, tickVars, inputVars, historyVars
<1>2. ASSUME NEW n \in 1 .. sent, NEW intact \in BOOLEAN, Receive(n, intact) PROVE QuietStep
  BY <1>2 DEF Receive, BeginDatagram, CountReceived, QuietStep, clockVars, tickVars, historyVars
<1>3. CASE DropMalformed
  BY <1>3 DEF DropMalformed, DropDatagram, CountDropped, QuietStep, clockVars, tickVars, historyVars
<1>4. CASE Decoded
  BY <1>4 DEF Decoded, ReadClock, QuietStep, storeVars, clockVars, tickVars, historyVars
<1>5. CASE ApplyPacket /\ StaleSeq(WireSeqOf(rx.n))
  BY <1>5 DEF ApplyPacket, Apply, PacketOf, CountDropped, QuietStep, clockVars, tickVars, historyVars
<1>6. CASE ApplyPacket /\ ~StaleSeq(WireSeqOf(rx.n))
  <2> DEFINE rows == [id \in RowsOf(rx.n) |-> rx.n]
  <2>1. DOMAIN rows \subseteq Ids
    BY <1>6, Constants DEF ApplyPacket, TypeOK
  <2>2. AcceptStep(rows)
    BY <1>6, <2>1 DEF ApplyPacket, Apply, PacketOf, Merge, AcceptStep, clockVars, tickVars
  <2>3. QED
    BY <2>2
<1>7. QED
  BY <1>1, <1>2, <1>3, <1>4, <1>5, <1>6 DEF Next, Handle

\* FreshInv and RateInv hold in OLV1 mode.
LEMMA FreshAndRate == Spec => [](FreshInv /\ RateInv)
<1>1. Init => FreshInv /\ RateInv
  <2> SUFFICES ASSUME Init PROVE FreshInv /\ RateInv
    OBVIOUS
  <2>1. /\ now = 0 /\ tickMono = 0 /\ stamp = 0 /\ touched = [id \in Ids |-> None]
        /\ objects = << >> /\ acceptTimes = << >> /\ acceptLog = << >>
    BY DEF Init, BackendInit, StoreInit
  <2>2. FreshInv
    BY <2>1 DEF FreshInv
  <2>3. RateInv
    BY <2>1 DEF RateInv
  <2>4. QED
    BY <2>2, <2>3
<1>2. TypeOK /\ FreshInv /\ RateInv /\ [Next]_vars => (FreshInv /\ RateInv)'
  <2> SUFFICES ASSUME TypeOK, FreshInv, RateInv, [Next]_vars PROVE (FreshInv /\ RateInv)'
    OBVIOUS
  <2>1. CASE Next
    BY <2>1, StepKinds, FreshStep, RateStep
  <2>2. CASE UNCHANGED vars
    BY <2>2 DEF FreshInv, RateInv, vars, backendVars, storeVars, clockVars, tickVars, inputVars, historyVars
  <2>3. QED
    BY <2>1, <2>2
<1>3. QED
  BY <1>1, <1>2, TypeCorrect, PTL DEF Spec

\* A broadcast shows exactly the objects refreshed within the expiry window
\* (state_store.cpp:91-98), for any schedule of the two threads.
THEOREM Freshness == Spec => SnapshotFresh
<1>1. TypeOK /\ FreshInv /\ [Next]_vars =>
        [Broadcast => DOMAIN published'.objects =
           {id \in Ids : touched[id] # None /\ tickMono - touched[id] <= Expiry}]_published
  <2> SUFFICES ASSUME TypeOK, FreshInv, [Next]_vars, published' # published
               PROVE  DOMAIN published'.objects =
                 {id \in Ids : touched[id] # None /\ tickMono - touched[id] <= Expiry}
    BY DEF Broadcast
  <2>1. Next
    BY DEF vars, backendVars, tickVars
  <2>2. TakeSnapshot
    BY <2>1, StepKinds, OnlyTicksBroadcast
  <2>3. QED
    BY <2>2, FreshBroadcast
<1>2. QED
  BY <1>1, TypeCorrect, FreshAndRate, PTL DEF Spec, SnapshotFresh

\* The rate a broadcast reports counts exactly the datagrams accepted in the
\* window (state_store.cpp:100-109).
THEOREM Rate == Spec => RateExact
<1>1. TypeOK /\ FreshInv /\ RateInv /\ [Next]_vars =>
        [Broadcast => published'.rate =
           Cardinality({i \in DOMAIN acceptLog : tickMono - acceptLog[i] <= RateWindow})]_published
  <2> SUFFICES ASSUME TypeOK, FreshInv, RateInv, [Next]_vars, published' # published
               PROVE  published'.rate =
                 Cardinality({i \in DOMAIN acceptLog : tickMono - acceptLog[i] <= RateWindow})
    BY DEF Broadcast
  <2>1. Next
    BY DEF vars, backendVars, tickVars
  <2>2. TakeSnapshot
    BY <2>1, StepKinds, OnlyTicksBroadcast
  <2>3. QED
    BY <2>2, RateBroadcast
<1>2. QED
  BY <1>1, TypeCorrect, FreshAndRate, PTL DEF Spec, RateExact

-------------------------------------------------------------------------------
(* Counters.                                                               *)

\* No datagram is lost to the counters: received splits exactly into the
\* outcomes and the datagram in hand (olv1_input_source.cpp:53-76).
THEOREM Balanced == Spec => []StatsBalanced
<1>1. Init => StatsBalanced
  BY DEF Init, BackendInit, StoreInit, StatsBalanced
<1>2. TypeOK /\ StatsBalanced /\ [Next]_vars => StatsBalanced'
  <2> SUFFICES ASSUME TypeOK, StatsBalanced, [Next]_vars PROVE StatsBalanced'
    OBVIOUS
  <2>0. /\ stats \in [received : Nat, accepted : Nat, malformed : Nat, stale : Nat]
        /\ stats.received = stats.accepted + stats.malformed + stats.stale
                            + (IF pc = "receive" THEN 0 ELSE 1)
    BY DEF TypeOK, StatsBalanced
  <2>1. CASE ServerNext
    BY <2>1 DEF StatsBalanced, ServerNext, Advance, BeginTick, TakeSnapshot, Snapshot,
                storeVars, inputVars
  <2>2. CASE Send
    BY <2>2 DEF StatsBalanced, Send, backendVars, storeVars, inputVars
  <2>3. ASSUME NEW n \in 1 .. sent, NEW intact \in BOOLEAN, Receive(n, intact) PROVE StatsBalanced'
    BY <2>0, <2>3 DEF StatsBalanced, Receive, BeginDatagram, CountReceived
  <2>4. CASE DropMalformed
    BY <2>0, <2>4 DEF StatsBalanced, DropMalformed, DropDatagram, CountDropped
  <2>5. CASE Decoded
    BY <2>5 DEF StatsBalanced, Decoded, ReadClock, storeVars
  <2>6. CASE ApplyPacket
    <3>1. pc = "apply" /\ pc' = "receive"
      BY <2>6 DEF ApplyPacket
    <3>2. \/ stats' = [stats EXCEPT !.stale = @ + 1]
          \/ stats' = [stats EXCEPT !.accepted = @ + 1]
      BY <2>6 DEF ApplyPacket, Apply, CountDropped, Merge
    <3>3. QED
      BY <2>0, <3>1, <3>2 DEF StatsBalanced
  <2>7. CASE UNCHANGED vars
    BY <2>7 DEF StatsBalanced, vars, backendVars, storeVars, inputVars
  <2>8. QED
    BY <2>1, <2>2, <2>3, <2>4, <2>5, <2>6, <2>7 DEF Next, Handle
<1>3. QED
  BY <1>1, <1>2, TypeCorrect, PTL DEF Spec

-------------------------------------------------------------------------------
(* Order of acceptance.                                                    *)

\* The wraparound test on two datagrams' wire numbers, in terms of the
\* datagrams: SerialOrder at the sender's numbering.
LEMMA WireOrder ==
  ASSUME NEW n \in Int, NEW m \in Int
  PROVE  /\ m < n /\ n - m < Half => ~NotNewer(WireSeqOf(n), WireSeqOf(m))
         /\ n <= m /\ m - n <= Half => NotNewer(WireSeqOf(n), WireSeqOf(m))
<1>1. n - 1 \in Int /\ m - 1 \in Int
  OBVIOUS
<1>2. /\ m - 1 < n - 1 /\ (n - 1) - (m - 1) < Half => ~NotNewer(WireSeqOf(n), WireSeqOf(m))
      /\ n - 1 <= m - 1 /\ (m - 1) - (n - 1) <= Half => NotNewer(WireSeqOf(n), WireSeqOf(m))
  BY <1>1, SerialOrder DEF WireSeqOf
<1>3. (n - 1) - (m - 1) = n - m /\ (m - 1) - (n - 1) = m - n
  OBVIOUS
<1>4. QED
  BY <1>2, <1>3, Constants

\* A datagram that passes the test was sent after the last one accepted.
LEMMA AcceptedIsNewer ==
  ASSUME TypeOK, OrderInv, ApplyPacket, ~StaleSeq(WireSeqOf(rx.n))
  PROVE  rx.n > newest /\ rx.n <= sent /\ rx.n \in Nat \ {0} /\ newest' = rx.n
<1>1. /\ rx.n \in 1 .. MaxSent /\ newest \in Nat /\ MaxSent \in Nat /\ sent \in Nat
      /\ rx.n <= sent /\ newest - rx.n < Lag /\ Lag \in 1 .. Half /\ Half \in Nat
      /\ newest' = rx.n
  BY Constants DEF TypeOK, OrderInv, ApplyPacket
<1>2. CASE newest = 0
  BY <1>1, <1>2
<1>3. CASE newest # 0
  <2>1. ~NotNewer(WireSeqOf(rx.n), WireSeqOf(newest))
    BY <1>3 DEF StaleSeq, OrderInv
  <2>2. ~(rx.n <= newest /\ newest - rx.n <= Half)
    BY <1>1, <2>1, WireOrder
  <2>3. QED
    BY <1>1, <2>2
<1>4. QED
  BY <1>2, <1>3

\* What a merge does to the parts OrderInv speaks of.
LEMMA OrderMerge ==
  ASSUME TypeOK, OrderInv, ApplyPacket, ~StaleSeq(WireSeqOf(rx.n))
  PROVE  OrderInv'
<1>1. rx.n > newest /\ rx.n <= sent /\ rx.n \in Nat \ {0} /\ newest' = rx.n /\ newest \in Nat
  BY AcceptedIsNewer DEF TypeOK
<1>2. /\ haveSeq' = TRUE /\ lastSeq' = WireSeqOf(rx.n) /\ pc' = "receive" /\ sent' = sent
      /\ satellite' = [seq |-> WireSeqOf(rx.n), val |-> rx.n]
      /\ objects' = [id \in DOMAIN objects \cup RowsOf(rx.n) |->
                       IF id \in RowsOf(rx.n) THEN [val |-> rx.n, at |-> stamp]
                                              ELSE objects[id]]
  BY DEF ApplyPacket, Apply, Merge, PacketOf, Upsert
<1>3. satellite' # None
  <2>1. WireSeqOf(rx.n) \in Int
    BY <1>1, Constants DEF WireSeqOf
  <2>2. satellite' \in [seq : Int, val : Int]
    BY <1>1, <1>2, <2>1
  <2>3. QED
    BY <2>2, Constants
<1>4. ASSUME NEW id \in DOMAIN objects'
      PROVE  objects'[id].val <= rx.n /\ (id \in RowsOf(rx.n) => objects'[id].val = rx.n)
  <2>1. CASE id \in RowsOf(rx.n)
    BY <1>1, <1>2, <2>1
  <2>2. CASE id \notin RowsOf(rx.n)
    <3>1. id \in DOMAIN objects /\ objects'[id] = objects[id]
      BY <1>2, <1>4, <2>2
    <3>2. objects[id].val \in Nat /\ objects[id].val <= newest
      BY <3>1 DEF TypeOK, OrderInv
    <3>3. QED
      BY <1>1, <2>2, <3>1, <3>2
  <2>3. QED
    BY <2>1, <2>2
<1>5. QED
  BY <1>1, <1>2, <1>3, <1>4 DEF OrderInv

\* OrderInv is inductive.
LEMMA Ordered == Spec => []OrderInv
<1>1. Init => OrderInv
  BY DEF Init, BackendInit, StoreInit, OrderInv
<1>2. TypeOK /\ OrderInv /\ [Next]_vars => OrderInv'
  <2> SUFFICES ASSUME TypeOK, OrderInv, [Next]_vars PROVE OrderInv'
    OBVIOUS
  <2>0. newest \in Nat /\ sent \in Nat /\ Lag \in Nat \ {0}
    BY SMTT(30), Constants DEF TypeOK
  <2>1. CASE (Advance \/ BeginTick) /\ UNCHANGED <<sent, newest>>
    BY <2>1 DEF OrderInv, Advance, BeginTick, storeVars, inputVars
  <2>2. CASE TakeSnapshot /\ UNCHANGED <<sent, newest>>
    BY <2>2 DEF OrderInv, TakeSnapshot, Snapshot, Unexpired, inputVars
  <2>3. CASE Send
    <3>1. /\ sent' = sent + 1
          /\ UNCHANGED <<newest, haveSeq, lastSeq, satellite, objects, pc, rx>>
      BY <2>3 DEF Send, backendVars, storeVars, inputVars
    <3>2. pc # "receive" => rx.n \in Nat
      BY Constants DEF TypeOK
    <3>3. QED
      BY <2>0, <3>1, <3>2 DEF OrderInv
  <2>4. ASSUME NEW n \in 1 .. sent, NEW intact \in BOOLEAN, Receive(n, intact) PROVE OrderInv'
    <3>1. /\ n > sent - Lag /\ rx' = [n |-> n, intact |-> intact]
          /\ UNCHANGED <<sent, newest, haveSeq, lastSeq, satellite, objects>>
      BY <2>4 DEF Receive, BeginDatagram, CountReceived
    <3>2. rx'.n <= sent /\ newest - rx'.n < Lag
      BY <2>0, <3>1 DEF OrderInv
    <3>3. QED
      BY <3>1, <3>2 DEF OrderInv
  <2>5. CASE DropMalformed
    BY <2>5 DEF OrderInv, DropMalformed, DropDatagram, CountDropped
  <2>6. CASE Decoded
    BY <2>6 DEF OrderInv, Decoded, ReadClock, storeVars
  <2>7. CASE ApplyPacket /\ StaleSeq(WireSeqOf(rx.n))
    BY <2>7 DEF OrderInv, ApplyPacket, Apply, PacketOf, CountDropped
  <2>8. CASE ApplyPacket /\ ~StaleSeq(WireSeqOf(rx.n))
    BY <2>8, OrderMerge
  <2>9. CASE UNCHANGED vars
    BY <2>9 DEF OrderInv, vars, backendVars, storeVars, inputVars
  <2>10. QED
    BY <2>1, <2>2, <2>3, <2>4, <2>5, <2>6, <2>7, <2>8, <2>9 DEF Next, ServerNext, Handle
<1>3. QED
  BY <1>1, <1>2, TypeCorrect, PTL DEF Spec

\* Which steps touch newest and the stale counter.
LEMMA ApplyOnly ==
  ASSUME TypeOK, [Next]_vars
  PROVE  /\ newest' # newest => ApplyPacket /\ ~StaleSeq(WireSeqOf(rx.n))
         /\ stats'.stale # stats.stale => ApplyPacket /\ StaleSeq(WireSeqOf(rx.n))
<1>0. stats \in [received : Nat, accepted : Nat, malformed : Nat, stale : Nat]
  BY DEF TypeOK
<1>1. CASE ServerNext /\ UNCHANGED <<sent, newest>>
  BY <1>1 DEF ServerNext, Advance, BeginTick, TakeSnapshot, Snapshot, storeVars
<1>2. CASE Send
  BY <1>2 DEF Send, backendVars, storeVars
<1>3. ASSUME NEW n \in 1 .. sent, NEW intact \in BOOLEAN, Receive(n, intact)
      PROVE  newest' = newest /\ stats'.stale = stats.stale
  BY <1>0, <1>3 DEF Receive, BeginDatagram, CountReceived
<1>4. CASE DropMalformed
  BY <1>0, <1>4 DEF DropMalformed, DropDatagram, CountDropped
<1>5. CASE Decoded
  BY <1>5 DEF Decoded, ReadClock, storeVars
<1>6. CASE ApplyPacket
  BY <1>0, <1>6 DEF ApplyPacket, Apply, Merge, PacketOf
<1>7. CASE UNCHANGED vars
  BY <1>7 DEF vars, backendVars, storeVars
<1>8. QED
  BY <1>1, <1>2, <1>3, <1>4, <1>5, <1>6, <1>7 DEF Next, Handle

\* Datagrams are accepted in sending order for every sequence space at least
\* twice the reordering bound (state_store.cpp:38-41).
THEOREM InOrder == Spec => AcceptInOrder
<1>1. TypeOK /\ OrderInv /\ [Next]_vars => [newest' # newest => newest' > newest]_newest
  <2> SUFFICES ASSUME TypeOK, OrderInv, [Next]_vars, newest' # newest PROVE newest' > newest
    OBVIOUS
  <2>1. ApplyPacket /\ ~StaleSeq(WireSeqOf(rx.n))
    BY ApplyOnly
  <2>2. QED
    BY <2>1, AcceptedIsNewer
<1>2. QED
  BY <1>1, TypeCorrect, Ordered, PTL DEF Spec, AcceptInOrder

\* No datagram is called stale that is newer than the last one accepted, unless
\* half the sequence space was lost between them.
THEOREM Justified == Spec => StaleJustified
<1>1. TypeOK /\ OrderInv /\ [Next]_vars =>
        [stats'.stale # stats.stale => rx.n <= newest \/ rx.n - newest >= Half]_stats
  <2> SUFFICES ASSUME TypeOK, OrderInv, [Next]_vars, stats'.stale # stats.stale
               PROVE  rx.n <= newest \/ rx.n - newest >= Half
    OBVIOUS
  <2>1. ApplyPacket /\ StaleSeq(WireSeqOf(rx.n))
    BY ApplyOnly
  <2>2. rx.n \in Int /\ newest \in Int /\ Half \in Int
    BY <2>1, Constants DEF TypeOK, ApplyPacket
  <2>3. NotNewer(WireSeqOf(rx.n), WireSeqOf(newest))
    BY <2>1 DEF StaleSeq, OrderInv
  <2>4. ~(newest < rx.n /\ rx.n - newest < Half)
    BY <2>2, <2>3, WireOrder
  <2>5. QED
    BY <2>2, <2>4
<1>2. QED
  BY <1>1, TypeCorrect, Ordered, PTL DEF Spec, StaleJustified

-------------------------------------------------------------------------------
(* What clients see.                                                       *)

\* What a tick publishes, and that no other step publishes anything.
LEMMA Publishing ==
  ASSUME TypeOK, [Next]_vars
  PROVE  \/ published' = published
         \/ /\ TakeSnapshot
            /\ published'.satellite = satellite
            /\ published'.objects = [id \in Unexpired(tickMono) |-> objects[id].val]
            /\ UNCHANGED newest
<1>1. CASE Next /\ published' # published
  <2>1. TakeSnapshot
    BY <1>1, StepKinds, OnlyTicksBroadcast
  <2>2. newest' = newest
    BY <2>1, ApplyOnly DEF TakeSnapshot, ApplyPacket, tickVars
  <2>3. QED
    BY <2>1, <2>2 DEF TakeSnapshot, SnapshotAt
<1>2. CASE UNCHANGED vars
  BY <1>2 DEF vars, backendVars, tickVars
<1>3. QED
  BY <1>1, <1>2

\* A broadcast never mixes two states of the world (state_store.cpp:42-59
\* merges a packet under one lock, snapshot() copies under the same lock).
THEOREM OneState == Spec => []PublishedIsOneState
<1>1. Init => PublishedIsOneState
  BY DEF Init, BackendInit, StoreInit, SnapshotAt, PublishedIsOneState
<1>2. TypeOK /\ OrderInv /\ PublishedIsOneState /\ [Next]_vars => PublishedIsOneState'
  <2> SUFFICES ASSUME TypeOK, OrderInv, PublishedIsOneState, [Next]_vars,
                      published'.satellite # None,
                      NEW id \in DOMAIN published'.objects
               PROVE  /\ published'.objects[id] <= published'.satellite.val
                      /\ id \in RowsOf(published'.satellite.val) =>
                           published'.objects[id] = published'.satellite.val
    BY DEF PublishedIsOneState
  <2>1. CASE published' = published
    BY <2>1 DEF PublishedIsOneState
  <2>2. CASE /\ published'.satellite = satellite
             /\ published'.objects = [i \in Unexpired(tickMono) |-> objects[i].val]
    <3>1. id \in DOMAIN objects /\ published'.objects[id] = objects[id].val
      BY <2>2 DEF Unexpired
    <3>2. published'.satellite.val = newest
      BY <2>2 DEF OrderInv
    <3>3. QED
      BY <3>1, <3>2 DEF OrderInv
  <2>3. QED
    BY <2>1, <2>2, Publishing
<1>3. QED
  BY <1>1, <1>2, TypeCorrect, Ordered, PTL DEF Spec

\* The satellite clients see implements LatestFeed, safety part.
THEOREM FeedRefinement == Spec => FeedSafe
<1>1. Init => Feed!Init
  BY DEF Init, BackendInit, StoreInit, SnapshotAt, Feed!Init, shownIndex
<1>2. TypeOK /\ OrderInv /\ [Next]_vars => [Feed!Next]_(Feed!feedVars)
  <2> SUFFICES ASSUME TypeOK, OrderInv, [Next]_vars PROVE Feed!Next \/ UNCHANGED <<newest, shownIndex>>
    BY DEF Feed!feedVars
  <2>1. CASE published' = published
    <3>1. shownIndex' = shownIndex
      BY <2>1 DEF shownIndex
    <3>2. newest' # newest => newest' > newest /\ newest' \in Nat
      BY ApplyOnly, AcceptedIsNewer
    <3>3. QED
      BY <3>1, <3>2 DEF Feed!Next, Feed!Accept
  <2>2. CASE TakeSnapshot /\ published'.satellite = satellite /\ UNCHANGED newest
    <3>1. shownIndex' = newest
      BY <2>2 DEF shownIndex, OrderInv
    <3>2. QED
      BY <2>2, <3>1 DEF Feed!Next, Feed!Show
  <2>3. QED
    BY <2>1, <2>2, Publishing
<1>3. QED
  BY <1>1, <1>2, TypeCorrect, Ordered, PTL DEF Spec, FeedSafe, Feed!SafeSpec

===============================================================================

---------------------------- MODULE BackendProofs ----------------------------
(***************************************************************************)
(* Facts about the store and the broadcast thread that hold in every input *)
(* mode: the wraparound test, the front-pop of the rate window, and what   *)
(* keeps a snapshot fresh.                                                 *)
(***************************************************************************)
EXTENDS Backend, TLAPS, SequenceTheorems, FiniteSetTheorems,
        NaturalsInduction, WellFoundedInduction

-------------------------------------------------------------------------------
(* Sequence numbers.                                                       *)

\* Reducing the operands first does not change a difference modulo K
\* (u32 subtraction in state_store.cpp:38).
LEMMA ModDifference ==
  ASSUME NEW K \in Nat \ {0}, NEW n \in Int, NEW m \in Int
  PROVE  ((n % K) - (m % K)) % K = (n - m) % K
<1> DEFINE q == n \div K
           p == m \div K
           s == (n - m) \div K
           t == (n - m) % K
<1>1. /\ n = K*q + (n % K) /\ q \in Int /\ (n % K) \in Int
      /\ m = K*p + (m % K) /\ p \in Int /\ (m % K) \in Int
  OBVIOUS
<1>2. n - m = K*s + t /\ s \in Int /\ t \in 0 .. K-1
  OBVIOUS
<1>3. (n % K) - (m % K) = K*(s - q + p) + t
  BY <1>1, <1>2
<1>4. \A x \in Int, r \in 0 .. K-1 : (K*x + r) % K = r
  OBVIOUS
<1>5. s - q + p \in Int
  BY <1>1, <1>2
<1> HIDE DEF q, p, s, t
<1>6. (K*(s - q + p) + t) % K = t
  BY <1>2, <1>4, <1>5
<1>7. QED
  BY <1>3, <1>6 DEF t

\* The remainder of a difference smaller than the modulus.
LEMMA ModSmall ==
  ASSUME NEW K \in Nat \ {0}, NEW d \in Int
  PROVE  /\ d \in 0 .. K-1 => d % K = d
         /\ d \in (1-K) .. -1 => d % K = d + K
OBVIOUS

\* The int32 test of StateStore::apply orders two numbered packets correctly
\* as long as they are less than half the sequence space apart.
LEMMA SerialOrder ==
  ASSUME NEW n \in Int, NEW m \in Int
  PROVE  /\ m < n /\ n - m < Half => ~NotNewer(n % SeqMod, m % SeqMod)
         /\ n <= m /\ m - n <= Half => NotNewer(n % SeqMod, m % SeqMod)
<1>1. SeqMod \in Nat \ {0} /\ SeqMod = 2 * Half /\ Half \in Nat \ {0}
  BY StoreAssumption DEF SeqMod
<1>2. ((n % SeqMod) - (m % SeqMod)) % SeqMod = (n - m) % SeqMod
  BY <1>1, ModDifference
<1>3. /\ n - m \in 0 .. SeqMod-1 => (n - m) % SeqMod = n - m
      /\ n - m \in (1-SeqMod) .. -1 => (n - m) % SeqMod = n - m + SeqMod
  BY <1>1, ModSmall
<1>4. QED
  BY <1>1, <1>2, <1>3 DEF NotNewer

-------------------------------------------------------------------------------
(* The rate window.                                                        *)

\* A non-empty set of naturals has a least element.
LEMMA LeastElement ==
  ASSUME NEW T \in SUBSET Nat, T # {}
  PROVE  \E x \in T : \A y \in T : x <= y
<1>1. PICK x \in T : \A y \in T : ~(<<y, x>> \in OpToRel(<, Nat))
  BY NatLessThanWellFounded, WFMin, Zenon
<1>2. \A y \in T : ~(y < x)
  BY <1>1 DEF OpToRel
<1>3. QED
  BY <1>2

\* The loop that pops accept_times_ stops, and where.
LEMMA LiveTimesSuffix ==
  ASSUME acceptTimes \in Seq(Nat), NEW mono \in Nat
  PROVE  \E k \in 1 .. (Len(acceptTimes) + 1) :
           /\ LiveTimes(mono) = SubSeq(acceptTimes, k, Len(acceptTimes))
           /\ \A j \in 1 .. (k - 1) : mono - acceptTimes[j] > RateWindow
           /\ k <= Len(acceptTimes) => mono - acceptTimes[k] <= RateWindow
<1> DEFINE L == Len(acceptTimes)
           Stop(i) == /\ \A j \in 1 .. (i - 1) : mono - acceptTimes[j] > RateWindow
                      /\ i <= L => mono - acceptTimes[i] <= RateWindow
           G == {i \in 1 .. L : mono - acceptTimes[i] <= RateWindow}
<1>1. L \in Nat /\ \A i \in 1 .. L : acceptTimes[i] \in Nat
  BY LenProperties, ElementOfSeq
<1>2. \E i \in 1 .. (L + 1) : Stop(i)
  <2>1. CASE G = {}
    <3>1. Stop(L + 1)
      BY <1>1, <2>1, StoreAssumption
    <3>2. QED
      BY <1>1, <3>1
  <2>2. CASE G # {}
    <3>0. G \in SUBSET Nat
      BY <1>1
    <3>1. PICK x \in G : \A y \in G : x <= y
      <4> HIDE DEF G
      <4>1. QED
        BY <2>2, <3>0, LeastElement
    <3>2. Stop(x)
      BY SMTT(30), <1>1, <3>1, StoreAssumption
    <3>3. QED
      BY SMTT(30), <1>1, <3>1, <3>2
  <2>3. QED
    BY <2>1, <2>2
<1> DEFINE k == CHOOSE i \in 1 .. (L + 1) : Stop(i)
<1>3. k \in 1 .. (L + 1) /\ Stop(k)
  BY <1>2, Zenon
<1>4. LiveTimes(mono) = SubSeq(acceptTimes, k, L)
  BY DEF LiveTimes
<1>5. QED
  BY <1>3, <1>4, Zenon

\* Snapshots keep accept_times_ a sequence of stamps.
LEMMA LiveTimesType ==
  ASSUME acceptTimes \in Seq(Nat), NEW mono \in Nat
  PROVE  LiveTimes(mono) \in Seq(Nat)
<1>1. PICK k \in 1 .. (Len(acceptTimes) + 1) :
        LiveTimes(mono) = SubSeq(acceptTimes, k, Len(acceptTimes))
  BY LiveTimesSuffix
<1>2. Len(acceptTimes) \in Nat /\ \A i \in 1 .. Len(acceptTimes) : acceptTimes[i] \in Nat
  BY LenProperties, ElementOfSeq
<1>3. SubSeq(acceptTimes, k, Len(acceptTimes)) \in Seq(Nat)
  BY <1>2, SubSeqProperties
<1>4. QED
  BY <1>1, <1>3

-------------------------------------------------------------------------------
(* How any input mode may change what snapshots are made of.               *)

\* A step of the input thread that applies nothing.
QuietStep ==
  /\ UNCHANGED <<objects, acceptTimes, touched, acceptLog, now, tickVars>>
  /\ stamp' = stamp \/ stamp' = now

\* A step that applies a datagram with these rows.
AcceptStep(rows) ==
  /\ DOMAIN rows \subseteq Ids
  /\ objects' = Upsert(objects, rows, stamp)
  /\ acceptTimes' = Append(acceptTimes, stamp)
  /\ RecordAccept(rows)
  /\ UNCHANGED <<now, stamp, tickVars>>

\* FreshInv is inductive for every mode whose steps are of these kinds.
LEMMA FreshStep ==
  ASSUME FreshInv, ServerNext \/ QuietStep \/ \E rows : AcceptStep(rows)
  PROVE  FreshInv'
<1> USE StoreAssumption, BackendAssumption
<1>1. CASE Advance
  BY <1>1 DEF FreshInv, Advance, storeVars, tickVars, inputVars, historyVars
<1>2. CASE BeginTick
  BY <1>2 DEF FreshInv, BeginTick, storeVars, clockVars, inputVars, historyVars
<1>3. CASE TakeSnapshot
  BY <1>3 DEF FreshInv, TakeSnapshot, Snapshot, Unexpired, inputVars, historyVars
<1>4. CASE QuietStep
  BY <1>4 DEF FreshInv, QuietStep, tickVars
<1>5. ASSUME NEW rows, AcceptStep(rows) PROVE FreshInv'
  <2>1. /\ now' = now /\ tickMono' = tickMono /\ stamp' = stamp
        /\ DOMAIN rows \subseteq Ids
        /\ touched' = [id \in Ids |-> IF id \in DOMAIN rows THEN stamp ELSE touched[id]]
        /\ objects' = [id \in DOMAIN objects \cup DOMAIN rows |->
                         IF id \in DOMAIN rows THEN [val |-> rows[id], at |-> stamp]
                                               ELSE objects[id]]
    BY <1>5 DEF AcceptStep, RecordAccept, Upsert, tickVars
  <2>2. QED
    BY <2>1 DEF FreshInv
<1>6. QED
  BY <1>1, <1>2, <1>3, <1>4, <1>5 DEF ServerNext

\* What a tick broadcasts, given FreshInv.
LEMMA FreshBroadcast ==
  ASSUME FreshInv, TakeSnapshot
  PROVE  DOMAIN published'.objects =
           {id \in Ids : touched[id] # None /\ tickMono - touched[id] <= Expiry}
<1>1. DOMAIN published'.objects = Unexpired(tickMono)
  BY DEF TakeSnapshot, SnapshotAt
<1>2. QED
  BY <1>1, StoreAssumption DEF FreshInv, Unexpired

\* Only a tick changes what is published.
LEMMA OnlyTicksBroadcast ==
  ASSUME ServerNext \/ QuietStep \/ \E rows : AcceptStep(rows), published' # published
  PROVE  TakeSnapshot
BY DEF ServerNext, Advance, BeginTick, QuietStep, AcceptStep, tickVars

-------------------------------------------------------------------------------
(* The rate.                                                               *)

\* RateInv is inductive for the same kinds of steps.
LEMMA RateStep ==
  ASSUME FreshInv, RateInv, ServerNext \/ QuietStep \/ \E rows : AcceptStep(rows)
  PROVE  RateInv'
<1> DEFINE log == acceptLog
           Suffix(k) ==
             /\ Len(acceptTimes) = Len(log) - k
             /\ \A i \in 1 .. Len(acceptTimes) : acceptTimes[i] = log[i + k]
             /\ \A i \in 1 .. k : tickMono - log[i] > RateWindow
<1>0. /\ now \in Nat /\ tickMono \in Nat /\ tickMono <= now /\ stamp \in Nat /\ stamp <= now
      /\ RateWindow \in Nat
  BY StoreAssumption DEF FreshInv
<1>1. PICK k \in 0 .. Len(log) : Suffix(k)
  BY DEF RateInv
<1>2. /\ Len(log) \in Nat /\ \A i \in 1 .. Len(log) : log[i] \in Nat
      /\ Len(acceptTimes) \in Nat /\ \A i \in 1 .. Len(acceptTimes) : acceptTimes[i] \in Nat
  BY LenProperties, ElementOfSeq DEF RateInv
<1>3. CASE Advance \/ QuietStep
  <2>1. UNCHANGED <<acceptLog, acceptTimes, tickMono>> /\ stamp' >= stamp
    BY <1>0, <1>3 DEF Advance, QuietStep, storeVars, tickVars, inputVars, historyVars
  <2>2. stamp' \in Nat
    BY <1>0, <1>3 DEF Advance, QuietStep, inputVars
  <2>3. \A i \in 1 .. Len(log) : log[i] <= stamp'
    <3>1. TAKE i \in 1 .. Len(log)
    <3>2. log[i] \in Nat /\ log[i] <= stamp
      BY <1>2 DEF RateInv
    <3>3. QED
      BY <1>0, <2>1, <2>2, <3>2
  <2>4. QED
    BY <1>1, <2>1, <2>3 DEF RateInv
<1>4. CASE BeginTick
  <2>1. UNCHANGED <<acceptLog, acceptTimes, stamp>> /\ tickMono' = now
    BY <1>4 DEF BeginTick, storeVars, inputVars, historyVars
  <2>2. \A i \in 1 .. k : tickMono' - log[i] > RateWindow
    <3>1. TAKE i \in 1 .. k
    <3>2. log[i] \in Nat /\ tickMono - log[i] > RateWindow
      BY <1>1, <1>2
    <3>3. QED
      BY <1>0, <2>1, <3>2
  <2>3. QED
    BY <1>1, <2>1, <2>2 DEF RateInv
<1>5. CASE TakeSnapshot
  <2>1. UNCHANGED <<acceptLog, stamp, tickMono>> /\ acceptTimes' = LiveTimes(tickMono)
    BY <1>5 DEF TakeSnapshot, Snapshot, inputVars, historyVars
  <2>2. PICK m \in 1 .. (Len(acceptTimes) + 1) :
          /\ LiveTimes(tickMono) = SubSeq(acceptTimes, m, Len(acceptTimes))
          /\ \A j \in 1 .. (m - 1) : tickMono - acceptTimes[j] > RateWindow
    BY <1>0, LiveTimesSuffix DEF RateInv
  <2>3. /\ acceptTimes' \in Seq(Nat)
        /\ Len(acceptTimes') = Len(acceptTimes) - m + 1
        /\ \A i \in 1 .. Len(acceptTimes') : acceptTimes'[i] = acceptTimes[m + i - 1]
    BY <1>2, <2>1, <2>2, SubSeqProperties
  <2>4. k + m - 1 \in 0 .. Len(log) /\ Len(acceptTimes') = Len(log) - (k + m - 1)
    BY <1>1, <1>2, <2>2, <2>3
  <2>5. \A i \in 1 .. Len(acceptTimes') : acceptTimes'[i] = log[i + (k + m - 1)]
    <3>1. TAKE i \in 1 .. Len(acceptTimes')
    <3>2. m + i - 1 \in 1 .. Len(acceptTimes) /\ acceptTimes'[i] = acceptTimes[m + i - 1]
      BY <1>2, <2>2, <2>3
    <3>3. acceptTimes[m + i - 1] = log[(m + i - 1) + k]
      BY <1>1, <3>2
    <3>4. (m + i - 1) + k = i + (k + m - 1)
      BY <1>1, <2>2
    <3>5. QED
      BY <3>2, <3>3, <3>4
  <2>6. \A i \in 1 .. (k + m - 1) : tickMono - log[i] > RateWindow
    <3>1. ASSUME NEW i \in 1 .. (k + m - 1), i > k PROVE tickMono - log[i] > RateWindow
      <4>1. i - k \in 1 .. (m - 1) /\ i - k \in 1 .. Len(acceptTimes) /\ log[i] = acceptTimes[i - k]
        BY <1>1, <1>2, <2>2, <3>1
      <4>2. QED
        BY <2>2, <4>1
    <3>2. QED
      BY <1>1, <1>2, <3>1
  <2>7. QED
    BY <2>1, <2>3, <2>4, <2>5, <2>6 DEF RateInv
<1>6. ASSUME NEW rows, AcceptStep(rows) PROVE RateInv'
  <2>1. /\ acceptTimes' = Append(acceptTimes, stamp) /\ acceptLog' = Append(acceptLog, stamp)
        /\ stamp' = stamp /\ tickMono' = tickMono
    BY <1>6 DEF AcceptStep, RecordAccept, tickVars
  <2>2. /\ acceptTimes' \in Seq(Nat) /\ Len(acceptTimes') = Len(acceptTimes) + 1
        /\ \A i \in 1 .. Len(acceptTimes) : acceptTimes'[i] = acceptTimes[i]
        /\ acceptTimes'[Len(acceptTimes) + 1] = stamp
    BY <1>0, <2>1, AppendProperties DEF RateInv
  <2>3. /\ acceptLog' \in Seq(Nat) /\ Len(acceptLog') = Len(log) + 1
        /\ \A i \in 1 .. Len(log) : acceptLog'[i] = log[i]
        /\ acceptLog'[Len(log) + 1] = stamp
    BY <1>0, <2>1, AppendProperties DEF RateInv
  <2>4. /\ \A i, j \in 1 .. Len(acceptLog') : i <= j => acceptLog'[i] <= acceptLog'[j]
        /\ \A i \in 1 .. Len(acceptLog') : acceptLog'[i] <= stamp'
    BY <1>0, <1>2, <2>1, <2>3 DEF RateInv
  <2>5. k \in 0 .. Len(acceptLog') /\ Len(acceptTimes') = Len(acceptLog') - k
    BY <1>1, <1>2, <2>2, <2>3
  <2>6. \A i \in 1 .. Len(acceptTimes') : acceptTimes'[i] = acceptLog'[i + k]
    <3>1. TAKE i \in 1 .. Len(acceptTimes')
    <3>2. CASE i \in 1 .. Len(acceptTimes)
      <4>1. i + k \in 1 .. Len(log) /\ acceptTimes[i] = log[i + k]
        BY <1>1, <1>2, <3>2
      <4>2. QED
        BY <2>2, <2>3, <3>2, <4>1
    <3>3. CASE i = Len(acceptTimes) + 1
      <4>1. i + k = Len(log) + 1
        BY <1>1, <1>2, <3>3
      <4>2. QED
        BY <2>2, <2>3, <3>3, <4>1
    <3>4. QED
      BY <1>2, <2>2, <3>2, <3>3
  <2>7. \A i \in 1 .. k : tickMono' - acceptLog'[i] > RateWindow
    BY <1>1, <1>2, <2>1, <2>3
  <2>8. QED
    BY <2>2, <2>3, <2>4, <2>5, <2>6, <2>7 DEF RateInv
<1>7. QED
  BY <1>3, <1>4, <1>5, <1>6 DEF ServerNext

\* What a tick reports as the rate, given RateInv.
LEMMA RateBroadcast ==
  ASSUME FreshInv, RateInv, TakeSnapshot
  PROVE  published'.rate =
           Cardinality({i \in DOMAIN acceptLog : tickMono - acceptLog[i] <= RateWindow})
<1> DEFINE log == acceptLog
           n == Len(acceptLog)
<1>0. tickMono \in Nat /\ RateWindow \in Nat
  BY StoreAssumption DEF FreshInv
<1>1. PICK k \in 0 .. n :
        /\ Len(acceptTimes) = n - k
        /\ \A i \in 1 .. Len(acceptTimes) : acceptTimes[i] = log[i + k]
        /\ \A i \in 1 .. k : tickMono - log[i] > RateWindow
  BY DEF RateInv
<1>2. /\ n \in Nat /\ \A i \in 1 .. n : log[i] \in Nat
      /\ DOMAIN log = 1 .. n
      /\ \A i, j \in 1 .. n : i <= j => log[i] <= log[j]
  BY LenProperties, ElementOfSeq DEF RateInv
<1>3. PICK m \in 1 .. (Len(acceptTimes) + 1) :
        /\ LiveTimes(tickMono) = SubSeq(acceptTimes, m, Len(acceptTimes))
        /\ \A j \in 1 .. (m - 1) : tickMono - acceptTimes[j] > RateWindow
        /\ m <= Len(acceptTimes) => tickMono - acceptTimes[m] <= RateWindow
  BY <1>0, LiveTimesSuffix DEF RateInv
<1>4. Len(LiveTimes(tickMono)) = n - (k + m) + 1
  <2>1. \A i \in 1 .. Len(acceptTimes) : acceptTimes[i] \in Nat
    BY <1>1, <1>2
  <2>2. m \in Int /\ Len(acceptTimes) \in Int /\ m <= Len(acceptTimes) + 1
    BY <1>1, <1>2, <1>3
  <2>3. \A i \in m .. Len(acceptTimes) : acceptTimes[i] \in Nat
    BY <1>3, <2>1
  <2>4. Len(SubSeq(acceptTimes, m, Len(acceptTimes))) =
          IF m <= Len(acceptTimes) THEN Len(acceptTimes) - m + 1 ELSE 0
    BY <2>2, <2>3, SubSeqProperties
  <2>5. QED
    BY <1>1, <1>2, <1>3, <2>2, <2>4
<1>5. {i \in DOMAIN log : tickMono - log[i] <= RateWindow} = (k + m) .. n
  <2>1. ASSUME NEW i \in 1 .. n, i < k + m PROVE ~(tickMono - log[i] <= RateWindow)
    <3>1. CASE i <= k
      BY <1>0, <1>1, <1>2, <3>1
    <3>2. CASE i > k
      <4>1. i - k \in 1 .. (m - 1) /\ i - k \in 1 .. Len(acceptTimes) /\ log[i] = acceptTimes[i - k]
        BY <1>1, <1>2, <1>3, <2>1, <3>2
      <4>2. QED
        BY <1>0, <1>2, <1>3, <4>1
    <3>3. QED
      BY <1>1, <3>1, <3>2
  <2>2. ASSUME NEW i \in 1 .. n, i >= k + m PROVE tickMono - log[i] <= RateWindow
    <3>1. m <= Len(acceptTimes) /\ acceptTimes[m] = log[m + k] /\ m + k \in 1 .. n
      BY <1>1, <1>2, <1>3, <2>2
    <3>2. log[m + k] <= log[i] /\ log[m + k] \in Nat /\ log[i] \in Nat
      BY <1>1, <1>2, <1>3, <2>2, <3>1
    <3>3. QED
      BY SMTT(30), <1>0, <1>3, <3>1, <3>2
  <2>3. QED
    BY <1>1, <1>2, <1>3, <2>1, <2>2
<1>6. Cardinality((k + m) .. n) = n - (k + m) + 1
  <2>1. k + m <= n + 1
    BY <1>1, <1>2, <1>3
  <2>2. k + m \in Int /\ n \in Int
    BY <1>1, <1>2, <1>3
  <2>3. Cardinality((k + m) .. n) = IF k + m > n THEN 0 ELSE n - (k + m) + 1
    BY <2>2, FS_Interval
  <2>4. QED
    BY <2>1, <2>2, <2>3
<1>7. published'.rate = Len(LiveTimes(tickMono))
  BY DEF TakeSnapshot, SnapshotAt
<1>8. QED
  BY <1>4, <1>5, <1>6, <1>7

===============================================================================

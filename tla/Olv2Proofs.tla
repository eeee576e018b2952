------------------------------- MODULE Olv2Proofs -------------------------------
(***************************************************************************)
(* Theorems about Olv2Backend for every set of tracks, batch size,         *)
(* reordering bound, trail cap, expiry and broadcast period.               *)
(***************************************************************************)
EXTENDS Olv2Backend, BackendProofs

Times == 1 .. MaxFrames

LEMMA Constants ==
  /\ Half \in Nat \ {0} /\ SeqMod = 2 * Half /\ SeqMod \in Nat \ {0}
  /\ WireSeq = 0 .. (SeqMod - 1) /\ 0 \in WireSeq
  /\ None \notin Int /\ None \notin [seq : Int, val : Int]
  /\ Ids \subseteq Nat /\ IsFiniteSet(Ids)
  /\ MaxTrail \in Nat \ {0} /\ Batch \in Nat \ {0} /\ Lag \in Nat
  /\ MaxFrames \in Nat /\ MaxReceived \in Nat /\ Times \subseteq Nat
  /\ Period \in Nat \ {0} /\ MaxNow \in Nat \ {0}
BY StoreAssumption, BackendAssumption, Olv2Assumption DEF SeqMod, WireSeq, Times

-------------------------------------------------------------------------------
(* Enumerating a set of numbers in ascending order.                        *)

\* The elements up to the k-th are k, for every k.
LEMMA NthExists ==
  ASSUME NEW S \in SUBSET Nat, IsFiniteSet(S), NEW k \in 1 .. Cardinality(S)
  PROVE  \E x \in S : Cardinality({y \in S : y <= x}) = k
<1> DEFINE Upto(x) == {y \in S : y <= x}
           K == {j \in 1 .. Cardinality(S) : \A x \in S : Cardinality(Upto(x)) # j}
<1>1. Cardinality(S) \in Nat
  BY FS_CardinalityType
<1>2. \A x \in S : IsFiniteSet(Upto(x))
  BY FS_Subset
<1>3. SUFFICES ASSUME K # {} PROVE FALSE
  OBVIOUS
<1>4. PICK m \in K : \A j \in K : m <= j
  <2>1. K \in SUBSET Nat
    BY <1>1
  <2> HIDE DEF K
  <2>2. QED
    BY <1>3, <2>1, LeastElement
<1>5. m \in 1 .. Cardinality(S) /\ \A x \in S : Cardinality(Upto(x)) # m
  OBVIOUS
<1>6. CASE m = 1
  <2>1. S # {}
    BY <1>1, <1>5, FS_EmptySet
  <2>2. PICK x \in S : \A y \in S : x <= y
    BY <2>1, LeastElement
  <2>3. Upto(x) = {x}
    <3>1. \A y \in S : y <= x => y = x
      <4>1. \A y \in S : y \in Nat /\ x \in Nat /\ x <= y
        BY <2>2
      <4>2. QED
        BY <4>1
    <3>2. x <= x
      OBVIOUS
    <3>3. QED
      BY <3>1, <3>2
  <2>4. QED
    BY <1>5, <1>6, <2>3, FS_Singleton
<1>7. CASE m # 1
  <2>1. m - 1 \in 1 .. Cardinality(S) /\ m - 1 \notin K
    BY <1>1, <1>4, <1>5, <1>7
  <2>2. PICK x \in S : Cardinality(Upto(x)) = m - 1
    BY <2>1
  <2> DEFINE R == S \ Upto(x)
  <2>3. R # {}
    <3>1. Upto(x) # S
      BY <1>1, <1>5, <2>2
    <3>2. QED
      BY <3>1
  <2>4. PICK z \in R : \A y \in R : z <= y
    <3>1. R \in SUBSET Nat
      OBVIOUS
    <3> HIDE DEF R
    <3>2. QED
      BY <2>3, <3>1, LeastElement
  <2>5. Upto(z) = Upto(x) \cup {z} /\ z \notin Upto(x) /\ z \in S
    <3>1. z \in Nat /\ x \in Nat /\ z \in S /\ ~(z <= x)
      OBVIOUS
    <3>2. \A y \in S : y \in Nat /\ (~(y <= x) => z <= y)
      BY <2>4
    <3>3. \A y \in S : y <= z <=> y <= x \/ y = z
      BY <3>1, <3>2
    <3>4. QED
      BY <3>1, <3>3
  <2>6. Cardinality(Upto(x) \cup {z}) = m - 1 + 1
    BY <1>2, <2>2, <2>5, FS_AddElement
  <2>7. QED
    BY <1>1, <1>5, <2>5, <2>6
<1>8. QED
  BY <1>6, <1>7

LEMMA NthFacts ==
  ASSUME NEW S \in SUBSET Nat, IsFiniteSet(S), NEW k \in 1 .. Cardinality(S)
  PROVE  Nth(S, k) \in S /\ Cardinality({y \in S : y <= Nth(S, k)}) = k
BY NthExists DEF Nth

\* A later position holds a larger element.
LEMMA NthAscends ==
  ASSUME NEW S \in SUBSET Nat, IsFiniteSet(S),
         NEW k \in 1 .. Cardinality(S), NEW l \in 1 .. Cardinality(S), k < l
  PROVE  Nth(S, k) < Nth(S, l)
<1> DEFINE Upto(x) == {y \in S : y <= x}
<1>1. /\ Nth(S, k) \in S /\ Cardinality(Upto(Nth(S, k))) = k
      /\ Nth(S, l) \in S /\ Cardinality(Upto(Nth(S, l))) = l
  BY NthFacts
<1>2. Cardinality(S) \in Nat
  BY FS_CardinalityType
<1> DEFINE a == Nth(S, k)
           b == Nth(S, l)
<1>0. a \in S /\ b \in S /\ a \in Nat /\ b \in Nat
  BY <1>1
<1>3. SUFFICES ASSUME b <= a PROVE FALSE
  <2> HIDE DEF a, b
  <2>1. QED
    BY <1>0 DEF a, b
<1> HIDE DEF a, b
<1>4. Upto(b) \in SUBSET Upto(a)
  <2>1. \A y \in S : y <= b => y <= a
    <3>1. TAKE y \in S
    <3>2. y \in Nat
      OBVIOUS
    <3>3. QED
      BY <1>0, <1>3, <3>2
  <2>2. QED
    BY <2>1
<1>5. IsFiniteSet(Upto(a))
  BY FS_Subset
<1> HIDE DEF Upto
<1>6. l <= k
  BY <1>1, <1>4, <1>5, FS_Subset DEF a, b
<1>7. QED
  BY <1>2, <1>6

-------------------------------------------------------------------------------
(* The sender.                                                             *)

\* What flush() sends for ascending frames: batches of distinct tracks, each a
\* non-empty ascending selection of the frames.
LEMMA DatagramFacts ==
  ASSUME seq \in WireSeq, NEW fs \in Seq(Times), Ascending(fs),
         NEW D, D = Datagrams(fs)
  PROVE  /\ D \in Seq(Datagram)
         /\ \A n \in 1 .. Len(D) :
              /\ Len(D[n].ts) \in Nat \ {0} /\ Ascending(D[n].ts)
              /\ \A i \in 1 .. Len(D[n].ts) : \E j \in 1 .. Len(fs) : D[n].ts[i] = fs[j]
         /\ \A m, n \in 1 .. Len(D) : m < n => D[m].track # D[n].track
<1> DEFINE P(id) == Places(fs, id)
           present == {id \in Ids : P(id) # {}}
           C(id) == Cardinality(P(id))
           Of(id) == [i \in 1 .. C(id) |-> fs[Nth(P(id), i)]]
           N == Cardinality(present)
<1>1. Len(fs) \in Nat /\ DOMAIN fs = 1 .. Len(fs) /\ \A i \in 1 .. Len(fs) : fs[i] \in Times
  BY LenProperties, ElementOfSeq
<1>2. ASSUME NEW id
      PROVE  /\ P(id) \in SUBSET Nat /\ IsFiniteSet(P(id)) /\ P(id) \subseteq 1 .. Len(fs)
             /\ C(id) \in Nat /\ (P(id) # {} => C(id) # 0)
  <2>1. P(id) \in SUBSET (1 .. Len(fs)) /\ P(id) \in SUBSET Nat
    BY <1>1 DEF Places
  <2> HIDE DEF P
  <2>2. IsFiniteSet(1 .. Len(fs))
    BY <1>1, FS_Interval
  <2>3. IsFiniteSet(P(id))
    BY <2>1, <2>2, FS_Subset
  <2>4. QED
    BY <2>1, <2>3, FS_CardinalityType, FS_EmptySet
<1> HIDE DEF P
<1>3. ASSUME NEW id, NEW i \in 1 .. C(id)
      PROVE  Nth(P(id), i) \in 1 .. Len(fs) /\ fs[Nth(P(id), i)] \in Times
  BY <1>1, <1>2, NthFacts
<1>4. ASSUME NEW id, P(id) # {}
      PROVE  /\ Of(id) \in Seq(Times) /\ Len(Of(id)) = C(id) /\ C(id) \in Nat \ {0}
             /\ Ascending(Of(id))
             /\ \A i \in 1 .. C(id) : \E j \in 1 .. Len(fs) : Of(id)[i] = fs[j]
  <2>1. C(id) \in Nat \ {0}
    BY <1>2, <1>4
  <2> HIDE DEF C
  <2>2. Of(id) \in Seq(Times) /\ Len(Of(id)) = C(id)
    BY <1>3, <2>1
  <2>3. \A i, j \in 1 .. C(id) : i < j => Of(id)[i] < Of(id)[j]
    <3>1. SUFFICES ASSUME NEW i \in 1 .. C(id), NEW j \in 1 .. C(id), i < j
                   PROVE  Of(id)[i] < Of(id)[j]
      OBVIOUS
    <3>2. Nth(P(id), i) < Nth(P(id), j)
      BY <1>2, <3>1, NthAscends DEF C
    <3>3. QED
      BY <1>3, <3>2 DEF Ascending
  <2>4. QED
    BY <1>3, <2>1, <2>2, <2>3 DEF Ascending
<1>5. /\ present \in SUBSET Nat /\ IsFiniteSet(present) /\ N \in Nat /\ present \subseteq Ids
      /\ \A k \in 1 .. N : Nth(present, k) \in present
  <2>1. present \in SUBSET Ids /\ present \in SUBSET Nat
    BY Constants
  <2> HIDE DEF present
  <2>2. IsFiniteSet(present)
    BY <2>1, Constants, FS_Subset
  <2>3. QED
    BY <2>1, <2>2, FS_CardinalityType, NthFacts
<1> DEFINE E(k) == [seq |-> (seq + k - 1) % SeqMod, track |-> Nth(present, k),
                    ts |-> Of(Nth(present, k))]
<1>6. D = [k \in 1 .. N |-> E(k)]
  BY DEF Datagrams, P
<1>7. \A k \in 1 .. N : P(Nth(present, k)) # {} /\ Nth(present, k) \in Ids
  BY <1>5
<1> HIDE DEF C, N, present, Of
<1>8. ASSUME NEW k \in 1 .. N
      PROVE  E(k) \in Datagram
  <2>1. (seq + k - 1) % SeqMod \in WireSeq
    BY <1>5, Constants
  <2>2. Of(Nth(present, k)) \in Seq(Times) /\ Nth(present, k) \in Ids
    BY <1>4, <1>7
  <2>3. QED
    BY <2>1, <2>2 DEF Datagram, Times
<1>9. D \in Seq(Datagram) /\ Len(D) = N /\ \A k \in 1 .. N : D[k] = E(k)
  <2> HIDE DEF E
  <2>1. QED
    BY <1>5, <1>6, <1>8
<1>10. ASSUME NEW n \in 1 .. N
       PROVE  /\ Len(D[n].ts) \in Nat \ {0} /\ Ascending(D[n].ts)
              /\ \A i \in 1 .. Len(D[n].ts) : \E j \in 1 .. Len(fs) : D[n].ts[i] = fs[j]
  <2>1. D[n].ts = Of(Nth(present, n))
    BY <1>9
  <2>2. QED
    BY <1>4, <1>7, <2>1
<1>11. ASSUME NEW m \in 1 .. N, NEW n \in 1 .. N, m < n
       PROVE  D[m].track # D[n].track
  <2>1. Nth(present, m) < Nth(present, n) /\ Nth(present, m) \in Nat
    BY <1>5, <1>11, NthAscends DEF N
  <2>2. QED
    BY <1>9, <2>1
<1>12. QED
  BY <1>9, <1>10, <1>11

\* The first and the last sample of a batch bound the others.
LEMMA BatchEnds ==
  ASSUME NEW ts \in Seq(Times), ts # << >>, Ascending(ts)
  PROVE  /\ Len(ts) \in Nat \ {0} /\ Head(ts) = ts[1] /\ Newest(ts) = ts[Len(ts)]
         /\ Head(ts) \in Times /\ Newest(ts) \in Times /\ Head(ts) <= Newest(ts)
         /\ \A i \in 1 .. Len(ts) : ts[i] \in Times /\ ts[i] <= Newest(ts) /\ Head(ts) <= ts[i]
<1>1. Len(ts) \in Nat \ {0} /\ \A i \in 1 .. Len(ts) : ts[i] \in Times
  BY EmptySeq, ElementOfSeq
<1>2. Head(ts) = ts[1] /\ Newest(ts) = ts[Len(ts)]
  BY <1>1 DEF Newest
<1>3. 1 \in 1 .. Len(ts) /\ Len(ts) \in 1 .. Len(ts)
  BY <1>1
<1>4. ASSUME NEW i \in 1 .. Len(ts) PROVE ts[i] <= ts[Len(ts)] /\ ts[1] <= ts[i]
  <2>1. i < Len(ts) => ts[i] < ts[Len(ts)]
    BY <1>3 DEF Ascending
  <2>2. 1 < i => ts[1] < ts[i]
    BY <1>3 DEF Ascending
  <2>3. ts[i] \in Nat /\ ts[1] \in Nat /\ ts[Len(ts)] \in Nat
    BY <1>1, <1>3, Constants
  <2>4. QED
    BY <1>1, <2>1, <2>2, <2>3
<1>5. QED
  BY <1>1, <1>2, <1>3, <1>4

\* A datagram on the wire.
LEMMA OnWire ==
  ASSUME TypeOK, SentInOrder, NEW n \in 1 .. Len(wire)
  PROVE  /\ wire[n] \in Datagram /\ wire[n].track \in Ids /\ wire[n].seq \in WireSeq
         /\ wire[n].ts \in Seq(Times) /\ wire[n].ts # << >> /\ Ascending(wire[n].ts)
         /\ Head(wire[n].ts) \in Times /\ Newest(wire[n].ts) \in Times
         /\ Head(wire[n].ts) <= Newest(wire[n].ts)
<1>1. wire[n] \in Datagram
  BY ElementOfSeq DEF TypeOK
<1>2. wire[n].track \in Ids /\ wire[n].seq \in WireSeq /\ wire[n].ts \in Seq(Times)
  BY <1>1 DEF Datagram, Times
<1>3. wire[n].ts # << >> /\ Ascending(wire[n].ts)
  BY DEF SentInOrder
<1>4. QED
  BY <1>1, <1>2, <1>3, BatchEnds

\* Flushing ascending frames newer than all that was sent keeps the order.
LEMMA FlushOrdered ==
  ASSUME TypeOK, SentInOrder, NEW fs \in Seq(Times), Ascending(fs),
         \A i \in 1 .. Len(fs) : fs[i] <= clock',
         \A n \in 1 .. Len(wire), i \in 1 .. Len(fs) : Newest(wire[n].ts) < fs[i],
         wire' = wire \o Datagrams(fs), frames' = << >>,
         clock' \in Nat, clock' >= clock
  PROVE  /\ wire' \in Seq(Datagram) /\ Len(wire') >= Len(wire) /\ SentInOrder'
         /\ Len(wire) \in Nat /\ Len(wire') \in Nat
         /\ \A n \in 1 .. Len(wire) : wire'[n] = wire[n]
<1> DEFINE D == Datagrams(fs)
           L == Len(wire)
<1>1. /\ D \in Seq(Datagram)
      /\ \A n \in 1 .. Len(D) :
           /\ Len(D[n].ts) \in Nat \ {0} /\ Ascending(D[n].ts)
           /\ \A i \in 1 .. Len(D[n].ts) : \E j \in 1 .. Len(fs) : D[n].ts[i] = fs[j]
      /\ \A m, n \in 1 .. Len(D) : m < n => D[m].track # D[n].track
  BY DatagramFacts DEF TypeOK
<1>2. wire \in Seq(Datagram) /\ L \in Nat /\ Len(D) \in Nat /\ clock \in Nat
  BY <1>1, LenProperties DEF TypeOK
<1>3. wire' = wire \o D
  OBVIOUS
<1> HIDE DEF D
<1>4. /\ wire' \in Seq(Datagram) /\ Len(wire') = L + Len(D)
      /\ \A n \in 1 .. L + Len(D) : wire'[n] = IF n <= L THEN wire[n] ELSE D[n - L]
  BY <1>1, <1>2, <1>3, ConcatProperties
\* The ends of the new batches are frames.
<1>5. ASSUME NEW k \in 1 .. Len(D)
      PROVE  /\ D[k].ts # << >> /\ Ascending(D[k].ts)
             /\ \E j \in 1 .. Len(fs) : Newest(D[k].ts) = fs[j]
             /\ \E j \in 1 .. Len(fs) : Head(D[k].ts) = fs[j]
  <2>1. D[k].ts \in Seq(Times)
    <3>1. D[k] \in Datagram
      BY <1>1, ElementOfSeq
    <3>2. QED
      BY <3>1 DEF Datagram, Times
  <2>2. Len(D[k].ts) \in Nat \ {0} /\ Ascending(D[k].ts)
    BY <1>1
  <2>3. D[k].ts # << >>
    BY <2>1, <2>2, EmptySeq
  <2>4. /\ Head(D[k].ts) = D[k].ts[1] /\ Newest(D[k].ts) = D[k].ts[Len(D[k].ts)]
        /\ 1 \in 1 .. Len(D[k].ts) /\ Len(D[k].ts) \in 1 .. Len(D[k].ts)
    BY <2>1, <2>2, <2>3, BatchEnds
  <2>5. \A i \in 1 .. Len(D[k].ts) : \E j \in 1 .. Len(fs) : D[k].ts[i] = fs[j]
    BY <1>1
  <2>6. /\ \E j \in 1 .. Len(fs) : D[k].ts[Len(D[k].ts)] = fs[j]
        /\ \E j \in 1 .. Len(fs) : D[k].ts[1] = fs[j]
    BY <2>4, <2>5, Zenon
  <2>7. QED
    BY <2>2, <2>3, <2>4, <2>6, Zenon
<1>6. \A n \in 1 .. L : wire'[n] = wire[n] /\ n \in 1 .. Len(wire')
  BY <1>2, <1>4
<1>7. ASSUME NEW n \in 1 .. Len(wire'), n > L
      PROVE  n - L \in 1 .. Len(D) /\ wire'[n] = D[n - L]
  BY <1>2, <1>4, <1>7
<1>8. ASSUME NEW n \in 1 .. Len(wire')
      PROVE  wire'[n].ts # << >> /\ Ascending(wire'[n].ts) /\ Newest(wire'[n].ts) <= clock'
  <2>1. CASE n <= L
    <3>1. n \in 1 .. L
      BY <1>2, <1>4, <2>1
    <3>2. wire[n].ts # << >> /\ Ascending(wire[n].ts) /\ Newest(wire[n].ts) <= clock
      BY <3>1 DEF SentInOrder
    <3>3. Newest(wire[n].ts) \in Nat
      BY <3>1, OnWire, Constants
    <3>4. QED
      BY <1>2, <1>6, <3>1, <3>2, <3>3
  <2>2. CASE n > L
    BY <1>5, <1>7, <2>2
  <2>3. QED
    BY <1>2, <1>4, <2>1, <2>2
<1>9. ASSUME NEW m \in 1 .. Len(wire'), NEW n \in 1 .. Len(wire'), m < n,
             wire'[m].track = wire'[n].track
      PROVE  Newest(wire'[m].ts) < Head(wire'[n].ts)
  <2>1. CASE n <= L
    <3>1. m \in 1 .. L /\ n \in 1 .. L
      BY <1>2, <1>4, <1>9, <2>1
    <3>2. QED
      BY <1>6, <1>9, <3>1 DEF SentInOrder
  <2>2. CASE m <= L /\ n > L
    <3>1. m \in 1 .. L
      BY <1>2, <1>4, <2>2
    <3>2. PICK j \in 1 .. Len(fs) : Head(wire'[n].ts) = fs[j]
      BY <1>5, <1>7, <2>2
    <3>3. Newest(wire[m].ts) < fs[j]
      BY <3>1, <3>2
    <3>4. QED
      BY <1>6, <3>1, <3>2, <3>3
  <2>3. CASE m > L
    <3>1. m - L \in 1 .. Len(D) /\ n - L \in 1 .. Len(D) /\ m - L < n - L
      BY <1>2, <1>4, <1>7, <1>9, <2>3
    <3>2. wire'[m] = D[m - L] /\ wire'[n] = D[n - L]
      BY <1>2, <1>4, <1>7, <1>9, <2>3
    <3>3. QED
      BY <1>1, <1>9, <3>1, <3>2
  <2>4. QED
    BY <1>2, <1>4, <2>1, <2>2, <2>3
<1>10. Ascending(frames') /\ \A i \in 1 .. Len(frames') : FALSE
  BY DEF Ascending
<1>11. SentInOrder'
  BY <1>8, <1>9, <1>10 DEF SentInOrder
<1>12. QED
  BY <1>2, <1>4, <1>6, <1>11

\* What the sender may do: the wire grows, the rest is as the server knows it.
LEMMA SenderStep ==
  ASSUME TypeOK, DataInv, UNCHANGED <<backendVars, trackVars>>,
         wire' \in Seq(Datagram), Len(wire') >= Len(wire),
         Len(wire) \in Nat, Len(wire') \in Nat,
         \A n \in 1 .. Len(wire) : wire'[n] = wire[n],
         clock' \in 0 .. MaxFrames, frames' \in Seq(Times), Len(frames') < Batch,
         seq' \in WireSeq, SentInOrder'
  PROVE  TypeOK' /\ DataInv'
<1>1. UNCHANGED <<stats, haveSeq, lastSeq, satellite, satelliteT, lastData, objects, acceptTimes,
                  pendingTrail, now, timerAt, tickPc, tickMono, published, pc, rx, stamp,
                  touched, acceptLog, lastT, taken, applied, drained>>
  BY DEF backendVars, storeVars, clockVars, tickVars, inputVars, historyVars, trackVars
<1>2. /\ \A n \in 1 .. Len(wire) : n \in 1 .. Len(wire')
      /\ \A n \in 0 .. Len(wire) : n \in 0 .. Len(wire')
  OBVIOUS
<1>3. taken' \in [Ids -> 0 .. Len(wire')]
  BY <1>1, <1>2 DEF TypeOK
<1>4. IF pc' = "receive" THEN rx' = None
      ELSE rx' \in [pkt : Datagram, n : 1 .. Len(wire'), intact : BOOLEAN]
  <2>1. IF pc = "receive" THEN rx = None
        ELSE rx \in [pkt : Datagram, n : 1 .. Len(wire), intact : BOOLEAN]
    BY DEF TypeOK
  <2>2. QED
    BY <1>1, <1>2, <2>1
<1>5. TypeOK'
  BY <1>1, <1>3, <1>4 DEF TypeOK, Times
<1>6. Known'
  <2> SUFFICES ASSUME NEW id \in Ids
               PROVE  IF taken[id] = 0 THEN lastT[id] = None
                      ELSE /\ wire'[taken[id]].track = id
                           /\ lastT[id] = Newest(wire'[taken[id]].ts)
    BY <1>1 DEF Known
  <2>1. taken[id] \in 0 .. Len(wire)
    BY DEF TypeOK
  <2>2. taken[id] # 0 => taken[id] \in 1 .. Len(wire) /\ wire'[taken[id]] = wire[taken[id]]
    BY <2>1
  <2>3. QED
    BY <2>2 DEF DataInv, Known
<1>7. InHandInv'
  <2>1. pc # "receive" => rx.n \in 1 .. Len(wire)
    BY DEF TypeOK
  <2>2. QED
    BY <1>1, <2>1 DEF DataInv, InHandInv, StaleBatch
<1>8. QED
  BY <1>1, <1>5, <1>6, <1>7
  DEF DataInv, TrailConserved, AppliedInv, TrailAscending, RowsInv, SatelliteInv,
      SatelliteIsNewest, PublishedInv, TrailEndsAtRow

LEMMA FrameStep ==
  ASSUME TypeOK, DataInv, SendFrame
  PROVE  TypeOK' /\ DataInv'
<1> DEFINE full == Append(frames, clock + 1)
<1>1. /\ frames \in Seq(Times) /\ Len(frames) \in Nat /\ Len(frames) < Batch
      /\ clock \in Nat /\ clock < MaxFrames /\ MaxFrames \in Nat /\ Batch \in Nat \ {0}
      /\ seq \in WireSeq /\ wire \in Seq(Datagram) /\ Len(wire) \in Nat
  BY Constants, LenProperties DEF TypeOK, SendFrame, Times
<1>2. /\ Ascending(frames)
      /\ \A i \in 1 .. Len(frames) : frames[i] \in Nat /\ frames[i] <= clock
  <2>1. \A i \in 1 .. Len(frames) : frames[i] \in Times
    BY <1>1, ElementOfSeq
  <2>2. QED
    BY <2>1, Constants DEF DataInv, SentInOrder
<1>3. /\ full \in Seq(Times) /\ Len(full) = Len(frames) + 1
      /\ \A i \in 1 .. Len(frames) : full[i] = frames[i]
      /\ full[Len(frames) + 1] = clock + 1
  <2>1. clock + 1 \in Times
    BY <1>1 DEF Times
  <2>2. QED
    BY <1>1, <2>1, AppendProperties
<1>4. clock' = clock + 1 /\ UNCHANGED <<backendVars, trackVars>>
  BY DEF SendFrame
<1> HIDE DEF full
<1>5. /\ \A i \in 1 .. Len(full) : IF i = Len(frames) + 1 THEN full[i] = clock + 1
                                   ELSE i \in 1 .. Len(frames) /\ full[i] = frames[i]
      /\ \A i \in 1 .. Len(full) : full[i] \in Nat /\ full[i] <= clock'
  <2>2. \A i \in 1 .. Len(full) : IF i = Len(frames) + 1 THEN full[i] = clock + 1
                                   ELSE i \in 1 .. Len(frames) /\ full[i] = frames[i]
    BY <1>1, <1>3
  <2>3. QED
    BY <1>1, <1>2, <1>4, <2>2
<1>6. Ascending(full)
  <2>1. SUFFICES ASSUME NEW i \in 1 .. Len(full), NEW j \in 1 .. Len(full), i < j
                 PROVE  full[i] < full[j]
    BY DEF Ascending
  <2>2. i \in 1 .. Len(frames) /\ full[i] = frames[i]
    BY <1>1, <1>3, <2>1
  <2>3. CASE j = Len(frames) + 1
    BY <1>1, <1>2, <1>5, <2>2, <2>3
  <2>4. CASE j # Len(frames) + 1
    BY <1>2, <1>5, <2>1, <2>2, <2>4 DEF Ascending
  <2>5. QED
    BY <2>3, <2>4
<1>7. \A n \in 1 .. Len(wire), i \in 1 .. Len(full) : Newest(wire[n].ts) < full[i]
  <2>1. TAKE n \in 1 .. Len(wire), i \in 1 .. Len(full)
  <2>2. /\ Newest(wire[n].ts) <= clock
        /\ \A k \in 1 .. Len(frames) : Newest(wire[n].ts) < frames[k]
    BY DEF DataInv, SentInOrder
  <2>3. Newest(wire[n].ts) \in Nat
    BY OnWire, Constants DEF DataInv
  <2>4. QED
    BY <1>1, <1>5, <2>2, <2>3
<1>8. CASE Len(full) >= Batch
  <2>1. Flush(full) /\ frames' = << >>
    BY <1>8 DEF SendFrame, full
  <2>2. wire' = wire \o Datagrams(full)
    BY <2>1 DEF Flush
  <2>3. SentInOrder
    BY DEF DataInv
  <2>4. /\ wire' \in Seq(Datagram) /\ Len(wire') >= Len(wire) /\ SentInOrder'
        /\ Len(wire') \in Nat /\ \A n \in 1 .. Len(wire) : wire'[n] = wire[n]
    <3>1. \A i \in 1 .. Len(full) : full[i] <= clock'
      BY <1>5
    <3>2. clock' \in Nat /\ clock' >= clock
      BY <1>1, <1>4
    <3>3. QED
      BY <1>3, <1>6, <1>7, <2>1, <2>2, <2>3, <3>1, <3>2, FlushOrdered
  <2>5. seq' \in WireSeq
    <3>1. Datagrams(full) \in Seq(Datagram)
      BY <1>1, <1>3, <1>6, DatagramFacts
    <3>2. Len(Datagrams(full)) \in Nat
      BY <3>1, LenProperties
    <3>3. QED
      BY <1>1, <2>1, <3>2, Constants DEF Flush
  <2>6. /\ clock' \in 0 .. MaxFrames /\ frames' \in Seq(Times) /\ Len(frames') < Batch
    BY <1>1, <1>4, <2>1
  <2>7. QED
    BY <1>1, <1>4, <2>4, <2>5, <2>6, SenderStep
<1>9. CASE ~(Len(full) >= Batch)
  <2>1. frames' = full /\ UNCHANGED <<seq, wire>>
    BY <1>9 DEF SendFrame, full
  <2>2. SentInOrder'
    <3>1. \A n \in 1 .. Len(wire) : Newest(wire[n].ts) <= clock'
      <4>1. TAKE n \in 1 .. Len(wire)
      <4>2. Newest(wire[n].ts) <= clock /\ Newest(wire[n].ts) \in Nat
        BY OnWire, Constants DEF DataInv, SentInOrder
      <4>3. QED
        BY <1>1, <1>4, <4>2
    <3>2. \A i \in 1 .. Len(full) : full[i] <= clock'
      BY <1>5
    <3>3. QED
      BY <1>6, <1>7, <2>1, <3>1, <3>2 DEF DataInv, SentInOrder
  <2>3. clock' \in 0 .. MaxFrames /\ Len(full) < Batch
    BY <1>1, <1>3, <1>4, <1>9
  <2>4. QED
    BY <1>1, <1>3, <1>4, <2>1, <2>2, <2>3, SenderStep
<1>10. QED
  BY <1>8, <1>9

LEMMA RestartStep ==
  ASSUME TypeOK, DataInv, NEW normally \in BOOLEAN, Restart(normally)
  PROVE  TypeOK' /\ DataInv'
<1>1. /\ frames \in Seq(Times) /\ clock \in 0 .. MaxFrames /\ MaxFrames \in Nat /\ clock \in Nat
      /\ seq \in WireSeq /\ wire \in Seq(Datagram) /\ Len(wire) \in Nat
      /\ frames' = << >> /\ seq' = 0 /\ clock' = clock /\ UNCHANGED <<backendVars, trackVars>>
  BY Constants, LenProperties DEF TypeOK, Restart, Times
<1>2. /\ wire' \in Seq(Datagram) /\ Len(wire') >= Len(wire) /\ SentInOrder'
      /\ Len(wire') \in Nat /\ \A n \in 1 .. Len(wire) : wire'[n] = wire[n]
  <2>1. CASE normally
    <3>1. wire' = wire \o Datagrams(frames)
      BY <2>1 DEF Restart
    <3>2. /\ SentInOrder /\ Ascending(frames)
          /\ \A i \in 1 .. Len(frames) : frames[i] <= clock'
          /\ \A n \in 1 .. Len(wire), i \in 1 .. Len(frames) : Newest(wire[n].ts) < frames[i]
      BY <1>1 DEF DataInv, SentInOrder
    <3>3. clock' \in Nat /\ clock' >= clock
      BY <1>1
    <3>4. QED
      BY <1>1, <3>1, <3>2, <3>3, FlushOrdered
  <2>2. CASE ~normally
    <3>1. wire' = wire
      BY <2>2 DEF Restart
    <3>2. SentInOrder'
      <4>1. Ascending(frames') /\ \A i \in 1 .. Len(frames') : FALSE
        BY <1>1 DEF Ascending
      <4>2. QED
        BY <1>1, <3>1, <4>1 DEF DataInv, SentInOrder
    <3>3. QED
      BY <1>1, <3>1, <3>2
  <2>3. QED
    BY <2>1, <2>2
<1>3. clock' \in 0 .. MaxFrames /\ frames' \in Seq(Times) /\ Len(frames') < Batch /\ seq' \in WireSeq
  BY <1>1, Constants
<1>4. QED
  BY <1>1, <1>2, <1>3, SenderStep

-------------------------------------------------------------------------------
(* The input thread, up to applyTrack().                                   *)

Counters == [received : Nat, accepted : Nat, malformed : Nat, stale : Nat]

\* Counting keeps the counters natural numbers.
LEMMA CountType ==
  ASSUME NEW c \in {"received", "accepted", "malformed", "stale"}, NEW st \in Counters
  PROVE  [st EXCEPT ![c] = @ + 1] \in Counters
BY DEF Counters

\* A step that only counts, or reads the clock.
LEMMA QuietStepKeeps ==
  ASSUME TypeOK, DataInv,
         UNCHANGED <<haveSeq, lastSeq, satellite, satelliteT, lastData, objects, acceptTimes,
                     pendingTrail, clockVars, tickVars, historyVars, senderVars, trackVars>>,
         stats' \in Counters, stamp' \in Nat, pc' \in {"receive", "decode", "apply"},
         IF pc' = "receive" THEN rx' = None
         ELSE rx' \in [pkt : Datagram, n : 1 .. Len(wire), intact : BOOLEAN],
         InHandInv'
  PROVE  TypeOK' /\ DataInv'
<1>1. UNCHANGED <<haveSeq, lastSeq, satellite, satelliteT, lastData, objects, acceptTimes,
                  pendingTrail, now, timerAt, tickPc, tickMono, published, touched, acceptLog,
                  clock, frames, seq, wire, lastT, taken, applied, drained>>
  BY DEF clockVars, tickVars, historyVars, senderVars, trackVars
<1>2. TypeOK'
  BY <1>1 DEF TypeOK, Counters
<1>3. DataInv'
  BY <1>1
  DEF DataInv, SentInOrder, Known, TrailConserved, AppliedInv, TrailAscending, RowsInv,
      SatelliteInv, SatelliteIsNewest, PublishedInv, TrailEndsAtRow
<1>4. QED
  BY <1>2, <1>3

LEMMA ReceiveStep ==
  ASSUME TypeOK, DataInv, NEW n \in 1 .. Len(wire), NEW intact \in BOOLEAN, Receive(n, intact)
  PROVE  TypeOK' /\ DataInv'
<1>1. /\ rx' = [pkt |-> wire[n], n |-> n, intact |-> intact] /\ pc' = "decode"
      /\ stats' = [stats EXCEPT !.received = @ + 1] /\ stamp' = stamp
      /\ UNCHANGED <<haveSeq, lastSeq, satellite, satelliteT, lastData, objects, acceptTimes,
                     pendingTrail, clockVars, tickVars, historyVars, senderVars, trackVars>>
  BY DEF Receive, BeginDatagram, CountReceived
<1>2. stats' \in Counters /\ stamp' \in Nat
  BY <1>1, CountType DEF TypeOK, Counters
<1>3. wire[n] \in Datagram
  BY ElementOfSeq DEF TypeOK
<1>4. rx' \in [pkt : Datagram, n : 1 .. Len(wire), intact : BOOLEAN]
  BY <1>1, <1>3
<1>5. InHandInv'
  BY <1>1 DEF InHandInv, senderVars
<1>6. QED
  BY <1>1, <1>2, <1>4, <1>5, QuietStepKeeps

LEMMA DropStep ==
  ASSUME TypeOK, DataInv, DropMalformed \/ DropStale
  PROVE  TypeOK' /\ DataInv'
<1>1. /\ rx' = None /\ pc' = "receive" /\ stamp' = stamp
      /\ \/ stats' = [stats EXCEPT !.malformed = @ + 1]
         \/ stats' = [stats EXCEPT !.stale = @ + 1]
      /\ UNCHANGED <<haveSeq, lastSeq, satellite, satelliteT, lastData, objects, acceptTimes,
                     pendingTrail, clockVars, tickVars, historyVars, senderVars, trackVars>>
  BY DEF DropMalformed, DropStale, DropDatagram, CountDropped
<1>2. stats' \in Counters /\ stamp' \in Nat
  BY <1>1, CountType DEF TypeOK, Counters
<1>3. InHandInv'
  BY <1>1 DEF InHandInv
<1>4. QED
  BY <1>1, <1>2, <1>3, QuietStepKeeps

LEMMA DecodedStep ==
  ASSUME TypeOK, DataInv, Decoded
  PROVE  TypeOK' /\ DataInv'
<1>1. /\ pc = "decode" /\ pc' = "apply" /\ rx' = rx /\ stamp' = now /\ ~StaleBatch(rx.pkt)
      /\ UNCHANGED <<stats, haveSeq, lastSeq, satellite, satelliteT, lastData, objects,
                     acceptTimes, pendingTrail, clockVars, tickVars, historyVars, senderVars,
                     trackVars>>
  BY DEF Decoded, ReadClock, storeVars
<1>2. stats' \in Counters /\ stamp' \in Nat
  BY <1>1 DEF TypeOK, Counters
<1>3. rx' \in [pkt : Datagram, n : 1 .. Len(wire), intact : BOOLEAN]
  BY <1>1 DEF TypeOK
<1>4. InHandInv'
  BY <1>1 DEF DataInv, InHandInv, StaleBatch, senderVars, trackVars
<1>5. QED
  BY <1>1, <1>2, <1>3, <1>4, QuietStepKeeps

-------------------------------------------------------------------------------
(* applyTrack().                                                           *)

\* What the pending trail keeps of q: its newest points, at most MaxTrail.
LEMMA KeepNewestFacts ==
  ASSUME NEW q \in Seq(Sample), NEW r, r = KeepNewest(q)
  PROVE  /\ r \in Seq(Sample) /\ Len(q) \in Nat
         /\ Len(r) = IF Len(q) > MaxTrail THEN MaxTrail ELSE Len(q)
         /\ \A i \in 1 .. Len(r) : r[i] = q[Len(q) - Len(r) + i]
<1>1. Len(q) \in Nat /\ MaxTrail \in Nat /\ \A i \in 1 .. Len(q) : q[i] \in Sample
  BY LenProperties, ElementOfSeq, Constants
<1>2. CASE Len(q) > MaxTrail
  <2>1. r = SubSeq(q, Len(q) - MaxTrail + 1, Len(q))
    BY <1>2 DEF KeepNewest
  <2>2. \A i \in (Len(q) - MaxTrail + 1) .. Len(q) : q[i] \in Sample
    BY <1>1, <1>2
  <2>3. Len(q) - MaxTrail + 1 \in Int /\ Len(q) \in Int
    BY <1>1
  <2>4. /\ r \in Seq(Sample)
        /\ Len(r) = IF Len(q) - MaxTrail + 1 <= Len(q)
                    THEN Len(q) - (Len(q) - MaxTrail + 1) + 1 ELSE 0
        /\ \A i \in 1 .. Len(q) - (Len(q) - MaxTrail + 1) + 1 :
             r[i] = q[(Len(q) - MaxTrail + 1) + i - 1]
    BY <2>1, <2>2, <2>3, SubSeqProperties
  <2>5. Len(r) = MaxTrail
    BY <1>1, <1>2, <2>4, Constants
  <2>6. \A i \in 1 .. MaxTrail : r[i] = q[Len(q) - MaxTrail + i]
    <3>1. TAKE i \in 1 .. MaxTrail
    <3>2. i \in 1 .. Len(q) - (Len(q) - MaxTrail + 1) + 1
      BY <1>1
    <3>3. (Len(q) - MaxTrail + 1) + i - 1 = Len(q) - MaxTrail + i
      BY <1>1
    <3>4. QED
      BY <2>4, <3>2, <3>3
  <2>7. QED
    BY <1>1, <1>2, <2>4, <2>5, <2>6
<1>3. CASE ~(Len(q) > MaxTrail)
  <2>1. r = q
    BY <1>3 DEF KeepNewest
  <2>2. QED
    BY <1>1, <1>3, <2>1
<1>4. QED
  BY <1>2, <1>3

\* The batch in hand and the trail points it gives.
LEMMA BatchInHand ==
  ASSUME TypeOK, DataInv, pc = "apply"
  PROVE  LET ts == rx.pkt.ts
             tr == UpdateOf(rx.pkt).trail
         IN  /\ rx.n \in 1 .. Len(wire) /\ rx.pkt = wire[rx.n] /\ Len(wire) \in Nat
             /\ rx.pkt.track \in Ids /\ rx.pkt.seq \in WireSeq
             /\ ts \in Seq(Times) /\ Len(ts) \in Nat \ {0} /\ Ascending(ts)
             /\ Head(ts) \in Nat /\ Newest(ts) \in Times /\ Newest(ts) \in Nat
             /\ Head(ts) <= Newest(ts) /\ Newest(ts) = ts[Len(ts)]
             /\ \A i \in 1 .. Len(ts) : ts[i] \in Nat /\ ts[i] <= Newest(ts) /\ Head(ts) <= ts[i]
             /\ tr \in Seq(Sample) /\ Len(tr) = Len(ts)
             /\ \A i \in 1 .. Len(ts) : tr[i].id = rx.pkt.track /\ tr[i].t = ts[i]
             /\ lastT[rx.pkt.track] = None \/ (/\ lastT[rx.pkt.track] \in Nat
                                               /\ lastT[rx.pkt.track] < Head(ts))
<1> DEFINE ts == rx.pkt.ts
           id == rx.pkt.track
           tr == UpdateOf(rx.pkt).trail
<1>1. rx.n \in 1 .. Len(wire) /\ rx.pkt = wire[rx.n] /\ SentInOrder /\ ~StaleBatch(rx.pkt)
  BY DEF TypeOK, DataInv, InHandInv
<1>2. /\ id \in Ids /\ rx.pkt.seq \in WireSeq /\ ts \in Seq(Times) /\ ts # << >> /\ Ascending(ts)
      /\ Len(wire) \in Nat
  BY <1>1, OnWire, LenProperties DEF TypeOK
<1> HIDE DEF ts
<1>3. /\ Len(ts) \in Nat \ {0} /\ Head(ts) = ts[1] /\ Newest(ts) = ts[Len(ts)]
      /\ Head(ts) \in Times /\ Newest(ts) \in Times /\ Head(ts) <= Newest(ts)
      /\ \A i \in 1 .. Len(ts) : ts[i] \in Times /\ ts[i] <= Newest(ts) /\ Head(ts) <= ts[i]
  BY <1>2, BatchEnds
<1>4. Head(ts) \in Nat /\ Newest(ts) \in Nat /\ \A i \in 1 .. Len(ts) : ts[i] \in Nat
  BY <1>3, Constants
<1>5. tr = [i \in 1 .. Len(ts) |-> [id |-> id, t |-> ts[i]]]
  <2>1. DOMAIN ts = 1 .. Len(ts)
    BY <1>2, LenProperties
  <2>2. QED
    BY <2>1 DEF UpdateOf, ts
<1>6. \A i \in 1 .. Len(ts) : [id |-> id, t |-> ts[i]] \in Sample
  BY <1>2, <1>3 DEF Sample, Times
<1> HIDE DEF tr, id
<1>7. /\ tr \in Seq(Sample) /\ Len(tr) = Len(ts)
      /\ \A i \in 1 .. Len(ts) : tr[i].id = id /\ tr[i].t = ts[i]
  BY <1>3, <1>5, <1>6
<1>8. lastT[id] = None \/ (lastT[id] \in Nat /\ lastT[id] < Head(ts))
  <2>1. lastT[id] \in Times \cup {None}
    BY <1>2 DEF TypeOK, Times
  <2>2. lastT[id] # None => ~(Head(ts) <= lastT[id])
    BY <1>1 DEF StaleBatch, ts, id
  <2>3. lastT[id] # None => lastT[id] \in Nat
    BY <2>1, Constants
  <2>4. QED
    BY <1>4, <2>2, <2>3
<1>9. QED
  BY <1>1, <1>2, <1>3, <1>4, <1>7, <1>8 DEF ts, tr, id

\* What applying the batch in hand does.
LEMMA Applied ==
  ASSUME TypeOK, DataInv, ApplyBatch
  PROVE  LET p == rx.pkt
             u == UpdateOf(rx.pkt)
         IN  /\ pc = "apply" /\ pc' = "receive" /\ rx' = None
             /\ stats' = [stats EXCEPT !.accepted = @ + 1]
             /\ IF satellite = None \/ satelliteT = None \/ Newest(p.ts) > satelliteT
                THEN satellite' = [seq |-> p.seq, val |-> Newest(p.ts)] /\ satelliteT' = Newest(p.ts)
                ELSE UNCHANGED <<satellite, satelliteT>>
             /\ DOMAIN u.rows = {p.track} /\ u.rows[p.track] = Newest(p.ts)
             /\ objects' = Upsert(objects, u.rows, stamp)
             /\ pendingTrail' = KeepNewest(pendingTrail \o u.trail)
             /\ applied' = applied \o u.trail
             /\ lastData' = stamp /\ acceptTimes' = Append(acceptTimes, stamp)
             /\ RecordAccept(u.rows)
             /\ lastT' = [lastT EXCEPT ![p.track] = Newest(p.ts)]
             /\ taken' = [taken EXCEPT ![p.track] = rx.n]
             /\ UNCHANGED <<haveSeq, lastSeq, stamp, clockVars, tickVars, senderVars, drained>>
<1> DEFINE u == UpdateOf(rx.pkt)
<1>1. /\ u.sat = [seq |-> rx.pkt.seq, val |-> Newest(rx.pkt.ts)] /\ u.satT = Newest(rx.pkt.ts)
      /\ DOMAIN u.rows = {rx.pkt.track} /\ u.rows[rx.pkt.track] = Newest(rx.pkt.ts)
  BY DEF UpdateOf
<1> HIDE DEF u
<1>2. /\ ApplyTrack(u, stamp, stamp) /\ RecordAccept(u.rows) /\ applied' = applied \o u.trail
      /\ pc = "apply" /\ pc' = "receive" /\ rx' = None
      /\ lastT' = [lastT EXCEPT ![rx.pkt.track] = Newest(rx.pkt.ts)]
      /\ taken' = [taken EXCEPT ![rx.pkt.track] = rx.n]
      /\ UNCHANGED <<stamp, clockVars, tickVars, senderVars, drained>>
  BY DEF ApplyBatch, u
<1>3. QED
  BY <1>1, <1>2 DEF ApplyTrack, NewerSatellite, u

LEMMA ApplyTypes ==
  ASSUME TypeOK, DataInv, ApplyBatch
  PROVE  TypeOK'
<1> DEFINE u == UpdateOf(rx.pkt)
           id == rx.pkt.track
           t == Newest(rx.pkt.ts)
           ts == rx.pkt.ts
<1>1. pc = "apply" /\ stamp \in Nat
  BY DEF TypeOK, ApplyBatch
<1>2. /\ rx.n \in 1 .. Len(wire) /\ rx.n \in 0 .. Len(wire) /\ id \in Ids
      /\ rx.pkt.seq \in WireSeq /\ t \in Times
      /\ u.trail \in Seq(Sample)
  BY <1>1, BatchInHand
<1>3. /\ DOMAIN u.rows = {id} /\ u.rows[id] = t
      /\ objects' = Upsert(objects, u.rows, stamp) /\ RecordAccept(u.rows)
  BY Applied
<1> HIDE DEF u, id, t, ts
<1>4. /\ DOMAIN objects' \subseteq Ids
      /\ \A i \in DOMAIN objects' : objects'[i] \in [val : Times, at : Nat]
  <2>1. objects' = [i \in DOMAIN objects \cup {id} |->
                      IF i \in {id} THEN [val |-> u.rows[i], at |-> stamp] ELSE objects[i]]
    BY <1>3 DEF Upsert
  <2>2. /\ DOMAIN objects \subseteq Ids
        /\ \A i \in DOMAIN objects : objects[i] \in [val : Times, at : Nat]
    BY DEF TypeOK, Times
  <2>3. QED
    BY <1>1, <1>2, <1>3, <2>1, <2>2
<1>5. touched' \in [Ids -> Nat \cup {None}]
  <2>1. touched' = [i \in Ids |-> IF i \in {id} THEN stamp ELSE touched[i]]
    BY <1>3 DEF RecordAccept
  <2>2. QED
    BY <1>1, <2>1 DEF TypeOK
<1>6. acceptTimes' \in Seq(Nat) /\ acceptLog' \in Seq(Nat)
  <2>1. acceptTimes' = Append(acceptTimes, stamp) /\ acceptLog' = Append(acceptLog, stamp)
    BY <1>3, Applied DEF RecordAccept
  <2>2. acceptTimes \in Seq(Nat) /\ acceptLog \in Seq(Nat)
    BY DEF TypeOK
  <2>3. QED
    BY <1>1, <2>1, <2>2, AppendProperties
<1>7. stats' \in Counters
  <2>1. stats' = [stats EXCEPT !.accepted = @ + 1] /\ stats \in Counters
    BY Applied DEF TypeOK, Counters
  <2>2. QED
    BY <2>1, CountType
<1>8. /\ satellite' = None \/ satellite' \in [seq : WireSeq, val : Times]
      /\ satelliteT' = None \/ satelliteT' \in Times
  <2>1. \/ satellite' = [seq |-> rx.pkt.seq, val |-> t] /\ satelliteT' = t
        \/ UNCHANGED <<satellite, satelliteT>>
    BY Applied DEF t
  <2>2. /\ satellite = None \/ satellite \in [seq : WireSeq, val : Times]
        /\ satelliteT = None \/ satelliteT \in Times
    BY DEF TypeOK, Times
  <2>3. QED
    BY <1>2, <2>1, <2>2
<1>9. /\ applied' \in Seq(Sample) /\ drained' \in 0 .. Len(applied')
      /\ pendingTrail' \in Seq(Sample) /\ Len(pendingTrail') <= MaxTrail
  <2>1. /\ applied' = applied \o u.trail /\ pendingTrail' = KeepNewest(pendingTrail \o u.trail)
        /\ drained' = drained
    BY Applied DEF u
  <2>2. /\ applied \in Seq(Sample) /\ pendingTrail \in Seq(Sample)
        /\ drained \in 0 .. Len(applied) /\ Len(applied) \in Nat /\ Len(u.trail) \in Nat
    BY <1>2, LenProperties DEF TypeOK
  <2>3. applied' \in Seq(Sample) /\ Len(applied') = Len(applied) + Len(u.trail)
    BY <1>2, <2>1, <2>2, ConcatProperties
  <2>4. pendingTrail \o u.trail \in Seq(Sample)
    BY <1>2, <2>2, ConcatProperties
  <2>5. pendingTrail' \in Seq(Sample) /\ Len(pendingTrail') <= MaxTrail
    <3> DEFINE q == pendingTrail \o u.trail
    <3> HIDE DEF q
    <3>1. pendingTrail' = KeepNewest(q) /\ q \in Seq(Sample)
      BY <2>1, <2>4 DEF q
    <3>2. /\ pendingTrail' \in Seq(Sample) /\ Len(q) \in Nat
          /\ Len(pendingTrail') = IF Len(q) > MaxTrail THEN MaxTrail ELSE Len(q)
      BY <3>1, KeepNewestFacts
    <3>3. QED
      BY <3>2, Constants
  <2>6. QED
    BY <2>1, <2>2, <2>3, <2>5
<1>10. /\ lastT' \in [Ids -> Times \cup {None}] /\ taken' \in [Ids -> 0 .. Len(wire)]
  <2>1. lastT' = [lastT EXCEPT ![id] = t] /\ taken' = [taken EXCEPT ![id] = rx.n]
    BY Applied DEF id, t
  <2>2. QED
    BY <1>2, <2>1 DEF TypeOK, Times
<1>11. /\ pc' = "receive" /\ rx' = None /\ lastData' = stamp
       /\ UNCHANGED <<haveSeq, lastSeq, stamp, clockVars, tickVars, senderVars>>
  BY Applied
<1>12. QED
  BY <1>1, <1>4, <1>5, <1>6, <1>7, <1>8, <1>9, <1>10, <1>11
  DEF TypeOK, Times, Counters, clockVars, tickVars, senderVars

\* The pending trail stays the end of what was applied since the last snapshot.
LEMMA ApplyConserves ==
  ASSUME TypeOK, DataInv, ApplyBatch
  PROVE  TrailConserved'
<1> DEFINE tr == UpdateOf(rx.pkt).trail
           q == pendingTrail \o tr
           A == Len(applied)
           P == Len(pendingTrail)
           T == Len(tr)
<1>1. tr \in Seq(Sample) /\ T \in Nat
  <2>1. pc = "apply"
    BY DEF ApplyBatch
  <2>2. tr \in Seq(Sample)
    BY <2>1, BatchInHand
  <2>3. QED
    BY <2>2, LenProperties
<1>2. /\ applied' = applied \o tr /\ pendingTrail' = KeepNewest(q) /\ drained' = drained
  BY Applied
<1> HIDE DEF tr
<1>3. /\ applied \in Seq(Sample) /\ pendingTrail \in Seq(Sample) /\ A \in Nat /\ P \in Nat
      /\ drained \in 0 .. A /\ MaxTrail \in Nat
  BY LenProperties, Constants DEF TypeOK
<1>4. /\ P = IF A - drained > MaxTrail THEN MaxTrail ELSE A - drained
      /\ \A i \in 1 .. P : pendingTrail[i] = applied[A - P + i]
  BY DEF DataInv, TrailConserved
<1>5. /\ Len(applied') = A + T
      /\ \A i \in 1 .. A + T : applied'[i] = IF i <= A THEN applied[i] ELSE tr[i - A]
  BY <1>1, <1>2, <1>3, ConcatProperties
<1>6. /\ q \in Seq(Sample) /\ Len(q) = P + T
      /\ \A i \in 1 .. P + T : q[i] = IF i <= P THEN pendingTrail[i] ELSE tr[i - P]
  BY <1>1, <1>3, ConcatProperties
<1> HIDE DEF q
<1>7. /\ Len(pendingTrail') = IF P + T > MaxTrail THEN MaxTrail ELSE P + T
      /\ \A i \in 1 .. Len(pendingTrail') : pendingTrail'[i] = q[P + T - Len(pendingTrail') + i]
  <2>1. q \in Seq(Sample) /\ pendingTrail' = KeepNewest(q)
    BY <1>2, <1>6
  <2>2. /\ Len(pendingTrail') = IF Len(q) > MaxTrail THEN MaxTrail ELSE Len(q)
        /\ \A i \in 1 .. Len(pendingTrail') : pendingTrail'[i] = q[Len(q) - Len(pendingTrail') + i]
    BY <2>1, KeepNewestFacts
  <2>3. Len(q) = P + T
    BY <1>6
  <2>4. QED
    BY <2>2, <2>3
<1> DEFINE N == Len(pendingTrail')
<1>8. N \in Nat /\ N <= P + T
  BY <1>1, <1>3, <1>7
<1> HIDE DEF A, P, T, N
<1>9. N = IF A + T - drained > MaxTrail THEN MaxTrail ELSE A + T - drained
  BY <1>1, <1>3, <1>4, <1>7 DEF N
<1>10. ASSUME NEW j \in 1 .. P + T PROVE q[j] = applied'[A - P + j]
  <2>1. A - P + j \in 1 .. A + T
    BY <1>1, <1>3, <1>4
  <2>2. CASE j <= P
    <3>1. j \in 1 .. P /\ A - P + j <= A
      BY <1>3, <2>2
    <3>2. q[j] = pendingTrail[j] /\ pendingTrail[j] = applied[A - P + j]
      BY <1>4, <1>6, <2>2, <3>1
    <3>3. QED
      BY <1>5, <2>1, <3>1, <3>2
  <2>3. CASE j > P
    <3>1. ~(A - P + j <= A) /\ ~(j <= P) /\ A - P + j - A = j - P
      BY <1>3, <2>3
    <3>2. QED
      <4>1. q[j] = tr[j - P]
        BY <1>6, <3>1
      <4>2. applied'[A - P + j] = tr[A - P + j - A]
        BY <1>1, <1>3, <1>5, <2>1, <3>1
      <4>3. QED
        BY <3>1, <4>1, <4>2
  <2>4. QED
    BY <1>3, <2>2, <2>3
<1>11. \A i \in 1 .. N : pendingTrail'[i] = applied'[A + T - N + i]
  <2>1. TAKE i \in 1 .. N
  <2>2. P + T - N + i \in 1 .. P + T /\ A - P + (P + T - N + i) = A + T - N + i
    BY <1>1, <1>3, <1>8
  <2>3. pendingTrail'[i] = q[P + T - N + i]
    BY <1>7 DEF N
  <2>4. q[P + T - N + i] = applied'[A - P + (P + T - N + i)]
    BY <1>10, <2>2
  <2>5. QED
    BY <2>2, <2>3, <2>4
<1>12. Len(applied') = A + T /\ Len(pendingTrail') = N
  BY <1>5 DEF N
<1>13. QED
  <2>1. \A i \in 1 .. Len(pendingTrail') :
          pendingTrail'[i] = applied'[Len(applied') - Len(pendingTrail') + i]
    BY <1>1, <1>3, <1>8, <1>11, <1>12
  <2>2. Len(pendingTrail') = IF Len(applied') - drained' > MaxTrail THEN MaxTrail
                             ELSE Len(applied') - drained'
    BY <1>1, <1>3, <1>8, <1>2, <1>9, <1>12
  <2>3. QED
    BY <2>1, <2>2 DEF TrailConserved

\* The samples of a batch that is not stale follow all those of its track.
LEMMA ApplyAppends ==
  ASSUME TypeOK, DataInv, ApplyBatch
  PROVE  AppliedInv'
<1> DEFINE tr == UpdateOf(rx.pkt).trail
           ts == rx.pkt.ts
           id == rx.pkt.track
           A == Len(applied)
           T == Len(ts)
<1>1. pc = "apply"
  BY DEF ApplyBatch
<1>2. /\ id \in Ids /\ T \in Nat \ {0} /\ Ascending(ts) /\ Newest(ts) = ts[T]
      /\ Head(ts) \in Nat /\ Newest(ts) \in Nat /\ Head(ts) <= Newest(ts)
      /\ \A i \in 1 .. T : ts[i] \in Nat /\ ts[i] <= Newest(ts) /\ Head(ts) <= ts[i]
      /\ tr \in Seq(Sample) /\ Len(tr) = T
      /\ \A i \in 1 .. T : tr[i].id = id /\ tr[i].t = ts[i]
      /\ lastT[id] = None \/ (lastT[id] \in Nat /\ lastT[id] < Head(ts))
  BY <1>1, BatchInHand
<1>3. applied' = applied \o tr /\ lastT' = [lastT EXCEPT ![id] = Newest(ts)]
  BY Applied
<1> HIDE DEF tr, ts, id
<1>4. applied \in Seq(Sample) /\ A \in Nat /\ lastT \in [Ids -> Times \cup {None}]
  BY LenProperties DEF TypeOK, Times
<1>5. /\ Len(applied') = A + T
      /\ \A i \in 1 .. A + T : applied'[i] = IF i <= A THEN applied[i] ELSE tr[i - A]
  <2>1. tr \in Seq(Sample) /\ Len(tr) = T
    BY <1>2
  <2>2. /\ Len(applied \o tr) = A + Len(tr)
        /\ \A i \in 1 .. A + Len(tr) : (applied \o tr)[i] = IF i <= A THEN applied[i] ELSE tr[i - A]
    BY <1>4, <2>1, ConcatProperties
  <2> HIDE DEF T
  <2>3. QED
    BY <1>3, <2>1, <2>2
<1> HIDE DEF A, T
<1>6. \A i \in 1 .. A : applied'[i] = applied[i] /\ i \in 1 .. Len(applied')
  BY <1>2, <1>4, <1>5
<1>7. ASSUME NEW i \in 1 .. Len(applied'), i > A
      PROVE  i - A \in 1 .. T /\ applied'[i].id = id /\ applied'[i].t = ts[i - A]
  BY <1>2, <1>4, <1>5, <1>7
<1>8. /\ lastT'[id] = Newest(ts) /\ Newest(ts) # None
      /\ \A j \in Ids : j # id => lastT'[j] = lastT[j]
  BY <1>2, <1>3, <1>4, Constants
<1>9. ASSUME NEW i \in 1 .. A
      PROVE  /\ applied[i].id \in Ids /\ applied[i].t \in Nat
             /\ lastT[applied[i].id] # None /\ applied[i].t <= lastT[applied[i].id]
             /\ applied[i].id = id => applied[i].t < Head(ts)
  <2>1. applied[i] \in Sample
    BY <1>4, ElementOfSeq DEF A
  <2>2. applied[i].id \in Ids /\ applied[i].t \in Times
    BY <2>1 DEF Sample, Times
  <2>3. applied[i].t \in Nat
    BY <2>2, Constants
  <2>4. lastT[applied[i].id] # None /\ applied[i].t <= lastT[applied[i].id]
    BY DEF DataInv, AppliedInv, A
  <2>5. QED
    BY <1>2, <2>2, <2>3, <2>4
<1>10. TrailAscending'
  <2> SUFFICES ASSUME NEW i \in 1 .. Len(applied'), NEW j \in 1 .. Len(applied'), i < j,
                      applied'[i].id = applied'[j].id
               PROVE  applied'[i].t < applied'[j].t
    BY DEF TrailAscending
  <2>1. CASE j <= A
    <3>1. i \in 1 .. A /\ j \in 1 .. A
      BY <1>4, <2>1
    <3>2. applied[i].id = applied[j].id => applied[i].t < applied[j].t
      BY <3>1 DEF DataInv, AppliedInv, TrailAscending, A
    <3>3. QED
      BY <1>6, <3>1, <3>2
  <2>2. CASE i <= A /\ j > A
    <3>1. i \in 1 .. A
      BY <1>4, <2>2
    <3>2. j - A \in 1 .. T /\ applied'[j].id = id /\ applied'[j].t = ts[j - A]
      BY <1>7, <2>2
    <3>3. applied[i].t < Head(ts) /\ applied[i].t \in Nat /\ applied'[i] = applied[i]
      BY <1>6, <1>9, <3>1, <3>2
    <3>4. Head(ts) <= ts[j - A] /\ ts[j - A] \in Nat
      BY <1>2, <3>2
    <3>5. QED
      BY <1>2, <3>2, <3>3, <3>4
  <2>3. CASE i > A
    <3>1. i - A \in 1 .. T /\ applied'[i].t = ts[i - A]
      BY <1>7, <2>3
    <3>2. j - A \in 1 .. T /\ applied'[j].t = ts[j - A]
      BY <1>4, <1>7, <2>3
    <3>3. i - A < j - A
      BY <1>4
    <3>4. QED
      BY <1>2, <3>1, <3>2, <3>3 DEF Ascending, T
  <2>4. QED
    BY <1>4, <2>1, <2>2, <2>3
<1>11. ASSUME NEW i \in 1 .. Len(applied')
       PROVE  /\ lastT'[applied'[i].id] # None /\ applied'[i].t <= lastT'[applied'[i].id]
              /\ (\A j \in (i + 1) .. Len(applied') : applied'[j].id # applied'[i].id) =>
                   applied'[i].t = lastT'[applied'[i].id]
  <2>1. CASE i <= A
    <3>1. i \in 1 .. A /\ applied'[i] = applied[i]
      BY <1>4, <1>6, <2>1
    <3>2. CASE applied[i].id = id
      <4>1. applied[i].t < Head(ts) /\ applied[i].t \in Nat
        BY <1>9, <3>1, <3>2
      <4>2. A + 1 \in (i + 1) .. Len(applied') /\ A + 1 \in 1 .. Len(applied') /\ A + 1 > A
        BY <1>2, <1>4, <1>5, <3>1
      <4>3. applied'[A + 1].id = id
        BY <1>7, <4>2
      <4>4. applied[i].t <= Newest(ts)
        BY <1>2, <4>1
      <4>5. QED
        BY <1>8, <3>1, <3>2, <4>2, <4>3, <4>4
    <3>3. CASE applied[i].id # id
      <4>1. lastT'[applied[i].id] = lastT[applied[i].id]
        BY <1>8, <1>9, <3>1, <3>3
      <4>2. ASSUME \A j \in (i + 1) .. Len(applied') : applied'[j].id # applied'[i].id
            PROVE  \A j \in (i + 1) .. A : applied[j].id # applied[i].id
        <5>1. TAKE j \in (i + 1) .. A
        <5>2. j \in 1 .. A /\ j \in (i + 1) .. Len(applied')
          BY <1>2, <1>4, <1>5, <3>1
        <5>3. QED
          BY <1>6, <3>1, <4>2, <5>2
      <4>3. (\A j \in (i + 1) .. A : applied[j].id # applied[i].id) =>
              applied[i].t = lastT[applied[i].id]
        BY <3>1 DEF DataInv, AppliedInv, A
      <4>4. QED
        BY <1>9, <3>1, <4>1, <4>2, <4>3
    <3>4. QED
      BY <3>2, <3>3
  <2>2. CASE i > A
    <3>1. i - A \in 1 .. T /\ applied'[i].id = id /\ applied'[i].t = ts[i - A]
      BY <1>7, <2>2
    <3>2. ts[i - A] <= Newest(ts) /\ Newest(ts) # None
      BY <1>2, <1>8, <3>1
    <3>3. ASSUME i # A + T
          PROVE  i + 1 \in (i + 1) .. Len(applied') /\ applied'[i + 1].id = id
      <4>1. /\ i + 1 \in (i + 1) .. Len(applied') /\ i + 1 \in 1 .. Len(applied') /\ i + 1 > A
        BY <1>2, <1>4, <1>5, <2>2, <3>3
      <4>2. QED
        BY <1>7, <4>1
    <3>4. i = A + T => i - A = T
      BY <1>2, <1>4
    <3>5. QED
      BY <1>2, <1>8, <3>1, <3>2, <3>3, <3>4
  <2>3. QED
    BY <1>4, <2>1, <2>2
<1>12. QED
  BY <1>10, <1>11 DEF AppliedInv

\* The newest sample over all tracks stays the satellite.
LEMMA ApplySatellite ==
  ASSUME TypeOK, DataInv, ApplyBatch
  PROVE  SatelliteInv'
<1> DEFINE id == rx.pkt.track
           t == Newest(rx.pkt.ts)
<1>1. pc = "apply"
  BY DEF ApplyBatch
<1>2. /\ id \in Ids /\ t \in Nat /\ rx.pkt.seq \in WireSeq
      /\ lastT[id] = None \/ (lastT[id] \in Nat /\ lastT[id] < t)
  BY <1>1, BatchInHand
<1>3. /\ lastT' = [lastT EXCEPT ![id] = t]
      /\ IF satellite = None \/ satelliteT = None \/ t > satelliteT
         THEN satellite' = [seq |-> rx.pkt.seq, val |-> t] /\ satelliteT' = t
         ELSE UNCHANGED <<satellite, satelliteT>>
  BY Applied
<1> HIDE DEF id, t
<1>4. /\ lastT \in [Ids -> Times \cup {None}]
      /\ satelliteT = None \/ satelliteT \in Nat
      /\ \A i \in Ids : lastT[i] = None \/ lastT[i] \in Nat
  BY Constants DEF TypeOK, Times
<1>5. /\ lastT'[id] = t /\ t # None
      /\ \A i \in Ids : i # id => lastT'[i] = lastT[i]
  BY <1>2, <1>3, <1>4, Constants
<1>6. /\ satellite = None <=> satelliteT = None
      /\ satellite = None => \A i \in Ids : lastT[i] = None
      /\ satellite # None => /\ satellite.val = satelliteT
                             /\ \A i \in Ids : lastT[i] # None => lastT[i] <= satelliteT
                             /\ \E i \in Ids : lastT[i] = satelliteT
  BY DEF DataInv, SatelliteInv, SatelliteIsNewest
<1>7. CASE satellite = None \/ satelliteT = None \/ t > satelliteT
  <2>1. satellite' = [seq |-> rx.pkt.seq, val |-> t] /\ satelliteT' = t
    BY <1>3, <1>7
  <2>2. satellite' # None
    <3>1. rx.pkt.seq \in Int
      BY <1>2, Constants
    <3>2. satellite' \in [seq : Int, val : Int]
      BY <1>2, <2>1, <3>1
    <3>3. QED
      BY <3>2, Constants
  <2>3. ASSUME NEW i \in Ids, lastT'[i] # None PROVE lastT'[i] <= t
    <3>1. CASE i = id
      BY <1>2, <1>5, <3>1
    <3>2. CASE i # id
      <4>1. lastT'[i] = lastT[i] /\ lastT[i] \in Nat
        BY <1>4, <1>5, <2>3, <3>2
      <4>2. satellite # None /\ satelliteT # None /\ lastT[i] <= satelliteT
        BY <1>6, <2>3, <4>1
      <4>3. QED
        BY <1>2, <1>4, <1>7, <4>1, <4>2
    <3>3. QED
      BY <3>1, <3>2
  <2>4. \E i \in Ids : lastT'[i] = satelliteT'
    BY <1>2, <1>5, <2>1
  <2>5. QED
    BY <1>5, <2>1, <2>2, <2>3, <2>4 DEF SatelliteInv, SatelliteIsNewest
<1>8. CASE ~(satellite = None \/ satelliteT = None \/ t > satelliteT)
  <2>1. UNCHANGED <<satellite, satelliteT>> /\ satellite # None /\ satelliteT # None
        /\ t <= satelliteT /\ satelliteT \in Nat
    BY <1>2, <1>3, <1>4, <1>8
  <2>2. ASSUME NEW i \in Ids, lastT'[i] # None PROVE lastT'[i] <= satelliteT
    BY <1>5, <1>6, <2>1, <2>2
  <2>3. PICK k \in Ids : lastT[k] = satelliteT
    BY <1>6, <2>1
  <2>4. k # id
    <3>1. SUFFICES ASSUME k = id PROVE FALSE
      OBVIOUS
    <3>2. lastT[id] \in Nat /\ lastT[id] < t
      BY <1>2, <2>1, <2>3, <3>1
    <3>3. QED
      BY <1>2, <2>1, <2>3, <3>1, <3>2
  <2>5. lastT'[k] = satelliteT
    BY <1>5, <2>3, <2>4
  <2>6. QED
    BY <1>6, <2>1, <2>2, <2>5 DEF SatelliteInv, SatelliteIsNewest
<1>9. QED
  BY <1>7, <1>8

LEMMA ApplyStep ==
  ASSUME TypeOK, DataInv, ApplyBatch
  PROVE  TypeOK' /\ DataInv'
<1> DEFINE id == rx.pkt.track
           t == Newest(rx.pkt.ts)
           rows == UpdateOf(rx.pkt).rows
<1>1. pc = "apply"
  BY DEF ApplyBatch
<1>2. /\ id \in Ids /\ rx.n \in 1 .. Len(wire) /\ Len(wire) \in Nat /\ rx.pkt = wire[rx.n]
  BY <1>1, BatchInHand
<1>3. /\ pc' = "receive" /\ lastT' = [lastT EXCEPT ![id] = t]
      /\ taken' = [taken EXCEPT ![id] = rx.n]
      /\ objects' = Upsert(objects, rows, stamp) /\ DOMAIN rows = {id} /\ rows[id] = t
      /\ UNCHANGED senderVars /\ UNCHANGED tickVars
  BY Applied
<1> HIDE DEF rows
<1>4. lastT \in [Ids -> Times \cup {None}] /\ taken \in [Ids -> 0 .. Len(wire)]
  BY DEF TypeOK, Times
<1>5. SentInOrder'
  BY <1>3 DEF DataInv, SentInOrder, senderVars
<1>6. Known'
  <2> SUFFICES ASSUME NEW i \in Ids
               PROVE  IF taken'[i] = 0 THEN lastT'[i] = None
                      ELSE wire[taken'[i]].track = i /\ lastT'[i] = Newest(wire[taken'[i]].ts)
    BY <1>3 DEF Known, senderVars
  <2>1. CASE i = id
    <3>1. taken'[i] = rx.n /\ lastT'[i] = t /\ rx.n # 0
      BY <1>2, <1>3, <1>4, <2>1
    <3>2. QED
      BY <1>2, <2>1, <3>1
  <2>2. CASE i # id
    <3>1. taken'[i] = taken[i] /\ lastT'[i] = lastT[i]
      BY <1>3, <1>4, <2>2
    <3>2. QED
      BY <3>1 DEF DataInv, Known
  <2>3. QED
    BY <2>1, <2>2
<1>7. InHandInv'
  BY <1>3 DEF InHandInv
<1>8. RowsInv'
  <2> SUFFICES ASSUME NEW i \in DOMAIN objects' PROVE objects'[i].val = lastT'[i]
    BY DEF RowsInv
  <2>1. objects' = [j \in DOMAIN objects \cup {id} |->
                      IF j \in {id} THEN [val |-> rows[j], at |-> stamp] ELSE objects[j]]
    BY <1>3 DEF Upsert
  <2>2. CASE i = id
    BY <1>2, <1>3, <1>4, <2>1, <2>2
  <2>3. CASE i # id
    <3>1. i \in DOMAIN objects /\ objects'[i] = objects[i] /\ i \in Ids
      BY <2>1, <2>3 DEF TypeOK
    <3>2. lastT'[i] = lastT[i]
      BY <1>3, <1>4, <2>3, <3>1
    <3>3. QED
      BY <3>1, <3>2 DEF DataInv, RowsInv
  <2>4. QED
    BY <2>2, <2>3
<1>9. PublishedInv'
  BY <1>3 DEF DataInv, PublishedInv, TrailEndsAtRow, tickVars
<1>10. QED
  BY <1>5, <1>6, <1>7, <1>8, <1>9, ApplyTypes, ApplyConserves, ApplyAppends, ApplySatellite
  DEF DataInv

-------------------------------------------------------------------------------
(* The broadcast thread.                                                   *)

\* A snapshot publishes rows and trail points that end at the same samples.
LEMMA SnapshotStep ==
  ASSUME TypeOK, DataInv, TakeSnapshot, drained' = Len(applied),
         UNCHANGED <<senderVars, lastT, taken, applied>>
  PROVE  TypeOK' /\ DataInv'
<1>1. /\ objects' = [i \in Unexpired(tickMono) |-> objects[i]]
      /\ acceptTimes' = LiveTimes(tickMono) /\ pendingTrail' = << >>
      /\ published' = SnapshotAt(tickMono)
      /\ tickPc' = "wait"
      /\ UNCHANGED <<stats, haveSeq, lastSeq, satellite, satelliteT, lastData, now, tickMono,
                     inputVars, historyVars, senderVars, lastT, taken, applied>>
  BY DEF TakeSnapshot, Snapshot
<1>2. Len(applied) \in Nat /\ MaxTrail \in Nat \ {0}
  BY LenProperties, Constants DEF TypeOK
<1>3. TypeOK'
  <2>1. acceptTimes' \in Seq(Nat)
    BY <1>1, LiveTimesType DEF TypeOK
  <2>2. /\ DOMAIN objects' \subseteq Ids
        /\ \A i \in DOMAIN objects' : objects'[i] \in [val : 1 .. MaxFrames, at : Nat]
    BY <1>1 DEF TypeOK, Unexpired
  <2>3. timerAt' \in Nat
    <3>1. timerAt' = IF now + Period > MaxNow THEN MaxNow ELSE now + Period
      BY DEF TakeSnapshot
    <3>2. now \in Nat /\ MaxNow \in Nat /\ Period \in Nat
      BY BackendAssumption DEF TypeOK
    <3>3. QED
      BY <3>1, <3>2
  <2>4. pendingTrail' \in Seq(Sample) /\ Len(pendingTrail') <= MaxTrail
    BY <1>1, <1>2
  <2>5. drained' \in 0 .. Len(applied')
    BY <1>1, <1>2
  <2>6. QED
    BY <1>1, <2>1, <2>2, <2>3, <2>4, <2>5 DEF TypeOK, inputVars, historyVars, senderVars
<1>4. /\ SentInOrder' /\ Known' /\ InHandInv' /\ AppliedInv' /\ SatelliteInv'
  BY <1>1
  DEF DataInv, SentInOrder, Known, InHandInv, StaleBatch, AppliedInv, TrailAscending,
      SatelliteInv, SatelliteIsNewest, senderVars, inputVars
<1>5. TrailConserved'
  <2>1. Len(pendingTrail') = 0 /\ Len(applied') - drained' = 0
    BY <1>1, <1>2
  <2>2. QED
    BY <1>2, <2>1 DEF TrailConserved
<1>6. RowsInv'
  BY <1>1 DEF DataInv, RowsInv, Unexpired
<1>7. PublishedInv'
  <2> DEFINE A == Len(applied)
             P == Len(pendingTrail)
  <2>1. /\ published'.satellite = satellite /\ published'.trail = pendingTrail
        /\ published'.objects = [i \in Unexpired(tickMono) |-> objects[i].val]
    BY <1>1 DEF SnapshotAt
  <2>2. satellite = None \/ satellite.val \in Nat
    BY Constants DEF TypeOK, Times
  <2>3. /\ P \in Nat /\ P <= A
        /\ \A i \in 1 .. P : pendingTrail[i] = applied[A - P + i]
    <3>1. /\ P = IF A - drained > MaxTrail THEN MaxTrail ELSE A - drained
          /\ \A i \in 1 .. P : pendingTrail[i] = applied[A - P + i]
      BY DEF DataInv, TrailConserved
    <3>2. P \in Nat /\ drained \in 0 .. A
      BY LenProperties DEF TypeOK
    <3> HIDE DEF A, P
    <3>3. P <= A
      <4>1. A \in Nat /\ drained \in Nat /\ drained <= A /\ MaxTrail \in Nat
        BY <1>2, <3>2 DEF A
      <4>2. (P = MaxTrail /\ A - drained > MaxTrail) \/ P = A - drained
        BY <3>1
      <4>3. QED
        BY <4>1, <4>2
    <3>4. QED
      BY <3>1, <3>2, <3>3
  <2>4. \A id \in DOMAIN published'.objects :
          id \in DOMAIN objects /\ published'.objects[id] = lastT[id]
    BY <2>1 DEF DataInv, RowsInv, Unexpired
  <2> HIDE DEF A, P
  <2>5. ASSUME NEW i \in 1 .. P,
               \A j \in (i + 1) .. P : pendingTrail[j].id # pendingTrail[i].id,
               pendingTrail[i].id \in DOMAIN published'.objects
        PROVE  published'.objects[pendingTrail[i].id] = pendingTrail[i].t
    <3> DEFINE k == (A - P) + i
    <3>1. k \in 1 .. A /\ pendingTrail[i] = applied[k]
      <4>1. pendingTrail[i] = applied[A - P + i]
        BY <2>3
      <4>2. A \in Nat /\ P \in Nat /\ P <= A /\ i \in 1 .. P
        BY <1>2, <2>3 DEF A
      <4>3. (A - P) + i \in 1 .. A
        BY <4>2
      <4>4. QED
        BY <4>1, <4>3
    <3>2. ASSUME NEW j \in (k + 1) .. A PROVE applied[j].id # applied[k].id
      <4>1. j - (A - P) \in (i + 1) .. P /\ j - (A - P) \in 1 .. P
        BY <1>2, <2>3 DEF A
      <4>2. pendingTrail[j - (A - P)] = applied[j]
        <5>1. pendingTrail[j - (A - P)] = applied[A - P + (j - (A - P))]
          BY <2>3, <4>1
        <5>2. A \in Int /\ P \in Int /\ j \in Int
          BY <1>2, <2>3 DEF A, k
        <5>3. A - P + (j - (A - P)) = j
          BY <5>2
        <5>4. QED
          BY <5>1, <5>3
      <4>3. QED
        BY <2>5, <3>1, <4>1, <4>2
    <3> HIDE DEF k
    <3>3. applied[k].t = lastT[applied[k].id]
      BY <3>1, <3>2 DEF DataInv, AppliedInv, A
    <3>4. QED
      BY <2>4, <2>5, <3>1, <3>3
  <2>6. QED
    BY <2>1, <2>2, <2>5 DEF PublishedInv, TrailEndsAtRow, P
<1>8. QED
  BY <1>3, <1>4, <1>5, <1>6, <1>7 DEF DataInv

\* Time and the beginning of a tick change nothing of the data.
LEMMA ClockStep ==
  ASSUME TypeOK, DataInv, (Advance \/ BeginTick) /\ UNCHANGED <<senderVars, trackVars>>
  PROVE  TypeOK' /\ DataInv'
<1>1. /\ now' \in Nat /\ tickMono' \in Nat /\ tickPc' \in {"wait", "snap"}
      /\ UNCHANGED <<storeVars, timerAt, published, inputVars, historyVars, senderVars, trackVars>>
  <2>1. now \in Nat /\ tickMono \in Nat /\ tickPc \in {"wait", "snap"}
    BY DEF TypeOK
  <2>2. CASE Advance
    <3>1. now' = now + 1
      BY <2>2 DEF Advance
    <3>2. now + 1 \in Nat
      BY <2>1
    <3>3. QED
      BY <2>1, <2>2, <3>1, <3>2 DEF Advance, tickVars
  <2>3. CASE BeginTick
    BY <2>1, <2>3 DEF BeginTick, clockVars
  <2>4. QED
    BY <2>2, <2>3
<1>2. UNCHANGED <<stats, haveSeq, lastSeq, satellite, satelliteT, lastData, objects, acceptTimes,
                  pendingTrail, timerAt, published, pc, rx, stamp, touched, acceptLog,
                  clock, frames, seq, wire, lastT, taken, applied, drained>>
  BY <1>1 DEF storeVars, inputVars, historyVars, senderVars, trackVars
<1>3. TypeOK'
  BY <1>1, <1>2 DEF TypeOK
<1>4. DataInv'
  BY <1>2
  DEF DataInv, SentInOrder, Known, InHandInv, StaleBatch, TrailConserved, AppliedInv,
      TrailAscending, RowsInv, SatelliteInv, SatelliteIsNewest, PublishedInv, TrailEndsAtRow
<1>5. QED
  BY <1>3, <1>4

-------------------------------------------------------------------------------
(* The invariant.                                                          *)

LEMMA InitOK == Init => TypeOK /\ DataInv
<1> SUFFICES ASSUME Init PROVE TypeOK /\ DataInv
  OBVIOUS
<1>1. /\ clock = 0 /\ frames = << >> /\ seq = 0 /\ wire = << >> /\ applied = << >> /\ drained = 0
      /\ lastT = [id \in Ids |-> None] /\ taken = [id \in Ids |-> 0]
      /\ satellite = None /\ satelliteT = None /\ lastData = None /\ objects = << >>
      /\ haveSeq = FALSE /\ lastSeq = 0 /\ acceptTimes = << >> /\ pendingTrail = << >>
      /\ now = 0 /\ tickPc = "wait" /\ tickMono = 0 /\ pc = "receive" /\ rx = None /\ stamp = 0
      /\ acceptLog = << >> /\ touched = [id \in Ids |-> None]
      /\ published = SnapshotAt(0)
      /\ timerAt = IF Period > MaxNow THEN MaxNow ELSE Period
  BY DEF Init, BackendInit, StoreInit
<1>2. /\ Len(<< >>) = 0 /\ DOMAIN << >> = {} /\ << >> \in Seq(Nat) /\ << >> \in Seq(Sample)
      /\ << >> \in Seq(Datagram) /\ << >> \in Seq(Times)
  OBVIOUS
<1>3. TypeOK
  <2>1. stats \in [received : Nat, accepted : Nat, malformed : Nat, stale : Nat]
    BY DEF Init, BackendInit, StoreInit
  <2>2. /\ touched \in [Ids -> Nat \cup {None}] /\ lastT \in [Ids -> (1 .. MaxFrames) \cup {None}]
        /\ taken \in [Ids -> 0 .. Len(wire)]
    BY <1>1, <1>2
  <2>3. /\ DOMAIN objects \subseteq Ids
        /\ \A id \in DOMAIN objects : objects[id] \in [val : 1 .. MaxFrames, at : Nat]
        /\ drained \in 0 .. Len(applied) /\ timerAt \in Nat /\ clock \in 0 .. MaxFrames
        /\ Len(frames) < Batch /\ Len(pendingTrail) <= MaxTrail
    BY <1>1, <1>2, Constants
  <2>4. QED
    BY <1>1, <1>2, <2>1, <2>2, <2>3, Constants DEF TypeOK, Times
<1>4. SentInOrder /\ AppliedInv /\ RowsInv
  BY <1>1, <1>2 DEF SentInOrder, Ascending, AppliedInv, TrailAscending, RowsInv
<1>5. Known /\ InHandInv /\ SatelliteInv
  BY <1>1 DEF Known, InHandInv, SatelliteInv, SatelliteIsNewest
<1>6. TrailConserved
  BY <1>1, <1>2, Constants DEF TrailConserved
<1>7. PublishedInv
  BY <1>1, <1>2 DEF PublishedInv, TrailEndsAtRow, SnapshotAt
<1>8. QED
  BY <1>3, <1>4, <1>5, <1>6, <1>7 DEF DataInv

LEMMA NextOK ==
  ASSUME TypeOK, DataInv, [Next]_vars
  PROVE  TypeOK' /\ DataInv'
<1>1. CASE SendFrame
  BY <1>1, FrameStep
<1>2. ASSUME NEW normally \in BOOLEAN, Restart(normally) PROVE TypeOK' /\ DataInv'
  BY <1>2, RestartStep
<1>3. ASSUME NEW n \in 1 .. Len(wire), NEW intact \in BOOLEAN, Receive(n, intact)
      PROVE  TypeOK' /\ DataInv'
  BY <1>3, ReceiveStep
<1>4. CASE DropMalformed \/ DropStale
  BY <1>4, DropStep
<1>5. CASE Decoded
  BY <1>5, DecodedStep
<1>6. CASE ApplyBatch
  BY <1>6, ApplyStep
<1>7. CASE Tick
  BY <1>7, ClockStep, SnapshotStep DEF Tick
<1>8. CASE TimePasses
  BY <1>8, ClockStep DEF TimePasses
<1>9. CASE UNCHANGED vars
  <2>1. UNCHANGED <<stats, haveSeq, lastSeq, satellite, satelliteT, lastData, objects, acceptTimes,
                    pendingTrail, timerAt, published, pc, rx, stamp, touched, acceptLog, now,
                    tickPc, tickMono, clock, frames, seq, wire, lastT, taken, applied, drained>>
    BY <1>9
    DEF vars, backendVars, storeVars, clockVars, tickVars, inputVars, historyVars, senderVars,
        trackVars
  <2>2. TypeOK'
    BY <2>1 DEF TypeOK
  <2>3. DataInv'
    BY <2>1
    DEF DataInv, SentInOrder, Known, InHandInv, StaleBatch, TrailConserved, AppliedInv,
        TrailAscending, RowsInv, SatelliteInv, SatelliteIsNewest, PublishedInv, TrailEndsAtRow
  <2>4. QED
    BY <2>2, <2>3
<1>10. QED
  BY <1>1, <1>2, <1>3, <1>4, <1>5, <1>6, <1>7, <1>8, <1>9 DEF Next, Handle

LEMMA Invariant == Spec => [](TypeOK /\ DataInv)
<1>1. TypeOK /\ DataInv /\ [Next]_vars => (TypeOK /\ DataInv)'
  BY NextOK
<1>2. QED
  BY <1>1, InitOK, PTL DEF Spec

\* Every variable of OLV2 mode keeps its type, with any number of tracks,
\* frames and datagrams.
THEOREM TypeCorrect == Spec => []TypeOK
BY Invariant, PTL

\* The pending trail is what was accepted since the last snapshot, less the
\* oldest points beyond the cap, and each track's points ascend in time
\* (state_store.cpp:78-82, 110-111; olv2_input_source.cpp:85-95).
THEOREM Reported == Spec => []TrailReported
<1>1. TypeOK /\ DataInv => TrailReported
  BY DEF DataInv, AppliedInv, TrailReported
<1>2. QED
  BY <1>1, Invariant, PTL

\* The satellite is the newest sample accepted on any track
\* (state_store.cpp:67-72).
THEOREM NewestSatellite == Spec => []SatelliteIsNewest
<1>1. TypeOK /\ DataInv => SatelliteIsNewest
  BY DEF DataInv, SatelliteInv
<1>2. QED
  BY <1>1, Invariant, PTL

\* The last trail point of a track in a broadcast is what the track's row shows
\* (state_store.cpp:61-82, 91-111).
THEOREM EndsAtRow == Spec => []TrailEndsAtRow
<1>1. TypeOK /\ DataInv => TrailEndsAtRow
  BY DEF DataInv, PublishedInv
<1>2. QED
  BY <1>1, Invariant, PTL

-------------------------------------------------------------------------------
(* Batches dropped as stale.                                               *)

\* Only the stale path of handleDatagram() counts a stale datagram.
LEMMA StaleOnlyDropped ==
  ASSUME TypeOK, DataInv, [Next]_vars, stats'.stale # stats.stale
  PROVE  DropStale
<1>0. stats \in [received : Nat, accepted : Nat, malformed : Nat, stale : Nat]
  BY DEF TypeOK
<1>1. CASE SendFrame \/ \E normally \in BOOLEAN : Restart(normally)
  BY <1>1 DEF SendFrame, Restart, backendVars, storeVars
<1>2. ASSUME NEW n \in 1 .. Len(wire), NEW intact \in BOOLEAN, Receive(n, intact)
      PROVE  stats'.stale = stats.stale
  BY <1>0, <1>2 DEF Receive, BeginDatagram, CountReceived
<1>3. CASE DropMalformed
  BY <1>0, <1>3 DEF DropMalformed, DropDatagram, CountDropped
<1>4. CASE Decoded
  BY <1>4 DEF Decoded, ReadClock, storeVars
<1>5. CASE ApplyBatch
  <2>1. stats' = [stats EXCEPT !.accepted = @ + 1]
    BY <1>5, Applied
  <2>2. QED
    BY <1>0, <2>1
<1>6. CASE Tick \/ TimePasses
  BY <1>6 DEF Tick, TimePasses, Advance, BeginTick, TakeSnapshot, Snapshot, storeVars
<1>7. CASE UNCHANGED vars
  BY <1>7 DEF vars, backendVars, storeVars
<1>8. QED
  BY <1>1, <1>2, <1>3, <1>4, <1>5, <1>6, <1>7 DEF Next, Handle

\* A conforming sender trips the stale check only with a batch that was sent no
\* later than the last one accepted for its track: for every batch size, every
\* assignment of objects to frames, every reordering the network makes and any
\* number of restarts (olv2_input_source.cpp:85-97).
THEOREM Justified == Spec => StaleJustified
<1>1. TypeOK /\ DataInv /\ [Next]_vars =>
        [stats'.stale # stats.stale => rx.n <= taken[rx.pkt.track]]_stats
  <2> SUFFICES ASSUME TypeOK, DataInv, [Next]_vars, stats'.stale # stats.stale
               PROVE  rx.n <= taken[rx.pkt.track]
    OBVIOUS
  <2> DEFINE n == rx.n
             id == rx.pkt.track
             last == taken[id]
  <2>1. pc = "decode" /\ StaleBatch(rx.pkt)
    BY StaleOnlyDropped DEF DropStale
  <2>2. rx.pkt = wire[n] /\ n \in 1 .. Len(wire)
    BY <2>1 DEF TypeOK, DataInv, InHandInv
  <2>3. Len(wire) \in Nat /\ id \in Ids /\ last \in 0 .. Len(wire)
    <3>1. wire \in Seq(Datagram) /\ taken \in [Ids -> 0 .. Len(wire)]
      BY DEF TypeOK
    <3>2. wire[n] \in Datagram
      BY <2>2, <3>1, ElementOfSeq
    <3>3. id \in Ids
      BY <2>2, <3>2 DEF Datagram
    <3>4. QED
      BY <3>1, <3>3, LenProperties
  <2>4. lastT[id] # None /\ Head(rx.pkt.ts) <= lastT[id]
    BY <2>1 DEF StaleBatch
  <2>5. last # 0 /\ wire[last].track = id /\ lastT[id] = Newest(wire[last].ts)
    BY <2>3, <2>4 DEF DataInv, Known
  <2> HIDE DEF n, id, last
  <2>6. ASSUME last < n PROVE FALSE
    <3>1. last \in 1 .. Len(wire)
      BY <2>3, <2>5
    <3>2. Newest(wire[last].ts) < Head(wire[n].ts)
      BY <2>2, <2>5, <2>6, <3>1 DEF DataInv, SentInOrder, id
    <3>3. Newest(wire[last].ts) \in Nat /\ Head(wire[n].ts) \in Nat
      <4>1. SentInOrder
        BY DEF DataInv
      <4>2. Newest(wire[last].ts) \in Times /\ Head(wire[n].ts) \in Times
        BY <2>2, <3>1, <4>1, OnWire
      <4>3. QED
        BY <4>2, Constants
    <3>4. QED
      BY <2>2, <2>4, <2>5, <3>2, <3>3
  <2>7. n <= last
    BY <2>2, <2>3, <2>6
  <2>8. QED
    BY <2>7 DEF n, id, last
<1>2. QED
  BY <1>1, Invariant, PTL DEF Spec, StaleJustified

-------------------------------------------------------------------------------
(* Freshness and rate of the broadcasts.                                   *)

\* Every step of OLV2 mode is of a kind BackendProofs knows.
LEMMA StepKinds ==
  ASSUME TypeOK, DataInv, Next
  PROVE  ServerNext \/ QuietStep \/ \E rows : AcceptStep(rows)
<1>1. CASE SendFrame \/ \E normally \in BOOLEAN : Restart(normally)
  BY <1>1
  DEF SendFrame, Restart, QuietStep, backendVars, storeVars, clockVars, tickVars, inputVars,
      historyVars
<1>2. ASSUME NEW n \in 1 .. Len(wire), NEW intact \in BOOLEAN, Receive(n, intact)
      PROVE  QuietStep
  BY <1>2 DEF Receive, BeginDatagram, CountReceived, QuietStep, clockVars, tickVars, historyVars
<1>3. CASE DropMalformed \/ DropStale
  BY <1>3
  DEF DropMalformed, DropStale, DropDatagram, CountDropped, QuietStep, clockVars, tickVars,
      historyVars
<1>4. CASE Decoded
  BY <1>4 DEF Decoded, ReadClock, QuietStep, storeVars, clockVars, tickVars, historyVars
<1>5. CASE ApplyBatch
  <2>1. /\ DOMAIN UpdateOf(rx.pkt).rows = {rx.pkt.track}
        /\ objects' = Upsert(objects, UpdateOf(rx.pkt).rows, stamp)
        /\ acceptTimes' = Append(acceptTimes, stamp)
        /\ RecordAccept(UpdateOf(rx.pkt).rows)
        /\ UNCHANGED <<stamp, clockVars, tickVars>>
    BY <1>5, Applied
  <2>2. rx.pkt.track \in Ids
    BY <1>5, BatchInHand DEF ApplyBatch
  <2>3. AcceptStep(UpdateOf(rx.pkt).rows)
    BY <2>1, <2>2 DEF AcceptStep, clockVars
  <2>4. QED
    BY <2>3
<1>6. CASE Tick \/ TimePasses
  BY <1>6 DEF Tick, TimePasses, ServerNext
<1>7. QED
  BY <1>1, <1>2, <1>3, <1>4, <1>5, <1>6 DEF Next, Handle

\* FreshInv and RateInv hold in OLV2 mode.
LEMMA FreshAndRate == Spec => [](FreshInv /\ RateInv)
<1>1. Init => FreshInv /\ RateInv
  <2> SUFFICES ASSUME Init PROVE FreshInv /\ RateInv
    OBVIOUS
  <2>1. /\ now = 0 /\ tickMono = 0 /\ stamp = 0 /\ touched = [id \in Ids |-> None]
        /\ objects = << >> /\ acceptTimes = << >> /\ acceptLog = << >>
    BY DEF Init, BackendInit, StoreInit
  <2>2. FreshInv
    BY <2>1 DEF FreshInv
  <2>3. RateInv
    BY <2>1 DEF RateInv
  <2>4. QED
    BY <2>2, <2>3
<1>2. TypeOK /\ DataInv /\ FreshInv /\ RateInv /\ [Next]_vars => (FreshInv /\ RateInv)'
  <2> SUFFICES ASSUME TypeOK, DataInv, FreshInv, RateInv, [Next]_vars
               PROVE  (FreshInv /\ RateInv)'
    OBVIOUS
  <2>1. CASE Next
    BY <2>1, StepKinds, FreshStep, RateStep
  <2>2. CASE UNCHANGED vars
    BY <2>2
    DEF FreshInv, RateInv, vars, backendVars, storeVars, clockVars, tickVars, inputVars, historyVars
  <2>3. QED
    BY <2>1, <2>2
<1>3. QED
  BY <1>1, <1>2, Invariant, PTL DEF Spec

\* A broadcast shows exactly the objects refreshed within the expiry window
\* (state_store.cpp:91-98).
THEOREM Freshness == Spec => SnapshotFresh
<1>1. TypeOK /\ DataInv /\ FreshInv /\ [Next]_vars =>
        [Broadcast => DOMAIN published'.objects =
           {id \in Ids : touched[id] # None /\ tickMono - touched[id] <= Expiry}]_published
  <2> SUFFICES ASSUME TypeOK, DataInv, FreshInv, [Next]_vars, published' # published
               PROVE  DOMAIN published'.objects =
                 {id \in Ids : touched[id] # None /\ tickMono - touched[id] <= Expiry}
    BY DEF Broadcast
  <2>1. Next
    BY DEF vars, backendVars, tickVars
  <2>2. TakeSnapshot
    BY <2>1, StepKinds, OnlyTicksBroadcast
  <2>3. QED
    BY <2>2, FreshBroadcast
<1>2. QED
  BY <1>1, Invariant, FreshAndRate, PTL DEF Spec, SnapshotFresh

\* The rate a broadcast reports counts exactly the datagrams accepted in the window
\* (state_store.cpp:100-109).
THEOREM Rate == Spec => RateExact
<1>1. TypeOK /\ DataInv /\ FreshInv /\ RateInv /\ [Next]_vars =>
        [Broadcast => published'.rate =
           Cardinality({i \in DOMAIN acceptLog : tickMono - acceptLog[i] <= RateWindow})]_published
  <2> SUFFICES ASSUME TypeOK, DataInv, FreshInv, RateInv, [Next]_vars, published' # published
               PROVE  published'.rate =
                 Cardinality({i \in DOMAIN acceptLog : tickMono - acceptLog[i] <= RateWindow})
    BY DEF Broadcast
  <2>1. Next
    BY DEF vars, backendVars, tickVars
  <2>2. TakeSnapshot
    BY <2>1, StepKinds, OnlyTicksBroadcast
  <2>3. QED
    BY <2>2, RateBroadcast
<1>2. QED
  BY <1>1, Invariant, FreshAndRate, PTL DEF Spec, RateExact


-------------------------------------------------------------------------------
(* The satellite implements LatestFeed.                                    *)

\* Which steps change the satellite and what is published of it.
LEMMA FeedSteps ==
  ASSUME TypeOK, DataInv, [Next]_vars
  PROVE  \/ ApplyBatch /\ published' = published
         \/ TakeSnapshot /\ satelliteT' = satelliteT
         \/ published' = published /\ satelliteT' = satelliteT
<1>1. CASE SendFrame \/ \E normally \in BOOLEAN : Restart(normally)
  BY <1>1 DEF SendFrame, Restart, backendVars, storeVars, tickVars
<1>2. ASSUME NEW n \in 1 .. Len(wire), NEW intact \in BOOLEAN, Receive(n, intact)
      PROVE  published' = published /\ satelliteT' = satelliteT
  BY <1>2 DEF Receive, BeginDatagram, CountReceived, tickVars
<1>3. CASE DropMalformed \/ DropStale
  BY <1>3 DEF DropMalformed, DropStale, DropDatagram, CountDropped, tickVars
<1>4. CASE Decoded
  BY <1>4 DEF Decoded, ReadClock, storeVars, tickVars
<1>5. CASE ApplyBatch
  <2>1. UNCHANGED tickVars
    BY <1>5, Applied
  <2>2. QED
    BY <1>5, <2>1 DEF tickVars
<1>6. CASE Tick \/ TimePasses
  BY <1>6 DEF Tick, TimePasses, Advance, BeginTick, TakeSnapshot, Snapshot, storeVars, tickVars
<1>7. CASE UNCHANGED vars
  BY <1>7 DEF vars, backendVars, storeVars, tickVars
<1>8. QED
  BY <1>1, <1>2, <1>3, <1>4, <1>5, <1>6, <1>7 DEF Next, Handle

\* Every step of OLV2 mode is a step of LatestFeed or a stutter: the satellite's
\* sample time only grows, although batches of several tracks arrive in any
\* order, and a broadcast shows the newest (state_store.cpp:67-72).
THEOREM FeedRefinement == Spec => FeedSafe
<1>1. Init => Feed!Init
  BY DEF Init, BackendInit, StoreInit, SnapshotAt, Feed!Init, latestT, shownT
<1>2. TypeOK /\ DataInv /\ [Next]_vars => [Feed!Next]_(Feed!feedVars)
  <2> SUFFICES ASSUME TypeOK, DataInv, [Next]_vars
               PROVE  Feed!Next \/ UNCHANGED <<latestT, shownT>>
    BY DEF Feed!feedVars
  <2>1. satelliteT = None \/ (satelliteT \in Nat /\ satelliteT > 0)
    BY Constants DEF TypeOK, Times
  <2>2. CASE ApplyBatch /\ published' = published
    <3> DEFINE t == Newest(rx.pkt.ts)
    <3>1. shownT' = shownT
      BY <2>2 DEF shownT
    <3>2. t \in Nat /\ t \in Times
      BY <2>2, BatchInHand DEF ApplyBatch
    <3>3. \/ (satellite = None \/ satelliteT = None \/ t > satelliteT) /\ satelliteT' = t
          \/ satelliteT' = satelliteT
      BY <2>2, Applied
    <3> HIDE DEF t
    <3>4. t > 0 /\ t # None
      BY <3>2, Constants DEF Times
    <3>5. satellite = None => satelliteT = None
      BY DEF DataInv, SatelliteInv
    <3>6. latestT' = latestT \/ (latestT' \in Nat /\ latestT' > latestT)
      BY <2>1, <3>2, <3>3, <3>4, <3>5 DEF latestT
    <3>7. QED
      BY <3>1, <3>6 DEF Feed!Next, Feed!Accept
  <2>3. CASE TakeSnapshot /\ satelliteT' = satelliteT
    <3>1. published'.satellite = satellite
      BY <2>3 DEF TakeSnapshot, SnapshotAt
    <3>2. /\ satellite = None <=> satelliteT = None
          /\ satellite # None => satellite.val = satelliteT
      BY DEF DataInv, SatelliteInv, SatelliteIsNewest
    <3>3. shownT' = latestT /\ latestT' = latestT
      BY <2>3, <3>1, <3>2 DEF shownT, latestT
    <3>4. QED
      BY <3>3 DEF Feed!Next, Feed!Show
  <2>4. CASE published' = published /\ satelliteT' = satelliteT
    BY <2>4 DEF latestT, shownT
  <2>5. QED
    BY <2>2, <2>3, <2>4, FeedSteps
<1>3. QED
  BY <1>1, <1>2, Invariant, PTL DEF Spec, FeedSafe, Feed!SafeSpec

===============================================================================

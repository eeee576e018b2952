--------------------------- MODULE WebSocketProofs ---------------------------
(***************************************************************************)
(* Theorems about the two ends of the WebSocket.                           *)
(*                                                                         *)
(* The server (WsServer): for any number of clients, any queue limit of at *)
(* least two frames and any number of broadcasts.                          *)
(*                                                                         *)
(* The browser (Connection): for every set of endpoints and sockets, the   *)
(* connection waits for exactly one thing, leaks no socket, shows a        *)
(* truthful status and only the current server's state.  The four state    *)
(* properties are one inductive invariant: that a timer and a socket       *)
(* exclude each other needs that only the current socket's events are      *)
(* believed, and OneLiveSocket says what state that socket is in.          *)
(*                                                                         *)
(* Between them (StateMessage): for every snapshot, however many rows it   *)
(* has, what the browser reads of the frame that the server writes.        *)
(***************************************************************************)
EXTENDS WsServer, Connection, StateMessage, TLAPS, SequenceTheorems

-------------------------------------------------------------------------------
(* The bounded queue.                                                      *)

\* Behind its first frame r is the end of q and one frame more.
Shifted(r, q) ==
  /\ Len(r) \in {Len(q), Len(q) + 1}
  /\ \A i \in 2 .. (Len(r) - 1) : r[i] = q[i + (Len(q) + 1 - Len(r))]

\* What send() leaves in a queue that holds at most MaxQueued frames and is
\* being written exactly when it is not empty (ws_server.cpp:46-51, 109-116):
\* the front stays, the new frame is last, and one frame at most is shed.
LEMMA LimitFacts ==
  ASSUME NEW q \in Seq(Nat), NEW f \in Nat, Len(q) <= MaxQueued,
         NEW w \in {0, 1}, w = 1 <=> q # << >>,
         NEW r, r = Limit(Append(q, f), w)
  PROVE  /\ r \in Seq(Nat)
         /\ Len(r) \in 1 .. MaxQueued
         /\ r[Len(r)] = f
         /\ w = 0 => Len(r) = 1
         /\ w = 1 => Len(r) >= 2 /\ r[1] = q[1]
         /\ Shifted(r, q)
<1> DEFINE a == Append(q, f)
<1>0. MaxQueued \in Nat /\ MaxQueued >= 2
  BY WsAssumption
<1>1. /\ Len(q) \in Nat /\ a \in Seq(Nat) /\ Len(a) = Len(q) + 1
      /\ \A i \in 1 .. Len(q) : a[i] = q[i]
      /\ a[Len(a)] = f
      /\ \A i \in 1 .. Len(a) : a[i] \in Nat
  BY AppendProperties, LenProperties, ElementOfSeq
<1>2. CASE Len(q) < MaxQueued
  <2>1. r = a
    BY <1>0, <1>1, <1>2 DEF Limit
  <2>2. w = 1 => Len(q) >= 1
    BY <1>1, EmptySeq
  <2>3. w = 0 => Len(q) = 0
    BY <1>1, EmptySeq
  <2>4. Len(r) = Len(q) + 1 /\ Len(q) + 1 - Len(r) = 0
    BY <1>1, <2>1
  <2>6. \A i \in 2 .. (Len(r) - 1) : r[i] = q[i + 0]
    BY <1>1, <2>1
  <2>5. QED
    BY <1>0, <1>1, <1>2, <2>1, <2>2, <2>3, <2>4, <2>6 DEF Shifted
<1>3. CASE Len(q) = MaxQueued
  <2>1. w = 1
    BY <1>0, <1>3, EmptySeq
  <2> DEFINE s == SubSeq(a, 1, 1)
             t == SubSeq(a, 3, MaxQueued + 1)
  <2>2. r = s \o t
    BY <1>0, <1>1, <1>3, <2>1 DEF Limit
  <2>3. /\ s \in Seq(Nat) /\ Len(s) = 1 /\ s[1] = q[1]
    BY <1>0, <1>1, <1>3, SubSeqProperties
  <2>4. /\ t \in Seq(Nat) /\ Len(t) = MaxQueued - 1
        /\ \A i \in 1 .. Len(t) : t[i] = a[3 + i - 1]
    BY <1>0, <1>1, <1>3, SubSeqProperties
  <2> HIDE DEF s, t
  <2>5. /\ s \o t \in Seq(Nat) /\ Len(s \o t) = MaxQueued
        /\ \A i \in 1 .. MaxQueued : (s \o t)[i] = IF i <= 1 THEN s[i] ELSE t[i - 1]
    <3>1. /\ s \o t \in Seq(Nat) /\ Len(s \o t) = Len(s) + Len(t)
          /\ \A i \in 1 .. Len(s) + Len(t) : (s \o t)[i] =
               IF i <= Len(s) THEN s[i] ELSE t[i - Len(s)]
      BY <2>3, <2>4, ConcatProperties
    <3>2. Len(s) = 1 /\ Len(s) + Len(t) = MaxQueued
      BY <1>0, <2>3, <2>4
    <3>3. QED
      BY <3>1, <3>2
  <2>6. r \in Seq(Nat) /\ Len(r) = MaxQueued /\ r[1] = q[1]
    BY SMTT(30), <1>0, <2>2, <2>3, <2>5
  <2>7. \A i \in 2 .. MaxQueued : r[i] = a[i + 1]
    <3>1. TAKE i \in 2 .. MaxQueued
    <3>2. i - 1 \in 1 .. Len(t) /\ i \in 1 .. MaxQueued /\ ~(i <= 1)
      BY <1>0, <2>4
    <3>3. r[i] = t[i - 1] /\ t[i - 1] = a[3 + (i - 1) - 1]
      BY <2>2, <2>4, <2>5, <3>2
    <3>4. 3 + (i - 1) - 1 = i + 1
      BY <1>0
    <3>5. QED
      BY <3>3, <3>4
  <2>8. r[Len(r)] = f
    BY <1>0, <1>1, <1>3, <2>6, <2>7
  <2>9. \A i \in 2 .. (Len(r) - 1) : r[i] = q[i + 1]
    <3>1. TAKE i \in 2 .. (Len(r) - 1)
    <3>2. i \in 2 .. MaxQueued /\ i + 1 \in 1 .. Len(q)
      BY <1>0, <1>3, <2>6
    <3>3. QED
      BY <1>1, <2>7, <3>2
  <2>10. /\ Len(r) = Len(q) /\ Len(q) + 1 - Len(r) = 1 /\ w # 0
         /\ Len(r) \in 1 .. MaxQueued /\ Len(r) >= 2
    BY <1>0, <1>1, <1>3, <2>1, <2>6
  <2>11. \A i \in 2 .. (Len(r) - 1) : r[i] = q[i + (Len(q) + 1 - Len(r))]
    BY <2>9, <2>10
  <2>12. QED
    BY <2>6, <2>8, <2>10, <2>11 DEF Shifted
<1>4. QED
  BY <1>0, <1>1, <1>2, <1>3

\* An increasing queue stays increasing when a larger frame is sent.
LEMMA LimitOrdered ==
  ASSUME NEW q \in Seq(Nat), NEW f \in Nat, Len(q) <= MaxQueued,
         NEW w \in {0, 1}, w = 1 <=> q # << >>,
         NEW r, r = Limit(Append(q, f), w),
         AtMost(q, f - 1), Increasing(q)
  PROVE  AtMost(r, f) /\ Increasing(r)
<1>1. /\ r \in Seq(Nat)
      /\ Len(r) \in 1 .. MaxQueued
      /\ r[Len(r)] = f
      /\ w = 0 => Len(r) = 1
      /\ w = 1 => Len(r) >= 2 /\ r[1] = q[1]
      /\ Shifted(r, q)
  BY LimitFacts
<1> DEFINE k == Len(q) + 1 - Len(r)
<1>2. Len(q) \in Nat /\ k \in {0, 1} /\ Len(r) = Len(q) + 1 - k
  <2>1. Len(q) \in Nat /\ Len(r) \in Nat
    BY <1>1, LenProperties
  <2>2. QED
    BY <1>1, <2>1 DEF Shifted
<1> HIDE DEF k
<1>3. /\ Len(r) \in Nat /\ Len(q) \in Nat /\ k \in Nat /\ k <= 1
      /\ \A i \in 1 .. Len(q) : q[i] \in Nat
      /\ \A i \in 1 .. Len(r) : r[i] \in Nat
  <2>1. Len(r) \in Nat /\ Len(q) \in Nat
    BY <1>1, LenProperties
  <2>2. \A i \in 1 .. Len(q) : q[i] \in Nat
    BY ElementOfSeq
  <2>3. \A i \in 1 .. Len(r) : r[i] \in Nat
    BY <1>1, ElementOfSeq
  <2>4. QED
    BY <1>2, <2>1, <2>2, <2>3
\* Every frame but the last is one of q, and their positions keep their order.
<1>4. ASSUME NEW i \in 1 .. (Len(r) - 1)
      PROVE  IF i = 1 THEN 1 \in 1 .. Len(q) /\ r[i] = q[1]
                      ELSE i + k \in 1 .. Len(q) /\ r[i] = q[i + k]
  <2>1. w = 1 /\ Len(r) >= 2
    BY <1>1, <1>3
  <2>2. CASE i = 1
    <3>1. Len(q) >= 1
      BY <1>2, <1>3, <2>1
    <3>2. 1 \in 1 .. Len(q) /\ r[1] = q[1]
      BY <1>1, <1>3, <2>1, <3>1
    <3>3. QED
      BY <2>2, <3>2
  <2>3. CASE i # 1
    <3>1. i \in 2 .. (Len(r) - 1)
      BY <1>3, <2>3
    <3>2. r[i] = q[i + k] /\ i + k \in 1 .. Len(q)
      <4>1. r[i] = q[i + k]
        BY <1>1, <3>1 DEF Shifted, k
      <4>2. QED
        BY <1>2, <1>3, <3>1, <4>1
    <3>3. QED
      BY <2>3, <3>2
  <2>4. QED
    BY <2>2, <2>3
<1>5. \A i \in 1 .. (Len(r) - 1) : r[i] < f
  <2>1. \A p \in 1 .. Len(q) : q[p] < f
    BY <1>3 DEF AtMost
  <2>2. QED
    BY <1>4, <2>1
<1>6. \A i \in 1 .. Len(r) : r[i] <= f
  <2>1. TAKE i \in 1 .. Len(r)
  <2>2. CASE i = Len(r)
    BY <1>1, <2>2
  <2>3. CASE i # Len(r)
    <3>1. i \in 1 .. (Len(r) - 1)
      BY <1>3, <2>3
    <3>2. QED
      BY <1>3, <1>5, <3>1
  <2>4. QED
    BY <2>2, <2>3
<1>7. \A i, j \in 1 .. Len(r) : i < j => r[i] < r[j]
  <2>1. SUFFICES ASSUME NEW i \in 1 .. Len(r), NEW j \in 1 .. Len(r), i < j PROVE r[i] < r[j]
    OBVIOUS
  <2>2. i \in 1 .. (Len(r) - 1)
    BY <1>3, <2>1
  <2>3. CASE j = Len(r)
    BY <1>1, <1>5, <2>2, <2>3
  <2>4. CASE j # Len(r)
    <3>1. j \in 1 .. (Len(r) - 1) /\ j # 1
      BY <1>3, <2>1, <2>4
    <3>2. j + k \in 1 .. Len(q) /\ r[j] = q[j + k]
      BY <1>4, <3>1
    <3>3. CASE i = 1
      <4>1. 1 \in 1 .. Len(q) /\ r[i] = q[1] /\ 1 < j + k
        BY <1>3, <1>4, <2>1, <2>2, <3>3
      <4>2. QED
        BY <3>2, <4>1 DEF Increasing
    <3>4. CASE i # 1
      <4>1. i + k \in 1 .. Len(q) /\ r[i] = q[i + k] /\ i + k < j + k
        BY <1>3, <1>4, <2>1, <2>2, <3>4
      <4>2. QED
        BY <3>2, <4>1 DEF Increasing
    <3>5. QED
      BY <3>3, <3>4
  <2>5. QED
    BY <2>3, <2>4
<1>8. QED
  BY <1>6, <1>7 DEF AtMost, Increasing

-------------------------------------------------------------------------------
(* One session through one step.                                           *)

\* A step that leaves the queue of c and what was handed to it alone keeps the
\* order, whatever it does to others.
LEMMA OrderedKept ==
  ASSUME NEW c \in Clients, Ordered(c),
         outbox'[c] = outbox[c], handed'[c] = handed[c], joined'[c] = joined[c],
         joined[c] \in Nat, outbox[c] \in Seq(Nat), handed[c] \in Seq(Nat),
         broadcastSeq \in Nat, broadcastSeq' \in Nat, broadcastSeq' >= broadcastSeq,
         writeOp'[c] = "ok" <=> writeOp[c] = "ok",
         phase'[c] = "open" => phase[c] = "open"
  PROVE  Ordered(c)'
<1>1. /\ \A i \in 1 .. Len(outbox[c]) : outbox[c][i] \in Nat
      /\ \A i \in 1 .. Len(handed[c]) : handed[c][i] \in Nat
  BY ElementOfSeq
<1>2. ASSUME NEW q, \A i \in 1 .. Len(q) : q[i] \in Nat, AtMost(q, broadcastSeq)
      PROVE  AtMost(q, broadcastSeq')
  BY <1>2 DEF AtMost
<1>3. AtMost(outbox[c], broadcastSeq') /\ AtMost(handed[c], broadcastSeq')
  BY <1>1, <1>2 DEF Ordered
<1>4. joined[c] <= broadcastSeq'
  BY DEF Ordered
<1>5. QED
  BY <1>3, <1>4 DEF Ordered

\* The same for the write in flight.
LEMMA WritesKept ==
  ASSUME NEW c \in Clients, Writes(c),
         outbox'[c] = outbox[c], writing'[c] = writing[c], inflight'[c] = inflight[c],
         writeOp'[c] = "none" <=> writeOp[c] = "none",
         c \in sessions' => c \in sessions
  PROVE  Writes(c)'
BY DEF Writes

\* What send() does to one session.
LEMMA EnqueueFacts ==
  ASSUME TypeOK, NEW S \in SUBSET Clients, NEW f \in Nat, Enqueue(S, f), NEW c \in Clients,
         c \in S => ~closed[c]
  PROVE  /\ c \in S => /\ outbox'[c] = Limit(Append(outbox[c], f), Protected(c))
                       /\ writing'[c] = TRUE
                       /\ inflight'[c] = IF writing[c] THEN inflight[c]
                                         ELSE Append(inflight[c], Head(outbox'[c]))
                       /\ writeOp'[c] = IF writing[c] THEN writeOp[c] ELSE "pending"
         /\ c \notin S => /\ outbox'[c] = outbox[c] /\ writing'[c] = writing[c]
                          /\ inflight'[c] = inflight[c] /\ writeOp'[c] = writeOp[c]
BY DEF TypeOK, Enqueue

\* A session that is sent a frame newer than all others.
LEMMA EnqueueSession ==
  ASSUME TypeOK, NEW c \in Clients, Writes(c), Ordered(c), c \in sessions \/ outbox[c] = << >>,
         NEW f \in Nat, broadcastSeq' \in Nat, broadcastSeq' >= broadcastSeq, f <= broadcastSeq',
         AtMost(outbox[c], f - 1), AtMost(handed[c], f - 1),
         handed[c] = << >> /\ outbox[c] = << >> => f = Hello,
         outbox'[c] = Limit(Append(outbox[c], f), Protected(c)),
         writing'[c] = TRUE,
         inflight'[c] = IF writing[c] THEN inflight[c] ELSE Append(inflight[c], Head(outbox'[c])),
         writeOp'[c] = IF writing[c] THEN writeOp[c] ELSE "pending",
         handed'[c] = handed[c], joined'[c] \in {joined[c], broadcastSeq}
  PROVE  /\ outbox'[c] \in Seq(Nat) /\ Len(outbox'[c]) <= MaxQueued
         /\ inflight'[c] \in Seq(Nat) /\ Len(inflight'[c]) <= 1
         /\ Writes(c)' /\ Ordered(c)'
<1> DEFINE q == outbox[c]
           h == handed[c]
           r == outbox'[c]
<1>1. /\ q \in Seq(Nat) /\ h \in Seq(Nat) /\ Len(q) <= MaxQueued
      /\ writing[c] \in BOOLEAN /\ inflight[c] \in Seq(Nat)
      /\ joined[c] \in Nat /\ broadcastSeq \in Nat /\ joined[c] <= broadcastSeq
  BY DEF TypeOK, Ordered
<1>2. /\ Len(q) \in Nat /\ \A i \in 1 .. Len(q) : q[i] \in Nat /\ q[i] <= broadcastSeq
      /\ Len(h) \in Nat /\ \A i \in 1 .. Len(h) : h[i] \in Nat /\ h[i] <= f - 1
  BY <1>1, ElementOfSeq, LenProperties DEF Ordered, AtMost
<1>3. /\ writing[c] <=> q # << >>
      /\ Protected(c) \in {0, 1} /\ (Protected(c) = 1 <=> writing[c])
  BY DEF Writes, Protected
<1>4. r = Limit(Append(q, f), Protected(c)) /\ AtMost(q, f - 1)
  OBVIOUS
<1>5. Increasing(q) /\ Increasing(h)
  BY DEF Ordered
<1> HIDE DEF q, h, r
<1>6. /\ r \in Seq(Nat)
      /\ Len(r) \in 1 .. MaxQueued
      /\ r[Len(r)] = f
      /\ Protected(c) = 0 => Len(r) = 1
      /\ Protected(c) = 1 => Len(r) >= 2 /\ r[1] = q[1]
  BY SMTT(30), <1>1, <1>3, <1>4, LimitFacts
<1>7. AtMost(r, f) /\ Increasing(r)
  BY <1>1, <1>3, <1>4, <1>5, LimitOrdered
<1>8. Len(r) \in Nat /\ r # << >> /\ Head(r) = r[1] /\ r[1] \in Nat /\ MaxQueued \in Nat
  <2>1. MaxQueued \in Nat /\ Len(r) \in Nat /\ Len(r) >= 1 /\ \A i \in 1 .. Len(r) : r[i] \in Nat
    BY <1>6, LenProperties, ElementOfSeq, WsAssumption
  <2>2. r # << >>
    BY <2>1, EmptySeq
  <2>3. QED
    BY <1>6, <2>1, <2>2
<1>9. Writes(c)' /\ inflight'[c] = <<r[1]>>
  <2>1. inflight[c] = IF writing[c] THEN <<Head(q)>> ELSE << >>
    BY DEF Writes, q
  <2>2. writing[c] => Head(q) = r[1]
    BY <1>1, <1>3, <1>6
  <2>3. inflight'[c] = IF writing[c] THEN inflight[c] ELSE Append(inflight[c], r[1])
    BY <1>8 DEF r
  <2>4. inflight'[c] = <<r[1]>>
    BY <2>1, <2>2, <2>3
  <2>5. writeOp'[c] # "none"
    BY DEF Writes
  <2>6. QED
    BY <1>8, <2>4, <2>5 DEF Writes, r
<1>10. Ordered(c)'
  <2>1. AtMost(r, broadcastSeq')
    <3> SUFFICES \A i \in 1 .. Len(r) : r[i] <= broadcastSeq'
      BY DEF AtMost
    <3>1. TAKE i \in 1 .. Len(r)
    <3>2. r[i] <= f /\ r[i] \in Nat
      BY <1>6, <1>7, ElementOfSeq DEF AtMost
    <3>3. QED
      BY <3>2
  <2>2. AtMost(h, broadcastSeq')
    <3> SUFFICES \A i \in 1 .. Len(h) : h[i] <= broadcastSeq'
      BY DEF AtMost
    <3>1. TAKE i \in 1 .. Len(h)
    <3>2. h[i] \in Nat /\ h[i] <= f - 1
      BY <1>2 DEF h
    <3>3. QED
      BY <3>2
  <2>3. joined'[c] <= broadcastSeq'
    BY <1>1
  <2>5. /\ IF h = << >> THEN r[1] = Hello ELSE h[1] = Hello
        /\ writeOp'[c] = "ok" => h # << >> /\ h[Len(h)] = r[1]
        /\ (writeOp'[c] # "ok" /\ h # << >>) => h[Len(h)] < r[1]
    <3>1. CASE writing[c]
      <4>1. r[1] = q[1] /\ q # << >> /\ writeOp'[c] = writeOp[c]
        BY <1>3, <1>6, <3>1
      <4>2. QED
        BY <4>1 DEF Ordered, h, q
    <3>2. CASE ~writing[c]
      <4>1. q = << >> /\ writeOp'[c] = "pending" /\ r[1] = f
        BY <1>3, <1>6, <3>2
      <4>2. h # << >> => h[Len(h)] < f
        <5>1. h # << >> => Len(h) \in 1 .. Len(h)
          BY <1>1, <1>2, EmptySeq
        <5>2. QED
          BY <1>2, <5>1
      <4>3. h = << >> => f = Hello
        BY <4>1 DEF h, q
      <4>4. h # << >> => h[1] = Hello
        BY DEF Ordered, h
      <4>5. QED
        BY <4>1, <4>2, <4>3, <4>4
    <3>3. QED
      BY <3>1, <3>2
  <2>6. handed'[c] = h /\ outbox'[c] = r
    BY DEF h, r
  <2>7. QED
    BY <1>7, <1>8, <2>1, <2>2, <2>3, <2>5, <2>6, <1>5 DEF Ordered
<1>11. inflight'[c] \in Seq(Nat) /\ Len(inflight'[c]) <= 1
  <2>1. \A x \in Nat : <<x>> \in Seq(Nat) /\ Len(<<x>>) <= 1
    OBVIOUS
  <2>2. r[1] \in Nat /\ inflight'[c] = <<r[1]>>
    BY <1>8, <1>9
  <2>3. QED
    BY <2>1, <2>2, Zenon
<1>12. QED
  <2>1. Len(r) <= MaxQueued
    BY <1>6, <1>8
  <2>2. QED
    BY <1>6, <1>9, <1>10, <1>11, <2>1 DEF r

-------------------------------------------------------------------------------
(* The invariant, action by action.                                        *)

\* A step that queues nothing, transfers nothing and registers nobody.
LEMMA QuietSession ==
  ASSUME TypeOK, SessionInv,
         UNCHANGED <<queueVars, inflight, handed, joined, broadcastSeq>>,
         \A d \in Clients : /\ writeOp'[d] = "none" <=> writeOp[d] = "none"
                            /\ writeOp'[d] = "ok" <=> writeOp[d] = "ok"
                            /\ phase'[d] = "open" => phase[d] = "open",
         sessions' \subseteq sessions
  PROVE  \A d \in Clients : Writes(d)' /\ Ordered(d)'
<1> TAKE d \in Clients
<1>1. /\ outbox' = outbox /\ writing' = writing /\ inflight' = inflight
      /\ handed' = handed /\ joined' = joined /\ broadcastSeq' = broadcastSeq
  BY DEF queueVars
<1>2. /\ joined[d] \in Nat /\ outbox[d] \in Seq(Nat) /\ handed[d] \in Seq(Nat)
      /\ broadcastSeq \in Nat
  BY DEF TypeOK
<1>3. Writes(d)'
  BY <1>1, WritesKept DEF SessionInv
<1>4. Ordered(d)'
  BY <1>1, <1>2, OrderedKept DEF SessionInv
<1>5. QED
  BY <1>3, <1>4

LEMMA AcceptStep ==
  ASSUME TypeOK, SessionInv, NEW c \in Clients, Accept(c) \/ HandshakeFails(c)
  PROVE  TypeOK' /\ SessionInv'
<1>1. /\ phase' \in [Clients -> {"none", "handshake", "open", "failed"}]
      /\ phase'[c] # "open" /\ phase[c] # "open"
      /\ \A d \in Clients \ {c} : phase'[d] = phase[d]
      /\ UNCHANGED <<serverVars, closed, queueVars, writeVars, readOp, gone, handed, joined>>
  BY DEF TypeOK, Accept, HandshakeFails
<1>2. TypeOK'
  BY <1>1 DEF TypeOK, serverVars, queueVars, writeVars
<1>3. \A d \in Clients : Writes(d)' /\ Ordered(d)'
  <2>1. \A d \in Clients : phase'[d] = "open" => phase[d] = "open"
    BY <1>1
  <2>2. QED
    BY <1>1, <2>1, QuietSession DEF serverVars, writeVars
<1>4. \A d \in Clients : Owned(d)'
  BY <1>1 DEF SessionInv, Owned, serverVars, queueVars, writeVars
<1>5. QED
  BY <1>2, <1>3, <1>4 DEF SessionInv

LEMMA OnReadStep ==
  ASSUME TypeOK, SessionInv, NEW c \in Clients, OnRead(c)
  PROVE  TypeOK' /\ SessionInv'
<1>1. /\ closed' \in [Clients -> BOOLEAN] /\ sessions' \subseteq sessions
      /\ readOp' \in [Clients -> {"none", "pending", "ok", "err"}]
      /\ \A d \in Clients \ {c} : closed'[d] = closed[d] /\ readOp'[d] = readOp[d]
                                  /\ (d \in sessions' <=> d \in sessions)
      /\ phase[c] = "open"
      /\ UNCHANGED <<running, broadcastSeq, phase, queueVars, writeVars, gone, handed, joined>>
  <2>1. phase[c] = "open" /\ UNCHANGED <<running, broadcastSeq, phase, queueVars, writeVars, gone, handed, joined>>
    BY DEF SessionInv, Owned, OnRead
  <2>2. /\ readOp' \in [Clients -> {"none", "pending", "ok", "err"}]
        /\ \A d \in Clients \ {c} : readOp'[d] = readOp[d]
    BY DEF TypeOK, OnRead
  <2>3. \/ UNCHANGED <<closed, sessions>>
        \/ closed' = [closed EXCEPT ![c] = TRUE] /\ sessions' = sessions \ {c}
    BY DEF OnRead, Fail
  <2>4. /\ closed' \in [Clients -> BOOLEAN] /\ sessions' \subseteq sessions
        /\ \A d \in Clients \ {c} : closed'[d] = closed[d] /\ (d \in sessions' <=> d \in sessions)
    BY <2>3 DEF TypeOK
  <2>5. QED
    BY <2>1, <2>2, <2>4
<1>2. TypeOK'
  BY <1>1 DEF TypeOK, queueVars, writeVars
<1>3. \A d \in Clients : Writes(d)' /\ Ordered(d)'
  BY <1>1, QuietSession DEF queueVars, writeVars
<1>4. ASSUME NEW d \in Clients PROVE Owned(d)'
  <2>1. CASE d # c
    BY <1>1, <2>1 DEF SessionInv, Owned, queueVars, writeVars
  <2>2. CASE d = c /\ readOp[c] = "err"
    <3>1. closed'[c] = TRUE /\ c \notin sessions'
      BY <2>2 DEF TypeOK, OnRead, Fail, SessionInv, Owned
    <3>2. QED
      BY <1>1, <2>2, <3>1 DEF SessionInv, Owned
  <2>3. CASE d = c /\ readOp[c] # "err"
    <3>1. readOp'[c] = "pending" /\ closed' = closed /\ sessions' = sessions
      BY <2>3 DEF TypeOK, OnRead
    <3>2. QED
      BY <1>1, <2>3, <3>1 DEF SessionInv, Owned
  <2>4. QED
    BY <2>1, <2>2, <2>3
<1>5. QED
  BY <1>2, <1>3, <1>4 DEF SessionInv

LEMMA ShutdownStep ==
  ASSUME TypeOK, SessionInv, Shutdown
  PROVE  TypeOK' /\ SessionInv'
<1>1. /\ running' = FALSE /\ sessions' = {} /\ closed' \in [Clients -> BOOLEAN]
      /\ \A d \in Clients : IF phase[d] = "open" THEN closed'[d] ELSE closed'[d] = closed[d]
      /\ UNCHANGED <<broadcastSeq, phase, queueVars, writeVars, readOp, gone, handed, joined>>
  <2>1. /\ closed' = [d \in Clients |-> closed[d] \/ d \in sessions]
        /\ closed \in [Clients -> BOOLEAN]
        /\ running' = FALSE /\ sessions' = {}
        /\ UNCHANGED <<broadcastSeq, phase, queueVars, writeVars, readOp, gone, handed, joined>>
    BY DEF TypeOK, Shutdown
  <2>2. \A d \in Clients : IF phase[d] = "open" THEN closed[d] \/ d \in sessions
                                               ELSE d \notin sessions
    BY DEF SessionInv, Owned
  <2>3. QED
    BY <2>1, <2>2
<1>2. TypeOK'
  BY <1>1 DEF TypeOK, queueVars, writeVars
<1>3. \A d \in Clients : Writes(d)' /\ Ordered(d)'
  BY <1>1, QuietSession DEF queueVars, writeVars
<1>4. \A d \in Clients : Owned(d)'
  BY <1>1 DEF SessionInv, Owned, queueVars, writeVars
<1>5. QED
  BY <1>2, <1>3, <1>4 DEF SessionInv

LEMMA TransportStep ==
  ASSUME TypeOK, SessionInv, NEW c \in Clients,
         \/ PeerLeaves(c)
         \/ \E result \in {"ok", "err"} : ReadCompletes(c, result)
         \/ WriteFails(c)
  PROVE  TypeOK' /\ SessionInv'
<1>1. /\ readOp' \in [Clients -> {"none", "pending", "ok", "err"}]
      /\ writeOp' \in [Clients -> {"none", "pending", "ok", "err"}]
      /\ gone' \subseteq Clients
      /\ \A d \in Clients : /\ readOp'[d] = "none" <=> readOp[d] = "none"
                            /\ writeOp'[d] = "none" <=> writeOp[d] = "none"
                            /\ writeOp'[d] = "ok" <=> writeOp[d] = "ok"
      /\ UNCHANGED <<serverVars, phase, closed, queueVars, inflight, handed, joined>>
  <2>0. /\ readOp \in [Clients -> {"none", "pending", "ok", "err"}]
        /\ writeOp \in [Clients -> {"none", "pending", "ok", "err"}]
        /\ gone \subseteq Clients
    BY DEF TypeOK
  <2>1. CASE PeerLeaves(c)
    <3>1. readOp' = readOp /\ writeOp' = writeOp /\ inflight' = inflight /\ gone' = gone \cup {c}
      BY <2>1 DEF PeerLeaves, writeVars
    <3>2. UNCHANGED <<serverVars, phase, closed, queueVars, handed, joined>>
      BY <2>1 DEF PeerLeaves
    <3>3. QED
      BY <2>0, <3>1, <3>2
  <2>2. ASSUME NEW result \in {"ok", "err"}, ReadCompletes(c, result)
        PROVE  <1>1!:
    <3>1. /\ readOp[c] = "pending" /\ readOp' = [readOp EXCEPT ![c] = result]
          /\ writeOp' = writeOp /\ inflight' = inflight /\ gone' = gone
      BY <2>2 DEF ReadCompletes, writeVars
    <3>2. UNCHANGED <<serverVars, phase, closed, queueVars, handed, joined>>
      BY <2>2 DEF ReadCompletes
    <3>3. QED
      BY <2>0, <3>1, <3>2
  <2>3. CASE WriteFails(c)
    <3>1. /\ writeOp[c] = "pending" /\ writeOp' = [writeOp EXCEPT ![c] = "err"]
          /\ readOp' = readOp /\ inflight' = inflight /\ gone' = gone
      BY <2>3 DEF WriteFails
    <3>2. UNCHANGED <<serverVars, phase, closed, queueVars, handed, joined>>
      BY <2>3 DEF WriteFails
    <3>3. QED
      BY <2>0, <3>1, <3>2
  <2>4. QED
    BY <2>1, <2>2, <2>3
<1>2. TypeOK'
  BY <1>1 DEF TypeOK, serverVars, queueVars
<1>3. \A d \in Clients : Writes(d)' /\ Ordered(d)'
  BY <1>1, QuietSession DEF serverVars
<1>4. \A d \in Clients : Owned(d)'
  BY <1>1 DEF SessionInv, Owned, serverVars, queueVars
<1>5. QED
  BY <1>2, <1>3, <1>4 DEF SessionInv

LEMMA WriteSucceedsStep ==
  ASSUME TypeOK, SessionInv, NEW c \in Clients, WriteSucceeds(c)
  PROVE  TypeOK' /\ SessionInv'
<1> DEFINE q == outbox[c]
           h == handed[c]
<1>1. /\ Writes(c) /\ Ordered(c) /\ Owned(c) /\ writeOp[c] = "pending"
      /\ q \in Seq(Nat) /\ h \in Seq(Nat) /\ Len(h) \in Nat
      /\ UNCHANGED <<serverVars, phase, closed, queueVars, inflight, readOp, gone, joined>>
      /\ \A d \in Clients \ {c} : handed'[d] = handed[d] /\ writeOp'[d] = writeOp[d]
      /\ writeOp' \in [Clients -> {"none", "pending", "ok", "err"}] /\ writeOp'[c] = "ok"
      /\ handed'[c] = Append(h, Head(inflight[c]))
  BY LenProperties DEF TypeOK, SessionInv, WriteSucceeds
<1>2. q # << >> /\ writing[c] /\ inflight[c] = <<q[1]>> /\ Head(inflight[c]) = q[1]
  BY <1>1 DEF Writes
<1>3. q[1] \in Nat /\ q[1] <= broadcastSeq
  <2>1. 1 \in 1 .. Len(q)
    BY <1>1, <1>2, EmptySeq
  <2>2. QED
    BY <1>1, <2>1, ElementOfSeq DEF Ordered, AtMost
<1> DEFINE g == Append(h, q[1])
<1>4. /\ g \in Seq(Nat) /\ Len(g) = Len(h) + 1 /\ g # << >>
      /\ \A i \in 1 .. Len(h) : g[i] = h[i]
      /\ g[Len(h) + 1] = q[1]
  <2>1. /\ g \in Seq(Nat) /\ Len(g) = Len(h) + 1
        /\ \A i \in 1 .. Len(h) : g[i] = h[i]
        /\ g[Len(h) + 1] = q[1]
    BY <1>1, <1>3, AppendProperties
  <2>2. QED
    BY SMTT(30), <1>1, <2>1, EmptySeq
<1>5. handed'[c] = g
  BY <1>1, <1>2
<1>6. TypeOK'
  <2>1. handed' \in [Clients -> Seq(Nat)]
    BY <1>4, <1>5 DEF TypeOK, WriteSucceeds
  <2>2. QED
    BY <1>1, <2>1 DEF TypeOK, serverVars, queueVars
<1>7. \A d \in Clients : Owned(d)'
  BY <1>1 DEF SessionInv, Owned, serverVars, queueVars
<1>8. \A d \in Clients : Writes(d)'
  BY <1>1 DEF SessionInv, Writes, serverVars, queueVars
<1>9. ASSUME NEW d \in Clients, d # c PROVE Ordered(d)'
  BY <1>1, <1>9 DEF SessionInv, Ordered, serverVars, queueVars
<1>10. Ordered(c)'
  <2>1. /\ \A i \in 1 .. Len(h) : h[i] \in Nat /\ h[i] <= broadcastSeq
        /\ h # << >> => h[Len(h)] < q[1] /\ Len(h) >= 1
    BY <1>1, <1>2, ElementOfSeq, EmptySeq DEF Ordered, AtMost
  <2> HIDE DEF g
  <2>2. AtMost(g, broadcastSeq)
    <3>1. SUFFICES ASSUME NEW i \in 1 .. Len(g) PROVE g[i] <= broadcastSeq
      BY DEF AtMost
    <3>2. i \in 1 .. Len(h) \/ i = Len(h) + 1
      BY <1>1, <1>4
    <3>3. QED
      BY <1>3, <1>4, <2>1, <3>2
  <2>3. \A i \in 1 .. Len(h) : h[i] < q[1]
    <3>1. TAKE i \in 1 .. Len(h)
    <3>2. h # << >> /\ Len(h) \in 1 .. Len(h)
      BY <1>1, EmptySeq
    <3>3. h[i] <= h[Len(h)]
      <4>1. CASE i = Len(h)
        BY <2>1, <4>1
      <4>2. CASE i # Len(h)
        <5>1. i < Len(h) /\ Increasing(h)
          BY <1>1, <4>2 DEF Ordered
        <5>2. h[i] < h[Len(h)]
          BY <3>2, <5>1 DEF Increasing
        <5>3. QED
          BY <2>1, <3>2, <5>2
      <4>3. QED
        BY <4>1, <4>2
    <3>4. QED
      BY <1>3, <2>1, <3>2, <3>3
  <2>4. Increasing(g)
    <3>1. SUFFICES ASSUME NEW i \in 1 .. Len(g), NEW j \in 1 .. Len(g), i < j PROVE g[i] < g[j]
      BY DEF Increasing
    <3>2. i \in 1 .. Len(h) /\ g[i] = h[i]
      BY SMTT(30), <1>1, <1>4, <3>1
    <3>3. CASE j = Len(h) + 1
      BY <1>4, <2>3, <3>2, <3>3
    <3>4. CASE j # Len(h) + 1
      <4>1. j \in 1 .. Len(h)
        BY <1>1, <1>4, <3>4
      <4>2. g[j] = h[j] /\ Increasing(h)
        BY <1>1, <1>4, <4>1 DEF Ordered
      <4>3. QED
        BY <3>1, <3>2, <4>1, <4>2 DEF Increasing
    <3>5. QED
      BY <3>3, <3>4
  <2>5. g[1] = Hello
    <3>1. CASE h = << >>
      <4>1. q[1] = Hello /\ Len(h) = 0
        BY <1>1, <1>2, <3>1 DEF Ordered
      <4>2. QED
        BY <1>4, <4>1
    <3>2. CASE h # << >>
      <4>1. h[1] = Hello /\ 1 \in 1 .. Len(h)
        BY <1>1, <2>1, <3>2 DEF Ordered
      <4>2. QED
        BY <1>4, <4>1
    <3>3. QED
      BY <3>1, <3>2
  <2>6. g[Len(g)] = q[1]
    BY <1>4
  <2>7. QED
    BY <1>1, <1>4, <1>5, <2>2, <2>4, <2>5, <2>6 DEF Ordered, serverVars, queueVars
<1>11. QED
  BY <1>6, <1>7, <1>8, <1>9, <1>10 DEF SessionInv

LEMMA TailShift ==
  ASSUME NEW q \in Seq(Nat), q # << >>
  PROVE  /\ Tail(q) \in Seq(Nat) /\ Len(Tail(q)) = Len(q) - 1
         /\ \A i \in 1 .. Len(Tail(q)) : i + 1 \in 1 .. Len(q) /\ Tail(q)[i] = q[i + 1]
<1>1. /\ Tail(q) \in Seq(Nat) /\ Len(Tail(q)) = Len(q) - 1
      /\ \A i \in 1 .. Len(Tail(q)) : Tail(q)[i] = q[i + 1]
  BY HeadTailProperties
<1>2. ASSUME NEW i \in 1 .. Len(Tail(q)) PROVE i + 1 \in 1 .. Len(q)
  <2>1. Len(q) \in Nat
    OBVIOUS
  <2>2. QED
    BY <1>1, <2>1
<1>3. QED
  BY <1>1, <1>2

LEMMA OnWriteStep ==
  ASSUME TypeOK, SessionInv, NEW c \in Clients, OnWrite(c)
  PROVE  TypeOK' /\ SessionInv'
<1> DEFINE q == outbox[c]
           h == handed[c]
<1>1. /\ Writes(c) /\ Ordered(c) /\ Owned(c) /\ writeOp[c] \in {"ok", "err"}
      /\ q \in Seq(Nat) /\ h \in Seq(Nat) /\ Len(q) \in Nat /\ Len(q) <= MaxQueued
      /\ UNCHANGED <<running, broadcastSeq, phase, readOp, gone, handed, joined>>
      /\ MaxQueued \in Nat
  BY LenProperties, WsAssumption DEF TypeOK, SessionInv, OnWrite
<1>2. /\ q # << >> /\ Len(q) >= 1 /\ inflight[c] = <<q[1]>> /\ Tail(inflight[c]) = << >>
      /\ phase[c] = "open"
  <2>1. q # << >> /\ writing[c] /\ inflight[c] = <<Head(q)>>
    BY <1>1 DEF Writes
  <2>2. Len(q) >= 1
    BY <1>1, <2>1, EmptySeq
  <2>3. Head(q) = q[1] /\ Tail(<<q[1]>>) = << >>
    BY <1>1, <2>1
  <2>4. phase[c] = "open"
    BY <2>1 DEF SessionInv, Owned
  <2>5. QED
    BY <2>1, <2>2, <2>3, <2>4
<1>3. \A i \in 1 .. Len(q) : q[i] \in Nat /\ q[i] <= broadcastSeq
  BY <1>1, ElementOfSeq DEF Ordered, AtMost
<1>4. /\ \A d \in Clients \ {c} :
           /\ closed'[d] = closed[d] /\ (d \in sessions' <=> d \in sessions)
           /\ outbox'[d] = outbox[d] /\ writing'[d] = writing[d]
           /\ inflight'[d] = inflight[d] /\ writeOp'[d] = writeOp[d]
      /\ sessions' \subseteq sessions
      /\ closed' \in [Clients -> BOOLEAN]
      /\ warned' \in [Clients -> BOOLEAN]
      /\ writing' \in [Clients -> BOOLEAN] /\ (writing'[c] <=> WritesOn(c))
      /\ writeOp' \in [Clients -> {"none", "pending", "ok", "err"}]
      /\ writeOp'[c] = IF WritesOn(c) THEN "pending" ELSE "none"
  <2>1. \/ UNCHANGED <<closed, sessions>>
        \/ closed' = [closed EXCEPT ![c] = TRUE] /\ sessions' = sessions \ {c}
    BY DEF OnWrite, Fail
  <2>2. /\ sessions' \subseteq sessions /\ closed' \in [Clients -> BOOLEAN]
        /\ \A d \in Clients \ {c} : closed'[d] = closed[d] /\ (d \in sessions' <=> d \in sessions)
    BY <2>1 DEF TypeOK
  <2>3. \/ outbox' = outbox /\ warned' = warned
        \/ /\ outbox' = [outbox EXCEPT ![c] = Tail(@)]
           /\ warned' = [warned EXCEPT ![c] = warned[c] /\ Len(outbox[c]) > 1]
    BY DEF OnWrite, BurstGoesOn
  <2>4. /\ \A d \in Clients \ {c} : outbox'[d] = outbox[d]
        /\ warned' \in [Clients -> BOOLEAN]
    BY <2>3 DEF TypeOK
  <2>5. WritesOn(c) \in BOOLEAN
    BY DEF WritesOn
  <2>6. /\ \A d \in Clients \ {c} : /\ writing'[d] = writing[d]
                                    /\ inflight'[d] = inflight[d] /\ writeOp'[d] = writeOp[d]
        /\ writing' \in [Clients -> BOOLEAN] /\ (writing'[c] <=> WritesOn(c))
        /\ writeOp' \in [Clients -> {"none", "pending", "ok", "err"}]
        /\ writeOp'[c] = IF WritesOn(c) THEN "pending" ELSE "none"
    BY <2>5 DEF TypeOK, OnWrite
  <2>7. QED
    BY <2>2, <2>4, <2>6
<1>5. /\ inflight' \in [Clients -> Seq(Nat)] /\ \A d \in Clients : Len(inflight'[d]) <= 1
      /\ inflight'[c] = IF WritesOn(c) THEN <<q[2]>> ELSE << >>
  <2>1. /\ inflight'[c] = << >> \o (IF WritesOn(c) THEN <<q[2]>> ELSE << >>)
        /\ DOMAIN inflight' = Clients
        /\ inflight' = [d \in Clients |-> inflight'[d]]
    BY <1>2 DEF TypeOK, OnWrite
  <2>2. WritesOn(c) => q[2] \in Nat
    BY <1>1, <1>3 DEF WritesOn
  <2>3. inflight'[c] = IF WritesOn(c) THEN <<q[2]>> ELSE << >>
    BY <2>1
  <2>4. \A x \in Nat : <<x>> \in Seq(Nat) /\ Len(<<x>>) <= 1
    OBVIOUS
  <2>5. << >> \in Seq(Nat) /\ Len(<< >>) <= 1
    OBVIOUS
  <2>6. inflight'[c] \in Seq(Nat) /\ Len(inflight'[c]) <= 1
    BY <2>2, <2>3, <2>4, <2>5, Zenon
  <2>7. \A d \in Clients : inflight'[d] \in Seq(Nat) /\ Len(inflight'[d]) <= 1
    BY <1>4, <2>6 DEF TypeOK
  <2>8. QED
    BY <2>1, <2>3, <2>7
<1>6. ASSUME NEW d \in Clients, d # c PROVE Owned(d)' /\ Writes(d)' /\ Ordered(d)'
  <2>1. /\ outbox'[d] = outbox[d] /\ writing'[d] = writing[d] /\ closed'[d] = closed[d]
        /\ inflight'[d] = inflight[d] /\ writeOp'[d] = writeOp[d] /\ readOp'[d] = readOp[d]
        /\ handed'[d] = handed[d] /\ joined'[d] = joined[d] /\ phase'[d] = phase[d]
        /\ broadcastSeq' = broadcastSeq /\ running' = running
        /\ (d \in sessions' <=> d \in sessions)
    BY <1>1, <1>4, <1>6
  <2>2. /\ joined[d] \in Nat /\ outbox[d] \in Seq(Nat) /\ handed[d] \in Seq(Nat)
        /\ broadcastSeq \in Nat /\ Owned(d) /\ Writes(d) /\ Ordered(d)
    BY DEF TypeOK, SessionInv
  <2>3. Ordered(d)'
    BY <2>1, <2>2, OrderedKept
  <2>4. Writes(d)'
    BY <2>1, <2>2, WritesKept
  <2>5. Owned(d)'
    BY <2>1, <2>2 DEF Owned
  <2>6. QED
    BY <2>3, <2>4, <2>5
<1>7. CASE writeOp[c] = "err"
  <2>1. /\ ~WritesOn(c) /\ outbox' = outbox
        /\ closed'[c] = TRUE /\ c \notin sessions'
    BY <1>1, <1>7 DEF OnWrite, WritesOn, Fail, TypeOK, Owned
  <2>2. TypeOK'
    BY <1>1, <1>4, <1>5, <2>1 DEF TypeOK
  <2>3. Owned(c)' /\ Writes(c)'
    BY <1>1, <1>2, <1>4, <1>5, <2>1 DEF Owned, Writes
  <2>4. Ordered(c)'
    BY <1>1, <1>4, <1>7, <2>1 DEF Ordered
  <2>5. ASSUME NEW d \in Clients, d # c PROVE Owned(d)' /\ Writes(d)' /\ Ordered(d)'
    BY <1>1, <1>4, <1>6, <2>5
  <2>6. QED
    BY <2>2, <2>3, <2>4, <2>5 DEF SessionInv
<1>8. CASE writeOp[c] = "ok"
  <2> DEFINE t == Tail(q)
  <2>1. /\ t \in Seq(Nat) /\ Len(t) = Len(q) - 1
        /\ \A i \in 1 .. Len(t) : i + 1 \in 1 .. Len(q) /\ t[i] = q[i + 1]
    <3>1. q \in Seq(Nat) /\ q # << >>
      BY <1>1, <1>2
    <3>2. QED
      BY <3>1, TailShift
  <2>2. /\ outbox' \in [Clients -> Seq(Nat)] /\ outbox'[c] = t
        /\ closed' = closed /\ sessions' = sessions
    <3>1. /\ outbox' = [outbox EXCEPT ![c] = t] /\ closed' = closed /\ sessions' = sessions
      BY <1>8 DEF OnWrite
    <3>2. outbox \in [Clients -> Seq(Nat)]
      BY DEF TypeOK
    <3> HIDE DEF t
    <3>3. QED
      BY <2>1, <3>1, <3>2
  <2>3. t # << >> <=> WritesOn(c)
    <3>1. t # << >> <=> Len(t) # 0
      BY <2>1, EmptySeq
    <3>2. WritesOn(c) <=> Len(q) > 1
      BY <1>8 DEF WritesOn
    <3>3. Len(t) # 0 <=> Len(q) > 1
      <4>1. Len(q) \in Nat /\ Len(q) >= 1 /\ Len(t) = Len(q) - 1
        BY <1>1, <1>2, <2>1
      <4> HIDE DEF t, q
      <4>2. QED
        BY <4>1
    <3>4. QED
      BY <3>1, <3>2, <3>3, Zenon
  <2> HIDE DEF t
  <2>4. t # << >> => 1 \in 1 .. Len(t) /\ t[1] = q[2] /\ 2 \in 1 .. Len(q) /\ 1 \in 1 .. Len(q)
    BY <1>1, <2>1, <2>3 DEF WritesOn
  <2>5. Len(outbox'[c]) <= MaxQueued
    BY <1>1, <2>1, <2>2
  <2>6. TypeOK'
    <3>1. \A d \in Clients : Len(outbox'[d]) <= MaxQueued
      BY <1>4, <2>5 DEF TypeOK
    <3>2. QED
      BY <1>1, <1>4, <1>5, <2>2, <3>1 DEF TypeOK
  <2>7. Owned(c)'
    BY <1>1, <1>2, <1>4, <2>2 DEF Owned
  <2>8. Writes(c)'
    <3>1. t # << >> => Head(t) = q[2]
      BY <2>1, <2>4
    <3>2. QED
      BY <1>4, <1>5, <2>2, <2>3, <3>1 DEF Writes
  <2>9. Ordered(c)'
    <3>1. AtMost(t, broadcastSeq)
      <4>1. SUFFICES ASSUME NEW i \in 1 .. Len(t) PROVE t[i] <= broadcastSeq
        BY DEF AtMost
      <4>2. i + 1 \in 1 .. Len(q) /\ t[i] = q[i + 1]
        BY <2>1
      <4>3. QED
        BY <1>3, <4>2
    <3>2. Increasing(t)
      <4>1. SUFFICES ASSUME NEW i \in 1 .. Len(t), NEW j \in 1 .. Len(t), i < j PROVE t[i] < t[j]
        BY DEF Increasing
      <4>2. /\ i + 1 \in 1 .. Len(q) /\ t[i] = q[i + 1]
            /\ j + 1 \in 1 .. Len(q) /\ t[j] = q[j + 1]
        BY <2>1
      <4>3. i + 1 < j + 1
        BY <4>1
      <4>4. Increasing(q)
        BY <1>1 DEF Ordered
      <4>5. QED
        BY <4>2, <4>3, <4>4 DEF Increasing
    <3>3. h # << >> /\ h[Len(h)] = q[1]
      BY <1>1, <1>8 DEF Ordered
    <3>4. t # << >> => h[Len(h)] < t[1]
      <4>1. Increasing(q)
        BY <1>1 DEF Ordered
      <4>2. QED
        BY <2>4, <3>3, <4>1 DEF Increasing
    <3>5. h[1] = Hello
      BY <1>1, <3>3 DEF Ordered
    <3>6. writeOp'[c] # "ok" /\ handed'[c] = h
      BY <1>1, <1>4
    <3>7. QED
      BY <1>1, <2>2, <3>1, <3>2, <3>3, <3>4, <3>5, <3>6 DEF Ordered
  <2>10. ASSUME NEW d \in Clients, d # c PROVE Owned(d)' /\ Writes(d)' /\ Ordered(d)'
    BY <1>1, <1>4, <1>6, <2>10
  <2>11. QED
    BY <2>6, <2>7, <2>8, <2>9, <2>10 DEF SessionInv
<1>9. QED
  BY <1>1, <1>7, <1>8

LEMMA OnAcceptStep ==
  ASSUME TypeOK, SessionInv, NEW c \in Clients, OnAccept(c)
  PROVE  TypeOK' /\ SessionInv'
<1>1. /\ outbox[c] = << >> /\ handed[c] = << >> /\ ~closed[c] /\ ~writing[c]
      /\ running = TRUE /\ broadcastSeq \in Nat
      /\ phase' = [phase EXCEPT ![c] = "open"] /\ sessions' = sessions \cup {c}
      /\ readOp' = [readOp EXCEPT ![c] = "pending"]
      /\ joined' = [joined EXCEPT ![c] = broadcastSeq]
      /\ UNCHANGED <<running, broadcastSeq, closed, gone, handed>>
      /\ Enqueue({c}, Hello)
  BY DEF TypeOK, SessionInv, Owned, Writes, OnAccept
<1>2. ASSUME NEW d \in Clients
      PROVE  /\ d = c => /\ outbox'[d] = Limit(Append(outbox[d], Hello), Protected(d))
                         /\ writing'[d] = TRUE
                         /\ inflight'[d] = IF writing[d] THEN inflight[d]
                                           ELSE Append(inflight[d], Head(outbox'[d]))
                         /\ writeOp'[d] = IF writing[d] THEN writeOp[d] ELSE "pending"
             /\ d # c => /\ outbox'[d] = outbox[d] /\ writing'[d] = writing[d]
                         /\ inflight'[d] = inflight[d] /\ writeOp'[d] = writeOp[d]
  <2>1. Hello \in Nat /\ {c} \in SUBSET Clients
    BY DEF Hello
  <2>2. d \in {c} => ~closed[d]
    BY <1>1
  <2>3. /\ d \in {c} => /\ outbox'[d] = Limit(Append(outbox[d], Hello), Protected(d))
                        /\ writing'[d] = TRUE
                        /\ inflight'[d] = IF writing[d] THEN inflight[d]
                                          ELSE Append(inflight[d], Head(outbox'[d]))
                        /\ writeOp'[d] = IF writing[d] THEN writeOp[d] ELSE "pending"
        /\ d \notin {c} => /\ outbox'[d] = outbox[d] /\ writing'[d] = writing[d]
                           /\ inflight'[d] = inflight[d] /\ writeOp'[d] = writeOp[d]
    BY <1>1, <2>1, <2>2, EnqueueFacts
  <2>4. QED
    BY <2>3
<1>3. /\ outbox'[c] \in Seq(Nat) /\ Len(outbox'[c]) <= MaxQueued
      /\ inflight'[c] \in Seq(Nat) /\ Len(inflight'[c]) <= 1
      /\ Writes(c)' /\ Ordered(c)'
  <2>1. AtMost(outbox[c], Hello - 1) /\ AtMost(handed[c], Hello - 1)
    BY <1>1 DEF AtMost
  <2>2. /\ broadcastSeq' \in Nat /\ broadcastSeq' >= broadcastSeq /\ Hello <= broadcastSeq'
        /\ Hello \in Nat /\ handed'[c] = handed[c] /\ joined'[c] = broadcastSeq
        /\ Writes(c) /\ Ordered(c)
    BY <1>1 DEF Hello, TypeOK, SessionInv
  <2>3. QED
    BY <1>1, <1>2, <2>1, <2>2, EnqueueSession
<1>4. ASSUME NEW d \in Clients, d # c
      PROVE  /\ outbox'[d] \in Seq(Nat) /\ Len(outbox'[d]) <= MaxQueued
             /\ inflight'[d] \in Seq(Nat) /\ Len(inflight'[d]) <= 1
             /\ Owned(d)' /\ Writes(d)' /\ Ordered(d)'
  <2>1. /\ outbox'[d] = outbox[d] /\ writing'[d] = writing[d] /\ closed'[d] = closed[d]
        /\ inflight'[d] = inflight[d] /\ writeOp'[d] = writeOp[d] /\ readOp'[d] = readOp[d]
        /\ handed'[d] = handed[d] /\ joined'[d] = joined[d] /\ phase'[d] = phase[d]
        /\ broadcastSeq' = broadcastSeq /\ running' = running
        /\ (d \in sessions' <=> d \in sessions)
    BY <1>1, <1>2, <1>4 DEF TypeOK
  <2>2. /\ Owned(d) /\ Writes(d) /\ Ordered(d)
        /\ joined[d] \in Nat /\ outbox[d] \in Seq(Nat) /\ handed[d] \in Seq(Nat)
        /\ broadcastSeq \in Nat
    BY DEF TypeOK, SessionInv
  <2>3. Ordered(d)'
    BY <2>1, <2>2, OrderedKept
  <2>4. Writes(d)'
    BY <2>1, <2>2, WritesKept
  <2>5. Owned(d)'
    BY <2>1, <2>2 DEF Owned
  <2>6. QED
    BY <2>1, <2>3, <2>4, <2>5 DEF TypeOK
<1>5. Owned(c)'
  BY <1>1 DEF TypeOK, Owned
<1>6. TypeOK'
  <2>1. /\ DOMAIN outbox' = Clients /\ outbox' = [d \in Clients |-> outbox'[d]]
        /\ DOMAIN inflight' = Clients /\ inflight' = [d \in Clients |-> inflight'[d]]
        /\ writing' \in [Clients -> BOOLEAN] /\ warned' \in [Clients -> BOOLEAN]
        /\ writeOp' \in [Clients -> {"none", "pending", "ok", "err"}]
    BY <1>1 DEF Enqueue, TypeOK
  <2>2. \A d \in Clients : /\ outbox'[d] \in Seq(Nat) /\ Len(outbox'[d]) <= MaxQueued
                           /\ inflight'[d] \in Seq(Nat) /\ Len(inflight'[d]) <= 1
    BY <1>3, <1>4
  <2>3. outbox' \in [Clients -> Seq(Nat)] /\ inflight' \in [Clients -> Seq(Nat)]
    BY <2>1, <2>2
  <2>4. QED
    BY <1>1, <2>1, <2>2, <2>3 DEF TypeOK
<1>7. QED
  BY <1>3, <1>4, <1>5, <1>6 DEF SessionInv

LEMMA BroadcastStep ==
  ASSUME TypeOK, SessionInv, BroadcastTick
  PROVE  TypeOK' /\ SessionInv'
<1> DEFINE f == broadcastSeq + 1
<1>1. /\ broadcastSeq \in Nat /\ f \in Nat /\ broadcastSeq' = f /\ f # Hello
      /\ UNCHANGED <<running, sessions, phase, closed, readOp, gone, handed, joined>>
      /\ Enqueue(sessions, f) /\ sessions \in SUBSET Clients
  BY DEF TypeOK, BroadcastTick, Hello
<1> HIDE DEF f
<1>2. ASSUME NEW d \in Clients
      PROVE  /\ Owned(d) /\ Writes(d) /\ Ordered(d)
             /\ joined[d] \in Nat /\ outbox[d] \in Seq(Nat) /\ handed[d] \in Seq(Nat)
  BY DEF TypeOK, SessionInv
<1>3. ASSUME NEW d \in sessions
      PROVE  /\ outbox'[d] \in Seq(Nat) /\ Len(outbox'[d]) <= MaxQueued
             /\ inflight'[d] \in Seq(Nat) /\ Len(inflight'[d]) <= 1
             /\ Writes(d)' /\ Ordered(d)'
  <2>0. d \in Clients /\ ~closed[d] /\ phase[d] = "open"
    BY <1>1, <1>2 DEF Owned
  <2>1. /\ outbox'[d] = Limit(Append(outbox[d], f), Protected(d))
        /\ writing'[d] = TRUE
        /\ inflight'[d] = IF writing[d] THEN inflight[d]
                          ELSE Append(inflight[d], Head(outbox'[d]))
        /\ writeOp'[d] = IF writing[d] THEN writeOp[d] ELSE "pending"
    BY <1>1, <2>0, EnqueueFacts
  <2>2. AtMost(outbox[d], f - 1) /\ AtMost(handed[d], f - 1)
    <3>1. f - 1 = broadcastSeq
      BY <1>1 DEF f
    <3>2. QED
      BY <1>2, <2>0, <3>1 DEF Ordered
  <2>3. ~(handed[d] = << >> /\ outbox[d] = << >>)
    BY <1>2, <2>0 DEF Ordered
  <2>4. /\ broadcastSeq' \in Nat /\ broadcastSeq' >= broadcastSeq /\ f <= broadcastSeq'
        /\ handed'[d] = handed[d] /\ joined'[d] = joined[d]
    BY <1>1 DEF f
  <2>5. QED
    BY <1>1, <1>2, <2>0, <2>1, <2>2, <2>3, <2>4, EnqueueSession
<1>4. ASSUME NEW d \in Clients, d \notin sessions
      PROVE  /\ outbox'[d] \in Seq(Nat) /\ Len(outbox'[d]) <= MaxQueued
             /\ inflight'[d] \in Seq(Nat) /\ Len(inflight'[d]) <= 1
             /\ Writes(d)' /\ Ordered(d)'
             /\ outbox'[d] = outbox[d] /\ writeOp'[d] = writeOp[d]
  <2>1. /\ outbox'[d] = outbox[d] /\ writing'[d] = writing[d]
        /\ inflight'[d] = inflight[d] /\ writeOp'[d] = writeOp[d]
    BY <1>1, <1>4, EnqueueFacts
  <2>2. /\ handed'[d] = handed[d] /\ joined'[d] = joined[d] /\ phase'[d] = phase[d]
        /\ broadcastSeq' \in Nat /\ broadcastSeq' >= broadcastSeq /\ sessions' = sessions
    BY <1>1 DEF f
  <2>3. Ordered(d)'
    BY <1>1, <1>2, <2>1, <2>2, OrderedKept
  <2>4. Writes(d)'
    BY <1>2, <2>1, <2>2, WritesKept
  <2>5. QED
    BY <2>1, <2>3, <2>4 DEF TypeOK
<1>5. ASSUME NEW d \in Clients PROVE Owned(d)'
  <2>1. phase[d] # "open" => d \notin sessions
    BY <1>2 DEF Owned
  <2>2. QED
    BY <1>1, <1>2, <1>4, <2>1 DEF Owned
<1>6. TypeOK'
  <2>1. /\ DOMAIN outbox' = Clients /\ outbox' = [d \in Clients |-> outbox'[d]]
        /\ DOMAIN inflight' = Clients /\ inflight' = [d \in Clients |-> inflight'[d]]
        /\ writing' \in [Clients -> BOOLEAN] /\ warned' \in [Clients -> BOOLEAN]
        /\ writeOp' \in [Clients -> {"none", "pending", "ok", "err"}]
    BY <1>1 DEF Enqueue, TypeOK
  <2>2. \A d \in Clients : /\ outbox'[d] \in Seq(Nat) /\ Len(outbox'[d]) <= MaxQueued
                           /\ inflight'[d] \in Seq(Nat) /\ Len(inflight'[d]) <= 1
    BY <1>3, <1>4
  <2>3. outbox' \in [Clients -> Seq(Nat)] /\ inflight' \in [Clients -> Seq(Nat)]
    BY <2>1, <2>2
  <2>4. QED
    BY <1>1, <2>1, <2>2, <2>3 DEF TypeOK
<1>7. QED
  BY <1>3, <1>4, <1>5, <1>6 DEF SessionInv

-------------------------------------------------------------------------------
(* Theorems.                                                               *)

LEMMA Invariant == Spec => [](TypeOK /\ SessionInv)
<1>1. Init => TypeOK /\ SessionInv
  <2> SUFFICES ASSUME Init PROVE TypeOK /\ SessionInv
    OBVIOUS
  <2>1. << >> \in Seq(Nat) /\ Len(<< >>) = 0 /\ MaxQueued \in Nat
    BY WsAssumption
  <2>2. TypeOK
    BY <2>1 DEF Init, TypeOK
  <2>3. SessionInv
    BY DEF Init, SessionInv, Owned, Writes, Ordered, AtMost, Increasing
  <2>4. QED
    BY <2>2, <2>3
<1>2. TypeOK /\ SessionInv /\ [Next]_vars => (TypeOK /\ SessionInv)'
  <2> SUFFICES ASSUME TypeOK, SessionInv, [Next]_vars PROVE TypeOK' /\ SessionInv'
    OBVIOUS
  <2>1. ASSUME NEW c \in Clients, Handlers(c) PROVE TypeOK' /\ SessionInv'
    BY <2>1, AcceptStep, OnAcceptStep, OnReadStep, OnWriteStep DEF Handlers
  <2>2. ASSUME NEW c \in Clients, Transport(c) PROVE TypeOK' /\ SessionInv'
    BY <2>2, TransportStep, WriteSucceedsStep DEF Transport
  <2>3. CASE BroadcastTick
    BY <2>3, BroadcastStep
  <2>4. CASE Shutdown
    BY <2>4, ShutdownStep
  <2>5. CASE UNCHANGED vars
    BY <2>5 DEF TypeOK, SessionInv, Owned, Writes, Ordered, vars, serverVars, queueVars, writeVars
  <2>6. QED
    BY <2>1, <2>2, <2>3, <2>4, <2>5 DEF Next
<1>3. QED
  BY <1>1, <1>2, PTL DEF Spec

\* Every field keeps its type, a queue never outgrows kMaxQueuedFrames and no
\* session has two writes outstanding (ws_server.cpp:46-51, 88-121).
THEOREM TypeCorrect == Spec => []TypeOK
BY Invariant, PTL

\* The buffer given to async_write stays the front of the outbox until its
\* handler runs, however the queue is shed meanwhile (ws_server.cpp:109-116).
THEOREM BufferPreserved == Spec => []InFlightPreserved
<1>1. SessionInv => InFlightPreserved
  BY DEF SessionInv, Writes, InFlightPreserved
<1>2. QED
  BY <1>1, Invariant, PTL

\* The registry holds exactly the open sessions, each with its read loop alive,
\* in whatever order reads and writes fail (ws_server.cpp:62-86, 123-132).
THEOREM Registry == Spec => []RegistryExact
<1>1. TypeOK /\ SessionInv => RegistryExact
  BY DEF TypeOK, SessionInv, Owned, RegistryExact
<1>2. QED
  BY <1>1, Invariant, PTL

\* Every client is handed hello first and state frames in increasing order
\* after it, at any speed (ws_server.cpp:62-71, 95-107).
THEOREM InOrder == Spec => []HandedInOrder
<1>1. SessionInv => HandedInOrder
  BY DEF SessionInv, Ordered, HandedInOrder
<1>2. QED
  BY <1>1, Invariant, PTL

-------------------------------------------------------------------------------
(* What is queued for a session.                                           *)

\* A step that queues nothing, transfers nothing and registers nobody.
LEMMA BacklogKept ==
  ASSUME BacklogInv,
         UNCHANGED <<outbox, warned, handed, joined, broadcastSeq>>,
         \A d \in Clients : writeOp'[d] = "ok" <=> writeOp[d] = "ok",
         sessions' \subseteq sessions
  PROVE  BacklogInv'
<1> SUFFICES ASSUME NEW d \in Clients PROVE Later(d)' /\ (d \in sessions' => Backlog(d)')
  BY DEF BacklogInv
<1>1. Later(d) /\ (d \in sessions' => Backlog(d)) /\ (writeOp'[d] = "ok" <=> writeOp[d] = "ok")
  BY DEF BacklogInv
<1>2. Later(d)'
  BY <1>1 DEF Later
<1>3. ASSUME Backlog(d) PROVE Backlog(d)'
  BY <1>1, <1>3 DEF Backlog, After, NewestFor
<1>4. QED
  BY <1>1, <1>2, <1>3

\* A registered session: its newest frame and what comes after it.
LEMMA NewestFacts ==
  ASSUME TypeOK, SessionInv, NEW c \in Clients
  PROVE  /\ joined[c] \in Nat /\ broadcastSeq \in Nat /\ joined[c] <= broadcastSeq
         /\ NewestFor(c) \in Nat /\ After(c, NewestFor(c)) = broadcastSeq + 1
         /\ NewestFor(c) # Hello => NewestFor(c) = broadcastSeq
         /\ outbox[c] \in Seq(Nat) /\ Len(outbox[c]) \in Nat /\ Len(outbox[c]) <= MaxQueued
         /\ \A i \in 1 .. Len(outbox[c]) : outbox[c][i] \in Nat
         /\ handed[c] \in Seq(Nat) /\ Len(handed[c]) \in Nat
         /\ outbox[c] # << >> <=> Len(outbox[c]) >= 1
<1>1. /\ joined[c] \in Nat /\ broadcastSeq \in Nat /\ joined[c] <= broadcastSeq
      /\ outbox[c] \in Seq(Nat) /\ Len(outbox[c]) <= MaxQueued /\ handed[c] \in Seq(Nat)
  BY DEF TypeOK, SessionInv, Ordered
<1>2. /\ Len(outbox[c]) \in Nat /\ Len(handed[c]) \in Nat
      /\ \A i \in 1 .. Len(outbox[c]) : outbox[c][i] \in Nat
      /\ outbox[c] # << >> <=> Len(outbox[c]) # 0
  BY <1>1, LenProperties, ElementOfSeq, EmptySeq
<1>3. outbox[c] # << >> <=> Len(outbox[c]) >= 1
  BY <1>2
<1>4. QED
  BY <1>1, <1>2, <1>3 DEF NewestFor, After, Hello

\* A broadcast: the queue goes on with the newest frame, and where it sheds a
\* frame the session is warned.
LEMMA BacklogBroadcast ==
  ASSUME TypeOK, SessionInv, BacklogInv, BroadcastTick
  PROVE  BacklogInv'
<1> DEFINE f == broadcastSeq + 1
<1>1. /\ broadcastSeq \in Nat /\ f \in Nat /\ broadcastSeq' = f
      /\ UNCHANGED <<sessions, handed, joined>>
      /\ Enqueue(sessions, f) /\ sessions \in SUBSET Clients
      /\ MaxQueued \in Nat /\ MaxQueued >= 2
  BY WsAssumption DEF TypeOK, BroadcastTick
<1> SUFFICES ASSUME NEW c \in Clients PROVE Later(c)' /\ (c \in sessions' => Backlog(c)')
  BY DEF BacklogInv
<1>2. Later(c) /\ (c \in sessions => Backlog(c)) /\ Owned(c) /\ Writes(c) /\ Ordered(c)
  BY DEF BacklogInv, SessionInv
<1>3. c \in sessions => ~closed[c] /\ phase[c] = "open"
  BY <1>2 DEF Owned
<1> HIDE DEF f
<1>4. CASE c \notin sessions
  <2>1. outbox'[c] = outbox[c] /\ joined'[c] = joined[c] /\ c \notin sessions'
    BY <1>1, <1>3, <1>4, EnqueueFacts
  <2>2. QED
    BY <1>2, <2>1 DEF Later
<1>5. CASE c \in sessions
  <2> DEFINE q == outbox[c]
             r == outbox'[c]
             w == Protected(c)
  <2>1. /\ r = Limit(Append(q, f), w)
        /\ writeOp'[c] = IF writing[c] THEN writeOp[c] ELSE "pending"
    BY <1>1, <1>3, <1>5, EnqueueFacts
  <2>2. /\ joined[c] \in Nat /\ joined[c] <= broadcastSeq
        /\ NewestFor(c) \in Nat /\ After(c, NewestFor(c)) = f
        /\ NewestFor(c) # Hello => NewestFor(c) = broadcastSeq
        /\ q \in Seq(Nat) /\ Len(q) \in Nat /\ Len(q) <= MaxQueued
        /\ \A i \in 1 .. Len(q) : q[i] \in Nat
        /\ q # << >> <=> Len(q) >= 1
    BY NewestFacts DEF f
  <2>3. warned'[c] <=> (warned[c] \/ Len(q) >= MaxQueued)
    BY <1>1, <1>3, <1>5 DEF Enqueue, Overflows
  <2>4. (writing[c] <=> q # << >>) /\ w \in {0, 1} /\ (w = 1 <=> q # << >>)
    BY <1>2, <1>5 DEF Writes, Protected
  <2>5. Increasing(q) /\ (q # << >> => q[Len(q)] = NewestFor(c))
    BY <1>2, <1>5 DEF Ordered, Backlog
  <2>6. /\ \A i \in 3 .. Len(q) : q[i] = q[i - 1] + 1
        /\ ~warned[c] => \A i \in 2 .. Len(q) : q[i] = After(c, q[i - 1])
        /\ \A i \in 1 .. Len(q) : q[i] = Hello \/ q[i] > joined[c]
    BY <1>2, <1>5 DEF Backlog, Later
  <2> HIDE DEF q, r, w
  <2>7. /\ r \in Seq(Nat) /\ Len(r) \in 1 .. MaxQueued /\ r[Len(r)] = f
        /\ w = 0 => Len(r) = 1
        /\ w = 1 => Len(r) >= 2 /\ r[1] = q[1]
        /\ Shifted(r, q)
    BY <1>1, <2>1, <2>2, <2>4, LimitFacts
  <2>8. Len(r) \in Nat /\ Len(r) >= 1 /\ r # << >>
    BY <1>1, <2>7, EmptySeq
  <2> DEFINE k == Len(q) + 1 - Len(r)
  <2>9. k \in {0, 1} /\ Len(r) = Len(q) + 1 - k
    BY <2>2, <2>7, <2>8 DEF Shifted
  <2>10. \A i \in 2 .. (Len(r) - 1) : i + k \in 2 .. Len(q) /\ r[i] = q[i + k]
    <3>1. \A i \in 2 .. (Len(r) - 1) : r[i] = q[i + k]
      BY <2>7 DEF Shifted
    <3> HIDE DEF k
    <3>2. \A i \in 2 .. (Len(r) - 1) : i + k \in 2 .. Len(q)
      BY <2>2, <2>8, <2>9
    <3>3. QED
      BY <3>1, <3>2
  <2> HIDE DEF k
  <2>11. NewestFor(c)' = f /\ f > joined[c] /\ joined'[c] = joined[c]
    <3>1. joined'[c] = joined[c] /\ f > joined[c]
      BY <1>1, <2>2 DEF f
    <3>2. QED
      BY <1>1, <2>2, <3>1 DEF NewestFor
  <2>12. Later(c)'
    <3> SUFFICES ASSUME NEW i \in 1 .. Len(r) PROVE r[i] = Hello \/ r[i] > joined[c]
      BY <2>11 DEF Later, r
    <3>1. CASE i = Len(r)
      BY <2>7, <2>11, <3>1
    <3>2. CASE i # Len(r) /\ i = 1
      <4>1. r[1] = q[1] /\ 1 \in 1 .. Len(q)
        BY <2>2, <2>4, <2>7, <2>8, <3>2
      <4>2. QED
        BY <2>6, <3>2, <4>1
    <3>3. CASE i # Len(r) /\ i # 1
      <4>1. i + k \in 2 .. Len(q) /\ r[i] = q[i + k]
        BY <2>8, <2>10, <3>3
      <4>2. i + k \in 1 .. Len(q)
        BY <2>2, <4>1
      <4>3. QED
        BY <2>6, <4>1, <4>2
    <3>4. QED
      BY <3>1, <3>2, <3>3
  <2>13. \A i \in 3 .. Len(r) : r[i] = r[i - 1] + 1
    <3>1. TAKE i \in 3 .. Len(r)
    <3>2. i - 1 \in 2 .. (Len(r) - 1) /\ i - 1 + k \in 2 .. Len(q) /\ r[i - 1] = q[i - 1 + k]
      <4>1. i - 1 \in 2 .. (Len(r) - 1)
        BY <2>8
      <4>2. QED
        BY <2>10, <4>1
    <3>3. CASE i = Len(r)
      <4>1. i - 1 + k = Len(q) /\ Len(q) >= 2
        BY <2>2, <2>8, <2>9, <3>2, <3>3
      <4>2. q[Len(q)] = NewestFor(c) /\ q[1] < q[Len(q)] /\ q[1] \in Nat
        BY <2>2, <2>5, <4>1 DEF Increasing
      <4>3. q[Len(q)] = broadcastSeq
        BY <2>2, <4>2 DEF Hello
      <4>4. QED
        BY <2>7, <3>2, <3>3, <4>1, <4>3 DEF f
    <3>4. CASE i # Len(r)
      <4>1. i \in 2 .. (Len(r) - 1)
        BY <2>8, <3>4
      <4>2. r[i] = q[i + k] /\ i + k \in 3 .. Len(q)
        BY <2>2, <2>9, <2>10, <3>2, <4>1
      <4>3. q[i + k] = q[(i + k) - 1] + 1
        BY <2>6, <4>2
      <4>4. (i + k) - 1 = i - 1 + k
        BY <2>9
      <4>5. QED
        BY <3>2, <4>2, <4>3, <4>4
    <3>5. QED
      BY <3>3, <3>4
  <2>14. ASSUME ~warned'[c]
         PROVE  /\ \A i \in 2 .. Len(r) : r[i] = After(c, r[i - 1])
                /\ handed[c] # << >> /\ writeOp'[c] # "ok" => r[1] = After(c, handed[c][Len(handed[c])])
    <3>1. ~warned[c] /\ Len(q) < MaxQueued
      BY <1>1, <2>2, <2>3, <2>14
    <3>2. r = Append(q, f)
      <4>1. Len(Append(q, f)) = Len(q) + 1
        BY <1>1, <2>2, AppendProperties
      <4>2. QED
        BY <1>1, <2>1, <2>2, <3>1, <4>1 DEF Limit
    <3>3. Len(r) = Len(q) + 1 /\ (\A i \in 1 .. Len(q) : r[i] = q[i]) /\ r[Len(q) + 1] = f
      BY <1>1, <2>2, <3>2, AppendProperties
    <3>4. ASSUME NEW i \in 2 .. Len(r) PROVE r[i] = After(c, r[i - 1])
      <4>1. CASE i = Len(r)
        <5>1. i - 1 = Len(q) /\ Len(q) \in 1 .. Len(q)
          BY <2>2, <3>3, <4>1
        <5>2. r[i - 1] = NewestFor(c) /\ r[i] = f
          BY <2>2, <2>5, <3>3, <4>1, <5>1
        <5>3. QED
          BY <2>2, <5>2
      <4>2. CASE i # Len(r)
        <5>1. i \in 2 .. Len(q) /\ i \in 1 .. Len(q) /\ i - 1 \in 1 .. Len(q)
          BY <2>2, <3>3, <4>2
        <5>2. r[i] = q[i] /\ r[i - 1] = q[i - 1]
          BY <3>3, <5>1
        <5>3. QED
          BY <2>6, <3>1, <5>1, <5>2
      <4>3. QED
        BY <4>1, <4>2
    <3>5. ASSUME handed[c] # << >>, writeOp'[c] # "ok"
          PROVE  r[1] = After(c, handed[c][Len(handed[c])])
      <4>1. CASE q = << >>
        <5>1. handed[c][Len(handed[c])] = NewestFor(c)
          BY <1>2, <1>5, <4>1 DEF Backlog, q
        <5>2. r[1] = f
          BY <2>4, <2>7, <4>1
        <5>3. QED
          BY <2>2, <5>1, <5>2
      <4>2. CASE q # << >>
        <5>1. writeOp[c] # "ok" /\ r[1] = q[1]
          BY <2>1, <2>4, <2>7, <3>5, <4>2
        <5>2. QED
          BY <1>2, <1>5, <3>1, <3>5, <4>2, <5>1 DEF Backlog, q
      <4>3. QED
        BY <4>1, <4>2
    <3>6. QED
      BY <3>4, <3>5
  <2>15. Backlog(c)'
    <3>1. \A x \in Nat : After(c, x)' = After(c, x)
      BY <2>11 DEF After
    <3>2. handed'[c] = handed[c] /\ outbox'[c] = r
      BY <1>1 DEF r
    <3>3. \A x : After(c, x)' = After(c, x)
      BY <2>11 DEF After
    <3>4. QED
      BY <2>7, <2>8, <2>11, <2>13, <2>14, <3>2 DEF Backlog, After
  <2>16. QED
    BY <2>12, <2>15
<1>6. QED
  BY <1>4, <1>5

\* A frame handed to the transport leaves the queue alone.
LEMMA BacklogTransfer ==
  ASSUME TypeOK, SessionInv, BacklogInv, NEW c \in Clients, WriteSucceeds(c)
  PROVE  BacklogInv'
<1>1. /\ outbox' = outbox /\ joined' = joined /\ sessions' = sessions /\ warned' = warned
      /\ broadcastSeq' = broadcastSeq /\ writeOp[c] = "pending" /\ writeOp'[c] = "ok"
      /\ \A d \in Clients \ {c} : writeOp'[d] = writeOp[d] /\ handed'[d] = handed[d]
  BY DEF WriteSucceeds, TypeOK, serverVars, queueVars
<1> SUFFICES ASSUME NEW d \in Clients PROVE Later(d)' /\ (d \in sessions' => Backlog(d)')
  BY DEF BacklogInv
<1>2. Later(d) /\ (d \in sessions => Backlog(d))
  BY DEF BacklogInv
<1>3. Later(d)'
  BY <1>1, <1>2 DEF Later
<1>4. ASSUME d # c, Backlog(d) PROVE Backlog(d)'
  BY <1>1, <1>4 DEF Backlog, After, NewestFor
<1>5. ASSUME d = c, Backlog(d) PROVE Backlog(d)'
  <2>1. outbox[c] # << >>
    BY <1>1 DEF SessionInv, Writes
  <2>2. QED
    BY <1>1, <1>5, <2>1 DEF Backlog, After, NewestFor
<1>6. QED
  BY <1>1, <1>2, <1>3, <1>4, <1>5

\* After a write the frame that was in flight is popped; its successor takes
\* its place in the line.
LEMMA BacklogWritten ==
  ASSUME TypeOK, SessionInv, BacklogInv, NEW c \in Clients, OnWrite(c)
  PROVE  BacklogInv'
<1> DEFINE q == outbox[c]
           h == handed[c]
           t == Tail(q)
<1>1. /\ joined' = joined /\ handed' = handed /\ broadcastSeq' = broadcastSeq
      /\ sessions' \subseteq sessions
      /\ \A d \in Clients \ {c} : /\ outbox'[d] = outbox[d] /\ warned'[d] = warned[d]
                                  /\ writeOp'[d] = writeOp[d]
  BY DEF OnWrite, Fail, TypeOK
<1>2. /\ writeOp[c] = "ok" => /\ outbox'[c] = t /\ (warned'[c] <=> warned[c] /\ Len(q) > 1)
                              /\ writeOp'[c] # "ok"
      /\ writeOp[c] # "ok" => outbox'[c] = q /\ c \notin sessions'
  <2>1. /\ outbox \in [Clients -> Seq(Nat)] /\ warned \in [Clients -> BOOLEAN]
        /\ writeOp \in [Clients -> {"none", "pending", "ok", "err"}]
        /\ writeOp[c] \in {"ok", "err"} /\ (c \in sessions => ~closed[c])
    BY DEF OnWrite, TypeOK, SessionInv, Owned
  <2>2. CASE writeOp[c] = "ok"
    <3>1. /\ outbox' = [outbox EXCEPT ![c] = t]
          /\ warned' = [warned EXCEPT ![c] = warned[c] /\ Len(q) > 1]
          /\ writeOp' = [writeOp EXCEPT ![c] = IF WritesOn(c) THEN "pending" ELSE "none"]
      BY <2>2 DEF OnWrite, BurstGoesOn
    <3>2. outbox'[c] = t /\ writeOp'[c] # "ok"
      BY <2>1, <3>1
    <3>3. warned'[c] = (warned[c] /\ Len(q) > 1)
      BY <2>1, <3>1, Zenon
    <3>4. QED
      BY <2>2, <3>2, <3>3, Zenon
  <2>3. CASE writeOp[c] = "err"
    <3>1. outbox' = outbox /\ Fail(c)
      BY <2>3 DEF OnWrite
    <3>2. c \notin sessions'
      BY <2>1, <3>1 DEF Fail
    <3>3. QED
      BY <2>3, <3>1, <3>2
  <2>4. QED
    BY <2>1, <2>2, <2>3
<1>3. /\ q \in Seq(Nat) /\ Len(q) \in Nat /\ q # << >>
      /\ (q # << >> <=> Len(q) >= 1)
      /\ writeOp[c] = "ok" => h # << >> /\ h[Len(h)] = q[1]
  BY NewestFacts DEF OnWrite, SessionInv, Writes, Ordered
<1>4. /\ t \in Seq(Nat) /\ Len(t) = Len(q) - 1
      /\ \A i \in 1 .. Len(t) : i + 1 \in 1 .. Len(q) /\ t[i] = q[i + 1]
  BY <1>3, TailShift
<1>5. t = << >> <=> Len(q) = 1
  <2>1. t = << >> <=> Len(t) = 0
    BY <1>4, EmptySeq
  <2> HIDE DEF t
  <2>2. QED
    BY <1>3, <1>4, <2>1
<1> HIDE DEF q, h, t
<1> SUFFICES ASSUME NEW d \in Clients PROVE Later(d)' /\ (d \in sessions' => Backlog(d)')
  BY DEF BacklogInv
<1>6. Later(d) /\ (d \in sessions => Backlog(d)) /\ d \in sessions' => d \in sessions
  BY <1>1 DEF BacklogInv
<1>7. CASE d # c
  <2>1. Later(d)'
    BY <1>1, <1>6, <1>7 DEF Later, BacklogInv
  <2>2. ASSUME Backlog(d) PROVE Backlog(d)'
    BY <1>1, <1>7, <2>2 DEF Backlog, After, NewestFor
  <2>3. QED
    BY <1>1, <2>1, <2>2 DEF BacklogInv
<1>8. CASE d = c /\ writeOp[c] # "ok"
  <2>1. Later(c)
    BY DEF BacklogInv
  <2>2. QED
    BY <1>1, <1>2, <1>8, <2>1 DEF Later, q
<1>9. CASE d = c /\ writeOp[c] = "ok"
  <2>1. Later(c) /\ (c \in sessions => Backlog(c))
    BY DEF BacklogInv
  <2>2. Later(c)'
    BY <1>1, <1>2, <1>4, <1>9, <2>1 DEF Later, q
  <2>3. ASSUME c \in sessions' PROVE Backlog(c)'
    <3>1. Backlog(c) /\ outbox'[c] = t /\ writeOp'[c] # "ok" /\ handed'[c] = h
          /\ (warned'[c] <=> warned[c] /\ Len(q) > 1)
      BY <1>1, <1>2, <1>9, <2>1, <2>3 DEF h
    <3>2. NewestFor(c)' = NewestFor(c) /\ \A x : After(c, x)' = After(c, x)
      BY <1>1 DEF NewestFor, After
    <3>3. t # << >> => t[Len(t)] = NewestFor(c)
      <4>1. t # << >> => Len(t) \in 1 .. Len(t) /\ Len(t) + 1 = Len(q)
        BY <1>3, <1>4, <1>5
      <4>2. q[Len(q)] = NewestFor(c)
        BY <1>3, <3>1 DEF Backlog, q
      <4>3. QED
        BY <1>4, <4>1, <4>2
    <3>4. t = << >> => h[Len(h)] = NewestFor(c)
      <4>1. q[Len(q)] = NewestFor(c)
        BY <1>3, <3>1 DEF Backlog, q
      <4>2. QED
        BY <1>3, <1>5, <1>9, <4>1
    <3>5. \A i \in 3 .. Len(t) : t[i] = t[i - 1] + 1
      <4>1. TAKE i \in 3 .. Len(t)
      <4>2. i + 1 \in 3 .. Len(q) /\ i \in 1 .. Len(t) /\ i - 1 \in 1 .. Len(t)
        BY <1>3, <1>4
      <4>3. t[i] = q[i + 1] /\ t[i - 1] = q[(i - 1) + 1]
        BY <1>4, <4>2
      <4>4. q[i + 1] = q[(i + 1) - 1] + 1
        BY <3>1, <4>2 DEF Backlog, q
      <4>5. (i - 1) + 1 = (i + 1) - 1
        BY <4>2
      <4>6. QED
        BY <4>3, <4>4, <4>5
    <3>6. ASSUME ~warned'[c]
          PROVE  /\ \A i \in 2 .. Len(t) : t[i] = After(c, t[i - 1])
                 /\ t # << >> => t[1] = After(c, h[Len(h)])
      <4>1. CASE Len(q) = 1
        BY <1>3, <1>4, <1>5, <4>1
      <4>2. CASE Len(q) # 1
        <5> DEFINE n == Len(q)
        <5>1. n \in Nat /\ n >= 1 /\ n # 1
          BY <1>3, <4>2
        <5> HIDE DEF n
        <5>2. n >= 2 /\ n > 1
          BY <5>1
        <5>3. Len(q) >= 2 /\ Len(q) > 1
          BY <5>2 DEF n
        <5>4. ~warned[c] /\ Len(q) >= 2
          BY <3>1, <3>6, <5>3, Zenon
        <5>5. \A i \in 2 .. Len(q) : q[i] = After(c, q[i - 1])
          BY <3>1, <5>4 DEF Backlog, q
        <5>6. ASSUME NEW i \in 2 .. Len(t) PROVE t[i] = After(c, t[i - 1])
          <6>1. i + 1 \in 2 .. Len(q) /\ i \in 1 .. Len(t) /\ i - 1 \in 1 .. Len(t)
            BY <1>3, <1>4
          <6>2. t[i] = q[i + 1] /\ t[i - 1] = q[(i - 1) + 1]
            BY <1>4, <6>1
          <6>3. q[i + 1] = After(c, q[(i + 1) - 1])
            BY <5>5, <6>1
          <6>4. (i - 1) + 1 = (i + 1) - 1
            BY <6>1
          <6>5. QED
            BY <6>2, <6>3, <6>4
        <5>7. t[1] = After(c, h[Len(h)])
          <6>1. 1 \in 1 .. Len(t) /\ t[1] = q[1 + 1]
            BY <1>3, <1>4, <5>4
          <6>2. q[2] = After(c, q[2 - 1])
            BY <1>3, <5>4, <5>5
          <6>3. QED
            BY <1>3, <1>9, <6>1, <6>2
        <5>8. QED
          BY <5>6, <5>7
      <4>3. QED
        BY <4>1, <4>2
    <3>7. QED
      BY <3>1, <3>2, <3>3, <3>4, <3>5, <3>6 DEF Backlog, After
  <2>4. QED
    BY <1>9, <2>2, <2>3
<1>10. QED
  BY <1>7, <1>8, <1>9

\* A session that is registered is sent hello, its newest frame.
LEMMA BacklogAccepted ==
  ASSUME TypeOK, SessionInv, BacklogInv, NEW c \in Clients, OnAccept(c)
  PROVE  BacklogInv'
<1>1. /\ outbox[c] = << >> /\ handed[c] = << >> /\ ~closed[c] /\ ~writing[c]
      /\ broadcastSeq' = broadcastSeq /\ handed' = handed
      /\ sessions' = sessions \cup {c}
      /\ joined'[c] = broadcastSeq /\ \A d \in Clients \ {c} : joined'[d] = joined[d]
      /\ Enqueue({c}, Hello) /\ Hello \in Nat /\ {c} \in SUBSET Clients
      /\ MaxQueued \in Nat /\ MaxQueued >= 2
  BY WsAssumption DEF TypeOK, SessionInv, Owned, Writes, OnAccept, Hello
<1> SUFFICES ASSUME NEW d \in Clients PROVE Later(d)' /\ (d \in sessions' => Backlog(d)')
  BY DEF BacklogInv
<1>2. CASE d = c
  <2>1. outbox'[c] = Limit(Append(<< >>, Hello), 0)
    BY <1>1, EnqueueFacts DEF Protected
  <2>2. Append(<< >>, Hello) = <<Hello>> /\ Len(<<Hello>>) = 1 /\ <<Hello>>[1] = Hello
    OBVIOUS
  <2>3. outbox'[c] = <<Hello>>
    BY <1>1, <2>1, <2>2 DEF Limit
  <2>4. NewestFor(c)' = Hello
    BY <1>1 DEF NewestFor
  <2>5. Later(c)'
    BY <2>2, <2>3 DEF Later
  <2>6. Backlog(c)'
    <3>1. outbox'[c] # << >> /\ Len(outbox'[c]) = 1 /\ outbox'[c][1] = Hello /\ handed'[c] = << >>
      BY <1>1, <2>2, <2>3
    <3>2. (2 .. Len(outbox'[c])) = {} /\ (3 .. Len(outbox'[c])) = {}
      BY <3>1
    <3>3. QED
      BY <2>4, <3>1, <3>2 DEF Backlog
  <2>7. QED
    BY <1>2, <2>5, <2>6
<1>3. CASE d # c
  <2>1. /\ outbox'[d] = outbox[d] /\ writeOp'[d] = writeOp[d] /\ joined'[d] = joined[d]
        /\ handed'[d] = handed[d] /\ broadcastSeq' = broadcastSeq
        /\ d \in sessions' => d \in sessions
    BY <1>1, <1>3, EnqueueFacts
  <2>2. warned'[d] <=> warned[d]
    BY <1>1, <1>3 DEF Enqueue, TypeOK
  <2>3. Later(d) /\ (d \in sessions => Backlog(d))
    BY DEF BacklogInv
  <2>4. Later(d)'
    BY <2>1, <2>3 DEF Later
  <2>5. ASSUME Backlog(d) PROVE Backlog(d)'
    BY <2>1, <2>2, <2>5 DEF Backlog, After, NewestFor
  <2>6. QED
    BY <2>1, <2>3, <2>4, <2>5
<1>4. QED
  BY <1>2, <1>3

LEMMA BacklogAlways == Spec => []BacklogInv
<1>1. Init => BacklogInv
  BY DEF Init, BacklogInv, Later
<1>2. TypeOK /\ SessionInv /\ BacklogInv /\ [Next]_vars => BacklogInv'
  <2> SUFFICES ASSUME TypeOK, SessionInv, BacklogInv, [Next]_vars PROVE BacklogInv'
    OBVIOUS
  <2>1. ASSUME NEW c \in Clients, Accept(c) \/ HandshakeFails(c) \/ OnRead(c) \/ PeerLeaves(c)
        PROVE  BacklogInv'
    <3>1. /\ UNCHANGED <<outbox, warned, handed, joined, broadcastSeq, writeOp>>
          /\ sessions' \subseteq sessions
      BY <2>1
      DEF Accept, HandshakeFails, OnRead, PeerLeaves, Fail, serverVars, queueVars, writeVars
    <3>2. QED
      BY <3>1, BacklogKept
  <2>2. ASSUME NEW c \in Clients,
               (\E result \in {"ok", "err"} : ReadCompletes(c, result)) \/ WriteFails(c)
        PROVE  BacklogInv'
    <3>1. /\ UNCHANGED <<outbox, warned, handed, joined, broadcastSeq, sessions>>
          /\ \A d \in Clients : writeOp'[d] = "ok" <=> writeOp[d] = "ok"
      BY <2>2 DEF ReadCompletes, WriteFails, TypeOK, serverVars, queueVars, writeVars
    <3>2. QED
      BY <3>1, BacklogKept
  <2>3. ASSUME NEW c \in Clients, OnAccept(c) \/ OnWrite(c) \/ WriteSucceeds(c) PROVE BacklogInv'
    BY <2>3, BacklogAccepted, BacklogWritten, BacklogTransfer
  <2>4. CASE BroadcastTick
    BY <2>4, BacklogBroadcast
  <2>5. CASE Shutdown
    <3>1. /\ UNCHANGED <<outbox, warned, handed, joined, broadcastSeq, writeOp>>
          /\ sessions' \subseteq sessions
      BY <2>5 DEF Shutdown, queueVars, writeVars
    <3>2. QED
      BY <3>1, BacklogKept
  <2>6. CASE UNCHANGED vars
    <3>1. /\ UNCHANGED <<outbox, warned, handed, joined, broadcastSeq, writeOp>>
          /\ sessions' \subseteq sessions
      BY <2>6 DEF vars, serverVars, queueVars, writeVars
    <3>2. QED
      BY <3>1, BacklogKept
  <2>7. QED
    BY <2>1, <2>2, <2>3, <2>4, <2>5, <2>6 DEF Next, Handlers, Transport
<1>3. QED
  BY <1>1, <1>2, Invariant, PTL DEF Spec

\* However slow the client and whatever the limit, the queue ends with the
\* newest broadcast and is consecutive behind its front (ws_server.cpp:109-116).
THEOREM Newest == Spec => []QueueIsNewest
<1>1. TypeOK /\ SessionInv /\ BacklogInv => QueueIsNewest
  <2> SUFFICES ASSUME TypeOK, SessionInv, BacklogInv, NEW c \in sessions
               PROVE  LET q == outbox[c]
                          newest == IF broadcastSeq = joined[c] THEN Hello ELSE broadcastSeq
                      IN  /\ Len(q) <= MaxQueued
                          /\ q # << >> => q[Len(q)] = newest
                          /\ q = << >> => handed[c][Len(handed[c])] = newest
                          /\ \A i \in 3 .. Len(q) : q[i] = q[i - 1] + 1
    BY DEF QueueIsNewest
  <2>1. c \in Clients /\ Len(outbox[c]) <= MaxQueued
    BY DEF TypeOK
  <2>2. Backlog(c)
    BY <2>1 DEF BacklogInv
  <2>3. QED
    BY <2>1, <2>2 DEF Backlog, NewestFor
<1>2. QED
  BY <1>1, Invariant, BacklogAlways, PTL

\* No frame is missing for a client without the overflow warning of the current
\* burst, for any limit and any number of sheds (ws_server.cpp:102-103, 117-120).
THEOREM Warned == Spec => []LossIsWarned
<1>1. TypeOK /\ SessionInv /\ BacklogInv => LossIsWarned
  <2> DEFINE waiting(c) == IF writeOp[c] = "ok" THEN Tail(outbox[c]) ELSE outbox[c]
             line(c) == IF handed[c] = << >> THEN waiting(c)
                        ELSE <<handed[c][Len(handed[c])]>> \o waiting(c)
  <2> SUFFICES ASSUME TypeOK, SessionInv, BacklogInv, NEW c \in sessions, ~warned[c],
                      NEW i \in 2 .. Len(line(c))
               PROVE  line(c)[i] = After(c, line(c)[i - 1])
    BY DEF LossIsWarned, After
  <2> DEFINE q == outbox[c]
             h == handed[c]
             l == h[Len(h)]
             w == waiting(c)
  <2>1. c \in Clients
    BY DEF TypeOK
  <2>2. /\ q \in Seq(Nat) /\ h \in Seq(Nat) /\ Len(q) \in Nat
        /\ writeOp[c] = "ok" => q # << >> /\ h # << >> /\ l = q[1]
    BY <2>1, NewestFacts DEF SessionInv, Writes, Ordered
  <2>3. /\ \A k \in 2 .. Len(q) : q[k] = After(c, q[k - 1])
        /\ h # << >> /\ q # << >> /\ writeOp[c] # "ok" => q[1] = After(c, l)
    BY <2>1 DEF BacklogInv, Backlog
  <2>4. /\ w \in Seq(Nat) /\ Len(w) \in Nat
        /\ \A k \in 2 .. Len(w) : w[k] = After(c, w[k - 1])
        /\ h # << >> /\ Len(w) >= 1 => w[1] = After(c, l)
    <3>1. CASE writeOp[c] = "ok"
      <4>1. /\ w \in Seq(Nat) /\ Len(w) = Len(q) - 1
            /\ \A k \in 1 .. Len(w) : k + 1 \in 1 .. Len(q) /\ w[k] = q[k + 1]
        BY <2>2, <3>1, TailShift
      <4>2. Len(w) \in Nat
        BY <4>1, LenProperties
      <4> HIDE DEF w, q, l, h
      <4>3. ASSUME NEW k \in 2 .. Len(w) PROVE w[k] = After(c, w[k - 1])
        <5>1. k \in 1 .. Len(w) /\ k - 1 \in 1 .. Len(w) /\ k + 1 \in 2 .. Len(q)
          BY <2>2, <4>1, <4>2
        <5>2. w[k] = q[k + 1] /\ w[k - 1] = q[(k - 1) + 1]
          BY <4>1, <5>1
        <5>3. q[k + 1] = After(c, q[(k + 1) - 1])
          BY <2>3, <5>1
        <5>4. (k - 1) + 1 = (k + 1) - 1
          BY <5>1
        <5>5. QED
          BY <5>2, <5>3, <5>4
      <4>4. Len(w) >= 1 => w[1] = After(c, l)
        <5>1. Len(w) >= 1 => 1 \in 1 .. Len(w) /\ w[1] = q[1 + 1] /\ 2 \in 2 .. Len(q)
          BY <2>2, <4>1, <4>2
        <5>2. 2 \in 2 .. Len(q) => q[2] = After(c, q[2 - 1])
          BY <2>3
        <5>3. QED
          BY <2>2, <3>1, <5>1, <5>2
      <4>5. QED
        BY <4>1, <4>2, <4>3, <4>4
    <3>2. CASE writeOp[c] # "ok"
      <4>1. w = q
        BY <3>2
      <4> HIDE DEF w, q, l, h
      <4>2. Len(q) >= 1 => q # << >>
        BY <2>2, EmptySeq
      <4>3. QED
        BY <2>2, <2>3, <3>2, <4>1, <4>2
    <3>3. QED
      BY <3>1, <3>2
  <2>5. CASE h = << >>
    <3>1. line(c) = w
      BY <2>5
    <3> HIDE DEF line, w
    <3>2. QED
      BY <2>4, <3>1
  <2>6. CASE h # << >>
    <3>1. line(c) = <<l>> \o w
      BY <2>6
    <3>2. h[Len(h)] \in Nat
      <4>1. Len(h) \in 1 .. Len(h)
        BY <2>2, <2>6, EmptySeq, LenProperties
      <4>2. QED
        BY <2>2, <4>1, ElementOfSeq
    <3> HIDE DEF line, w, l, h, q
    <3>3. l \in Nat
      BY <3>2 DEF l, h
    <3>4. <<l>> \in Seq(Nat) /\ Len(<<l>>) = 1 /\ <<l>>[1] = l
      BY <3>3
    <3>5. /\ Len(line(c)) = Len(<<l>>) + Len(w)
          /\ \A k \in 1 .. (Len(<<l>>) + Len(w)) :
               line(c)[k] = IF k <= Len(<<l>>) THEN <<l>>[k] ELSE w[k - Len(<<l>>)]
      BY <2>4, <3>1, <3>4, ConcatProperties
    <3>6. Len(line(c)) = 1 + Len(w) /\ line(c)[1] = l
      BY <2>4, <3>4, <3>5
    <3>7. \A k \in 2 .. Len(line(c)) : line(c)[k] = w[k - 1]
      BY <2>4, <3>4, <3>5, <3>6
    <3>8. CASE i = 2
      <4>1. Len(w) >= 1 /\ line(c)[2] = w[2 - 1]
        BY <2>4, <3>6, <3>7, <3>8
      <4>2. QED
        BY <2>4, <2>6, <3>6, <3>8, <4>1
    <3>9. CASE i # 2
      <4>1. i - 1 \in 2 .. Len(w) /\ i - 1 \in 2 .. Len(line(c))
        BY <2>4, <3>6, <3>9
      <4>2. line(c)[i] = w[i - 1] /\ line(c)[i - 1] = w[(i - 1) - 1]
        BY <3>7, <4>1
      <4>3. QED
        BY <2>4, <4>1, <4>2
    <3>10. QED
      BY <3>8, <3>9
  <2>7. QED
    BY <2>5, <2>6
<1>2. QED
  BY <1>1, Invariant, BacklogAlways, PTL

-------------------------------------------------------------------------------
(* Every client's view implements FrameFeed.                               *)

\* What a step that hands nothing over is for FrameFeed.
LEMMA FeedQuiet ==
  ASSUME TypeOK, handed' = handed, joined' = joined,
         \/ broadcastSeq' = broadcastSeq /\ sessions' \subseteq sessions
         \/ broadcastSeq' = broadcastSeq + 1 /\ sessions' = sessions
  PROVE  Feed!Next
<1>1. [c \in Clients |-> seenBy(c)]' = [c \in Clients |-> seenBy(c)]
  BY DEF seenBy
<1>2. CASE broadcastSeq' = broadcastSeq /\ sessions' \subseteq sessions
  <2>1. sessions \ sessions' \in SUBSET Clients /\ sessions' = sessions \ (sessions \ sessions')
    BY <1>2 DEF TypeOK
  <2>2. Feed!Leave(sessions \ sessions')
    BY <1>1, <1>2, <2>1 DEF Feed!Leave
  <2>3. QED
    BY <2>1, <2>2 DEF Feed!Next
<1>3. CASE broadcastSeq' = broadcastSeq + 1 /\ sessions' = sessions
  BY <1>1, <1>3 DEF Feed!Next, Feed!Publish
<1>4. QED
  BY <1>2, <1>3

\* A session that is registered joins the feed with the frames to come.
LEMMA FeedJoin ==
  ASSUME TypeOK, SessionInv, NEW c \in Clients, OnAccept(c)
  PROVE  Feed!Next
<1>1. /\ handed[c] = << >> /\ handed' = handed /\ broadcastSeq' = broadcastSeq
      /\ joined' = [joined EXCEPT ![c] = broadcastSeq] /\ joined \in [Clients -> Nat]
      /\ c \notin sessions /\ sessions' = sessions \cup {c}
  BY DEF TypeOK, SessionInv, Owned, OnAccept
<1>2. [d \in Clients |-> seenBy(d)]' =
        [[d \in Clients |-> seenBy(d)] EXCEPT ![c] = broadcastSeq]
  <2>1. seenBy(c)' = broadcastSeq
    BY <1>1 DEF seenBy
  <2>2. \A d \in Clients \ {c} : seenBy(d)' = seenBy(d)
    BY <1>1 DEF seenBy
  <2>3. QED
    BY <2>1, <2>2
<1>3. Feed!Join(c)
  BY <1>1, <1>2 DEF Feed!Join
<1>4. QED
  BY <1>3 DEF Feed!Next

\* A frame that is handed over is newer than the last and no newer than the
\* newest; hello is none.
LEMMA FeedDeliver ==
  ASSUME TypeOK, SessionInv, BacklogInv, NEW c \in Clients, WriteSucceeds(c)
  PROVE  Feed!Next \/ UNCHANGED <<broadcastSeq, [d \in Clients |-> seenBy(d)], sessions>>
<1> DEFINE q == outbox[c]
           h == handed[c]
           g == Append(h, q[1])
<1>1. /\ Owned(c) /\ Writes(c) /\ Ordered(c) /\ writeOp[c] = "pending" /\ ~closed[c]
      /\ joined' = joined /\ broadcastSeq' = broadcastSeq /\ sessions' = sessions
      /\ handed' = [handed EXCEPT ![c] = Append(h, Head(inflight[c]))]
      /\ handed \in [Clients -> Seq(Nat)] /\ joined[c] \in Nat /\ broadcastSeq \in Nat
      /\ q \in Seq(Nat) /\ h \in Seq(Nat) /\ Later(c)
  BY DEF TypeOK, SessionInv, BacklogInv, WriteSucceeds, serverVars
<1>2. q # << >> /\ inflight[c] = <<q[1]>> /\ Head(inflight[c]) = q[1] /\ c \in sessions
  BY <1>1 DEF Writes, Owned
<1>3. /\ 1 \in 1 .. Len(q) /\ q[1] \in Nat /\ q[1] <= broadcastSeq
      /\ q[1] = Hello \/ q[1] > joined[c]
  <2>1. 1 \in 1 .. Len(q)
    BY <1>1, <1>2, EmptySeq
  <2>2. QED
    BY <1>1, <2>1, ElementOfSeq DEF Ordered, AtMost, Later
<1>4. h # << >> => h[Len(h)] \in Nat /\ h[Len(h)] < q[1]
  <2>1. h # << >> => Len(h) \in 1 .. Len(h)
    BY <1>1, EmptySeq
  <2>2. h # << >> => h[Len(h)] \in Nat
    BY <1>1, <2>1, ElementOfSeq
  <2>3. QED
    BY <1>1, <1>2, <2>2 DEF Ordered
<1>5. g # << >> /\ g[Len(g)] = q[1]
  <2>1. Len(g) = Len(h) + 1 /\ g[Len(h) + 1] = q[1] /\ Len(h) \in Nat /\ g \in Seq(Nat)
    BY <1>1, <1>3, AppendProperties, LenProperties
  <2> HIDE DEF g
  <2>2. QED
    BY <2>1, EmptySeq
<1>6. handed'[c] = g /\ \A d \in Clients \ {c} : handed'[d] = handed[d]
  BY <1>1, <1>2
<1> HIDE DEF q, h, g
<1>7. seenBy(c)' = IF q[1] = Hello THEN joined[c] ELSE q[1]
  BY <1>1, <1>5, <1>6 DEF seenBy
<1>8. \A d \in Clients \ {c} : seenBy(d)' = seenBy(d)
  BY <1>1, <1>6 DEF seenBy
<1>9. [d \in Clients |-> seenBy(d)]' = [[d \in Clients |-> seenBy(d)] EXCEPT ![c] = seenBy(c)']
  BY <1>8
<1>10. CASE q[1] = Hello
  <2>1. h = << >>
    BY <1>3, <1>4, <1>10 DEF Hello
  <2>2. seenBy(c)' = seenBy(c)
    BY <1>7, <1>10, <2>1 DEF seenBy, h
  <2>3. [d \in Clients |-> seenBy(d)]' = [d \in Clients |-> seenBy(d)]
    BY <1>8, <2>2
  <2>4. QED
    BY <1>1, <2>3
<1>11. CASE q[1] # Hello
  <2>1. seenBy(c) \in Nat /\ seenBy(c) < q[1]
    <3>1. CASE h = << >> \/ h[Len(h)] = Hello
      BY <1>1, <1>3, <1>11, <3>1 DEF seenBy, h
    <3>2. CASE h # << >> /\ h[Len(h)] # Hello
      BY <1>4, <3>2 DEF seenBy, h
    <3>3. QED
      BY <3>1, <3>2
  <2>2. q[1] \in (seenBy(c) + 1) .. broadcastSeq
    BY <1>1, <1>3, <2>1
  <2>3. /\ [d \in Clients |-> seenBy(d)][c] = seenBy(c)
        /\ [d \in Clients |-> seenBy(d)]' = [[d \in Clients |-> seenBy(d)] EXCEPT ![c] = q[1]]
    BY <1>7, <1>9, <1>11
  <2>4. Feed!Deliver(c)
    BY <1>1, <1>2, <2>2, <2>3 DEF Feed!Deliver
  <2>5. QED
    BY <2>4 DEF Feed!Next
<1>12. QED
  BY <1>10, <1>11

\* Every step of the broadcaster is a step of FrameFeed or a stutter: clients
\* join and leave, frames are published and handed over in order, and nothing a
\* client was handed is taken back (ws_server.cpp:62-132).
THEOREM FeedRefinement == Spec => FeedsSafe
<1>1. Init => Feed!Init
  BY DEF Init, Feed!Init, seenBy
<1>2. TypeOK /\ SessionInv /\ BacklogInv /\ [Next]_vars => [Feed!Next]_(Feed!feedVars)
  <2> SUFFICES ASSUME TypeOK, SessionInv, BacklogInv, [Next]_vars
               PROVE  Feed!Next \/ UNCHANGED <<broadcastSeq, [d \in Clients |-> seenBy(d)], sessions>>
    BY DEF Feed!feedVars
  <2>1. ASSUME NEW c \in Clients,
               \/ Accept(c) \/ HandshakeFails(c) \/ OnRead(c) \/ OnWrite(c) \/ PeerLeaves(c)
               \/ \E result \in {"ok", "err"} : ReadCompletes(c, result)
               \/ WriteFails(c)
        PROVE  Feed!Next
    <3>1. handed' = handed /\ joined' = joined /\ broadcastSeq' = broadcastSeq
          /\ sessions' \subseteq sessions
      BY <2>1
      DEF Accept, HandshakeFails, OnRead, OnWrite, PeerLeaves, ReadCompletes, WriteFails, Fail,
          serverVars, queueVars, writeVars
    <3>2. QED
      BY <3>1, FeedQuiet
  <2>2. ASSUME NEW c \in Clients, OnAccept(c) PROVE Feed!Next
    BY <2>2, FeedJoin
  <2>3. ASSUME NEW c \in Clients, WriteSucceeds(c)
        PROVE  Feed!Next \/ UNCHANGED <<broadcastSeq, [d \in Clients |-> seenBy(d)], sessions>>
    BY <2>3, FeedDeliver
  <2>4. CASE BroadcastTick
    <3>1. handed' = handed /\ joined' = joined /\ broadcastSeq' = broadcastSeq + 1
          /\ sessions' = sessions
      BY <2>4 DEF BroadcastTick
    <3>2. QED
      BY <3>1, FeedQuiet
  <2>5. CASE Shutdown
    <3>1. handed' = handed /\ joined' = joined /\ broadcastSeq' = broadcastSeq
          /\ sessions' \subseteq sessions
      BY <2>5 DEF Shutdown
    <3>2. QED
      BY <3>1, FeedQuiet
  <2>6. CASE UNCHANGED vars
    BY <2>6 DEF vars, serverVars, seenBy
  <2>7. QED
    BY <2>1, <2>2, <2>3, <2>4, <2>5, <2>6 DEF Next, Handlers, Transport
<1>3. QED
  BY <1>1, <1>2, Invariant, BacklogAlways, PTL DEF Spec, FeedsSafe, Feed!SafeSpec

-------------------------------------------------------------------------------
(* The browser's connection: the invariant.                                *)

LinkInv == ConnectionTypeOK /\ OneThingPending /\ OneLiveSocket /\ StatusTruthful

\* The delay table has five entries and the index is clamped to it.
LEMMA DelayInTable ==
  ASSUME NEW i \in 0 .. 5
  PROVE  DelayOf(i) \in {1000, 2000, 4000, 8000, 10000}
  BY DEF DelayOf, BACKOFF_DELAYS_MS

\* openSocket() leaves exactly one of a timer and a fresh socket behind, when
\* every socket it finds is free or being closed.
LEMMA OpenSocketLemma ==
  ASSUME ConnectionTypeOK, NEW e \in Endpoints, NEW i \in 0 .. 5, NEW st, NEW last,
         st \in [Sockets -> {"free", "connecting", "open", "refused", "lost", "closing"}],
         \A s \in Sockets : st[s] \in {"free", "closing"},
         last \in {0, 1000, 2000, 4000, 8000, 10000},
         OpenSocket(e, i, st, last)
  PROVE  /\ status' = "connecting"
         /\ socket' \in Sockets \cup {None}
         /\ timer' \in {1000, 2000, 4000, 8000, 10000} \cup {None}
         /\ backoffIndex' \in 0 .. 5
         /\ lastDelay' \in {0, 1000, 2000, 4000, 8000, 10000}
         /\ sock' \in [Sockets -> {"free", "connecting", "open", "refused", "lost", "closing"}]
         /\ to' \in [Sockets -> Endpoints]
         /\ (socket' = None) # (timer' = None)
         /\ \A s \in Sockets : sock'[s] \in {"connecting", "open", "refused", "lost"} <=> s = socket'
         /\ socket' # None => to'[socket'] = e /\ sock'[socket'] = "connecting"
<1>1. CASE e \in BadEndpoints
  BY <1>1, DelayInTable, ConnectionAssumption DEF OpenSocket, ScheduleReconnect, ConnectionTypeOK
<1>2. CASE e \notin BadEndpoints
  <2>1. PICK s \in Sockets : /\ st[s] = "free"
                             /\ sock' = [st EXCEPT ![s] = "connecting"]
                             /\ to' = [to EXCEPT ![s] = e]
                             /\ socket' = s
    BY <1>2 DEF OpenSocket
  <2>2. timer' = None /\ backoffIndex' = i /\ lastDelay' = last /\ status' = "connecting"
    BY <1>2 DEF OpenSocket
  <2> QED  BY <2>1, <2>2, ConnectionAssumption DEF ConnectionTypeOK
<1> QED  BY <1>1, <1>2

LEMMA LinkInit == ConnectionInit => LinkInv
<1> SUFFICES ASSUME ConnectionInit PROVE LinkInv
  OBVIOUS
<1>1. ConnectionTypeOK
  BY ConnectionAssumption DEF ConnectionInit, ConnectionTypeOK
<1>2. OneThingPending /\ OneLiveSocket /\ StatusTruthful
  BY ConnectionAssumption DEF ConnectionInit, OneThingPending, OneLiveSocket, StatusTruthful
<1> QED  BY <1>1, <1>2 DEF LinkInv

LEMMA LinkStep == LinkInv /\ [ConnectionNext]_connectionVars => LinkInv'
<1> SUFFICES ASSUME LinkInv, [ConnectionNext]_connectionVars PROVE LinkInv'
  OBVIOUS
<1> USE DEF LinkInv
<1>a. Abandoned \in [Sockets -> {"free", "connecting", "open", "refused", "lost", "closing"}]
      /\ \A s \in Sockets : Abandoned[s] \in {"free", "closing"}
  BY ConnectionAssumption DEF Abandoned, ConnectionTypeOK, OneLiveSocket
<1>b. socket = None => \A s \in Sockets : sock[s] \in {"free", "closing"}
  BY ConnectionAssumption DEF ConnectionTypeOK, OneLiveSocket
<1>1. CASE Connect
  <2>1. OpenSocket(endpoint, 0, sock, 0) /\ stopped' = FALSE
        /\ UNCHANGED <<endpoint, parseErrors, shown, up>>
    BY <1>1 DEF Connect
  <2>2. \A s \in Sockets : sock[s] \in {"free", "closing"}
    BY <1>1, <1>b DEF Connect, OneThingPending
  <2>3. endpoint \in Endpoints /\ sock \in [Sockets -> {"free", "connecting", "open", "refused", "lost", "closing"}]
    BY DEF ConnectionTypeOK
  <2>4. /\ status' = "connecting"
        /\ socket' \in Sockets \cup {None}
        /\ timer' \in {1000, 2000, 4000, 8000, 10000} \cup {None}
        /\ backoffIndex' \in 0 .. 5
        /\ lastDelay' \in {0, 1000, 2000, 4000, 8000, 10000}
        /\ sock' \in [Sockets -> {"free", "connecting", "open", "refused", "lost", "closing"}]
        /\ to' \in [Sockets -> Endpoints]
        /\ (socket' = None) # (timer' = None)
        /\ \A s \in Sockets : sock'[s] \in {"connecting", "open", "refused", "lost"} <=> s = socket'
        /\ socket' # None => to'[socket'] = endpoint /\ sock'[socket'] = "connecting"
    BY <2>1, <2>2, <2>3, OpenSocketLemma
  <2>. /\ endpoint' \in Endpoints /\ shown' \in Endpoints \cup {None}
        /\ parseErrors' \in 0 .. MaxErrors /\ up' \subseteq Endpoints \ BadEndpoints
    BY <2>1 DEF ConnectionTypeOK
  <2>5. ConnectionTypeOK'
    <3>1. stopped' \in BOOLEAN
      BY <2>1
    <3> QED  BY <2>4, <3>1 DEF ConnectionTypeOK
  <2>6. OneThingPending'
    BY <2>1, <2>4 DEF OneThingPending
  <2>7. OneLiveSocket' /\ StatusTruthful'
    BY <2>1, <2>4 DEF OneLiveSocket, StatusTruthful
  <2> QED  BY <2>5, <2>6, <2>7
<1>2. CASE Close
  <2>1. ConnectionTypeOK'
    BY <1>2, <1>a DEF Close, ConnectionTypeOK
  <2>2. OneThingPending' /\ OneLiveSocket' /\ StatusTruthful'
    BY <1>2, <1>a, ConnectionAssumption DEF Close, OneThingPending, OneLiveSocket, StatusTruthful
  <2> QED  BY <2>1, <2>2
<1>3. ASSUME NEW e \in Endpoints, SetEndpoint(e) PROVE LinkInv'
  <2>1. OpenSocket(e, 0, Abandoned, 0) /\ endpoint' = e
        /\ UNCHANGED <<parseErrors, shown, up>> /\ stopped' = FALSE
    BY <1>3 DEF SetEndpoint
  <2>2. /\ status' = "connecting"
        /\ socket' \in Sockets \cup {None}
        /\ timer' \in {1000, 2000, 4000, 8000, 10000} \cup {None}
        /\ backoffIndex' \in 0 .. 5
        /\ lastDelay' \in {0, 1000, 2000, 4000, 8000, 10000}
        /\ sock' \in [Sockets -> {"free", "connecting", "open", "refused", "lost", "closing"}]
        /\ to' \in [Sockets -> Endpoints]
        /\ (socket' = None) # (timer' = None)
        /\ \A s \in Sockets : sock'[s] \in {"connecting", "open", "refused", "lost"} <=> s = socket'
        /\ socket' # None => to'[socket'] = e /\ sock'[socket'] = "connecting"
    BY <2>1, <1>a, OpenSocketLemma DEF ConnectionTypeOK
  <2>3. ConnectionTypeOK'
    <3>1. stopped' \in BOOLEAN /\ endpoint' \in Endpoints
      BY <2>1
    <3>2. shown' \in Endpoints \cup {None} /\ parseErrors' \in 0 .. MaxErrors /\ up' \subseteq Endpoints \ BadEndpoints
      BY <2>1 DEF ConnectionTypeOK
    <3> QED  BY <2>2, <3>1, <3>2 DEF ConnectionTypeOK
  <2>4. OneThingPending' /\ OneLiveSocket' /\ StatusTruthful'
    BY <2>1, <2>2 DEF OneThingPending, OneLiveSocket, StatusTruthful
  <2> QED  BY <2>3, <2>4
<1>4. ASSUME NEW e \in Endpoints, Change(e) PROVE LinkInv'
  BY <1>4 DEF Change, jsVars, ConnectionTypeOK, OneThingPending, OneLiveSocket, StatusTruthful
<1>5. CASE TimerFires
  <2>1. stopped = FALSE /\ socket = None
    BY <1>5 DEF TimerFires, OneThingPending, ConnectionTypeOK
  <2>2. OpenSocket(endpoint, backoffIndex, sock, lastDelay)
        /\ UNCHANGED <<endpoint, stopped, parseErrors, shown, up>>
    BY <1>5, <2>1 DEF TimerFires
  <2> QED  BY <2>1, <2>2, <1>b, OpenSocketLemma DEF ConnectionTypeOK, OneThingPending, OneLiveSocket, StatusTruthful
<1>6. ASSUME NEW s \in Sockets, OnOpen(s) PROVE LinkInv'
  BY <1>6, ConnectionAssumption DEF OnOpen, Current, ConnectionTypeOK, OneThingPending, OneLiveSocket, StatusTruthful
<1>7. ASSUME NEW s \in Sockets, OnClose(s) PROVE LinkInv'
  <2>1. CASE Current(s)
    <3>1. stopped = FALSE /\ socket = s /\ timer = None
      BY <2>1, ConnectionAssumption DEF Current, OneThingPending, ConnectionTypeOK
    <3>2. /\ socket' = None /\ status' = "closed" /\ sock' = [sock EXCEPT ![s] = "free"]
          /\ timer' = DelayOf(backoffIndex) /\ lastDelay' = DelayOf(backoffIndex)
          /\ backoffIndex' = (IF backoffIndex > 4 THEN backoffIndex ELSE backoffIndex + 1)
          /\ UNCHANGED <<endpoint, stopped, parseErrors, shown, to, up>>
      BY <1>7, <2>1, <3>1 DEF OnClose, ScheduleReconnect
    <3>3. DelayOf(backoffIndex) \in {1000, 2000, 4000, 8000, 10000}
      BY DelayInTable DEF ConnectionTypeOK
    <3>4. backoffIndex' \in 0 .. 5
      BY <3>2 DEF ConnectionTypeOK
    <3> QED  BY <3>1, <3>2, <3>3, <3>4, ConnectionAssumption
             DEF ConnectionTypeOK, OneThingPending, OneLiveSocket, StatusTruthful
  <2>2. CASE ~Current(s)
    <3>1. /\ sock' = [sock EXCEPT ![s] = "free"]
          /\ UNCHANGED <<socket, status, timer, backoffIndex, lastDelay,
                         endpoint, stopped, parseErrors, shown, to, up>>
      BY <1>7, <2>2 DEF OnClose
    <3> QED  BY <2>2, <3>1 DEF Current, ConnectionTypeOK, OneThingPending, OneLiveSocket, StatusTruthful
  <2> QED  BY <2>1, <2>2
<1>8. ASSUME NEW s \in Sockets, Drop(s) PROVE LinkInv'
  <2>1. sock[s] \in {"connecting", "open"} /\ UNCHANGED <<jsVars, to, up, lastDelay>>
        /\ sock' = [sock EXCEPT ![s] = IF sock[s] = "open" THEN "lost" ELSE "refused"]
    BY <1>8 DEF Drop
  <2> QED  BY <2>1 DEF jsVars, ConnectionTypeOK, OneThingPending, OneLiveSocket, StatusTruthful
<1>9. ASSUME NEW s \in Sockets, NEW kind \in Kinds, OnMessage(s, kind) PROVE LinkInv'
  <2>1. /\ UNCHANGED <<endpoint, socket, timer, backoffIndex, stopped, status, sock, to, up, lastDelay>>
        /\ shown' \in {shown, to[s]}
        /\ parseErrors' = parseErrors \/ (parseErrors < MaxErrors /\ parseErrors' = parseErrors + 1)
    BY <1>9 DEF OnMessage
  <2>2. parseErrors' \in 0 .. MaxErrors
    BY <2>1, ConnectionAssumption DEF ConnectionTypeOK
  <2> QED  BY <2>1, <2>2 DEF ConnectionTypeOK, OneThingPending, OneLiveSocket, StatusTruthful
<1>10. CASE UNCHANGED connectionVars
  BY <1>10 DEF connectionVars, jsVars, ConnectionTypeOK, OneThingPending, OneLiveSocket, StatusTruthful
<1> QED  BY <1>1, <1>2, <1>3, <1>4, <1>5, <1>6, <1>7, <1>8, <1>9, <1>10 DEF ConnectionNext, UserActs

\* The invariant holds in every state, whatever the user, the timers and the
\* network do.
THEOREM LinkInvariant == ConnectionSpec => []LinkInv
  BY LinkInit, LinkStep, PTL DEF ConnectionSpec

\* Every variable keeps its type.
THEOREM ConnectionTypes == ConnectionSpec => []ConnectionTypeOK
  BY LinkInvariant, PTL DEF LinkInv

\* Exactly one of socket and timer is pending while the connection is wanted.
THEOREM NeverStuck == ConnectionSpec => []OneThingPending
  BY LinkInvariant, PTL DEF LinkInv

\* No socket but the current one is live, and it goes to the current endpoint.
THEOREM NoLeak == ConnectionSpec => []OneLiveSocket
  BY LinkInvariant, PTL DEF LinkInv

\* The status shown is "open" exactly while the current socket is.
THEOREM Truthful == ConnectionSpec => []StatusTruthful
  BY LinkInvariant, PTL DEF LinkInv

\* Frames of a server the user has left are never shown.
THEOREM OnlyCurrent == ConnectionSpec => ShownIsCurrent
<1>1. LinkInv /\ [ConnectionNext]_connectionVars => [shown' # shown => shown' = endpoint]_shown
  <2> SUFFICES ASSUME LinkInv, [ConnectionNext]_connectionVars, shown' # shown PROVE shown' = endpoint
    OBVIOUS
  <2>1. PICK s \in Sockets, kind \in Kinds : OnMessage(s, kind)
    BY DEF ConnectionNext, UserActs, Connect, Close, SetEndpoint, Change, TimerFires, OnOpen, OnClose,
           Drop, connectionVars, jsVars
  <2>2. Current(s) /\ shown' = to[s]
    BY <2>1 DEF OnMessage
  <2> QED  BY <2>2, ConnectionAssumption DEF Current, LinkInv, OneLiveSocket
<1> QED  BY <1>1, LinkInvariant, PTL DEF ConnectionSpec, ShownIsCurrent

-------------------------------------------------------------------------------
(* The delays.  That each is twice the last needs to know how the index and *)
(* the last delay move together.                                            *)

BackoffInv == IF backoffIndex = 0 THEN lastDelay = 0 ELSE lastDelay = DelayOf(backoffIndex - 1)

\* Each delay of the table is twice the one before, or the last one again.
LEMMA TableDoubles ==
  /\ DelayOf(0) = 1000
  /\ \A i \in 1 .. 5 : DelayOf(i) = IF DelayOf(i - 1) > 5000 THEN 10000 ELSE 2 * DelayOf(i - 1)
  /\ DelayOf(4) = DelayOf(5)
<1>1. /\ DelayOf(0) = 1000 /\ DelayOf(1) = 2000 /\ DelayOf(2) = 4000
      /\ DelayOf(3) = 8000 /\ DelayOf(4) = 10000 /\ DelayOf(5) = 10000
  BY DEF DelayOf, BACKOFF_DELAYS_MS
<1>2. ASSUME NEW i \in 1 .. 5
      PROVE  DelayOf(i) = IF DelayOf(i - 1) > 5000 THEN 10000 ELSE 2 * DelayOf(i - 1)
  <2>1. i = 1 \/ i = 2 \/ i = 3 \/ i = 4 \/ i = 5
    OBVIOUS
  <2>2. 1 - 1 = 0 /\ 2 - 1 = 1 /\ 3 - 1 = 2 /\ 4 - 1 = 3 /\ 5 - 1 = 4
    OBVIOUS
  <2> QED  BY <2>1, <2>2, <1>1
<1> QED  BY <1>1, <1>2

\* A delay that is scheduled is the first one or twice the last one, and keeps
\* the index and the last delay together.
LEMMA Scheduled ==
  ASSUME backoffIndex \in 0 .. 5, BackoffInv, ScheduleReconnect(backoffIndex)
  PROVE  /\ BackoffInv'
         /\ \/ timer' = 1000 /\ lastDelay = 0
            \/ timer' = (IF lastDelay > 5000 THEN 10000 ELSE 2 * lastDelay)
<1>1. /\ timer' = DelayOf(backoffIndex) /\ lastDelay' = DelayOf(backoffIndex)
      /\ backoffIndex' = IF backoffIndex > 4 THEN backoffIndex ELSE backoffIndex + 1
  BY DEF ScheduleReconnect
<1>2. CASE backoffIndex = 0
  <2>1. backoffIndex' = 1 /\ backoffIndex' - 1 = 0
    BY <1>1, <1>2
  <2> QED  BY <1>1, <1>2, <2>1, TableDoubles DEF BackoffInv
<1>3. CASE backoffIndex # 0
  <2>1. backoffIndex \in 1 .. 5 /\ lastDelay = DelayOf(backoffIndex - 1)
    BY <1>3 DEF BackoffInv
  <2>2. DelayOf(backoffIndex) = IF lastDelay > 5000 THEN 10000 ELSE 2 * lastDelay
    BY <2>1, TableDoubles
  <2>3. backoffIndex' # 0 /\ DelayOf(backoffIndex' - 1) = DelayOf(backoffIndex)
    <3>1. CASE backoffIndex = 5
      <4>1. backoffIndex' = 5 /\ backoffIndex' - 1 = 4
        BY <1>1, <3>1
      <4> QED  BY <3>1, <4>1, TableDoubles
    <3>2. CASE backoffIndex # 5
      <4>1. backoffIndex' = backoffIndex + 1 /\ backoffIndex' - 1 = backoffIndex /\ backoffIndex' # 0
        BY <1>1, <2>1, <3>2
      <4> QED  BY <4>1
    <3> QED  BY <3>1, <3>2
  <2> QED  BY <1>1, <2>2, <2>3 DEF BackoffInv
<1> QED  BY <1>2, <1>3

\* After an action of the user the delays start again, at 1000 ms if the
\* endpoint cannot even be tried.
LEMMA Restarted ==
  ASSUME NEW e, NEW st, OpenSocket(e, 0, st, 0)
  PROVE  BackoffInv' /\ (timer' # None => timer' = 1000)
<1>1. CASE e \in BadEndpoints
  <2>1. timer' = DelayOf(0) /\ lastDelay' = DelayOf(0) /\ backoffIndex' = 1
    BY <1>1 DEF OpenSocket, ScheduleReconnect
  <2>2. backoffIndex' # 0 /\ backoffIndex' - 1 = 0
    BY <2>1
  <2> QED  BY <2>1, <2>2, TableDoubles DEF BackoffInv
<1>2. CASE e \notin BadEndpoints
  BY <1>2 DEF OpenSocket, BackoffInv
<1> QED  BY <1>1, <1>2

LEMMA BackoffStep ==
  ASSUME LinkInv, BackoffInv, [ConnectionNext]_connectionVars
  PROVE  /\ BackoffInv'
         /\ timer' # timer /\ timer' # None =>
              \/ timer' = 1000 /\ (lastDelay = 0 \/ UserActs)
              \/ timer' = (IF lastDelay > 5000 THEN 10000 ELSE 2 * lastDelay)
<1>a. backoffIndex \in 0 .. 5
  BY DEF LinkInv, ConnectionTypeOK
<1>b. ASSUME UNCHANGED <<timer, backoffIndex, lastDelay>>
      PROVE  BackoffInv' /\ timer' = timer
  BY <1>b DEF BackoffInv
<1>1. CASE Connect
  BY <1>1, Restarted DEF Connect, UserActs
<1>2. CASE Close
  <2>1. timer' = None /\ UNCHANGED <<backoffIndex, lastDelay>>
    BY <1>2 DEF Close
  <2> QED  BY <2>1 DEF BackoffInv
<1>3. ASSUME NEW e \in Endpoints, SetEndpoint(e) PROVE BackoffInv' /\ UserActs /\ (timer' # None => timer' = 1000)
  BY <1>3, Restarted DEF SetEndpoint, UserActs
<1>4. CASE TimerFires
  <2>1. stopped = FALSE /\ OpenSocket(endpoint, backoffIndex, sock, lastDelay)
    BY <1>4 DEF TimerFires, LinkInv, OneThingPending, ConnectionTypeOK
  <2>2. CASE endpoint \in BadEndpoints
    <3>1. ScheduleReconnect(backoffIndex)
      BY <2>1, <2>2 DEF OpenSocket
    <3> QED  BY <1>a, <3>1, Scheduled
  <2>3. CASE endpoint \notin BadEndpoints
    <3>1. timer' = None /\ UNCHANGED <<backoffIndex, lastDelay>>
      BY <2>1, <2>3 DEF OpenSocket
    <3> QED  BY <3>1 DEF BackoffInv
  <2> QED  BY <2>2, <2>3
<1>5. ASSUME NEW s \in Sockets, OnOpen(s) PROVE BackoffInv' /\ timer' = timer
  <2>1. timer' = timer /\ ((backoffIndex' = 0 /\ lastDelay' = 0) \/ UNCHANGED <<backoffIndex, lastDelay>>)
    BY <1>5 DEF OnOpen
  <2> QED  BY <2>1 DEF BackoffInv
<1>6. ASSUME NEW s \in Sockets, OnClose(s), ~ UNCHANGED <<timer, backoffIndex, lastDelay>>
      PROVE  ScheduleReconnect(backoffIndex)
  BY <1>6 DEF OnClose
<1>7. ASSUME NEW s \in Sockets, OnClose(s), ScheduleReconnect(backoffIndex)
      PROVE  /\ BackoffInv'
             /\ \/ timer' = 1000 /\ lastDelay = 0
                \/ timer' = (IF lastDelay > 5000 THEN 10000 ELSE 2 * lastDelay)
  BY <1>a, <1>7, Scheduled
<1>8. ASSUME NEW s \in Sockets, Drop(s) \/ \E kind \in Kinds : OnMessage(s, kind)
      PROVE  UNCHANGED <<timer, backoffIndex, lastDelay>>
  BY <1>8 DEF Drop, OnMessage, jsVars
<1>9. ASSUME (\E e \in Endpoints : Change(e)) \/ UNCHANGED connectionVars
      PROVE  UNCHANGED <<timer, backoffIndex, lastDelay>>
  BY <1>9 DEF Change, connectionVars, jsVars
<1> QED  BY <1>b, <1>1, <1>2, <1>3, <1>4, <1>5, <1>6, <1>7, <1>8, <1>9 DEF ConnectionNext, UserActs

\* A wait is 1000 ms after a success or an action of the user, and otherwise
\* twice the last one, at most 10000 ms.
THEOREM Doubles == ConnectionSpec => BackoffDoubles
<1>1. ConnectionInit => BackoffInv
  BY DEF ConnectionInit, BackoffInv
<1>2. LinkInv /\ BackoffInv /\ [ConnectionNext]_connectionVars => BackoffInv'
  BY BackoffStep
<1>3. LinkInv /\ BackoffInv /\ [ConnectionNext]_connectionVars =>
        [timer' # timer /\ timer' # None =>
           \/ timer' = 1000 /\ (lastDelay = 0 \/ UserActs)
           \/ timer' = (IF lastDelay > 5000 THEN 10000 ELSE 2 * lastDelay)]_timer
  BY BackoffStep
<1> QED  BY <1>1, <1>2, <1>3, LinkInvariant, PTL DEF ConnectionSpec, BackoffDoubles

-------------------------------------------------------------------------------
(* The frame between them: what the browser reads of a snapshot.           *)

\* A snapshot whose words are of W and whose doubles are of D.
Triples(D) == [1 .. 3 -> D]
SatelliteRecords(W, D) == [id : W, seq : W, pos : Triples(D), vel : Triples(D)]
ObjectRecords(W, D) ==
  [id : W, type : W, pos : Triples(D), vel : Triples(D), hasVelocity : BOOLEAN,
   confidence : W, intensity : D, flags : W]
TrailRecords(W, D) == [id : W, t : D, pos : Triples(D)]

SnapshotRecords(W, D) ==
  [satellite : SatelliteRecords(W, D) \cup {Null},
   objects : Seq(ObjectRecords(W, D)),
   trail : Seq(TrailRecords(W, D))]

\* What JSON tells apart: a double is printed as a number or as no JSON at all, and
\* null, a key that is not there and an Error are no numbers, records or rows.
Cells(W) == W \cup {NotJson, Null}
ToldApart(W, D) ==
  /\ \A x \in D : Printed(x) \in W \cup {NotJson}
  /\ Null \notin W /\ NotJson \notin W /\ Null # NotJson
  /\ Null \notin SatelliteRecords(W, W \cup {NotJson})
  /\ Absent \notin Seq(Seq(Cells(W)))
  /\ \A s, o, p : Rejected # [satellite |-> s, objects |-> o, trailPoints |-> p]

\* The doubles of a triple, an object, a trail point that are printed, and whether
\* each is a number.
Fine(triple) == \A i \in 1 .. 3 : Printed(triple[i]) # NotJson
FineObject(o) ==
  Fine(o.pos) /\ (o.hasVelocity => Fine(o.vel)) /\ Printed(o.intensity) # NotJson
FinePoint(p) == Printed(p.t) # NotJson /\ Fine(p.pos)
FineSnapshot(snap) ==
  /\ snap.satellite # Null => Fine(snap.satellite.pos) /\ Fine(snap.satellite.vel)
  /\ \A i \in DOMAIN snap.objects : FineObject(snap.objects[i])
  /\ \A i \in DOMAIN snap.trail : FinePoint(snap.trail[i])

\* A snapshot as it should be read: rounded, and otherwise as it was.
ReadObject(o) ==
  [id |-> o.id, cat |-> CatName(o.type), pos |-> Floats(o.pos),
   vel |-> IF o.hasVelocity THEN Floats(o.vel) ELSE Null,
   conf |-> o.confidence, intensity |-> Printed(o.intensity), flags |-> o.flags]
ReadPoint(p) == [id |-> p.id, t |-> Printed(p.t), pos |-> Floats(p.pos)]
Rounded(snap) ==
  [satellite |-> IF snap.satellite = Null THEN Null
                 ELSE [snap.satellite EXCEPT !.pos = Floats(@), !.vel = Floats(@)],
   objects |-> [i \in DOMAIN snap.objects |-> ReadObject(snap.objects[i])],
   trailPoints |-> [i \in DOMAIN snap.trail |-> ReadPoint(snap.trail[i])]]

\* What is printed of n doubles.
IsPrinted(f, t, n, W) ==
  /\ f \in Seq(Cells(W)) /\ f \in [1 .. n -> W \cup {NotJson}]
  /\ Len(f) = n
  /\ \A i \in 1 .. n : f[i] = Printed(t[i])

LEMMA FloatsFacts ==
  ASSUME NEW W, NEW D, ToldApart(W, D), NEW n \in Nat, NEW t \in [1 .. n -> D]
  PROVE  IsPrinted(Floats(t), t, n, W)
<1>1. Floats(t) = [i \in 1 .. n |-> Printed(t[i])]
  BY DEF Floats
<1>2. \A i \in 1 .. n : Printed(t[i]) \in W \cup {NotJson}
  BY DEF ToldApart
<1>3. Floats(t) \in [1 .. n -> W \cup {NotJson}] /\ Floats(t) \in [1 .. n -> Cells(W)]
  BY <1>1, <1>2 DEF Cells
<1>4. Floats(t) \in Seq(W \cup {NotJson}) /\ Floats(t) \in Seq(Cells(W))
  BY <1>3, SeqDef
<1>5. Len(Floats(t)) = n
  BY <1>3, <1>4, LenProperties
<1> QED  BY <1>1, <1>3, <1>4, <1>5 DEF IsPrinted

LEMMA FloatsOfThree ==
  ASSUME NEW W, NEW D, ToldApart(W, D), NEW t \in [1 .. 3 -> D]
  PROVE  IsPrinted(Floats(t), t, 3, W)
<1>1. PICK n \in Nat : n = 3
  OBVIOUS
<1>2. IsPrinted(Floats(t), t, n, W)
  BY <1>1, FloatsFacts
<1> QED  BY <1>1, <1>2

\* Three words behind n others.
IsBehind(r, s, t, n, X) ==
  /\ r \in Seq(X) /\ Len(r) = n + 3
  /\ \A i \in 1 .. n : r[i] = s[i]
  /\ r[n + 1] = t[1] /\ r[n + 2] = t[2] /\ r[n + 3] = t[3]

LEMMA ThreeBehind ==
  ASSUME NEW X, NEW n \in Nat, NEW s \in Seq(X), NEW t \in Seq(X), Len(s) = n, Len(t) = 3
  PROVE  IsBehind(s \o t, s, t, n, X)
<1> DEFINE r == s \o t
<1>1. /\ r \in Seq(X) /\ Len(r) = Len(s) + Len(t)
      /\ \A i \in 1 .. Len(s) + Len(t) : r[i] = IF i <= Len(s) THEN s[i] ELSE t[i - Len(s)]
  BY ConcatProperties
<1> HIDE DEF r
<1>2. Len(r) = n + 3 /\ \A i \in 1 .. n + 3 : r[i] = IF i <= n THEN s[i] ELSE t[i - n]
  BY <1>1
<1>3. \A i \in 1 .. n : r[i] = s[i]
  BY <1>2
<1>4. ASSUME NEW k \in 1 .. 3 PROVE r[n + k] = t[k]
  <2>1. n + k \in 1 .. n + 3 /\ ~(n + k <= n) /\ (n + k) - n = k
    OBVIOUS
  <2> QED  BY <1>2, <2>1
<1>5. r[n + 1] = t[1] /\ r[n + 2] = t[2] /\ r[n + 3] = t[3]
  BY <1>4
<1>6. r \in Seq(X) /\ Len(r) = n + 3
  BY <1>1, <1>2
<1> QED  BY <1>3, <1>5, <1>6 DEF r, IsBehind

\* The words of a row.
AreWords(r, a, b, c, d, X) ==
  /\ r \in Seq(X) /\ Len(r) = 11
  /\ r[1] = a[1] /\ r[2] = a[2]
  /\ r[3] = b[1] /\ r[4] = b[2] /\ r[5] = b[3]
  /\ r[6] = c[1] /\ r[7] = c[2] /\ r[8] = c[3]
  /\ r[9] = d[1] /\ r[10] = d[2] /\ r[11] = d[3]

LEMMA Joined ==
  ASSUME NEW X, NEW a \in Seq(X), NEW b \in Seq(X), NEW c \in Seq(X), NEW d \in Seq(X),
         Len(a) = 2, Len(b) = 3, Len(c) = 3, Len(d) = 3
  PROVE  AreWords(a \o b \o c \o d, a, b, c, d, X)
<1>1. PICK p : p = a \o b
  OBVIOUS
<1>2. PICK q : q = p \o c
  OBVIOUS
<1>3. PICK r : r = q \o d
  OBVIOUS
<1>4. /\ p \in Seq(X) /\ Len(p) = 2 + 3
      /\ \A i \in 1 .. 2 : p[i] = a[i]
      /\ p[2 + 1] = b[1] /\ p[2 + 2] = b[2] /\ p[2 + 3] = b[3]
  <2>1. PICK n \in Nat : n = 2
    OBVIOUS
  <2>2. a \in Seq(X) /\ Len(a) = n
    BY <2>1
  <2>3. IsBehind(p, a, b, n, X)
    BY <1>1, <2>2, ThreeBehind
  <2> QED  BY <2>1, <2>3 DEF IsBehind
<1>5. /\ q \in Seq(X) /\ Len(q) = 5 + 3
      /\ \A i \in 1 .. 5 : q[i] = p[i]
      /\ q[5 + 1] = c[1] /\ q[5 + 2] = c[2] /\ q[5 + 3] = c[3]
  <2>1. PICK n \in Nat : n = 5
    OBVIOUS
  <2>2. p \in Seq(X) /\ Len(p) = n
    BY <1>4, <2>1
  <2>3. IsBehind(q, p, c, n, X)
    BY <1>2, <2>2, ThreeBehind
  <2> QED  BY <2>1, <2>3 DEF IsBehind
<1>6. /\ r \in Seq(X) /\ Len(r) = 8 + 3
      /\ \A i \in 1 .. 8 : r[i] = q[i]
      /\ r[8 + 1] = d[1] /\ r[8 + 2] = d[2] /\ r[8 + 3] = d[3]
  <2>1. PICK n \in Nat : n = 8
    OBVIOUS
  <2>2. q \in Seq(X) /\ Len(q) = n
    BY <1>5, <2>1
  <2>3. IsBehind(r, q, d, n, X)
    BY <1>3, <2>2, ThreeBehind
  <2> QED  BY <2>1, <2>3 DEF IsBehind
<1>7. p[1] = a[1] /\ p[2] = a[2] /\ p[3] = b[1] /\ p[4] = b[2] /\ p[5] = b[3]
  BY <1>4
<1>8. /\ q[1] = p[1] /\ q[2] = p[2] /\ q[3] = p[3] /\ q[4] = p[4] /\ q[5] = p[5]
      /\ q[6] = c[1] /\ q[7] = c[2] /\ q[8] = c[3]
  BY <1>5
<1>9. /\ r[1] = q[1] /\ r[2] = q[2] /\ r[3] = q[3] /\ r[4] = q[4] /\ r[5] = q[5]
      /\ r[6] = q[6] /\ r[7] = q[7] /\ r[8] = q[8]
      /\ r[9] = d[1] /\ r[10] = d[2] /\ r[11] = d[3]
  BY <1>6
<1>10. r = a \o b \o c \o d /\ r \in Seq(X) /\ Len(r) = 11
  BY <1>1, <1>2, <1>3, <1>6
<1>11. /\ r[1] = a[1] /\ r[2] = a[2]
       /\ r[3] = b[1] /\ r[4] = b[2] /\ r[5] = b[3]
       /\ r[6] = c[1] /\ r[7] = c[2] /\ r[8] = c[3]
       /\ r[9] = d[1] /\ r[10] = d[2] /\ r[11] = d[3]
  BY <1>7, <1>8, <1>9
<1> QED  BY <1>10, <1>11 DEF AreWords

LEMMA RowWords ==
  ASSUME NEW W, NEW D, ToldApart(W, D), NEW o \in ObjectRecords(W, D),
         NEW r, r = Row(o)
  PROVE  /\ r \in Seq(Cells(W)) /\ Len(r) = 11
         /\ r[1] = o.id /\ r[2] = o.type
         /\ \A i \in 1 .. 3 : r[i + 2] = Printed(o.pos[i])
         /\ \A i \in 1 .. 3 : r[i + 5] = IF o.hasVelocity THEN Printed(o.vel[i]) ELSE Null
         /\ r[9] = o.confidence /\ r[10] = Printed(o.intensity) /\ r[11] = o.flags
<1> DEFINE X == Cells(W)
           a == <<o.id, o.type>>
           b == Floats(o.pos)
           c == Velocity(o)
           d == <<o.confidence, Printed(o.intensity), o.flags>>
<1>1. /\ o.id \in W /\ o.type \in W /\ o.confidence \in W /\ o.flags \in W
      /\ o.pos \in [1 .. 3 -> D] /\ o.vel \in [1 .. 3 -> D] /\ o.hasVelocity \in BOOLEAN
      /\ Printed(o.intensity) \in X
  BY DEF ObjectRecords, Triples, ToldApart, Cells
<1>2. a \in Seq(X) /\ Len(a) = 2 /\ a[1] = o.id /\ a[2] = o.type
  BY <1>1 DEF Cells
<1>3. b \in Seq(X) /\ Len(b) = 3 /\ \A i \in 1 .. 3 : b[i] = Printed(o.pos[i])
  BY <1>1, FloatsOfThree DEF IsPrinted
<1>4. /\ c \in Seq(X) /\ Len(c) = 3
      /\ \A i \in 1 .. 3 : c[i] = IF o.hasVelocity THEN Printed(o.vel[i]) ELSE Null
  <2>1. CASE o.hasVelocity
    BY <1>1, <2>1, FloatsOfThree DEF Velocity, IsPrinted
  <2>2. CASE ~o.hasVelocity
    <3>1. c = <<Null, Null, Null>> /\ Null \in X
      BY <2>2 DEF Velocity, Cells
    <3> QED  BY <2>2, <3>1
  <2> QED  BY <2>1, <2>2
<1>5. /\ d \in Seq(X) /\ Len(d) = 3
      /\ d[1] = o.confidence /\ d[2] = Printed(o.intensity) /\ d[3] = o.flags
  BY <1>1 DEF Cells
<1>6. r = a \o b \o c \o d
  BY DEF Row
<1> HIDE DEF X, a, b, c, d
<1>7. AreWords(r, a, b, c, d, X)
  BY <1>2, <1>3, <1>4, <1>5, <1>6, Joined
<1>8. \A i \in 1 .. 3 : r[i + 2] = b[i] /\ r[i + 5] = c[i]
  <2> SUFFICES ASSUME NEW i \in 1 .. 3 PROVE r[i + 2] = b[i] /\ r[i + 5] = c[i]
    OBVIOUS
  <2>1. i = 1 \/ i = 2 \/ i = 3
    OBVIOUS
  <2> QED  BY <1>7, <2>1 DEF AreWords
<1>9. r \in Seq(Cells(W))
  BY <1>7 DEF X, AreWords
<1> QED  BY <1>2, <1>3, <1>4, <1>5, <1>7, <1>8, <1>9 DEF AreWords

\* A row with a double that is no number spoils the text; every other is read as
\* its object.
LEMMA RowRead ==
  ASSUME NEW W, NEW D, ToldApart(W, D), NEW o \in ObjectRecords(W, D)
  PROVE  /\ Row(o) \in Seq(Cells(W))
         /\ NotJson \in Range(Row(o)) <=> ~FineObject(o)
         /\ RowOk(Row(o))
         /\ FineObject(o) => ObjectOf(Row(o)) = ReadObject(o)
<1>0. PICK r : r = Row(o)
  OBVIOUS
<1>1. /\ r \in Seq(Cells(W)) /\ Len(r) = 11
      /\ r[1] = o.id /\ r[2] = o.type
      /\ \A i \in 1 .. 3 : r[i + 2] = Printed(o.pos[i])
      /\ \A i \in 1 .. 3 : r[i + 5] = IF o.hasVelocity THEN Printed(o.vel[i]) ELSE Null
      /\ r[9] = o.confidence /\ r[10] = Printed(o.intensity) /\ r[11] = o.flags
  BY <1>0, RowWords
<1>2. /\ o.id \in W /\ o.type \in W /\ o.confidence \in W /\ o.flags \in W
      /\ o.pos \in [1 .. 3 -> D] /\ o.vel \in [1 .. 3 -> D] /\ o.hasVelocity \in BOOLEAN
      /\ o.intensity \in D
  BY DEF ObjectRecords, Triples
<1>3. /\ \A i \in 1 .. 3 : Printed(o.pos[i]) # Null /\ Printed(o.vel[i]) # Null
      /\ Printed(o.intensity) # Null
      /\ \A x \in W : x # Null /\ x # NotJson
      /\ Null # NotJson
  BY <1>2 DEF ToldApart
<1>4. DOMAIN r = 1 .. 11 /\ \A k \in 1 .. 11 : r[k] \in Cells(W)
  <2>1. DOMAIN r = 1 .. Len(r) /\ \A k \in 1 .. Len(r) : r[k] \in Cells(W)
    BY <1>1, LenProperties, ElementOfSeq
  <2> QED  BY <1>1, <2>1
<1>5. \A k \in 1 .. 11 : k \in {1, 2, 9, 10, 11} \/ k - 2 \in 1 .. 3 \/ k - 5 \in 1 .. 3
  OBVIOUS
<1>6. /\ \A k \in 3 .. 5 : r[k] = Printed(o.pos[k - 2])
      /\ \A k \in 6 .. 8 : r[k] = IF o.hasVelocity THEN Printed(o.vel[k - 5]) ELSE Null
  <2>1. ASSUME NEW k \in 3 .. 5 PROVE r[k] = Printed(o.pos[k - 2])
    <3>1. k - 2 \in 1 .. 3 /\ (k - 2) + 2 = k
      OBVIOUS
    <3> QED  BY <1>1, <3>1
  <2>2. ASSUME NEW k \in 6 .. 8 PROVE r[k] = IF o.hasVelocity THEN Printed(o.vel[k - 5]) ELSE Null
    <3>1. k - 5 \in 1 .. 3 /\ (k - 5) + 5 = k
      OBVIOUS
    <3> QED  BY <1>1, <3>1
  <2> QED  BY <2>1, <2>2
<1>7. NotJson \in Range(r) <=> ~FineObject(o)
  <2>1. NotJson \in Range(r) <=> \E k \in 1 .. 11 : r[k] = NotJson
    BY <1>4 DEF Range
  <2>2. ASSUME FineObject(o), NEW k \in 1 .. 11 PROVE r[k] # NotJson
    <3>1. k \in {1, 2, 9, 11} => r[k] \in W
      BY <1>1, <1>2
    <3>2. r[10] # NotJson
      BY <1>1, <2>2 DEF FineObject
    <3>3. k \in 3 .. 5 => r[k] # NotJson
      BY <1>6, <2>2 DEF FineObject, Fine
    <3>4. k \in 6 .. 8 => r[k] # NotJson
      BY <1>3, <1>6, <2>2 DEF FineObject, Fine
    <3>5. k \in {1, 2, 9, 11} \/ k = 10 \/ k \in 3 .. 5 \/ k \in 6 .. 8
      OBVIOUS
    <3> QED  BY <1>3, <3>1, <3>2, <3>3, <3>4, <3>5
  <2>3. ASSUME ~FineObject(o) PROVE \E k \in 1 .. 11 : r[k] = NotJson
    <3>1. CASE ~Fine(o.pos)
      <4>1. PICK i \in 1 .. 3 : Printed(o.pos[i]) = NotJson
        BY <3>1 DEF Fine
      <4> QED  BY <1>1, <4>1
    <3>2. CASE o.hasVelocity /\ ~Fine(o.vel)
      <4>1. PICK i \in 1 .. 3 : Printed(o.vel[i]) = NotJson
        BY <3>2 DEF Fine
      <4> QED  BY <1>1, <3>2, <4>1
    <3>3. CASE Printed(o.intensity) = NotJson
      BY <1>1, <3>3
    <3> QED  BY <2>3, <3>1, <3>2, <3>3 DEF FineObject
  <2> QED  BY <2>1, <2>2, <2>3
<1>8. RowOk(r)
  <2>1. ASSUME NEW m \in Int, NEW n \in Int, 1 <= m, m <= n, n <= 11,
               \A k \in m .. n : r[k] # Null
        PROVE  Numbers(SubSeq(r, m, n))
    <3> DEFINE s == SubSeq(r, m, n)
    <3>1. \A k \in m .. n : r[k] \in Cells(W)
      BY <1>4, <2>1
    <3>2. s \in Seq(Cells(W)) /\ Len(s) = n - m + 1 /\ \A i \in 1 .. n - m + 1 : s[i] = r[m + i - 1]
      BY <2>1, <3>1, SubSeqProperties
    <3>3. DOMAIN s = 1 .. n - m + 1
      BY <3>2, LenProperties
    <3> HIDE DEF s
    <3>4. ASSUME NEW i \in 1 .. n - m + 1 PROVE s[i] # Null
      <4>1. m + i - 1 \in m .. n
        BY <3>4
      <4> QED  BY <2>1, <3>2, <4>1
    <3>5. Numbers(s)
      BY <3>3, <3>4 DEF Numbers
    <3> QED  BY <3>5 DEF s
  <2>2. \A k \in 1 .. 5 : r[k] # Null
    <3>1. r[1] # Null /\ r[2] # Null
      BY <1>1, <1>2, <1>3
    <3>2. \A k \in 3 .. 5 : r[k] # Null
      BY <1>3, <1>6
    <3> QED  BY <3>1, <3>2
  <2>3. \A k \in 9 .. 11 : r[k] # Null
    <3>1. r[9] # Null /\ r[10] # Null /\ r[11] # Null
      BY <1>1, <1>2, <1>3
    <3> QED  BY <3>1
  <2>6. Numbers(SubSeq(r, 1, 5))
    BY <2>1, <2>2
  <2>7. Numbers(SubSeq(r, 9, 11))
    BY <2>1, <2>3
  <2>4. CASE o.hasVelocity
    <3>1. \A k \in 6 .. 8 : r[k] # Null
      BY <1>3, <1>6, <2>4
    <3>2. Numbers(SubSeq(r, 6, 8))
      BY <2>1, <3>1
    <3> QED  BY <1>1, <2>6, <2>7, <3>2 DEF RowOk
  <2>5. CASE ~o.hasVelocity
    <3>1. \A k \in 6 .. 8 : r[k] = Null
      BY <1>6, <2>5
    <3> QED  BY <1>1, <2>6, <2>7, <3>1 DEF RowOk
  <2> QED  BY <2>4, <2>5
<1>9. ASSUME FineObject(o) PROVE ObjectOf(r) = ReadObject(o)
  <2>1. SubSeq(r, 3, 5) = Floats(o.pos)
    <3> DEFINE s == SubSeq(r, 3, 5)
    <3>1. \A k \in 3 .. 5 : r[k] \in Cells(W)
      BY <1>4
    <3>2. s \in Seq(Cells(W)) /\ Len(s) = 3 /\ \A i \in 1 .. 3 : s[i] = r[3 + i - 1]
      BY <3>1, SubSeqProperties
    <3>3. \A i \in 1 .. 3 : r[3 + i - 1] = Printed(o.pos[i])
      <4>1. \A i \in 1 .. 3 : 3 + i - 1 \in 3 .. 5 /\ (3 + i - 1) - 2 = i
        OBVIOUS
      <4> QED  BY <1>6, <4>1
    <3>4. /\ Floats(o.pos) \in Seq(Cells(W)) /\ Len(Floats(o.pos)) = 3
          /\ \A i \in 1 .. 3 : Floats(o.pos)[i] = Printed(o.pos[i])
      BY <1>2, FloatsOfThree DEF IsPrinted
    <3> HIDE DEF s
    <3>5. s = Floats(o.pos)
      BY <3>2, <3>3, <3>4, SeqEqual
    <3> QED  BY <3>5 DEF s
  <2>2. (IF r[6] = Null THEN Null ELSE SubSeq(r, 6, 8)) = IF o.hasVelocity THEN Floats(o.vel) ELSE Null
    <3>0. r[6] = IF o.hasVelocity THEN Printed(o.vel[1]) ELSE Null
      BY <1>6
    <3>1. CASE ~o.hasVelocity
      BY <3>0, <3>1
    <3>2. CASE o.hasVelocity
      <4> DEFINE s == SubSeq(r, 6, 8)
      <4>1. \A k \in 6 .. 8 : r[k] \in Cells(W)
        BY <1>4
      <4>2. s \in Seq(Cells(W)) /\ Len(s) = 3 /\ \A i \in 1 .. 3 : s[i] = r[6 + i - 1]
        BY <4>1, SubSeqProperties
      <4>3. \A i \in 1 .. 3 : r[6 + i - 1] = Printed(o.vel[i])
        <5>1. \A i \in 1 .. 3 : 6 + i - 1 \in 6 .. 8 /\ (6 + i - 1) - 5 = i
          OBVIOUS
        <5> QED  BY <1>6, <3>2, <5>1
      <4>4. /\ Floats(o.vel) \in Seq(Cells(W)) /\ Len(Floats(o.vel)) = 3
            /\ \A i \in 1 .. 3 : Floats(o.vel)[i] = Printed(o.vel[i])
        BY <1>2, FloatsOfThree DEF IsPrinted
      <4> HIDE DEF s
      <4>5. s = Floats(o.vel)
        BY <4>2, <4>3, <4>4, SeqEqual
      <4>6. SubSeq(r, 6, 8) = Floats(o.vel)
        BY <4>5 DEF s
      <4>7. r[6] # Null
        BY <1>3, <3>0, <3>2
      <4> QED  BY <3>2, <4>6, <4>7
    <3> QED  BY <3>1, <3>2
  <2> QED  BY <1>1, <2>1, <2>2 DEF ObjectOf, ReadObject
<1> QED  BY <1>0, <1>1, <1>7, <1>8, <1>9

\* The same for a trail point.
LEMMA PointRead ==
  ASSUME NEW W, NEW D, ToldApart(W, D), NEW p \in TrailRecords(W, D)
  PROVE  LET r == <<p.id>> \o Floats(<<p.t>> \o p.pos)
         IN  /\ r \in Seq(Cells(W))
             /\ NotJson \in Range(r) <=> ~FinePoint(p)
             /\ PointOk(r)
             /\ PointOf(r) = ReadPoint(p)
<1>0. PICK r : r = <<p.id>> \o Floats(<<p.t>> \o p.pos)
  OBVIOUS
<1> DEFINE d == <<p.t>> \o p.pos
           X == Cells(W)
<1>1. p.id \in W /\ p.t \in D /\ p.pos \in [1 .. 3 -> D]
  BY DEF TrailRecords, Triples
<1>2. d \in [1 .. 4 -> D] /\ d[1] = p.t /\ \A i \in 1 .. 3 : d[i + 1] = p.pos[i]
  <2>1. p.pos \in Seq(D) /\ Len(p.pos) = 3
    <3>1. p.pos \in Seq(D)
      BY <1>1, SeqDef
    <3> QED  BY <1>1, <3>1, LenProperties
  <2>2. <<p.t>> \in Seq(D) /\ Len(<<p.t>>) = 1
    BY <1>1
  <2>3. PICK n \in Nat : n = 1
    OBVIOUS
  <2>4. IsBehind(d, <<p.t>>, p.pos, n, D)
    BY <2>1, <2>2, <2>3, ThreeBehind
  <2> HIDE DEF d
  <2>5. d \in Seq(D) /\ Len(d) = 4 /\ d[1] = p.t /\ d[2] = p.pos[1] /\ d[3] = p.pos[2] /\ d[4] = p.pos[3]
    BY <2>3, <2>4 DEF IsBehind
  <2>6. d \in [1 .. 4 -> D]
    BY <2>5, LenProperties
  <2>7. ASSUME NEW i \in 1 .. 3 PROVE d[i + 1] = p.pos[i]
    <3>1. i = 1 \/ i = 2 \/ i = 3
      OBVIOUS
    <3> QED  BY <2>5, <3>1
  <2> QED  BY <2>5, <2>6, <2>7
<1> HIDE DEF d
<1>3. /\ Floats(d) \in Seq(X) /\ Floats(d) \in [1 .. 4 -> W \cup {NotJson}] /\ Len(Floats(d)) = 4
      /\ \A i \in 1 .. 4 : Floats(d)[i] = Printed(d[i])
  <2>1. PICK n \in Nat : n = 4
    OBVIOUS
  <2>2. IsPrinted(Floats(d), d, n, W)
    BY <1>2, <2>1, FloatsFacts
  <2> QED  BY <2>1, <2>2 DEF IsPrinted
<1>4. /\ r \in Seq(X) /\ Len(r) = 5 /\ r[1] = p.id
      /\ \A i \in 1 .. 4 : r[i + 1] = Printed(d[i])
  <2>1. <<p.id>> \in Seq(X) /\ Len(<<p.id>>) = 1
    BY <1>1 DEF Cells
  <2> DEFINE s == <<p.id>>
             f == Floats(d)
  <2>2. r = s \o f
    BY <1>0 DEF d
  <2>3. s \in Seq(X) /\ f \in Seq(X) /\ Len(s) = 1 /\ Len(f) = 4 /\ s[1] = p.id
    BY <1>3, <2>1
  <2>4. \A i \in 1 .. 4 : f[i] = Printed(d[i])
    BY <1>3
  <2> HIDE DEF s, f
  <2>5. /\ s \o f \in Seq(X) /\ Len(s \o f) = Len(s) + Len(f)
        /\ \A i \in 1 .. Len(s) + Len(f) : (s \o f)[i] = IF i <= Len(s) THEN s[i] ELSE f[i - Len(s)]
    BY <2>3, ConcatProperties
  <2>6. r \in Seq(X) /\ Len(r) = 5 /\ \A i \in 1 .. 5 : r[i] = IF i <= 1 THEN s[i] ELSE f[i - 1]
    <3>1. /\ r \in Seq(X) /\ Len(r) = Len(s) + Len(f)
          /\ \A i \in 1 .. Len(s) + Len(f) : r[i] = IF i <= Len(s) THEN s[i] ELSE f[i - Len(s)]
      BY <2>2, <2>5
    <3> QED  BY <2>3, <3>1
  <2>7. r[1] = p.id
    BY <2>3, <2>6
  <2>8. ASSUME NEW i \in 1 .. 4 PROVE r[i + 1] = Printed(d[i])
    <3>1. i + 1 \in 1 .. 5 /\ ~(i + 1 <= 1) /\ (i + 1) - 1 = i
      OBVIOUS
    <3> QED  BY <2>4, <2>6, <3>1
  <2> QED  BY <2>6, <2>7, <2>8
<1>5. /\ r[2] = Printed(p.t)
      /\ r[3] = Printed(p.pos[1]) /\ r[4] = Printed(p.pos[2]) /\ r[5] = Printed(p.pos[3])
  <2>1. d[2] = p.pos[1] /\ d[3] = p.pos[2] /\ d[4] = p.pos[3] /\ d[1] = p.t
    BY <1>2
  <2>2. r[2] = Printed(d[1]) /\ r[3] = Printed(d[2]) /\ r[4] = Printed(d[3]) /\ r[5] = Printed(d[4])
    BY <1>4
  <2> QED  BY <2>1, <2>2
<1>6. DOMAIN r = 1 .. 5 /\ \A k \in 1 .. 5 : k = 1 \/ k = 2 \/ k = 3 \/ k = 4 \/ k = 5
  <2>1. DOMAIN r = 1 .. Len(r)
    BY <1>4, LenProperties
  <2> QED  BY <1>4, <2>1
<1>7. /\ p.id # Null /\ p.id # NotJson /\ Printed(p.t) # Null
      /\ \A i \in 1 .. 3 : Printed(p.pos[i]) # Null
  BY <1>1 DEF ToldApart
<1>8. NotJson \in Range(r) <=> ~FinePoint(p)
  <2>1. NotJson \in Range(r) <=> \E k \in 1 .. 5 : r[k] = NotJson
    BY <1>6 DEF Range
  <2>2. FinePoint(p) <=> /\ r[2] # NotJson /\ r[3] # NotJson /\ r[4] # NotJson /\ r[5] # NotJson
    <3>1. Fine(p.pos) <=> \A i \in {1, 2, 3} : Printed(p.pos[i]) # NotJson
      BY DEF Fine
    <3> QED  BY <1>5, <3>1 DEF FinePoint
  <2> QED  BY <1>4, <1>6, <1>7, <2>1, <2>2
<1>9. PointOk(r)
  <2>1. r[1] # Null /\ r[2] # Null /\ r[3] # Null /\ r[4] # Null /\ r[5] # Null
    BY <1>4, <1>5, <1>7
  <2> QED  BY <1>4, <1>6, <2>1 DEF PointOk, Numbers
<1>10. PointOf(r) = ReadPoint(p)
  <2>1. SubSeq(r, 3, 5) = Floats(p.pos)
    <3> DEFINE s == SubSeq(r, 3, 5)
    <3>1. \A k \in 3 .. 5 : r[k] \in X
      <4>1. \A k \in 1 .. Len(r) : r[k] \in X
        BY <1>4, ElementOfSeq
      <4> QED  BY <1>4, <4>1
    <3>2. s \in Seq(X) /\ Len(s) = 3 /\ \A i \in 1 .. 3 : s[i] = r[3 + i - 1]
      BY <3>1, SubSeqProperties
    <3>3. /\ Floats(p.pos) \in Seq(X) /\ Len(Floats(p.pos)) = 3
          /\ \A i \in 1 .. 3 : Floats(p.pos)[i] = Printed(p.pos[i])
      BY <1>1, FloatsOfThree DEF IsPrinted
    <3> HIDE DEF s
    <3>4. ASSUME NEW i \in 1 .. 3 PROVE s[i] = Floats(p.pos)[i]
      <4>1. i = 1 \/ i = 2 \/ i = 3
        OBVIOUS
      <4>2. s[1] = r[3] /\ s[2] = r[4] /\ s[3] = r[5]
        BY <3>2
      <4> QED  BY <1>5, <3>3, <4>1, <4>2
    <3>5. s = Floats(p.pos)
      BY <3>2, <3>3, <3>4, SeqEqual
    <3> QED  BY <3>5 DEF s
  <2> QED  BY <1>4, <1>5, <2>1 DEF PointOf, ReadPoint
<1> QED  BY <1>0, <1>4, <1>8, <1>9, <1>10

\* Every snapshot, whatever its rows, is read as it was written, its doubles
\* rounded, or one double that is no number costs the whole frame
\* (json_writer.cpp:15-22 and parseState() in net.js).
THEOREM ReadBack ==
  ASSUME NEW W, NEW D, ToldApart(W, D), NEW snap \in SnapshotRecords(W, D)
  PROVE  ParseStateMessage(BuildStateMessage(snap)) =
           IF FineSnapshot(snap) THEN Rounded(snap) ELSE Rejected
<1> DEFINE objs == snap.objects
           trail == snap.trail
           sat == IF snap.satellite = Null THEN Null
                  ELSE [snap.satellite EXCEPT !.pos = Floats(@), !.vel = Floats(@)]
           rows == [i \in DOMAIN objs |-> Row(objs[i])]
           tr == [i \in DOMAIN trail |-> <<trail[i].id>> \o Floats(<<trail[i].t>> \o trail[i].pos)]
           pts == IF trail = << >> THEN Absent ELSE tr
           msg == BuildStateMessage(snap)
<1>1. /\ snap.satellite \in SatelliteRecords(W, D) \cup {Null}
      /\ objs \in Seq(ObjectRecords(W, D)) /\ trail \in Seq(TrailRecords(W, D))
  BY DEF SnapshotRecords
<1>2. msg = [satellite |-> sat, objects |-> rows, trailPoints |-> pts]
  BY DEF BuildStateMessage
<1>3. /\ msg.satellite = sat /\ msg.objects = rows /\ msg.trailPoints = pts /\ msg # Rejected
  BY <1>2 DEF ToldApart
<1>4. \A i \in DOMAIN objs : objs[i] \in ObjectRecords(W, D)
  <2>1. objs \in [1 .. Len(objs) -> ObjectRecords(W, D)]
    BY <1>1, LenProperties
  <2> QED  BY <2>1
<1>5. \A i \in DOMAIN trail : trail[i] \in TrailRecords(W, D)
  <2>1. trail \in [1 .. Len(trail) -> TrailRecords(W, D)]
    BY <1>1, LenProperties
  <2> QED  BY <2>1
<1>6. DOMAIN rows = DOMAIN objs /\ DOMAIN tr = DOMAIN trail
  OBVIOUS
<1>7. ASSUME NEW i \in DOMAIN objs
      PROVE  /\ NotJson \in Range(rows[i]) <=> ~FineObject(objs[i])
             /\ RowOk(rows[i])
             /\ FineObject(objs[i]) => ObjectOf(rows[i]) = ReadObject(objs[i])
  <2>1. rows[i] = Row(objs[i]) /\ objs[i] \in ObjectRecords(W, D)
    BY <1>4
  <2> HIDE DEF rows, objs
  <2> QED  BY <2>1, RowRead
<1>8. ASSUME NEW i \in DOMAIN trail
      PROVE  /\ tr[i] \in Seq(Cells(W))
             /\ NotJson \in Range(tr[i]) <=> ~FinePoint(trail[i])
             /\ PointOk(tr[i])
             /\ PointOf(tr[i]) = ReadPoint(trail[i])
  <2>1. tr[i] = <<trail[i].id>> \o Floats(<<trail[i].t>> \o trail[i].pos) /\ trail[i] \in TrailRecords(W, D)
    BY <1>5
  <2> HIDE DEF tr, trail
  <2> QED  BY <2>1, PointRead
<1>9. pts = Absent <=> trail = << >>
  <2>1. tr \in Seq(Seq(Cells(W)))
    <3>1. DOMAIN tr = 1 .. Len(trail) /\ Len(trail) \in Nat
      BY <1>1, <1>6, LenProperties
    <3>2. \A i \in DOMAIN tr : tr[i] \in Seq(Cells(W))
      BY <1>6, <1>8
    <3>3. tr \in [1 .. Len(trail) -> Seq(Cells(W))]
      <4>1. tr = [i \in DOMAIN tr |-> tr[i]]
        OBVIOUS
      <4> HIDE DEF tr
      <4> QED  BY <3>1, <3>2, <4>1
    <3> HIDE DEF tr
    <3> QED  BY <3>1, <3>3, SeqDef
  <2> HIDE DEF tr
  <2>2. tr # Absent
    BY <2>1 DEF ToldApart
  <2> QED  BY <2>2
\* The satellite.
<1>10. ASSUME snap.satellite # Null
       PROVE  /\ sat # Null /\ snap.satellite \in SatelliteRecords(W, D)
              /\ sat.pos = Floats(snap.satellite.pos) /\ sat.vel = Floats(snap.satellite.vel)
              /\ IsPrinted(sat.pos, snap.satellite.pos, 3, W)
              /\ IsPrinted(sat.vel, snap.satellite.vel, 3, W)
  <2> DEFINE s == snap.satellite
  <2>1. s \in SatelliteRecords(W, D) /\ sat = [s EXCEPT !.pos = Floats(@), !.vel = Floats(@)]
    BY <1>1, <1>10
  <2> HIDE DEF s
  <2>2. s.pos \in [1 .. 3 -> D] /\ s.vel \in [1 .. 3 -> D] /\ s.id \in W /\ s.seq \in W
    BY <2>1 DEF SatelliteRecords, Triples
  <2>3. sat.pos = Floats(s.pos) /\ sat.vel = Floats(s.vel)
        /\ sat = [id |-> s.id, seq |-> s.seq, pos |-> Floats(s.pos), vel |-> Floats(s.vel)]
    BY <2>1 DEF SatelliteRecords
  <2>4. IsPrinted(Floats(s.pos), s.pos, 3, W) /\ IsPrinted(Floats(s.vel), s.vel, 3, W)
    BY <2>2, FloatsOfThree
  <2>5. Floats(s.pos) \in [1 .. 3 -> W \cup {NotJson}] /\ Floats(s.vel) \in [1 .. 3 -> W \cup {NotJson}]
    BY <2>4 DEF IsPrinted
  <2> HIDE DEF sat
  <2>6. sat \in SatelliteRecords(W, W \cup {NotJson})
    BY <2>2, <2>3, <2>5 DEF SatelliteRecords, Triples
  <2>7. sat # Null
    BY <2>6 DEF ToldApart
  <2> QED  BY <2>1, <2>3, <2>4, <2>7 DEF s
<1>11. snap.satellite # Null =>
         /\ sat # Null
         /\ NotJson \in Range(sat.pos) \cup Range(sat.vel)
              <=> ~(Fine(snap.satellite.pos) /\ Fine(snap.satellite.vel))
  <2> SUFFICES ASSUME snap.satellite # Null
               PROVE  /\ sat # Null
                      /\ NotJson \in Range(sat.pos) \cup Range(sat.vel)
                           <=> ~(Fine(snap.satellite.pos) /\ Fine(snap.satellite.vel))
    OBVIOUS
  <2> HIDE DEF sat
  <2>1. ASSUME NEW f, NEW t, IsPrinted(f, t, 3, W) PROVE NotJson \in Range(f) <=> ~Fine(t)
    BY <2>1 DEF IsPrinted, Range, Fine
  <2> QED  BY <1>10, <2>1
<1>12. SatelliteOk(sat)
  <2> SUFFICES ASSUME sat # Null PROVE SatelliteOk(sat)
    BY DEF SatelliteOk
  <2>1. snap.satellite # Null
    OBVIOUS
  <2> HIDE DEF sat
  <2>2. IsPrinted(sat.pos, snap.satellite.pos, 3, W) /\ IsPrinted(sat.vel, snap.satellite.vel, 3, W)
    BY <1>10, <2>1
  <2>3. ASSUME NEW f, NEW t, IsPrinted(f, t, 3, W) PROVE Len(f) = 3 /\ Numbers(f)
    BY <2>3 DEF IsPrinted, Numbers, ToldApart
  <2> QED  BY <2>2, <2>3 DEF SatelliteOk
\* The words of the frame.
<1>13. NotJson \in Words(msg) <=> ~FineSnapshot(snap)
  <2> HIDE DEF msg, sat, rows, tr
  <2>1. NotJson \in UNION {Range(row) : row \in Range(rows)} <=> \E i \in DOMAIN objs : ~FineObject(objs[i])
    <3>1. Range(rows) = {rows[i] : i \in DOMAIN objs}
      BY <1>6 DEF Range
    <3> QED  BY <1>7, <3>1
  <2>2. NotJson \in (IF sat = Null THEN {} ELSE Range(sat.pos) \cup Range(sat.vel))
          <=> snap.satellite # Null /\ ~(Fine(snap.satellite.pos) /\ Fine(snap.satellite.vel))
    <3>1. CASE snap.satellite = Null
      BY <3>1 DEF sat
    <3>2. CASE snap.satellite # Null
      BY <1>11, <3>2
    <3> QED  BY <3>1, <3>2
  <2>3. NotJson \in (IF pts = Absent THEN {} ELSE UNION {Range(row) : row \in Range(pts)})
          <=> \E i \in DOMAIN trail : ~FinePoint(trail[i])
    <3>1. CASE trail = << >>
      <4>1. DOMAIN trail = {}
        BY <3>1
      <4> QED  BY <1>9, <3>1, <4>1
    <3>2. CASE trail # << >>
      <4>1. pts = tr /\ pts # Absent
        BY <1>9, <3>2
      <4>2. Range(tr) = {tr[i] : i \in DOMAIN trail}
        BY <1>6 DEF Range
      <4>3. NotJson \in UNION {Range(row) : row \in Range(tr)} <=> \E i \in DOMAIN trail : ~FinePoint(trail[i])
        BY <1>8, <4>2
      <4> QED  BY <4>1, <4>3
    <3> QED  BY <3>1, <3>2
  <2>4. Words(msg) = (UNION {Range(row) : row \in Range(rows)})
          \cup (IF sat = Null THEN {} ELSE Range(sat.pos) \cup Range(sat.vel))
          \cup (IF pts = Absent THEN {} ELSE UNION {Range(row) : row \in Range(pts)})
    BY <1>3 DEF Words
  <2>5. FineSnapshot(snap) <=>
          /\ ~(snap.satellite # Null /\ ~(Fine(snap.satellite.pos) /\ Fine(snap.satellite.vel)))
          /\ ~\E i \in DOMAIN objs : ~FineObject(objs[i])
          /\ ~\E i \in DOMAIN trail : ~FinePoint(trail[i])
    BY DEF FineSnapshot
  <2> HIDE DEF objs, trail, pts
  <2>6. NotJson \in Words(msg) <=>
          \/ NotJson \in (UNION {Range(row) : row \in Range(rows)})
          \/ NotJson \in (IF sat = Null THEN {} ELSE Range(sat.pos) \cup Range(sat.vel))
          \/ NotJson \in (IF pts = Absent THEN {} ELSE UNION {Range(row) : row \in Range(pts)})
    <3> DEFINE A == UNION {Range(row) : row \in Range(rows)}
               B == IF sat = Null THEN {} ELSE Range(sat.pos) \cup Range(sat.vel)
               C == IF pts = Absent THEN {} ELSE UNION {Range(row) : row \in Range(pts)}
    <3>1. Words(msg) = A \cup B \cup C
      BY <2>4
    <3> HIDE DEF A, B, C
    <3>2. NotJson \in Words(msg) <=> NotJson \in A \/ NotJson \in B \/ NotJson \in C
      BY <3>1
    <3> QED  BY <3>2 DEF A, B, C
  <2> QED  BY <2>1, <2>2, <2>3, <2>5, <2>6
<1>14. CASE ~FineSnapshot(snap)
  BY <1>13, <1>14 DEF ParseStateMessage, JsonParse
<1>15. CASE FineSnapshot(snap)
  <2>1. JsonParse(msg) = msg /\ msg # Rejected
    BY <1>3, <1>13, <1>15 DEF JsonParse
  <2>2. ParseStateMessage(msg) = ParseState(msg)
    BY <2>1 DEF ParseStateMessage
  <2> DEFINE points == IF pts = Absent THEN << >> ELSE pts
  <2>3. DOMAIN points = DOMAIN trail /\ \A i \in DOMAIN trail : points[i] = tr[i]
    <3>1. CASE trail = << >>
      BY <1>9, <3>1
    <3>2. CASE trail # << >>
      <4>1. points = tr
        BY <1>9, <3>2
      <4> HIDE DEF points, tr
      <4> QED  BY <1>6, <4>1
    <3> QED  BY <3>1, <3>2
  <2> HIDE DEF msg, sat, rows, tr, points, pts
  <2>4. \A i \in DOMAIN points : PointOk(points[i])
    BY <1>8, <2>3
  <2>5. \A i \in DOMAIN rows : RowOk(rows[i])
    BY <1>6, <1>7
  <2>6. \A i \in DOMAIN objs : FineObject(objs[i])
    BY <1>15 DEF FineSnapshot
  <2>7. [i \in DOMAIN rows |-> ObjectOf(rows[i])] = [i \in DOMAIN objs |-> ReadObject(objs[i])]
    BY <1>6, <1>7, <2>6
  <2>8. [i \in DOMAIN points |-> PointOf(points[i])] = [i \in DOMAIN trail |-> ReadPoint(trail[i])]
    BY <1>8, <2>3
  <2>9. ParseState(msg) = [satellite |-> sat,
                           objects |-> [i \in DOMAIN rows |-> ObjectOf(rows[i])],
                           trailPoints |-> [i \in DOMAIN points |-> PointOf(points[i])]]
    BY <1>3, <1>12, <2>4, <2>5 DEF ParseState, points
  <2>10. Rounded(snap) = [satellite |-> sat,
                          objects |-> [i \in DOMAIN objs |-> ReadObject(objs[i])],
                          trailPoints |-> [i \in DOMAIN trail |-> ReadPoint(trail[i])]]
    BY DEF Rounded, sat
  <2>11. ParseState(msg) = Rounded(snap)
    BY <2>7, <2>8, <2>9, <2>10
  <2> QED  BY <1>15, <2>2, <2>11 DEF msg
<1> QED  BY <1>14, <1>15

===============================================================================

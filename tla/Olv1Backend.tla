----------------------------- MODULE Olv1Backend -----------------------------
(***************************************************************************)
(* olv_backend in OLV1 mode: a sender, a network that loses, duplicates,   *)
(* delays and corrupts datagrams, the input thread of                      *)
(* src/olv1_input_source.cpp and the broadcast tick of Backend.            *)
(*                                                                         *)
(* Datagram n is the n-th the sender built (tools/simulator); on the wire  *)
(* it carries only n - 1 modulo 2^32.  The network may deliver any of the  *)
(* last Lag datagrams, any number of times.                                *)
(***************************************************************************)
EXTENDS Backend

CONSTANTS
  Lag,          \* how many newer datagrams may overtake one in the network
  RowsOf(_),    \* the object ids datagram n carries
  MaxSent,      \* bound on datagrams sent
  MaxReceived   \* bound on datagrams received

ASSUME Olv1Assumption ==
  /\ Lag \in 1 .. Half
  /\ MaxSent \in Nat
  /\ MaxReceived \in Nat
  /\ \A n \in 1 .. MaxSent : RowsOf(n) \subseteq Ids

VARIABLES
  sent,    \* datagrams the sender has built
  newest   \* history: the index of the last datagram accepted, 0 for none

vars == <<backendVars, sent, newest>>

WireSeqOf(n) == (n - 1) % SeqMod

\* What decode() yields for datagram n; every payload is named by its n.
PacketOf(n) == [seq |-> WireSeqOf(n), sat |-> n, rows |-> [id \in RowsOf(n) |-> n]]

Init ==
  /\ BackendInit
  /\ sent = 0
  /\ newest = 0

-------------------------------------------------------------------------------
\* olv_sim: buildPackets() numbers every datagram of a run consecutively.
Send ==
  /\ sent < MaxSent
  /\ sent' = sent + 1
  /\ UNCHANGED <<backendVars, newest>>

\* A datagram arrives, intact or corrupted; countReceived().
Receive(n, intact) ==
  /\ stats.received < MaxReceived
  /\ n > sent - Lag
  /\ BeginDatagram([n |-> n, intact |-> intact])
  /\ UNCHANGED <<sent, newest>>

\* proto::decode() failed; countDropped(kMalformed).
DropMalformed ==
  /\ pc = "decode"
  /\ ~rx.intact
  /\ DropDatagram("malformed")
  /\ UNCHANGED <<sent, newest>>

\* proto::decode() succeeded; the clock arguments of apply() are evaluated.
Decoded ==
  /\ pc = "decode"
  /\ rx.intact
  /\ ReadClock
  /\ UNCHANGED <<sent, newest>>

\* StateStore::apply(), stale or not.
ApplyPacket ==
  /\ pc = "apply"
  /\ Apply(PacketOf(rx.n), stamp, stamp)
  /\ IF StaleSeq(WireSeqOf(rx.n))
     THEN UNCHANGED <<historyVars, newest>>
     ELSE RecordAccept([id \in RowsOf(rx.n) |-> rx.n]) /\ newest' = rx.n
  /\ pc' = "receive"
  /\ rx' = None
  /\ UNCHANGED <<stamp, clockVars, tickVars, sent>>

Handle == DropMalformed \/ Decoded \/ ApplyPacket

Next ==
  \/ (ServerNext /\ UNCHANGED <<sent, newest>>)
  \/ Send
  \/ \E n \in 1 .. sent, intact \in BOOLEAN : Receive(n, intact)
  \/ Handle

Spec == Init /\ [][Next]_vars

\* Both threads run and time passes; nothing is assumed of sender or network.
FairSpec ==
  /\ Spec
  /\ WF_vars(Handle)
  /\ WF_vars(Advance /\ UNCHANGED <<sent, newest>>)
  /\ WF_vars((BeginTick \/ TakeSnapshot) /\ UNCHANGED <<sent, newest>>)

-------------------------------------------------------------------------------
(* Properties.                                                             *)

TypeOK ==
  /\ stats \in [received : Nat, accepted : Nat, malformed : Nat, stale : Nat]
  /\ haveSeq \in BOOLEAN
  /\ lastSeq \in WireSeq
  /\ satellite = None \/ satellite \in [seq : WireSeq, val : Nat]
  /\ satelliteT = None
  /\ lastData = None \/ lastData \in Nat
  /\ DOMAIN objects \subseteq Ids
  /\ \A id \in DOMAIN objects : objects[id] \in [val : Nat, at : Nat]
  /\ acceptTimes \in Seq(Nat)
  /\ pendingTrail = << >>
  /\ now \in Nat /\ timerAt \in Nat /\ tickMono \in Nat /\ stamp \in Nat
  /\ tickPc \in {"wait", "snap"}
  /\ pc \in {"receive", "decode", "apply"}
  /\ IF pc = "receive" THEN rx = None ELSE rx \in [n : 1 .. MaxSent, intact : BOOLEAN]
  /\ touched \in [Ids -> Nat \cup {None}]
  /\ acceptLog \in Seq(Nat)
  /\ sent \in 0 .. MaxSent
  /\ newest \in Nat

\* Every datagram counted as received is accepted, malformed or stale, except
\* the one the input thread holds between its two or three critical sections
\* (olv1_input_source.cpp:53-76 takes mutex_ once per count).
StatsBalanced ==
  stats.received = stats.accepted + stats.malformed + stats.stale
                   + (IF pc = "receive" THEN 0 ELSE 1)

\* Datagrams are accepted in the order they were sent, across the wraparound of
\* the sequence number, however the network reorders and repeats them
\* (state_store.cpp:38-41).
AcceptInOrder == [][newest' # newest => newest' > newest]_newest

\* The wraparound test never drops a datagram as stale that is newer than the
\* last one accepted, unless half the sequence space was lost in between.
StaleJustified ==
  [][stats'.stale # stats.stale =>
       rx.n <= newest \/ rx.n - newest >= Half]_stats

\* A broadcast shows one state of the world: no object is newer than the packet
\* that provided the satellite, and every object that packet carried shows what
\* the packet said, because apply() merges a packet under one lock.
PublishedIsOneState ==
  published.satellite # None =>
    LET n == published.satellite.val
    IN  \A id \in DOMAIN published.objects :
          /\ published.objects[id] <= n
          /\ id \in RowsOf(n) => published.objects[id] = n

\* The satellite clients see implements LatestFeed: accepted in order, shown in
\* order, and the newest accepted state is broadcast in the end.
shownIndex ==
  IF published.satellite = None THEN 0 ELSE published.satellite.val

Feed == INSTANCE LatestFeed WITH latest <- newest, shown <- shownIndex

FeedSafe == Feed!SafeSpec
FeedLive == Feed!Spec
-------------------------------------------------------------------------------
(* The strengthening these properties rest on.                             *)

\* The store remembers the last accepted datagram, the datagram in hand was
\* sent and is fewer than Lag behind it, and no object is newer.
OrderInv ==
  /\ newest <= sent
  /\ haveSeq <=> newest # 0
  /\ satellite = None <=> newest = 0
  /\ newest # 0 => lastSeq = WireSeqOf(newest) /\ satellite.val = newest
  /\ pc # "receive" => rx.n <= sent /\ newest - rx.n < Lag
  /\ \A id \in DOMAIN objects :
       /\ objects[id].val <= newest
       /\ id \in RowsOf(newest) => objects[id].val = newest

===============================================================================

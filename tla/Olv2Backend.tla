----------------------------- MODULE Olv2Backend -----------------------------
(***************************************************************************)
(* olv_backend in OLV2 mode: the batching sender of tools/simulator, a     *)
(* network that loses, duplicates, delays and corrupts datagrams, the      *)
(* input thread of src/olv2_input_source.cpp and the broadcast tick of     *)
(* Backend.                                                                *)
(*                                                                         *)
(* A frame is its sample time t; position, velocity and flags of every     *)
(* sample taken at t are named by t.  A datagram is one track's samples    *)
(* over a batch of frames.  Sample times go on growing when the sender is  *)
(* restarted (they are wall-clock seconds), its counter starts again.      *)
(***************************************************************************)
EXTENDS Backend

CONSTANTS
  TracksAt(_),  \* the ids of the objects in frame t
  Batch,        \* olv2_points: frames per batch
  Lag,          \* how many newer datagrams may overtake one in the network
  MaxFrames,    \* bound on frames
  MaxReceived   \* bound on datagrams received

ASSUME Olv2Assumption ==
  /\ Ids \subseteq Nat /\ IsFiniteSet(Ids)
  /\ Batch \in Nat \ {0}
  /\ Lag \in Nat
  /\ MaxFrames \in Nat
  /\ MaxReceived \in Nat
  /\ \A t \in 1 .. MaxFrames : TracksAt(t) \subseteq Ids

VARIABLES
  clock,    \* sample time of the last frame
  frames,   \* Olv2Batcher::frames_
  seq,      \* the sender's datagram counter
  wire,     \* the datagrams sent: [seq, track, ts]
  lastT,    \* last_t_: None where the map has no entry
  taken,    \* history: of each track the last datagram accepted, 0 for none
  applied,  \* history: the samples of the accepted datagrams, [id, t]
  drained   \* history: how many of them preceded the last snapshot

senderVars == <<clock, frames, seq, wire>>
trackVars == <<lastT, taken, applied, drained>>
vars == <<backendVars, senderVars, trackVars>>

Init ==
  /\ BackendInit
  /\ clock = 0 /\ frames = << >> /\ seq = 0 /\ wire = << >>
  /\ lastT = [id \in Ids |-> None]
  /\ taken = [id \in Ids |-> 0]
  /\ applied = << >>
  /\ drained = 0

-------------------------------------------------------------------------------
(* The sender.                                                             *)

\* The k-th smallest of a finite set of numbers.
Nth(S, k) == CHOOSE x \in S : Cardinality({y \in S : y <= x}) = k

\* The positions of the frames fs that track id is in.
Places(fs, id) == {i \in DOMAIN fs : id \in TracksAt(fs[i])}

\* flush() of the frames fs: one datagram per track, by ascending id, with a
\* sample of every frame the track is in.
Datagrams(fs) ==
  LET present == {id \in Ids : Places(fs, id) # {}}
      Of(id) == [i \in 1 .. Cardinality(Places(fs, id)) |-> fs[Nth(Places(fs, id), i)]]
  IN  [k \in 1 .. Cardinality(present) |->
         [seq |-> (seq + k - 1) % SeqMod, track |-> Nth(present, k), ts |-> Of(Nth(present, k))]]

Flush(fs) ==
  /\ wire' = wire \o Datagrams(fs)
  /\ seq' = (seq + Len(Datagrams(fs))) % SeqMod

\* sendFrame(): push() the frame, flush() when the batch is ready().
SendFrame ==
  LET full == Append(frames, clock + 1) IN
  /\ clock < MaxFrames
  /\ clock' = clock + 1
  /\ IF Len(full) >= Batch THEN Flush(full) /\ frames' = << >>
                           ELSE frames' = full /\ UNCHANGED <<seq, wire>>
  /\ UNCHANGED <<backendVars, trackVars>>

\* A run ends and the next one begins: the rest of the batch is flushed at a
\* normal end and lost when a signal stops the run.
Restart(normally) ==
  /\ frames # << >> \/ seq # 0
  /\ wire' = IF normally THEN wire \o Datagrams(frames) ELSE wire
  /\ frames' = << >>
  /\ seq' = 0
  /\ UNCHANGED <<clock, backendVars, trackVars>>

-------------------------------------------------------------------------------
(* The input thread.                                                       *)

Newest(ts) == ts[Len(ts)]

\* A datagram arrives, intact or corrupted; countReceived().
Receive(n, intact) ==
  /\ stats.received < MaxReceived
  /\ n > Len(wire) - Lag
  /\ BeginDatagram([pkt |-> wire[n], n |-> n, intact |-> intact])
  /\ UNCHANGED <<senderVars, trackVars>>

\* olv2::decode() failed; countDropped(kMalformed).
DropMalformed ==
  /\ pc = "decode" /\ ~rx.intact
  /\ DropDatagram("malformed")
  /\ UNCHANGED <<senderVars, trackVars>>

\* Wrong: the first sample may repeat the last one accepted; the times of all
\* tracks are held against each other.
StaleBatch_lax(p) == lastT[p.track] # None /\ Head(p.ts) < lastT[p.track]
StaleBatch_global(p) == \E id \in Ids : lastT[id] # None /\ Head(p.ts) <= lastT[id]

\* The batch does not lie wholly after the last sample accepted for its track.
StaleBatch(p) == lastT[p.track] # None /\ Head(p.ts) <= lastT[p.track]

\* countDropped(kStale).
DropStale ==
  /\ pc = "decode" /\ rx.intact /\ StaleBatch(rx.pkt)
  /\ DropDatagram("stale")
  /\ UNCHANGED <<senderVars, trackVars>>

\* The update is built and the clock arguments of applyTrack() are evaluated.
Decoded ==
  /\ pc = "decode" /\ rx.intact /\ ~StaleBatch(rx.pkt)
  /\ ReadClock
  /\ UNCHANGED <<senderVars, trackVars>>

\* Wrong: the row shows the first sample of the batch.
UpdateOf_front(p) ==
  [sat   |-> [seq |-> p.seq, val |-> Newest(p.ts)],
   satT  |-> Newest(p.ts),
   rows  |-> [id \in {p.track} |-> Head(p.ts)],
   trail |-> [i \in DOMAIN p.ts |-> [id |-> p.track, t |-> p.ts[i]]]]

\* Satellite and target row from the newest sample, a trail point for each.
UpdateOf(p) ==
  [sat   |-> [seq |-> p.seq, val |-> Newest(p.ts)],
   satT  |-> Newest(p.ts),
   rows  |-> [id \in {p.track} |-> Newest(p.ts)],
   trail |-> [i \in DOMAIN p.ts |-> [id |-> p.track, t |-> p.ts[i]]]]

\* applyTrack(), then last_t_ moves to the newest sample.
ApplyBatch ==
  /\ pc = "apply"
  /\ LET u == UpdateOf(rx.pkt) IN
       /\ ApplyTrack(u, stamp, stamp)
       /\ RecordAccept(u.rows)
       /\ applied' = applied \o u.trail
  /\ lastT' = [lastT EXCEPT ![rx.pkt.track] = Newest(rx.pkt.ts)]
  /\ taken' = [taken EXCEPT ![rx.pkt.track] = rx.n]
  /\ pc' = "receive"
  /\ rx' = None
  /\ UNCHANGED <<stamp, clockVars, tickVars, senderVars, drained>>

Handle == DropMalformed \/ DropStale \/ Decoded \/ ApplyBatch

\* The io_context thread; a snapshot drains the trail.
Tick ==
  \/ BeginTick /\ UNCHANGED <<senderVars, trackVars>>
  \/ /\ TakeSnapshot
     /\ drained' = Len(applied)
     /\ UNCHANGED <<senderVars, lastT, taken, applied>>

TimePasses == Advance /\ UNCHANGED <<senderVars, trackVars>>

Next ==
  \/ SendFrame
  \/ \E normally \in BOOLEAN : Restart(normally)
  \/ \E n \in 1 .. Len(wire), intact \in BOOLEAN : Receive(n, intact)
  \/ Handle
  \/ Tick
  \/ TimePasses

Spec == Init /\ [][Next]_vars

\* Both threads run and time passes; nothing is assumed of sender or network.
FairSpec == Spec /\ WF_vars(Handle) /\ WF_vars(Tick) /\ WF_vars(TimePasses)

-------------------------------------------------------------------------------
(* Properties.                                                             *)

Sample == [id : Ids, t : 1 .. MaxFrames]
Datagram == [seq : WireSeq, track : Ids, ts : Seq(1 .. MaxFrames)]

TypeOK ==
  /\ stats \in [received : Nat, accepted : Nat, malformed : Nat, stale : Nat]
  /\ haveSeq = FALSE /\ lastSeq = 0
  /\ satellite = None \/ satellite \in [seq : WireSeq, val : 1 .. MaxFrames]
  /\ satelliteT = None \/ satelliteT \in 1 .. MaxFrames
  /\ lastData = None \/ lastData \in Nat
  /\ DOMAIN objects \subseteq Ids
  /\ \A id \in DOMAIN objects : objects[id] \in [val : 1 .. MaxFrames, at : Nat]
  /\ acceptTimes \in Seq(Nat)
  /\ pendingTrail \in Seq(Sample) /\ Len(pendingTrail) <= MaxTrail
  /\ now \in Nat /\ timerAt \in Nat /\ tickMono \in Nat /\ stamp \in Nat
  /\ tickPc \in {"wait", "snap"}
  /\ pc \in {"receive", "decode", "apply"}
  /\ IF pc = "receive" THEN rx = None
     ELSE rx \in [pkt : Datagram, n : 1 .. Len(wire), intact : BOOLEAN]
  /\ touched \in [Ids -> Nat \cup {None}]
  /\ acceptLog \in Seq(Nat)
  /\ clock \in 0 .. MaxFrames
  /\ frames \in Seq(1 .. MaxFrames) /\ Len(frames) < Batch
  /\ seq \in WireSeq
  /\ wire \in Seq(Datagram)
  /\ lastT \in [Ids -> (1 .. MaxFrames) \cup {None}]
  /\ taken \in [Ids -> 0 .. Len(wire)]
  /\ applied \in Seq(Sample)
  /\ drained \in 0 .. Len(applied)

\* A batch is dropped as stale only when it is a duplicate or a newer batch of
\* the same track overtook it: neither another track's samples, nor a restart
\* of the sender, nor corrupted datagrams ever cost a track a batch
\* (docs/PROTOCOL_OLV2.md:146, "a conforming sender never trips this").
StaleJustified ==
  [][stats'.stale # stats.stale => rx.n <= taken[rx.pkt.track]]_stats

\* The pending trail is what was applied since the last snapshot, less the
\* oldest points beyond the cap (state_store.cpp:78-82, 110-111).
TrailConserved ==
  LET fresh == Len(applied) - drained IN
  /\ Len(pendingTrail) = IF fresh > MaxTrail THEN MaxTrail ELSE fresh
  /\ \A i \in 1 .. Len(pendingTrail) :
       pendingTrail[i] = applied[Len(applied) - Len(pendingTrail) + i]

\* Although batches arrive repeated and reordered (docs/PROTOCOL_WS.md:92).
TrailAscending ==
  \A i, j \in 1 .. Len(applied) :
    i < j /\ applied[i].id = applied[j].id => applied[i].t < applied[j].t

\* No sample is reported twice, none is lost but to the cap of the store, and
\* within one track the points clients get are strictly ascending in time, over
\* all broadcasts together (state_store.cpp:78-82, 110-111;
\* olv2_input_source.cpp:85-95).
TrailReported == TrailConserved /\ TrailAscending

\* The satellite is the newest sample accepted on any track: an older batch of
\* one track never moves it back behind another's (state_store.cpp:67-72).
SatelliteIsNewest ==
  satellite # None =>
    /\ satellite.val = satelliteT
    /\ \A id \in Ids : lastT[id] # None => lastT[id] <= satelliteT
    /\ \E id \in Ids : lastT[id] = satelliteT

\* A broadcast agrees with itself: the last trail point of a track is the
\* sample its object row shows, because applyTrack() enters both under one
\* lock and the cap drops the oldest points first.
TrailEndsAtRow ==
  \A i \in 1 .. Len(published.trail) :
    LET p == published.trail[i]
        last == \A j \in (i + 1) .. Len(published.trail) : published.trail[j].id # p.id
    IN  last /\ p.id \in DOMAIN published.objects => published.objects[p.id] = p.t

\* docs/PROTOCOL_WS.md:87 says of the id of a trail point "object id (matches an
\* `objects` row id)".
TrailHasRow ==
  \A i \in 1 .. Len(published.trail) : published.trail[i].id \in DOMAIN published.objects

\* The satellite clients see implements LatestFeed: accepted in order, shown in
\* order, and the newest sample is broadcast in the end.
latestT == IF satelliteT = None THEN 0 ELSE satelliteT
shownT == IF published.satellite = None THEN 0 ELSE published.satellite.val

Feed == INSTANCE LatestFeed WITH latest <- latestT, shown <- shownT

FeedSafe == Feed!SafeSpec
FeedLive == Feed!Spec

-------------------------------------------------------------------------------
(* The strengthening these properties rest on.                             *)

Ascending(ts) == \A i, j \in 1 .. Len(ts) : i < j => ts[i] < ts[j]

\* The batches of one track follow one another in time, the frames not yet
\* flushed follow them all, and the sender's clock is past none.
SentInOrder ==
  /\ Ascending(frames)
  /\ \A i \in 1 .. Len(frames) : frames[i] <= clock
  /\ \A n \in 1 .. Len(wire) :
       LET ts == wire[n].ts IN
       /\ ts # << >> /\ Ascending(ts) /\ Newest(ts) <= clock
       /\ \A i \in 1 .. Len(frames) : Newest(ts) < frames[i]
  /\ \A m, n \in 1 .. Len(wire) :
       m < n /\ wire[m].track = wire[n].track => Newest(wire[m].ts) < Head(wire[n].ts)

\* last_t_ is the newest sample of the last datagram accepted for each track.
Known ==
  \A id \in Ids :
    IF taken[id] = 0 THEN lastT[id] = None
    ELSE wire[taken[id]].track = id /\ lastT[id] = Newest(wire[taken[id]].ts)

\* The datagram in hand is one that was sent; it is not stale when it is applied.
InHandInv ==
  /\ pc # "receive" => rx.pkt = wire[rx.n]
  /\ pc = "apply" => ~StaleBatch(rx.pkt)

\* The samples applied to a track end with the last one accepted.
AppliedInv ==
  /\ TrailAscending
  /\ \A i \in 1 .. Len(applied) :
       LET s == applied[i] IN
       /\ lastT[s.id] # None /\ s.t <= lastT[s.id]
       /\ (\A j \in (i + 1) .. Len(applied) : applied[j].id # s.id) => s.t = lastT[s.id]

\* An object row shows the newest sample of its track.
RowsInv == \A id \in DOMAIN objects : objects[id].val = lastT[id]

SatelliteInv ==
  /\ satellite = None <=> satelliteT = None
  /\ satellite = None => \A id \in Ids : lastT[id] = None
  /\ SatelliteIsNewest

PublishedInv ==
  /\ published.satellite = None \/ published.satellite.val \in Nat
  /\ TrailEndsAtRow

DataInv ==
  /\ SentInOrder /\ Known /\ InHandInv /\ TrailConserved /\ AppliedInv /\ RowsInv
  /\ SatelliteInv /\ PublishedInv

===============================================================================

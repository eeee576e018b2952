------------------------------ MODULE StateStore ------------------------------
(***************************************************************************)
(* The mutex-protected store both threads of olv_backend share             *)
(* (src/state_store.cpp).  The input thread counts and applies datagrams,  *)
(* the io_context thread takes snapshots.  Every operation holds mutex_    *)
(* for its whole body, so each one is one atomic action; what is NOT       *)
(* atomic is the sequence of operations one datagram makes, and the clock  *)
(* reads, which callers do before taking the lock.  Those belong to the    *)
(* modules that extend this one (Olv1Backend, Olv2Backend, DisBackend).    *)
(*                                                                         *)
(* Payloads (positions, types, flags, confidence) are opaque values.       *)
(***************************************************************************)
EXTENDS Integers, Sequences, FiniteSets

CONSTANTS
  Ids,         \* object ids (u32 in the code)
  Half,        \* 2^31: half of the u32 sequence space
  Expiry,      \* object_expiry_
  RateWindow,  \* kRateWindow (5 s)
  MaxTrail,    \* kMaxPendingTrailPoints (125000)
  None         \* std::nullopt

ASSUME StoreAssumption ==
  /\ Half \in Nat \ {0}
  /\ Expiry \in Nat \ {0}
  /\ RateWindow \in Nat
  /\ MaxTrail \in Nat \ {0}
  /\ None \notin Int /\ None \notin [seq : Int, val : Int]

VARIABLES
  stats,         \* the Stats counters
  haveSeq,       \* have_seq_
  lastSeq,       \* last_seq_, a wire sequence number
  satellite,     \* satellite_: None or [seq, val]
  satelliteT,    \* satellite_t_: None or the sample time of satellite
  lastData,      \* last_data_time_
  objects,       \* objects_: id |-> [val, at]
  acceptTimes,   \* accept_times_
  pendingTrail   \* pending_trail_

storeVars == <<stats, haveSeq, lastSeq, satellite, satelliteT, lastData,
               objects, acceptTimes, pendingTrail>>

SeqMod == 2 * Half
WireSeq == 0 .. (SeqMod - 1)

StoreInit ==
  /\ stats = [received |-> 0, accepted |-> 0, malformed |-> 0, stale |-> 0]
  /\ haveSeq = FALSE
  /\ lastSeq = 0
  /\ satellite = None
  /\ satelliteT = None
  /\ lastData = None
  /\ objects = << >>
  /\ acceptTimes = << >>
  /\ pendingTrail = << >>

-------------------------------------------------------------------------------
(* Counting.                                                               *)

CountReceived ==
  /\ stats' = [stats EXCEPT !.received = @ + 1]
  /\ UNCHANGED <<haveSeq, lastSeq, satellite, satelliteT, lastData, objects,
                 acceptTimes, pendingTrail>>

CountDropped(kind) ==
  /\ stats' = IF kind = "malformed" THEN [stats EXCEPT !.malformed = @ + 1]
                                    ELSE [stats EXCEPT !.stale = @ + 1]
  /\ UNCHANGED <<haveSeq, lastSeq, satellite, satelliteT, lastData, objects,
                 acceptTimes, pendingTrail>>

-------------------------------------------------------------------------------
(* apply(): OLV1 and DIS.                                                  *)

\* Wrong: compares the wire numbers as they are; off by one at the half.
NotNewer_plain(seq, last) == seq <= last
NotNewer_early(seq, last) ==
  LET d == (seq - last) % SeqMod IN d = 0 \/ d >= Half - 1

\* static_cast<int32_t>(seq - last) <= 0 on u32 operands.
NotNewer(seq, last) ==
  LET d == (seq - last) % SeqMod IN d = 0 \/ d >= Half

StaleSeq(seq) == haveSeq /\ NotNewer(seq, lastSeq)

\* Wrong: emplace() keeps the row that is already there.
Upsert_emplace(objs, rows, mono) ==
  [id \in DOMAIN objs \cup DOMAIN rows |->
     IF id \in DOMAIN objs THEN objs[id] ELSE [val |-> rows[id], at |-> mono]]

\* objects_[id] for every row of a packet: insert or overwrite, stamp refreshed.
Upsert(objs, rows, mono) ==
  [id \in DOMAIN objs \cup DOMAIN rows |->
     IF id \in DOMAIN rows THEN [val |-> rows[id], at |-> mono] ELSE objs[id]]

\* pkt = [seq, sat, rows]; rows maps the ids of the packet to their values.
\* The satellite is replaced wholesale, the objects are merged.
Merge(pkt, wall, mono) ==
  /\ haveSeq' = TRUE
  /\ lastSeq' = pkt.seq
  /\ stats' = [stats EXCEPT !.accepted = @ + 1]
  /\ satellite' = [seq |-> pkt.seq, val |-> pkt.sat]
  /\ satelliteT' = None
  /\ objects' = Upsert(objects, pkt.rows, mono)
  /\ lastData' = wall
  /\ acceptTimes' = Append(acceptTimes, mono)
  /\ UNCHANGED pendingTrail

\* Wrong: a stale packet returns before it is counted.
Apply_uncounted(pkt, wall, mono) ==
  IF StaleSeq(pkt.seq) THEN UNCHANGED storeVars ELSE Merge(pkt, wall, mono)

Apply(pkt, wall, mono) ==
  IF StaleSeq(pkt.seq) THEN CountDropped("stale") ELSE Merge(pkt, wall, mono)

-------------------------------------------------------------------------------
(* applyTrack(): OLV2.                                                     *)

\* Wrong: the points are never shed.
KeepNewest_all(q) == q

\* The newest MaxTrail points of q.
KeepNewest(q) ==
  IF Len(q) > MaxTrail THEN SubSeq(q, Len(q) - MaxTrail + 1, Len(q)) ELSE q

\* Wrong: the last datagram to arrive provides the satellite.
NewerSatellite_always(u) == TRUE

\* The sample is newer than the satellite held, or that one has no sample time.
NewerSatellite(u) == satellite = None \/ satelliteT = None \/ u.satT > satelliteT

\* u = [sat, satT, rows, trail]; rows holds the one target of the datagram.
ApplyTrack(u, wall, mono) ==
  /\ stats' = [stats EXCEPT !.accepted = @ + 1]
  /\ IF NewerSatellite(u)
     THEN satellite' = u.sat /\ satelliteT' = u.satT
     ELSE UNCHANGED <<satellite, satelliteT>>
  /\ objects' = Upsert(objects, u.rows, mono)
  /\ pendingTrail' = KeepNewest(pendingTrail \o u.trail)
  /\ lastData' = wall
  /\ acceptTimes' = Append(acceptTimes, mono)
  /\ UNCHANGED <<haveSeq, lastSeq>>

-------------------------------------------------------------------------------
(* snapshot(mono): prune, drain, copy.                                     *)

\* Wrong: an object exactly Expiry old is already gone.
Unexpired_strict(mono) == {id \in DOMAIN objects : mono - objects[id].at < Expiry}

\* Ids not refreshed within the expiry window at mono are erased.
Unexpired(mono) == {id \in DOMAIN objects : mono - objects[id].at <= Expiry}

\* Wrong: at most one sample is popped per snapshot.
LiveTimes_popOne(mono) ==
  IF acceptTimes # << >> /\ mono - Head(acceptTimes) > RateWindow
  THEN Tail(acceptTimes) ELSE acceptTimes

\* accept_times_ is popped from its front while the front is too old.
LiveTimes(mono) ==
  LET start == CHOOSE i \in 1 .. (Len(acceptTimes) + 1) :
                 /\ \A j \in 1 .. (i - 1) : mono - acceptTimes[j] > RateWindow
                 /\ i <= Len(acceptTimes) => mono - acceptTimes[i] <= RateWindow
  IN SubSeq(acceptTimes, start, Len(acceptTimes))

\* The Snapshot value; rate counts the accepts, the code divides it by 5 s.
SnapshotAt(mono) ==
  [satellite |-> satellite,
   objects   |-> [id \in Unexpired(mono) |-> objects[id].val],
   lastData  |-> lastData,
   stats     |-> stats,
   rate      |-> Len(LiveTimes(mono)),
   trail     |-> pendingTrail]

\* Wrong: the pending trail is copied, not moved out.
Snapshot_keepTrail(mono) ==
  /\ objects' = [id \in Unexpired(mono) |-> objects[id]]
  /\ acceptTimes' = LiveTimes(mono)
  /\ UNCHANGED <<stats, haveSeq, lastSeq, satellite, satelliteT, lastData, pendingTrail>>

Snapshot(mono) ==
  /\ objects' = [id \in Unexpired(mono) |-> objects[id]]
  /\ acceptTimes' = LiveTimes(mono)
  /\ pendingTrail' = << >>
  /\ UNCHANGED <<stats, haveSeq, lastSeq, satellite, satelliteT, lastData>>

===============================================================================

----------------------------- MODULE TrailRenderer -----------------------------
(***************************************************************************)
(* The state the WebGL renderer keeps between calls: createRenderer() of   *)
(* frontend/js/renderer.js.  Samples of trails arrive twice, as positions  *)
(* of a snapshot and, from an OLV2 server, as trail points with times of   *)
(* their own; buffers are derived from snapshot, trails and settings and   *)
(* must be rebuilt by whatever changes one of these.  Only setSnapshot()   *)
(* and setSettings() do; the actions that call them are in Page.           *)
(*                                                                         *)
(* A position is left out: a sample is its time on the page's clock, and   *)
(* whether it was a trail point (history).  What is drawn of the buffers   *)
(* is in module Scene.                                                     *)
(***************************************************************************)
EXTENDS Integers, Sequences, FiniteSets, SequencesExt, Functions

CONSTANTS
  Ids,               \* object ids
  Categories,        \* the categories, keys of CAT
  SatId,             \* the satellite's id, which an object may also have
  SatKey,            \* 'sat:<id>', the key of the satellite's trail
  TRAIL_CAP,         \* 64
  SERVER_TRAIL_CAP,  \* 512
  PruneAfter,        \* 65 s
  MAX_OBJECTS,       \* 5000: the length of the object buffers
  None               \* null

ASSUME RendererAssumption ==
  /\ Ids \subseteq Int /\ SatId \in Int
  /\ SatKey \notin Ids /\ None \notin Categories
  /\ TRAIL_CAP \in Nat \ {0} /\ SERVER_TRAIL_CAP \in Nat /\ TRAIL_CAP <= SERVER_TRAIL_CAP
  /\ PruneAfter \in Nat /\ MAX_OBJECTS \in Nat

VARIABLES
  snapshot,       \* snapshot: None or the last message
  lastSnapNow,    \* lastSnapNow
  applied,        \* settings, as normalizeSettings() left them
  trails,         \* trails: key |-> [cat, server, s]
  trailBuffer,    \* the segments uploaded: <<key, older sample, newer sample>>
  renderObjects,  \* the ids in renderObjects
  selectedId      \* selectedId

rendererVars == <<snapshot, lastSnapNow, applied, trails, trailBuffer, renderObjects, selectedId>>

\* What setSnapshot() is given.  An age is serverTime - t of a point, which is
\* negative when the sender's clock is ahead of the server's.
Message ==
  [satellite : BOOLEAN,
   objects : UNION {[S -> Categories] : S \in SUBSET Ids},
   points : Seq([id : Ids, age : Int])]

-------------------------------------------------------------------------------
(* Trails.                                                                 *)

\* push(), then shift() beyond the cap.
Capped(s, cap) == IF Len(s) > cap THEN Tail(s) ELSE s

\* The test of appendTrails() for monotonicity.
Overtaken(s, t) == s # << >> /\ t <= Last(s).t

\* The category of a point's trail: its row's, else the one it had.
PointCat(tr, objs, id) ==
  IF id \in DOMAIN objs THEN objs[id]
  ELSE IF id \in DOMAIN tr THEN tr[id].cat ELSE None

AddPoint(tr, objs, p, now) ==
  LET old == IF p.id \in DOMAIN tr THEN tr[p.id].s ELSE << >>
      cat == PointCat(tr, objs, p.id)
      t   == now - p.age
  IN  IF cat = None \/ Overtaken(old, t) THEN tr
      ELSE [k \in DOMAIN tr \cup {p.id} |->
              IF k = p.id
              THEN [cat |-> cat, server |-> TRUE,
                    s |-> Capped(Append(old, [t |-> t, point |-> TRUE]), SERVER_TRAIL_CAP)]
              ELSE tr[k]]

\* The points of a message, in their order.
AddPoints(tr, objs, points, now) ==
  LET after[n \in 0 .. Len(points)] ==
        IF n = 0 THEN tr ELSE AddPoint(after[n - 1], objs, points[n], now)
  IN  after[Len(points)]

\* Wrong: the positions of the snapshot are appended to server-fed trails too.
ServerFed_never(tr, k) == FALSE

ServerFed(tr, k) == k \in DOMAIN tr /\ tr[k].server

\* The positions of the snapshot, the satellite's included (its category is
\* null); each id has a trail of its own.
AddPositions(tr, cats, now) ==
  [k \in DOMAIN tr \cup DOMAIN cats |->
     IF k \in DOMAIN cats /\ ~ServerFed(tr, k)
     THEN [cat |-> cats[k], server |-> FALSE,
           s |-> Capped(Append(IF k \in DOMAIN tr THEN tr[k].s ELSE << >>,
                               [t |-> now, point |-> FALSE]), TRAIL_CAP)]
     ELSE tr[k]]

Positions(msg) ==
  [k \in DOMAIN msg.objects \cup (IF msg.satellite THEN {SatKey} ELSE {}) |->
     IF k = SatKey THEN None ELSE msg.objects[k]]

Prune(tr, now) ==
  Restrict(tr, {k \in DOMAIN tr : now - Last(tr[k].s).t <= PruneAfter})

AppendTrails(tr, msg, now) ==
  Prune(AddPositions(AddPoints(tr, msg.objects, msg.points, now), Positions(msg), now), now)

-------------------------------------------------------------------------------
(* Buffers.                                                                *)

\* rebuildTrailBuffer(): the segments whose newer end is young enough, by the
\* clock of the last snapshot, of the trails that are shown.
Segments(tr, st, ref) ==
  LET shown == {k \in DOMAIN tr :
                  /\ k = SatKey => st.viewMode # "sat"
                  /\ tr[k].cat # None => st.categories[tr[k].cat]}
  IN  IF ~st.showTrails \/ st.trailSeconds = 0 THEN {}
      ELSE UNION {{<<k, tr[k].s[i - 1], tr[k].s[i]>> :
                     i \in {j \in 2 .. Len(tr[k].s) : ref - tr[k].s[j].t <= st.trailSeconds}} :
                  k \in shown}

\* The n smallest of a set: rows come in the order of their ids here.
Foremost(S, n) == {x \in S : Cardinality({y \in S : y < x}) < n}

\* rebuildObjectBuffer(): the first MAX_OBJECTS rows of the categories shown.
Visible(msg, st) ==
  IF msg = None THEN {}
  ELSE Foremost({id \in DOMAIN msg.objects : st.categories[msg.objects[id]]}, MAX_OBJECTS)

\* computeActiveView() decides for the satellite's point of view.
Fisheye == applied.viewMode = "sat" /\ snapshot # None /\ snapshot.satellite

RendererInit(st) ==
  /\ snapshot = None
  /\ lastSnapNow = 0
  /\ applied = st
  /\ trails = << >>
  /\ trailBuffer = {}
  /\ renderObjects = {}
  /\ selectedId = None

SetSnapshot(msg, now) ==
  /\ snapshot' = msg
  /\ lastSnapNow' = now
  /\ trails' = AppendTrails(trails, msg, now)
  /\ renderObjects' = Visible(msg, applied)
  /\ trailBuffer' = Segments(trails', applied, now)
  /\ UNCHANGED <<applied, selectedId>>

\* Wrong: trails are only rebuilt when the next snapshot comes.
SetSettings_lazy(st) ==
  /\ applied' = st
  /\ renderObjects' = Visible(snapshot, st)
  /\ UNCHANGED <<snapshot, lastSnapNow, trails, trailBuffer, selectedId>>

SetSettings(st) ==
  /\ applied' = st
  /\ renderObjects' = Visible(snapshot, st)
  /\ trailBuffer' = Segments(trails, st, lastSnapNow)
  /\ UNCHANGED <<snapshot, lastSnapNow, trails, selectedId>>

\* What pick() can return: anything drawn that a click can hit.
Pickable == renderObjects \cup
            (IF ~Fisheye /\ snapshot # None /\ snapshot.satellite THEN {SatId} ELSE {}) \cup {None}

\* setSelected() changes nothing else.
SetSelected(id) ==
  /\ selectedId' = id
  /\ UNCHANGED <<snapshot, lastSnapNow, applied, trails, trailBuffer, renderObjects>>

-------------------------------------------------------------------------------
(* Properties.                                                             *)

\* A trail is never empty nor longer than its cap and its times never go back,
\* whatever the order and the ages of the points; from the first trail point on
\* it holds trail points only, never the snapshot's positions between them
\* (docs/features/FEATURE_OLV2.md:279-283, renderer.js:945-975).
TrailsWellFed ==
  \A k \in DOMAIN trails :
    LET tr == trails[k]
    IN  /\ Len(tr.s) \in 1 .. (IF tr.server THEN SERVER_TRAIL_CAP ELSE TRAIL_CAP)
        /\ tr.server = Last(tr.s).point
        /\ \A i \in 2 .. Len(tr.s) :
             /\ tr.s[i - 1].t <= tr.s[i].t
             /\ tr.s[i - 1].point => tr.s[i].point

\* What is drawn is what the snapshot, the trails and the settings say at any
\* time, though it is rebuilt on two calls only (renderer.js:1371-1395).
BuffersCurrent ==
  /\ trailBuffer = Segments(trails, applied, lastSnapNow)
  /\ renderObjects = Visible(snapshot, applied)

\* docs/features/FEATURE_OLV2.md:279-282, "for ids that have received trailPoints,
\* the trail is fed only from those points (the 1 Hz snapshot append is skipped
\* for them": a message that brings points of an id appends no position to its
\* trail.
FedOnlyFromPoints ==
  snapshot # None =>
    \A i \in DOMAIN snapshot.points :
      LET k == snapshot.points[i].id
      IN  k \in DOMAIN trails => Last(trails[k].s) # [t |-> lastSnapNow, point |-> FALSE]

-------------------------------------------------------------------------------
(* Strengthening of TrailsWellFed.                                          *)

Sample == [t : Int, point : BOOLEAN]

\* Times and kinds of samples never go back, and no position is later than now.
Ordered(s, now) ==
  /\ s \in Seq(Sample)
  /\ \A i \in 2 .. Len(s) : s[i - 1].t <= s[i].t /\ (s[i - 1].point => s[i].point)
  /\ \A i \in 1 .. Len(s) : s[i].point \/ s[i].t <= now

\* A trail as TrailsWellFed wants it.
FedTrail(tr, now) ==
  /\ Ordered(tr.s, now)
  /\ Len(tr.s) \in 1 .. (IF tr.server THEN SERVER_TRAIL_CAP ELSE TRAIL_CAP)
  /\ tr.server = Last(tr.s).point

WellFed(tr, now) == \A k \in DOMAIN tr : FedTrail(tr[k], now)

===============================================================================

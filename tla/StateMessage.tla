------------------------------ MODULE StateMessage ------------------------------
(***************************************************************************)
(* The state frame, from the Snapshot to the screen: buildStateMessage()   *)
(* of src/json_writer.cpp, JSON.parse(), and parseState() of               *)
(* frontend/js/net.js.  The times and the statistics, which the browser    *)
(* only copies, are left out.                                              *)
(***************************************************************************)
EXTENDS Integers, Sequences, Functions

CONSTANTS
  Null,         \* null, and a satellite or velocity that is not there
  Absent,       \* a key that is not there
  NotJson,      \* a word that is no JSON, such as nan or inf
  Rejected,     \* an Error thrown by the parser
  Printed(_)    \* external: what snprintf() of a double leaves in 48 bytes

Floats(triple) == [i \in DOMAIN triple |-> Printed(triple[i])]

Velocity(o) == IF o.hasVelocity THEN Floats(o.vel) ELSE <<Null, Null, Null>>

Row(o) ==
  <<o.id, o.type>> \o Floats(o.pos) \o Velocity(o)
  \o <<o.confidence, Printed(o.intensity), o.flags>>

\* buildStateMessage().
BuildStateMessage(snap) ==
  [satellite |-> IF snap.satellite = Null THEN Null
                 ELSE [snap.satellite EXCEPT !.pos = Floats(@), !.vel = Floats(@)],
   objects |-> [i \in DOMAIN snap.objects |-> Row(snap.objects[i])],
   trailPoints |->
     IF snap.trail = << >> THEN Absent
     ELSE [i \in DOMAIN snap.trail |-> <<snap.trail[i].id>> \o
             Floats(<<snap.trail[i].t>> \o snap.trail[i].pos)]]

-------------------------------------------------------------------------------

Words(msg) ==
  (UNION {Range(row) : row \in Range(msg.objects)})
  \cup (IF msg.satellite = Null THEN {} ELSE Range(msg.satellite.pos) \cup Range(msg.satellite.vel))
  \cup (IF msg.trailPoints = Absent THEN {} ELSE UNION {Range(row) : row \in Range(msg.trailPoints)})

\* JSON.parse(): one word that is no JSON spoils the whole text.
JsonParse(msg) == IF NotJson \in Words(msg) THEN Rejected ELSE msg

Numbers(row) == \A i \in DOMAIN row : row[i] # Null

\* parseSatellite(), parseObjectRow() and parseTrailPointRow(): what they accept.
SatelliteOk(sat) ==
  sat # Null => /\ Len(sat.pos) = 3 /\ Numbers(sat.pos)
                /\ Len(sat.vel) = 3 /\ Numbers(sat.vel)
RowOk(row) ==
  /\ Len(row) = 11
  /\ Numbers(SubSeq(row, 1, 5)) /\ Numbers(SubSeq(row, 9, 11))
  /\ (\A i \in 6 .. 8 : row[i] = Null) \/ Numbers(SubSeq(row, 6, 8))
PointOk(row) == Len(row) = 5 /\ Numbers(row)

CategoryNames == <<"debris", "star", "comet", "satellite", "groundHot">>
CatName(cat) == IF cat \in DOMAIN CategoryNames THEN CategoryNames[cat] ELSE "unknown"

ObjectOf(row) ==
  [id |-> row[1], cat |-> CatName(row[2]), pos |-> SubSeq(row, 3, 5),
   vel |-> IF row[6] = Null THEN Null ELSE SubSeq(row, 6, 8),
   conf |-> row[9], intensity |-> row[10], flags |-> row[11]]

PointOf(row) == [id |-> row[1], t |-> row[2], pos |-> SubSeq(row, 3, 5)]

\* parseState().
ParseState(msg) ==
  LET points == IF msg.trailPoints = Absent THEN << >> ELSE msg.trailPoints
  IN  IF /\ SatelliteOk(msg.satellite)
         /\ \A i \in DOMAIN msg.objects : RowOk(msg.objects[i])
         /\ \A i \in DOMAIN points : PointOk(points[i])
      THEN [satellite |-> msg.satellite,
            objects |-> [i \in DOMAIN msg.objects |-> ObjectOf(msg.objects[i])],
            trailPoints |-> [i \in DOMAIN points |-> PointOf(points[i])]]
      ELSE Rejected

\* parseStateMessage().
ParseStateMessage(text) ==
  LET msg == JsonParse(text) IN IF msg = Rejected THEN Rejected ELSE ParseState(msg)

===============================================================================

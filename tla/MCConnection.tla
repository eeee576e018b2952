----------------------------- MODULE MCConnection -----------------------------
(* Instances of Connection for TLC, and the frames that its onmessage       *)
(* handlers take for states.                                                *)
EXTENDS Connection, StateMessage

CONSTANTS good, other, bad, s1, s2, s3, Nan

MCEndpoints == {good, other, bad}
MCBad == {bad}
MCSockets == {s1, s2, s3}

-------------------------------------------------------------------------------
\* Numbers are printed with their last digit rounded away.

MCPrinted(v) == IF v = Nan THEN NotJson ELSE 10 * ((v + 5) \div 10)

Triples == {<<14, 15, 0>>, <<Nan, 0, 0>>}
Satellites == {[id |-> 1, seq |-> 7, pos |-> p, vel |-> v] : p, v \in Triples}
Objects ==
  {[id |-> 2, type |-> t, pos |-> p, vel |-> v, hasVelocity |-> h,
    confidence |-> 100, intensity |-> x, flags |-> 3] :
     t \in {0, 5, 6}, p, v \in Triples, h \in BOOLEAN, x \in {0, Nan}}
TrailRows == {[id |-> 2, t |-> t, pos |-> p] : t \in {19, Nan}, p \in Triples}

Snapshots ==
  {[satellite |-> s, objects |-> o, trail |-> r] :
     s \in {Null} \cup Satellites,
     o \in {<< >>} \cup {<<x>> : x \in Objects} \cup {<<x, y>> : x \in Objects, y \in Objects},
     r \in {<< >>} \cup {<<x>> : x \in TrailRows}}

\* The numbers of a snapshot that are printed.
IsNan(x) == x = Nan
HasNan(snap) ==
  \/ snap.satellite # Null /\ (IsNan(snap.satellite.pos[1]) \/ IsNan(snap.satellite.vel[1]))
  \/ \E i \in DOMAIN snap.objects :
       LET o == snap.objects[i]
       IN  IsNan(o.pos[1]) \/ IsNan(o.intensity) \/ (o.hasVelocity /\ IsNan(o.vel[1]))
  \/ \E i \in DOMAIN snap.trail : IsNan(snap.trail[i].t) \/ IsNan(snap.trail[i].pos[1])

\* A frame is read as its snapshot, rounded, or not at all: one number that is
\* none, anywhere, costs the whole frame.
ASSUME ReadsAsWritten ==
  \A snap \in Snapshots :
    LET read == ParseStateMessage(BuildStateMessage(snap))
    IN  IF HasNan(snap) THEN read = Rejected
        ELSE /\ snap.satellite = Null <=> read.satellite = Null
             /\ snap.satellite # Null => read.satellite.pos = <<10, 20, 0>>
             /\ Len(read.objects) = Len(snap.objects)
             /\ \A i \in DOMAIN read.objects :
                  /\ read.objects[i].pos = <<10, 20, 0>>
                  /\ read.objects[i].vel = IF snap.objects[i].hasVelocity THEN <<10, 20, 0>> ELSE Null
                  /\ read.objects[i].cat = IF snap.objects[i].type = 5 THEN "groundHot" ELSE "unknown"
             /\ Len(read.trailPoints) = Len(snap.trail)
             /\ \A i \in DOMAIN read.trailPoints :
                  read.trailPoints[i] = [id |-> 2, t |-> 20, pos |-> <<10, 20, 0>>]

===============================================================================

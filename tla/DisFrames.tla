------------------------------- MODULE DisFrames -------------------------------
(***************************************************************************)
(* What a browser reads in DIS mode: the snapshots of DisBackend as the    *)
(* frames of StateMessage.  The body of an Entity State PDU is decoded     *)
(* without a look at its numbers, so they are any that its bits can mean.  *)
(***************************************************************************)
EXTENDS DisBackend, StateMessage

SX == INSTANCE SequencesExt

CONSTANT Coords(_)    \* location, and velocity, of PDU n

Zero == <<0, 0, 0>>

\* sat_ as it is carried, and the row of a PDU.
SatelliteState(s) ==
  IF s = None THEN Null
  ELSE [id |-> Fold(Sat), seq |-> s.seq,
        pos |-> IF s.val = 0 THEN Zero ELSE Coords(s.val),
        vel |-> IF s.val = 0 THEN Zero ELSE Coords(s.val)]
ObjectRecord(id, n) ==
  [id |-> id, type |-> 4, pos |-> Coords(n), vel |-> Coords(n), hasVelocity |-> TRUE,
   confidence |-> 100, intensity |-> 0, flags |-> 1]

SnapshotOf(p) ==
  LET ids == SX!SetToSeq(DOMAIN p.objects)
  IN  [satellite |-> SatelliteState(p.satellite),
       objects |-> [i \in DOMAIN ids |-> ObjectRecord(ids[i], p.objects[ids[i]])],
       trail |-> << >>]

-------------------------------------------------------------------------------

\* src/json_writer.cpp:15-16 says of the numbers it prints "Values are bounded
\* by protocol validation, so %f never produces exponent notation or overflows":
\* every broadcast can be read, and reads as what was in the store.
FramesReadable == ParseStateMessage(BuildStateMessage(SnapshotOf(published))) # Rejected

===============================================================================

----------------------------- MODULE MCDisBackend -----------------------------
(* Instances of DisBackend for TLC: entities 2 and 3 fold to the same id.   *)
EXTENDS DisBackend

MCFold(e) == IF e = 1 THEN 1 ELSE 2

\* All at first, then the satellite alone, for hours.
MCFrameMixed(t) == IF t = 0 THEN <<1, 2, 3>> ELSE <<1>>

SomeFaults == {{}, {"version", "type"}, {"exercise", "body"}, {"type"}, {"body"}}

\* What the run compares of two states.  The variables left out (the broadcast,
\* the statistics of the rate, the data clock and the histories of Backend) are
\* written and read only among themselves: no guard, no variable kept here and no
\* property of this run depends on one, so states equal here have equal futures.
\* satelliteT and pendingTrail keep their initial values in DIS mode.
DisView ==
  <<stats, haveSeq, lastSeq, satellite, objects, now, timerAt, tickPc, tickMono,
    pc, rx, stamp, senderVars, dataVars, taken>>

===============================================================================

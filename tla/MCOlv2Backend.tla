---------------------------- MODULE MCOlv2Backend ----------------------------
(* Instances of Olv2Backend for TLC.                                       *)
EXTENDS Olv2Backend

\* Track 2 is missing from every third frame.
MCTracksAt(t) == IF t % 3 = 0 THEN {1} ELSE {1, 2}

===============================================================================

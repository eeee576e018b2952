---------------------------- MODULE MCOlv1Backend ----------------------------
(* Instances of Olv1Backend for TLC.                                       *)
EXTENDS Olv1Backend

CONSTANTS a, b

MCIds == {a, b}

\* A frame split over several datagrams: the ids rotate.
MCRowsOf(n) ==
  CASE n % 3 = 1 -> {a}
    [] n % 3 = 2 -> {a, b}
    [] OTHER     -> {b}

===============================================================================

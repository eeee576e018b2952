------------------------------ MODULE LatestFeed ------------------------------
(***************************************************************************)
(* What a viewer is promised about one evolving value, as an abstract      *)
(* specification: versions are accepted in increasing order, the version   *)
(* shown is always one that was the latest, it never goes back, and the    *)
(* latest version is shown in the end.                                     *)
(***************************************************************************)
EXTENDS Naturals

VARIABLES
  latest,   \* the newest version accepted, 0 for none
  shown     \* the version viewers see, 0 for none

feedVars == <<latest, shown>>

Init == latest = 0 /\ shown = 0

\* A newer version arrives; the ones in between may have been lost.
Accept == latest' \in Nat /\ latest' > latest /\ UNCHANGED shown

\* The latest version is shown.
Show == shown' = latest /\ UNCHANGED latest

Next == Accept \/ Show

SafeSpec == Init /\ [][Next]_feedVars

Spec == SafeSpec /\ WF_feedVars(Show)

===============================================================================

-------------------------------- MODULE MCPage --------------------------------
(* Instances of Page for TLC: the page's own host sends OLV2 states, the    *)
(* other host OLV1 states.                                                  *)
EXTENDS Page

MCIds == {1, 2}
MCCategories == {"debris", "star"}
MCHosts == {"own", "other"}

Msg(sat, objs, pts) == [satellite |-> sat, objects |-> objs, points |-> pts]
P(id, age) == [id |-> id, age |-> age]

\* Rows without points occur when no batch arrived in a period; a point's age
\* is negative when the sender's clock is ahead.
MCMessagesOf ==
  [own |-> {Msg(TRUE, 1 :> "debris", <<P(1, 1), P(1, 0)>>),
            Msg(TRUE, 1 :> "debris", << >>),
            Msg(FALSE, 1 :> "star", <<P(1, -1), P(2, 0)>>)},
   other |-> {Msg(FALSE, 1 :> "debris" @@ 2 :> "star", << >>)}]

\* One control each; MCStored and MCSites bring the values that are not valid.
MCPatches ==
  {[showTrails |-> TRUE], [viewMode |-> "sat"],
   [categories |-> [debris |-> FALSE]], [host |-> "other"]}

MCStored == {None,
             [showTrails |-> TRUE, trailSeconds |-> -4, viewMode |-> "SAT", old |-> 0]}
MCSites == {[f \in {} |-> 0], [host |-> "other", trailSeconds |-> 9, viewMode |-> "sat"]}

===============================================================================

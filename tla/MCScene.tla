-------------------------------- MODULE MCScene -------------------------------
(* Instances of Scene for TLC.                                              *)
EXTENDS Scene

MCCategories == {"debris", "star"}

State(objs, sat, axis, vel, delay) ==
  [satellite |-> sat, axis |-> axis, vel |-> vel, objects |-> objs, points |-> << >>, delay |-> delay]

\* More rows than MAX_OBJECTS and a satellite with the id of one of them; a
\* satellite over the pole that moves along the line of sight, of which no time
\* is known; one at the origin.
MCMessages ==
  {State(1 :> "debris" @@ 2 :> "star" @@ 3 :> "debris", TRUE, "x", "z", 0),
   State(2 :> "star", TRUE, "z", "z", None),
   State(1 :> "debris", TRUE, "origin", None, 1)}

\* All is shown; or the satellite's view, without sky and debris, a long trail.
MCSettings ==
  {[showTrails |-> TRUE, trailSeconds |-> 2, showLabels |-> TRUE],
   [showTrails |-> TRUE, trailSeconds |-> 99, showLabels |-> TRUE, viewMode |-> "sat",
    showSky |-> FALSE, categories |-> [debris |-> FALSE]]}

\* The Earth hides 1 from an orbit that was not turned; from another orbit the
\* satellite, and 3 cannot be projected.
Turned(view) == ~view.fisheye /\ view.eye.yaw # 0
MCHidden(view) == IF view.fisheye THEN {2} ELSE IF Turned(view) THEN {SatKey} ELSE {1}
MCProjects(view) == (Ids \cup {SatKey}) \ (IF Turned(view) THEN {3} ELSE {})
MCBodyAt(view, body) ==
  IF body = "moon" THEN IF view.fisheye THEN "none" ELSE "inside"
  ELSE IF view.fisheye THEN "margin" ELSE IF Turned(view) THEN "inside" ELSE "outside"

MCImageSizes == {<<5400, 2700>>, <<2048, 1024>>}

===============================================================================

-------------------------------- MODULE Camera --------------------------------
(***************************************************************************)
(* The orbit camera of the browser, createCamera() of frontend/js/         *)
(* camera.js, and the clicks that main.js tells from its drags: both       *)
(* listen to the pointer events of the overlay canvas, the camera first.   *)
(* Neither looks at which pointer an event belongs to, so a press may      *)
(* follow a press, and a move may come from anywhere.                      *)
(*                                                                         *)
(* A pointer's clientX and clientY are one coordinate; a pixel turns the   *)
(* camera by one unit.  The exponential zoom is a step up or down.         *)
(***************************************************************************)
EXTENDS Integers

CONSTANTS
  Places,          \* external: the coordinates of pointer events
  PITCH_LIMIT,     \* 89 degrees
  MinDistance, MaxDistance,  \* 8, 200
  PICK_DRAG_THRESHOLD_PX     \* 5

ASSUME CameraAssumption ==
  /\ Places \subseteq Int
  /\ PITCH_LIMIT \in Nat /\ PICK_DRAG_THRESHOLD_PX \in Nat
  /\ MinDistance \in Nat /\ MaxDistance \in Nat /\ MinDistance <= MaxDistance

VARIABLES
  camera,   \* yaw, pitch, distance
  drag,     \* camera.js: dragging, and lastX, lastY
  press     \* main.js: downX, downY, and its own dragging

cameraVars == <<camera, drag, press>>

Clamp(x, lo, hi) == IF x < lo THEN lo ELSE IF x > hi THEN hi ELSE x

CameraInit ==
  /\ camera = [yaw |-> 0, pitch |-> 0, distance |-> MinDistance]
  /\ drag = [on |-> FALSE, last |-> 0]
  /\ press = [down |-> 0, strayed |-> FALSE]

PointerDown(x) ==
  /\ drag' = [on |-> TRUE, last |-> x]
  /\ press' = [down |-> x, strayed |-> FALSE]
  /\ UNCHANGED camera

Strays(x) == x - press.down > PICK_DRAG_THRESHOLD_PX \/ press.down - x > PICK_DRAG_THRESHOLD_PX

PointerMove(x) ==
  /\ IF drag.on
     THEN /\ camera' = [camera EXCEPT !.yaw = @ - (x - drag.last),
                                      !.pitch = Clamp(@ + x - drag.last, -PITCH_LIMIT, PITCH_LIMIT)]
          /\ drag' = [drag EXCEPT !.last = x]
     ELSE UNCHANGED <<camera, drag>>
  /\ press' = [press EXCEPT !.strayed = @ \/ Strays(x)]

\* The camera's part of pointerup, and all of pointercancel.
Release == drag' = [drag EXCEPT !.on = FALSE] /\ UNCHANGED <<camera, press>>

Wheel(step) ==
  /\ camera' = [camera EXCEPT !.distance = Clamp(@ + step, MinDistance, MaxDistance)]
  /\ UNCHANGED <<drag, press>>

===============================================================================

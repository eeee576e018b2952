------------------------------ MODULE MCDisFrames ------------------------------
(* An instance of DisFrames for TLC: the first PDU of the satellite has a     *)
(* location that is not a number.                                             *)
EXTENDS DisFrames

CONSTANT Nan

MCFold(e) == IF e = 1 THEN 1 ELSE 2
MCFrame(t) == <<1, 2>>
NoFaults == {{}}

MCCoords(n) == IF n = 1 THEN <<Nan, 0, 0>> ELSE <<n, 0, 0>>
MCPrinted(v) == IF v = Nan THEN NotJson ELSE v

===============================================================================

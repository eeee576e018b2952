------------------------------ MODULE MCWsServer ------------------------------
(* Instances of WsServer for TLC.                                          *)
EXTENDS WsServer

CONSTANTS c1, c2

MCClients == {c1, c2}

===============================================================================

---------------------------- MODULE MCReadyList ----------------------------
(* Quanta of two ticks for the created threads and three for IDLE: long    *)
(* enough that a quantum has a first, a middle and a last tick.            *)
EXTENDS ReadyList

MCPrio == [p \in Proc |-> IF p = Idle THEN 3 ELSE 2]
=============================================================================

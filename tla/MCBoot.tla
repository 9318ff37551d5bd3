------------------------------- MODULE MCBoot -------------------------------
(* The quanta of MCKernel. *)
EXTENDS Boot

MCPrio == [p \in Proc |-> 3]
=============================================================================

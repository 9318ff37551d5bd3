----------------------------- MODULE MCKernel -----------------------------
EXTENDS Kernel

MCPrio == [p \in Proc |-> 3]
=============================================================================

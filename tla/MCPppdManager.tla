---------------------------- MODULE MCPppdManager ----------------------------
(* Instances of PppdManager for TLC.                                         *)
EXTENDS PppdManager

\* What is left on the stack: a signal that forks in RUNNING, one that forks in
\* IDLE, and an int that is no signal.
StackSigs == {"EXIT", "START", "other"}

AllRequests == Request
=============================================================================

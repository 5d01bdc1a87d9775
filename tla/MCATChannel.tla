----------------------------- MODULE MCATChannel -----------------------------
(* Instances of ATChannel for TLC.                                           *)
EXTENDS ATChannel, TLC

CONSTANTS P1, P2

AT(type, prefix, longRun, pdu) ==
    [via |-> "full", type |-> type, prefix |-> prefix, pdu |-> pdu,
     longRun |-> longRun, out |-> TRUE]

\* Commands of three types and both prefixes.  exclude_command_list has queries
\* of several lines, such as AT+CCFC and AT+CCWA, but not AT+CMGS: a message is
\* sent with the timeout of AT_TIMEOUT_PROTECT.
MixedCommands ==
    {AT("MULTILINE", P1, TRUE, FALSE), AT("SINGLELINE", P2, FALSE, TRUE),
     AT("NUMERIC", NoPrefix, FALSE, FALSE)}

\* Without at_handshake the threads are alike.
ThreadSymmetry == Permutations(Threads)

\* A command with the timeout, and one without.
PlainCommand  == {AT("NO_RESULT", NoPrefix, FALSE, FALSE)}
PlainCommands == PlainCommand \cup {AT("NO_RESULT", NoPrefix, TRUE, FALSE)}
=============================================================================

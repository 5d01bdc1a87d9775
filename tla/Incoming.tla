------------------------------- MODULE Incoming -------------------------------
(* From the constructors to the handler of an unsolicited line: the boot of  *)
(* module Registry builds the tables, then the reader thread of LineReader   *)
(* hands on lines, and process_unsolicited finds their handlers.             *)
EXTENDS LineReader, Registry

vars == <<bootVars, lineVars>>

Init == BootInit /\ LineInit

\* The channel is opened after the last constructor.
BootStep == Boot /\ UNCHANGED lineVars

ReaderStep == level = "main" /\ LineStep /\ UNCHANGED bootVars

Next == BootStep \/ ReaderStep

Spec == Init /\ [][Next]_vars

\* No registered prefix is a prefix of another: the first byte of a line decides.
HandlerOf(call) == process_unsolicited(call.first[1].c)
-----------------------------------------------------------------------------
TypeOK == BootTypeOK /\ LineTypeOK

\* onNewMessageOrStatus takes the length of the PDU it is called with: it must
\* have one, whatever the lines.  It is the PDU that came with the first line,
\* unless a one-line notice has been taken for a first line, readline has found
\* old lines behind a USSD message, or a session has ended in the middle.
PduOfItsHeader ==
    \A i \in DOMAIN handed :
       HandlerOf(handed[i]) = "onNewMessageOrStatus" =>
          /\ handed[i].second # NoLine
          /\ kinds \cap {"notice", "ussd"} = {} /\ opens = 1 =>
                \E k \in DOMAIN sent : sent[k] = handed[i]
===============================================================================

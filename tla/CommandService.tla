---------------------------- MODULE CommandService ----------------------------
(* What the AT channel promises to those who issue commands: they are served *)
(* one at a time; a command is sent to the modem at most once, and the body  *)
(* of its message, if it has one, at most once and for its own prompt; and   *)
(* what a caller is given is what the modem said to the command just sent,   *)
(* and nothing if that was never sent.  When a command has timed out, late   *)
(* answers are about, and what is given may be another command's.            *)
EXTENDS Naturals

CONSTANTS Threads, Nobody

VARIABLES
    turn,    \* the thread that is served
    issued,  \* its command has been sent
    sent,    \* number of commands that were sent
    bodies,  \* the bodies of messages that were sent, with their prompts
    results, \* what the last call of each thread returned
    closed,  \* the channel is closed
    over     \* a command has timed out

serviceVars == <<turn, issued, sent, bodies, results, closed, over>>

\* A result: the error, the command it is about, whether there is a response, and
\* the commands that its final line and its other lines answer (0: none).
Result(err, id, given, final, lines) ==
    [err |-> err, id |-> id, given |-> given, final |-> final, lines |-> lines]

Nothing(err) == Result(err, 0, FALSE, 0, {})

Init ==
    /\ turn = Nobody /\ issued = FALSE /\ sent = 0 /\ bodies = {}
    /\ results = [t \in Threads |-> Nothing("NONE")]
    /\ closed = FALSE /\ over = FALSE

Begin(t) ==
    /\ turn = Nobody /\ turn' = t
    /\ UNCHANGED <<issued, sent, bodies, results, closed, over>>

Issue ==
    /\ turn # Nobody /\ ~issued /\ ~closed
    /\ issued' = TRUE /\ sent' = sent + 1
    /\ UNCHANGED <<turn, bodies, results, closed, over>>

Body ==
    /\ issued /\ ~closed
    /\ \A z \in bodies : z.pdu < sent
    /\ \E z \in bodies' :
         /\ bodies' = bodies \cup {z}
         /\ z.pdu = sent /\ (z.prompt = sent \/ over)
    /\ UNCHANGED <<turn, issued, sent, results, closed, over>>

\* The turn of t ends, and only t is given a result.
Return(t) ==
    /\ turn = t /\ turn' = Nobody /\ issued' = FALSE
    /\ results' = [results EXCEPT ![t] = results'[t]]
    /\ UNCHANGED <<sent, bodies, closed>>

Refuse(t) ==
    /\ Return(t) /\ ~issued
    /\ results'[t] \in {Nothing("GENERIC"), Nothing("CHANNEL_CLOSED")}
    /\ UNCHANGED over

GiveUp(t) ==
    /\ Return(t) /\ issued
    /\ results'[t] = Nothing("TIMEOUT")
    /\ over' = TRUE

Answer(t) ==
    /\ Return(t) /\ issued
    /\ LET r == results'[t]
       IN  /\ r.id = sent
           /\ r.err \in IF closed THEN {"CHANNEL_CLOSED"} ELSE {"NONE", "INVALID_RESPONSE"}
           /\ \/ over
              \/ /\ r.final \in {0, sent} /\ r.lines \subseteq {0, sent}
                 /\ r.given /\ ~closed => r.final = sent
    /\ UNCHANGED over

Close ==
    /\ ~closed /\ closed' = TRUE
    /\ UNCHANGED <<turn, issued, sent, bodies, results, over>>

Next ==
    \/ Issue \/ Body \/ Close
    \/ \E t \in Threads : Begin(t) \/ Refuse(t) \/ GiveUp(t) \/ Answer(t)

Spec == Init /\ [][Next]_serviceVars
===============================================================================

------------------------------- MODULE DataLink -------------------------------
(* What the pppd manager promises to the rest of the RIL: the connection is  *)
(* off, on, on its way off, or halted for a network scan; at most one pppd   *)
(* runs, and only one that was started while the connection was on; and the  *)
(* connection is off, or on again, only when no pppd is left.                *)
EXTENDS Naturals

VARIABLES
    phase,     \* "off", "on", "stopping" or "halted"
    running,   \* the pppd that runs, if there is one
    last,      \* the pid of the newest pppd
    up         \* its interface is up

linkVars == <<phase, running, last, up>>

Init == phase = "off" /\ running = {} /\ last = 0 /\ up = FALSE

\* The phase changes; nothing is left running when the connection goes off or
\* comes back, and nothing is disturbed when it is asked to stop.
Phase(from, to) ==
    /\ phase = from /\ phase' = to
    /\ UNCHANGED <<running, last, up>>

TurnOn  == Phase("off", "on") /\ running = {}
TurnOff == Phase("on", "stopping")
Off     == Phase("stopping", "off") /\ running = {}
Halt    == Phase("on", "halted")
Resume  == Phase("halted", "on") /\ running = {}

\* A new pppd, when there is none and one is wanted.
Start ==
    /\ phase = "on" /\ running = {}
    /\ last' = last + 1
    /\ running' = {last + 1}
    /\ UNCHANGED <<phase, up>>

Exit ==
    /\ running # {} /\ running' = {}
    /\ up' = FALSE
    /\ UNCHANGED <<phase, last>>

LinkUp ==
    /\ running # {} /\ ~up /\ up'
    /\ UNCHANGED <<phase, running, last>>

LinkDown ==
    /\ up /\ ~up'
    /\ UNCHANGED <<phase, running, last>>

Next ==
    \/ TurnOn \/ TurnOff \/ Off \/ Halt \/ Resume
    \/ Start \/ Exit \/ LinkUp \/ LinkDown

Spec == Init /\ [][Next]_linkVars
===============================================================================

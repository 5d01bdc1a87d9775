-------------------------- MODULE RadioStateProofs --------------------------
(* Theorems about RadioState, for any number of sessions, requests and polls. *)
EXTENDS RadioState, FiniteSetTheorems, TLAPS

-----------------------------------------------------------------------------
(* The inductive invariants.                                                  *)

\* mainLoop schedules initializeCallback once for each session it opens, and
\* starts the session's reader there.
SessionInv ==
    /\ inits <= session
    /\ loop = "at_open" => session < MaxSessions
    /\ \A t \in Readers : t > session => th[t].at = "unborn"

TypeInv == TypeOK /\ SessionInv

-----------------------------------------------------------------------------
(* What a step changes.                                                       *)

\* The steps that write s_closed or the framework's state, or leave setRadioState.
Announce(t) == Assign(t) \/ Compare(t) \/ Notify(t) \/ SetClosed(t)

\* All the others.
Quiet ==
    \/ \E t \in Threads : \/ IsReady(t) \/ IsNotReady(t) \/ OnSIMReady(t)
                          \/ PollSIMState(t) \/ AtClose(t) \/ Exit(t)
    \/ \E t \in Readers : ReaderEof(t)
    \/ Handlers \/ Request \/ TimedOut \/ MainLoop \/ Exited

\* Where a thread holds a change that the framework has yet to be told of.
Holding == {"set", "compare", "notify"}

\* Where a thread does not leave in a quiet step, but for a reader at its start.
Resting == Holding \cup {"unborn"}

\* t is not inside the first half of setRadioState, and is the only thread to move.
Moves(t) ==
    /\ th[t].at \notin Resting
    /\ th' \in [Threads -> [at : Places, state : RadioStates, then : Places]]
    /\ \A u \in Threads \ {t} : th'[u] = th[u]

\* Every step is one or the other.
LEMMA NextCases == Next => Quiet \/ \E t \in Threads : Announce(t)
  BY DEF Next, Quiet, Announce, ThreadStep, SetRadioState, Close

\* A jump moves its thread alone.
LEMMA MovesGoto ==
    ASSUME TypeOK, NEW t \in Threads, NEW p \in Places, Goto(t, p), th[t].at \notin Resting
    PROVE  Moves(t)
  BY DEF TypeOK, ThreadTypes, Goto, Moves

\* So does a call of setRadioState.
LEMMA MovesCall ==
    ASSUME TypeOK, NEW t \in Threads, NEW s \in RadioStates, NEW p \in Places, Call(t, s, p),
           th[t].at \notin Resting
    PROVE  Moves(t)
<1>1. "set" \in Places  BY DEF Places
<1> QED  BY <1>1 DEF TypeOK, ThreadTypes, Call, Moves

\* So does a jump that sets the place to return to.
LEMMA MovesThen ==
    ASSUME TypeOK, NEW t \in Threads, NEW p \in Places, NEW q \in Places,
           th' = [th EXCEPT ![t].at = p, ![t].then = q], th[t].at \notin Resting
    PROVE  Moves(t)
  BY DEF TypeOK, ThreadTypes, Moves

\* A quiet step moves at most one thread, and that one holds no change.
LEMMA QuietMoves ==
    ASSUME TypeInv, Quiet
    PROVE  th' = th \/ AtOpen \/ \E t \in Threads : Moves(t)
<1> USE DEF TypeInv
<1>0. TypeOK /\ SessionInv /\ Main \in Threads /\ "idle" \in Places
      /\ \A t \in Threads : th[t].then \in Places
  BY DEF TypeOK, ThreadTypes, Threads, Places
<1>1. ASSUME NEW t \in Threads, IsReady(t) \/ IsNotReady(t) \/ OnSIMReady(t)
      PROVE  Moves(t)
  <2>1. \E p \in Places : Goto(t, p)
    BY <1>0, <1>1 DEF IsReady, IsNotReady, OnSIMReady, Places
  <2>2. th[t].at \notin Resting
    BY <1>1 DEF IsReady, IsNotReady, OnSIMReady, At, Holding, Resting
  <2> QED  BY <2>1, <2>2, MovesGoto, <1>0
<1>2. ASSUME NEW t \in Threads, AtClose(t)
      PROVE  Moves(t)
  <2>1. "closed" \in Places /\ Goto(t, "closed") /\ th[t].at \notin Resting
    BY <1>2 DEF AtClose, At, Holding, Resting, Places
  <2> QED  BY <2>1, MovesGoto, <1>0
<1>3. ASSUME NEW t \in Threads, PollSIMState(t)
      PROVE  Moves(t)
  <2>1. th[t].at \notin Resting
    BY <1>3 DEF PollSIMState, PollTest, SimStatusTest, PollAnswer, At, Holding, Resting
  <2>2. \/ \E p \in Places : Goto(t, p)
        \/ \E s \in RadioStates : Call(t, s, th[t].then)
    <3>1. CASE PollTest(t)  BY <1>0, <3>1 DEF PollTest, Places
    <3>2. CASE SimStatusTest(t)  BY <1>0, <3>2 DEF SimStatusTest, SchedulePoll, Places
    <3>3. CASE PollAnswer(t)
      <4> PICK status \in SimAnswers :
            CASE status = "NOT_READY" -> SchedulePoll(t)
              [] status = "READY" -> Call(t, "SIM_READY", th[t].then) /\ UNCHANGED polls
              [] OTHER -> Call(t, "SIM_LOCKED_OR_ABSENT", th[t].then) /\ UNCHANGED polls
        BY <3>3 DEF PollAnswer
      <4>1. "SIM_READY" \in RadioStates /\ "SIM_LOCKED_OR_ABSENT" \in RadioStates
        BY DEF RadioStates
      <4> QED  BY <1>0, <4>1 DEF SchedulePoll
    <3> QED  BY <1>3, <3>1, <3>2, <3>3 DEF PollSIMState
  <2> QED  BY <2>1, <2>2, MovesGoto, MovesCall, <1>0
<1>4. ASSUME NEW t \in Readers, ReaderEof(t)
      PROVE  Moves(t)
  <2>1. t \in Threads /\ th[t].at \notin Resting
    BY <1>4 DEF ReaderEof, At, Holding, Resting, Threads
  <2>2. \E p \in Places, q \in Places : th' = [th EXCEPT ![t].at = p, ![t].then = q]
    BY <1>4 DEF ReaderEof, Places
  <2> QED  BY <2>1, <2>2, MovesThen, <1>0
<1>5. ASSUME TimedOut
      PROVE  Moves(Main)
  <2>1. th[Main].at \notin Resting
    BY <1>5 DEF TimedOut, CommandPlaces, Holding, Resting
  <2>2. \E p \in Places, q \in Places : th' = [th EXCEPT ![Main].at = p, ![Main].then = q]
    BY <1>5 DEF TimedOut, Places
  <2> QED  BY <2>1, <2>2, MovesThen, <1>0
<1>6. ASSUME Handlers
      PROVE  Moves(Main)
  <2>1. th[Main].at \notin Resting
    BY <1>6 DEF Handlers, RunPoll, RunInit, InitCommands, InitDone, Filter, Process,
           RadioPowerOff, RadioPowerOn, PppdDown, CFun0, CFun1, GetRadioPower, PinStatusTest,
           PinStatus, Pin, PinAccepted, PinReady, At, Holding, Resting
  <2>2. CASE RunPoll
    <3>1. \E p \in Places, q \in Places : th' = [th EXCEPT ![Main].at = p, ![Main].then = q]
      BY <2>2 DEF RunPoll, Begin, Places
    <3> QED  BY <2>1, <3>1, MovesThen, <1>0
  <2>3. CASE \/ RunInit \/ InitCommands \/ PinAccepted \/ PinReady
    <3>1. \E s \in RadioStates, p \in Places : Call(Main, s, p)
      BY <2>3 DEF RunInit, InitCommands, PinAccepted, PinReady, Places, RadioStates
    <3> QED  BY <2>1, <3>1, MovesCall, <1>0
  <2>4. CASE InitDone \/ Filter \/ Process \/ RadioPowerOn \/ PinStatusTest \/ PinStatus \/ Pin
    <3>1. \E p \in Places : Goto(Main, p)
      BY <2>4 DEF InitDone, Filter, Process, RadioPowerOn, PinStatusTest, PinStatus, Pin, Places
    <3> QED  BY <2>1, <3>1, MovesGoto, <1>0
  <2>5. CASE RadioPowerOff \/ PppdDown \/ CFun0 \/ CFun1 \/ GetRadioPower
    <3>1. \/ \E p \in Places : Goto(Main, p)
          \/ \E s \in RadioStates : Call(Main, s, "idle")
      BY <2>5 DEF RadioPowerOff, PppdDown, CFun0, CFun1, GetRadioPower, Places, RadioStates
    <3> QED  BY <2>1, <3>1, MovesGoto, MovesCall, <1>0
  <2> QED  BY <1>6, <2>2, <2>3, <2>4, <2>5 DEF Handlers
<1>7. ASSUME Request
      PROVE  Moves(Main)
  <2>1. th[Main].at \notin Resting
    BY <1>7 DEF Request, At, Holding, Resting
  <2>2. \E p \in Places, q \in Places : th' = [th EXCEPT ![Main].at = p, ![Main].then = q]
    BY <1>7 DEF Request, Begin, Places
  <2> QED  BY <2>1, <2>2, MovesThen, <1>0
<1>8. CASE Exited \/ OpenDevice \/ OpenFails \/ WaitForClose \/ SpuriousWakeup
  BY <1>8 DEF Exited, OpenDevice, OpenFails, WaitForClose, SpuriousWakeup, vars
<1>9. CASE \E t \in Threads : Exit(t)
  BY <1>9 DEF Exit
<1>10. CASE \E t \in Threads : \/ IsReady(t) \/ IsNotReady(t) \/ OnSIMReady(t)
                              \/ PollSIMState(t) \/ AtClose(t) \/ Exit(t)
  BY <1>1, <1>2, <1>3, <1>9, <1>10
<1>11. CASE \E t \in Readers : ReaderEof(t)
  BY <1>4, <1>11 DEF Threads
<1>12. CASE Handlers \/ Request \/ TimedOut
  BY <1>0, <1>5, <1>6, <1>7, <1>12
<1>13. CASE MainLoop \/ Exited
  BY <1>8, <1>13 DEF MainLoop
<1> QED  BY <1>10, <1>11, <1>12, <1>13 DEF Quiet

-----------------------------------------------------------------------------
(* Types.                                                                     *)

\* Sessions are only ever added.
LEMMA QuietSession ==
    ASSUME TypeInv, Quiet
    PROVE  session' = session \/ session' = session + 1
  BY DEF Quiet, IsReady, IsNotReady, OnSIMReady, PollSIMState, PollTest, SimStatusTest,
     PollAnswer, AtClose, Exit, ReaderEof, Handlers, RunPoll, RunInit, InitCommands, InitDone,
     Filter, Process, RadioPowerOff, RadioPowerOn, PppdDown, CFun0, CFun1, GetRadioPower,
     PinStatusTest, PinStatus, Pin, PinAccepted, PinReady, Request, TimedOut, MainLoop,
     OpenDevice, OpenFails, AtOpen, WaitForClose, SpuriousWakeup, Exited, vars, radioVars

\* A quiet step keeps the types of everything but the threads.
LEMMA QuietTypes ==
    ASSUME TypeInv, Quiet
    PROVE  RadioTypes' /\ MainTypes' /\ HistoryTypes' /\ inits' <= session'
           /\ (loop' = "at_open" => session' < MaxSessions)
<1> USE RadioAssumption DEF TypeInv, TypeOK, RadioTypes, MainTypes, HistoryTypes, SessionInv
<1>1. CASE \E t \in Threads : IsReady(t) \/ IsNotReady(t) \/ OnSIMReady(t) \/ PollTest(t)
                              \/ AtClose(t) \/ Exit(t)
  BY <1>1 DEF IsReady, IsNotReady, OnSIMReady, PollTest, AtClose, Exit, radioVars, mainVars, history
<1>2. CASE \E t \in Threads : SimStatusTest(t) \/ PollAnswer(t)
  <2> PICK t \in Threads : SimStatusTest(t) \/ PollAnswer(t)  BY <1>2
  <2>1. polls' \in 0..MaxPolls
    <3>1. CASE SimStatusTest(t)  BY <3>1 DEF SimStatusTest, SchedulePoll
    <3>2. CASE PollAnswer(t)
      <4>1. PICK status \in SimAnswers :
            CASE status = "NOT_READY" -> SchedulePoll(t)
              [] status = "READY" -> Call(t, "SIM_READY", th[t].then) /\ UNCHANGED polls
              [] OTHER -> Call(t, "SIM_LOCKED_OR_ABSENT", th[t].then) /\ UNCHANGED polls
        BY <3>2 DEF PollAnswer
      <4>2. SchedulePoll(t) \/ polls' = polls  BY <4>1
      <4> QED  BY <4>2 DEF SchedulePoll
    <3> QED  BY <1>2, <3>1, <3>2
  <2>2. UNCHANGED <<radioVars, inits, req, test, is_lock, first_cfun, g_modem, requests,
                    process, history>>
    BY DEF SimStatusTest, PollAnswer
  <2> QED  BY <2>1, <2>2 DEF radioVars, history
<1>3. CASE \/ \E t \in Readers : ReaderEof(t)
           \/ InitCommands \/ RadioPowerOn \/ PppdDown \/ CFun0 \/ CFun1 \/ GetRadioPower
           \/ PinAccepted \/ PinReady \/ TimedOut \/ Exited \/ OpenFails
  <2>1. UNCHANGED <<radioVars, mainVars, process, history>>
    BY <1>3 DEF ReaderEof, InitCommands, RadioPowerOn, PppdDown, CFun0, CFun1, GetRadioPower,
           PinAccepted, PinReady, TimedOut, Exited, OpenFails, vars
  <2> QED  BY <2>1 DEF radioVars, mainVars, history
<1>4. CASE RunPoll \/ RunInit \/ InitDone
  <2>1. UNCHANGED <<radioVars, req, test, is_lock, first_cfun, g_modem, requests, process,
                    told, seen, late>>
    BY <1>4 DEF RunPoll, RunInit, InitDone, mainVars
  <2>2. inits' \in 0..MaxSessions /\ inits' <= inits /\ polls' \in 0..MaxPolls
        /\ inited' \in {"no", "runs", "done"}
    BY <1>4 DEF RunPoll, RunInit, InitDone, mainVars
  <2> QED  BY <2>1, <2>2 DEF radioVars
<1>5. CASE RadioPowerOff \/ PinStatusTest \/ PinStatus \/ Pin
  <2>1. UNCHANGED <<radioVars, inits, polls, req, test, g_modem, requests, process, history>>
    BY <1>5 DEF RadioPowerOff, PinStatusTest, PinStatus, Pin
  <2>2. is_lock' \in BOOLEAN
    BY <1>5 DEF RadioPowerOff, PinStatusTest, PinStatus, Pin
  <2>3. first_cfun' \in {0, 1}
    BY <1>5 DEF RadioPowerOff, PinStatusTest, PinStatus, Pin
  <2> QED  BY <2>1, <2>2, <2>3 DEF radioVars, history
<1>6. CASE Request \/ Filter \/ Process
  BY <1>6 DEF Request, Filter, Process, Tests, LastTest, radioVars, mainVars, history
<1>7. CASE OpenDevice \/ WaitForClose \/ SpuriousWakeup
  BY <1>7 DEF OpenDevice, WaitForClose, SpuriousWakeup, AtLoop, Loops, mainVars, history
<1>8. CASE AtOpen
  BY <1>8 DEF AtOpen, AtLoop, Loops
<1>9. CASE Handlers \/ Request
  BY <1>3, <1>4, <1>5, <1>6, <1>9 DEF Handlers
<1>10. CASE MainLoop \/ Exited
  BY <1>3, <1>7, <1>8, <1>10 DEF MainLoop
<1> QED
  BY <1>1, <1>2, <1>3, <1>9, <1>10 DEF Quiet, PollSIMState

\* TypeInv holds of the initial states.
LEMMA TypeInit == ASSUME Init PROVE TypeInv
<1>1. /\ 0 \in 0..MaxSessions /\ 0 \in 0..MaxPolls /\ 0 \in 0..MaxRequests
      /\ "UNAVAILABLE" \in RadioStates /\ "open" \in Loops /\ 1 \in Tests
  BY RadioAssumption DEF RadioStates, Loops, Tests
<1>1a. RadioTypes /\ HistoryTypes  BY <1>1 DEF Init, RadioTypes, HistoryTypes
<1>2. MainTypes
  <2>1. req \in Requests \union {NoRequest}  BY DEF Init
  <2> QED  BY <1>1, <2>1 DEF Init, MainTypes
<1>3. ThreadTypes  BY DEF Init, ThreadTypes, RadioStates, Places
<1>4. SessionInv
  BY RadioAssumption DEF Init, SessionInv, Threads, Readers, Main
<1> QED  BY <1>1a, <1>2, <1>3, <1>4 DEF TypeInv, TypeOK

\* Every step keeps TypeInv.
LEMMA TypeStep == ASSUME TypeInv, [Next]_vars PROVE TypeInv'
<1>0. TypeOK /\ SessionInv /\ ThreadTypes /\ session \in Nat  BY RadioAssumption DEF TypeInv, TypeOK, RadioTypes
<1>1. CASE Quiet
  <2>1. RadioTypes' /\ MainTypes' /\ HistoryTypes' /\ inits' <= session'
        /\ (loop' = "at_open" => session' < MaxSessions)
    BY <1>1, QuietTypes
  <2>2. CASE th' = th
    <3>1. session' \in Nat /\ session' >= session
      BY <1>0, <1>1, <2>1, <2>2, QuietSession
    <3> QED  BY <1>0, <2>1, <2>2, <3>1 DEF TypeInv, TypeOK, ThreadTypes, SessionInv, Readers
  <2>3. CASE AtOpen
    <3>1. session + 1 \in Threads /\ "read" \in Places /\ session' = session + 1
      BY <1>0, <2>3, RadioAssumption DEF AtOpen, AtLoop, SessionInv, Threads, Readers, Places
    <3>2. ThreadTypes'
      BY <1>0, <2>3, <3>1 DEF AtOpen, ThreadTypes, Goto
    <3>3. \A t \in Readers : t > session' => th'[t].at = "unborn"
      BY <1>0, <2>3, <3>1 DEF AtOpen, ThreadTypes, Goto, SessionInv, Readers
    <3> QED  BY <2>1, <3>2, <3>3 DEF TypeInv, TypeOK, SessionInv
  <2>4. CASE \E t \in Threads : Moves(t)
    <3> PICK t \in Threads : Moves(t)  BY <2>4
    <3>1. session' \in Nat /\ session' >= session
      BY <1>0, <1>1, <2>1, QuietSession
    <3>2. \A u \in Readers : u > session' => th'[u].at = "unborn"
      BY <1>0, <3>1 DEF Moves, Resting, SessionInv, Readers, Threads
    <3> QED  BY <2>1, <3>2 DEF Moves, TypeInv, TypeOK, ThreadTypes, SessionInv
  <2> QED  BY <1>1, <2>2, <2>3, <2>4, QuietMoves
<1>2. ASSUME NEW t \in Threads, Announce(t)
      PROVE  TypeInv'
  <2>1. UNCHANGED <<session, open, process, mainVars, seen, inited>>
        /\ (loop' = loop \/ loop' = "check")
    BY <1>2 DEF Announce, Assign, Compare, Notify, SetClosed, radioVars, history
  <2>2a. sState' \in RadioStates /\ told' \in RadioStates /\ late' \in BOOLEAN
         /\ s_closed' \in {0, 1}
    <3>1. th[t].state \in RadioStates /\ "UNAVAILABLE" \in RadioStates
      BY <1>0 DEF ThreadTypes, RadioStates
    <3> QED  BY <1>0, <1>2, <3>1 DEF Announce, Assign, Compare, Notify, SetClosed, NewState, TypeOK,
       RadioTypes, HistoryTypes, radioVars, history
  <2>2b. RadioTypes' /\ MainTypes' /\ HistoryTypes' /\ inits' = inits
    BY <1>0, <2>1, <2>2a DEF TypeOK, RadioTypes, MainTypes, HistoryTypes, mainVars, Loops
  <2>2. ThreadTypes' /\ th[t].at # "unborn" /\ \A u \in Threads \ {t} : th'[u] = th[u]
    BY <1>0, <1>2 DEF Announce, Assign, Compare, Notify, SetClosed, Proceed, Goto, Call, At,
       TypeOK, RadioTypes, ThreadTypes, RadioStates, Places
  <2> QED
    BY <1>0, <2>1, <2>2b, <2>2 DEF TypeInv, TypeOK, SessionInv, Readers, Threads
<1>3. CASE UNCHANGED vars
  BY <1>0, <1>3 DEF TypeInv, TypeOK, RadioTypes, ThreadTypes, MainTypes, HistoryTypes,
     SessionInv, vars, radioVars, mainVars, history
<1> QED  BY <1>1, <1>2, <1>3, NextCases

\* Every variable keeps its type, however many sessions and requests there are.
THEOREM TypeCorrect == Spec => []TypeOK
<1>1. TypeInv => TypeOK  BY DEF TypeInv
<1> QED  BY <1>1, TypeInit, TypeStep, PTL DEF Spec

-----------------------------------------------------------------------------
(* Safety.                                                                    *)

\* A quiet step leaves the state as it is, does not close the channel, and lets
\* mainLoop sleep on an open channel only.
LEMMA QuietRadio ==
    ASSUME TypeInv, Quiet
    PROVE  /\ sState' = sState /\ told' = told
           /\ s_closed' = s_closed \/ s_closed' = 0
           /\ loop' = "wait" => loop = "wait" \/ s_closed' = 0
<1>1. CASE \/ \E t \in Threads : \/ IsReady(t) \/ IsNotReady(t) \/ OnSIMReady(t)
                                \/ PollSIMState(t) \/ AtClose(t) \/ Exit(t)
           \/ \E t \in Readers : ReaderEof(t)
           \/ TimedOut \/ Exited
  BY <1>1 DEF IsReady, IsNotReady, OnSIMReady, PollSIMState, PollTest, SimStatusTest, PollAnswer,
     AtClose, Exit, ReaderEof, TimedOut, Exited, vars, radioVars, history
<1>2. CASE Handlers \/ Request
  BY <1>2 DEF Handlers, RunPoll, RunInit, InitCommands, InitDone, Filter, Process,
     RadioPowerOff, RadioPowerOn, PppdDown, CFun0, CFun1, GetRadioPower, PinStatusTest,
     PinStatus, Pin, PinAccepted, PinReady, Request, radioVars, history
<1>3. CASE MainLoop
  BY <1>3 DEF MainLoop, OpenDevice, OpenFails, AtOpen, WaitForClose, SpuriousWakeup, AtLoop, vars,
     radioVars, history
<1> QED  BY <1>1, <1>2, <1>3 DEF Quiet

\* A thread that holds a change keeps it over a quiet step.
LEMMA QuietHolds ==
    ASSUME TypeInv, Quiet, NEW u \in Threads, th[u].at \in Holding
    PROVE  th'[u] = th[u]
<1>1. CASE th' = th  BY <1>1
<1>2. CASE AtOpen
  <2>1. session + 1 \in Readers /\ session + 1 > session
    BY <1>2, RadioAssumption DEF AtOpen, AtLoop, TypeInv, TypeOK, RadioTypes, SessionInv, Readers
  <2>2. u # session + 1
    BY <2>1 DEF TypeInv, SessionInv, Holding
  <2> QED  BY <1>2, <2>2 DEF AtOpen, Goto, TypeInv, TypeOK, ThreadTypes
<1>3. CASE \E t \in Threads : Moves(t)
  BY <1>3 DEF Moves, Resting
<1> QED  BY <1>1, <1>2, <1>3, QuietMoves

\* Assign, seen from the threads.
LEMMA AssignFacts ==
    ASSUME TypeInv, NEW t \in Threads, Assign(t)
    PROVE  /\ th[t].at = "set" /\ th'[t].at = "compare" /\ th'[t].state = sState
           /\ \A u \in Threads \ {t} : th'[u] = th[u]
           /\ sState' = NewState(th[t].state) /\ told' = told /\ s_closed' = s_closed
           /\ s_closed = 1 => loop' # "wait"
  BY DEF Assign, At, TypeInv, TypeOK, ThreadTypes, RadioTypes, history

\* Compare, seen from the threads.
LEMMA CompareFacts ==
    ASSUME TypeInv, NEW t \in Threads, Compare(t)
    PROVE  /\ th[t].at = "compare"
           /\ sState # th[t].state => th'[t].at = "notify"
           /\ \A u \in Threads \ {t} : th'[u] = th[u]
           /\ sState' = sState /\ told' = told /\ s_closed' = s_closed /\ loop' = loop
  BY DEF Compare, Proceed, At, TypeInv, TypeOK, ThreadTypes, history, radioVars

\* Notify, seen from the threads.
LEMMA NotifyFacts ==
    ASSUME TypeInv, NEW t \in Threads, Notify(t)
    PROVE  /\ th[t].at = "notify" /\ told' = sState
           /\ \A u \in Threads \ {t} : th'[u] = th[u]
           /\ sState' = sState /\ s_closed' = s_closed /\ loop' = loop
  BY DEF Notify, Goto, At, TypeInv, TypeOK, ThreadTypes, radioVars

\* SetClosed, seen from the threads.
LEMMA SetClosedFacts ==
    ASSUME TypeInv, NEW t \in Threads, SetClosed(t)
    PROVE  /\ th[t].at = "closed" /\ th'[t].at = "set" /\ th'[t].state = "UNAVAILABLE"
           /\ \A u \in Threads \ {t} : th'[u] = th[u]
           /\ sState' = sState /\ told' = told /\ loop' = loop
  BY DEF SetClosed, Call, At, TypeInv, TypeOK, ThreadTypes, history

\* A closed channel makes the radio unavailable.
LEMMA ClosedStep ==
    ASSUME TypeInv, ClosedIsUnavailable, [Next]_vars PROVE ClosedIsUnavailable'
<1>1. CASE Quiet
  BY <1>1, QuietRadio, QuietHolds DEF ClosedIsUnavailable, Holding
<1>2. ASSUME NEW t \in Threads, Assign(t)
      PROVE  ClosedIsUnavailable'
  <2>1. s_closed' = 1 => sState' = "UNAVAILABLE"
    BY <1>2, AssignFacts DEF NewState
  <2> QED  BY <2>1 DEF ClosedIsUnavailable
<1>3. ASSUME NEW t \in Threads, Compare(t) \/ Notify(t)
      PROVE  ClosedIsUnavailable'
  BY <1>3, CompareFacts, NotifyFacts DEF ClosedIsUnavailable
<1>4. ASSUME NEW t \in Threads, SetClosed(t)
      PROVE  ClosedIsUnavailable'
  BY <1>4, SetClosedFacts DEF ClosedIsUnavailable
<1>5. CASE UNCHANGED vars
  BY <1>5 DEF ClosedIsUnavailable, vars, radioVars
<1> QED  BY <1>1, <1>2, <1>3, <1>4, <1>5, NextCases DEF Announce

\* No change is lost on the framework.
LEMMA UpToDateStep ==
    ASSUME TypeInv, FrameworkUpToDate, [Next]_vars PROVE FrameworkUpToDate'
<1> USE DEF FrameworkUpToDate, Notifying
<1>1. CASE Quiet
  BY <1>1, QuietRadio, QuietHolds DEF Holding
<1>2. ASSUME NEW t \in Threads, Assign(t)
      PROVE  FrameworkUpToDate'
  <2>1. CASE sState' = sState
    BY <1>2, <2>1, AssignFacts
  <2>2. CASE sState' # sState
    BY <1>2, <2>2, AssignFacts
  <2> QED  BY <2>1, <2>2
<1>3. ASSUME NEW t \in Threads, Compare(t)
      PROVE  FrameworkUpToDate'
  <2>1. CASE sState = th[t].state
    BY <1>3, <2>1, CompareFacts
  <2>2. CASE sState # th[t].state
    BY <1>3, <2>2, CompareFacts
  <2> QED  BY <2>1, <2>2
<1>4. ASSUME NEW t \in Threads, Notify(t)
      PROVE  FrameworkUpToDate'
  BY <1>4, NotifyFacts
<1>5. ASSUME NEW t \in Threads, SetClosed(t)
      PROVE  FrameworkUpToDate'
  BY <1>5, SetClosedFacts
<1>6. CASE UNCHANGED vars
  BY <1>6 DEF vars, radioVars, history
<1> QED  BY <1>1, <1>2, <1>3, <1>4, <1>5, <1>6, NextCases DEF Announce

\* No close is lost on mainLoop.
LEMMA SignalledStep ==
    ASSUME TypeInv, CloseIsSignalled, [Next]_vars PROVE CloseIsSignalled'
<1> USE DEF CloseIsSignalled
<1>1. CASE Quiet
  BY <1>1, QuietRadio, QuietHolds DEF Holding
<1>2. ASSUME NEW t \in Threads, Assign(t)
      PROVE  CloseIsSignalled'
  BY <1>2, AssignFacts
<1>3. ASSUME NEW t \in Threads, Compare(t) \/ Notify(t)
      PROVE  CloseIsSignalled'
  BY <1>3, CompareFacts, NotifyFacts
<1>4. ASSUME NEW t \in Threads, SetClosed(t)
      PROVE  CloseIsSignalled'
  BY <1>4, SetClosedFacts
<1>5. CASE UNCHANGED vars
  BY <1>5 DEF vars, radioVars
<1> QED  BY <1>1, <1>2, <1>3, <1>4, <1>5, NextCases DEF Announce

\* While s_closed is set the radio is unavailable, or about to be made so.
THEOREM ClosedTheorem == Spec => []ClosedIsUnavailable
<1>1. Init => ClosedIsUnavailable  BY DEF Init, ClosedIsUnavailable
<1> QED  BY <1>1, TypeInit, TypeStep, ClosedStep, PTL DEF Spec

\* However the threads interleave, the framework is told of the last change.
THEOREM UpToDateTheorem == Spec => []FrameworkUpToDate
<1>1. Init => FrameworkUpToDate  BY DEF Init, FrameworkUpToDate
<1> QED  BY <1>1, TypeInit, TypeStep, UpToDateStep, PTL DEF Spec

\* mainLoop never sleeps through the end of a session.
THEOREM SignalledTheorem == Spec => []CloseIsSignalled
<1>1. Init => CloseIsSignalled  BY DEF Init, CloseIsSignalled
<1> QED  BY <1>1, TypeInit, TypeStep, SignalledStep, PTL DEF Spec
-----------------------------------------------------------------------------
(* Where the threads return to.                                               *)

\* The places a setRadioState or a poll can return to.
Returns == {"idle", "initCommands", "initDone", "pinOff", "dead", "exit"}

\* Where a thread that timed out is: at at_close, in the setRadioState that
\* follows, in the poll inside that, or at exit.
EndPlaces == {"closing", "closed", "exit", "set", "compare"}
             \union {"notify", "isReady", "isNotReady", "simReady"}
             \union {"poll", "simStatus", "cpinQuery"}

\* Thread t in place r: a reader asks only for the states that at_close and the
\* poll end in.
Sound(t, r) ==
    /\ r.then \in Returns
    /\ r.then = "exit" => r.at \in EndPlaces
    /\ t # Main /\ r.at = "set" => r.state \notin {"OFF", "SIM_NOT_READY"}

\* Every thread is sound, and the filter starts with its first test.
CallInv ==
    /\ \A t \in Threads : Sound(t, th[t])
    /\ th[Main].at # "filter" => test = 1

\* t is sound after the step, and the only thread that moved.
Keeps(t) == Sound(t, th'[t]) /\ \A u \in Threads \ {t} : th'[u] = th[u]

\* A jump that is not a call of setRadioState keeps the thread sound.
LEMMA SoundGoto ==
    ASSUME TypeOK, NEW t \in Threads, Sound(t, th[t]), NEW p \in Places, Goto(t, p),
           p # "set", th[t].then = "exit" => p \in EndPlaces
    PROVE  Keeps(t) /\ th'[t].at = p /\ th'[t].then = th[t].then
  BY DEF TypeOK, ThreadTypes, Goto, Keeps, Sound

\* So does a call that returns to a known place.
LEMMA SoundCall ==
    ASSUME TypeOK, NEW t \in Threads, NEW s \in RadioStates, NEW p \in Returns, Call(t, s, p),
           t # Main => s \notin {"OFF", "SIM_NOT_READY"}
    PROVE  Keeps(t) /\ th'[t].at = "set" /\ th'[t].state = s /\ th'[t].then = p
  BY DEF TypeOK, ThreadTypes, Call, Keeps, Sound, EndPlaces

\* So does a jump that gives the thread a new place to return to.
LEMMA SoundThen ==
    ASSUME TypeOK, NEW t \in Threads, NEW p \in Places \ {"set"}, NEW q \in Returns,
           th' = [th EXCEPT ![t].at = p, ![t].then = q], q = "exit" => p \in EndPlaces
    PROVE  Keeps(t) /\ th'[t].at = p /\ th'[t].then = q
  BY DEF TypeOK, ThreadTypes, Keeps, Sound


\* None of them is a place where a call or a request starts.
LEMMA ReturnPlaces == Returns \subseteq Places \ {"set", "filter", "process", "unborn"}
  BY DEF Returns, Places

\* The steps of a thread inside setRadioState and pollSIMState, and of the end of
\* a session.
LEMMA InsideSound ==
    ASSUME TypeInv, CallInv, NEW t \in Threads,
           \/ Assign(t) \/ Compare(t) \/ Notify(t) \/ IsReady(t) \/ IsNotReady(t)
           \/ OnSIMReady(t) \/ PollSIMState(t) \/ Close(t)
    PROVE  Keeps(t) \/ (Exit(t) /\ th' = th)
<1>0. TypeOK /\ Sound(t, th[t]) /\ th[t].then \in Returns
      /\ th[t].then \in Places \ {"set", "filter", "process", "unborn"}
      /\ (th[t].then = "exit" => th[t].then \in EndPlaces)
  BY ReturnPlaces DEF TypeInv, CallInv, Sound, EndPlaces
<1>1. CASE Assign(t)
  BY <1>0, <1>1 DEF Assign, At, TypeOK, ThreadTypes, Keeps, Sound, EndPlaces
<1>2. CASE Compare(t)
  BY <1>0, <1>2 DEF Compare, Proceed, At, TypeOK, ThreadTypes, Keeps, Sound, EndPlaces
<1>3. CASE Notify(t) \/ IsReady(t) \/ IsNotReady(t) \/ OnSIMReady(t) \/ PollTest(t)
           \/ SimStatusTest(t) \/ AtClose(t)
  <2>1. \E p \in Places \ {"set"} :
           Goto(t, p) /\ (p \in EndPlaces \/ p = th[t].then)
    BY <1>0, <1>3 DEF Notify, IsReady, IsNotReady, OnSIMReady, PollTest, SimStatusTest,
       SchedulePoll, AtClose, EndPlaces, Places
  <2> QED  BY <1>0, <2>1, SoundGoto
<1>4. CASE PollAnswer(t)
  <2> PICK status \in SimAnswers :
        CASE status = "NOT_READY" -> SchedulePoll(t)
          [] status = "READY" -> Call(t, "SIM_READY", th[t].then) /\ UNCHANGED polls
          [] OTHER -> Call(t, "SIM_LOCKED_OR_ABSENT", th[t].then) /\ UNCHANGED polls
    BY <1>4 DEF PollAnswer
  <2>1. \/ Goto(t, th[t].then)
        \/ \E s \in {"SIM_READY", "SIM_LOCKED_OR_ABSENT"} : Call(t, s, th[t].then)
    BY DEF SchedulePoll
  <2>2. CASE Goto(t, th[t].then)  BY <1>0, <2>2, SoundGoto
  <2>3. CASE \E s \in {"SIM_READY", "SIM_LOCKED_OR_ABSENT"} : Call(t, s, th[t].then)
    BY <1>0, <2>3, SoundCall DEF RadioStates
  <2> QED  BY <2>1, <2>2, <2>3
<1>5. CASE SetClosed(t)
  BY <1>0, <1>5, SoundCall DEF SetClosed, RadioStates
<1>6. CASE Exit(t)
  BY <1>6 DEF Exit
<1> QED  BY <1>1, <1>2, <1>3, <1>4, <1>5, <1>6 DEF PollSIMState, Close

\* The steps of the main thread's handlers.
LEMMA HandlersSound ==
    ASSUME TypeInv, CallInv, Handlers \/ Request \/ TimedOut
    PROVE  Keeps(Main) /\ Main \in Threads
<1>0. TypeOK /\ Main \in Threads /\ Sound(Main, th[Main])
  BY DEF TypeInv, CallInv, Threads
<1>1. CASE RunPoll \/ Request \/ TimedOut
  <2>1. \E p \in Places \ {"set"}, q \in Returns :
           /\ th' = [th EXCEPT ![Main].at = p, ![Main].then = q]
           /\ q = "exit" => p \in EndPlaces
    BY <1>1 DEF RunPoll, Request, TimedOut, Begin, Returns, Places, EndPlaces
  <2> QED  BY <1>0, <2>1, SoundThen
<1>2. ASSUME Handlers, ~RunPoll
      PROVE  Keeps(Main)
  <2>1. th[Main].then # "exit"
    <3>1. th[Main].at \in {"idle", "initCommands", "initDone", "filter", "process", "powerOff",
                           "powerOn", "pppdDown", "cfun0", "cfun1", "getRadioPower", "pinStatus",
                           "pinQuery", "pin", "pinAccepted", "pinOff"}
      BY <1>2 DEF Handlers, RunInit, InitCommands, InitDone, Filter, Process,
         RadioPowerOff, RadioPowerOn, PppdDown, CFun0, CFun1, GetRadioPower, PinStatusTest,
         PinStatus, Pin, PinAccepted, PinReady, At
    <3> QED  BY <1>0, <3>1 DEF Sound, EndPlaces
  <2>2. CASE RunInit \/ InitCommands \/ PinAccepted \/ PinReady
    <3>1. \E s \in RadioStates, p \in Returns : Call(Main, s, p)
      BY <2>2 DEF RunInit, InitCommands, PinAccepted, PinReady, Returns, RadioStates
    <3> QED  BY <1>0, <3>1, SoundCall
  <2>3. CASE InitDone \/ Filter \/ Process \/ RadioPowerOn \/ PinStatusTest \/ PinStatus \/ Pin
    <3>1. \E p \in Places \ {"set"} : Goto(Main, p)
      BY <2>3 DEF InitDone, Filter, Process, RadioPowerOn, PinStatusTest, PinStatus, Pin, Places
    <3> QED  BY <1>0, <2>1, <3>1, SoundGoto
  <2>4. CASE RadioPowerOff \/ PppdDown \/ CFun0 \/ CFun1 \/ GetRadioPower
    <3>1. \/ \E p \in Places \ {"set"} : Goto(Main, p)
          \/ \E s \in RadioStates : Call(Main, s, "idle")
      BY <2>4 DEF RadioPowerOff, PppdDown, CFun0, CFun1, GetRadioPower, Places, RadioStates
    <3>2. "idle" \in Returns  BY DEF Returns
    <3> QED  BY <1>0, <2>1, <3>1, <3>2, SoundGoto, SoundCall
  <2> QED  BY <1>2, <2>2, <2>3, <2>4 DEF Handlers
<1> QED  BY <1>0, <1>1, <1>2

\* The reader's end, and the start of the next one.
LEMMA ReaderSound ==
    ASSUME TypeInv, CallInv, NEW t \in Readers, ReaderEof(t)
    PROVE  Keeps(t) /\ t \in Threads
<1>1. TypeOK /\ t \in Threads  BY DEF TypeInv, Threads
<1> DEFINE p == IF open THEN "closing" ELSE "dead"
<1>2. th' = [th EXCEPT ![t].at = p, ![t].then = "dead"]  BY DEF ReaderEof
<1>3. p \in Places \ {"set"} /\ "dead" \in Returns  BY DEF Places, Returns
<1> HIDE DEF p
<1> QED  BY <1>1, <1>2, <1>3, SoundThen

\* at_open lets a reader run that was not there before.
LEMMA OpenSound ==
    ASSUME TypeInv, CallInv, AtOpen
    PROVE  /\ session + 1 \in Readers /\ Keeps(session + 1)
           /\ th[session + 1].at = "unborn" /\ ~Ending(session + 1)
<1>0. TypeOK /\ SessionInv  BY DEF TypeInv
<1>1. session + 1 \in Readers /\ session + 1 > session
  BY <1>0, RadioAssumption DEF AtOpen, AtLoop, TypeOK, RadioTypes, SessionInv, Readers
<1>2. th[session + 1].at = "unborn" /\ session + 1 \in Threads
  BY <1>0, <1>1 DEF SessionInv, Threads
<1>3. Sound(session + 1, th[session + 1])  BY <1>2 DEF CallInv
<1>4. th[session + 1].then # "exit"  BY <1>2, <1>3 DEF Sound, EndPlaces
<1>5. Goto(session + 1, "read") /\ "read" \in Places /\ "read" # "set"
  BY DEF AtOpen, Places
<1> QED  BY <1>0, <1>1, <1>2, <1>3, <1>4, <1>5, SoundGoto DEF Ending

\* Inside setRadioState, and at the end of a session, the main thread is not at the
\* filter, and does not come to it.
LEMMA InsideElsewhere ==
    ASSUME TypeInv, CallInv, ThreadStep(Main)
    PROVE  /\ th[Main].at \notin {"filter", "process"}
           /\ th'[Main].at \notin {"filter", "process"}
<1>0. TypeOK /\ Main \in Threads /\ th[Main].then \notin {"filter", "process"}
  BY ReturnPlaces DEF TypeInv, Threads, CallInv, Sound
<1>1. th[Main].at \notin {"filter", "process"}
  BY DEF ThreadStep, SetRadioState, PollSIMState, Close, Assign, Compare, Notify, IsReady,
     IsNotReady, OnSIMReady, PollTest, SimStatusTest, PollAnswer, AtClose, SetClosed, Exit, At
<1>2. CASE Assign(Main) \/ Compare(Main) \/ SetClosed(Main) \/ Exit(Main)
  BY <1>0, <1>1, <1>2 DEF Assign, Compare, SetClosed, Exit, Proceed, Call, TypeOK, ThreadTypes
<1>3. CASE \/ Notify(Main) \/ IsReady(Main) \/ IsNotReady(Main) \/ OnSIMReady(Main)
           \/ AtClose(Main) \/ PollTest(Main) \/ SimStatusTest(Main)
  BY <1>0, <1>1, <1>3 DEF Notify, IsReady, IsNotReady, OnSIMReady, AtClose, PollTest,
     SimStatusTest, SchedulePoll, Goto, TypeOK, ThreadTypes
<1>4. CASE PollAnswer(Main)
  <2> PICK status \in SimAnswers :
        CASE status = "NOT_READY" -> SchedulePoll(Main)
          [] status = "READY" -> Call(Main, "SIM_READY", th[Main].then) /\ UNCHANGED polls
          [] OTHER -> Call(Main, "SIM_LOCKED_OR_ABSENT", th[Main].then) /\ UNCHANGED polls
    BY <1>4 DEF PollAnswer
  <2>1. \/ Goto(Main, th[Main].then)
        \/ \E s \in RadioStates : Call(Main, s, th[Main].then)
    BY DEF SchedulePoll, RadioStates
  <2> QED  BY <1>0, <1>1, <2>1 DEF Goto, Call, TypeOK, ThreadTypes
<1> QED  BY <1>1, <1>2, <1>3, <1>4 DEF ThreadStep, SetRadioState, PollSIMState, Close

\* Nor do the other handlers bring it there.
LEMMA HandlersElsewhere ==
    ASSUME TypeInv, (Handlers /\ ~Filter) \/ TimedOut
    PROVE  th'[Main].at \notin {"filter", "process"}
<1>0. TypeOK /\ Main \in Threads  BY DEF TypeInv, Threads
<1>1. CASE RunPoll \/ TimedOut
  BY <1>0, <1>1 DEF RunPoll, TimedOut, Begin, TypeOK, ThreadTypes
<1>2. CASE RunInit \/ InitCommands \/ PinAccepted \/ PinReady
  BY <1>0, <1>2 DEF RunInit, InitCommands, PinAccepted, PinReady, Call, TypeOK, ThreadTypes
<1>3. CASE InitDone \/ Process \/ RadioPowerOn \/ PinStatusTest \/ PinStatus \/ Pin
  <2>1. \E p \in Places \ {"filter", "process"} : Goto(Main, p)
    BY <1>3 DEF InitDone, Process, RadioPowerOn, PinStatusTest, PinStatus, Pin, Places
  <2> QED  BY <1>0, <2>1 DEF Goto, TypeOK, ThreadTypes
<1>4. CASE RadioPowerOff \/ PppdDown \/ CFun0 \/ CFun1 \/ GetRadioPower
  <2>1. \/ \E p \in Places \ {"filter", "process"} : Goto(Main, p)
        \/ \E s \in RadioStates : Call(Main, s, "idle")
    BY <1>4 DEF RadioPowerOff, PppdDown, CFun0, CFun1, GetRadioPower, Places, RadioStates
  <2> QED  BY <1>0, <2>1 DEF Goto, Call, TypeOK, ThreadTypes
<1> QED  BY <1>1, <1>2, <1>3, <1>4 DEF Handlers

\* Every step keeps CallInv.
LEMMA CallStep == ASSUME TypeInv, CallInv, [Next]_vars PROVE CallInv'
<1>1. ASSUME NEW t \in Threads, Keeps(t) PROVE \A u \in Threads : Sound(u, th'[u])
  BY <1>1 DEF Keeps, CallInv
<1>2. ASSUME NEW t \in Threads, ThreadStep(t)
      PROVE  CallInv'
  <2>1. \A u \in Threads : Sound(u, th'[u])
    <3>1. Keeps(t) \/ th' = th
      BY <1>2, InsideSound DEF ThreadStep, SetRadioState
    <3> QED  BY <1>1, <3>1 DEF CallInv
  <2>2. test' = test /\ (th'[Main].at = "filter" <=> th[Main].at = "filter")
    <3>1. test' = test
      BY <1>2 DEF ThreadStep, SetRadioState, PollSIMState, Close, Assign, Compare, Notify, IsReady,
         IsNotReady, OnSIMReady, PollTest, SimStatusTest, PollAnswer, AtClose, SetClosed, Exit,
         mainVars
    <3>2. CASE t # Main
      <4>1. Keeps(t) \/ th' = th  BY <1>2, InsideSound DEF ThreadStep, SetRadioState
      <4> QED  BY <3>1, <3>2, <4>1 DEF Keeps, Threads
    <3>3. CASE t = Main
      BY <1>2, <3>1, <3>3, InsideElsewhere
    <3> QED  BY <3>1, <3>2, <3>3
  <2> QED  BY <2>1, <2>2 DEF CallInv
<1>3. CASE \E t \in Readers : ReaderEof(t)
  <2> PICK t \in Readers : ReaderEof(t)  BY <1>3
  <2>1. Keeps(t) /\ t \in Threads  BY ReaderSound
  <2>2. test' = test /\ th'[Main] = th[Main]
    <3>1. Main \in Threads \ {t}  BY DEF Threads, Readers, Main
    <3> QED  BY <2>1, <3>1 DEF ReaderEof, mainVars, Keeps
  <2> QED  BY <1>1, <2>1, <2>2 DEF CallInv
<1>4. CASE Handlers \/ Request \/ TimedOut
  <2>1. \A u \in Threads : Sound(u, th'[u])  BY <1>1, <1>4, HandlersSound
  <2>2. th'[Main].at # "filter" => test' = 1
    <3>1. TypeOK /\ Main \in Threads  BY DEF TypeInv, Threads
    <3>2. CASE Filter \/ Process
      BY <3>1, <3>2 DEF Filter, Process, At, Goto, TypeOK, ThreadTypes, CallInv
    <3>3. CASE Request
      BY <3>1, <3>3 DEF Request, Begin, At, TypeOK, ThreadTypes, CallInv
    <3>4. CASE ~(Filter \/ Process \/ Request)
      <4>1. test' = test /\ th[Main].at # "filter"
        BY <1>4, <3>4 DEF Handlers, RunPoll, RunInit, InitCommands, InitDone,
           RadioPowerOff, RadioPowerOn, PppdDown, CFun0, CFun1, GetRadioPower, PinStatusTest,
           PinStatus, Pin, PinAccepted, PinReady, TimedOut, CommandPlaces, At, mainVars
      <4> QED  BY <4>1 DEF CallInv
    <3> QED  BY <3>2, <3>3, <3>4
  <2> QED  BY <2>1, <2>2 DEF CallInv
<1>5. CASE AtOpen
  <2>1. session + 1 \in Threads /\ Keeps(session + 1) /\ session + 1 # Main
    BY <1>5, OpenSound DEF Threads, Readers, Main
  <2>2. test' = test /\ th'[Main] = th[Main]
    BY <1>5, <2>1 DEF AtOpen, Keeps, Threads
  <2> QED  BY <1>1, <2>1, <2>2 DEF CallInv
<1>6. CASE OpenDevice \/ OpenFails \/ WaitForClose \/ SpuriousWakeup \/ Exited \/ UNCHANGED vars
  <2>1. th' = th /\ test' = test
    BY <1>6 DEF OpenDevice, OpenFails, WaitForClose, SpuriousWakeup, Exited, vars, mainVars
  <2> QED  BY <2>1 DEF CallInv
<1> QED  BY <1>2, <1>3, <1>4, <1>5, <1>6 DEF Next, MainLoop

\* CallInv holds of the initial states.
LEMMA CallInit == ASSUME Init PROVE CallInv
<1>1. Main \in Threads /\ th[Main].at = "idle"  BY DEF Init, Threads
<1>2. \A t \in Threads : th[t].then = "idle" /\ th[t].at # "set"
  BY DEF Init
<1> QED  BY <1>1, <1>2 DEF Init, CallInv, Sound, Returns

-----------------------------------------------------------------------------
(* The SIM that is not ready.                                                 *)

\* t will change the state, poll it, or end the process.
Polls(t) ==
    \/ th[t].at \in Notifying \union Polling \/ Ending(t)
    \/ th[t].at = "compare" /\ th[t].state # sState
    \/ th[t].at = "set" /\ th[t].state # "SIM_NOT_READY"

\* One thread moves, polls are not used up, and the thread that moves still
\* answers for the poll if it did before.
LEMMA PollKept ==
    ASSUME NotReadyIsPolled, sState = "SIM_NOT_READY", process = "runs", sState' = sState,
           NEW t \in Threads, \A u \in Threads \ {t} : th'[u] = th[u],
           polls' = polls, Polls(t) => Polls(t)'
    PROVE  NotReadyIsPolled'
  BY DEF NotReadyIsPolled, Polls, Ending

\* SIM_NOT_READY never lasts for want of a poll.
LEMMA PolledStep ==
    ASSUME TypeInv, CallInv, NotReadyIsPolled, [Next]_vars PROVE NotReadyIsPolled'
<1> SUFFICES ASSUME sState' = "SIM_NOT_READY", process' = "runs" PROVE NotReadyIsPolled'
  BY DEF NotReadyIsPolled
<1>0. TypeOK /\ \A t \in Threads : Sound(t, th[t])  BY DEF TypeInv, CallInv
<1>w. ASSUME NEW t \in Threads, Polls(t)' PROVE NotReadyIsPolled'
  BY <1>w DEF NotReadyIsPolled, Polls, Ending
<1>p. process = "runs"
  BY DEF Next, ThreadStep, SetRadioState, PollSIMState, Close, Assign, Compare, Notify, IsReady,
     IsNotReady, OnSIMReady, PollTest, SimStatusTest, PollAnswer, AtClose, SetClosed, Exit,
     ReaderEof, Handlers, RunPoll, RunInit, InitCommands, InitDone, Filter, Process,
     RadioPowerOff, RadioPowerOn, PppdDown, CFun0, CFun1, GetRadioPower, PinStatusTest,
     PinStatus, Pin, PinAccepted, PinReady, Request, TimedOut, MainLoop, OpenDevice, OpenFails,
     AtOpen, WaitForClose, SpuriousWakeup, Exited, At, AtLoop, vars
<1>1. ASSUME NEW t \in Threads, Assign(t)
      PROVE  NotReadyIsPolled'
  <2>1. th'[t].then = th[t].then /\ polls' = polls
    BY <1>0, <1>1 DEF Assign, At, TypeOK, ThreadTypes, mainVars
  <2>2. CASE sState = "SIM_NOT_READY"
    <3>1. Polls(t) => Polls(t)'
      <4>1. th[t].state = "SIM_NOT_READY"  BY <1>1, AssignFacts DEF NewState
      <4> QED  BY <1>1, <2>1, <4>1, AssignFacts DEF Polls, Ending, Notifying, Polling
    <3> QED  BY <1>1, <1>p, <2>1, <2>2, <3>1, AssignFacts, PollKept
  <2>3. CASE sState # "SIM_NOT_READY"
    BY <1>1, <1>w, <2>3, AssignFacts DEF Polls
  <2> QED  BY <2>2, <2>3
<1>2. ASSUME NEW t \in Threads, Compare(t)
      PROVE  NotReadyIsPolled'
  <2>1. th'[t].then = th[t].then /\ polls' = polls
    BY <1>0, <1>2 DEF Compare, Proceed, At, TypeOK, ThreadTypes, mainVars
  <2>2. Polls(t) => Polls(t)'
    BY <1>2, <2>1, CompareFacts DEF Polls, Ending, Notifying, Polling
  <2> QED  BY <1>2, <1>p, <2>1, <2>2, CompareFacts, PollKept
<1>3. ASSUME NEW t \in Threads, Notify(t)
      PROVE  NotReadyIsPolled'
  <2>1. th'[t].at = "isReady"
    BY <1>0, <1>3 DEF Notify, Goto, TypeOK, ThreadTypes
  <2> QED  BY <1>w, <2>1 DEF Polls, Polling
<1>4. ASSUME NEW t \in Threads, SetClosed(t)
      PROVE  NotReadyIsPolled'
  BY <1>4, <1>w, SetClosedFacts DEF Polls
<1>5. CASE Quiet
  <2>0. sState = "SIM_NOT_READY" /\ sState' = sState  BY <1>5, QuietRadio
  <2>1. ASSUME NEW t \in Threads, IsReady(t) \/ IsNotReady(t) \/ PollTest(t) \/ SimStatusTest(t)
        PROVE  NotReadyIsPolled'
    <3>1. th'[t].at \in Polling
      BY <1>0, <2>0, <2>1 DEF IsReady, IsNotReady, PollTest, SimStatusTest, Goto, TypeOK,
         ThreadTypes, Polling
    <3> QED  BY <1>w, <3>1 DEF Polls
  <2>2. ASSUME NEW t \in Threads, PollAnswer(t)
        PROVE  NotReadyIsPolled'
    <3> PICK status \in SimAnswers :
          CASE status = "NOT_READY" -> SchedulePoll(t)
            [] status = "READY" -> Call(t, "SIM_READY", th[t].then) /\ UNCHANGED polls
            [] OTHER -> Call(t, "SIM_LOCKED_OR_ABSENT", th[t].then) /\ UNCHANGED polls
      BY <2>2 DEF PollAnswer
    <3>1. \/ SchedulePoll(t)
          \/ \E s \in {"SIM_READY", "SIM_LOCKED_OR_ABSENT"} : Call(t, s, th[t].then)
      OBVIOUS
    <3>2. CASE SchedulePoll(t)
      BY <1>0, <3>2 DEF SchedulePoll, TypeOK, MainTypes, NotReadyIsPolled
    <3>3. CASE \E s \in {"SIM_READY", "SIM_LOCKED_OR_ABSENT"} : Call(t, s, th[t].then)
      BY <1>0, <1>w, <3>3 DEF Call, TypeOK, ThreadTypes, Polls
    <3> QED  BY <3>1, <3>2, <3>3
  <2>3. ASSUME NEW t \in Threads, OnSIMReady(t) \/ AtClose(t)
        PROVE  NotReadyIsPolled'
    <3>1. /\ th[t].at \in {"simReady", "closing"} /\ th'[t].then = th[t].then
          /\ polls' = polls /\ \A u \in Threads \ {t} : th'[u] = th[u]
      BY <1>0, <2>3 DEF OnSIMReady, AtClose, At, Goto, TypeOK, ThreadTypes, mainVars
    <3>2. Polls(t) => Polls(t)'  BY <3>1 DEF Polls, Ending, Notifying, Polling
    <3> QED  BY <1>p, <2>0, <3>1, <3>2, PollKept
  <2>4. ASSUME NEW t \in Threads, Exit(t)
        PROVE  NotReadyIsPolled'
    BY <2>4 DEF Exit
  <2>5. ASSUME NEW t \in Readers, ReaderEof(t)
        PROVE  NotReadyIsPolled'
    <3>1. t \in Threads /\ Keeps(t) /\ th[t].at = "read" /\ polls' = polls
      BY <2>5, ReaderSound DEF ReaderEof, At, mainVars
    <3>2. ~Polls(t)
      BY <1>0, <3>1 DEF Polls, Sound, Ending, Notifying, Polling, EndPlaces
    <3> QED  BY <1>p, <2>0, <3>1, <3>2, PollKept DEF Keeps
  <2>6. CASE TimedOut
    BY <1>0, <1>w, <2>6 DEF TimedOut, TypeOK, ThreadTypes, Threads, Polls, Ending
  <2>7. CASE RunPoll
    BY <1>0, <1>w, <2>7 DEF RunPoll, Begin, TypeOK, ThreadTypes, Threads, Polls, Polling
  <2>8. CASE (Handlers /\ ~RunPoll) \/ Request
    <3>1. /\ polls' = polls
          /\ th[Main].at \in {"idle", "initCommands", "initDone", "filter", "process", "powerOff",
                              "powerOn", "pppdDown", "cfun0", "cfun1", "getRadioPower",
                              "pinStatus", "pinQuery", "pin", "pinAccepted", "pinOff"}
      BY <2>8 DEF Handlers, RunInit, InitCommands, InitDone, Filter, Process, Request,
         RadioPowerOff, RadioPowerOn, PppdDown, CFun0, CFun1, GetRadioPower, PinStatusTest,
         PinStatus, Pin, PinAccepted, PinReady, At, mainVars
    <3>2. Keeps(Main) /\ Main \in Threads  BY <2>8, HandlersSound
    <3>3. ~Polls(Main)
      BY <1>0, <3>1, <3>2 DEF Polls, Sound, Ending, Notifying, Polling, EndPlaces
    <3> QED  BY <1>p, <2>0, <3>1, <3>2, <3>3, PollKept DEF Keeps
  <2>9. CASE AtOpen
    <3>1. session + 1 \in Threads /\ Keeps(session + 1) /\ polls' = polls
      BY <2>9, OpenSound DEF AtOpen, Threads
    <3>2. ~Polls(session + 1)
      BY <2>9, OpenSound DEF Polls, Notifying, Polling
    <3> QED  BY <1>p, <2>0, <3>1, <3>2, PollKept DEF Keeps
  <2>10. CASE OpenDevice \/ OpenFails \/ WaitForClose \/ SpuriousWakeup \/ Exited
    <3>1. th' = th /\ polls' = polls
      BY <2>10 DEF OpenDevice, OpenFails, WaitForClose, SpuriousWakeup, Exited, vars, mainVars
    <3> QED  BY <1>p, <2>0, <3>1 DEF NotReadyIsPolled, Ending
  <2> QED
    BY <1>5, <2>1, <2>2, <2>3, <2>4, <2>5, <2>6, <2>7, <2>8, <2>9, <2>10
    DEF Quiet, PollSIMState, MainLoop
<1>6. CASE UNCHANGED vars
  BY <1>6 DEF NotReadyIsPolled, Ending, vars, radioVars, mainVars
<1> QED  BY <1>1, <1>2, <1>3, <1>4, <1>5, <1>6, NextCases DEF Announce

\* The SIM is polled until the radio leaves SIM_NOT_READY, whichever threads call
\* setRadioState meanwhile.
THEOREM PolledTheorem == Spec => []NotReadyIsPolled
<1>1. Init => NotReadyIsPolled  BY DEF Init, NotReadyIsPolled
<1> QED  BY <1>1, TypeInit, TypeStep, CallInit, CallStep, PolledStep, PTL DEF Spec

-----------------------------------------------------------------------------
(* The radio after the initialisation.                                        *)

\* mainLoop is inside a session.
InSession == loop \in {"check", "wait"} /\ s_closed = 0

\* In an open session only a reader of an earlier one, or a main thread that timed
\* out in an earlier one, is about to make the radio unavailable.
LateClosers ==
    InSession =>
        \A t \in Threads :
            th[t].at = "set" /\ th[t].state = "UNAVAILABLE" =>
                IF t = Main THEN inited = "no" ELSE t < session

\* Once initializeCallback has run its first setRadioState, only a late reader
\* makes the radio unavailable.
UpSince ==
    InSession /\ inited # "no" /\ sState = "UNAVAILABLE" =>
        late \/ (inited = "runs" /\ th[Main].at = "set" /\ th[Main].state # "UNAVAILABLE")

UpInv == LateClosers /\ UpSince

\* A quiet step does not open a session but in AtOpen.
LEMMA QuietSame ==
    ASSUME Quiet
    PROVE  /\ late' = late
           /\ AtOpen \/ (session' = session /\ (InSession' => InSession))
           /\ AtOpen \/ inited' = inited \/ RunInit \/ InitDone
<1>1. CASE \/ \E t \in Threads : \/ IsReady(t) \/ IsNotReady(t) \/ OnSIMReady(t)
                                \/ PollSIMState(t) \/ AtClose(t) \/ Exit(t)
           \/ \E t \in Readers : ReaderEof(t)
           \/ TimedOut \/ Exited
  BY <1>1 DEF IsReady, IsNotReady, OnSIMReady, PollSIMState, PollTest, SimStatusTest, PollAnswer,
     AtClose, Exit, ReaderEof, TimedOut, Exited, vars, radioVars, history, InSession
<1>2. CASE Handlers \/ Request
  BY <1>2 DEF Handlers, RunPoll, RunInit, InitCommands, InitDone, Filter, Process,
     RadioPowerOff, RadioPowerOn, PppdDown, CFun0, CFun1, GetRadioPower, PinStatusTest,
     PinStatus, Pin, PinAccepted, PinReady, Request, radioVars, history, InSession
<1>3. CASE MainLoop
  BY <1>3 DEF MainLoop, OpenDevice, OpenFails, AtOpen, WaitForClose, SpuriousWakeup, AtLoop, vars,
     radioVars, history, InSession
<1> QED  BY <1>1, <1>2, <1>3 DEF Quiet

\* A thread that a quiet step brings to setRadioState does not ask for UNAVAILABLE.
LEMMA QuietCalls ==
    ASSUME TypeInv, CallInv, Quiet, NEW t \in Threads,
           th'[t].at = "set", th'[t].state = "UNAVAILABLE"
    PROVE  th[t] = th'[t]
<1>0. TypeOK /\ Main \in Threads /\ \A u \in Threads : th[u].then # "set"
  BY ReturnPlaces DEF TypeInv, Threads, CallInv, Sound
<1>1. ASSUME NEW u \in Threads, IsReady(u) \/ IsNotReady(u) \/ OnSIMReady(u) \/ PollTest(u)
             \/ SimStatusTest(u) \/ AtClose(u) \/ Exit(u)
      PROVE  th[t] = th'[t]
  BY <1>0, <1>1 DEF IsReady, IsNotReady, OnSIMReady, PollTest, SimStatusTest, SchedulePoll,
     AtClose, Exit, Goto, TypeOK, ThreadTypes
<1>2. ASSUME NEW u \in Threads, PollAnswer(u)
      PROVE  th[t] = th'[t]
  <2> PICK status \in SimAnswers :
        CASE status = "NOT_READY" -> SchedulePoll(u)
          [] status = "READY" -> Call(u, "SIM_READY", th[u].then) /\ UNCHANGED polls
          [] OTHER -> Call(u, "SIM_LOCKED_OR_ABSENT", th[u].then) /\ UNCHANGED polls
    BY <1>2 DEF PollAnswer
  <2>1. \/ Goto(u, th[u].then)
        \/ Call(u, "SIM_READY", th[u].then)
        \/ Call(u, "SIM_LOCKED_OR_ABSENT", th[u].then)
    BY DEF SchedulePoll
  <2> QED  BY <1>0, <2>1 DEF Goto, Call, TypeOK, ThreadTypes
<1>3. CASE \E u \in Readers : ReaderEof(u)
  BY <1>0, <1>3 DEF ReaderEof, TypeOK, ThreadTypes
<1>4. CASE RunPoll \/ Request \/ TimedOut
  BY <1>0, <1>4 DEF RunPoll, Request, TimedOut, Begin, TypeOK, ThreadTypes
<1>5. CASE RunInit \/ InitCommands \/ PinAccepted \/ PinReady
  BY <1>0, <1>5 DEF RunInit, InitCommands, PinAccepted, PinReady, Call, TypeOK, ThreadTypes
<1>6. CASE InitDone \/ Filter \/ Process \/ RadioPowerOn \/ PinStatusTest \/ PinStatus \/ Pin
  <2>1. \E p \in Places \ {"set"} : Goto(Main, p)
    BY <1>6 DEF InitDone, Filter, Process, RadioPowerOn, PinStatusTest, PinStatus, Pin, Places
  <2> QED  BY <1>0, <2>1 DEF Goto, TypeOK, ThreadTypes
<1>7. CASE RadioPowerOff \/ PppdDown \/ CFun0 \/ CFun1 \/ GetRadioPower
  <2>1. \/ \E p \in Places \ {"set"} : Goto(Main, p)
        \/ \E s \in {"OFF", "SIM_NOT_READY"} : Call(Main, s, "idle")
    BY <1>7 DEF RadioPowerOff, PppdDown, CFun0, CFun1, GetRadioPower, Places
  <2> QED  BY <1>0, <2>1 DEF Goto, Call, TypeOK, ThreadTypes
<1>8. CASE AtOpen
  BY <1>0, <1>8 DEF AtOpen, Goto, TypeOK, ThreadTypes
<1>9. CASE OpenDevice \/ OpenFails \/ WaitForClose \/ SpuriousWakeup \/ Exited
  BY <1>9 DEF OpenDevice, OpenFails, WaitForClose, SpuriousWakeup, Exited, vars
<1> QED
  BY <1>1, <1>2, <1>3, <1>4, <1>5, <1>6, <1>7, <1>8, <1>9
  DEF Quiet, PollSIMState, Handlers, MainLoop

\* A reader that is about to call setRadioState belongs to a session.
LEMMA SetterSession ==
    ASSUME TypeInv, NEW t \in Readers, th[t].at = "set" PROVE t <= session
  BY RadioAssumption DEF TypeInv, TypeOK, RadioTypes, SessionInv, Readers

\* Every step keeps LateClosers.
LEMMA LateStep ==
    ASSUME TypeInv, CallInv, LateClosers, [Next]_vars PROVE LateClosers'
<1> USE DEF LateClosers
<1>0. TypeOK  BY DEF TypeInv
<1>1. CASE Quiet /\ ~AtOpen
  <2> SUFFICES ASSUME InSession', NEW t \in Threads, th'[t].at = "set", th'[t].state = "UNAVAILABLE"
               PROVE  IF t = Main THEN inited' = "no" ELSE t < session'
    OBVIOUS
  <2>1. InSession /\ session' = session /\ th[t] = th'[t]
    BY <1>1, QuietSame, QuietCalls
  <2>2. t = Main => inited' = inited
    <3>1. t = Main => ~RunInit /\ ~InitDone
      BY <2>1 DEF RunInit, InitDone, At
    <3> QED  BY <1>1, <3>1, QuietSame
  <2> QED  BY <2>1, <2>2
<1>2. CASE AtOpen
  <2> SUFFICES ASSUME NEW t \in Threads, th'[t].at = "set", th'[t].state = "UNAVAILABLE"
               PROVE  IF t = Main THEN inited' = "no" ELSE t < session'
    OBVIOUS
  <2>1. th[t] = th'[t] /\ inited' = "no" /\ session' = session + 1
    BY <1>2, QuietCalls DEF Quiet, MainLoop, AtOpen
  <2>2. t # Main => t \in Readers /\ t <= session
    BY <2>1, SetterSession DEF Threads
  <2> QED  BY <1>0, <2>1, <2>2 DEF TypeOK, RadioTypes, Readers
<1>3. ASSUME NEW u \in Threads, Announce(u), ~SetClosed(u)
      PROVE  LateClosers'
  <2>1. /\ session' = session /\ s_closed' = s_closed /\ inited' = inited
        /\ InSession' => InSession
    BY <1>3 DEF Announce, Assign, Compare, Notify, radioVars, history, InSession
  <2>2. th'[u].at # "set"
    <3>1. th[u].then # "set"  BY ReturnPlaces DEF CallInv, Sound
    <3> QED  BY <1>0, <1>3, <3>1 DEF Announce, Assign, Compare, Notify, Proceed, Goto, TypeOK, ThreadTypes
  <2>3. \A t \in Threads \ {u} : th'[t] = th[t]
    BY <1>3, AssignFacts, CompareFacts, NotifyFacts DEF Announce
  <2> QED  BY <2>1, <2>2, <2>3
<1>4. CASE \E t \in Threads : SetClosed(t)
  BY <1>4 DEF SetClosed, InSession
<1>5. CASE UNCHANGED vars
  BY <1>5 DEF vars, radioVars, history, InSession
<1> QED  BY <1>1, <1>2, <1>3, <1>4, <1>5, NextCases

\* Every step keeps UpSince: what LateClosers leaves to be assigned is late.
LEMMA SinceStep ==
    ASSUME TypeInv, CallInv, UpInv, [Next]_vars PROVE UpSince'
<1> USE DEF UpSince
<1>0. TypeOK /\ Main \in Threads  BY DEF TypeInv, Threads
<1>1. CASE Quiet
  <2>1. CASE AtOpen  BY <2>1 DEF AtOpen
  <2>2. CASE RunInit
    <3>1. th'[Main].at = "set" /\ th'[Main].state = "SIM_NOT_READY" /\ inited' = "runs"
      BY <1>0, <2>2 DEF RunInit, Call, TypeOK, ThreadTypes
    <3> QED  BY <3>1
  <2>3. CASE InitDone
    <3>1. th[Main].at # "set" /\ (inited' # "no" => inited # "no")
      BY <2>3 DEF InitDone, At
    <3>2. late' = late /\ (InSession' => InSession) /\ sState' = sState
      BY <2>3 DEF InitDone, radioVars, InSession
    <3> QED  BY <3>1, <3>2 DEF UpInv
  <2>4. CASE ~AtOpen /\ ~RunInit /\ ~InitDone
    <3>1. late' = late /\ (InSession' => InSession) /\ inited' = inited /\ sState' = sState
      BY <1>1, <2>4, QuietSame, QuietRadio
    <3>2. th[Main].at = "set" => th'[Main] = th[Main]
      BY <1>0, <1>1, QuietHolds DEF Holding
    <3> QED  BY <3>1, <3>2 DEF UpInv
  <2> QED  BY <2>1, <2>2, <2>3, <2>4
<1>2. ASSUME NEW t \in Threads, Assign(t)
      PROVE  UpSince'
  <2> SUFFICES ASSUME InSession', inited' # "no", sState' = "UNAVAILABLE"
               PROVE  late' \/ (inited' = "runs" /\ th'[Main].at = "set" /\ th'[Main].state # "UNAVAILABLE")
    OBVIOUS
  <2>1. /\ session' = session /\ s_closed = 0 /\ inited' = inited /\ InSession
        /\ late' = IF sState' # sState THEN t # Main /\ t < session ELSE late
    BY <1>2 DEF Assign, InSession
  <2>2. th[t].at = "set" /\ th[t].state = "UNAVAILABLE"
    BY <1>2, <2>1, AssignFacts DEF NewState
  <2>3. t # Main /\ t < session
    BY <2>1, <2>2 DEF UpInv, LateClosers
  <2>4. CASE sState' # sState  BY <2>1, <2>3, <2>4
  <2>5. CASE sState' = sState
    <3>1. th'[Main] = th[Main]  BY <1>0, <1>2, <2>3, AssignFacts
    <3> QED  BY <2>1, <2>5, <3>1 DEF UpInv
  <2> QED  BY <2>4, <2>5
<1>3. ASSUME NEW t \in Threads, Compare(t) \/ Notify(t)
      PROVE  UpSince'
  <2>1. /\ inited' = inited /\ late' = late /\ sState' = sState /\ (InSession' => InSession)
    BY <1>3 DEF Compare, Notify, radioVars, history, InSession
  <2>2. th[Main].at = "set" => th'[Main] = th[Main]
    BY <1>0, <1>3, CompareFacts, NotifyFacts
  <2> QED  BY <2>1, <2>2 DEF UpInv
<1>4. CASE \E t \in Threads : SetClosed(t)
  BY <1>4 DEF SetClosed, InSession
<1>5. CASE UNCHANGED vars
  BY <1>5 DEF vars, radioVars, history, InSession, UpInv
<1> QED  BY <1>1, <1>2, <1>3, <1>4, <1>5, NextCases DEF Announce

\* After a session's initialisation the radio of an open channel is up, unless the
\* reader of an earlier session came late.
THEOREM UpTheorem == Spec => []UpAfterInit
<1>1. Init => UpInv  BY DEF Init, UpInv, LateClosers, UpSince, InSession
<1>2. ASSUME TypeInv, CallInv, UpInv, [Next]_vars PROVE UpInv'
  BY <1>2, LateStep, SinceStep DEF UpInv
<1>3. UpInv => UpAfterInit  BY DEF UpInv, UpSince, UpAfterInit, InSession
<1> QED  BY <1>1, <1>2, <1>3, TypeInit, TypeStep, CallInit, CallStep, PTL DEF Spec

-----------------------------------------------------------------------------
(* The request filter.                                                        *)

\* What the tests made so far say of the states they read: the second read a state
\* other than UNAVAILABLE; and after the fourth, for all but RADIO_POWER, the radio
\* has been unavailable or ready, or is in a state that only the main thread turns
\* into OFF or SIM_NOT_READY.
Filtered ==
    th[Main].at = "filter" =>
        /\ test > 2 => \E s \in seen : s # "UNAVAILABLE"
        /\ test > 4 /\ req.code # "RADIO_POWER" =>
              "UNAVAILABLE" \in seen \/ "SIM_READY" \in seen
              \/ sState \notin {"OFF", "SIM_NOT_READY"}

FilterInv == Filtered /\ PassedOnlyIfAllowedOrClosed

\* Two states seen are more than one.
LEMMA TwoSeen ==
    ASSUME NEW S \in SUBSET RadioStates, NEW a \in S, NEW b \in S, a # b
    PROVE  Cardinality(S) > 1
<1>1. IsFiniteSet(RadioStates)
  <2>1. IsFiniteSet({"OFF"})  BY FS_Singleton
  <2>2. IsFiniteSet({"OFF"} \union {"UNAVAILABLE"})  BY <2>1, FS_AddElement
  <2>3. IsFiniteSet({"OFF", "UNAVAILABLE"} \union {"SIM_NOT_READY"})
    <3>1. {"OFF", "UNAVAILABLE"} = {"OFF"} \union {"UNAVAILABLE"}  OBVIOUS
    <3> QED  BY <2>2, <3>1, FS_AddElement
  <2>4. IsFiniteSet({"SIM_LOCKED_OR_ABSENT"} \union {"SIM_READY"})
    <3>1. IsFiniteSet({"SIM_LOCKED_OR_ABSENT"})  BY FS_Singleton
    <3> QED  BY <3>1, FS_AddElement
  <2>5. RadioStates = ({"OFF", "UNAVAILABLE"} \union {"SIM_NOT_READY"})
                      \union ({"SIM_LOCKED_OR_ABSENT"} \union {"SIM_READY"})
    BY DEF RadioStates
  <2> QED  BY <2>3, <2>4, <2>5, FS_Union
<1>2. IsFiniteSet(S)  BY <1>1, FS_Subset
<1>3. {a, b} \subseteq S /\ Cardinality({a, b}) = 2
  <2>1. {a, b} = {a} \union {b} /\ b \notin {a}  OBVIOUS
  <2>2. IsFiniteSet({a}) /\ Cardinality({a}) = 1  BY FS_Singleton
  <2>3. Cardinality({a} \union {b}) = Cardinality({a}) + 1  BY <2>1, <2>2, FS_AddElement
  <2>4. Cardinality({a, b}) = 2  BY <2>1, <2>2, <2>3
  <2>5. {a, b} \subseteq S  OBVIOUS
  <2> QED  BY <2>4, <2>5
<1>4. Cardinality({a, b}) <= Cardinality(S)  BY <1>2, <1>3, FS_Subset
<1>5. Cardinality(S) \in Nat  BY <1>2, FS_CardinalityType
<1> QED  BY <1>3, <1>4, <1>5

\* SIM_READY allows every request of the model, and RADIO_POWER is refused in
\* UNAVAILABLE only.
LEMMA Allowed ==
    ASSUME NEW r \in Requests \union {NoRequest}
    PROVE  /\ ~Refused("SIM_READY", r.code)
           /\ r.code = "RADIO_POWER" => \A s \in RadioStates \ {"UNAVAILABLE"} : ~Refused(s, r.code)
  BY DEF Requests, NoRequest, Refused, Refuses, Tests, RadioStates, NeedsReadySim, AllowedOff,
     AllowedNotReady, AllowedLocked

\* One test of the filter.
LEMMA FilterStep ==
    ASSUME TypeInv, FilterInv, Filter PROVE FilterInv'
<1>0. /\ TypeOK /\ Main \in Threads /\ th[Main].at = "filter" /\ sState' = sState
      /\ sState \in RadioStates /\ seen \subseteq RadioStates /\ test \in 1..5
      /\ req \in Requests \union {NoRequest}
  BY DEF TypeInv, Threads, Filter, At, radioVars, TypeOK, RadioTypes, HistoryTypes, MainTypes, Tests
<1>1. CASE Refuses(test, sState, req.code)
  <2>1. th'[Main].at = "idle"
    BY <1>0, <1>1 DEF Filter, Goto, TypeOK, ThreadTypes
  <2> QED  BY <2>1 DEF FilterInv, Filtered, PassedOnlyIfAllowedOrClosed
<1>2. CASE ~Refuses(test, sState, req.code)
  <2>0. seen' = seen \union {sState} /\ req' = req
    BY <1>2 DEF Filter
  <2>1. test > 1 => \E s \in seen' : s # "UNAVAILABLE"
    <3>1. CASE test = 2  BY <1>2, <2>0, <3>1 DEF Refuses
    <3>2. CASE test > 2  BY <1>0, <2>0, <3>2 DEF FilterInv, Filtered
    <3> QED  BY <1>0, <3>1, <3>2
  <2>2. CASE test < 5
    <3>1. test' = test + 1 /\ th'[Main].at = "filter"
      BY <1>0, <1>2, <2>2 DEF Filter, LastTest, Goto, TypeOK, ThreadTypes
    <3>2. test' > 4 /\ req'.code # "RADIO_POWER" =>
              "UNAVAILABLE" \in seen' \/ "SIM_READY" \in seen'
              \/ sState' \notin {"OFF", "SIM_NOT_READY"}
      <4>1. req.code # "RADIO_POWER" => req.code \notin AllowedNotReady
        BY <1>0 DEF Requests, NoRequest, AllowedNotReady
      <4>2. test' > 4 => test = 4  BY <1>0, <2>2, <3>1
      <4>3. test = 4 /\ req.code # "RADIO_POWER" => sState \notin {"OFF", "SIM_NOT_READY"}
        BY <1>2, <4>1 DEF Refuses
      <4> QED  BY <1>0, <2>0, <4>2, <4>3
    <3> QED  BY <1>0, <2>1, <3>1, <3>2 DEF FilterInv, Filtered, PassedOnlyIfAllowedOrClosed
  <2>3. CASE test = 5
    <3>1. th'[Main].at = "process"
      BY <1>0, <1>2, <2>3 DEF Filter, LastTest, Goto, TypeOK, ThreadTypes
    <3>2. seen' \subseteq RadioStates  BY <1>0, <2>0
    <3> SUFFICES ASSUME \A s \in seen' : Refused(s, req.code)
                 PROVE  "UNAVAILABLE" \in seen' /\ Cardinality(seen') > 1
      BY <2>0, <3>1 DEF FilterInv, Filtered, PassedOnlyIfAllowedOrClosed
    <3>3. PICK x \in seen' : x # "UNAVAILABLE"  BY <2>1, <2>3
    <3>4. req.code # "RADIO_POWER" /\ "SIM_READY" \notin seen'
      BY <1>0, <3>2, <3>3, Allowed
    <3>5. "UNAVAILABLE" \in seen'
      <4> SUFFICES ASSUME sState \notin {"OFF", "SIM_NOT_READY"}, sState # "UNAVAILABLE" PROVE FALSE
        BY <1>0, <2>0, <2>3, <3>4 DEF FilterInv, Filtered
      <4>1. sState = "SIM_LOCKED_OR_ABSENT"
        BY <1>0, <2>0, <3>4 DEF RadioStates
      <4>2. req.code \in AllowedLocked  BY <1>2, <2>3, <4>1 DEF Refuses
      <4>3. ~Refused("SIM_LOCKED_OR_ABSENT", req.code)
        BY <1>0, <4>2 DEF Requests, NoRequest, Refused, Refuses, Tests, NeedsReadySim, AllowedLocked
      <4> QED  BY <2>0, <4>1, <4>3
    <3> QED  BY <3>2, <3>3, <3>5, TwoSeen
  <2> QED  BY <1>0, <2>2, <2>3
<1> QED  BY <1>1, <1>2

\* The steps that leave the main thread, the filter and the state alone.
LEMMA FilterKept ==
    ASSUME FilterInv, UNCHANGED <<test, seen, req>>,
           th'[Main].at \in {"filter", "process"} => th'[Main].at = th[Main].at,
           \/ sState' = sState \/ sState' \notin {"OFF", "SIM_NOT_READY"}
           \/ th'[Main].at # "filter"
    PROVE  FilterInv'
  BY DEF FilterInv, Filtered, PassedOnlyIfAllowedOrClosed

\* Every step keeps FilterInv.
LEMMA FilterInvStep ==
    ASSUME TypeInv, CallInv, FilterInv, [Next]_vars PROVE FilterInv'
<1>0. TypeOK /\ Main \in Threads  BY DEF TypeInv, Threads
<1>1. CASE Filter  BY <1>1, FilterStep
<1>2. CASE Process
  <2>1. th'[Main].at \notin {"filter", "process"}
    BY <1>0, <1>2 DEF Process, Goto, TypeOK, ThreadTypes
  <2> QED  BY <2>1 DEF FilterInv, Filtered, PassedOnlyIfAllowedOrClosed
<1>3. CASE Request
  <2>1. th'[Main].at = "filter" /\ test' = 1
    BY <1>0, <1>3 DEF Request, Begin, At, TypeOK, ThreadTypes, CallInv
  <2> QED  BY <2>1 DEF FilterInv, Filtered, PassedOnlyIfAllowedOrClosed
<1>4. ASSUME NEW t \in Threads, ThreadStep(t)
      PROVE  FilterInv'
  <2>1. UNCHANGED <<test, seen, req>>
    BY <1>4 DEF ThreadStep, SetRadioState, PollSIMState, Close, Assign, Compare, Notify, IsReady,
       IsNotReady, OnSIMReady, PollTest, SimStatusTest, PollAnswer, AtClose, SetClosed, Exit,
       mainVars, history
  <2>2. Keeps(t) \/ th' = th  BY <1>4, InsideSound DEF ThreadStep, SetRadioState
  <2>3. CASE t = Main
    <3>1. th'[Main].at \notin {"filter", "process"}  BY <1>4, <2>3, InsideElsewhere
    <3> QED  BY <2>1, <3>1, FilterKept
  <2>4. CASE t # Main
    <3>1. th'[Main] = th[Main]  BY <1>0, <2>2, <2>4 DEF Keeps
    <3>2. sState' = sState \/ sState' \notin {"OFF", "SIM_NOT_READY"}
      <4>1. CASE Assign(t)
        BY <2>4, <4>1, AssignFacts DEF NewState, CallInv, Sound
      <4>2. CASE ~Assign(t)
        BY <1>4, <4>2 DEF ThreadStep, SetRadioState, PollSIMState, Close, Compare, Notify, IsReady,
           IsNotReady, OnSIMReady, PollTest, SimStatusTest, PollAnswer, AtClose, SetClosed, Exit,
           radioVars
      <4> QED  BY <4>1, <4>2
    <3> QED  BY <2>1, <3>1, <3>2, FilterKept
  <2> QED  BY <2>3, <2>4
<1>5. CASE (Handlers /\ ~Filter /\ ~Process) \/ TimedOut
  <2>1. UNCHANGED <<test, seen, req>>
    BY <1>5 DEF Handlers, RunPoll, RunInit, InitCommands, InitDone, RadioPowerOff, RadioPowerOn,
       PppdDown, CFun0, CFun1, GetRadioPower, PinStatusTest, PinStatus, Pin, PinAccepted, PinReady,
       TimedOut, mainVars, history
  <2>2. th'[Main].at \notin {"filter", "process"}  BY <1>5, HandlersElsewhere
  <2> QED  BY <2>1, <2>2, FilterKept
<1>6. CASE \E t \in Readers : ReaderEof(t)
  <2> PICK t \in Readers : ReaderEof(t)  BY <1>6
  <2>1. Main \in Threads \ {t}  BY DEF Threads, Readers, Main
  <2>2. th'[Main] = th[Main]  BY <2>1, ReaderSound DEF Keeps
  <2>3. UNCHANGED <<test, seen, req, sState>>
    BY DEF ReaderEof, mainVars, history, radioVars
  <2> QED  BY <2>2, <2>3, FilterKept
<1>7. CASE AtOpen
  <2>1. Main \in Threads \ {session + 1}  BY <1>7, OpenSound DEF Threads, Readers, Main
  <2>2. th'[Main] = th[Main]  BY <1>7, <2>1, OpenSound DEF Keeps
  <2>3. UNCHANGED <<test, seen, req, sState>>
    BY <1>7 DEF AtOpen
  <2> QED  BY <2>2, <2>3, FilterKept
<1>8. CASE OpenDevice \/ OpenFails \/ WaitForClose \/ SpuriousWakeup \/ Exited \/ UNCHANGED vars
  <2>1. th' = th /\ UNCHANGED <<test, seen, req, sState>>
    BY <1>8 DEF OpenDevice, OpenFails, WaitForClose, SpuriousWakeup, Exited, vars, mainVars, history,
       radioVars
  <2> QED  BY <2>1, FilterKept
<1> QED
  BY <1>1, <1>2, <1>3, <1>4, <1>5, <1>6, <1>7, <1>8 DEF Next, MainLoop

\* A request is let through only in a state that allows it, or when the channel
\* was closed while the filter read the state.
THEOREM PassedTheorem == Spec => []PassedOnlyIfAllowedOrClosed
<1>1. Init => FilterInv
  BY DEF Init, FilterInv, Filtered, PassedOnlyIfAllowedOrClosed, Threads
<1>2. FilterInv => PassedOnlyIfAllowedOrClosed  BY DEF FilterInv
<1> QED  BY <1>1, <1>2, TypeInit, TypeStep, CallInit, CallStep, FilterInvStep, PTL DEF Spec

=============================================================================

----------------------------- MODULE RadioState -----------------------------
(***************************************************************************)
(* The radio state of sxx-ril (sState, s_closed): the main thread, which   *)
(* initialises the modem, polls the SIM and serves requests; the reader    *)
(* thread of each session, whose last act is to make the radio             *)
(* unavailable; and mainLoop, which opens the next session.                *)
(*                                                                         *)
(* setRadioState is locked only while it assigns; everything it does       *)
(* afterwards reads sState again, so each of those reads is a step.        *)
(***************************************************************************)
EXTENDS Integers, FiniteSets, RequestFilter

CONSTANTS
    MaxSessions,    \* bound: how often mainLoop opens the channel
    MaxRequests,    \* bound: how many requests the framework makes
    MaxPolls        \* bound: how many polls of the SIM are scheduled

ASSUME RadioAssumption ==
    MaxSessions \in Nat \ {0} /\ MaxRequests \in Nat /\ MaxPolls \in Nat

Main    == 0                    \* rild's event thread
Readers == 1..MaxSessions       \* the reader thread of each session
Threads == {Main} \union Readers

\* The requests that touch the radio state, and one that does not.
Requests == {[code |-> "RADIO_POWER", onOff |-> 0], [code |-> "RADIO_POWER", onOff |-> 1],
             [code |-> "ENTER_SIM_PIN", onOff |-> 0], [code |-> "OPERATOR", onOff |-> 0]}
NoRequest == [code |-> "NONE", onOff |-> 0]

\* The modem detected at start-up: mh400b has a requestRadioPower of its own.
Modems == {"generic", "mh400b"}

(* Where a thread is.  The first line is setRadioState (and what it calls),  *)
(* the second pollSIMState, the third the reader, the others the main       *)
(* thread: its handlers, and onATTimeout.                                   *)
Places ==
    {"set", "compare", "notify", "isReady", "isNotReady", "simReady"}
    \union {"poll", "simStatus", "cpinQuery"}
    \union {"unborn", "read", "closing", "closed", "dead"}
    \union {"idle", "filter", "process", "initCommands", "initDone"}
    \union {"powerOff", "powerOn", "pppdDown", "cfun0", "cfun1", "getRadioPower"}
    \union {"pinStatus", "pinQuery", "pin", "pinAccepted", "pinOff", "timeout", "exit"}

VARIABLES
    sState,         \* the radio state
    s_closed,       \* 0 or 1
    open,           \* the channel takes commands (s_readerClosed == 0)
    session,        \* number of at_open calls
    loop,           \* mainLoop: "open", "at_open", "check", "wait"
    th,             \* thread -> [at, state, then]: the place; newState at "set" and
                    \* oldState at "compare"; the place setRadioState returns to
    inits, polls,   \* callbacks scheduled and not yet run
    req,            \* the request in the filter
    test,           \* the next test of the filter
    is_lock,        \* the local variable of requestEnterSimPin
    first_cfun, g_modem,
    process,        \* "runs" or "exited"
    requests,       \* how many requests were made
    told,           \* history: the state the framework last fetched
    seen,           \* history: the states the filter has read for req
    inited,         \* history: initializeCallback since at_open: "no", "runs", "done"
    late            \* history: sState was assigned by the reader of an earlier session

radioVars == <<sState, s_closed, open, session, loop>>
mainVars  == <<inits, polls, req, test, is_lock, first_cfun, g_modem, requests>>
history   == <<told, seen, inited, late>>
vars == <<radioVars, th, mainVars, process, history>>

Loops == {"open", "at_open", "check", "wait"}

RadioTypes ==
    /\ sState \in RadioStates /\ s_closed \in {0, 1} /\ open \in BOOLEAN
    /\ session \in 0..MaxSessions /\ loop \in Loops
    /\ process \in {"runs", "exited"}

ThreadTypes ==
    th \in [Threads -> [at : Places, state : RadioStates, then : Places]]

MainTypes ==
    /\ inits \in 0..MaxSessions /\ polls \in 0..MaxPolls /\ requests \in 0..MaxRequests
    /\ req \in Requests \union {NoRequest} /\ test \in Tests /\ is_lock \in BOOLEAN
    /\ first_cfun \in {0, 1} /\ g_modem \in Modems

HistoryTypes ==
    /\ told \in RadioStates /\ seen \subseteq RadioStates
    /\ inited \in {"no", "runs", "done"} /\ late \in BOOLEAN

TypeOK == RadioTypes /\ ThreadTypes /\ MainTypes /\ HistoryTypes

At(t, p) == process = "runs" /\ th[t].at = p
Goto(t, p) == th' = [th EXCEPT ![t].at = p]

\* A call of setRadioState(s) by thread t, which goes to p when it has returned.
Call(t, s, p) == th' = [th EXCEPT ![t] = [at |-> "set", state |-> s, then |-> p]]

\* t leaves setRadioState's comparison, or pollSIMState, and returns.
Proceed(t, p) == th' = [th EXCEPT ![t].at = p, ![t].state = "UNAVAILABLE"]

Init ==
    /\ sState = "UNAVAILABLE" /\ told = "UNAVAILABLE" /\ s_closed = 0 /\ open = FALSE
    /\ session = 0 /\ loop = "open"
    /\ th = [t \in Threads |-> [at   |-> IF t = Main THEN "idle" ELSE "unborn",
                                state |-> "UNAVAILABLE", then |-> "idle"]]
    /\ inits = 0 /\ polls = 0 /\ requests = 0
    /\ req = NoRequest /\ test = 1 /\ is_lock = FALSE /\ first_cfun = 1 /\ g_modem \in Modems
    /\ process = "runs" /\ seen = {}
    /\ inited = "no" /\ late = FALSE

---------------------------------------------------------------------------
(* setRadioState, by any thread.                                           *)

\* Mutant: setRadioState does not test s_closed.
NewState_Unchecked(s) == s

\* Mutant: the test of s_closed is always true.
NewState_Always(s) == "UNAVAILABLE"

\* The state a locked section that was asked for s assigns.
NewState(s) == IF s_closed > 0 THEN "UNAVAILABLE" ELSE s

\* Mutant: oldState is not assigned.
Assign_NoOld(t) ==
    /\ At(t, "set")
    /\ sState' = NewState(th[t].state)
    /\ Goto(t, "compare")
    /\ loop' = IF (sState' # sState \/ s_closed > 0) /\ loop = "wait" THEN "check" ELSE loop
    /\ UNCHANGED <<s_closed, open, session, mainVars, process, history>>

\* Mutant: no broadcast when the state stays the same, although the channel is closed.
Assign_QuietClose(t) ==
    /\ At(t, "set")
    /\ sState' = NewState(th[t].state)
    /\ th' = [th EXCEPT ![t].at = "compare", ![t].state = sState]
    /\ loop' = IF sState' # sState /\ loop = "wait" THEN "check" ELSE loop
    /\ UNCHANGED <<s_closed, open, session, mainVars, process, history>>

\* The locked section ends in a broadcast of s_state_cond, which lets mainLoop
\* look at s_closed again.
Assign(t) ==
    /\ At(t, "set")
    /\ sState' = NewState(th[t].state)
    /\ th' = [th EXCEPT ![t].at = "compare", ![t].state = sState]
    /\ loop' = IF (sState' # sState \/ s_closed > 0) /\ loop = "wait" THEN "check" ELSE loop
    /\ late' = IF sState' # sState THEN t # Main /\ t < session ELSE late
    /\ UNCHANGED <<s_closed, open, session, mainVars, process, told, seen, inited>>

\* if (sState != oldState), outside the mutex.
Compare(t) ==
    /\ At(t, "compare")
    /\ Proceed(t, IF sState # th[t].state THEN "notify" ELSE th[t].then)
    /\ UNCHANGED <<radioVars, mainVars, process, history>>

\* RIL_UNSOL_RESPONSE_RADIO_STATE_CHANGED has no data: the framework fetches the
\* state with currentState.
Notify(t) ==
    /\ At(t, "notify")
    /\ told' = sState
    /\ Goto(t, "isReady")
    /\ UNCHANGED <<radioVars, mainVars, process, seen, inited, late>>

IsReady(t) ==
    /\ At(t, "isReady")
    /\ Goto(t, IF sState = "SIM_READY" THEN "simReady" ELSE "isNotReady")
    /\ UNCHANGED <<radioVars, mainVars, process, history>>

\* onRadioPowerOn calls pollSIMState at once, on the thread of setRadioState.
IsNotReady(t) ==
    /\ At(t, "isNotReady")
    /\ Goto(t, IF sState = "SIM_NOT_READY" THEN "poll" ELSE th[t].then)
    /\ UNCHANGED <<radioVars, mainVars, process, history>>

\* onSIMReady: two commands whose results are not looked at.
OnSIMReady(t) ==
    /\ At(t, "simReady")
    /\ Goto(t, th[t].then)
    /\ UNCHANGED <<radioVars, mainVars, process, history>>

SetRadioState(t) ==
    Assign(t) \/ Compare(t) \/ Notify(t) \/ IsReady(t) \/ IsNotReady(t) \/ OnSIMReady(t)

---------------------------------------------------------------------------
(* pollSIMState, by the main thread or inside a setRadioState.             *)

\* Mutant: a SIM that is not ready is not asked again.
SchedulePoll_Never(t) == Goto(t, th[t].then) /\ UNCHANGED polls

\* RIL_requestTimedCallback(pollSIMState).
SchedulePoll(t) ==
    /\ polls < MaxPolls
    /\ polls' = polls + 1
    /\ Goto(t, th[t].then)

PollTest(t) ==
    /\ At(t, "poll")
    /\ Goto(t, IF sState = "SIM_NOT_READY" THEN "simStatus" ELSE th[t].then)
    /\ UNCHANGED <<radioVars, mainVars, process, history>>

\* getSIMStatus(0) reads sState again before it sends AT+CPIN?.
SimStatusTest(t) ==
    /\ At(t, "simStatus")
    /\ IF sState \in {"OFF", "UNAVAILABLE"}
       THEN SchedulePoll(t)
       ELSE Goto(t, "cpinQuery") /\ UNCHANGED polls
    /\ UNCHANGED <<radioVars, inits, req, test, is_lock, first_cfun, g_modem, requests,
                   process, history>>

\* What getSIMStatus can return when it has sent AT+CPIN?: a closed channel is
\* reported as an absent SIM.
SimAnswers == IF open THEN {"ABSENT", "NOT_READY", "READY", "PIN"} ELSE {"ABSENT"}

PollAnswer(t) ==
    /\ At(t, "cpinQuery")
    /\ \E status \in SimAnswers :
         CASE status = "NOT_READY" -> SchedulePoll(t)
           [] status = "READY" -> Call(t, "SIM_READY", th[t].then) /\ UNCHANGED polls
           [] OTHER -> Call(t, "SIM_LOCKED_OR_ABSENT", th[t].then) /\ UNCHANGED polls
    /\ UNCHANGED <<radioVars, inits, req, test, is_lock, first_cfun, g_modem, requests,
                   process, history>>

PollSIMState(t) == PollTest(t) \/ SimStatusTest(t) \/ PollAnswer(t)

---------------------------------------------------------------------------
(* The main thread.                                                        *)

\* Main takes up a handler, which ends in "idle".
Begin(p) == th' = [th EXCEPT ![Main].at = p, ![Main].then = "idle"]

RunPoll ==
    /\ At(Main, "idle") /\ polls > 0
    /\ polls' = polls - 1
    /\ Begin("poll")
    /\ UNCHANGED <<radioVars, inits, req, test, is_lock, first_cfun, g_modem, requests,
                   process, told, seen, inited, late>>

\* initializeCallback: setRadioState, ATE, at_handshake, modem_init_specific,
\* modem_init_generic, whose last act is a setRadioState too.
RunInit ==
    /\ At(Main, "idle") /\ inits > 0
    /\ inits' = inits - 1
    /\ Call(Main, "SIM_NOT_READY", "initCommands")
    /\ inited' = "runs"
    /\ UNCHANGED <<radioVars, polls, req, test, is_lock, first_cfun, g_modem, requests,
                   process, told, seen, late>>

InitCommands ==
    /\ At(Main, "initCommands")
    /\ Call(Main, "SIM_NOT_READY", "initDone")
    /\ UNCHANGED <<radioVars, mainVars, process, history>>

InitDone ==
    /\ At(Main, "initDone")
    /\ Goto(Main, "idle")
    /\ inited' = IF inited = "runs" THEN "done" ELSE inited
    /\ UNCHANGED <<radioVars, mainVars, process, told, seen, late>>

\* onRequest.
Request ==
    /\ At(Main, "idle") /\ requests < MaxRequests
    /\ requests' = requests + 1
    /\ req' \in Requests
    /\ Begin("filter")
    /\ UNCHANGED <<radioVars, inits, polls, test, is_lock, first_cfun, g_modem, process,
                   told, seen, inited, late>>

\* One test of requestStateFilter, with its own read of sState; a request that is
\* refused is complete.
Filter ==
    /\ At(Main, "filter")
    /\ IF Refuses(test, sState, req.code)
       THEN /\ Goto(Main, "idle")
            /\ test' = 1 /\ seen' = {} /\ req' = NoRequest
       ELSE /\ Goto(Main, IF test = LastTest THEN "process" ELSE "filter")
            /\ test' = IF test = LastTest THEN 1 ELSE test + 1
            /\ seen' = seen \union {sState}
            /\ UNCHANGED req
    /\ UNCHANGED <<radioVars, inits, polls, is_lock, first_cfun, g_modem, requests,
                   process, told, inited, late>>

\* process_request calls the handler.  requestOperator does not touch the radio state.
Process ==
    /\ At(Main, "process")
    /\ Goto(Main, CASE req.code = "RADIO_POWER" -> IF req.onOff = 0 THEN "powerOff" ELSE "powerOn"
                    [] req.code = "ENTER_SIM_PIN" -> "pinStatus"
                    [] OTHER -> "idle")
    /\ req' = NoRequest /\ seen' = {}
    /\ UNCHANGED <<radioVars, inits, polls, test, is_lock, first_cfun, g_modem, requests,
                   process, told, inited, late>>

\* requestRadioPower, up to its first command.  The default one sends AT+CFUN=0 and
\* stops pppd except the first time; that of mh400b always stops pppd and never
\* clears first_cfun.
RadioPowerOff ==
    /\ At(Main, "powerOff")
    /\ CASE sState = "OFF" -> Goto(Main, "idle") /\ UNCHANGED first_cfun
         [] sState # "OFF" /\ (g_modem = "mh400b" \/ first_cfun = 0) ->
              Goto(Main, "pppdDown") /\ UNCHANGED first_cfun
         [] OTHER -> Call(Main, "OFF", "idle") /\ first_cfun' = 0
    /\ UNCHANGED <<radioVars, inits, polls, req, test, is_lock, g_modem, requests,
                   process, history>>

RadioPowerOn ==
    /\ At(Main, "powerOn")
    /\ Goto(Main, IF sState = "OFF" THEN "cfun1" ELSE "idle")
    /\ UNCHANGED <<radioVars, mainVars, process, history>>

\* wait_for_pppd_down has returned.
PppdDown ==
    /\ At(Main, "pppdDown")
    /\ IF first_cfun = 0 THEN Goto(Main, "cfun0") ELSE Call(Main, "OFF", "idle")
    /\ UNCHANGED <<radioVars, mainVars, process, history>>

\* Only a command that was not answered fails; any answer will do.
CFun0 ==
    /\ At(Main, "cfun0")
    /\ \/ open /\ Call(Main, "OFF", "idle")
       \/ Goto(Main, "idle")
    /\ UNCHANGED <<radioVars, mainVars, process, history>>

CFun1 ==
    /\ At(Main, "cfun1")
    /\ \/ open /\ Call(Main, "SIM_NOT_READY", "idle")
       \/ Goto(Main, "getRadioPower")
    /\ UNCHANGED <<radioVars, mainVars, process, history>>

\* After a failure the radio may be on all the same.
GetRadioPower ==
    /\ At(Main, "getRadioPower")
    /\ \/ open /\ Call(Main, "SIM_NOT_READY", "idle")
       \/ Goto(Main, "idle")
    /\ UNCHANGED <<radioVars, mainVars, process, history>>

\* requestEnterSimPin asks for the SIM's status first, as pollSIMState does.
PinStatusTest ==
    /\ At(Main, "pinStatus")
    /\ IF sState \in {"OFF", "UNAVAILABLE"}
       THEN Goto(Main, "pin") /\ is_lock' = FALSE
       ELSE Goto(Main, "pinQuery") /\ UNCHANGED is_lock
    /\ UNCHANGED <<radioVars, inits, polls, req, test, first_cfun, g_modem, requests,
                   process, history>>

PinStatus ==
    /\ At(Main, "pinQuery")
    /\ is_lock' \in {status = "PIN" : status \in SimAnswers}
    /\ Goto(Main, "pin")
    /\ UNCHANGED <<radioVars, inits, polls, req, test, first_cfun, g_modem, requests,
                   process, history>>

Pin ==
    /\ At(Main, "pin")
    /\ \/ open /\ is_lock /\ Goto(Main, "pinAccepted")
       \/ Goto(Main, "idle")
    /\ is_lock' = FALSE
    /\ UNCHANGED <<radioVars, inits, polls, req, test, first_cfun, g_modem, requests,
                   process, history>>

\* sleep(2) is over: the state goes to READY by way of OFF.
PinAccepted ==
    /\ At(Main, "pinAccepted")
    /\ Call(Main, "OFF", "pinOff")
    /\ UNCHANGED <<radioVars, mainVars, process, history>>

PinReady ==
    /\ At(Main, "pinOff")
    /\ Call(Main, "SIM_READY", "idle")
    /\ UNCHANGED <<radioVars, mainVars, process, history>>

Handlers ==
    \/ RunPoll \/ RunInit \/ InitCommands \/ InitDone \/ Filter \/ Process
    \/ RadioPowerOff \/ RadioPowerOn \/ PppdDown \/ CFun0 \/ CFun1 \/ GetRadioPower
    \/ PinStatusTest \/ PinStatus \/ Pin \/ PinAccepted \/ PinReady

---------------------------------------------------------------------------
(* The end of a session: onATReaderClosed on its reader, onATTimeout on a  *)
(* thread whose command is not answered in time.                           *)

\* The device disappears, or the descriptor was closed by at_close: the reader
\* closes the channel unless somebody has.
ReaderEof(t) ==
    /\ At(t, "read")
    /\ th' = [th EXCEPT ![t].at = IF open THEN "closing" ELSE "dead", ![t].then = "dead"]
    /\ UNCHANGED <<radioVars, mainVars, process, history>>

CommandPlaces == {"cpinQuery", "simReady", "initCommands", "cfun0", "cfun1",
                  "getRadioPower", "pinQuery", "pin"}

TimedOut ==
    /\ process = "runs" /\ th[Main].at \in CommandPlaces /\ open
    /\ th' = [th EXCEPT ![Main].at = "closing", ![Main].then = "exit"]
    /\ UNCHANGED <<radioVars, mainVars, process, history>>

AtClose(t) ==
    /\ At(t, "closing")
    /\ open' = FALSE
    /\ Goto(t, "closed")
    /\ UNCHANGED <<sState, s_closed, session, loop, mainVars, process, history>>

\* Mutant: s_closed counts the closes instead of being set.
SetClosed_Counts(t) ==
    /\ At(t, "closed")
    /\ s_closed' = s_closed + 1
    /\ Call(t, "UNAVAILABLE", th[t].then)
    /\ UNCHANGED <<sState, open, session, loop, mainVars, process, history>>

\* s_closed = 1, without s_state_mutex.
SetClosed(t) ==
    /\ At(t, "closed")
    /\ s_closed' = 1
    /\ Call(t, "UNAVAILABLE", th[t].then)
    /\ UNCHANGED <<sState, open, session, loop, mainVars, process, history>>

Exit(t) ==
    /\ At(t, "exit")
    /\ process' = "exited"
    /\ UNCHANGED <<radioVars, th, mainVars, history>>

Close(t) == AtClose(t) \/ SetClosed(t) \/ Exit(t)

---------------------------------------------------------------------------
(* mainLoop.                                                               *)

AtLoop(p) == process = "runs" /\ loop = p

\* The device is not there; mainLoop sleeps and tries again.
OpenFails ==
    /\ AtLoop("open")
    /\ UNCHANGED vars

\* s_closed = 0, without s_state_mutex.
OpenDevice ==
    /\ AtLoop("open") /\ session < MaxSessions
    /\ s_closed' = 0
    /\ loop' = "at_open"
    /\ UNCHANGED <<sState, open, session, th, mainVars, process, history>>

\* at_open starts the session's reader; initializeCallback is scheduled.
AtOpen ==
    /\ AtLoop("at_open")
    /\ open' = TRUE
    /\ session' = session + 1
    /\ Goto(session + 1, "read")
    /\ inits' = inits + 1
    /\ inited' = "no"
    /\ loop' = "check"
    /\ UNCHANGED <<sState, s_closed, polls, req, test, is_lock, first_cfun, g_modem, requests,
                   process, told, seen, late>>

\* waitForClose, under s_state_mutex; the stop_pppd that follows touches no radio state.
WaitForClose ==
    /\ AtLoop("check")
    /\ loop' = IF s_closed = 0 THEN "wait" ELSE "open"
    /\ UNCHANGED <<sState, s_closed, open, session, th, mainVars, process, history>>

SpuriousWakeup ==
    /\ AtLoop("wait")
    /\ loop' = "check"
    /\ UNCHANGED <<sState, s_closed, open, session, th, mainVars, process, history>>

Exited == process = "exited" /\ UNCHANGED vars

MainLoop == OpenDevice \/ OpenFails \/ AtOpen \/ WaitForClose \/ SpuriousWakeup

ThreadStep(t) == SetRadioState(t) \/ PollSIMState(t) \/ Close(t)

Next ==
    \/ \E t \in Threads : ThreadStep(t)
    \/ \E t \in Readers : ReaderEof(t)
    \/ Handlers \/ Request \/ TimedOut
    \/ MainLoop
    \/ Exited

Spec == Init /\ [][Next]_vars

---------------------------------------------------------------------------
(* Properties.                                                             *)

Notifying == {"notify"}
Polling   == {"isReady", "isNotReady", "poll", "simStatus", "cpinQuery"}
Ending(t) == th[t].then = "exit"

\* While s_closed is set the radio is unavailable, whatever the other threads
\* assign, from the closing thread's setRadioState on (the reason given at
\* sxx-ril-network.c:1299).
ClosedIsUnavailable ==
    s_closed = 1 /\ sState # "UNAVAILABLE" =>
        \E t \in Threads : th[t].at = "set" /\ th[t].state = "UNAVAILABLE"

\* No change is lost although setRadioState compares outside its mutex: if the
\* framework's state is out of date, some thread is on its way to notify it.
FrameworkUpToDate ==
    told # sState =>
        \E t \in Threads : \/ th[t].at \in Notifying
                           \/ th[t].at = "compare" /\ th[t].state # sState

\* SIM_NOT_READY never lasts for want of a poll: one is scheduled, or some thread
\* polls, is about to, or is about to leave the state.
NotReadyIsPolled ==
    sState = "SIM_NOT_READY" /\ process = "runs" =>
        \/ polls > 0
        \/ \E t \in Threads :
             \/ th[t].at \in Notifying \union Polling \/ Ending(t)
             \/ th[t].at = "compare" /\ th[t].state # sState
             \/ th[t].at = "set" /\ th[t].state # "SIM_NOT_READY"

\* Once a session's initialisation is complete the radio of an open channel is not
\* unavailable, except that the setRadioState of an earlier session's reader came
\* after mainLoop had gone on (s_closed is set without the mutex).
UpAfterInit ==
    /\ inited = "done" /\ s_closed = 0 /\ loop \in {"check", "wait"}
    /\ sState = "UNAVAILABLE"
    => late

\* The five tests of the filter read sState anew.  A request that every state they
\* read would have refused gets through only when the channel was closed meanwhile.
PassedOnlyIfAllowedOrClosed ==
    th[Main].at = "process" =>
        \/ \E s \in seen : ~Refused(s, req.code)
        \/ "UNAVAILABLE" \in seen /\ Cardinality(seen) > 1

\* No close is lost on mainLoop, although s_closed is set outside the mutex that
\* waitForClose sleeps on: while it sleeps on a closed channel, the setRadioState
\* that wakes it is still to come.
CloseIsSignalled ==
    s_closed = 1 /\ loop = "wait" => \E t \in Threads : th[t].at = "set"
=============================================================================

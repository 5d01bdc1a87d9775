----------------------------- MODULE PppdManager -----------------------------
(* The pppd manager of sxx-ril-pdp.c: pm_thread and its state machine, the   *)
(* pipe its signals come through, the SIGCHLD and SIGALRM handlers, the pppd *)
(* processes it forks, and the threads that ask it for something: dc_thread  *)
(* for every data call, the request thread and mainLoop.                     *)
(*                                                                           *)
(* g_pm.pppid is shared without a lock by pm_thread, the SIGCHLD handler and *)
(* every thread that polls it; each read or write of it is a step.           *)
EXTENDS Integers, Sequences, FiniteSets

CONSTANTS
    PmThread,     \* pm_thread
    Handlers,     \* the threads SIGCHLD can be delivered to
    DataCalls,    \* the data calls the framework sets up, one dc_thread each
    Apns,         \* access point names
    NoApn,        \* g_apn before the first data call
    Garbage,      \* what an uninitialised sig can hold
    Faults,       \* TRUE: pppd may exit, or lose its link, of its own accord
    Requests,     \* the requests the framework makes, see Request
    timeout0,     \* the 30 of dc_thread
    MaxForks,     \* bound: pppd processes; after them fork() fails
    MaxRequests   \* bound: requests

Signals == {"START", "STOP", "TIMER", "EXIT", "WAKEUP", "HALT", "RESTART"}

\* "other" is any int that is no signal.
Sigs == Signals \cup {"other"}

States == {"IDLE", "STARTING", "RUNNING", "EXCEPTION", "STOPPING", "HALTING"}

\* Requests that reach the manager: RIL_REQUEST_DEACTIVATE_DATA_CALL,
\* _RADIO_POWER (off), _QUERY_AVAILABLE_NETWORKS on the mh400b, _SCREEN_STATE;
\* and mainLoop when it opens the channel again.
Request == {"deactivate", "radioOff", "query", "screenOn", "reopen"}

ASSUME HandlersAssumption == Handlers # {}
ASSUME GarbageAssumption  == Garbage \subseteq Sigs /\ Garbage # {}
ASSUME ApnAssumption      == NoApn \notin Apns
ASSUME PppdBounds ==
    /\ Faults \in BOOLEAN
    /\ Requests \subseteq Request
    /\ timeout0 \in Nat /\ MaxForks \in Nat /\ MaxRequests \in Nat

Pids == 1..MaxForks

VARIABLES
    stm,        \* g_pm.stm
    pppid,      \* g_pm.pppid: 0, or the pid of the pppd pm_thread started
    pipe,       \* signals written to g_pm.wfd and not yet read
    edge,       \* written to since epoll_wait returned last (EPOLLET)
    pm,         \* where pm_thread is, and the argument of its waitpid
    \* the kernel
    live,       \* running pppd processes
    zombies,    \* those that have exited and not been waited for
    doomed,     \* those that were sent SIGHUP
    forks,      \* the pid of the last one
    link,       \* the pppd whose interface ppp0 is up, 0 if it is down
    sigchld,    \* SIGCHLD is pending
    handler,    \* the SIGCHLD handler on each thread: step, pid and sig
    process,    \* "running", or "hup": killed by SIGHUP
    \* the threads that ask
    req,        \* where the request thread is
    requests,   \* number of requests made
    dc,         \* the data calls: step, APN, counter, what was last seen
    g_apn,
    off         \* history: with no data call in progress the framework has "asked"
                \* for the end of the connection, and "yes", was told it is down

signalVars  == <<pipe, edge>>
kernelVars  == <<live, zombies, doomed, forks, link, sigchld>>
requestVars == <<req, requests>>
callVars    == <<dc, g_apn>>
vars == <<stm, pppid, signalVars, pm, kernelVars, handler, process, requestVars,
          callVars, off>>

Init ==
    /\ stm = "IDLE" /\ pppid = 0
    /\ pipe = <<>> /\ edge = FALSE
    /\ pm = [at |-> "wait", pid |-> 0]
    /\ live = {} /\ zombies = {} /\ doomed = {} /\ forks = 0 /\ link = 0
    /\ sigchld = FALSE
    /\ handler = [h \in Handlers |-> [at |-> "idle", pid |-> 0, sig |-> "other"]]
    /\ process = "running"
    /\ req = "idle" /\ requests = 0
    /\ dc = [d \in DataCalls |-> [at |-> "new", apn |-> NoApn, timeout |-> 0, up |-> FALSE]]
    /\ g_apn = NoApn
    /\ off = "no"
-----------------------------------------------------------------------------
(* The pipe, and the calls into the kernel.                                  *)

\* write(g_pm.wfd, &sig, 4).  The read loop of pm_thread takes neighbouring
\* TIMERs together, so that one stands for all of them.
Write(sig) ==
    /\ pipe' = IF sig = "TIMER" /\ pipe # <<>> /\ pipe[Len(pipe)] = "TIMER"
                 THEN pipe ELSE Append(pipe, sig)
    /\ edge' = TRUE

\* What one round of pm_thread's read loop returns: it skips TIMERs until it
\* reads another signal or the pipe is empty.
ReadSignal(sig) ==
    /\ edge' = FALSE
    /\ \/ /\ sig = "TIMER" /\ pipe # <<>> /\ \A i \in DOMAIN pipe : pipe[i] = "TIMER"
          /\ pipe' = <<>>
       \/ \E i \in DOMAIN pipe :
            /\ sig = pipe[i] /\ sig # "TIMER"
            /\ \A j \in 1..(i - 1) : pipe[j] = "TIMER"
            /\ pipe' = SubSeq(pipe, i + 1, Len(pipe))

\* waitpid(p, ...) returns and takes a zombie; 0 stands for any child.  It
\* fails at once when there is no such child, and blocks while it lives.
WaitReturns(p) ==
    LET mine == IF p = 0 THEN live \cup zombies ELSE {p} \cap (live \cup zombies)
    IN  IF mine = {} THEN UNCHANGED zombies
        ELSE \E z \in mine \cap zombies : zombies' = zombies \ {z}

\* ppp0 is up, and there is a pppd it can belong to.
pppd_connect_status == pppid # 0 /\ link # 0
-----------------------------------------------------------------------------
(* pm_thread.  A handler that interrupts it holds it up.                     *)

PmRuns == PmThread \in Handlers => handler[PmThread].at = "idle"

At(step) == pm.at = step /\ PmRuns
Goto(step) == pm' = [at |-> step, pid |-> 0]

pmFrame == <<handler, process, requestVars, callVars, off>>

\* Mutant: _stop_pppd does not test g_pm.pppid first.
EnterStop_NoTest == Goto("kill")

\* Entering _stop_pppd: nothing is done when there is no pppd.
EnterStop == Goto(IF pppid # 0 THEN "kill" ELSE "stopped")

\* The cases of the switch: the signal is read and looked up in the state.
\* After them stm is kept, or changed and pm_thread goes on in _stop_pppd or
\* _start_pppd.
Idle(sig) ==
    \/ sig = "START" /\ stm' = "STARTING" /\ Goto("fork")
    \/ sig # "START" /\ UNCHANGED <<stm, pm>>

\* Mutant: a STOP while pppd is starting goes straight to IDLE.
Starting_StopIsIdle(sig) ==
    /\ stm' = CASE sig = "TIMER" /\ pppd_connect_status -> "RUNNING"
                [] sig = "EXIT" -> "EXCEPTION"
                [] sig = "STOP" -> "IDLE"
                [] OTHER -> stm
    /\ UNCHANGED pm

Starting(sig) ==
    /\ stm' = CASE sig = "TIMER" /\ pppd_connect_status -> "RUNNING"
                [] sig = "EXIT" -> "EXCEPTION"
                [] sig = "STOP" -> "STOPPING"
                [] OTHER -> stm
    /\ UNCHANGED pm

\* WAKEUP asks the modem whether the connection is there (AT+CPAS).
Running(sig) ==
    \/ sig = "TIMER" /\ ~pppd_connect_status /\ stm' = "EXCEPTION" /\ UNCHANGED pm
    \/ sig = "EXIT" /\ stm' = "STARTING" /\ Goto("fork")
    \/ sig = "STOP" /\ stm' = "STOPPING" /\ UNCHANGED pm
    \/ sig = "WAKEUP" /\ stm' \in {"EXCEPTION", stm} /\ UNCHANGED pm
    \/ sig = "HALT" /\ stm' = "HALTING" /\ EnterStop
    \/ /\ sig \in {"START", "RESTART", "other"} \/ (sig = "TIMER" /\ pppd_connect_status)
       /\ UNCHANGED <<stm, pm>>

\* EXCEPTION and STOPPING act on the next TIMER only.
StopsOnTimer(sig) ==
    \/ sig = "TIMER" /\ EnterStop /\ UNCHANGED stm
    \/ sig # "TIMER" /\ UNCHANGED <<stm, pm>>

Halting(sig) ==
    \/ sig = "RESTART" /\ stm' = "STARTING" /\ Goto("fork")
    \/ sig # "RESTART" /\ UNCHANGED <<stm, pm>>

pm_thread(sig) ==
    /\ At("wait") /\ edge
    /\ ReadSignal(sig)
    /\ \/ stm = "IDLE" /\ Idle(sig)
       \/ stm = "STARTING" /\ Starting(sig)
       \/ stm = "RUNNING" /\ Running(sig)
       \/ stm \in {"EXCEPTION", "STOPPING"} /\ StopsOnTimer(sig)
       \/ stm = "HALTING" /\ Halting(sig)
    /\ UNCHANGED <<pppid, kernelVars, pmFrame>>

\* Mutant: _stop_pppd does not wait for the process it has killed.
Kill_NoWait ==
    /\ At("kill")
    /\ IF pppid = 0
         THEN process' = "hup" /\ UNCHANGED doomed
         ELSE doomed' = doomed \cup ({pppid} \cap live) /\ UNCHANGED process
    /\ Goto("clear")
    /\ UNCHANGED <<stm, pppid, signalVars, live, zombies, forks, link, sigchld,
                   handler, requestVars, callVars, off>>

\* _stop_pppd: AT+CGACT=0, then kill(g_pm.pppid, SIGHUP).  The pid is read
\* anew; 0 means every process of the group, the RIL itself included.
Kill ==
    /\ At("kill")
    /\ IF pppid = 0
         THEN process' = "hup" /\ UNCHANGED doomed
         ELSE doomed' = doomed \cup ({pppid} \cap live) /\ UNCHANGED process
    /\ Goto("waitpid")
    /\ UNCHANGED <<stm, pppid, signalVars, live, zombies, forks, link, sigchld,
                   handler, requestVars, callVars, off>>

\* waitpid(g_pm.pppid, ...): the pid is read once more when the call is made.
EnterWaitpid ==
    /\ At("waitpid")
    /\ pm' = [at |-> "reap", pid |-> pppid]
    /\ UNCHANGED <<stm, pppid, signalVars, kernelVars, pmFrame>>

Reap ==
    /\ At("reap")
    /\ WaitReturns(pm.pid)
    /\ Goto("clear")
    /\ UNCHANGED <<stm, pppid, signalVars, live, doomed, forks, link, sigchld, pmFrame>>

\* Mutant: _stop_pppd leaves g_pm.pppid as it is.
Clear_Missing ==
    /\ At("clear")
    /\ Goto("stopped")
    /\ UNCHANGED <<stm, pppid, signalVars, kernelVars, pmFrame>>

Clear ==
    /\ At("clear")
    /\ pppid' = 0
    /\ Goto("stopped")
    /\ UNCHANGED <<stm, signalVars, kernelVars, pmFrame>>

\* Mutant: STOPPING is not left when pppd is down.
Stopped_Stays ==
    /\ At("stopped")
    /\ \/ stm = "EXCEPTION" /\ pppid = 0 /\ stm' = "STARTING" /\ Goto("fork")
       \/ (stm # "EXCEPTION" \/ pppid # 0) /\ UNCHANGED stm /\ Goto("wait")
    /\ UNCHANGED <<pppid, signalVars, kernelVars, pmFrame>>

\* Back in the switch: "until pppd exit", restart it or be idle.
Stopped ==
    /\ At("stopped")
    /\ \/ stm = "EXCEPTION" /\ pppid = 0 /\ stm' = "STARTING" /\ Goto("fork")
       \/ stm = "STOPPING" /\ pppid = 0 /\ stm' = "IDLE" /\ Goto("wait")
       \/ (stm = "HALTING" \/ pppid # 0) /\ UNCHANGED stm /\ Goto("wait")
    /\ UNCHANGED <<pppid, signalVars, kernelVars, pmFrame>>

\* _start_pppd: fork ...
Fork ==
    /\ At("fork") /\ forks < MaxForks
    /\ forks' = forks + 1
    /\ live' = live \cup {forks + 1}
    /\ Goto("assign")
    /\ UNCHANGED <<stm, pppid, signalVars, zombies, doomed, link, sigchld, pmFrame>>

\* ... which may fail: the caller does not look at the result ...
ForkFails ==
    /\ At("fork")
    /\ Faults \/ forks = MaxForks
    /\ Goto("wait")
    /\ UNCHANGED <<stm, pppid, signalVars, kernelVars, pmFrame>>

\* ... and g_pm.pppid = pid.
Assign ==
    /\ At("assign")
    /\ pppid' = forks
    /\ Goto("wait")
    /\ UNCHANGED <<stm, signalVars, kernelVars, pmFrame>>

PmStep ==
    \/ \E sig \in Sigs : pm_thread(sig)
    \/ Kill \/ EnterWaitpid \/ Reap \/ Clear \/ Stopped
    \/ Fork \/ ForkFails \/ Assign
-----------------------------------------------------------------------------
(* The signal handlers.                                                      *)

handlerFrame == <<stm, pm, live, doomed, forks, link, process, requestVars, callVars, off>>

Moves(h, from, to) ==
    handler[h].at = from /\ handler' = [handler EXCEPT ![h].at = to]

\* SIGALRM every 500 ms
Tick ==
    /\ Write("TIMER")
    /\ UNCHANGED <<stm, pppid, pm, kernelVars, handler, process, requestVars,
                   callVars, off>>

\* SIGCHLD is delivered to a thread that is not handling one.
Deliver(h) ==
    /\ sigchld
    /\ Moves(h, "idle", "wait")
    /\ sigchld' = FALSE
    /\ UNCHANGED <<handlerFrame, pppid, signalVars, zombies>>

\* pid = wait(NULL): any child; -1 when there is none.
WaitAny(h) ==
    /\ handler[h].at = "wait"
    /\ \/ \E z \in zombies :
            /\ zombies' = zombies \ {z}
            /\ handler' = [handler EXCEPT ![h].at = "compare", ![h].pid = z]
       \/ /\ live \cup zombies = {}
          /\ handler' = [handler EXCEPT ![h].at = "compare", ![h].pid = -1]
          /\ UNCHANGED zombies
    /\ UNCHANGED <<handlerFrame, pppid, signalVars, sigchld>>

\* if (pid == g_pm.pppid): otherwise sig is written as it is, uninitialised.
Compare(h) ==
    /\ \/ handler[h].pid = pppid /\ Moves(h, "compare", "waitpid")
       \/ /\ handler[h].pid # pppid /\ handler[h].at = "compare"
          /\ \E sig \in Garbage :
               handler' = [handler EXCEPT ![h].at = "write", ![h].sig = sig]
    /\ UNCHANGED <<handlerFrame, pppid, signalVars, zombies, sigchld>>

\* waitpid(g_pm.pppid, &i, 0): the pid is read anew.
HandlerWaitpid(h) ==
    /\ handler[h].at = "waitpid"
    /\ handler' = [handler EXCEPT ![h].at = "reap", ![h].pid = pppid]
    /\ UNCHANGED <<handlerFrame, pppid, signalVars, zombies, sigchld>>

HandlerReap(h) ==
    /\ Moves(h, "reap", "clear")
    /\ WaitReturns(handler[h].pid)
    /\ UNCHANGED <<handlerFrame, pppid, signalVars, sigchld>>

HandlerClear(h) ==
    /\ handler[h].at = "clear"
    /\ pppid' = 0
    /\ handler' = [handler EXCEPT ![h].at = "write", ![h].sig = "EXIT"]
    /\ UNCHANGED <<handlerFrame, signalVars, zombies, sigchld>>

HandlerWrite(h) ==
    /\ handler[h].at = "write"
    /\ Write(handler[h].sig)
    /\ handler' = [handler EXCEPT ![h] = [at |-> "idle", pid |-> 0, sig |-> "other"]]
    /\ UNCHANGED <<handlerFrame, pppid, zombies, sigchld>>

signal_handler(h) ==
    \/ Deliver(h) \/ WaitAny(h) \/ Compare(h) \/ HandlerWaitpid(h)
    \/ HandlerReap(h) \/ HandlerClear(h) \/ HandlerWrite(h)
-----------------------------------------------------------------------------
(* pppd.                                                                     *)

pppdFrame == <<stm, pppid, signalVars, pm, zombies, doomed, forks, handler,
               process, requestVars, callVars, off>>

LinkUp(p) ==
    /\ p \in live \ doomed /\ link = 0
    /\ link' = p
    /\ UNCHANGED <<pppdFrame, live, sigchld>>

LinkDown ==
    /\ Faults \/ link \in doomed
    /\ link # 0 /\ link' = 0
    /\ UNCHANGED <<pppdFrame, live, sigchld>>

Exit(p) ==
    /\ p \in live /\ (Faults \/ p \in doomed)
    /\ live' = live \ {p}
    /\ zombies' = zombies \cup {p}
    /\ link' = IF link = p THEN 0 ELSE link
    /\ sigchld' = TRUE
    /\ UNCHANGED <<stm, pppid, signalVars, pm, doomed, forks, handler, process,
                   requestVars, callVars, off>>
-----------------------------------------------------------------------------
(* The threads that ask the manager.  The request thread serves one request  *)
(* at a time.                                                                *)

requestFrame == <<stm, pppid, pm, kernelVars, handler, process, callVars>>

MayRequest(r) ==
    r \in Requests /\ requests < MaxRequests /\ requests' = requests + 1

NoCallInProgress == \A d \in DataCalls : dc[d].at \in {"new", "reported", "failed"}

InPipe(sig) == \E i \in DOMAIN pipe : pipe[i] = sig

\* stop_pppd, then wait_for_pppd_down
StopAndWait ==
    /\ req = "idle"
    /\ Write("STOP")
    /\ req' = "down"
    /\ off' = IF NoCallInProgress /\ ~InPipe("START") THEN "asked" ELSE "no"
    /\ UNCHANGED requestFrame

requestDeactivateDataCall ==
    MayRequest("deactivate") /\ StopAndWait

requestRadioPower ==
    MayRequest("radioOff") /\ StopAndWait

\* wait_for_pppd_down sees pppid == 0 and the request is complete.
wait_for_pppd_down ==
    /\ req = "down" /\ pppid = 0
    /\ req' = "idle"
    /\ off' = IF off = "asked" THEN "yes" ELSE off
    /\ UNCHANGED <<requestFrame, signalVars, requests>>

\* The network scan of the mh400b: halt_pppd with its wait, then the scan and
\* restart_pppd.
requestQueryAvailableNetworks ==
    /\ MayRequest("query") /\ req = "idle"
    /\ Write("HALT")
    /\ req' = "halt"
    /\ UNCHANGED <<requestFrame, off>>

halt_pppd ==
    /\ req = "halt" /\ pppid = 0
    /\ req' = "scan"
    /\ UNCHANGED <<requestFrame, signalVars, requests, off>>

\* Mutant: after the scan START is sent, which HALTING does not handle.
restart_pppd_Start ==
    /\ req = "scan"
    /\ Write("START")
    /\ req' = "idle"
    /\ UNCHANGED <<requestFrame, requests, off>>

restart_pppd ==
    /\ req = "scan"
    /\ Write("RESTART")
    /\ req' = "idle"
    /\ UNCHANGED <<requestFrame, requests, off>>

requestScreenState ==
    /\ MayRequest("screenOn") /\ req = "idle"
    /\ Write("WAKEUP")
    /\ UNCHANGED <<requestFrame, req, off>>

\* mainLoop, when the AT channel was closed
mainLoop ==
    /\ MayRequest("reopen")
    /\ Write("STOP")
    /\ UNCHANGED <<requestFrame, req, off>>

RequestThread == wait_for_pppd_down \/ halt_pppd \/ restart_pppd
NewRequest ==
    \/ requestDeactivateDataCall \/ requestRadioPower
    \/ requestQueryAvailableNetworks \/ requestScreenState \/ mainLoop
-----------------------------------------------------------------------------
(* dc_thread, one for every RIL_REQUEST_SETUP_DATA_CALL.                     *)

callFrame == <<stm, pppid, pm, kernelVars, handler, process, requestVars>>

launch_data_call(d, apn) ==
    /\ dc[d].at = "new"
    /\ dc' = [dc EXCEPT ![d].at = "begin", ![d].apn = apn]
    /\ off' = "no"
    /\ UNCHANGED <<callFrame, signalVars, g_apn>>

\* A connection with another APN is stopped first ...
ChangeApn(d) ==
    /\ dc[d].at = "begin"
    /\ dc[d].apn # g_apn /\ pppd_connect_status
    /\ Write("STOP")
    /\ dc' = [dc EXCEPT ![d].at = "down"]
    /\ UNCHANGED <<callFrame, g_apn, off>>

SameApn(d) ==
    /\ dc[d].at = "begin"
    /\ dc[d].apn = g_apn \/ ~pppd_connect_status
    /\ dc' = [dc EXCEPT ![d].at = "start"]
    /\ UNCHANGED <<callFrame, signalVars, g_apn, off>>

\* ... and waited for.
ConnectionDown(d) ==
    /\ dc[d].at = "down" /\ ~pppd_connect_status
    /\ dc' = [dc EXCEPT ![d].at = "start"]
    /\ UNCHANGED <<callFrame, signalVars, g_apn, off>>

start_pppd(d) ==
    /\ dc[d].at = "start"
    /\ g_apn' = dc[d].apn
    /\ Write("START")
    /\ dc' = [dc EXCEPT ![d].at = "up", ![d].timeout = timeout0]
    /\ UNCHANGED <<callFrame, off>>

\* Mutant: only a connection ends the loop.
ConnectionUp_NoBreak(d) ==
    /\ dc[d].at = "up"
    /\ LET up == pppd_connect_status
           left == IF up THEN dc[d].timeout ELSE dc[d].timeout - 1
       IN  dc' = [dc EXCEPT ![d].up = up, ![d].timeout = left,
                            ![d].at = IF ~up THEN "up"
                                      ELSE IF left < 0 THEN "giveUp" ELSE "report"]
    /\ UNCHANGED <<callFrame, signalVars, g_apn, off>>

\* Mutant: timeout is not counted down.
ConnectionUp_NoCount(d) ==
    /\ dc[d].at = "up"
    /\ LET up == pppd_connect_status
       IN  dc' = [dc EXCEPT ![d].up = up, ![d].at = IF up THEN "report" ELSE "up"]
    /\ UNCHANGED <<callFrame, signalVars, g_apn, off>>

\* One round of the loop that waits for the connection.  It ends when the
\* connection is up or timeout-- < 0; what follows looks at timeout only.
ConnectionUp(d) ==
    /\ dc[d].at = "up"
    /\ LET up == pppd_connect_status
           left == IF up THEN dc[d].timeout ELSE dc[d].timeout - 1
           ends == up \/ dc[d].timeout < 0
       IN  dc' = [dc EXCEPT ![d].up = up, ![d].timeout = left,
                            ![d].at = IF ~ends THEN "up"
                                      ELSE IF left < 0 THEN "giveUp" ELSE "report"]
    /\ UNCHANGED <<callFrame, signalVars, g_apn, off>>

\* stop_pppd and reportFakeDataCallList
GiveUp(d) ==
    /\ dc[d].at = "giveUp"
    /\ Write("STOP")
    /\ dc' = [dc EXCEPT ![d].at = "failed"]
    /\ UNCHANGED <<callFrame, g_apn, off>>

reportDataCallList(d) ==
    /\ dc[d].at = "report"
    /\ dc' = [dc EXCEPT ![d].at = "reported"]
    /\ UNCHANGED <<callFrame, signalVars, g_apn, off>>

dc_thread(d) ==
    \/ ChangeApn(d) \/ SameApn(d) \/ ConnectionDown(d) \/ start_pppd(d)
    \/ ConnectionUp(d) \/ GiveUp(d) \/ reportDataCallList(d)
-----------------------------------------------------------------------------
Step ==
    \/ PmStep \/ Tick \/ (\E h \in Handlers : signal_handler(h))
    \/ (\E p \in live : LinkUp(p) \/ Exit(p)) \/ LinkDown
    \/ RequestThread \/ NewRequest
    \/ \E d \in DataCalls : dc_thread(d) \/ \E apn \in Apns : launch_data_call(d, apn)

Next ==
    \/ process = "running" /\ Step
    \/ process = "hup" /\ UNCHANGED vars

Spec == Init /\ [][Next]_vars

\* Threads are scheduled, the timer ticks, and a pppd that was sent SIGHUP
\* exits.  Requests and data calls need not come.
FairSpec ==
    /\ Spec
    /\ WF_vars(process = "running" /\ PmStep)
    /\ WF_vars(process = "running" /\ Tick)
    /\ WF_vars(process = "running" /\ RequestThread)
    /\ WF_vars(process = "running" /\ (\E p \in live \cap doomed : Exit(p)))
    /\ \A h \in Handlers : WF_vars(process = "running" /\ signal_handler(h))
    /\ \A d \in DataCalls : WF_vars(process = "running" /\ dc_thread(d))
-----------------------------------------------------------------------------
(* Properties.                                                               *)

PmSteps == {"wait", "kill", "waitpid", "reap", "clear", "stopped", "fork", "assign"}

HandlerSteps == {"idle", "wait", "compare", "waitpid", "reap", "clear", "write"}

CallSteps == {"new", "begin", "down", "start", "up", "giveUp", "report", "failed",
              "reported"}

\* g_pm, the pipe and pm_thread.
ManagerTypes ==
    /\ stm \in States /\ pppid \in 0..MaxForks
    /\ pipe \in Seq(Sigs) /\ edge \in BOOLEAN
    /\ pm \in [at: PmSteps, pid: 0..MaxForks]

\* The processes and the handlers.
KernelTypes ==
    /\ live \subseteq Pids /\ zombies \subseteq Pids /\ doomed \subseteq Pids
    /\ forks \in 0..MaxForks /\ link \in 0..MaxForks /\ sigchld \in BOOLEAN
    /\ handler \in [Handlers -> [at: HandlerSteps, pid: -1..MaxForks, sig: Sigs]]
    /\ process \in {"running", "hup"}

\* The threads that ask.
CallerTypes ==
    /\ req \in {"idle", "down", "halt", "scan"} /\ requests \in 0..MaxRequests
    /\ dc \in [DataCalls -> [at: CallSteps, apn: Apns \cup {NoApn},
                             timeout: -2..timeout0, up: BOOLEAN]]
    /\ g_apn \in Apns \cup {NoApn} /\ off \in {"no", "asked", "yes"}

\* Every variable of the manager has its type; in particular the counter of
\* dc_thread goes no further down than -2.
TypeOK == ManagerTypes /\ KernelTypes /\ CallerTypes

\* wait_for_pppd_down and pppd_connect_status read g_pm.pppid and not g_pm.stm:
\* in the states in which pm_thread wants no pppd the two agree, whatever the
\* SIGCHLD handler does to g_pm.pppid meanwhile.
IdleMeansDown == pm.at = "wait" /\ stm \in {"IDLE", "HALTING"} => pppid = 0

\* g_pm.pppid is the only handle on the pppd process: every pppd that runs is
\* the one pm_thread knows, or the one it has just forked and not yet noted.
OwnPppd == live \subseteq IF pm.at = "assign" THEN {forks} ELSE {pppid}

\* _stop_pppd reads g_pm.pppid again after AT+CGACT=0, and kill(0, SIGHUP) is
\* the end of the RIL.  That takes a pppd that exits without having been told.
GroupHangupOnlyAfterExit ==
    process = "hup" => \E p \in 1..forks : p \notin live \cup doomed

\* The comment in the STOPPING case, "until pppd exit": the manager is idle only
\* when no pppd runs any more.
ExitedBeforeIdle == pm.at = "wait" /\ stm = "IDLE" => live = {}

\* The comment of reportFakeDataCallList, "so that framework will request data
\* call setup again when pppd connection not establish": dc_thread gives up
\* only if it found the connection down when it last looked.
FakeOnlyWhenDown ==
    \A d \in DataCalls : dc[d].at \in {"giveUp", "failed"} => ~dc[d].up

\* The comment in the EXCEPTION case, "do not restart the pppd by self, let the
\* system kown that network has downed and do reconnect the network": when a
\* deactivation is complete and its STOP has been read, the manager neither
\* starts nor runs a pppd until it is asked for one.
DeactivatedStaysDown ==
    off = "yes" /\ pm.at = "wait" /\ ~InPipe("STOP")
      => stm \notin {"STARTING", "RUNNING"}

\* The connection the manager keeps, as its callers see it.
Phase ==
    CASE stm = "IDLE" -> "off"
      [] stm \in {"STARTING", "RUNNING", "EXCEPTION"} -> "on"
      [] stm = "STOPPING" -> "stopping"
      [] stm = "HALTING" -> "halted"

Link == INSTANCE DataLink WITH
            phase <- Phase, running <- live, last <- forks, up <- (link # 0)

\* The manager implements DataLink: through every restart, failure and signal at
\* most one pppd runs, one is forked only while the connection is on, and "off"
\* and "on again" mean that the old one is gone.
LinkSpec == Link!Spec

\* A STOP that was accepted is carried out: the next TIMER that is not swallowed
\* by the read loop kills pppd, waits for it, and the manager is idle.
StopHonoured == stm = "STOPPING" ~> (stm = "IDLE" \/ process = "hup")

\* A pppd that was halted for a network scan is started again after it: the
\* request thread gets past wait_for_pppd_down, and its RESTART is not lost.
HaltedComesBack == stm = "HALTING" ~> (stm = "STARTING" \/ process = "hup")

\* Every data call is answered, with the list of calls or with the fake one.
DataCallAnswered ==
    \A d \in DataCalls :
       dc[d].at = "begin" ~> (dc[d].at \in {"reported", "failed"} \/ process = "hup")

\* A deactivation is answered if no data call is being set up at the same time:
\* the STOP reaches the manager, and the request thread sees g_pm.pppid == 0.
DeactivationCompletes ==
    (req = "down" /\ NoCallInProgress /\ InPipe("STOP"))
      ~> (req # "down" \/ ~NoCallInProgress \/ process = "hup")
=============================================================================

-------------------------- MODULE PppdManagerProofs --------------------------
(* Theorems about PppdManager, for any number of threads, data calls,        *)
(* requests and processes, whatever an uninitialised sig holds, and whether  *)
(* or not pppd and fork fail.                                                *)
EXTENDS PppdManager, TLAPS

-----------------------------------------------------------------------------
(* The inductive invariants.                                                 *)

\* The loop of dc_thread goes on with -1 at the least.
CounterInv == \A d \in DataCalls : dc[d].at = "up" => dc[d].timeout >= -1

\* pm_thread forks in STARTING only, and returns from _stop_pppd with a pid of
\* 0: nobody but pm_thread ever sets it to anything else.
StartsWhenDown ==
    /\ pm.at \in {"fork", "assign"} => stm = "STARTING"
    /\ pm.at = "stopped" => pppid = 0

IdleInv == StartsWhenDown /\ IdleMeansDown

Children == live \cup zombies

\* The one child there can be, running or a zombie.
OneChild ==
    /\ live \cap zombies = {}
    /\ Children \subseteq IF pm.at = "assign" THEN {forks} ELSE {pppid}

\* Where pm_thread knows that there is no child: it has waited for it, or is
\* about to fork.
NoChildAfterWait ==
    /\ pm.at \in {"clear", "fork"} => Children = {}
    /\ pm.at = "reap" => pm.pid = pppid \/ Children = {}

\* A handler on pm_thread that has returned from wait(NULL) has taken the only
\* child, and holds up the thread that could fork another.
NoChildInHandler ==
    PmThread \in Handlers /\ handler[PmThread].at \notin {"idle", "wait"} => Children = {}

\* An EXIT that RUNNING will see was written in RUNNING: the TIMER that led to
\* RUNNING emptied the pipe.
ExitMeansExit == stm = "RUNNING" /\ InPipe("EXIT") => Children = {}

OwnInv == OneChild /\ NoChildAfterWait /\ NoChildInHandler /\ ExitMeansExit

\* The pppd that _stop_pppd is about to kill was never sent SIGHUP before.
NotYetTold ==
    /\ doomed \subseteq 1..forks
    /\ pm.at # "assign" => pppid \in {0, forks}
    /\ pm.at \in {"wait", "fork"} /\ pppid # 0 => forks \notin doomed
    /\ pm.at \in {"kill", "assign"} => forks >= 1 /\ forks \notin doomed
    /\ process = "hup" => forks >= 1 /\ forks \notin live \cup doomed
-----------------------------------------------------------------------------
(* The pipe.                                                                 *)

\* A write adds nothing but the signal written.
LEMMA WriteFacts ==
    ASSUME pipe \in Seq(Sigs), NEW sig \in Sigs, Write(sig)
    PROVE  /\ pipe' \in Seq(Sigs)
           /\ edge' = TRUE
           /\ InPipe("EXIT")' => sig = "EXIT" \/ InPipe("EXIT")
<1>1. pipe' = pipe \/ pipe' = Append(pipe, sig)  BY DEF Write
<1>2. CASE pipe' = pipe  BY <1>2 DEF Write, InPipe
<1>3. CASE pipe' = Append(pipe, sig)
  <2>1. pipe' \in Seq(Sigs)  BY <1>3
  <2>2. Len(pipe') = Len(pipe) + 1
    BY <1>3
  <2>3. \A i \in 1..Len(pipe) : pipe'[i] = pipe[i]
    BY <1>3
  <2>4. pipe'[Len(pipe) + 1] = sig  BY <1>3
  <2>5. DOMAIN pipe = 1..Len(pipe) /\ DOMAIN pipe' = 1..(Len(pipe) + 1)
    BY <2>1, <2>2
  <2>6. ASSUME NEW i \in DOMAIN pipe', pipe'[i] = "EXIT"
        PROVE  sig = "EXIT" \/ InPipe("EXIT")
    <3>1. CASE i = Len(pipe) + 1  BY <2>4, <2>6, <3>1
    <3>2. CASE i # Len(pipe) + 1
      <4>1. i \in DOMAIN pipe  BY <2>5, <2>6, <3>2
      <4> QED  BY <4>1, <2>3, <2>5, <2>6 DEF InPipe
    <3> QED  BY <3>1, <3>2
  <2> QED  BY <2>1, <2>6 DEF Write, InPipe
<1> QED  BY <1>1, <1>2, <1>3

\* Reading takes signals away; a TIMER is returned only by emptying the pipe,
\* and any other signal was in it.
LEMMA ReadFacts ==
    ASSUME pipe \in Seq(Sigs), NEW sig, ReadSignal(sig)
    PROVE  /\ pipe' \in Seq(Sigs)
           /\ edge' = FALSE
           /\ InPipe("EXIT")' => InPipe("EXIT")
           /\ sig = "TIMER" => pipe' = <<>>
           /\ sig # "TIMER" => InPipe(sig)
<1>1. CASE sig = "TIMER" /\ pipe' = <<>>
  BY <1>1 DEF ReadSignal, InPipe
<1>2. ASSUME NEW i \in DOMAIN pipe, sig = pipe[i], sig # "TIMER",
             pipe' = SubSeq(pipe, i + 1, Len(pipe))
      PROVE  /\ pipe' \in Seq(Sigs)
             /\ InPipe("EXIT")' => InPipe("EXIT")
             /\ InPipe(sig)
  <2>1. i \in 1..Len(pipe)  OBVIOUS
  <2>2. pipe' \in Seq(Sigs) /\ Len(pipe') = Len(pipe) - i
    BY <1>2, <2>1
  <2>3. \A j \in 1..(Len(pipe) - i) : pipe'[j] = pipe[i + j] /\ i + j \in DOMAIN pipe
    BY <1>2, <2>1
  <2>4. DOMAIN pipe' = 1..(Len(pipe) - i)  BY <2>2
  <2> QED  BY <1>2, <2>2, <2>3, <2>4 DEF InPipe
<1> QED  BY <1>1, <1>2 DEF ReadSignal

-----------------------------------------------------------------------------
(* Types.                                                                    *)

\* The steps of pm_thread keep the types.
LEMMA TypePm ==
    ASSUME TypeOK, PmStep
    PROVE  TypeOK'
<1> USE PppdBounds
<1>1. CASE \E sig \in Sigs : pm_thread(sig)
  <2> PICK sig \in Sigs : pm_thread(sig)  BY <1>1
  <2>1. pipe' \in Seq(Sigs) /\ edge' \in BOOLEAN
    BY ReadFacts DEF TypeOK, ManagerTypes, pm_thread
  <2>2. stm' \in States /\ pm' \in [at: PmSteps, pid: 0..MaxForks]
    BY DEF TypeOK, ManagerTypes, pm_thread, Idle, Starting, Running, StopsOnTimer,
           Halting, EnterStop, Goto, States, PmSteps
  <2> QED
    BY <2>1, <2>2 DEF TypeOK, ManagerTypes, KernelTypes, CallerTypes, pm_thread,
           kernelVars, pmFrame, requestVars, callVars
<1>2. CASE Kill \/ EnterWaitpid \/ Reap \/ Clear
  <2>1. ManagerTypes'
    BY <1>2 DEF TypeOK, ManagerTypes, Kill, EnterWaitpid, Reap, Clear, Goto, At,
           PmSteps, signalVars
  <2>2. /\ live' = live /\ forks' = forks /\ link' = link /\ sigchld' = sigchld
        /\ zombies' \subseteq zombies /\ doomed' \subseteq doomed \cup live
        /\ handler' = handler /\ process' \in {process, "hup"}
        /\ UNCHANGED <<req, requests, dc, g_apn, off>>
    BY <1>2 DEF Kill, EnterWaitpid, Reap, WaitReturns, Clear, kernelVars, pmFrame,
           requestVars, callVars
  <2> QED  BY <2>1, <2>2 DEF TypeOK, KernelTypes, CallerTypes
<1>3. CASE Stopped \/ ForkFails \/ Assign \/ Fork
  <2>1. forks' \in 0..MaxForks /\ live' \subseteq Pids
    <3>1. CASE Fork
      <4>1. forks + 1 \in Pids /\ forks + 1 \in 0..MaxForks
        BY <3>1 DEF TypeOK, KernelTypes, Fork, Pids
      <4> QED  BY <3>1, <4>1 DEF TypeOK, KernelTypes, Fork
    <3>2. CASE Stopped \/ ForkFails \/ Assign
      BY <3>2 DEF TypeOK, KernelTypes, Stopped, ForkFails, Assign, kernelVars
    <3> QED  BY <1>3, <3>1, <3>2
  <2>2. ManagerTypes'
    BY <1>3 DEF TypeOK, ManagerTypes, KernelTypes, Stopped, ForkFails, Assign, Fork,
           Goto, PmSteps, States, signalVars
  <2>3. /\ link' = link /\ sigchld' = sigchld /\ zombies' = zombies /\ doomed' = doomed
        /\ handler' = handler /\ process' = process
        /\ UNCHANGED <<req, requests, dc, g_apn, off>>
    BY <1>3 DEF Stopped, ForkFails, Assign, Fork, kernelVars, pmFrame, requestVars,
           callVars
  <2> QED  BY <2>1, <2>2, <2>3 DEF TypeOK, KernelTypes, CallerTypes
<1> QED  BY <1>1, <1>2, <1>3 DEF PmStep

\* So do the handlers.
LEMMA TypeHandler ==
    ASSUME TypeOK, NEW h \in Handlers, signal_handler(h)
    PROVE  TypeOK'
<1> USE PppdBounds
<1>1. handler' \in [Handlers -> [at: HandlerSteps, pid: -1..MaxForks, sig: Sigs]]
  <2>1. CASE Deliver(h) \/ HandlerReap(h)
    BY <2>1 DEF TypeOK, KernelTypes, Deliver, HandlerReap, Moves, HandlerSteps
  <2>2. CASE WaitAny(h)
    BY <2>2 DEF TypeOK, KernelTypes, WaitAny, HandlerSteps, Pids
  <2>3. CASE Compare(h)
    BY <2>3, GarbageAssumption DEF TypeOK, KernelTypes, Compare, Moves, HandlerSteps
  <2>4. CASE HandlerWaitpid(h)
    <3>1. pppid \in -1..MaxForks  BY DEF TypeOK, ManagerTypes
    <3> QED  BY <2>4, <3>1 DEF TypeOK, KernelTypes, HandlerWaitpid, HandlerSteps
  <2>5. CASE HandlerClear(h)
    BY <2>5 DEF TypeOK, KernelTypes, HandlerClear, HandlerSteps, Sigs, Signals
  <2>6. CASE HandlerWrite(h)
    BY <2>6 DEF TypeOK, KernelTypes, HandlerWrite, HandlerSteps, Sigs
  <2> QED  BY <2>1, <2>2, <2>3, <2>4, <2>5, <2>6 DEF signal_handler
<1>2. pipe' \in Seq(Sigs) /\ edge' \in BOOLEAN
  <2>1. CASE HandlerWrite(h)
    <3>1. handler[h].sig \in Sigs  BY DEF TypeOK, KernelTypes
    <3> QED  BY <2>1, <3>1, WriteFacts DEF TypeOK, ManagerTypes, HandlerWrite
  <2>2. CASE ~HandlerWrite(h)
    BY <2>2 DEF signal_handler, Deliver, WaitAny, Compare, HandlerWaitpid, HandlerReap,
           HandlerClear, TypeOK, ManagerTypes, signalVars
  <2> QED  BY <2>1, <2>2
<1>3. /\ pppid' \in {pppid, 0} /\ zombies' \subseteq zombies
      /\ sigchld' \in {sigchld, FALSE}
      /\ UNCHANGED <<stm, pm, live, doomed, forks, link, process, req, requests, dc,
                     g_apn, off>>
  BY DEF signal_handler, Deliver, WaitAny, Compare, HandlerWaitpid, HandlerReap,
         HandlerClear, HandlerWrite, WaitReturns, handlerFrame, requestVars, callVars
<1>4. pppid' \in 0..MaxForks  BY <1>3 DEF TypeOK, ManagerTypes
<1>5. ManagerTypes'  BY <1>2, <1>3, <1>4 DEF TypeOK, ManagerTypes
<1>6. KernelTypes'
  <2>1. sigchld' \in BOOLEAN  BY <1>3 DEF TypeOK, KernelTypes
  <2> QED  BY <1>1, <1>3, <2>1 DEF TypeOK, KernelTypes
<1>7. CallerTypes'  BY <1>3 DEF TypeOK, CallerTypes
<1> QED  BY <1>5, <1>6, <1>7 DEF TypeOK

\* So do the timer, pppd and the request thread.
LEMMA TypeOutside ==
    ASSUME TypeOK,
           \/ Tick \/ (\E p \in live : LinkUp(p) \/ Exit(p)) \/ LinkDown
           \/ RequestThread \/ NewRequest
    PROVE  TypeOK'
<1> USE PppdBounds
<1>1. CASE Tick
  <2>1. pipe' \in Seq(Sigs) /\ edge' \in BOOLEAN
    BY <1>1, WriteFacts DEF Tick, TypeOK, ManagerTypes, Sigs, Signals
  <2> QED
    BY <1>1, <2>1 DEF Tick, TypeOK, ManagerTypes, KernelTypes, CallerTypes, kernelVars,
           requestVars, callVars
<1>2. CASE (\E p \in live : LinkUp(p) \/ Exit(p)) \/ LinkDown
  <2>1. UNCHANGED <<stm, pppid, pipe, edge, pm, doomed, forks, handler, process, req,
                    requests, dc, g_apn, off>>
    BY <1>2 DEF LinkUp, LinkDown, Exit, pppdFrame, signalVars, requestVars, callVars
  <2>2. /\ live' \subseteq live /\ zombies' \subseteq live \cup zombies
        /\ sigchld' \in {TRUE, sigchld}
    BY <1>2 DEF LinkUp, LinkDown, Exit, pppdFrame
  <2>3. link' \in 0..MaxForks
    BY <1>2 DEF LinkUp, LinkDown, Exit, TypeOK, KernelTypes, Pids
  <2>4. sigchld' \in BOOLEAN  BY <2>2 DEF TypeOK, KernelTypes
  <2> QED
    BY <2>1, <2>2, <2>3, <2>4 DEF TypeOK, ManagerTypes, KernelTypes, CallerTypes
<1>3. CASE RequestThread \/ NewRequest
  <2>1. pipe' \in Seq(Sigs) /\ edge' \in BOOLEAN
    <3>1. CASE wait_for_pppd_down \/ halt_pppd
      BY <3>1 DEF wait_for_pppd_down, halt_pppd, signalVars, TypeOK, ManagerTypes
    <3>2. CASE restart_pppd \/ NewRequest
      <4>1. \E sig \in Sigs : Write(sig)
        BY <3>2 DEF restart_pppd, NewRequest, requestDeactivateDataCall,
               requestRadioPower, StopAndWait, requestQueryAvailableNetworks,
               requestScreenState, mainLoop, Sigs, Signals
      <4> QED  BY <4>1, WriteFacts DEF TypeOK, ManagerTypes
    <3> QED  BY <1>3, <3>1, <3>2 DEF RequestThread
  <2>2. /\ req' \in {"idle", "down", "halt", "scan"}
        /\ requests' = requests \/ (requests < MaxRequests /\ requests' = requests + 1)
    BY <1>3 DEF RequestThread, wait_for_pppd_down, halt_pppd, restart_pppd, NewRequest,
           requestDeactivateDataCall, requestRadioPower, StopAndWait, MayRequest,
           requestQueryAvailableNetworks, requestScreenState, mainLoop,
           TypeOK, CallerTypes
  <2>3. requests' \in 0..MaxRequests  BY <2>2 DEF TypeOK, CallerTypes
  <2>4. off' \in {"no", "asked", "yes"}
    BY <1>3 DEF RequestThread, wait_for_pppd_down, halt_pppd, restart_pppd, NewRequest,
           requestDeactivateDataCall, requestRadioPower, StopAndWait,
           requestQueryAvailableNetworks, requestScreenState, mainLoop,
           TypeOK, CallerTypes
  <2>5. UNCHANGED requestFrame
    BY <1>3 DEF RequestThread, wait_for_pppd_down, halt_pppd, restart_pppd, NewRequest,
           requestDeactivateDataCall, requestRadioPower, StopAndWait,
           requestQueryAvailableNetworks, requestScreenState, mainLoop
  <2> QED
    BY <2>1, <2>2, <2>3, <2>4, <2>5 DEF requestFrame, kernelVars, callVars, TypeOK,
           ManagerTypes, KernelTypes, CallerTypes
<1> QED  BY <1>1, <1>2, <1>3

\* So do the data calls: the counter is decremented only while the loop goes
\* on, the last time at -1.
LEMMA TypeCall ==
    ASSUME TypeOK, CounterInv, NEW d \in DataCalls,
           dc_thread(d) \/ \E apn \in Apns : launch_data_call(d, apn)
    PROVE  TypeOK' /\ CounterInv'
<1> USE PppdBounds
<1> DEFINE Records == [at: CallSteps, apn: Apns \cup {NoApn}, timeout: -2..timeout0,
                       up: BOOLEAN]
<1>1. dc \in [DataCalls -> Records]  BY DEF TypeOK, CallerTypes
<1>2. dc' \in [DataCalls -> Records]
  <2>1. CASE \E apn \in Apns : launch_data_call(d, apn)
    <3> PICK apn \in Apns : launch_data_call(d, apn)  BY <2>1
    <3> DEFINE r == [dc[d] EXCEPT !.at = "begin", !.apn = apn]
    <3>1. dc' = [dc EXCEPT ![d] = r]  BY DEF launch_data_call
    <3>2. r \in Records  BY <1>1 DEF CallSteps
    <3> HIDE DEF r, Records
    <3> QED  BY <1>1, <3>1, <3>2
  <2>2. CASE ChangeApn(d) \/ SameApn(d) \/ ConnectionDown(d) \/ GiveUp(d)
               \/ reportDataCallList(d)
    BY <1>1, <2>2 DEF ChangeApn, SameApn, ConnectionDown, GiveUp, reportDataCallList,
           CallSteps
  <2>3. CASE start_pppd(d)
    <3> DEFINE r == [dc[d] EXCEPT !.at = "up", !.timeout = timeout0]
    <3>1. timeout0 \in -2..timeout0  OBVIOUS
    <3>2. dc' = [dc EXCEPT ![d] = r]  BY <2>3 DEF start_pppd
    <3>3. r \in Records  BY <1>1, <3>1 DEF CallSteps
    <3> HIDE DEF r, Records
    <3> QED  BY <1>1, <3>2, <3>3
  <2>4. CASE ConnectionUp(d)
    <3> DEFINE up == pppd_connect_status
               left == IF up THEN dc[d].timeout ELSE dc[d].timeout - 1
    <3>1. up \in BOOLEAN  BY DEF pppd_connect_status
    <3>2. PICK a \in CallSteps :
             dc' = [dc EXCEPT ![d].up = up, ![d].timeout = left, ![d].at = a]
      BY <2>4 DEF ConnectionUp, CallSteps
    <3>3. left \in -2..timeout0
      <4>1. dc[d].timeout \in -1..timeout0
        BY <1>1, <2>4 DEF ConnectionUp, CounterInv
      <4>2. left = dc[d].timeout \/ left = dc[d].timeout - 1  OBVIOUS
      <4> QED  BY <4>1, <4>2
    <3> HIDE DEF up, left
    <3> DEFINE r == [dc[d] EXCEPT !.up = up, !.timeout = left, !.at = a]
    <3>4. dc' = [dc EXCEPT ![d] = r]  BY <3>2
    <3>5. r \in Records  BY <1>1, <3>1, <3>3
    <3> HIDE DEF r, Records
    <3> QED  BY <1>1, <3>4, <3>5
  <2> QED  BY <2>1, <2>2, <2>3, <2>4 DEF dc_thread
<1>3. pipe' \in Seq(Sigs) /\ edge' \in BOOLEAN
  <2>1. CASE \E sig \in Sigs : Write(sig)
    BY <2>1, WriteFacts DEF TypeOK, ManagerTypes
  <2>2. CASE UNCHANGED signalVars
    BY <2>2 DEF signalVars, TypeOK, ManagerTypes
  <2> QED
    BY <2>1, <2>2 DEF dc_thread, launch_data_call, ChangeApn, SameApn, ConnectionDown,
           start_pppd, ConnectionUp, GiveUp, reportDataCallList, Sigs, Signals
<1>4. /\ UNCHANGED callFrame
      /\ g_apn' \in {g_apn, dc[d].apn} /\ off' \in {off, "no"}
  BY DEF dc_thread, launch_data_call, ChangeApn, SameApn, ConnectionDown,
         start_pppd, ConnectionUp, GiveUp, reportDataCallList
<1>5. g_apn' \in Apns \cup {NoApn}  BY <1>1, <1>4 DEF TypeOK, CallerTypes
<1>6. TypeOK'
  BY <1>2, <1>3, <1>4, <1>5 DEF callFrame, kernelVars, requestVars, TypeOK,
         ManagerTypes, KernelTypes, CallerTypes
<1>7. \A e \in DataCalls \ {d} : dc'[e] = dc[e]
  BY <1>1 DEF dc_thread, launch_data_call, ChangeApn, SameApn, ConnectionDown,
         start_pppd, ConnectionUp, GiveUp, reportDataCallList
<1>8. dc'[d].at = "up" => dc'[d].timeout >= -1
  <2>1. CASE start_pppd(d)
    <3>1. dc'[d].timeout = timeout0  BY <1>1, <2>1 DEF start_pppd
    <3> QED  BY <3>1
  <2>2. CASE ConnectionUp(d)
    <3>1. dc[d].timeout \in -1..timeout0
      BY <1>1, <2>2 DEF ConnectionUp, CounterInv
    <3>2. dc'[d].at = "up" => /\ dc[d].timeout >= 0
                              /\ dc'[d].timeout = dc[d].timeout - 1
      BY <1>1, <2>2, <3>1 DEF ConnectionUp
    <3> QED  BY <3>1, <3>2
  <2>3. CASE ~start_pppd(d) /\ ~ConnectionUp(d)
    <3>1. dc'[d].at # "up"
      BY <1>1, <2>3 DEF dc_thread, launch_data_call, ChangeApn, SameApn, ConnectionDown,
             GiveUp, reportDataCallList
    <3> QED  BY <3>1
  <2> QED  BY <2>1, <2>2, <2>3
<1> QED  BY <1>6, <1>7, <1>8 DEF CounterInv

\* Every step keeps the types, and the counters in their range.
LEMMA TypeNext ==
    ASSUME TypeOK, CounterInv, [Next]_vars
    PROVE  TypeOK' /\ CounterInv'
<1>1. CASE UNCHANGED vars
  BY <1>1 DEF vars, signalVars, kernelVars, requestVars, callVars, TypeOK, ManagerTypes,
         KernelTypes, CallerTypes, CounterInv
<1>2. CASE \E d \in DataCalls : dc_thread(d) \/ \E apn \in Apns : launch_data_call(d, apn)
  BY <1>2, TypeCall
<1>3. CASE PmStep
  <2>1. dc' = dc
    BY <1>3 DEF PmStep, pm_thread, Kill, EnterWaitpid, Reap, Clear, Stopped, Fork,
           ForkFails, Assign, pmFrame, callVars
  <2> QED  BY <1>3, <2>1, TypePm DEF CounterInv
<1>4. CASE \E h \in Handlers : signal_handler(h)
  <2>1. dc' = dc
    BY <1>4 DEF signal_handler, Deliver, WaitAny, Compare, HandlerWaitpid, HandlerReap,
           HandlerClear, HandlerWrite, handlerFrame, callVars
  <2> QED  BY <1>4, <2>1, TypeHandler DEF CounterInv
<1>5. CASE \/ Tick \/ (\E p \in live : LinkUp(p) \/ Exit(p)) \/ LinkDown
           \/ RequestThread \/ NewRequest
  <2>1. dc' = dc
    BY <1>5 DEF Tick, LinkUp, LinkDown, Exit, pppdFrame, RequestThread,
           wait_for_pppd_down, halt_pppd, restart_pppd, NewRequest,
           requestDeactivateDataCall, requestRadioPower, StopAndWait,
           requestQueryAvailableNetworks, requestScreenState, mainLoop, requestFrame,
           callVars
  <2> QED  BY <1>5, <2>1, TypeOutside DEF CounterInv
<1> QED  BY <1>1, <1>2, <1>3, <1>4, <1>5 DEF Next, Step

\* Every variable of the manager keeps its type; in particular the counter of
\* dc_thread never falls below -2, whatever its first value.
THEOREM TypeCorrect == Spec => []TypeOK
<1>1. Init => TypeOK /\ CounterInv
  <2> SUFFICES ASSUME Init PROVE TypeOK /\ CounterInv  OBVIOUS
  <2>1. /\ 0 \in 0..MaxForks /\ 0 \in -1..MaxForks
        /\ 0 \in 0..MaxRequests /\ 0 \in -2..timeout0
    BY PppdBounds
  <2>2. pipe \in Seq(Sigs)  BY DEF Init
  <2>3. ManagerTypes  BY <2>1, <2>2 DEF Init, ManagerTypes, States, PmSteps
  <2>4. KernelTypes  BY <2>1 DEF Init, KernelTypes, HandlerSteps, Sigs
  <2>5. CallerTypes  BY <2>1 DEF Init, CallerTypes, CallSteps
  <2>6. CounterInv  BY DEF Init, CounterInv
  <2> QED  BY <2>3, <2>4, <2>5, <2>6 DEF TypeOK
<1>2. TypeOK /\ CounterInv /\ [Next]_vars => TypeOK' /\ CounterInv'  BY TypeNext
<1> QED  BY <1>1, <1>2, PTL DEF Spec
-----------------------------------------------------------------------------
(* g_pm.pppid and g_pm.stm agree.                                            *)

\* The steps of those who only ask: the timer, the request thread, the data
\* calls.  All they change for the manager is the pipe, and none writes EXIT.
Asks ==
    \/ Tick \/ RequestThread \/ NewRequest
    \/ \E d \in DataCalls : dc_thread(d) \/ \E apn \in Apns : launch_data_call(d, apn)

\* Asking leaves the manager and the kernel alone.
LEMMA AsksFrame ==
    ASSUME TypeOK, Asks
    PROVE  /\ UNCHANGED <<stm, pppid, pm, live, zombies, doomed, forks, handler, process>>
           /\ InPipe("EXIT")' => InPipe("EXIT")
<1>1. UNCHANGED <<stm, pppid, pm, live, zombies, doomed, forks, handler, process>>
  BY DEF Asks, Tick, RequestThread, wait_for_pppd_down, halt_pppd, restart_pppd,
         NewRequest, requestDeactivateDataCall, requestRadioPower, StopAndWait,
         requestQueryAvailableNetworks, requestScreenState, mainLoop, requestFrame,
         dc_thread, launch_data_call, ChangeApn, SameApn, ConnectionDown, start_pppd,
         ConnectionUp, GiveUp, reportDataCallList, callFrame, kernelVars
<1>2. \/ \E sig \in {"START", "STOP", "TIMER", "WAKEUP", "HALT", "RESTART"} : Write(sig)
      \/ UNCHANGED pipe
  BY DEF Asks, Tick, RequestThread, wait_for_pppd_down, halt_pppd, restart_pppd,
         NewRequest, requestDeactivateDataCall, requestRadioPower, StopAndWait,
         requestQueryAvailableNetworks, requestScreenState, mainLoop,
         dc_thread, launch_data_call, ChangeApn, SameApn, ConnectionDown, start_pppd,
         ConnectionUp, GiveUp, reportDataCallList, signalVars
<1>3. InPipe("EXIT")' => InPipe("EXIT")
  <2>1. CASE UNCHANGED pipe  BY <2>1 DEF InPipe
  <2>2. ASSUME NEW sig \in {"START", "STOP", "TIMER", "WAKEUP", "HALT", "RESTART"},
               Write(sig)
        PROVE  InPipe("EXIT")' => InPipe("EXIT")
    <3>1. sig \in Sigs /\ sig # "EXIT"  BY DEF Sigs, Signals
    <3> QED  BY <2>2, <3>1, WriteFacts DEF TypeOK, ManagerTypes
  <2> QED  BY <1>2, <2>1, <2>2
<1> QED  BY <1>1, <1>3

\* A handler leaves pm_thread where it is, and sets the pid to nothing but 0.
LEMMA HandlerFrame ==
    ASSUME NEW h \in Handlers, signal_handler(h)
    PROVE  UNCHANGED <<stm, pm, live, doomed, forks, process>> /\ pppid' \in {pppid, 0}
BY DEF signal_handler, Deliver, WaitAny, Compare, HandlerWaitpid, HandlerReap,
       HandlerClear, HandlerWrite, handlerFrame

\* pppd touches nothing of the manager.
LEMMA PppdFrame ==
    ASSUME (\E p \in live : LinkUp(p) \/ Exit(p)) \/ LinkDown
    PROVE  /\ UNCHANGED <<stm, pppid, pipe, pm, doomed, forks, handler, process>>
           /\ live' \cup zombies' = live \cup zombies
           /\ live' \subseteq live
           /\ live \cap zombies = {} => live' \cap zombies' = {}
BY DEF LinkUp, LinkDown, Exit, pppdFrame, signalVars

\* pm_thread forks in STARTING only and is idle only with a pid of 0.
LEMMA IdlePm ==
    ASSUME IdleInv, TypeOK, PmStep
    PROVE  IdleInv'
<1> USE DEF IdleInv, StartsWhenDown, IdleMeansDown
<1>1. CASE \E sig \in Sigs : pm_thread(sig)
  <2> PICK sig \in Sigs : pm_thread(sig)  BY <1>1
  <2>1. pm.at = "wait" /\ pppid' = pppid  BY DEF pm_thread, At
  <2>2. CASE stm = "IDLE" /\ Idle(sig)
    BY <2>1, <2>2 DEF Idle, Goto
  <2>3. CASE stm = "STARTING" /\ Starting(sig)
    BY <2>1, <2>3 DEF Starting
  <2>4. CASE stm = "RUNNING" /\ Running(sig)
    BY <2>1, <2>4 DEF Running, EnterStop, Goto
  <2>5. CASE stm \in {"EXCEPTION", "STOPPING"} /\ StopsOnTimer(sig)
    BY <2>1, <2>5 DEF StopsOnTimer, EnterStop, Goto
  <2>6. CASE stm = "HALTING" /\ Halting(sig)
    BY <2>1, <2>6 DEF Halting, Goto
  <2> QED  BY <2>2, <2>3, <2>4, <2>5, <2>6 DEF pm_thread
<1>2. CASE Kill \/ EnterWaitpid \/ Reap \/ Clear
  BY <1>2 DEF Kill, EnterWaitpid, Reap, Clear, Goto
<1>3. CASE Stopped
  BY <1>3 DEF Stopped, At, Goto
<1>4. CASE Fork \/ ForkFails \/ Assign
  BY <1>4 DEF Fork, ForkFails, Assign, At, Goto
<1> QED  BY <1>1, <1>2, <1>3, <1>4 DEF PmStep

\* Every step keeps them.
LEMMA IdleNext ==
    ASSUME IdleInv, TypeOK, [Next]_vars
    PROVE  IdleInv'
<1> USE DEF IdleInv, StartsWhenDown, IdleMeansDown
<1>1. CASE UNCHANGED vars  BY <1>1 DEF vars
<1>2. CASE PmStep  BY <1>2, IdlePm
<1>3. CASE \E h \in Handlers : signal_handler(h)
  <2>1. UNCHANGED <<stm, pm>> /\ pppid' \in {pppid, 0}  BY <1>3, HandlerFrame
  <2> QED  BY <2>1
<1>4. CASE (\E p \in live : LinkUp(p) \/ Exit(p)) \/ LinkDown
  BY <1>4, PppdFrame
<1>5. CASE Asks  BY <1>5, AsksFrame
<1> QED  BY <1>1, <1>2, <1>3, <1>4, <1>5 DEF Next, Step, Asks

\* Whichever threads SIGCHLD is delivered to, and however often: when pm_thread
\* waits in IDLE or HALTING, those who poll g_pm.pppid see 0.
THEOREM IdleTheorem == Spec => []IdleMeansDown
<1>1. Init => IdleInv  BY DEF Init, IdleInv, StartsWhenDown, IdleMeansDown
<1>2. IdleInv /\ TypeOK /\ [Next]_vars => IdleInv'  BY IdleNext
<1>3. IdleInv => IdleMeansDown  BY DEF IdleInv
<1> QED  BY <1>1, <1>2, <1>3, TypeCorrect, PTL DEF Spec
-----------------------------------------------------------------------------
(* The manager never loses a pppd, if SIGCHLD is handled on pm_thread.       *)

\* 0 is no pid: where g_pm.pppid is 0 there is no child.
LEMMA NoPidNoChild ==
    ASSUME TypeOK, OneChild, pm.at # "assign", pppid = 0
    PROVE  Children = {}
<1>1. Children \subseteq Pids /\ Children \subseteq {0}
  BY DEF TypeOK, KernelTypes, OneChild, Children
<1>2. 0 \notin Pids  BY PppdBounds DEF Pids
<1> QED  BY <1>1, <1>2

\* Reading a signal: pm_thread goes on to fork only if there is no child, and
\* to RUNNING only with an empty pipe.
LEMMA OwnRead ==
    ASSUME OwnInv, IdleInv, TypeOK, NEW sig \in Sigs, pm_thread(sig)
    PROVE  OwnInv'
<1>1. /\ pm.at = "wait"
      /\ UNCHANGED <<pppid, live, zombies, forks, handler>>
  BY DEF pm_thread, At, kernelVars, pmFrame
<1>2. /\ InPipe("EXIT")' => InPipe("EXIT")
      /\ sig = "TIMER" => ~InPipe("EXIT")'
      /\ sig # "TIMER" => InPipe(sig)
  <2>1. pipe \in Seq(Sigs) /\ ReadSignal(sig)  BY DEF pm_thread, TypeOK, ManagerTypes
  <2>2. pipe' = <<>> => ~InPipe("EXIT")'  BY DEF InPipe
  <2> QED  BY <2>1, <2>2, ReadFacts
<1>3. /\ pm'.at \in {"wait", "kill", "stopped", "fork"}
      /\ pm'.at = "fork" => \/ stm \in {"IDLE", "HALTING"}
                            \/ stm = "RUNNING" /\ sig = "EXIT"
      /\ stm' = "RUNNING" => stm = "RUNNING" \/ sig = "TIMER"
  BY <1>1 DEF pm_thread, Idle, Starting, Running, StopsOnTimer, Halting, EnterStop, Goto
<1>4. OneChild'  BY <1>1, <1>3 DEF OwnInv, OneChild, Children
<1>5. pm'.at = "fork" => Children = {}
  <2>1. CASE stm \in {"IDLE", "HALTING"}
    <3>1. pppid = 0  BY <1>1, <2>1 DEF IdleInv, IdleMeansDown
    <3> QED  BY <1>1, <3>1, NoPidNoChild DEF OwnInv
  <2>2. CASE stm = "RUNNING" /\ sig = "EXIT"
    BY <1>2, <2>2 DEF OwnInv, ExitMeansExit
  <2> QED  BY <1>3, <2>1, <2>2
<1>6. NoChildAfterWait'  BY <1>1, <1>3, <1>5 DEF NoChildAfterWait, Children
<1>7. NoChildInHandler'  BY <1>1 DEF OwnInv, NoChildInHandler, Children
<1>8. ExitMeansExit'  BY <1>1, <1>2, <1>3 DEF OwnInv, ExitMeansExit, Children
<1> QED  BY <1>4, <1>6, <1>7, <1>8 DEF OwnInv

\* _stop_pppd: after its waitpid there is no child.
LEMMA OwnStop ==
    ASSUME OwnInv, IdleInv, TypeOK, Kill \/ EnterWaitpid \/ Reap \/ Clear \/ Stopped
    PROVE  OwnInv'
<1>1. CASE Kill \/ EnterWaitpid
  <2>1. /\ pm.at \in {"kill", "waitpid"}
        /\ pm'.at = "waitpid" \/ (pm'.at = "reap" /\ pm'.pid = pppid)
        /\ UNCHANGED <<stm, pppid, pipe, live, zombies, forks, handler>>
    BY <1>1 DEF Kill, EnterWaitpid, At, Goto, kernelVars, pmFrame, signalVars
  <2> QED
    BY <2>1 DEF OwnInv, OneChild, NoChildAfterWait, NoChildInHandler, ExitMeansExit,
           Children, InPipe
<1>2. CASE Reap
  <2>1. /\ pm.at = "reap" /\ pm'.at = "clear"
        /\ WaitReturns(pm.pid)
        /\ UNCHANGED <<stm, pppid, pipe, live, forks, handler>>
    BY <1>2 DEF Reap, At, Goto, pmFrame, signalVars
  <2>2. zombies' \subseteq zombies  BY <2>1 DEF WaitReturns
  <2>3. Children' = {}
    <3>1. CASE Children = {}  BY <2>1, <2>2, <3>1 DEF Children
    <3>2. CASE pm.pid = pppid /\ Children # {}
      <4>1. pppid # 0 /\ Children = {pppid}
        BY <2>1, <3>2, NoPidNoChild DEF OwnInv, OneChild
      <4>2. zombies' = zombies \ {pppid} /\ pppid \in zombies
        BY <2>1, <3>2, <4>1 DEF WaitReturns, Children
      <4> QED  BY <2>1, <4>1, <4>2 DEF Children, OwnInv, OneChild
    <3> QED  BY <2>1, <3>1, <3>2 DEF OwnInv, NoChildAfterWait
  <2> QED
    BY <2>1, <2>3 DEF OwnInv, OneChild, NoChildAfterWait, NoChildInHandler,
           ExitMeansExit, Children
<1>3. CASE Clear
  <2>1. /\ pm.at = "clear" /\ pm'.at = "stopped"
        /\ UNCHANGED <<stm, pipe, live, zombies, forks, handler>>
    BY <1>3 DEF Clear, At, Goto, kernelVars, pmFrame, signalVars
  <2>2. Children' = {}  BY <2>1 DEF OwnInv, NoChildAfterWait, Children
  <2> QED
    BY <2>1, <2>2 DEF OwnInv, OneChild, NoChildAfterWait, NoChildInHandler,
           ExitMeansExit, Children
<1>4. CASE Stopped
  <2>1. /\ pm.at = "stopped" /\ pm'.at \in {"fork", "wait"} /\ stm' # "RUNNING"
        /\ UNCHANGED <<pppid, live, zombies, forks, handler>>
    BY <1>4 DEF Stopped, At, Goto, kernelVars, pmFrame, IdleInv, StartsWhenDown
  <2>2. Children' = {}
    <3>1. Children = {}
      BY <2>1, NoPidNoChild DEF OwnInv, IdleInv, StartsWhenDown
    <3> QED  BY <2>1, <3>1 DEF Children
  <2> QED
    BY <2>1, <2>2 DEF OwnInv, OneChild, NoChildAfterWait, NoChildInHandler,
           ExitMeansExit, Children
<1> QED  BY <1>1, <1>2, <1>3, <1>4

\* _start_pppd: the new child is the only one.
LEMMA OwnStart ==
    ASSUME OwnInv, IdleInv, TypeOK, Fork \/ ForkFails \/ Assign
    PROVE  OwnInv'
<1>1. stm' = "STARTING" /\ UNCHANGED <<pipe, zombies, handler>>
  BY DEF Fork, ForkFails, Assign, At, IdleInv, StartsWhenDown, kernelVars, pmFrame,
         signalVars
<1>2. CASE Fork
  <2>1. /\ pm.at = "fork" /\ pm'.at = "assign" /\ PmRuns
        /\ live' = live \cup {forks + 1} /\ forks' = forks + 1
    BY <1>2 DEF Fork, At, Goto
  <2>2. live = {} /\ zombies = {}
    BY <2>1 DEF OwnInv, NoChildAfterWait, Children
  <2> QED
    BY <1>1, <2>1, <2>2 DEF OwnInv, OneChild, NoChildAfterWait, NoChildInHandler, PmRuns,
           ExitMeansExit, Children
<1>3. CASE ForkFails
  <2>1. /\ pm.at = "fork" /\ pm'.at = "wait"
        /\ UNCHANGED <<live, forks, pppid>>
    BY <1>3 DEF ForkFails, At, Goto, kernelVars
  <2> QED
    BY <1>1, <2>1 DEF OwnInv, OneChild, NoChildAfterWait, NoChildInHandler,
           ExitMeansExit, Children
<1>4. CASE Assign
  <2>1. /\ pm.at = "assign" /\ pm'.at = "wait"
        /\ pppid' = forks /\ UNCHANGED <<live, forks>>
    BY <1>4 DEF Assign, At, Goto, kernelVars
  <2> QED
    BY <1>1, <2>1 DEF OwnInv, OneChild, NoChildAfterWait, NoChildInHandler,
           ExitMeansExit, Children
<1> QED  BY <1>2, <1>3, <1>4

\* The handler on pm_thread: what it has waited for was the only child.
LEMMA OwnHandler ==
    ASSUME OwnInv, TypeOK, PmThread \in Handlers, signal_handler(PmThread)
    PROVE  OwnInv'
<1> DEFINE h == PmThread
<1>1. handler \in [Handlers -> [at: HandlerSteps, pid: -1..MaxForks, sig: Sigs]]
  BY DEF TypeOK, KernelTypes
<1>2. UNCHANGED <<stm, pm, live, forks>> /\ zombies' \subseteq zombies
  BY DEF signal_handler, Deliver, WaitAny, Compare, HandlerWaitpid, HandlerReap,
         HandlerClear, HandlerWrite, WaitReturns, handlerFrame
<1>3. CASE Deliver(h)
  <2>1. UNCHANGED <<pppid, pipe, zombies>> /\ handler'[h].at = "wait"
    BY <1>1, <1>3 DEF Deliver, Moves, signalVars
  <2> QED
    BY <1>2, <2>1 DEF OwnInv, OneChild, NoChildAfterWait, NoChildInHandler,
           ExitMeansExit, Children, InPipe
<1>4. CASE WaitAny(h)
  <2>1. UNCHANGED <<pppid, pipe>>  BY <1>4 DEF WaitAny, signalVars
  <2>2. Children' = {}
    <3>1. CASE \E z \in zombies : zombies' = zombies \ {z}
      BY <1>2, <3>1 DEF OwnInv, OneChild, Children
    <3>2. CASE live \cup zombies = {}  BY <1>2, <3>2 DEF Children
    <3> QED  BY <1>4, <3>1, <3>2 DEF WaitAny
  <2> QED
    BY <1>2, <2>1, <2>2 DEF OwnInv, OneChild, NoChildAfterWait, NoChildInHandler,
           ExitMeansExit, Children
<1>5. CASE ~Deliver(h) /\ ~WaitAny(h)
  <2>1. handler[h].at \notin {"idle", "wait"}
    BY <1>5 DEF signal_handler, Compare, HandlerWaitpid, HandlerReap, HandlerClear,
           HandlerWrite, Moves
  <2>2. Children' = {}  BY <1>2, <2>1 DEF OwnInv, NoChildInHandler, Children
  <2> QED
    BY <1>2, <2>2 DEF OwnInv, OneChild, NoChildAfterWait, NoChildInHandler,
           ExitMeansExit, Children
<1> QED  BY <1>3, <1>4, <1>5

\* Every step keeps the invariant.
LEMMA OwnNext ==
    ASSUME Handlers = {PmThread}, OwnInv, IdleInv, TypeOK, [Next]_vars
    PROVE  OwnInv'
<1> USE DEF OwnInv, OneChild, NoChildAfterWait, NoChildInHandler, ExitMeansExit, Children
<1>1. CASE UNCHANGED vars
  BY <1>1 DEF vars, signalVars, kernelVars, InPipe
<1>2. CASE PmStep
  BY <1>2, OwnRead, OwnStop, OwnStart DEF PmStep
<1>3. CASE \E h \in Handlers : signal_handler(h)
  BY <1>3, OwnHandler
<1>4. CASE (\E p \in live : LinkUp(p) \/ Exit(p)) \/ LinkDown
  BY <1>4, PppdFrame DEF InPipe
<1>5. CASE Asks  BY <1>5, AsksFrame
<1> QED  BY <1>1, <1>2, <1>3, <1>4, <1>5 DEF Next, Step, Asks

\* The invariants hold together.
LEMMA OwnInductive ==
    ASSUME Handlers = {PmThread}
    PROVE  Spec => [](OwnInv /\ IdleInv /\ TypeOK)
<1>1. Init => IdleInv  BY DEF Init, IdleInv, StartsWhenDown, IdleMeansDown
<1>2. IdleInv /\ TypeOK /\ [Next]_vars => IdleInv'  BY IdleNext
<1>3. Init => OwnInv
  BY DEF Init, OwnInv, OneChild, NoChildAfterWait, NoChildInHandler, ExitMeansExit,
         Children
<1>4. OwnInv /\ IdleInv /\ TypeOK /\ [Next]_vars => OwnInv'  BY OwnNext
<1> QED  BY <1>1, <1>2, <1>3, <1>4, TypeCorrect, PTL DEF Spec

\* Every pppd that runs is the one g_pm.pppid names, or is about to name, as
\* long as SIGCHLD is handled on pm_thread: whatever an uninitialised sig holds,
\* whenever pppd exits, and whether or not fork succeeds.
THEOREM OwnTheorem ==
    ASSUME Handlers = {PmThread}
    PROVE  Spec => []OwnPppd
<1>1. OwnInv => OwnPppd  BY DEF OwnInv, OneChild, OwnPppd, Children
<1> QED  BY <1>1, OwnInductive, PTL
-----------------------------------------------------------------------------
(* kill(0, SIGHUP).                                                          *)

\* pm_thread goes to kill a pppd that was never told, and every pppd that was
\* told is forgotten before pm_thread waits again.
LEMMA ToldPm ==
    ASSUME NotYetTold, OwnInv, IdleInv, TypeOK, PmStep, process = "running"
    PROVE  NotYetTold'
<1>1. forks \in Nat /\ pppid \in Nat  BY PppdBounds DEF TypeOK, KernelTypes, ManagerTypes
<1>2. CASE \E sig \in Sigs : pm_thread(sig)
  <2> PICK sig \in Sigs : pm_thread(sig)  BY <1>2
  <2>1. /\ pm.at = "wait"
        /\ UNCHANGED <<pppid, live, doomed, forks, process>>
    BY DEF pm_thread, At, kernelVars, pmFrame
  <2>2. /\ pm'.at \in {"wait", "kill", "stopped", "fork"}
        /\ pm'.at = "kill" => pppid # 0
    BY <2>1 DEF pm_thread, Idle, Starting, Running, StopsOnTimer, Halting, EnterStop, Goto
  <2> QED  BY <1>1, <2>1, <2>2 DEF NotYetTold
<1>3. CASE Kill
  <2>1. /\ pm.at = "kill" /\ pm'.at = "waitpid"
        /\ UNCHANGED <<pppid, live, forks>>
    BY <1>3 DEF Kill, At, Goto
  <2>2. CASE pppid = 0
    <3>1. Children = {}  BY <2>1, <2>2, NoPidNoChild DEF OwnInv
    <3>2. UNCHANGED doomed  BY <1>3, <2>2 DEF Kill
    <3> QED  BY <2>1, <3>1, <3>2 DEF NotYetTold, Children
  <2>3. CASE pppid # 0
    <3>1. doomed' \subseteq doomed \cup {pppid} /\ UNCHANGED process
      BY <1>3, <2>3 DEF Kill
    <3> QED  BY <1>1, <2>1, <2>3, <3>1 DEF NotYetTold
  <2> QED  BY <2>2, <2>3
<1>4. CASE EnterWaitpid \/ Reap \/ Clear
  <2>1. /\ pm.at # "assign"
        /\ pm'.at \in {"reap", "clear", "stopped"} /\ pppid' \in {pppid, 0}
        /\ UNCHANGED <<live, doomed, forks, process>>
    BY <1>4 DEF EnterWaitpid, Reap, Clear, At, Goto, kernelVars, pmFrame
  <2> QED  BY <2>1 DEF NotYetTold
<1>5. CASE Stopped
  <2>1. /\ pm'.at \in {"fork", "wait"} /\ pppid = 0
        /\ UNCHANGED <<pppid, live, doomed, forks, process>>
    BY <1>5 DEF Stopped, At, Goto, kernelVars, pmFrame, IdleInv, StartsWhenDown
  <2> QED  BY <2>1 DEF NotYetTold
<1>6. CASE Fork
  <2>1. /\ pm.at = "fork" /\ pm'.at = "assign" /\ forks' = forks + 1
        /\ UNCHANGED <<pppid, doomed, process>>
    BY <1>6 DEF Fork, At, Goto, pmFrame
  <2>2. forks' \notin doomed /\ forks' >= 1 /\ doomed \subseteq 1..forks'
    BY <1>1, <2>1 DEF NotYetTold
  <2> QED  BY <2>1, <2>2 DEF NotYetTold
<1>7. CASE ForkFails
  <2>1. /\ pm.at = "fork" /\ pm'.at = "wait"
        /\ UNCHANGED <<pppid, live, doomed, forks, process>>
    BY <1>7 DEF ForkFails, At, Goto, kernelVars, pmFrame
  <2> QED  BY <2>1 DEF NotYetTold
<1>8. CASE Assign
  <2>1. /\ pm.at = "assign" /\ pm'.at = "wait" /\ pppid' = forks
        /\ UNCHANGED <<live, doomed, forks, process>>
    BY <1>8 DEF Assign, At, Goto, kernelVars, pmFrame
  <2> QED  BY <2>1 DEF NotYetTold
<1> QED  BY <1>2, <1>3, <1>4, <1>5, <1>6, <1>7, <1>8 DEF PmStep

\* Every step keeps it; after the hangup there are no more steps.
LEMMA ToldNext ==
    ASSUME NotYetTold, OwnInv, IdleInv, TypeOK, [Next]_vars
    PROVE  NotYetTold'
<1>1. CASE UNCHANGED vars
  BY <1>1 DEF vars, kernelVars, NotYetTold
<1>2. CASE process = "running" /\ PmStep  BY <1>2, ToldPm
<1>3. CASE \E h \in Handlers : signal_handler(h)
  <2>1. UNCHANGED <<stm, pm, live, doomed, forks, process>> /\ pppid' \in {pppid, 0}
    BY <1>3, HandlerFrame
  <2> QED  BY <2>1 DEF NotYetTold
<1>4. CASE (\E p \in live : LinkUp(p) \/ Exit(p)) \/ LinkDown
  <2>1. UNCHANGED <<pppid, pm, doomed, forks, process>> /\ live' \subseteq live
    BY <1>4, PppdFrame
  <2> QED  BY <2>1 DEF NotYetTold
<1>5. CASE Asks
  <2>1. UNCHANGED <<pppid, pm, live, doomed, forks, process>>  BY <1>5, AsksFrame
  <2> QED  BY <2>1 DEF NotYetTold
<1> QED  BY <1>1, <1>2, <1>3, <1>4, <1>5 DEF Next, Step, Asks

\* The RIL hangs itself up, by kill(0, SIGHUP), only after a pppd that was not
\* told to exit has done so, if SIGCHLD is handled on pm_thread.
THEOREM HangupTheorem ==
    ASSUME Handlers = {PmThread}
    PROVE  Spec => []GroupHangupOnlyAfterExit
<1>1. Init => NotYetTold  BY DEF Init, NotYetTold
<1>2. NotYetTold /\ OwnInv /\ IdleInv /\ TypeOK /\ [Next]_vars => NotYetTold'
  BY ToldNext
<1>3. NotYetTold /\ TypeOK => GroupHangupOnlyAfterExit
  <2> SUFFICES ASSUME NotYetTold, TypeOK, process = "hup"
               PROVE  \E p \in 1..forks : p \notin live \cup doomed
    BY DEF GroupHangupOnlyAfterExit
  <2>1. forks \in 1..forks
    BY PppdBounds DEF TypeOK, KernelTypes, NotYetTold
  <2> QED  BY <2>1 DEF NotYetTold
<1> QED  BY <1>1, <1>2, <1>3, OwnInductive, PTL DEF Spec
-----------------------------------------------------------------------------
(* The manager implements DataLink, if SIGCHLD is handled on pm_thread.      *)

\* ppp0 is the interface of a pppd that runs.
LinkOwned == link # 0 => link \in live

\* Every step keeps it: the interface goes with its pppd.
LEMMA LinkOwnedNext ==
    ASSUME LinkOwned, TypeOK, [Next]_vars
    PROVE  LinkOwned'
<1> USE DEF LinkOwned
<1>1. CASE UNCHANGED vars  BY <1>1 DEF vars, kernelVars
<1>2. CASE PmStep
  <2>1. UNCHANGED link /\ live \subseteq live'
    BY <1>2 DEF PmStep, pm_thread, Kill, EnterWaitpid, Reap, Clear, Stopped, Fork,
           ForkFails, Assign, kernelVars
  <2> QED  BY <2>1
<1>3. CASE \E h \in Handlers : signal_handler(h)
  BY <1>3 DEF signal_handler, Deliver, WaitAny, Compare, HandlerWaitpid, HandlerReap,
         HandlerClear, HandlerWrite, handlerFrame
<1>4. CASE (\E p \in live : LinkUp(p) \/ Exit(p)) \/ LinkDown
  BY <1>4 DEF LinkUp, LinkDown, Exit
<1>5. CASE Asks
  <2>1. UNCHANGED <<live, link>>
    BY <1>5 DEF Asks, Tick, RequestThread, wait_for_pppd_down, halt_pppd, restart_pppd,
         NewRequest, requestDeactivateDataCall, requestRadioPower, StopAndWait,
         requestQueryAvailableNetworks, requestScreenState, mainLoop, requestFrame,
         dc_thread, launch_data_call, ChangeApn, SameApn, ConnectionDown, start_pppd,
         ConnectionUp, GiveUp, reportDataCallList, callFrame, kernelVars
  <2> QED  BY <2>1
<1> QED  BY <1>1, <1>2, <1>3, <1>4, <1>5 DEF Next, Step, Asks

\* Reading a signal is a change of phase, or nothing at all; the connection goes
\* on only from a state in which there is no pppd.
LEMMA LinkRead ==
    ASSUME OwnInv, IdleInv, TypeOK, NEW sig \in Sigs, pm_thread(sig)
    PROVE  Link!Next \/ UNCHANGED Link!linkVars
<1> USE DEF Phase
<1>1. pm.at = "wait" /\ UNCHANGED <<live, forks, link>>
  BY DEF pm_thread, At, kernelVars
<1>2. stm \in {"IDLE", "HALTING"} => live = {}
  BY <1>1, NoPidNoChild DEF OwnInv, IdleInv, IdleMeansDown, Children
<1>3. \/ UNCHANGED stm
      \/ stm = "IDLE" /\ stm' = "STARTING"
      \/ stm \in {"STARTING", "RUNNING"} /\ stm' \in {"STARTING", "RUNNING", "EXCEPTION"}
      \/ stm \in {"STARTING", "RUNNING"} /\ stm' = "STOPPING"
      \/ stm = "RUNNING" /\ stm' = "HALTING"
      \/ stm = "HALTING" /\ stm' = "STARTING"
  BY DEF pm_thread, Idle, Starting, Running, StopsOnTimer, Halting
<1>4. \/ UNCHANGED Phase
      \/ Phase = "off" /\ Phase' = "on" /\ live = {}
      \/ Phase = "on" /\ Phase' \in {"stopping", "halted"}
      \/ Phase = "halted" /\ Phase' = "on" /\ live = {}
  BY <1>2, <1>3 DEF TypeOK, ManagerTypes, States
<1> HIDE DEF Phase
<1> QED
  BY <1>1, <1>4 DEF Link!Next, Link!linkVars, Link!TurnOn, Link!TurnOff, Link!Halt,
         Link!Resume, Link!Phase

\* So are the other steps of pm_thread: it forks when no pppd is left, and
\* returns to IDLE when none is.
LEMMA LinkPm ==
    ASSUME OwnInv, IdleInv, TypeOK, PmStep
    PROVE  Link!Next \/ UNCHANGED Link!linkVars
<1>1. CASE \E sig \in Sigs : pm_thread(sig)  BY <1>1, LinkRead
<1>2. CASE Kill \/ EnterWaitpid \/ Reap \/ Clear \/ ForkFails \/ Assign
  <2>1. UNCHANGED <<stm, live, forks, link>>
    BY <1>2 DEF Kill, EnterWaitpid, Reap, Clear, ForkFails, Assign, kernelVars
  <2> QED  BY <2>1 DEF Link!linkVars, Phase
<1>3. CASE Stopped
  <2>1. pm.at = "stopped" /\ live = {} /\ UNCHANGED <<live, forks, link>>
    <3>1. pm.at = "stopped" /\ pppid = 0
      BY <1>3 DEF Stopped, At, IdleInv, StartsWhenDown
    <3> QED  BY <1>3, <3>1, NoPidNoChild DEF OwnInv, Children, Stopped, kernelVars
  <2>2. \/ UNCHANGED stm
        \/ stm = "EXCEPTION" /\ stm' = "STARTING"
        \/ stm = "STOPPING" /\ stm' = "IDLE"
    BY <1>3 DEF Stopped
  <2>3. UNCHANGED Phase \/ (Phase = "stopping" /\ Phase' = "off")
    BY <2>2 DEF Phase
  <2> QED  BY <2>1, <2>3 DEF Link!Next, Link!linkVars, Link!Off, Link!Phase
<1>4. CASE Fork
  <2>1. live = {} /\ stm = "STARTING"
    BY <1>4 DEF Fork, At, OwnInv, NoChildAfterWait, Children, IdleInv, StartsWhenDown
  <2>2. /\ live' = {forks + 1} /\ forks' = forks + 1
        /\ UNCHANGED <<stm, link>>
    BY <1>4, <2>1 DEF Fork
  <2> QED  BY <2>1, <2>2 DEF Link!Next, Link!Start, Phase
<1> QED  BY <1>1, <1>2, <1>3, <1>4 DEF PmStep

\* A pppd that exits was the only one, and takes its interface with it.
LEMMA LinkPppd ==
    ASSUME OwnInv, LinkOwned, TypeOK, (\E p \in live : LinkUp(p) \/ Exit(p)) \/ LinkDown
    PROVE  Link!Next \/ UNCHANGED Link!linkVars
<1>1. CASE \E p \in live : LinkUp(p)
  <2> PICK p \in live : LinkUp(p)  BY <1>1
  <2>1. p # 0  BY PppdBounds DEF TypeOK, KernelTypes, Pids
  <2>2. link = 0 /\ link' = p /\ UNCHANGED <<stm, live, forks>>
    BY DEF LinkUp, pppdFrame
  <2> QED  BY <2>1, <2>2 DEF Link!Next, Link!LinkUp, Phase
<1>2. CASE \E p \in live : Exit(p)
  <2> PICK p \in live : Exit(p)  BY <1>2
  <2>1. live = {p}  BY DEF OwnInv, OneChild, Children
  <2>2. live' = {} /\ link' = 0 /\ UNCHANGED <<stm, forks>>
    BY <2>1 DEF Exit, LinkOwned
  <2> QED  BY <2>1, <2>2 DEF Link!Next, Link!Exit, Phase
<1>3. CASE LinkDown
  <2>1. link # 0 /\ link' = 0 /\ UNCHANGED <<stm, live, forks>>
    BY <1>3 DEF LinkDown, pppdFrame
  <2> QED  BY <2>1 DEF Link!Next, Link!LinkDown, Phase
<1> QED  BY <1>1, <1>2, <1>3

\* Every step of the system is a step of DataLink or leaves it alone.
LEMMA LinkNext ==
    ASSUME OwnInv, IdleInv, LinkOwned, TypeOK, [Next]_vars
    PROVE  [Link!Next]_(Link!linkVars)
<1>1. CASE UNCHANGED vars
  BY <1>1 DEF vars, kernelVars, Link!linkVars, Phase
<1>2. CASE PmStep  BY <1>2, LinkPm
<1>3. CASE \E h \in Handlers : signal_handler(h)
  <2>1. UNCHANGED <<stm, live, forks, link>>
    BY <1>3 DEF signal_handler, Deliver, WaitAny, Compare, HandlerWaitpid, HandlerReap,
         HandlerClear, HandlerWrite, handlerFrame
  <2> QED  BY <2>1 DEF Link!linkVars, Phase
<1>4. CASE (\E p \in live : LinkUp(p) \/ Exit(p)) \/ LinkDown  BY <1>4, LinkPppd
<1>5. CASE Asks
  <2>1. UNCHANGED <<stm, live, forks, link>>
    BY <1>5 DEF Asks, Tick, RequestThread, wait_for_pppd_down, halt_pppd, restart_pppd,
         NewRequest, requestDeactivateDataCall, requestRadioPower, StopAndWait,
         requestQueryAvailableNetworks, requestScreenState, mainLoop, requestFrame,
         dc_thread, launch_data_call, ChangeApn, SameApn, ConnectionDown, start_pppd,
         ConnectionUp, GiveUp, reportDataCallList, callFrame, kernelVars
  <2> QED  BY <2>1 DEF Link!linkVars, Phase
<1> QED  BY <1>1, <1>2, <1>3, <1>4, <1>5 DEF Next, Step, Asks

\* The pppd manager implements DataLink as long as SIGCHLD is handled on
\* pm_thread: the initial states map to the initial state, and every step to a
\* step or a stutter.
THEOREM LinkTheorem ==
    ASSUME Handlers = {PmThread}
    PROVE  Spec => LinkSpec
<1>1. Init => LinkOwned  BY DEF Init, LinkOwned
<1>2. LinkOwned /\ TypeOK /\ [Next]_vars => LinkOwned'  BY LinkOwnedNext
<1>3. Init => Link!Init  BY DEF Init, Link!Init, Phase
<1>4. OwnInv /\ IdleInv /\ LinkOwned /\ TypeOK /\ [Next]_vars
        => [Link!Next]_(Link!linkVars)
  BY LinkNext
<1> QED
  BY <1>1, <1>2, <1>3, <1>4, OwnInductive, PTL DEF Spec, LinkSpec, Link!Spec
=============================================================================

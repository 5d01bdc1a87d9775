------------------------------ MODULE ATChannel ------------------------------
(* The AT command channel of atchannel.c: the threads that issue commands,   *)
(* the reader thread that answers them, the two mutexes and the condition    *)
(* variable between them, and the two callbacks of sxx-ril.c that close the  *)
(* channel.  The modem at the other end of the tty is the environment.       *)
(*                                                                           *)
(* Steps that the code runs while it holds s_commandmutex are one action,    *)
(* enabled when the mutex is free; s_commandmutex is a variable because      *)
(* at_handshake keeps it over several steps.                                 *)
EXTENDS Integers, Sequences, FiniteSets

CONSTANTS
    Threads,      \* the threads that issue AT commands
    Handshakers,  \* those of them that also call at_handshake
    Nobody,       \* owner of a free mutex
    Commands,     \* the commands that can be issued, see Command
    Prefixes,     \* response prefixes such as "+CREG:"
    NoPrefix,     \* s_responsePrefix == NULL
    UrcKinds,     \* the kinds of line the modem sends of its own accord
    HANDSHAKE_RETRY_COUNT,
    MaxCalls,     \* bound: calls per thread
    MaxInfos,     \* bound: intermediate lines per command
    MaxUrcs,      \* bound: unsolicited lines
    MaxSessions,  \* bound: how often mainLoop opens the channel
    PauseDrains   \* TRUE: the pause of at_handshake outlasts the modem's answers

Types == {"NO_RESULT", "NUMERIC", "SINGLELINE", "MULTILINE"}

\* The arguments of a call.  longRun: the command is in exclude_command_list;
\* out: pp_outResponse is not NULL; pdu: an SMS body follows the prompt.
Command ==
    [via: {"full", "handshake"}, type: Types, prefix: Prefixes \cup {NoPrefix},
     pdu: BOOLEAN, longRun: BOOLEAN, out: BOOLEAN]

HandshakeCommand ==
    [via |-> "handshake", type |-> "NO_RESULT", prefix |-> NoPrefix,
     pdu |-> FALSE, longRun |-> FALSE, out |-> FALSE]

\* One representative of every class of line that processLine tells apart.
LineKinds == {"OK", "CONNECT", "ERROR", "NO CARRIER", "RING", "+CMT", "PDU",
              "> ", "digits", "info", "none"}

\* A line remembers the command it answers (0: none), whether that was a
\* handshake probe, and its place among the lines of the answer.
Line == [kind: LineKinds, prefix: Prefixes \cup {NoPrefix}, id: Nat,
         probe: BOOLEAN, n: Nat]

NoLine == [kind |-> "none", prefix |-> NoPrefix, id |-> 0, probe |-> FALSE, n |-> 0]

ASSUME ThreadsAssumption == Nobody \notin Threads /\ Handshakers \subseteq Threads
ASSUME PrefixAssumption  == NoPrefix \notin Prefixes
ASSUME CommandAssumption == Commands \subseteq {c \in Command : c.via = "full"}
ASSUME UrcAssumption     == UrcKinds \subseteq {"RING", "CONNECT", "NO CARRIER", "+CMT", "+CREG"}
ASSUME BoundAssumption   ==
    /\ HANDSHAKE_RETRY_COUNT \in Nat \ {0}
    /\ MaxCalls \in Nat /\ MaxInfos \in Nat /\ MaxUrcs \in Nat /\ MaxSessions \in Nat
    /\ PauseDrains \in BOOLEAN

\* ATResponse, and the thread and the command it was allocated for.
Response == [id: Nat, owner: Threads \cup {Nobody}, success: BOOLEAN,
             finalResponse: Line, p_intermediates: Seq(Line)]

NULL == [id |-> 0, owner |-> Nobody, success |-> FALSE,
         finalResponse |-> NoLine, p_intermediates |-> <<>>]

\* A command the modem has received: the lines it has answered so far, and
\* whether the prompt for an SMS body is still to come or out.
ModemEntry == [id: Nat, cmd: Command, infos: Nat, stage: {"prompt", "prompted", "run"}]

\* "NONE" is the return value 0.
Errors == {"NONE", "GENERIC", "COMMAND_PENDING", "CHANNEL_CLOSED", "TIMEOUT",
           "INVALID_RESPONSE"}

VARIABLES
    pc,              \* where each thread is
    call,            \* the arguments of its current call
    calls,           \* number of calls it has made
    tries,           \* loop counter of at_handshake
    got,             \* what its last call returned
    commandmutex,    \* serialises at_send_command_full
    s_commandmutex,  \* protects the pending command
    sp_response, s_type, s_responsePrefix, s_smsPDU,   \* the pending command
    s_fd,            \* is the descriptor open
    s_readerClosed,
    s_closed,        \* of sxx-ril.c: tells mainLoop to open the channel again
    reader,          \* the reader thread: where it is and the line it holds
    process,         \* "running", "exit" (onATTimeout) or "segv"
    session,         \* number of calls of at_open
    \* the modem
    modem,           \* commands received and not yet answered
    wire,            \* lines sent and not yet read
    urcs,            \* number of unsolicited lines sent
    hung,            \* the device is gone: reads return EOF
    \* history
    sent,            \* number of commands written; numbers them
    ctrlZ,           \* the SMS bodies written, with the prompt they answered
    intruded,        \* a pending command was cleared under its waiter
    paused           \* value of sent at the end of the last handshake pause

callVars    == <<call, calls, tries, got>>
pendingVars == <<sp_response, s_type, s_responsePrefix, s_smsPDU>>
closeVars   == <<s_fd, s_readerClosed, s_closed>>
modemVars   == <<modem, wire, urcs, hung>>
history     == <<sent, ctrlZ, intruded, paused>>
vars == <<pc, callVars, commandmutex, s_commandmutex, pendingVars, closeVars,
          reader, process, session, modemVars, history>>
-----------------------------------------------------------------------------
(* The tables of processLine and readerLoop.                                 *)

isFinalResponseError(line)   == line.kind \in {"ERROR", "NO CARRIER"}
\* Mutant: an intermediate line ends the command.
isFinalResponseSuccess_Infos(line) == line.kind \in {"OK", "CONNECT", "info"}
isFinalResponseSuccess(line) == line.kind \in {"OK", "CONNECT"}
isSMSUnsolicited(line)       == line.kind = "+CMT"
isUnsolicited(line)          == line.kind \in {"RING", "CONNECT"}

\* pthread_cond_signal: one of the waiting threads, if there is one, wakes.
Signalled(p) ==
    LET waiting == {t \in Threads : p[t] = "wait"}
    IN  IF waiting = {} THEN {p} ELSE {[p EXCEPT ![t] = "woken"] : t \in waiting}

\* A thread inside at_send_command_full_nolock after it has sent its command.
Blocked(t) == pc[t] \in {"wait", "woken", "timedout"}

NoCall == [err |-> "NONE", type |-> "NO_RESULT", id |-> 0, response |-> NULL]

Init ==
    /\ pc = [t \in Threads |-> "idle"]
    /\ call = [t \in Threads |-> HandshakeCommand]
    /\ calls = [t \in Threads |-> 0]
    /\ tries = [t \in Threads |-> 0]
    /\ got = [t \in Threads |-> NoCall]
    /\ commandmutex = Nobody /\ s_commandmutex = Nobody
    /\ sp_response = NULL /\ s_type = "NO_RESULT"
    /\ s_responsePrefix = NoPrefix /\ s_smsPDU = 0
    /\ s_fd = TRUE /\ s_readerClosed = FALSE /\ s_closed = FALSE
    /\ reader = [at |-> "read", line |-> NoLine]
    /\ process = "running" /\ session = 1
    /\ modem = <<>> /\ wire = <<>> /\ urcs = 0 /\ hung = FALSE
    /\ sent = 0 /\ ctrlZ = {} /\ intruded = FALSE /\ paused = 0
-----------------------------------------------------------------------------
(* Returning from at_send_command_full_nolock and its callers.               *)

clearPendingCommand ==
    /\ sp_response' = NULL
    /\ s_responsePrefix' = NoPrefix
    /\ s_smsPDU' = 0
    /\ UNCHANGED s_type

\* The singleline, numeric and sms wrappers: a success without an
\* intermediate response is an error, and the response is freed.
NeedsIntermediate(c) == c.type \in {"SINGLELINE", "NUMERIC"} /\ c.out

InvalidResponse(c, err, resp) ==
    NeedsIntermediate(c) /\ err = "NONE" /\ resp.success /\ resp.p_intermediates = <<>>

Outcome(c, err, id, resp) ==
    IF InvalidResponse(c, err, resp)
      THEN [err |-> "INVALID_RESPONSE", type |-> c.type, id |-> id, response |-> NULL]
      ELSE [err |-> err, type |-> c.type, id |-> id,
            response |-> IF c.out THEN resp ELSE NULL]

\* The tail of at_send_command_full: both mutexes are released, then the
\* timeout callback runs.
FullReturns(t, err, id, resp) ==
    /\ got' = [got EXCEPT ![t] = Outcome(call[t], err, id, resp)]
    /\ pc' = [pc EXCEPT ![t] = IF err = "TIMEOUT" THEN "onTimeout" ELSE "idle"]
    /\ commandmutex' = Nobody
    /\ s_commandmutex' = Nobody
    /\ UNCHANGED tries

\* The loop of at_handshake: it stops at the first success, which is followed
\* by the pause, or when the tries are used up.  The mutex stays held.
\* Mutant: one try too many.
HandshakeLast_OffByOne(t) == tries[t] = HANDSHAKE_RETRY_COUNT
HandshakeLast(t) == tries[t] + 1 = HANDSHAKE_RETRY_COUNT

HandshakeReturns(t, err, id) ==
    LET last == HandshakeLast(t)
    IN  /\ tries' = [tries EXCEPT ![t] = IF err = "NONE" \/ last THEN 0 ELSE tries[t] + 1]
        /\ got' = IF err = "NONE" \/ last
                    THEN [got EXCEPT ![t] = Outcome(call[t], err, id, NULL)]
                    ELSE got
        /\ pc' = [pc EXCEPT ![t] = IF err = "NONE" THEN "hsSleep"
                                   ELSE IF last THEN "idle" ELSE "hsTry"]
        /\ s_commandmutex' = IF err # "NONE" /\ last THEN Nobody ELSE t
        /\ UNCHANGED commandmutex

NolockReturns(t, err, id, resp) ==
    /\ \/ call[t].via = "full" /\ FullReturns(t, err, id, resp)
       \/ call[t].via = "handshake" /\ HandshakeReturns(t, err, id)
    /\ UNCHANGED <<call, calls>>
-----------------------------------------------------------------------------
(* The threads that issue commands.                                          *)

\* at_send_command, _singleline, _numeric, _multiline, _sms: all of them call
\* at_send_command_full.
Call(t, c) ==
    /\ pc[t] = "idle" /\ calls[t] < MaxCalls
    /\ pc' = [pc EXCEPT ![t] = "lock"]
    /\ call' = [call EXCEPT ![t] = c]
    /\ calls' = [calls EXCEPT ![t] = @ + 1]
    /\ UNCHANGED <<tries, got, commandmutex, s_commandmutex, pendingVars,
                   closeVars, reader, process, session, modemVars, history>>

\* Mutant: commandmutex is not waited for.
LockCommandMutex_NoMutex(t) ==
    /\ pc[t] = "lock"
    /\ commandmutex' = t
    /\ pc' = [pc EXCEPT ![t] = "send"]
    /\ UNCHANGED <<callVars, s_commandmutex, pendingVars, closeVars, reader,
                   process, session, modemVars, history>>

\* pthread_mutex_lock(&commandmutex) of at_send_command_full
LockCommandMutex(t) ==
    /\ pc[t] = "lock" /\ commandmutex = Nobody
    /\ commandmutex' = t
    /\ pc' = [pc EXCEPT ![t] = "send"]
    /\ UNCHANGED <<callVars, s_commandmutex, pendingVars, closeVars, reader,
                   process, session, modemVars, history>>

\* at_handshake: it takes s_commandmutex only.
CallHandshake(t) ==
    /\ t \in Handshakers /\ pc[t] = "idle" /\ calls[t] < MaxCalls
    /\ s_commandmutex = Nobody
    /\ s_commandmutex' = t
    /\ pc' = [pc EXCEPT ![t] = "hsTry"]
    /\ call' = [call EXCEPT ![t] = HandshakeCommand]
    /\ calls' = [calls EXCEPT ![t] = @ + 1]
    /\ UNCHANGED <<tries, got, commandmutex, pendingVars, closeVars, reader,
                   process, session, modemVars, history>>

\* The thread is at the start of at_send_command_full_nolock and has the mutex.
MaySend(t) ==
    \/ pc[t] = "send" /\ s_commandmutex = Nobody
    \/ pc[t] = "hsTry" /\ s_commandmutex = t

\* A command is pending: the error path clears it, whoever it belongs to.
SendPending(t) ==
    /\ MaySend(t) /\ sp_response # NULL
    /\ clearPendingCommand
    /\ intruded' = TRUE
    /\ NolockReturns(t, "COMMAND_PENDING", 0, NULL)
    /\ UNCHANGED <<closeVars, reader, process, session, modemVars, sent, ctrlZ,
                   paused>>

\* writeline fails: the channel is closed, or write() returns an error.
writelineErrors ==
    IF ~s_fd \/ s_readerClosed THEN {"CHANNEL_CLOSED"}
    ELSE IF hung THEN {"GENERIC"} ELSE {}

SendFails(t) ==
    /\ MaySend(t) /\ sp_response = NULL
    /\ \E err \in writelineErrors :
         /\ clearPendingCommand
         /\ NolockReturns(t, err, 0, NULL)
    /\ UNCHANGED <<closeVars, reader, process, session, modemVars, history>>

\* The command is written and the thread waits for s_commandcond, which
\* releases the mutex.
SendWaits(t) ==
    /\ MaySend(t) /\ sp_response = NULL /\ writelineErrors = {}
    /\ sent' = sent + 1
    /\ modem' = Append(modem, [id |-> sent + 1, cmd |-> call[t], infos |-> 0,
                               stage |-> IF call[t].pdu THEN "prompt" ELSE "run"])
    /\ s_type' = call[t].type
    /\ s_responsePrefix' = call[t].prefix
    /\ s_smsPDU' = IF call[t].pdu THEN sent + 1 ELSE 0
    /\ sp_response' = [NULL EXCEPT !.id = sent + 1, !.owner = t]
    /\ s_commandmutex' = Nobody
    /\ pc' = [pc EXCEPT ![t] = "wait"]
    /\ UNCHANGED <<callVars, commandmutex, closeVars, reader, process, session,
                   wire, urcs, hung, ctrlZ, intruded, paused>>

\* check_need_protect gives every command but the long-running ones a timeout
\* of AT_TIMEOUT_PROTECT; the probes of at_handshake have their own.
\* Mutants: exclude_command_list is ignored; no command has a timeout.
check_need_protect_Always(c) == TRUE
check_need_protect_Never(c) == FALSE
check_need_protect(c) == ~c.longRun

\* The wait times out: the thread leaves the wait set and wants the mutex.
TimeoutFires(t) ==
    /\ pc[t] = "wait" /\ check_need_protect(call[t])
    /\ pc' = [pc EXCEPT ![t] = "timedout"]
    /\ UNCHANGED <<callVars, commandmutex, s_commandmutex, pendingVars,
                   closeVars, reader, process, session, modemVars, history>>

\* A wait may return without a signal.
SpuriousWakeup(t) ==
    /\ pc[t] = "wait"
    /\ pc' = [pc EXCEPT ![t] = "woken"]
    /\ UNCHANGED <<callVars, commandmutex, s_commandmutex, pendingVars,
                   closeVars, reader, process, session, modemVars, history>>

\* err == ETIMEDOUT: the error path, without another look at finalResponse.
TimedOut(t) ==
    /\ pc[t] = "timedout" /\ s_commandmutex = Nobody
    /\ clearPendingCommand
    /\ NolockReturns(t, "TIMEOUT", 0, NULL)
    /\ UNCHANGED <<closeVars, reader, process, session, modemVars, history>>

\* The loop condition reads sp_response->finalResponse: with no pending
\* command that is a NULL dereference.
WakeCrashes(t) ==
    /\ pc[t] = "woken" /\ s_commandmutex = Nobody /\ sp_response = NULL
    /\ process' = "segv"
    /\ UNCHANGED <<pc, callVars, commandmutex, s_commandmutex, pendingVars,
                   closeVars, reader, session, modemVars, history>>

WakeAgain(t) ==
    /\ pc[t] = "woken" /\ s_commandmutex = Nobody /\ sp_response # NULL
    /\ sp_response.finalResponse = NoLine /\ ~s_readerClosed
    /\ pc' = [pc EXCEPT ![t] = "wait"]
    /\ UNCHANGED <<callVars, commandmutex, s_commandmutex, pendingVars,
                   closeVars, reader, process, session, modemVars, history>>

\* The line reader stores intermediate responses in reverse order.
\* Mutant: they are not turned round.
reverseIntermediates_Missing(resp) == resp
reverseIntermediates(resp) ==
    LET s == resp.p_intermediates
    IN  [resp EXCEPT !.p_intermediates = [i \in 1..Len(s) |-> s[Len(s) + 1 - i]]]

\* Mutant: the loop around the wait is missing.
WakeReturns_WithoutLoop(t) ==
    /\ pc[t] = "woken" /\ s_commandmutex = Nobody /\ sp_response # NULL
    /\ clearPendingCommand
    /\ NolockReturns(t, IF s_readerClosed THEN "CHANNEL_CLOSED" ELSE "NONE",
                     sp_response.id, reverseIntermediates(sp_response))
    /\ UNCHANGED <<closeVars, reader, process, session, modemVars, history>>

\* The wait is over: the response is handed to the caller.
WakeReturns(t) ==
    /\ pc[t] = "woken" /\ s_commandmutex = Nobody /\ sp_response # NULL
    /\ sp_response.finalResponse # NoLine \/ s_readerClosed
    /\ clearPendingCommand
    /\ NolockReturns(t, IF s_readerClosed THEN "CHANNEL_CLOSED" ELSE "NONE",
                     sp_response.id, reverseIntermediates(sp_response))
    /\ UNCHANGED <<closeVars, reader, process, session, modemVars, history>>

\* The modem has answered all it was sent and the reader can read no more,
\* because the wire is empty or because it is blocked on s_commandmutex.
Drained == modem = <<>> /\ (wire = <<>> \/ reader.at \notin {"read", "read2"})

\* The end of the pause of at_handshake, which keeps s_commandmutex.
HandshakePauseEnds(t) ==
    /\ pc[t] = "hsSleep" /\ (PauseDrains => Drained)
    /\ s_commandmutex' = Nobody
    /\ pc' = [pc EXCEPT ![t] = "idle"]
    /\ paused' = sent
    /\ UNCHANGED <<callVars, commandmutex, pendingVars, closeVars, reader,
                   process, session, modemVars, sent, ctrlZ, intruded>>

\* onATTimeout calls at_close: first the descriptor, without a mutex ...
OnTimeoutCloses(t) ==
    /\ pc[t] = "onTimeout"
    /\ s_fd' = FALSE
    /\ pc' = [pc EXCEPT ![t] = "close"]
    /\ UNCHANGED <<callVars, commandmutex, s_commandmutex, pendingVars,
                   s_readerClosed, s_closed, reader, process, session,
                   modemVars, history>>

\* ... then s_readerClosed under the mutex.
at_close(t) ==
    /\ pc[t] = "close" /\ s_commandmutex = Nobody
    /\ s_readerClosed' = TRUE
    /\ pc' \in Signalled([pc EXCEPT ![t] = "exit"])
    /\ UNCHANGED <<callVars, commandmutex, s_commandmutex, pendingVars, s_fd,
                   s_closed, reader, process, session, modemVars, history>>

\* s_closed = 1; setRadioState(RADIO_STATE_UNAVAILABLE); exit(1)
OnTimeoutExits(t) ==
    /\ pc[t] = "exit"
    /\ process' = "exit" /\ s_closed' = TRUE
    /\ UNCHANGED <<pc, callVars, commandmutex, s_commandmutex, pendingVars,
                   s_fd, s_readerClosed, reader, session, modemVars, history>>
-----------------------------------------------------------------------------
(* The reader thread.                                                        *)

readerFrame == <<callVars, commandmutex, s_commandmutex, session, urcs, hung>>

\* readline returns a line.  The second line of an SMS goes to the
\* unsolicited handler with the first, without the mutex.
ReadLine ==
    /\ reader.at \in {"read", "read2"} /\ wire # <<>>
    /\ wire' = Tail(wire)
    /\ reader' = [line |-> Head(wire),
                  at |-> IF reader.at = "read2" THEN "read"
                         ELSE IF isSMSUnsolicited(Head(wire)) THEN "read2"
                         ELSE "process"]
    /\ UNCHANGED <<pc, readerFrame, pendingVars, closeVars, process, modem, history>>

\* readline returns NULL: end of file, or an error because of close().
ReadFails ==
    /\ reader.at \in {"read", "read2"} /\ (hung \/ ~s_fd)
    /\ reader' = [reader EXCEPT !.at = "eof"]
    /\ UNCHANGED <<pc, readerFrame, pendingVars, closeVars, process, modem, wire, history>>

addIntermediate(line) ==
    sp_response' = [sp_response EXCEPT !.p_intermediates = <<line>> \o @]

\* Mutant: the waiting thread is not signalled.
handleFinalResponse_NoSignal(line, ok) ==
    /\ sp_response' = [sp_response EXCEPT !.success = ok, !.finalResponse = line]
    /\ UNCHANGED pc
handleFinalResponse(line, ok) ==
    /\ sp_response' = [sp_response EXCEPT !.success = ok, !.finalResponse = line]
    /\ pc' \in Signalled(pc)

\* The line is an intermediate response of the pending command.
IsIntermediate(line) ==
    \/ /\ s_type = "NUMERIC" /\ sp_response.p_intermediates = <<>>
       /\ line.kind = "digits"
    \/ /\ s_type = "SINGLELINE" /\ sp_response.p_intermediates = <<>>
       /\ line.kind = "info" /\ line.prefix = s_responsePrefix
    \/ /\ s_type = "MULTILINE"
       /\ line.kind = "info" /\ line.prefix = s_responsePrefix

\* The prompt that AT+CMGS is waiting for.
IsPrompt(line) == line.kind = "> " /\ s_smsPDU # 0

\* writeCtrlZ: the SMS body goes to the modem, unless the channel is closed.
writeCtrlZ(prompt) ==
    IF ~s_fd \/ s_readerClosed \/ hung
      THEN UNCHANGED <<modem, ctrlZ>>
      ELSE /\ ctrlZ' = ctrlZ \cup {[pdu |-> s_smsPDU, prompt |-> prompt.id]}
           /\ modem' = [i \in DOMAIN modem |->
                          IF i = 1 /\ modem[i].stage = "prompted"
                            THEN [modem[i] EXCEPT !.stage = "run"] ELSE modem[i]]

processLine ==
    LET line == reader.line IN
    /\ reader.at = "process" /\ s_commandmutex = Nobody
    /\ reader' = [at |-> "read", line |-> NoLine]
    /\ \/ /\ sp_response = NULL \/ isUnsolicited(line)
          /\ UNCHANGED <<pc, sp_response, s_smsPDU, modem, ctrlZ>>
       \/ /\ sp_response # NULL /\ ~isUnsolicited(line)
          /\ \/ /\ isFinalResponseSuccess(line) \/ isFinalResponseError(line)
                /\ handleFinalResponse(line, isFinalResponseSuccess(line))
                /\ UNCHANGED <<s_smsPDU, modem, ctrlZ>>
             \/ /\ IsPrompt(line)
                /\ writeCtrlZ(line)
                /\ s_smsPDU' = 0
                /\ UNCHANGED <<pc, sp_response>>
             \/ /\ IsIntermediate(line)
                /\ addIntermediate(line)
                /\ UNCHANGED <<pc, s_smsPDU, modem, ctrlZ>>
             \/ /\ ~isFinalResponseSuccess(line) /\ ~isFinalResponseError(line)
                /\ ~IsPrompt(line) /\ ~IsIntermediate(line)
                /\ UNCHANGED <<pc, sp_response, s_smsPDU, modem, ctrlZ>>
    /\ UNCHANGED <<readerFrame, s_type, s_responsePrefix, closeVars, process,
                   wire, sent, intruded, paused>>

\* onReaderClosed tests s_readerClosed before it takes the mutex.
onReaderClosed ==
    /\ reader.at = "eof"
    /\ reader' = [reader EXCEPT !.at = IF s_readerClosed THEN "dead" ELSE "closing"]
    /\ UNCHANGED <<pc, readerFrame, pendingVars, closeVars, process, modem, wire, history>>

\* Mutant: the reader clears the pending command it can no longer answer.
ReaderCloses_Clears ==
    /\ reader.at = "closing" /\ s_commandmutex = Nobody
    /\ s_readerClosed' = TRUE
    /\ clearPendingCommand
    /\ pc' \in Signalled(pc)
    /\ reader' = [reader EXCEPT !.at = "callback"]
    /\ UNCHANGED <<readerFrame, s_fd, s_closed, process, modem, wire, history>>

ReaderCloses ==
    /\ reader.at = "closing" /\ s_commandmutex = Nobody
    /\ s_readerClosed' = TRUE
    /\ pc' \in Signalled(pc)
    /\ reader' = [reader EXCEPT !.at = "callback"]
    /\ UNCHANGED <<readerFrame, pendingVars, s_fd, s_closed, process, modem, wire, history>>

\* onATReaderClosed: at_close, as in OnTimeoutCloses and at_close, s_closed = 1.
CallbackCloses ==
    /\ reader.at = "callback"
    /\ s_fd' = FALSE
    /\ reader' = [reader EXCEPT !.at = "callback2"]
    /\ UNCHANGED <<pc, readerFrame, pendingVars, s_readerClosed, s_closed, process,
                   modem, wire, history>>

\* Mutant: s_closed is not set.
onATReaderClosed_Silent ==
    /\ reader.at = "callback2" /\ s_commandmutex = Nobody
    /\ s_readerClosed' = TRUE
    /\ pc' \in Signalled(pc)
    /\ reader' = [reader EXCEPT !.at = "dead"]
    /\ UNCHANGED <<readerFrame, pendingVars, s_fd, s_closed, process, modem, wire, history>>

onATReaderClosed ==
    /\ reader.at = "callback2" /\ s_commandmutex = Nobody
    /\ s_readerClosed' = TRUE /\ s_closed' = TRUE
    /\ pc' \in Signalled(pc)
    /\ reader' = [reader EXCEPT !.at = "dead"]
    /\ UNCHANGED <<readerFrame, pendingVars, s_fd, process, modem, wire, history>>

\* mainLoop after waitForClose: s_closed = 0 and at_open, which sets the state
\* of the channel without a mutex and starts a new reader thread.
at_open ==
    /\ s_closed /\ session < MaxSessions
    /\ session' = session + 1
    /\ s_fd' = TRUE /\ s_readerClosed' = FALSE /\ s_closed' = FALSE
    /\ clearPendingCommand
    /\ intruded' = (intruded \/ sp_response # NULL)
    /\ reader' = [at |-> "read", line |-> NoLine]
    /\ hung' = FALSE /\ modem' = <<>> /\ wire' = <<>>
    /\ UNCHANGED <<pc, callVars, commandmutex, s_commandmutex, process, urcs,
                   sent, ctrlZ, paused>>
-----------------------------------------------------------------------------
(* The modem: it answers commands in the order it received them.             *)

modemFrame == <<pc, callVars, commandmutex, s_commandmutex, pendingVars,
                closeVars, reader, process, session, history>>

Answer(kind, c, n) ==
    [kind |-> kind, prefix |-> c.cmd.prefix, id |-> c.id,
     probe |-> c.cmd.via = "handshake", n |-> n]

ModemInfo ==
    /\ ~hung /\ modem # <<>> /\ Head(modem).stage = "run"
    /\ Head(modem).infos < MaxInfos
    /\ LET c == Head(modem)
       IN /\ wire' = Append(wire,
                  Answer(IF c.cmd.type = "NUMERIC" THEN "digits" ELSE "info",
                         c, c.infos + 1))
          /\ modem' = [modem EXCEPT ![1].infos = @ + 1]
    /\ UNCHANGED <<modemFrame, urcs, hung>>

ModemPrompt ==
    /\ ~hung /\ modem # <<>> /\ Head(modem).stage = "prompt"
    /\ wire' = Append(wire, Answer("> ", Head(modem), 0))
    /\ modem' = [modem EXCEPT ![1].stage = "prompted"]
    /\ UNCHANGED <<modemFrame, urcs, hung>>

\* The final line carries the number of lines that went before it.
ModemFinal ==
    /\ ~hung /\ modem # <<>>
    /\ \E kind \in {"OK", "ERROR"} :
         /\ kind = "OK" => Head(modem).stage = "run"
         /\ Head(modem).stage # "prompted"
         /\ wire' = Append(wire, Answer(kind, Head(modem), Head(modem).infos))
    /\ modem' = Tail(modem)
    /\ UNCHANGED <<modemFrame, urcs, hung>>

Urc(kind, prefix) ==
    [kind |-> kind, prefix |-> prefix, id |-> 0, probe |-> FALSE, n |-> 0]

\* An incoming SMS is two lines.  A notification such as +CREG: looks like the
\* answer to the command that queries the same thing.
UrcLines(kind) ==
    CASE kind = "+CMT"  -> {<<Urc("+CMT", NoPrefix), Urc("PDU", NoPrefix)>>}
      [] kind = "+CREG" -> {<<Urc("info", p)>> : p \in Prefixes}
      [] OTHER          -> {<<Urc(kind, NoPrefix)>>}

ModemUrc(kind) ==
    /\ ~hung /\ urcs < MaxUrcs
    /\ urcs' = urcs + 1
    /\ \E lines \in UrcLines(kind) : wire' = wire \o lines
    /\ UNCHANGED <<modemFrame, modem, hung>>

\* The device disappears: what it had not answered is lost.
ModemHangup ==
    /\ ~hung /\ s_fd
    /\ hung' = TRUE
    /\ modem' = <<>>
    /\ UNCHANGED <<modemFrame, wire, urcs>>
-----------------------------------------------------------------------------
Thread(t) ==
    \/ LockCommandMutex(t) \/ SendPending(t) \/ SendFails(t) \/ SendWaits(t)
    \/ TimedOut(t) \/ WakeCrashes(t) \/ WakeAgain(t) \/ WakeReturns(t)
    \/ HandshakePauseEnds(t)
    \/ OnTimeoutCloses(t) \/ at_close(t) \/ OnTimeoutExits(t)

Reader ==
    \/ ReadLine \/ ReadFails \/ processLine \/ onReaderClosed \/ ReaderCloses
    \/ CallbackCloses \/ onATReaderClosed

Modem ==
    \/ ModemInfo \/ ModemPrompt \/ ModemFinal \/ ModemHangup
    \/ \E kind \in UrcKinds : ModemUrc(kind)

\* The process is over, or nobody has anything left to ask.
Terminating ==
    /\ process # "running" \/ \A t \in Threads : pc[t] = "idle" /\ calls[t] = MaxCalls
    /\ UNCHANGED vars

Step ==
    /\ process = "running"
    /\ \/ \E t \in Threads : \/ \E c \in Commands : Call(t, c)
                             \/ CallHandshake(t) \/ Thread(t)
                             \/ TimeoutFires(t) \/ SpuriousWakeup(t)
       \/ Reader \/ at_open \/ Modem

Next == Step \/ Terminating

Spec == Init /\ [][Next]_vars

(* Threads and the reader are scheduled, mutexes are handed on, and a timer  *)
(* expires between spurious wakeups.  Nothing is assumed of the modem.       *)
FairSpec ==
    /\ Spec
    /\ WF_vars(process = "running" /\ Reader)
    /\ \A t \in Threads :
         /\ WF_vars(process = "running" /\ Thread(t))
         /\ SF_vars(process = "running" /\ TimeoutFires(t))

\* In addition the modem answers what it is sent, or disappears.
AnsweringSpec ==
    FairSpec /\ WF_vars(process = "running" /\ (\E i \in DOMAIN modem : modem[i].cmd.longRun)
                          /\ (ModemPrompt \/ ModemFinal))
-----------------------------------------------------------------------------
(* Properties.                                                               *)

PcStates == {"idle", "lock", "send", "wait", "woken", "timedout", "hsTry",
             "hsSleep", "onTimeout", "close", "exit"}

ReaderStates == {"read", "read2", "process", "eof", "closing", "callback",
                 "callback2", "dead"}

\* What the calls in progress keep, and the mutexes.
CallTypes ==
    /\ pc \in [Threads -> PcStates]
    /\ call \in [Threads -> Command]
    /\ calls \in [Threads -> 0..MaxCalls]
    /\ tries \in [Threads -> 0..(HANDSHAKE_RETRY_COUNT - 1)]
    /\ got \in [Threads -> [err: Errors, type: Types, id: Nat, response: Response]]
    /\ commandmutex \in Threads \cup {Nobody}
    /\ s_commandmutex \in Threads \cup {Nobody}

PendingTypes ==
    /\ sp_response \in Response
    /\ s_type \in Types
    /\ s_responsePrefix \in Prefixes \cup {NoPrefix}
    /\ s_smsPDU \in Nat

ChannelTypes ==
    /\ s_fd \in BOOLEAN /\ s_readerClosed \in BOOLEAN /\ s_closed \in BOOLEAN
    /\ reader \in [at: ReaderStates, line: Line]
    /\ process \in {"running", "exit", "segv"}
    /\ session \in Nat

ModemTypes ==
    /\ modem \in Seq(ModemEntry)
    /\ wire \in Seq(Line)
    /\ urcs \in Nat
    /\ hung \in BOOLEAN

HistoryTypes ==
    /\ sent \in Nat /\ paused \in Nat /\ intruded \in BOOLEAN
    /\ ctrlZ \subseteq [pdu: Nat, prompt: Nat]

\* Every variable of atchannel.c, the modem and the history has its type; in
\* particular the loop counter of at_handshake stays below its bound.
TypeOK == CallTypes /\ PendingTypes /\ ChannelTypes /\ ModemTypes /\ HistoryTypes

\* The comment at the head of the pending command, "these are protected by
\* s_commandmutex": a thread that has sent a command and waits for its answer
\* still finds its own response object when it wakes up.
PendingCommandOwned ==
    \A t \in Threads : Blocked(t) => sp_response.owner = t

\* pthread_cond_signal wakes one thread, and every wakeup is meant for the one
\* that waits: a sleeping thread has neither a final response nor a closed
\* channel to be told about.
NoLostWakeup ==
    \A t \in Threads :
       pc[t] = "wait" => sp_response.finalResponse = NoLine /\ ~s_readerClosed

\* Only at_open and the COMMAND_PENDING path of at_send_command_full_nolock can
\* take a pending command from its waiter; until one of them has, the command
\* is its waiter's, and no wakeup is lost.
OwnedUnlessIntruded == ~intruded => PendingCommandOwned /\ NoLostWakeup

\* The loop of at_send_command_full_nolock dereferences sp_response after every
\* wait.  That is a crash only if the pending command was taken from the waiter.
SegvOnlyIntruded == process = "segv" => intruded

\* A response that was handed to a caller is the modem's answer to that call; a
\* notification with the prefix of the command may be among its lines.
Mismatched(g) ==
    /\ g.response.finalResponse # NoLine
    /\ \/ g.response.finalResponse.id # g.id
       \/ \E i \in DOMAIN g.response.p_intermediates :
             g.response.p_intermediates[i].id \notin {0, g.id}

\* The reader gives every final and intermediate line to the command it
\* answers, however commands, unsolicited lines and a hangup interleave.
AnswersMatch == \A t \in Threads : ~Mismatched(got[t])

\* When commands time out, a late answer can be taken for the answer to the
\* next command only before onATTimeout has ended the process.
MismatchOnlyAfterTimeout ==
    ~AnswersMatch => \E t \in Threads : got[t].err = "TIMEOUT"

\* The response g holds what the modem said for its command, in the modem's
\* order: all of it for MULTILINE, the first line for SINGLELINE and NUMERIC.
Complete(g) ==
    LET s == g.response.p_intermediates
        n == g.response.finalResponse.n
        own == {i \in DOMAIN s : s[i].id = g.id}
    IN  /\ \A i, j \in own : i < j => s[i].n < s[j].n
        /\ CASE g.type = "MULTILINE" -> {s[i].n : i \in own} = 1..n
             [] g.type = "NO_RESULT" -> s = <<>>
             [] OTHER -> /\ Len(s) <= 1 /\ (n > 0 => Len(s) = 1)
                         /\ \A i \in own : s[i].n = 1

\* What processLine collects and reverseIntermediates turns round is the whole
\* answer of the modem: a command that succeeds loses none of its lines.
CompleteAnswer ==
    \A t \in Threads :
       LET g == got[t]
       IN  g.err = "NONE" /\ g.response # NULL /\ g.response.finalResponse.id = g.id => Complete(g)

\* Every SMS body went out in answer to the prompt of its own command.
PduAnswersPrompt == \A z \in ctrlZ : z.pdu = z.prompt

\* The prompt is matched by s_smsPDU alone: that of a message whose command timed
\* out can draw the body of the next one, but only before onATTimeout has ended
\* the process.
PduMismatchOnlyAfterTimeout ==
    ~PduAnswersPrompt => \E t \in Threads : got[t].err = "TIMEOUT"

\* The comment of at_handshake on the pause, "let the input buffer drain any
\* unmatched OK's (they will appear as extraneous unsolicited responses)": no
\* answer to a probe sent before the pause is taken for the answer to a command.
HandshakeDrained ==
    \A t \in Threads :
       LET line == got[t].response.finalResponse
       IN  ~(line.probe /\ line.id <= paused)

\* Every call returns, or the process ends: the timeout of check_need_protect,
\* the answer or the closed channel reaches the waiting thread.
CommandReturns ==
    \A t \in Threads :
       pc[t] # "idle" ~> (pc[t] = "idle" \/ process # "running" \/ intruded)

\* When the device goes away the reader thread closes the channel and tells
\* mainLoop, so that it can be opened again.
HangupHandled == hung ~> (s_closed \/ process # "running")

\* Some command has timed out.
TimeoutSeen == \E t \in Threads : got[t].err = "TIMEOUT"

\* What a call has returned, as its caller sees it.
Returned(g) ==
    [err |-> g.err, id |-> g.id, given |-> g.response # NULL, final |-> g.response.finalResponse.id,
     lines |-> {g.response.p_intermediates[i].id : i \in DOMAIN g.response.p_intermediates}]

\* A command has been sent, and its thread has not yet returned.
Issued  == \E t \in Threads : Blocked(t)
Results == [t \in Threads |-> Returned(got[t])]

Service == INSTANCE CommandService WITH
              turn <- commandmutex, issued <- Issued, bodies <- ctrlZ, results <- Results,
              closed <- s_readerClosed, over <- TimeoutSeen

\* The channel implements CommandService: whatever the threads, the reader and
\* the modem do at the same time, the callers are served one after another, each
\* command and message body is sent once, and what comes back is about the command
\* that was just sent.
ServiceSpec == Service!Spec
-----------------------------------------------------------------------------
(* The inductive invariant of ATChannelProofs.                               *)

\* Who holds which mutex, and through which function a thread came here.
MutexInv ==
    \A t \in Threads :
       /\ commandmutex = t <=> pc[t] = "send" \/ (Blocked(t) /\ call[t].via = "full")
       /\ s_commandmutex = t <=> pc[t] \in {"hsTry", "hsSleep"}
       /\ pc[t] \in {"lock", "send"} => call[t].via = "full"
       /\ pc[t] \in {"hsTry", "hsSleep"} => call[t].via = "handshake"

\* The pending command and its waiter belong together.
OwnerInv ==
    /\ \A t \in Threads : Blocked(t) <=> sp_response.owner = t
    /\ sp_response.owner = Nobody => sp_response = NULL
    /\ NoLostWakeup

\* Every thread's calls of at_handshake are by Handshakers.
HandshakeInv ==
    \A t \in Threads :
       pc[t] \in {"hsTry", "hsSleep"} \/ (Blocked(t) /\ call[t].via = "handshake")
         => t \in Handshakers

IndInv ==
    /\ TypeOK
    /\ MutexInv
    /\ HandshakeInv
    /\ ~intruded => OwnerInv
    /\ SegvOnlyIntruded
    /\ session >= 1
=============================================================================

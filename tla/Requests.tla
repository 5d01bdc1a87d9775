----------------------------- MODULE Requests -----------------------------
(***************************************************************************)
(* onRequest of sxx-ril.c: the framework hands the RIL one request at a    *)
(* time, with a token; the filter or the handler of the request completes  *)
(* it.  An unsolicited line has a handler on the reader thread, and either *)
(* may leave a callback to the main thread.  The handlers are the programs *)
(* of module Handlers, run here on frames with a response of their own,    *)
(* against a channel that may fail before or after a command is sent, time *)
(* out, or bring any final response with or without lines (module          *)
(* ATChannel).  They share nothing that is modelled here, and run one at a *)
(* time.                                                                   *)
(***************************************************************************)
EXTENDS Handlers, RequestFilter, Sequences, FiniteSets

CONSTANTS
    MaxCompletions, \* completions of a token are counted up to here
    MaxTimed        \* bound: callbacks that wait when a handler is called

ASSUME MaxCompletionsAssumption == MaxCompletions \in Nat /\ MaxCompletions >= 2
ASSUME MaxTimedAssumption == MaxTimed \in Nat \ {0}

VARIABLES
    modem,       \* the modem that was detected
    request,     \* what is being served: a request, "line", "timed" or "none"
    process,     \* "running", "crashed" or "exited"
    stack,       \* the functions being run, innermost last
    timed,       \* callbacks that have been requested and are to be run
    completions, \* how often the request was completed
    result,      \* ... and the last result
    faults,      \* functions that ran into undefined behaviour for the request
    leaks,       \* functions that lost a response
    dishonest    \* functions that reported a success the modem had refused

vars == <<modem, request, process, stack, timed, completions, result, faults, leaks, dishonest>>

(***************************************************************************)
(* The ATResponse pointer of a frame: final is the class of the final      *)
(* response that at_get_cme_error sees, where CME_0 is +CME ERROR: 0, or   *)
(* says why there is no response; lines tells whether there are any        *)
(* intermediate lines.                                                     *)
(***************************************************************************)
Finals == {"OK", "ERROR", "CME", "CME_0"}
Nothing(why) == [final |-> why, lines |-> FALSE]
Responses == [final : Finals, lines : BOOLEAN]
Pointers == Responses \union {Nothing(why) : why \in {"uninit", "NULL", "freed"}}
Live(p) == p.final \in Finals

Values == {"none", "0", "-1", "1", "7", "READY", "ABSENT", "NOT_READY", "PIN", "PUK", "NETWORK"}

\* err says that err < 0; answer is the response to the last Send; returned is
\* what the last call returned; n counts the tries left.
Frame(fn) == [fn |-> fn, pc |-> 1, p |-> Nothing("uninit"), err |-> FALSE, answer |-> "none",
              returned |-> "none", n |-> 0]

MaxTries == 20

Frames == [fn : DOMAIN Code, pc : Nat, p : Pointers, err : BOOLEAN,
           answer : Finals \union {"none"}, returned : Values, n : 0..MaxTries]

TypeOK ==
    /\ modem \in Modems
    /\ request \in DOMAIN Default \union AllowedLocked \union AllowedOff
                    \union {"none", "line", "timed"}
    /\ process \in {"running", "crashed", "exited"}
    /\ stack \in Seq(Frames)
    /\ \A i \in DOMAIN stack : stack[i].pc \in DOMAIN Code[stack[i].fn]
    /\ timed \subseteq DOMAIN Code
    /\ completions \in 0..MaxCompletions
    /\ result \in Errors \union {"none"}
    /\ \A s \in {faults, leaks, dishonest} : s \subseteq DOMAIN Code

Idle == process = "running" /\ stack = << >>

Init ==
    /\ modem \in Modems
    /\ request = "none"
    /\ process = "running"
    /\ stack = << >>
    /\ timed = {}
    /\ completions = 0
    /\ result = "none"
    /\ faults = {} /\ leaks = {} /\ dishonest = {}

(***************************************************************************)
(* A new request.  The radio state is any: RadioState says how it moves.   *)
(***************************************************************************)
Requests == DOMAIN Default \union AllowedLocked \union AllowedOff

\* Some test of the filter refuses r: each reads the state anew.  For
\* GET_SIM_STATUS in UNAVAILABLE it asks the modem first (filterSimStatus).
Refuse(r) ==
    \E i \in Tests :
      /\ \E s \in RadioStates : Refuses(i, s, r)
      /\ IF i = 2 /\ r = "GET_SIM_STATUS"
         THEN stack' = <<Frame("filterSimStatus")>> /\ completions' = 0 /\ result' = "none"
         ELSE stack' = << >> /\ completions' = 1 /\ result' = FilterError(i, r)

\* No test refuses r, and its handler is called if there is one.
Accept(r) ==
    /\ \A i \in Tests : \E s \in RadioStates : ~Refuses(i, s, r)
    /\ completions' = 0 /\ result' = "none"
    /\ IF Handlers(r, modem) = {} THEN stack' = << >>
       ELSE \E h \in Handlers(r, modem) : stack' = <<Frame(h)>>

Request(r) ==
    /\ Idle /\ request = "none" /\ Cardinality(timed) < MaxTimed
    /\ Refuse(r) \/ Accept(r)
    /\ request' = r
    /\ UNCHANGED <<modem, process, timed, faults, leaks, dishonest>>

\* onUnsolicited, on the reader thread: the handler h of an unsolicited line.
Line(h) ==
    /\ Idle /\ request = "none" /\ Cardinality(timed) < MaxTimed
    /\ request' = "line" /\ stack' = <<Frame(h)>>
    /\ UNCHANGED <<modem, process, timed, completions, result, faults, leaks, dishonest>>

\* The main thread runs a callback.
Timed(fn) ==
    /\ Idle /\ request = "none" /\ fn \in timed
    /\ request' = "timed" /\ stack' = <<Frame(fn)>> /\ timed' = timed \ {fn}
    /\ UNCHANGED <<modem, process, completions, result, faults, leaks, dishonest>>

\* onRequest returns to the thread that waits for the next request: what is
\* recorded of this one is forgotten.
RequestDone ==
    /\ Idle /\ request # "none"
    /\ request' = "none"
    /\ completions' = 0 /\ result' = "none"
    /\ faults' = {} /\ leaks' = {} /\ dishonest' = {}
    /\ UNCHANGED <<modem, process, stack, timed>>

(***************************************************************************)
(* Running the handlers.                                                   *)
(***************************************************************************)
Top == stack[Len(stack)]
Instruction == Code[Top.fn][Top.pc]
At(op) == process = "running" /\ stack # << >> /\ Instruction.op = op

\* The place of label l in the program of the top frame.
Place(l) == CHOOSE i \in DOMAIN Code[Top.fn] :
              Code[Top.fn][i].op = "label" /\ Code[Top.fn][i].to = l

SetTop(f) == [stack EXCEPT ![Len(stack)] = f]
Next1(f) == [f EXCEPT !.pc = f.pc + 1]

\* The response of the frame is lost when its pointer is overwritten or goes out
\* of scope.
Lost == IF Live(Top.p) THEN leaks \union {Top.fn} ELSE leaks

SetNull ==
    /\ At("null")
    /\ stack' = SetTop([Next1(Top) EXCEPT !.p = Nothing("NULL")])
    /\ leaks' = Lost
    /\ UNCHANGED <<modem, request, process, timed, completions, result, faults, dishonest>>

\* Intermediate lines are not kept for at_send_command.
Answers(type) == IF type = "plain" THEN {p \in Responses : ~p.lines} ELSE Responses

\* A success without the line that was asked for becomes an error, and no response.
NeedsLine(type, p) == type \in {"singleline", "numeric", "sms"} /\ p.final = "OK" /\ ~p.lines

\* at_send_command...(..., &p_response) is answered; the channel may have been
\* closed meanwhile, which makes it an error with a response.
SendAnswered ==
    /\ At("send")
    /\ \E p \in Answers(Instruction.arg), closed \in BOOLEAN :
         stack' = SetTop([Next1(Top) EXCEPT
                    !.p = IF ~closed /\ NeedsLine(Instruction.arg, p) THEN Nothing("NULL") ELSE p,
                    !.err = closed \/ NeedsLine(Instruction.arg, p),
                    !.answer = p.final])
    /\ leaks' = Lost
    /\ UNCHANGED <<modem, request, process, timed, completions, result, faults, dishonest>>

\* The command could not be sent: the pointer is left as it was.
SendFails ==
    /\ At("send")
    /\ stack' = SetTop([Next1(Top) EXCEPT !.err = TRUE, !.answer = "none"])
    /\ UNCHANGED <<modem, request, process, timed, completions, result, faults, leaks, dishonest>>

\* at_send_command(..., NULL).
FireCommand ==
    /\ At("fire")
    /\ \E e \in BOOLEAN : stack' = SetTop([Next1(Top) EXCEPT !.err = e])
    /\ UNCHANGED <<modem, request, process, timed, completions, result, faults, leaks, dishonest>>

\* A command times out: onATTimeout ends the process.
Timeout ==
    /\ At("send") \/ At("fire")
    /\ process' = "exited"
    /\ UNCHANGED <<modem, request, stack, timed, completions, result, faults, leaks, dishonest>>

\* RIL_onRequestComplete, or RIL_onUnsolicitedResponse when there is no token.
CompleteRequest ==
    /\ At("complete")
    /\ stack' = SetTop(Next1(Top))
    /\ IF request \in Requests
         THEN /\ completions' = IF completions < MaxCompletions THEN completions + 1 ELSE completions
              /\ result' = Instruction.arg
              /\ dishonest' = IF Instruction.arg = "SUCCESS" /\ Top.answer \in Finals \ {"OK"}
                              THEN dishonest \union {Top.fn} ELSE dishonest
         ELSE UNCHANGED <<completions, result, dishonest>>
    /\ UNCHANGED <<modem, request, process, timed, faults, leaks>>

FreeResponse ==
    /\ At("free")
    /\ Live(Top.p) \/ Top.p = Nothing("NULL")
    /\ stack' = SetTop([Next1(Top) EXCEPT !.p = IF Live(@) THEN Nothing("freed") ELSE @])
    /\ UNCHANGED <<modem, request, process, timed, completions, result, faults, leaks, dishonest>>

CallFunction ==
    /\ At("call")
    /\ stack' = Append(SetTop(Next1(Top)), Frame(Instruction.arg))
    /\ UNCHANGED <<modem, request, process, timed, completions, result, faults, leaks, dishonest>>

ReturnFromFunction ==
    /\ At("return")
    /\ leaks' = Lost
    /\ LET rest == SubSeq(stack, 1, Len(stack) - 1)
       IN stack' = IF rest = << >> THEN rest
                   ELSE [rest EXCEPT ![Len(rest)].returned = Instruction.arg]
    /\ UNCHANGED <<modem, request, process, timed, completions, result, faults, dishonest>>

RequestCallback ==
    /\ At("later")
    /\ stack' = SetTop(Next1(Top)) /\ timed' = timed \union {Instruction.arg}
    /\ UNCHANGED <<modem, request, process, completions, result, faults, leaks, dishonest>>

SetTries ==
    /\ At("set")
    /\ stack' = SetTop([Next1(Top) EXCEPT !.n = Instruction.arg])
    /\ UNCHANGED <<modem, request, process, timed, completions, result, faults, leaks, dishonest>>

\* Mutant: the tries never run out.
NoTriesLeft_Never(f) == FALSE

NoTriesLeft(f) == f.n = 0

\* while (wait-- && ...)
CountTry ==
    /\ At("countdown")
    /\ stack' = SetTop(IF NoTriesLeft(Top) THEN [Top EXCEPT !.pc = Place(Instruction.to)]
                       ELSE [Next1(Top) EXCEPT !.n = @ - 1])
    /\ UNCHANGED <<modem, request, process, timed, completions, result, faults, leaks, dishonest>>

(***************************************************************************)
(* Tests and reads.                                                        *)
(***************************************************************************)
\* What an instruction follows p_response for: ret < 0 cuts a test short.
ReadsLine == {"parse", "line"}
Reads == ReadsLine \union {"refusal", "final", "nolines"}
Dereferences == Instruction.op \in Reads \/ (Instruction.op = "failure" /\ ~Top.err)

\* Whether a jump may be taken (TRUE) or not.
Outcomes ==
    CASE Instruction.op \in {"parse", "maybe"} -> BOOLEAN
      [] Instruction.op \in {"label", "line", "report"} -> {FALSE}
      [] Instruction.op = "goto" -> {TRUE}
      [] Instruction.op = "error" -> {Top.err}
      [] Instruction.op = "failure" -> {Top.err \/ Top.p.final # "OK"}
      [] Instruction.op = "refusal" -> {Top.p.final # "OK"}
      [] Instruction.op = "final" -> {Top.p.final = Instruction.arg}
      [] Instruction.op = "isnull" -> {Top.p = Nothing("NULL")}
      [] Instruction.op = "nolines" -> {~Top.p.lines}
      [] Instruction.op = "returned" -> {Top.returned = Instruction.arg}
      [] OTHER -> {}

Follow(taken) == SetTop(IF taken THEN [Top EXCEPT !.pc = Place(Instruction.to)] ELSE Next1(Top))

Undefined ==
    \/ Instruction.op \in {"wild", "crash"}
    \/ Dereferences /\ ~Live(Top.p)
    \/ Instruction.op \in ReadsLine /\ ~Top.p.lines
    \/ Instruction.op = "free" /\ Top.p.final \in {"uninit", "freed"}

Test ==
    /\ process = "running" /\ stack # << >> /\ ~Undefined
    /\ \E taken \in Outcomes : stack' = Follow(taken)
    /\ UNCHANGED <<modem, request, process, timed, completions, result, faults, leaks, dishonest>>

\* Following NULL ends the process; of other undefined behaviour the handler may
\* also survive, with any outcome of the test it was in.
MustCrash ==
    \/ Instruction.op = "crash"
    \/ Dereferences /\ (Top.p = Nothing("NULL") \/ (Live(Top.p) /\ ~Top.p.lines))

Fault ==
    /\ process = "running" /\ stack # << >> /\ Undefined
    /\ faults' = faults \union {Top.fn}
    /\ \/ process' = "crashed" /\ UNCHANGED stack
       \/ /\ ~MustCrash
          /\ \E taken \in IF Instruction.to = "none" THEN {FALSE} ELSE BOOLEAN : stack' = Follow(taken)
          /\ UNCHANGED process
    /\ UNCHANGED <<modem, request, timed, completions, result, leaks, dishonest>>

Run ==
    \/ SetNull \/ SendAnswered \/ SendFails \/ FireCommand \/ Timeout \/ CompleteRequest
    \/ FreeResponse \/ CallFunction \/ ReturnFromFunction \/ RequestCallback \/ SetTries \/ CountTry \/ Test \/ Fault

Next ==
    \/ Run \/ RequestDone
    \/ \E r \in Requests : Request(r)
    \/ \E h \in Unsolicited : Line(h)
    \/ \E fn \in timed : Timed(fn)

\* The thread that runs a handler goes on.
Spec == Init /\ [][Next]_vars /\ WF_vars(Run)

(***************************************************************************)
(* Properties.                                                             *)
(***************************************************************************)
Served == request \in DOMAIN Default

\* The framework waits for the completion of every token, and stops sending
\* requests when too many are open.  Whatever the commands bring, a request
\* that has a handler has been completed when its handler returns.  (The others,
\* which process_request does not find, are completed by the filter or never.)
EveryTokenAnswered == Idle /\ Served => completions > 0

\* A token is no longer valid after its completion.  Only these handlers complete
\* one again: requestSMSAcknowledge always (message.c:217), requestSignalStrength
\* when the command fails (network.c:342), and the generic registration state
\* once for every try (network.c:936).
Repeaters == {"SMS_ACKNOWLEDGE", "SIGNAL_STRENGTH", "VOICE_REGISTRATION_STATE",
              "DATA_REGISTRATION_STATE"}
AnsweredOnce == completions > 1 => request \in Repeaters

\* The functions that run into undefined behaviour are these.  The hangups look
\* into the response of a command that was not sent (call.c:111);
\* requestSetCallWaiting frees an uninitialised pointer (service.c:433);
\* getSIMStatus reads the line of a failed answer (sim.c:89); reportDataCallList
\* writes behind its array (pdp.c:628); requestGSMGetBroadcastSMSConfig clears
\* the pointer it writes through (message.c:20); getClvlValue returns a variable
\* it has not set (mg3732.c:81), and so do, of a line that does not parse, the
\* index of a message (message.c:380 and 416) and a USSD message (service.c:120).
KnownFaults ==
    faults \subseteq {"requestHangupWaitingOrBackground", "requestHangupForegroundResumeBackground",
                      "requestHangup", "requestSetCallWaiting", "getSIMStatus", "getSIMStatus2",
                      "reportDataCallList", "requestGSMGetBroadcastSMSConfig", "getClvlValue",
                      "onNewMesssageByIndex", "onMessageListing", "onUSSDReceived"}

\* A response is handed over to be freed: the functions that lose one on some
\* path are these.
KnownLeaks ==
    leaks \subseteq {"requestHangupWaitingOrBackground", "requestHangupForegroundResumeBackground",
                     "requestHangup", "requestGetCurrentCalls", "getSIMStatus", "getSIMStatus2",
                     "getNetworkType", "getNetworkType_MH400B", "getNetworkTypeOld",
                     "reportDataCallList"}

\* A success is reported only if the modem accepted the last command whose answer
\* the handler asked for.  The exceptions report what they know (a call list, the
\* CLIR and call waiting settings), or test only that the command was answered.
HonestSuccess ==
    dishonest \subseteq {"requestGetCurrentCalls", "requestGetCLIR", "requestQueryCallWaiting",
                         "requestCallForward", "requestOperator", "requestRadioPower",
                         "requestRadioPower_MH400B"}

\* "This is called on atchannel's reader thread.  AT commands may not be issued
\* here" (sxx-ril.c:322): the answer would have to be read by the thread that
\* waits for it.  Neither a handler of an unsolicited line nor anything it calls
\* issues one; the commands it needs are left to the main thread.
CommandsOffReader == request = "line" => ~At("send") /\ ~At("fire")

\* Every request comes to an end, however often its commands fail: requests are
\* served by one thread, and one that does not end blocks all others.
RequestReturns == (stack # << >>) ~> (stack = << >> \/ process # "running")
=============================================================================

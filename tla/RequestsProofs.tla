---------------------------- MODULE RequestsProofs ----------------------------
(***************************************************************************)
(* Proofs about module Requests.                                           *)
(*                                                                         *)
(* A handler of an unsolicited line runs on the reader thread, and no step *)
(* of it sends a command or calls a function that might.  The programs of  *)
(* these handlers are quiet: they report, leave a callback, jump and       *)
(* return.  That is a fact about each program; that the machine never      *)
(* leaves them is the inductive invariant.                                 *)
(*                                                                         *)
(* The rest is about every handler.  What is known of the response and of  *)
(* the completions at each instruction is written beside the program, as   *)
(* notes and marks, and each program is checked against its own: a note    *)
(* follows from those before it, and rules out a fault, a lost response    *)
(* and a false success except in the functions that are known for them.    *)
(* The machine then keeps every frame to the notes of its function (Fits), *)
(* and the completions to the marks (Tally).                               *)
(***************************************************************************)
EXTENDS Requests, SequenceTheorems, TLAPS

(***************************************************************************)
(* Quiet programs.                                                         *)
(***************************************************************************)
QuietOps == {"report", "later", "return", "label", "goto", "maybe", "wild"}

\* An instruction of a program that has no command in it and no call, does not
\* run on behind its end, and jumps to labels it has.
QuietAt(program, pc) ==
    LET ins == program[pc]
    IN  /\ ins.op \in QuietOps
        /\ ins.op \notin {"return", "goto"} => pc + 1 \in DOMAIN program
        /\ ins.op \in {"goto", "maybe"} =>
              \E i \in DOMAIN program : program[i].op = "label" /\ program[i].to = ins.to
        /\ ins.op = "wild" => ins.to = "none"

Quiet(program) == 1 \in DOMAIN program /\ \A pc \in DOMAIN program : QuietAt(program, pc)

\* The programs of the handlers of unsolicited lines.
LEMMA LinePrograms ==
    /\ Code["onTimeChanged"] = onTimeChanged
    /\ Code["onNewMesssageByIndex"] = onNewMesssageByIndex
    /\ Code["onNewMessageOrStatus"] = onNewMessageOrStatus
    /\ Code["onMessageListing"] = onMessageListing
    /\ Code["onUSSDReceived"] = onUSSDReceived
    /\ Code["onCmeError"] = onCmeError
    /\ Code["onCallStateChanged"] = onCallStateChanged
    /\ Code["onCallConnected"] = onCallConnected
    /\ Code["onNetworkStateChanged"] = onNetworkStateChanged
    /\ Code["onDataCallStageChanged"] = onDataCallStageChanged
<1>1. Code["onTimeChanged"] = onTimeChanged
  BY DEF Code
<1>2. Code["onNewMesssageByIndex"] = onNewMesssageByIndex
  BY DEF Code
<1>3. Code["onNewMessageOrStatus"] = onNewMessageOrStatus
  BY DEF Code
<1>4. Code["onMessageListing"] = onMessageListing
  BY DEF Code
<1>5. Code["onUSSDReceived"] = onUSSDReceived
  BY DEF Code
<1>6. Code["onCmeError"] = onCmeError
  BY DEF Code
<1>7. Code["onCallStateChanged"] = onCallStateChanged
  BY DEF Code
<1>8. Code["onCallConnected"] = onCallConnected
  BY DEF Code
<1>9. Code["onNetworkStateChanged"] = onNetworkStateChanged
  BY DEF Code
<1>10. Code["onDataCallStageChanged"] = onDataCallStageChanged
  BY DEF Code
<1> QED  BY <1>1, <1>2, <1>3, <1>4, <1>5, <1>6, <1>7, <1>8, <1>9, <1>10, Zenon

\* They are quiet.
LEMMA QuietHandlers == \A fn \in Unsolicited : Quiet(Code[fn])
<1> USE DEF QuietAt, QuietOps, Ins, Report, Later, Return, Label, Goto, Maybe, Wild
<1>1. Quiet(onTimeChanged)
  <2>1. 1 \in DOMAIN onTimeChanged
    BY DEF onTimeChanged
  <2>2. ASSUME NEW pc \in DOMAIN onTimeChanged PROVE QuietAt(onTimeChanged, pc)
    BY DEF onTimeChanged
  <2> QED  BY <2>1, <2>2, Zenon DEF Quiet
<1>2. Quiet(onNewMesssageByIndex)
  <2>1. 1 \in DOMAIN onNewMesssageByIndex
    BY DEF onNewMesssageByIndex
  <2>2. ASSUME NEW pc \in DOMAIN onNewMesssageByIndex PROVE QuietAt(onNewMesssageByIndex, pc)
    BY DEF onNewMesssageByIndex
  <2> QED  BY <2>1, <2>2, Zenon DEF Quiet
<1>3. Quiet(onNewMessageOrStatus)
  <2>1. 1 \in DOMAIN onNewMessageOrStatus
    BY DEF onNewMessageOrStatus
  <2>2. ASSUME NEW pc \in DOMAIN onNewMessageOrStatus PROVE QuietAt(onNewMessageOrStatus, pc)
    BY DEF onNewMessageOrStatus
  <2> QED  BY <2>1, <2>2, Zenon DEF Quiet
<1>4. Quiet(onMessageListing)
  <2>1. 1 \in DOMAIN onMessageListing
    BY DEF onMessageListing
  <2>2. ASSUME NEW pc \in DOMAIN onMessageListing PROVE QuietAt(onMessageListing, pc)
    BY DEF onMessageListing
  <2> QED  BY <2>1, <2>2, Zenon DEF Quiet
<1>5. Quiet(onUSSDReceived)
  <2>1. 1 \in DOMAIN onUSSDReceived
    BY DEF onUSSDReceived
  <2>2. ASSUME NEW pc \in DOMAIN onUSSDReceived PROVE QuietAt(onUSSDReceived, pc)
    BY DEF onUSSDReceived
  <2> QED  BY <2>1, <2>2, Zenon DEF Quiet
<1>6. Quiet(onCmeError)
  <2>1. 1 \in DOMAIN onCmeError
    BY DEF onCmeError
  <2>2. ASSUME NEW pc \in DOMAIN onCmeError PROVE QuietAt(onCmeError, pc)
    BY DEF onCmeError
  <2> QED  BY <2>1, <2>2, Zenon DEF Quiet
<1>7. Quiet(onCallStateChanged)
  <2>1. 1 \in DOMAIN onCallStateChanged
    BY DEF onCallStateChanged
  <2>2. ASSUME NEW pc \in DOMAIN onCallStateChanged PROVE QuietAt(onCallStateChanged, pc)
    BY DEF onCallStateChanged
  <2> QED  BY <2>1, <2>2, Zenon DEF Quiet
<1>8. Quiet(onCallConnected)
  <2>1. 1 \in DOMAIN onCallConnected
    BY DEF onCallConnected
  <2>2. ASSUME NEW pc \in DOMAIN onCallConnected PROVE QuietAt(onCallConnected, pc)
    BY DEF onCallConnected
  <2> QED  BY <2>1, <2>2, Zenon DEF Quiet
<1>9. Quiet(onNetworkStateChanged)
  <2>1. 1 \in DOMAIN onNetworkStateChanged
    BY DEF onNetworkStateChanged
  <2>2. ASSUME NEW pc \in DOMAIN onNetworkStateChanged PROVE QuietAt(onNetworkStateChanged, pc)
    BY DEF onNetworkStateChanged
  <2> QED  BY <2>1, <2>2, Zenon DEF Quiet
<1>10. Quiet(onDataCallStageChanged)
  <2>1. 1 \in DOMAIN onDataCallStageChanged
    BY DEF onDataCallStageChanged
  <2>2. ASSUME NEW pc \in DOMAIN onDataCallStageChanged PROVE QuietAt(onDataCallStageChanged, pc)
    BY DEF onDataCallStageChanged
  <2> QED  BY <2>1, <2>2, Zenon DEF Quiet
<1> QED
  BY <1>1, <1>2, <1>3, <1>4, <1>5, <1>6, <1>7, <1>8, <1>9, <1>10, LinePrograms, Zenon
  DEF Unsolicited

(***************************************************************************)
(* The machine on a quiet program.                                         *)
(***************************************************************************)
\* A frame of fn at pc that has no response, no error and no result, as it began.
FrameAt(fn, pc) == [Frame(fn) EXCEPT !.pc = pc]

\* The stack while the handler of a line is at pc, alone on it.
Alone(fn, pc) == stack = <<FrameAt(fn, pc)>>

\* What the machine sees of such a stack.
LEMMA AloneTop ==
    ASSUME NEW fn, NEW pc, Alone(fn, pc)
    PROVE  /\ Len(stack) = 1 /\ stack # << >>
           /\ Top = FrameAt(fn, pc) /\ Top.fn = fn /\ Top.pc = pc
           /\ Instruction = Code[fn][pc]
           /\ \A f : SetTop(f) = <<f>>
           /\ \A k : [Top EXCEPT !.pc = k] = FrameAt(fn, k)
           /\ Next1(Top) = FrameAt(fn, pc + 1)
<1>1. Len(stack) = 1 /\ stack # << >> /\ stack[1] = FrameAt(fn, pc)
  BY DEF Alone
<1>2. Top = FrameAt(fn, pc)
  BY <1>1 DEF Top
<1>3. Top.fn = fn /\ Top.pc = pc /\ \A k : [Top EXCEPT !.pc = k] = FrameAt(fn, k)
  <2>1. Top.fn = fn /\ Top.pc = pc
    BY <1>2 DEF FrameAt, Frame
  <2>2. ASSUME NEW k PROVE [Top EXCEPT !.pc = k] = FrameAt(fn, k)
    BY <1>2 DEF FrameAt, Frame
  <2> QED  BY <2>1, <2>2
<1>4. Instruction = Code[fn][pc]
  BY <1>3 DEF Instruction
<1>5. \A f : SetTop(f) = <<f>>
  BY <1>1 DEF SetTop, Alone
<1>6. Next1(Top) = FrameAt(fn, pc + 1)
  BY <1>3 DEF Next1
<1> QED  BY <1>1, <1>2, <1>3, <1>4, <1>5, <1>6

\* A label that is in the program has a place.
LEMMA PlaceOfLabel ==
    ASSUME NEW fn, NEW pc, Alone(fn, pc), NEW l,
           \E i \in DOMAIN Code[fn] : Code[fn][i].op = "label" /\ Code[fn][i].to = l
    PROVE  Place(l) \in DOMAIN Code[fn]
BY AloneTop DEF Place

\* A test goes on to the next instruction or to a label.
LEMMA AloneFollows ==
    ASSUME NEW fn, NEW pc, Alone(fn, pc), NEW taken \in BOOLEAN,
           taken => Place(Code[fn][pc].to) \in DOMAIN Code[fn],
           ~taken => pc + 1 \in DOMAIN Code[fn]
    PROVE  \E q \in DOMAIN Code[fn] : Follow(taken) = <<FrameAt(fn, q)>>
<1>1. Top = FrameAt(fn, pc) /\ Instruction = Code[fn][pc]
  BY AloneTop
<1>2. CASE taken
  <2>1. Follow(taken) = <<FrameAt(fn, Place(Code[fn][pc].to))>>
    BY <1>1, <1>2, AloneTop DEF Follow
  <2> QED  BY <1>2, <2>1
<1>3. CASE ~taken
  <2>1. Follow(taken) = <<FrameAt(fn, pc + 1)>>
    BY <1>1, <1>3, AloneTop DEF Follow
  <2> QED  BY <1>3, <2>1
<1> QED  BY <1>2, <1>3

\* A step of a quiet program stays in it or returns.
LEMMA QuietStep ==
    ASSUME NEW fn, NEW pc \in DOMAIN Code[fn], Quiet(Code[fn]), Alone(fn, pc), Run
    PROVE  stack' = << >> \/ \E q \in DOMAIN Code[fn] : stack' = <<FrameAt(fn, q)>>
<1> DEFINE ins == Code[fn][pc]
<1>1. QuietAt(Code[fn], pc)
  BY DEF Quiet
<1>2. /\ Instruction = ins /\ Top = FrameAt(fn, pc)
      /\ Top.fn = fn /\ Top.pc = pc /\ Len(stack) = 1
      /\ \A f : SetTop(f) = <<f>>
      /\ Next1(Top) = FrameAt(fn, pc + 1)
  BY AloneTop
<1>3. /\ ins.op \in QuietOps
      /\ ins.op \notin {"return", "goto"} => pc + 1 \in DOMAIN Code[fn]
      /\ ins.op \in {"goto", "maybe"} => Place(ins.to) \in DOMAIN Code[fn]
      /\ ins.op = "wild" => ins.to = "none"
  BY <1>1, PlaceOfLabel DEF QuietAt
<1> HIDE DEF ins
<1>4. ~(SetNull \/ SendAnswered \/ SendFails \/ FireCommand \/ Timeout \/ CompleteRequest
        \/ FreeResponse \/ CallFunction \/ SetTries \/ CountTry)
  BY <1>2, <1>3 DEF SetNull, SendAnswered, SendFails, FireCommand, Timeout, CompleteRequest,
       FreeResponse, CallFunction, SetTries, CountTry, At, QuietOps
<1>5. CASE ReturnFromFunction
  <2>1. SubSeq(stack, 1, Len(stack) - 1) = << >>
    BY <1>2, EmptySeq, SubSeqProperties DEF Alone
  <2> QED  BY <1>5, <2>1 DEF ReturnFromFunction
<1>6. CASE RequestCallback
  <2>1. stack' = <<FrameAt(fn, pc + 1)>> /\ ins.op = "later"
    BY <1>2, <1>6 DEF RequestCallback, At
  <2> QED  BY <2>1, <1>3
<1>7. CASE Test
  <2>1. PICK taken \in Outcomes : stack' = Follow(taken)
    BY <1>7 DEF Test
  <2>2. ins.op \in {"label", "report", "goto", "maybe"}
    BY <1>2, <1>3, <2>1 DEF Outcomes, QuietOps
  <2>3. /\ taken \in BOOLEAN
        /\ taken => ins.op \in {"goto", "maybe"}
        /\ ~taken => ins.op # "goto"
    <3>1. Outcomes = CASE ins.op = "maybe" -> BOOLEAN [] ins.op = "goto" -> {TRUE}
                       [] OTHER -> {FALSE}
      BY <1>2, <2>2 DEF Outcomes
    <3> QED  BY <2>1, <2>2, <3>1
  <2> QED  BY <1>3, <2>1, <2>2, <2>3, AloneFollows DEF ins
<1>8. CASE Fault
  <2>1. ins.op = "wild"
    BY <1>2, <1>3, <1>8 DEF Fault, Undefined, Dereferences, Reads, ReadsLine, QuietOps
  <2>2. stack' = stack \/ stack' = Follow(FALSE)
    BY <1>2, <1>3, <1>8, <2>1 DEF Fault
  <2>3. \E q \in DOMAIN Code[fn] : Follow(FALSE) = <<FrameAt(fn, q)>>
    BY <1>3, <2>1, AloneFollows
  <2> QED  BY <2>2, <2>3 DEF Alone
<1> QED  BY <1>4, <1>5, <1>6, <1>7, <1>8 DEF Run

(***************************************************************************)
(* The invariant.                                                          *)
(***************************************************************************)
\* While a line is handled, its handler is alone on the stack.
HandlerAlone ==
    request = "line" =>
       stack = << >> \/ \E fn \in Unsolicited : \E pc \in DOMAIN Code[fn] : Alone(fn, pc)

\* No request of the framework has the name that stands for something else.
LEMMA NoRequests == "line" \notin Requests /\ "timed" \notin Requests /\ "none" \notin Requests
BY DEF Requests, Default, AllowedLocked, AllowedOff, AllowedNotReady

\* The handler of a line is always alone.
LEMMA HandlerAloneInvariant == Spec => []HandlerAlone
<1>1. Init => HandlerAlone
  BY DEF Init, HandlerAlone
<1>2. HandlerAlone /\ [Next]_vars => HandlerAlone'
  <2> SUFFICES ASSUME HandlerAlone, [Next]_vars, request' = "line"
               PROVE  \/ stack' = << >>
                      \/ \E fn \in Unsolicited : \E pc \in DOMAIN Code[fn] : stack' = <<FrameAt(fn, pc)>>
    BY DEF HandlerAlone, Alone
  <2>1. CASE Run
    <3>1. request' = request
      BY <2>1 DEF Run, SetNull, SendAnswered, SendFails, FireCommand, Timeout, CompleteRequest,
           FreeResponse, CallFunction, ReturnFromFunction, RequestCallback, SetTries, CountTry,
           Test, Fault
    <3>2. stack # << >>
      BY <2>1 DEF Run, SetNull, SendAnswered, SendFails, FireCommand, Timeout, CompleteRequest,
           FreeResponse, CallFunction, ReturnFromFunction, RequestCallback, SetTries, CountTry,
           Test, Fault, At
    <3>3. PICK fn \in Unsolicited : \E pc \in DOMAIN Code[fn] : Alone(fn, pc)
      BY <3>1, <3>2 DEF HandlerAlone
    <3>4. PICK pc \in DOMAIN Code[fn] : Alone(fn, pc)
      BY <3>3
    <3> QED  BY <2>1, <3>4, QuietHandlers, QuietStep
  <2>2. CASE RequestDone
    BY <2>2 DEF RequestDone
  <2>3. CASE \E r \in Requests : Request(r)
    BY <2>3, NoRequests DEF Request
  <2>4. CASE \E h \in Unsolicited : Line(h)
    <3>1. PICK h \in Unsolicited : Line(h)
      BY <2>4
    <3>2. Frame(h) = FrameAt(h, 1)
      <4>1. Frame(h) = [x \in DOMAIN Frame(h) |-> Frame(h)[x]] /\ Frame(h).pc = 1
        BY DEF Frame
      <4> QED  BY <4>1 DEF FrameAt
    <3>3. 1 \in DOMAIN Code[h]
      BY QuietHandlers DEF Quiet
    <3> QED  BY <3>1, <3>2, <3>3 DEF Line
  <2>5. CASE \E fn \in timed : Timed(fn)
    BY <2>5 DEF Timed
  <2>6. CASE UNCHANGED vars
    BY <2>6 DEF vars, HandlerAlone, Alone
  <2> QED  BY <2>1, <2>2, <2>3, <2>4, <2>5, <2>6 DEF Next
<1> QED  BY <1>1, <1>2, PTL DEF Spec

\* "AT commands may not be issued here" (sxx-ril.c:322): no handler of an
\* unsolicited line issues one on the reader thread, whatever the lines, the modem
\* and the bounds.
THEOREM CommandsTheorem == Spec => []CommandsOffReader
<1>1. HandlerAlone => CommandsOffReader
  <2> SUFFICES ASSUME HandlerAlone, request = "line", stack # << >>
               PROVE  Instruction.op \notin {"send", "fire"}
    BY DEF CommandsOffReader, At
  <2>1. PICK fn \in Unsolicited : \E pc \in DOMAIN Code[fn] : Alone(fn, pc)
    BY DEF HandlerAlone
  <2>2. PICK pc \in DOMAIN Code[fn] : Alone(fn, pc)
    BY <2>1
  <2>3. Instruction = Code[fn][pc]
    BY <2>2, AloneTop
  <2>4. Code[fn][pc].op \in QuietOps
    BY QuietHandlers DEF Quiet, QuietAt
  <2> QED  BY <2>3, <2>4 DEF QuietOps
<1> QED  BY <1>1, HandlerAloneInvariant, PTL

(***************************************************************************)
(* What every program keeps to.                                            *)
(*                                                                         *)
(* A note says what is known of the response, the error and the answer of  *)
(* a frame when it is at an instruction:                                   *)
(*   empty     no response, and nothing has been refused                   *)
(*   null      the same, and the pointer is NULL                           *)
(*   gone      no response                                                 *)
(*   sent      a command was sent: an error, or a response                 *)
(*   asked     the same of a command that asks for a line                  *)
(*   tried     the same when the pointer was not NULL before               *)
(*   live      a response                                                  *)
(*   answered  ... to a command that asks for a line                       *)
(*   read      ... with lines                                              *)
(*   ok        ... that is a success                                       *)
(*   lines     ... that is a success with lines                            *)
(*   clean     NULL or a response, and nothing has been refused            *)
(*   held      NULL or a response                                          *)
(***************************************************************************)
Held == {"null", "ok", "lines", "read", "answered", "live", "clean", "held", "sent", "asked"}
Fine == {"empty", "null", "ok", "lines", "clean"}
NotLive == {"empty", "null", "gone"}
LiveNotes == {"ok", "read", "lines", "answered", "live"}
Pending == {"sent", "asked", "tried"}

\* Nothing was refused, as far as the last answer tells.
Accepted(f) == f.answer \in {"none", "OK"}

\* What note k says of frame f.
Knows(k, f) ==
    /\ k \in Fine => Accepted(f)
    /\ k \in NotLive => ~Live(f.p)
    /\ k \in Held => f.p = Nothing("NULL") \/ Live(f.p)
    /\ k = "null" => f.p = Nothing("NULL")
    /\ k \in LiveNotes => Live(f.p)
    /\ k \in Pending => f.err \/ Live(f.p)
    /\ k \in {"ok", "lines"} => f.p.final = "OK"
    /\ k \in {"read", "lines"} => f.p.lines
    /\ k = "answered" => (f.p.final = "OK" => f.p.lines)
    /\ k = "asked" => (~f.err /\ f.p.final = "OK" => f.p.lines)

\* Note k2 says no more than note k.
Weaker(k, k2) ==
    \/ k2 = k
    \/ k2 = "gone" /\ k \in NotLive
    \/ k2 = "empty" /\ k = "null"
    \/ k2 = "held" /\ k \in Held
    \/ k2 = "clean" /\ k \in {"null", "ok", "lines"}
    \/ k2 = "live" /\ k \in LiveNotes
    \/ k2 \in {"ok", "read", "answered"} /\ k = "lines"
    \/ k2 = "sent" /\ k = "asked"
    \/ k2 = "tried" /\ k \in Pending

\* After instruction ins at note k, when it goes on to the next, note k2 holds.
Leads(ins, k, k2) ==
    \/ /\ Weaker(k, k2) /\ ins.op \notin {"null", "send", "free"}
       /\ ins.op = "fire" => k \notin Pending
    \/ ins.op = "null" /\ (k2 = "gone" \/ (k2 = "null" /\ k \in {"empty", "null"}))
    \/ /\ ins.op = "send"
       /\ \/ k2 = "tried"
          \/ k2 = "sent" /\ k \in Held
          \/ k2 = "asked" /\ k \in Held /\ ins.arg \in {"singleline", "numeric", "sms"}
    \/ ins.op = "free" /\ (k2 = "gone" \/ (k2 = "empty" /\ k \in Fine))
    \/ ins.op = "fire" /\ k \in {"sent", "asked"} /\ k2 = "held"
    \/ ins.op = "error" /\ ((k2 = "live" /\ k \in Pending) \/ (k2 = "answered" /\ k = "asked"))
    \/ /\ ins.op = "failure"
       /\ \/ k2 = "ok" /\ k \in Pending \union LiveNotes \union {"held"}
          \/ k2 = "lines" /\ k \in {"asked", "answered"}
    \/ ins.op = "refusal" /\ ((k2 = "ok" /\ k \in LiveNotes) \/ (k2 = "lines" /\ k = "answered"))
    \/ ins.op = "nolines" /\ ((k2 = "read" /\ k \in LiveNotes) \/ (k2 = "lines" /\ k = "ok"))

\* At note k the instruction runs into nothing undefined.
Safe(ins, k) ==
    /\ ins.op \in {"refusal", "final", "nolines"} => k \in LiveNotes
    /\ ins.op = "failure" => k \in LiveNotes \union Pending
    /\ ins.op \in {"parse", "line"} => k \in {"read", "lines"}
    /\ ins.op = "free" => k \in Held
    /\ ins.op \notin {"wild", "crash"}

\* The functions that KnownFaults, KnownLeaks and HonestSuccess except.
Faulty == {"requestHangupWaitingOrBackground", "requestHangupForegroundResumeBackground",
           "requestHangup", "requestSetCallWaiting", "getSIMStatus", "getSIMStatus2",
           "reportDataCallList", "requestGSMGetBroadcastSMSConfig", "getClvlValue",
           "onNewMesssageByIndex", "onMessageListing", "onUSSDReceived"}
Leaky == {"requestHangupWaitingOrBackground", "requestHangupForegroundResumeBackground",
          "requestHangup", "requestGetCurrentCalls", "getSIMStatus", "getSIMStatus2",
          "getNetworkType", "getNetworkType_MH400B", "getNetworkTypeOld", "reportDataCallList"}
Dishonest == {"requestGetCurrentCalls", "requestGetCLIR", "requestQueryCallWaiting",
              "requestCallForward", "requestOperator", "requestRadioPower",
              "requestRadioPower_MH400B"}

(***************************************************************************)
(* A mark says whether the request has been completed by a frame and by    *)
(* the functions that have returned to it: "no", "yes", or "tries", which  *)
(* is "yes unless some tries are left".  Silent functions never complete   *)
(* one, and have no marks.  In the Repeating ones, which only serve the    *)
(* requests of Repeaters, "no" says nothing.                               *)
(***************************************************************************)
Silent == {"sendCallStateChanged", "onCallStateChanged", "callConnectedJob", "onCallConnected",
           "readMessageByIndex", "deleteMessageByIndex", "onNewMesssageByIndex",
           "onNewMessageOrStatus", "onMessageListing", "onUSSDReceived", "onCmeError",
           "onNetworkStateChanged", "onDataCallStageChanged", "onTimeChanged",
           "reportSignalStrength", "getNetworkType", "getZmdsValue", "getRadioPower",
           "setRadioState", "onSIMReady", "getSIMStatus", "getSIMStatus2", "pollSIMState",
           "get_phone_book", "set_phone_book", "sim_io_hook", "getClvlValue",
           "getNetworkTypeOld", "getNetworkType_MH400B"}
Repeating == {"requestVoiceRegistrationState", "requestDataRegistrationState",
              "requestSignalStrength", "requestSMSAcknowledge"}

\* What is called, and left to the main thread.
Callees == {"callConnectedJob", "dc_thread", "deleteMessageByIndex", "getClvlValue",
            "getNetworkType", "getNetworkTypeOld", "getNetworkType_MH400B", "getRadioPower",
            "getSIMStatus", "getSIMStatus2", "getZmdsValue", "get_phone_book",
            "onDataCallListChanged", "onSIMReady", "pollSIMState", "readMessageByIndex",
            "reportDataCallList", "reportSignalStrength", "requestCallForward",
            "requestRegistrationStateSub", "requestRegistrationStateSub_MH400B",
            "requestSendSMS", "sendCallStateChanged", "setRadioState", "set_phone_book",
            "sim_io_hook"}

\* The instruction completes the request, itself or by a function it calls.
Completes(ins) == ins.op = "complete" \/ (ins.op = "call" /\ ins.arg \notin Silent)

\* Mark m2 says no more than mark m in function fn.
WeakerMark(fn, m, m2) ==
    m2 = m \/ (fn \in Repeating /\ (m2 = "no" \/ (m2 = "tries" /\ m = "yes")))

\* After instruction ins at mark m, when it goes on to the next, mark m2 holds.
Counts(fn, ins, m, m2) ==
    \/ WeakerMark(fn, m, m2) /\ ~Completes(ins) /\ ins.op \notin {"set", "countdown"}
    \/ Completes(ins) /\ WeakerMark(fn, "yes", m2) /\ (m = "no" \/ fn \in Repeating)
    \/ ins.op = "set" /\ ins.arg # 0 /\ m2 = "tries" /\ fn \in Repeating
    \/ ins.op = "countdown" /\ m2 = "no" /\ fn \in Repeating

\* ... and when it jumps.
CountsJump(fn, ins, m, m2) ==
    \/ WeakerMark(fn, m, m2) /\ ins.op # "countdown"
    \/ ins.op = "countdown" /\ m = "tries" /\ m2 = "yes"

(***************************************************************************)
(* The checks of one instruction: its operands are right, what follows it  *)
(* is in the program, the notes and marks follow from each other, and the  *)
(* notes rule out what the function is not known to do.                    *)
(***************************************************************************)
Ending == {"return", "goto", "crash"}

\* The tests, which may jump.
Jumping == {"goto", "error", "failure", "refusal", "final", "isnull", "nolines", "returned",
            "maybe", "parse", "countdown"}

Operands(ins) ==
    /\ ins.op \in Jumping => ins.to # "none"
    /\ ins.op \in {"call", "later"} => ins.arg \in Callees
    /\ ins.op = "return" => ins.arg \in Values
    /\ ins.op = "set" => ins.arg \in 0..MaxTries
    /\ ins.op = "complete" => ins.arg \in Errors

Allowed(fn, ins, k) ==
    /\ fn \in Faulty \/ Safe(ins, k)
    /\ ins.op \in {"null", "send", "return"} => fn \in Leaky \/ k \in NotLive
    /\ ins.op = "complete" /\ ins.arg = "SUCCESS" => fn \in Dishonest \/ k \in Fine

\* Program p is the list s of instructions.
Lists(p, s) == DOMAIN p = DOMAIN s /\ \A i \in DOMAIN s : p[i] = s[i]

LabelAt(program, i, l) == program[i].op = "label" /\ program[i].to = l

NotesAt(fn, program, note, pc) ==
    LET ins == program[pc]
        k == note[pc]
    IN  /\ pc \in Nat /\ Operands(ins) /\ Allowed(fn, ins, k)
        /\ ins.op \notin Ending => pc + 1 \in DOMAIN program /\ Leads(ins, k, note[pc + 1])
        /\ ins.op # "label" /\ ins.to # "none" =>
             /\ \E i \in DOMAIN program : LabelAt(program, i, ins.to)
             /\ \A i \in DOMAIN program : LabelAt(program, i, ins.to) => Weaker(k, note[i])

MarksAt(fn, program, mark, pc) ==
    LET ins == program[pc]
        m == mark[pc]
    IN  /\ m \in {"no", "yes"} \/ (m = "tries" /\ fn \in Repeating)
        /\ ins.op \notin Ending => Counts(fn, ins, m, mark[pc + 1])
        /\ ins.op # "label" /\ ins.to # "none" =>
             \A i \in DOMAIN program : LabelAt(program, i, ins.to) => CountsJump(fn, ins, m, mark[i])
        /\ ins.op = "return" => m = "yes"

\* Function fn keeps to the notes and to the marks.
Noted(fn, program, note) ==
    /\ 1 \in DOMAIN program /\ note[1] = "empty"
    /\ \A pc \in DOMAIN program : NotesAt(fn, program, note, pc)

Marked(fn, program, mark) ==
    IF fn \in Silent THEN \A pc \in DOMAIN program : ~Completes(program[pc])
    ELSE mark[1] = "no" /\ \A pc \in DOMAIN program : MarksAt(fn, program, mark, pc)

Sound(fn) ==
    /\ \E note : Noted(fn, Code[fn], note)
    /\ \E mark : Marked(fn, Code[fn], mark)

(***************************************************************************)
(* The notes and marks of each program.  Programs that are built from      *)
(* shapes are listed first.  Which instruction is which, and what follows  *)
(* from it, is used throughout.                                            *)
(***************************************************************************)
USE DEF Ins, Null, Send, Fire, Complete, Free, Call, Return, Set, Later, Report, Label, Goto,
        OnError, OnFailure, OnRefusal, OnFinal, OnNull, OnNoLines, OnReturn, Maybe, Countdown,
        Parse, ReadLine, Wild, Crash, Held, Fine, NotLive, LiveNotes, Pending, Weaker, Leads,
        Safe, Faulty, Leaky, Dishonest, Silent, Repeating, Callees, Completes, WeakerMark,
        Counts, CountsJump, Ending, Jumping, Operands, Allowed, LabelAt, Values, Errors, MaxTries

(***************************************************************************)
(* sxx-ril-call.c                                                          *)
(***************************************************************************)
\* These complete their request once, but may run into undefined behaviour and lose
\* a response.
LEMMA RequestHangupWaitingOrBackgroundSound ==
    \A fn \in {"requestHangupWaitingOrBackground",
                  "requestHangupForegroundResumeBackground"} : Sound(fn)
<1> TAKE fn \in {"requestHangupWaitingOrBackground",
                "requestHangupForegroundResumeBackground"}
<1> DEFINE note == <<"empty", "null", "sent", "ok", "ok", "ok", "sent", "sent", "held", "ok",
                     "held", "held", "held">>
           mark == <<"no", "no", "no", "no", "no", "yes", "no", "no", "no", "no", "no", "no",
                     "yes">>
<1>1. Lists(requestHangupWaitingOrBackground, <<Null, Send("plain"), OnFailure("chup"),
                                                  Label("done"), Complete("SUCCESS"),
                                                  Return("none"), Label("chup"), Fire,
                                                  OnFailure("failed"), Goto("done"),
                                                  Label("failed"), Complete("GENERIC_FAILURE"),
                                                  Return("none")>>)
  BY DEF requestHangupWaitingOrBackground, Lists, Ends, Hangup
<1>2. Noted(fn, requestHangupWaitingOrBackground, note)
  BY <1>1, SMTT(20) DEF Noted, NotesAt, Lists
<1>3. Marked(fn, requestHangupWaitingOrBackground, mark)
  BY <1>1, SMTT(20) DEF Marked, MarksAt, Lists
<1>4. Code[fn] = requestHangupWaitingOrBackground
  BY SMTT(20) DEF Code, requestHangupWaitingOrBackground, requestHangupForegroundResumeBackground
<1> QED  BY <1>2, <1>3, <1>4, Zenon DEF Sound

\* requestHangup completes its request once, but may run into undefined behaviour
\* and lose a response.
LEMMA RequestHangupSound == Sound("requestHangup")
<1> DEFINE note == <<"empty", "null", "sent", "sent", "ok", "ok", "ok", "sent", "sent", "held",
                     "ok", "held", "held", "held">>
           mark == <<"no", "no", "no", "no", "no", "no", "yes", "no", "no", "no", "no", "no",
                     "no", "yes">>
<1>1. Lists(requestHangup, <<Null, Send("plain"), Send("plain"), OnFailure("chup"),
                               Label("done"), Complete("SUCCESS"), Return("none"), Label("chup"),
                               Fire, OnFailure("failed"), Goto("done"), Label("failed"),
                               Complete("GENERIC_FAILURE"), Return("none")>>)
  BY DEF requestHangup, Lists, Ends, Hangup
<1>2. Noted("requestHangup", requestHangup, note)
  BY <1>1, SMTT(20) DEF Noted, NotesAt, Lists
<1>3. Marked("requestHangup", requestHangup, mark)
  BY <1>1, SMTT(20) DEF Marked, MarksAt, Lists
<1>4. Code["requestHangup"] = requestHangup
  BY DEF Code
<1> QED  BY <1>2, <1>3, <1>4, Zenon DEF Sound

\* These complete their request once.
LEMMA RequestSwitchWaitingOrHoldingAndActiveSound ==
    \A fn \in {"requestSwitchWaitingOrHoldingAndActive", "requestConference",
                  "requestSeparateConnection", "requestExplicitCallTransfer", "requestUDUB",
                  "requestDial", "requestDTMF", "requestDTMFStart",
                  "requestSetVoiceVolume_MG3732", "requestSetAudioPath_MH400B",
                  "requestSetVoiceVolume_MH400B"} : Sound(fn)
<1> TAKE fn \in {"requestSwitchWaitingOrHoldingAndActive", "requestConference",
                "requestSeparateConnection", "requestExplicitCallTransfer", "requestUDUB",
                "requestDial", "requestDTMF", "requestDTMFStart",
                "requestSetVoiceVolume_MG3732", "requestSetAudioPath_MH400B",
                "requestSetVoiceVolume_MH400B"}
<1> DEFINE note == <<"empty", "empty", "empty">>
           mark == <<"no", "no", "yes">>
<1>1. Lists(requestSwitchWaitingOrHoldingAndActive, <<Fire, Complete("SUCCESS"),
                                                        Return("none")>>)
  BY DEF requestSwitchWaitingOrHoldingAndActive, Lists, Ends
<1>2. Noted(fn, requestSwitchWaitingOrHoldingAndActive, note)
  BY <1>1, SMTT(20) DEF Noted, NotesAt, Lists
<1>3. Marked(fn, requestSwitchWaitingOrHoldingAndActive, mark)
  BY <1>1, SMTT(20) DEF Marked, MarksAt, Lists
<1>4. Code[fn] = requestSwitchWaitingOrHoldingAndActive
  <2>1. Code["requestSwitchWaitingOrHoldingAndActive"] = requestSwitchWaitingOrHoldingAndActive
    BY DEF Code
  <2>2. Code["requestConference"] = requestSwitchWaitingOrHoldingAndActive
    BY DEF Code, requestConference, requestSwitchWaitingOrHoldingAndActive
  <2>3. Code["requestSeparateConnection"] = requestSwitchWaitingOrHoldingAndActive
    BY DEF Code, requestSeparateConnection, requestSwitchWaitingOrHoldingAndActive
  <2>4. Code["requestExplicitCallTransfer"] = requestSwitchWaitingOrHoldingAndActive
    BY DEF Code, requestExplicitCallTransfer, requestSwitchWaitingOrHoldingAndActive
  <2>5. Code["requestUDUB"] = requestSwitchWaitingOrHoldingAndActive
    BY DEF Code, requestUDUB, requestSwitchWaitingOrHoldingAndActive
  <2>6. Code["requestDial"] = requestSwitchWaitingOrHoldingAndActive
    BY DEF Code, requestDial, requestSwitchWaitingOrHoldingAndActive
  <2>7. Code["requestDTMF"] = requestSwitchWaitingOrHoldingAndActive
    BY DEF Code, requestDTMF, requestSwitchWaitingOrHoldingAndActive
  <2>8. Code["requestDTMFStart"] = requestSwitchWaitingOrHoldingAndActive
    BY DEF Code, requestDTMFStart, requestSwitchWaitingOrHoldingAndActive
  <2>9. Code["requestSetVoiceVolume_MG3732"] = requestSwitchWaitingOrHoldingAndActive
    BY DEF Code, requestSetVoiceVolume_MG3732, requestSwitchWaitingOrHoldingAndActive
  <2>10. Code["requestSetAudioPath_MH400B"] = requestSwitchWaitingOrHoldingAndActive
    BY DEF Code, requestSetAudioPath_MH400B, requestSwitchWaitingOrHoldingAndActive
  <2>11. Code["requestSetVoiceVolume_MH400B"] = requestSwitchWaitingOrHoldingAndActive
    BY DEF Code, requestSetVoiceVolume_MH400B, requestSwitchWaitingOrHoldingAndActive
  <2> QED  BY <2>1, <2>2, <2>3, <2>4, <2>5, <2>6, <2>7, <2>8, <2>9, <2>10, <2>11
<1> QED  BY <1>2, <1>3, <1>4, Zenon DEF Sound

\* These complete their request once.
LEMMA RequestSetMuteSound ==
    \A fn \in {"requestSetMute", "requestSetSuppSvcNotification",
                  "requestSetNetworkSelectionAutomatic"} : Sound(fn)
<1> TAKE fn \in {"requestSetMute", "requestSetSuppSvcNotification",
                "requestSetNetworkSelectionAutomatic"}
<1> DEFINE note == <<"empty", "empty", "empty", "empty", "empty", "empty", "empty">>
           mark == <<"no", "no", "no", "yes", "no", "no", "yes">>
<1>1. Lists(requestSetMute, <<Fire, OnError("error"), Complete("SUCCESS"), Return("none"),
                                Label("error"), Complete("GENERIC_FAILURE"), Return("none")>>)
  BY DEF requestSetMute, Lists, Ends, FireChecked
<1>2. Noted(fn, requestSetMute, note)
  BY <1>1 DEF Noted, NotesAt, Lists
<1>3. Marked(fn, requestSetMute, mark)
  BY <1>1 DEF Marked, MarksAt, Lists
<1>4. Code[fn] = requestSetMute
  BY SMTT(20) DEF Code, requestSetMute, requestSetSuppSvcNotification,
         requestSetNetworkSelectionAutomatic
<1> QED  BY <1>2, <1>3, <1>4, Zenon DEF Sound

\* These complete their request once.
LEMMA RequestGetMuteSound ==
    \A fn \in {"requestGetMute", "requestLastCallFailCause", "requestDTMFStop",
                  "requestQueryClip", "requestSetCLIR"} : Sound(fn)
<1> TAKE fn \in {"requestGetMute", "requestLastCallFailCause", "requestDTMFStop",
                "requestQueryClip", "requestSetCLIR"}
<1> DEFINE note == <<"empty", "empty">>
           mark == <<"no", "yes">>
<1>1. Lists(requestGetMute, <<Complete("REQUEST_NOT_SUPPORTED"), Return("none")>>)
  BY DEF requestGetMute, Lists, Ends
<1>2. Noted(fn, requestGetMute, note)
  BY <1>1, SMTT(20) DEF Noted, NotesAt, Lists
<1>3. Marked(fn, requestGetMute, mark)
  BY <1>1, SMTT(20) DEF Marked, MarksAt, Lists
<1>4. Code[fn] = requestGetMute
  <2>1. Code["requestGetMute"] = requestGetMute
    BY DEF Code
  <2>2. Code["requestLastCallFailCause"] = requestGetMute
    BY DEF Code, requestLastCallFailCause, requestGetMute
  <2>3. Code["requestDTMFStop"] = requestGetMute
    BY DEF Code, requestDTMFStop, requestGetMute
  <2>4. Code["requestQueryClip"] = requestGetMute
    BY DEF Code, requestQueryClip, requestGetMute
  <2>5. Code["requestSetCLIR"] = requestGetMute
    BY DEF Code, requestSetCLIR, requestGetMute
  <2> QED  BY <2>1, <2>2, <2>3, <2>4, <2>5
<1> QED  BY <1>2, <1>3, <1>4, Zenon DEF Sound

\* requestGetCurrentCalls completes its request once, but may lose a response and
\* report a success that was refused.
LEMMA RequestGetCurrentCallsSound == Sound("requestGetCurrentCalls")
<1> DEFINE note == <<"empty", "tried", "ok", "ok", "empty", "empty", "empty", "empty", "tried",
                     "tried", "tried">>
           mark == <<"no", "no", "no", "yes", "yes", "yes", "yes", "yes", "no", "no", "yes">>
<1>1. Lists(requestGetCurrentCalls, <<Send("multiline"), OnFailure("failed"),
                                        Complete("SUCCESS"), Free, Maybe("end"),
                                        Later("sendCallStateChanged"), Label("end"),
                                        Return("none"), Label("failed"), Complete("SUCCESS"),
                                        Return("none")>>)
  BY DEF requestGetCurrentCalls, Lists, Ends
<1>2. Noted("requestGetCurrentCalls", requestGetCurrentCalls, note)
  BY <1>1 DEF Noted, NotesAt, Lists
<1>3. Marked("requestGetCurrentCalls", requestGetCurrentCalls, mark)
  BY <1>1 DEF Marked, MarksAt, Lists
<1>4. Code["requestGetCurrentCalls"] = requestGetCurrentCalls
  BY DEF Code
<1> QED  BY <1>2, <1>3, <1>4, Zenon DEF Sound

\* These complete nothing.
LEMMA SendCallStateChangedSound ==
    \A fn \in {"sendCallStateChanged", "onCallStateChanged", "onNewMessageOrStatus"} : Sound(fn)
<1> TAKE fn \in {"sendCallStateChanged", "onCallStateChanged", "onNewMessageOrStatus"}
<1> DEFINE note == <<"empty", "empty">>
<1>2. Noted(fn, sendCallStateChanged, note)
  BY DEF Noted, NotesAt, sendCallStateChanged
<1>3. Marked(fn, sendCallStateChanged, << >>)
  BY DEF Marked, MarksAt, sendCallStateChanged
<1>4. Code[fn] = sendCallStateChanged
  BY SMTT(20) DEF Code, sendCallStateChanged, onCallStateChanged, onNewMessageOrStatus
<1> QED  BY <1>2, <1>3, <1>4, Zenon DEF Sound

\* These complete their request once.
LEMMA RequestAnswerSound ==
    \A fn \in {"requestAnswer", "requestGSMSMSBroadcastActivation",
                  "requestDeleteSmsOnSim", "requestSetSMSCAddress"} : Sound(fn)
<1> TAKE fn \in {"requestAnswer", "requestGSMSMSBroadcastActivation",
                "requestDeleteSmsOnSim", "requestSetSMSCAddress"}
<1> DEFINE note == <<"empty", "null", "sent", "ok", "ok", "empty", "sent", "sent", "sent",
                     "gone">>
           mark == <<"no", "no", "no", "no", "yes", "yes", "no", "no", "yes", "yes">>
<1>1. Lists(requestAnswer, <<Null, Send("plain"), OnFailure("error"), Complete("SUCCESS"),
                               Free, Return("none"), Label("error"), Complete("GENERIC_FAILURE"),
                               Free, Return("none")>>)
  BY DEF requestAnswer, Lists, Finish, Command
<1>2. Noted(fn, requestAnswer, note)
  BY <1>1, SMTT(20) DEF Noted, NotesAt, Lists
<1>3. Marked(fn, requestAnswer, mark)
  BY <1>1, SMTT(20) DEF Marked, MarksAt, Lists
<1>4. Code[fn] = requestAnswer
  <2>1. Code["requestAnswer"] = requestAnswer
    BY DEF Code
  <2>2. Code["requestGSMSMSBroadcastActivation"] = requestAnswer
    BY DEF Code, requestGSMSMSBroadcastActivation, requestAnswer
  <2>3. Code["requestDeleteSmsOnSim"] = requestAnswer
    BY DEF Code, requestDeleteSmsOnSim, requestAnswer
  <2>4. Code["requestSetSMSCAddress"] = requestAnswer
    BY DEF Code, requestSetSMSCAddress, requestAnswer
  <2> QED  BY <2>1, <2>2, <2>3, <2>4
<1> QED  BY <1>2, <1>3, <1>4, Zenon DEF Sound

\* callConnectedJob completes nothing.
LEMMA CallConnectedJobSound == Sound("callConnectedJob")
<1> DEFINE note == <<"empty", "empty", "empty", "empty">>
<1>1. Lists(callConnectedJob, <<Fire, Fire, Fire, Return("none")>>)
  BY DEF callConnectedJob, Lists, Fires
<1>2. Noted("callConnectedJob", callConnectedJob, note)
  BY <1>1 DEF Noted, NotesAt, Lists
<1>3. Marked("callConnectedJob", callConnectedJob, << >>)
  BY <1>1 DEF Marked, MarksAt, Lists
<1>4. Code["callConnectedJob"] = callConnectedJob
  BY DEF Code
<1> QED  BY <1>2, <1>3, <1>4, Zenon DEF Sound

\* onCallConnected completes nothing.
LEMMA OnCallConnectedSound == Sound("onCallConnected")
<1> DEFINE note == <<"empty", "empty">>
<1>2. Noted("onCallConnected", onCallConnected, note)
  BY DEF Noted, NotesAt, onCallConnected
<1>3. Marked("onCallConnected", onCallConnected, << >>)
  BY DEF Marked, MarksAt, onCallConnected
<1>4. Code["onCallConnected"] = onCallConnected
  BY DEF Code
<1> QED  BY <1>2, <1>3, <1>4, Zenon DEF Sound

(***************************************************************************)
(* sxx-ril-device.c                                                        *)
(***************************************************************************)
\* These complete their request once.
LEMMA RequestGetIMSISound ==
    \A fn \in {"requestGetIMSI", "requestQueryNetworkSelectionMode"} : Sound(fn)
<1> TAKE fn \in {"requestGetIMSI", "requestQueryNetworkSelectionMode"}
<1> DEFINE note == <<"empty", "null", "asked", "lines", "lines", "lines", "empty", "held",
                     "held", "gone", "gone">>
           mark == <<"no", "no", "no", "no", "no", "yes", "yes", "no", "no", "no", "yes">>
<1>1. Lists(requestGetIMSI, <<Null, Send("singleline"), OnFailure("error"), Parse("error"),
                                Complete("SUCCESS"), Free, Return("none"), Label("error"), Free,
                                Complete("GENERIC_FAILURE"), Return("none")>>)
  BY DEF requestGetIMSI, Lists, FinishFreed, Command, Query
<1>2. Noted(fn, requestGetIMSI, note)
  BY <1>1 DEF Noted, NotesAt, Lists
<1>3. Marked(fn, requestGetIMSI, mark)
  BY <1>1 DEF Marked, MarksAt, Lists
<1>4. Code[fn] = requestGetIMSI
  BY SMTT(20) DEF Code, requestGetIMSI, requestQueryNetworkSelectionMode
<1> QED  BY <1>2, <1>3, <1>4, Zenon DEF Sound

\* These complete their request once.
LEMMA RequestDeviceIdentitySound ==
    \A fn \in {"requestDeviceIdentity", "requestGetIMEI"} : Sound(fn)
<1> TAKE fn \in {"requestDeviceIdentity", "requestGetIMEI"}
<1> DEFINE note == <<"empty", "null", "asked", "lines", "lines", "lines", "empty", "asked",
                     "asked", "asked", "gone">>
           mark == <<"no", "no", "no", "no", "no", "yes", "yes", "no", "no", "yes", "yes">>
<1>1. Lists(requestDeviceIdentity, <<Null, Send("numeric"), OnFailure("error"), ReadLine,
                                       Complete("SUCCESS"), Free, Return("none"), Label("error"),
                                       Complete("GENERIC_FAILURE"), Free, Return("none")>>)
  BY DEF requestDeviceIdentity, Lists, Finish, Command
<1>2. Noted(fn, requestDeviceIdentity, note)
  BY <1>1 DEF Noted, NotesAt, Lists
<1>3. Marked(fn, requestDeviceIdentity, mark)
  BY <1>1 DEF Marked, MarksAt, Lists
<1>4. Code[fn] = requestDeviceIdentity
  BY SMTT(20) DEF Code, requestDeviceIdentity, requestGetIMEI
<1> QED  BY <1>2, <1>3, <1>4, Zenon DEF Sound

\* These complete their request once.
LEMMA RequestGetIMEISVSound ==
    \A fn \in {"requestGetIMEISV", "requestCDMASubScription",
                  "requestLastDataCallFailCause"} : Sound(fn)
<1> TAKE fn \in {"requestGetIMEISV", "requestCDMASubScription",
                "requestLastDataCallFailCause"}
<1> DEFINE note == <<"empty", "empty">>
           mark == <<"no", "yes">>
<1>1. Lists(requestGetIMEISV, <<Complete("SUCCESS"), Return("none")>>)
  BY DEF requestGetIMEISV, Lists, Ends
<1>2. Noted(fn, requestGetIMEISV, note)
  BY <1>1 DEF Noted, NotesAt, Lists
<1>3. Marked(fn, requestGetIMEISV, mark)
  BY <1>1 DEF Marked, MarksAt, Lists
<1>4. Code[fn] = requestGetIMEISV
  BY SMTT(20) DEF Code, requestGetIMEISV, requestCDMASubScription, requestLastDataCallFailCause
<1> QED  BY <1>2, <1>3, <1>4, Zenon DEF Sound

\* requestReportStkServiceIsRunning completes its request once.
LEMMA RequestReportStkServiceIsRunningSound == Sound("requestReportStkServiceIsRunning")
<1> DEFINE note == <<"empty", "empty">>
           mark == <<"no", "yes">>
<1>1. Lists(requestReportStkServiceIsRunning, <<Complete("GENERIC_FAILURE"), Return("none")>>)
  BY DEF requestReportStkServiceIsRunning, Lists, Ends
<1>2. Noted("requestReportStkServiceIsRunning", requestReportStkServiceIsRunning, note)
  BY <1>1 DEF Noted, NotesAt, Lists
<1>3. Marked("requestReportStkServiceIsRunning", requestReportStkServiceIsRunning, mark)
  BY <1>1 DEF Marked, MarksAt, Lists
<1>4. Code["requestReportStkServiceIsRunning"] = requestReportStkServiceIsRunning
  BY DEF Code
<1> QED  BY <1>2, <1>3, <1>4, Zenon DEF Sound

\* requestBasebandVersion completes its request once.
LEMMA RequestBasebandVersionSound == Sound("requestBasebandVersion")
<1> DEFINE note == <<"empty", "null", "asked", "lines", "lines", "lines", "lines", "empty",
                     "held", "held", "held", "gone">>
           mark == <<"no", "no", "no", "no", "no", "no", "yes", "yes", "no", "no", "yes",
                     "yes">>
<1>1. Lists(requestBasebandVersion, <<Null, Send("singleline"), OnFailure("error"),
                                        OnNoLines("error"), Parse("error"), Complete("SUCCESS"),
                                        Free, Return("none"), Label("error"),
                                        Complete("GENERIC_FAILURE"), Free, Return("none")>>)
  BY DEF requestBasebandVersion, Lists, Finish, Command
<1>2. Noted("requestBasebandVersion", requestBasebandVersion, note)
  BY <1>1 DEF Noted, NotesAt, Lists
<1>3. Marked("requestBasebandVersion", requestBasebandVersion, mark)
  BY <1>1 DEF Marked, MarksAt, Lists
<1>4. Code["requestBasebandVersion"] = requestBasebandVersion
  BY DEF Code
<1> QED  BY <1>2, <1>3, <1>4, Zenon DEF Sound

(***************************************************************************)
(* sxx-ril-message.c                                                       *)
(***************************************************************************)
\* requestGSMGetBroadcastSMSConfig completes its request once, but may run into
\* undefined behaviour.
LEMMA RequestGSMGetBroadcastSMSConfigSound == Sound("requestGSMGetBroadcastSMSConfig")
<1> DEFINE note == <<"empty", "null", "asked", "lines", "lines", "lines", "lines", "lines",
                     "lines", "empty", "asked", "asked", "asked", "asked", "gone">>
           mark == <<"no", "no", "no", "no", "no", "no", "no", "no", "yes", "yes", "no", "no",
                     "yes", "yes", "yes">>
<1>2. Noted("requestGSMGetBroadcastSMSConfig", requestGSMGetBroadcastSMSConfig, note)
  BY SMTT(20) DEF Noted, NotesAt, requestGSMGetBroadcastSMSConfig
<1>3. Marked("requestGSMGetBroadcastSMSConfig", requestGSMGetBroadcastSMSConfig, mark)
  BY DEF Marked, MarksAt, requestGSMGetBroadcastSMSConfig
<1>4. Code["requestGSMGetBroadcastSMSConfig"] = requestGSMGetBroadcastSMSConfig
  BY DEF Code
<1> QED  BY <1>2, <1>3, <1>4, Zenon DEF Sound

\* These complete their request once.
LEMMA RequestGSMSetBroadcastSMSConfigSound ==
    \A fn \in {"requestGSMSetBroadcastSMSConfig", "requestSetNetworkSelectionManual",
                  "requestSetNetworkSelectionManual_MH400B"} : Sound(fn)
<1> TAKE fn \in {"requestGSMSetBroadcastSMSConfig", "requestSetNetworkSelectionManual",
                "requestSetNetworkSelectionManual_MH400B"}
<1> DEFINE note == <<"empty", "null", "null", "sent", "ok", "ok", "empty", "held", "held",
                     "held", "gone">>
           mark == <<"no", "no", "no", "no", "no", "yes", "yes", "no", "no", "yes", "yes">>
<1>1. Lists(requestGSMSetBroadcastSMSConfig, <<Null, Maybe("error"), Send("plain"),
                                                 OnFailure("error"), Complete("SUCCESS"), Free,
                                                 Return("none"), Label("error"),
                                                 Complete("GENERIC_FAILURE"), Free,
                                                 Return("none")>>)
  BY DEF requestGSMSetBroadcastSMSConfig, Lists, Finish
<1>2. Noted(fn, requestGSMSetBroadcastSMSConfig, note)
  BY <1>1 DEF Noted, NotesAt, Lists
<1>3. Marked(fn, requestGSMSetBroadcastSMSConfig, mark)
  BY <1>1 DEF Marked, MarksAt, Lists
<1>4. Code[fn] = requestGSMSetBroadcastSMSConfig
  BY SMTT(20) DEF Code, requestGSMSetBroadcastSMSConfig, requestSetNetworkSelectionManual,
         requestSetNetworkSelectionManual_MH400B
<1> QED  BY <1>2, <1>3, <1>4, Zenon DEF Sound

\* These complete their request once.
LEMMA RequestSendSMSSound ==
    \A fn \in {"requestSendSMS", "requestWriteSmsToSim"} : Sound(fn)
<1> TAKE fn \in {"requestSendSMS", "requestWriteSmsToSim"}
<1> DEFINE note == <<"empty", "null", "asked", "lines", "lines", "empty", "asked", "asked",
                     "asked", "gone">>
           mark == <<"no", "no", "no", "no", "yes", "yes", "no", "no", "yes", "yes">>
<1>1. Lists(requestSendSMS, <<Null, Send("sms"), OnFailure("error"), Complete("SUCCESS"),
                                Free, Return("none"), Label("error"), Complete("GENERIC_FAILURE"),
                                Free, Return("none")>>)
  BY DEF requestSendSMS, Lists, Finish, Command
<1>2. Noted(fn, requestSendSMS, note)
  BY <1>1 DEF Noted, NotesAt, Lists
<1>3. Marked(fn, requestSendSMS, mark)
  BY <1>1 DEF Marked, MarksAt, Lists
<1>4. Code[fn] = requestSendSMS
  BY SMTT(20) DEF Code, requestSendSMS, requestWriteSmsToSim
<1> QED  BY <1>2, <1>3, <1>4, Zenon DEF Sound

\* requestSendSMSExpectMore completes its request once.
LEMMA RequestSendSMSExpectMoreSound == Sound("requestSendSMSExpectMore")
<1> DEFINE note == <<"empty", "empty", "empty">>
           mark == <<"no", "no", "yes">>
<1>2. Noted("requestSendSMSExpectMore", requestSendSMSExpectMore, note)
  BY DEF Noted, NotesAt, requestSendSMSExpectMore
<1>3. Marked("requestSendSMSExpectMore", requestSendSMSExpectMore, mark)
  BY DEF Marked, MarksAt, requestSendSMSExpectMore
<1>4. Code["requestSendSMSExpectMore"] = requestSendSMSExpectMore
  BY DEF Code
<1> QED  BY <1>2, <1>3, <1>4, Zenon DEF Sound

\* requestSMSAcknowledge completes its request, and may again.
LEMMA RequestSMSAcknowledgeSound == Sound("requestSMSAcknowledge")
<1> DEFINE note == <<"empty", "empty", "empty", "empty", "empty", "empty">>
           mark == <<"no", "no", "no", "no", "no", "yes">>
<1>1. Lists(requestSMSAcknowledge, <<Maybe("error"), Fire, Complete("SUCCESS"),
                                       Label("error"), Complete("GENERIC_FAILURE"),
                                       Return("none")>>)
  BY DEF requestSMSAcknowledge, Lists, Ends
<1>2. Noted("requestSMSAcknowledge", requestSMSAcknowledge, note)
  BY <1>1 DEF Noted, NotesAt, Lists
<1>3. Marked("requestSMSAcknowledge", requestSMSAcknowledge, mark)
  BY <1>1 DEF Marked, MarksAt, Lists
<1>4. Code["requestSMSAcknowledge"] = requestSMSAcknowledge
  BY DEF Code
<1> QED  BY <1>2, <1>3, <1>4, Zenon DEF Sound

\* These complete their request once.
LEMMA RequestGetSMSCAddressSound ==
    \A fn \in {"requestGetSMSCAddress", "requestQueryFacilityLock"} : Sound(fn)
<1> TAKE fn \in {"requestGetSMSCAddress", "requestQueryFacilityLock"}
<1> DEFINE note == <<"empty", "null", "asked", "lines", "lines", "lines", "empty", "held",
                     "held", "held", "gone">>
           mark == <<"no", "no", "no", "no", "no", "yes", "yes", "no", "no", "yes", "yes">>
<1>1. Lists(requestGetSMSCAddress, <<Null, Send("singleline"), OnFailure("error"),
                                       Parse("error"), Complete("SUCCESS"), Free, Return("none"),
                                       Label("error"), Complete("GENERIC_FAILURE"), Free,
                                       Return("none")>>)
  BY DEF requestGetSMSCAddress, Lists, Finish, Command, Query
<1>2. Noted(fn, requestGetSMSCAddress, note)
  BY <1>1 DEF Noted, NotesAt, Lists
<1>3. Marked(fn, requestGetSMSCAddress, mark)
  BY <1>1 DEF Marked, MarksAt, Lists
<1>4. Code[fn] = requestGetSMSCAddress
  BY SMTT(20) DEF Code, requestGetSMSCAddress, requestQueryFacilityLock
<1> QED  BY <1>2, <1>3, <1>4, Zenon DEF Sound

\* These complete nothing.
LEMMA ReadMessageByIndexSound ==
    \A fn \in {"readMessageByIndex", "deleteMessageByIndex"} : Sound(fn)
<1> TAKE fn \in {"readMessageByIndex", "deleteMessageByIndex"}
<1> DEFINE note == <<"empty", "empty">>
<1>2. Noted(fn, readMessageByIndex, note)
  BY DEF Noted, NotesAt, readMessageByIndex
<1>3. Marked(fn, readMessageByIndex, << >>)
  BY DEF Marked, MarksAt, readMessageByIndex
<1>4. Code[fn] = readMessageByIndex
  BY SMTT(20) DEF Code, readMessageByIndex, deleteMessageByIndex
<1> QED  BY <1>2, <1>3, <1>4, Zenon DEF Sound

\* onNewMesssageByIndex completes nothing, but may run into undefined behaviour.
LEMMA OnNewMesssageByIndexSound == Sound("onNewMesssageByIndex")
<1> DEFINE note == <<"empty", "empty", "empty", "empty", "empty", "empty", "empty">>
<1>2. Noted("onNewMesssageByIndex", onNewMesssageByIndex, note)
  BY DEF Noted, NotesAt, onNewMesssageByIndex
<1>3. Marked("onNewMesssageByIndex", onNewMesssageByIndex, << >>)
  BY DEF Marked, MarksAt, onNewMesssageByIndex
<1>4. Code["onNewMesssageByIndex"] = onNewMesssageByIndex
  BY DEF Code
<1> QED  BY <1>2, <1>3, <1>4, Zenon DEF Sound

\* onMessageListing completes nothing, but may run into undefined behaviour.
LEMMA OnMessageListingSound == Sound("onMessageListing")
<1> DEFINE note == <<"empty", "empty", "empty", "empty", "empty", "empty", "empty", "empty",
                     "empty", "empty">>
<1>2. Noted("onMessageListing", onMessageListing, note)
  BY DEF Noted, NotesAt, onMessageListing
<1>3. Marked("onMessageListing", onMessageListing, << >>)
  BY DEF Marked, MarksAt, onMessageListing
<1>4. Code["onMessageListing"] = onMessageListing
  BY DEF Code
<1> QED  BY <1>2, <1>3, <1>4, Zenon DEF Sound

(***************************************************************************)
(* sxx-ril-service.c                                                       *)
(***************************************************************************)
\* requestCancelUSSD completes its request once.
LEMMA RequestCancelUSSDSound == Sound("requestCancelUSSD")
<1> DEFINE note == <<"empty", "null", "asked", "lines", "lines", "lines", "asked", "asked",
                     "held", "held", "held", "gone">>
           mark == <<"no", "no", "no", "no", "no", "yes", "no", "no", "yes", "yes", "yes",
                     "yes">>
<1>2. Noted("requestCancelUSSD", requestCancelUSSD, note)
  BY DEF Noted, NotesAt, requestCancelUSSD
<1>3. Marked("requestCancelUSSD", requestCancelUSSD, mark)
  BY DEF Marked, MarksAt, requestCancelUSSD
<1>4. Code["requestCancelUSSD"] = requestCancelUSSD
  BY DEF Code
<1> QED  BY <1>2, <1>3, <1>4, Zenon DEF Sound

\* requestSendUSSD completes its request once.
LEMMA RequestSendUSSDSound == Sound("requestSendUSSD")
<1> DEFINE note == <<"empty", "null", "null", "sent", "ok", "ok", "empty", "sent", "sent",
                     "gone", "gone">>
           mark == <<"no", "no", "no", "no", "no", "yes", "yes", "no", "no", "no", "yes">>
<1>1. Lists(requestSendUSSD, <<Null, Fire, Send("plain"), OnFailure("error"),
                                 Complete("SUCCESS"), Free, Return("none"), Label("error"), Free,
                                 Complete("GENERIC_FAILURE"), Return("none")>>)
  BY DEF requestSendUSSD, Lists, FinishFreed
<1>2. Noted("requestSendUSSD", requestSendUSSD, note)
  BY <1>1 DEF Noted, NotesAt, Lists
<1>3. Marked("requestSendUSSD", requestSendUSSD, mark)
  BY <1>1 DEF Marked, MarksAt, Lists
<1>4. Code["requestSendUSSD"] = requestSendUSSD
  BY DEF Code
<1> QED  BY <1>2, <1>3, <1>4, Zenon DEF Sound

\* These complete their request once, but may report a success that was refused.
LEMMA RequestGetCLIRSound ==
    \A fn \in {"requestGetCLIR", "requestQueryCallWaiting"} : Sound(fn)
<1> TAKE fn \in {"requestGetCLIR", "requestQueryCallWaiting"}
<1> DEFINE note == <<"empty", "null", "asked", "lines", "held", "held", "held", "gone">>
           mark == <<"no", "no", "no", "no", "no", "no", "yes", "yes">>
<1>2. Noted(fn, requestGetCLIR, note)
  BY DEF Noted, NotesAt, requestGetCLIR
<1>3. Marked(fn, requestGetCLIR, mark)
  BY DEF Marked, MarksAt, requestGetCLIR
<1>4. Code[fn] = requestGetCLIR
  BY SMTT(20) DEF Code, requestGetCLIR, requestQueryCallWaiting
<1> QED  BY <1>2, <1>3, <1>4, Zenon DEF Sound

\* requestCallForward completes its request once, but may report a success that was
\* refused.
LEMMA RequestCallForwardSound == Sound("requestCallForward")
<1> DEFINE note == <<"empty", "null", "null", "sent", "live", "live", "live", "gone", "held",
                     "held", "held", "gone">>
           mark == <<"no", "no", "no", "no", "no", "no", "yes", "yes", "no", "no", "yes",
                     "yes">>
<1>1. Lists(requestCallForward, <<Null, Maybe("error"), Send("multiline"), OnError("error"),
                                    OnFinal("CME", "error"), Complete("SUCCESS"), Free,
                                    Return("none"), Label("error"), Complete("GENERIC_FAILURE"),
                                    Free, Return("none")>>)
  BY DEF requestCallForward, Lists, Finish
<1>2. Noted("requestCallForward", requestCallForward, note)
  BY <1>1 DEF Noted, NotesAt, Lists
<1>3. Marked("requestCallForward", requestCallForward, mark)
  BY <1>1 DEF Marked, MarksAt, Lists
<1>4. Code["requestCallForward"] = requestCallForward
  BY DEF Code
<1> QED  BY <1>2, <1>3, <1>4, Zenon DEF Sound

\* These complete their request once.
LEMMA RequestQueryCallForwardStatusSound ==
    \A fn \in {"requestQueryCallForwardStatus", "requestSetCallForward"} : Sound(fn)
<1> TAKE fn \in {"requestQueryCallForwardStatus", "requestSetCallForward"}
<1> DEFINE note == <<"empty", "empty">>
           mark == <<"no", "yes">>
<1>2. Noted(fn, requestQueryCallForwardStatus, note)
  BY DEF Noted, NotesAt, requestQueryCallForwardStatus
<1>3. Marked(fn, requestQueryCallForwardStatus, mark)
  BY DEF Marked, MarksAt, requestQueryCallForwardStatus
<1>4. Code[fn] = requestQueryCallForwardStatus
  BY SMTT(20) DEF Code, requestQueryCallForwardStatus, requestSetCallForward
<1> QED  BY <1>2, <1>3, <1>4, Zenon DEF Sound

\* requestSetCallWaiting completes its request once, but may run into undefined
\* behaviour.
LEMMA RequestSetCallWaitingSound == Sound("requestSetCallWaiting")
<1> DEFINE note == <<"empty", "tried", "ok", "ok", "empty", "tried", "tried", "tried", "gone">>
           mark == <<"no", "no", "no", "yes", "yes", "no", "no", "yes", "yes">>
<1>1. Lists(requestSetCallWaiting, <<Send("plain"), OnFailure("error"), Complete("SUCCESS"),
                                       Free, Return("none"), Label("error"),
                                       Complete("GENERIC_FAILURE"), Free, Return("none")>>)
  BY DEF requestSetCallWaiting, Lists, Finish
<1>2. Noted("requestSetCallWaiting", requestSetCallWaiting, note)
  BY <1>1 DEF Noted, NotesAt, Lists
<1>3. Marked("requestSetCallWaiting", requestSetCallWaiting, mark)
  BY <1>1 DEF Marked, MarksAt, Lists
<1>4. Code["requestSetCallWaiting"] = requestSetCallWaiting
  BY DEF Code
<1> QED  BY <1>2, <1>3, <1>4, Zenon DEF Sound

\* onUSSDReceived completes nothing, but may run into undefined behaviour.
LEMMA OnUSSDReceivedSound == Sound("onUSSDReceived")
<1> DEFINE note == <<"empty", "empty", "empty", "empty", "empty", "empty", "empty", "empty">>
<1>2. Noted("onUSSDReceived", onUSSDReceived, note)
  BY DEF Noted, NotesAt, onUSSDReceived
<1>3. Marked("onUSSDReceived", onUSSDReceived, << >>)
  BY DEF Marked, MarksAt, onUSSDReceived
<1>4. Code["onUSSDReceived"] = onUSSDReceived
  BY DEF Code
<1> QED  BY <1>2, <1>3, <1>4, Zenon DEF Sound

\* onCmeError completes nothing.
LEMMA OnCmeErrorSound == Sound("onCmeError")
<1> DEFINE note == <<"empty", "empty", "empty", "empty">>
<1>2. Noted("onCmeError", onCmeError, note)
  BY DEF Noted, NotesAt, onCmeError
<1>3. Marked("onCmeError", onCmeError, << >>)
  BY DEF Marked, MarksAt, onCmeError
<1>4. Code["onCmeError"] = onCmeError
  BY DEF Code
<1> QED  BY <1>2, <1>3, <1>4, Zenon DEF Sound

(***************************************************************************)
(* sxx-ril-network.c                                                       *)
(***************************************************************************)
\* requestSetPreferredNetworkType completes its request once.
LEMMA RequestSetPreferredNetworkTypeSound == Sound("requestSetPreferredNetworkType")
<1> DEFINE note == <<"empty", "null", "null", "null", "null", "null", "sent", "ok", "ok", "ok",
                     "empty", "sent", "sent", "sent", "gone", "null", "null", "null", "null",
                     "null", "null", "null", "null", "null">>
           mark == <<"no", "no", "no", "no", "no", "no", "no", "no", "no", "yes", "yes", "no",
                     "no", "yes", "yes", "no", "no", "yes", "no", "no", "yes", "no", "no", "yes">>
<1>1. Lists(requestSetPreferredNetworkType, <<Null, Maybe("off"), Maybe("mode"),
                                                Call("getZmdsValue"), Maybe("same"),
                                                Send("plain"), OnFailure("error"), Fire,
                                                Complete("SUCCESS"), Free, Return("none"),
                                                Label("error"), Complete("GENERIC_FAILURE"), Free,
                                                Return("none"), Label("off"),
                                                Complete("RADIO_NOT_AVAILABLE"), Return("none"),
                                                Label("mode"), Complete("MODE_NOT_SUPPORTED"),
                                                Return("none"), Label("same"),
                                                Complete("SUCCESS"), Return("none")>>)
  BY DEF requestSetPreferredNetworkType, Lists, Ends, Finish
<1>2. Noted("requestSetPreferredNetworkType", requestSetPreferredNetworkType, note)
  BY <1>1, SMTT(20) DEF Noted, NotesAt, Lists
<1>3. Marked("requestSetPreferredNetworkType", requestSetPreferredNetworkType, mark)
  BY <1>1, SMTT(20) DEF Marked, MarksAt, Lists
<1>4. Code["requestSetPreferredNetworkType"] = requestSetPreferredNetworkType
  BY DEF Code
<1> QED  BY <1>2, <1>3, <1>4, Zenon DEF Sound

\* reportSignalStrength completes nothing.
LEMMA ReportSignalStrengthSound == Sound("reportSignalStrength")
<1> DEFINE note == <<"empty", "null", "asked", "lines", "lines", "empty", "null", "null",
                     "held", "held", "gone">>
<1>1. Lists(reportSignalStrength, <<Null, Send("singleline"), OnFailure("error"),
                                      Parse("error"), Free, Null, Report, Return("none"),
                                      Label("error"), Free, Return("none")>>)
  BY DEF reportSignalStrength, Lists, Command, Query
<1>2. Noted("reportSignalStrength", reportSignalStrength, note)
  BY <1>1 DEF Noted, NotesAt, Lists
<1>3. Marked("reportSignalStrength", reportSignalStrength, << >>)
  BY <1>1 DEF Marked, MarksAt, Lists
<1>4. Code["reportSignalStrength"] = reportSignalStrength
  BY DEF Code
<1> QED  BY <1>2, <1>3, <1>4, Zenon DEF Sound

\* requestSignalStrength completes its request, and may again.
LEMMA RequestSignalStrengthSound == Sound("requestSignalStrength")
<1> DEFINE note == <<"empty", "null", "asked", "lines", "lines", "lines", "empty", "asked",
                     "asked", "held", "held", "held", "gone">>
           mark == <<"no", "no", "no", "no", "no", "yes", "yes", "no", "no", "no", "no", "yes",
                     "yes">>
<1>2. Noted("requestSignalStrength", requestSignalStrength, note)
  BY SMTT(20) DEF Noted, NotesAt, requestSignalStrength
<1>3. Marked("requestSignalStrength", requestSignalStrength, mark)
  BY DEF Marked, MarksAt, requestSignalStrength
<1>4. Code["requestSignalStrength"] = requestSignalStrength
  BY DEF Code
<1> QED  BY <1>2, <1>3, <1>4, Zenon DEF Sound

\* These complete their request once.
LEMMA RequestQueryAvailableNetworksSound ==
    \A fn \in {"requestQueryAvailableNetworks", "requestQueryAvailableNetworks_MH400B"} : Sound(fn)
<1> TAKE fn \in {"requestQueryAvailableNetworks", "requestQueryAvailableNetworks_MH400B"}
<1> DEFINE note == <<"empty", "null", "sent", "ok", "lines", "lines", "lines", "empty", "held",
                     "held", "held", "gone">>
           mark == <<"no", "no", "no", "no", "no", "no", "yes", "yes", "no", "no", "yes",
                     "yes">>
<1>1. Lists(requestQueryAvailableNetworks, <<Null, Send("multiline"), OnFailure("error"),
                                               OnNoLines("error"), Parse("error"),
                                               Complete("SUCCESS"), Free, Return("none"),
                                               Label("error"), Complete("GENERIC_FAILURE"), Free,
                                               Return("none")>>)
  BY DEF requestQueryAvailableNetworks, Lists, Finish, Command
<1>2. Noted(fn, requestQueryAvailableNetworks, note)
  BY <1>1 DEF Noted, NotesAt, Lists
<1>3. Marked(fn, requestQueryAvailableNetworks, mark)
  BY <1>1 DEF Marked, MarksAt, Lists
<1>4. Code[fn] = requestQueryAvailableNetworks
  BY SMTT(20) DEF Code, requestQueryAvailableNetworks, requestQueryAvailableNetworks_MH400B
<1> QED  BY <1>2, <1>3, <1>4, Zenon DEF Sound

\* These complete nothing, but may lose a response.
LEMMA GetNetworkTypeSound ==
    \A fn \in {"getNetworkType", "getNetworkTypeOld"} : Sound(fn)
<1> TAKE fn \in {"getNetworkType", "getNetworkTypeOld"}
<1> DEFINE note == <<"empty", "null", "asked", "lines", "lines", "lines", "empty", "asked",
                     "asked">>
<1>2. Noted(fn, getNetworkType, note)
  BY DEF Noted, NotesAt, getNetworkType
<1>3. Marked(fn, getNetworkType, << >>)
  BY DEF Marked, MarksAt, getNetworkType
<1>4. Code[fn] = getNetworkType
  BY SMTT(20) DEF Code, getNetworkType, getNetworkTypeOld
<1> QED  BY <1>2, <1>3, <1>4, Zenon DEF Sound

\* requestRegistrationStateSub completes its request once.
LEMMA RequestRegistrationStateSubSound == Sound("requestRegistrationStateSub")
<1> DEFINE note == <<"empty", "null", "asked", "lines", "lines", "lines", "lines", "lines",
                     "empty", "held", "held", "held", "gone">>
           mark == <<"no", "no", "no", "no", "no", "no", "no", "yes", "yes", "no", "no", "yes",
                     "yes">>
<1>1. Lists(requestRegistrationStateSub, <<Null, Send("singleline"), OnFailure("error"),
                                             Parse("error"), Maybe("error"),
                                             Call("getNetworkType"), Complete("SUCCESS"), Free,
                                             Return("0"), Label("error"),
                                             Complete("GENERIC_FAILURE"), Free, Return("-1")>>)
  BY DEF requestRegistrationStateSub, Lists, Command, Query
<1>2. Noted("requestRegistrationStateSub", requestRegistrationStateSub, note)
  BY <1>1, SMTT(20) DEF Noted, NotesAt, Lists
<1>3. Marked("requestRegistrationStateSub", requestRegistrationStateSub, mark)
  BY <1>1, SMTT(20) DEF Marked, MarksAt, Lists
<1>4. Code["requestRegistrationStateSub"] = requestRegistrationStateSub
  BY DEF Code
<1> QED  BY <1>2, <1>3, <1>4, Zenon DEF Sound

\* These complete their request, and may again.
LEMMA RequestVoiceRegistrationStateSound ==
    \A fn \in {"requestVoiceRegistrationState", "requestDataRegistrationState"} : Sound(fn)
<1> TAKE fn \in {"requestVoiceRegistrationState", "requestDataRegistrationState"}
<1> DEFINE note == <<"empty", "empty", "empty", "empty", "empty", "empty", "empty", "empty",
                     "empty", "empty", "empty", "empty", "empty", "empty", "empty", "empty",
                     "empty">>
           mark == <<"no", "no", "no", "no", "tries", "tries", "tries", "no", "yes", "yes",
                     "tries", "tries", "tries", "no", "no", "yes", "yes">>
<1>1. Lists(requestVoiceRegistrationState, <<Call("getSIMStatus"), OnReturn("PIN", "locked"),
                                               OnReturn("PUK", "locked"), Set(20),
                                               OnReturn("ABSENT", "absent"), Label("loop"),
                                               Countdown("end"),
                                               Call("requestRegistrationStateSub"), OnReturn("0",
                                               "end"), Goto("loop"), Label("absent"), Set(2),
                                               Goto("loop"), Label("locked"),
                                               Call("requestRegistrationStateSub"), Label("end"),
                                               Return("none")>>)
  BY DEF requestVoiceRegistrationState, Lists, registrationTries
<1>2. Noted(fn, requestVoiceRegistrationState, note)
  BY <1>1, SMTT(20) DEF Noted, NotesAt, Lists
<1>3. Marked(fn, requestVoiceRegistrationState, mark)
  BY <1>1, SMTT(20) DEF Marked, MarksAt, Lists
<1>4. Code[fn] = requestVoiceRegistrationState
  BY SMTT(20) DEF Code, requestVoiceRegistrationState, requestDataRegistrationState
<1> QED  BY <1>2, <1>3, <1>4, Zenon DEF Sound

\* requestOperator completes its request once, but may report a success that was
\* refused.
LEMMA RequestOperatorSound == Sound("requestOperator")
<1> DEFINE note == <<"empty", "null", "sent", "live", "read", "read", "read", "gone", "held",
                     "held", "held", "gone">>
           mark == <<"no", "no", "no", "no", "no", "no", "yes", "yes", "no", "no", "yes",
                     "yes">>
<1>1. Lists(requestOperator, <<Null, Send("multiline"), OnError("error"), OnNoLines("error"),
                                 Parse("error"), Complete("SUCCESS"), Free, Return("none"),
                                 Label("error"), Complete("GENERIC_FAILURE"), Free,
                                 Return("none")>>)
  BY DEF requestOperator, Lists, Finish
<1>2. Noted("requestOperator", requestOperator, note)
  BY <1>1 DEF Noted, NotesAt, Lists
<1>3. Marked("requestOperator", requestOperator, mark)
  BY <1>1 DEF Marked, MarksAt, Lists
<1>4. Code["requestOperator"] = requestOperator
  BY DEF Code
<1> QED  BY <1>2, <1>3, <1>4, Zenon DEF Sound

\* getZmdsValue completes nothing.
LEMMA GetZmdsValueSound == Sound("getZmdsValue")
<1> DEFINE note == <<"empty", "null", "asked", "answered", "read", "held", "held", "gone">>
<1>2. Noted("getZmdsValue", getZmdsValue, note)
  BY DEF Noted, NotesAt, getZmdsValue
<1>3. Marked("getZmdsValue", getZmdsValue, << >>)
  BY DEF Marked, MarksAt, getZmdsValue
<1>4. Code["getZmdsValue"] = getZmdsValue
  BY DEF Code
<1> QED  BY <1>2, <1>3, <1>4, Zenon DEF Sound

\* requestGetPreferredNetworkType completes its request once.
LEMMA RequestGetPreferredNetworkTypeSound == Sound("requestGetPreferredNetworkType")
<1> DEFINE note == <<"empty", "empty", "empty">>
           mark == <<"no", "no", "yes">>
<1>1. Lists(requestGetPreferredNetworkType, <<Call("getZmdsValue"), Complete("SUCCESS"),
                                                Return("none")>>)
  BY DEF requestGetPreferredNetworkType, Lists, Ends
<1>2. Noted("requestGetPreferredNetworkType", requestGetPreferredNetworkType, note)
  BY <1>1 DEF Noted, NotesAt, Lists
<1>3. Marked("requestGetPreferredNetworkType", requestGetPreferredNetworkType, mark)
  BY <1>1 DEF Marked, MarksAt, Lists
<1>4. Code["requestGetPreferredNetworkType"] = requestGetPreferredNetworkType
  BY DEF Code
<1> QED  BY <1>2, <1>3, <1>4, Zenon DEF Sound

\* requestSetFacilityLock completes its request once.
LEMMA RequestSetFacilityLockSound == Sound("requestSetFacilityLock")
<1> DEFINE note == <<"empty", "null", "sent", "ok", "ok", "empty", "sent", "sent", "gone",
                     "gone">>
           mark == <<"no", "no", "no", "no", "yes", "yes", "no", "no", "no", "yes">>
<1>1. Lists(requestSetFacilityLock, <<Null, Send("plain"), OnFailure("error"),
                                        Complete("SUCCESS"), Free, Return("none"), Label("error"),
                                        Free, Complete("GENERIC_FAILURE"), Return("none")>>)
  BY DEF requestSetFacilityLock, Lists, FinishFreed, Command
<1>2. Noted("requestSetFacilityLock", requestSetFacilityLock, note)
  BY <1>1 DEF Noted, NotesAt, Lists
<1>3. Marked("requestSetFacilityLock", requestSetFacilityLock, mark)
  BY <1>1 DEF Marked, MarksAt, Lists
<1>4. Code["requestSetFacilityLock"] = requestSetFacilityLock
  BY DEF Code
<1> QED  BY <1>2, <1>3, <1>4, Zenon DEF Sound

\* getRadioPower completes nothing.
LEMMA GetRadioPowerSound == Sound("getRadioPower")
<1> DEFINE note == <<"empty", "null", "asked", "lines", "lines", "lines", "lines", "empty",
                     "lines", "lines", "empty", "held", "held", "gone">>
<1>1. Lists(getRadioPower, <<Null, Send("singleline"), OnFailure("error"), Parse("error"),
                               Maybe("seven"), Maybe("error"), Free, Return("1"), Label("seven"),
                               Free, Return("7"), Label("error"), Free, Return("-1")>>)
  BY DEF getRadioPower, Lists, Command, Query
<1>2. Noted("getRadioPower", getRadioPower, note)
  BY <1>1, SMTT(20) DEF Noted, NotesAt, Lists
<1>3. Marked("getRadioPower", getRadioPower, << >>)
  BY <1>1, SMTT(20) DEF Marked, MarksAt, Lists
<1>4. Code["getRadioPower"] = getRadioPower
  BY DEF Code
<1> QED  BY <1>2, <1>3, <1>4, Zenon DEF Sound

\* setRadioState completes nothing.
LEMMA SetRadioStateSound == Sound("setRadioState")
<1> DEFINE note == <<"empty", "empty", "empty", "empty", "empty", "empty", "empty", "empty",
                     "empty">>
<1>2. Noted("setRadioState", setRadioState, note)
  BY DEF Noted, NotesAt, setRadioState
<1>3. Marked("setRadioState", setRadioState, << >>)
  BY DEF Marked, MarksAt, setRadioState
<1>4. Code["setRadioState"] = setRadioState
  BY DEF Code
<1> QED  BY <1>2, <1>3, <1>4, Zenon DEF Sound

\* These complete nothing.
LEMMA OnNetworkStateChangedSound ==
    \A fn \in {"onNetworkStateChanged", "onTimeChanged"} : Sound(fn)
<1> TAKE fn \in {"onNetworkStateChanged", "onTimeChanged"}
<1> DEFINE note == <<"empty", "empty", "empty", "empty">>
<1>2. Noted(fn, onNetworkStateChanged, note)
  BY DEF Noted, NotesAt, onNetworkStateChanged
<1>3. Marked(fn, onNetworkStateChanged, << >>)
  BY DEF Marked, MarksAt, onNetworkStateChanged
<1>4. Code[fn] = onNetworkStateChanged
  BY SMTT(20) DEF Code, onNetworkStateChanged, onTimeChanged
<1> QED  BY <1>2, <1>3, <1>4, Zenon DEF Sound

\* requestRadioPower completes its request once, but may report a success that was
\* refused.
LEMMA RequestRadioPowerSound == Sound("requestRadioPower")
<1> DEFINE note == <<"empty", "null", "null", "held", "held", "gone", "gone", "null", "null",
                     "null", "sent", "held", "held", "held", "null", "null", "sent", "ok", "sent",
                     "sent", "sent", "sent", "sent", "gone", "gone">>
           mark == <<"no", "no", "no", "no", "no", "no", "yes", "no", "no", "no", "no", "no",
                     "no", "no", "no", "no", "no", "no", "no", "no", "no", "no", "no", "no",
                     "yes">>
<1>1. Lists(requestRadioPower, <<Null, Maybe("off"), Maybe("on"), Label("done"), Free,
                                   Complete("SUCCESS"), Return("none"), Label("off"),
                                   Maybe("set"), Send("plain"), OnError("error"), Label("set"),
                                   Call("setRadioState"), Goto("done"), Label("on"),
                                   Send("plain"), OnFailure("check"), Goto("set"), Label("check"),
                                   Call("getRadioPower"), OnReturn("1", "set"), Label("error"),
                                   Free, Complete("GENERIC_FAILURE"), Return("none")>>)
  BY DEF requestRadioPower, Lists, Ends, RadioPower
<1>2. Noted("requestRadioPower", requestRadioPower, note)
  BY <1>1, SMTT(20) DEF Noted, NotesAt, Lists
<1>3. Marked("requestRadioPower", requestRadioPower, mark)
  BY <1>1, SMTT(20) DEF Marked, MarksAt, Lists
<1>4. Code["requestRadioPower"] = requestRadioPower
  BY DEF Code
<1> QED  BY <1>2, <1>3, <1>4, Zenon DEF Sound

(***************************************************************************)
(* sxx-ril-sim.c                                                           *)
(***************************************************************************)
\* onSIMReady completes nothing.
LEMMA OnSIMReadySound == Sound("onSIMReady")
<1> DEFINE note == <<"empty", "empty", "empty">>
<1>2. Noted("onSIMReady", onSIMReady, note)
  BY DEF Noted, NotesAt, onSIMReady
<1>3. Marked("onSIMReady", onSIMReady, << >>)
  BY DEF Marked, MarksAt, onSIMReady
<1>4. Code["onSIMReady"] = onSIMReady
  BY DEF Code
<1> QED  BY <1>2, <1>3, <1>4, Zenon DEF Sound

\* getSIMStatus completes nothing, but may run into undefined behaviour and lose a
\* response.
LEMMA GetSIMStatusSound == Sound("getSIMStatus")
<1> DEFINE note == <<"empty", "null", "null", "asked", "answered", "answered", "answered",
                     "answered", "answered", "answered", "answered", "answered", "gone", "gone",
                     "gone", "answered", "answered", "held", "held", "gone", "held", "held",
                     "gone", "answered", "answered", "gone", "answered", "answered", "gone",
                     "answered", "answered">>
<1>1. Lists(getSIMStatus, <<Null, Maybe("not_ready"), Send("singleline"), OnError("absent"),
                              OnFinal("CME", "cme"), OnFinal("ERROR", "absent"),
                              Parse("not_ready"), Maybe("pin"), Maybe("puk"), Maybe("network"),
                              Maybe("absent"), Free, Null, Free, Return("READY"), Label("cme"),
                              Maybe("not_ready"), Label("absent"), Free, Return("ABSENT"),
                              Label("not_ready"), Free, Return("NOT_READY"), Label("pin"), Free,
                              Return("PIN"), Label("puk"), Free, Return("PUK"), Label("network"),
                              Return("NETWORK")>>)
  BY DEF getSIMStatus, Lists, SimStatus
<1>2. Noted("getSIMStatus", getSIMStatus, note)
  BY <1>1, SMTT(20) DEF Noted, NotesAt, Lists
<1>3. Marked("getSIMStatus", getSIMStatus, << >>)
  BY <1>1, SMTT(20) DEF Marked, MarksAt, Lists
<1>4. Code["getSIMStatus"] = getSIMStatus
  BY DEF Code
<1> QED  BY <1>2, <1>3, <1>4, Zenon DEF Sound

\* getSIMStatus2 completes nothing, but may run into undefined behaviour and lose a
\* response.
LEMMA GetSIMStatus2Sound == Sound("getSIMStatus2")
<1> DEFINE note == <<"empty", "null", "asked", "answered", "answered", "answered", "answered",
                     "answered", "answered", "answered", "answered", "gone", "gone", "gone",
                     "answered", "answered", "held", "held", "gone", "answered", "answered",
                     "gone", "answered", "answered", "gone", "answered", "answered", "gone",
                     "answered", "answered">>
<1>1. Lists(getSIMStatus2, <<Null, Send("singleline"), OnError("absent"), OnFinal("CME",
                               "cme"), OnFinal("ERROR", "absent"), Parse("not_ready"),
                               Maybe("pin"), Maybe("puk"), Maybe("network"), Maybe("absent"),
                               Free, Null, Free, Return("READY"), Label("cme"),
                               Maybe("not_ready"), Label("absent"), Free, Return("ABSENT"),
                               Label("not_ready"), Free, Return("NOT_READY"), Label("pin"), Free,
                               Return("PIN"), Label("puk"), Free, Return("PUK"), Label("network"),
                               Return("NETWORK")>>)
  BY DEF getSIMStatus2, Lists, SimStatus
<1>2. Noted("getSIMStatus2", getSIMStatus2, note)
  BY <1>1, SMTT(20) DEF Noted, NotesAt, Lists
<1>3. Marked("getSIMStatus2", getSIMStatus2, << >>)
  BY <1>1, SMTT(20) DEF Marked, MarksAt, Lists
<1>4. Code["getSIMStatus2"] = getSIMStatus2
  BY DEF Code
<1> QED  BY <1>2, <1>3, <1>4, Zenon DEF Sound

\* pollSIMState completes nothing.
LEMMA PollSIMStateSound == Sound("pollSIMState")
<1> DEFINE note == <<"empty", "empty", "empty", "empty", "empty", "empty", "empty", "empty",
                     "empty", "empty", "empty", "empty">>
<1>2. Noted("pollSIMState", pollSIMState, note)
  BY DEF Noted, NotesAt, pollSIMState
<1>3. Marked("pollSIMState", pollSIMState, << >>)
  BY DEF Marked, MarksAt, pollSIMState
<1>4. Code["pollSIMState"] = pollSIMState
  BY DEF Code
<1> QED  BY <1>2, <1>3, <1>4, Zenon DEF Sound

\* These complete their request once.
LEMMA RequestGetSimStatusSound ==
    \A fn \in {"requestGetSimStatus", "requestGetSimStatus_DM6200"} : Sound(fn)
<1> TAKE fn \in {"requestGetSimStatus", "requestGetSimStatus_DM6200"}
<1> DEFINE note == <<"empty", "empty", "empty">>
           mark == <<"no", "no", "yes">>
<1>1. Lists(requestGetSimStatus, <<Call("getSIMStatus"), Complete("SUCCESS"), Return("none")>>)
  BY DEF requestGetSimStatus, Lists, Ends
<1>2. Noted(fn, requestGetSimStatus, note)
  BY <1>1 DEF Noted, NotesAt, Lists
<1>3. Marked(fn, requestGetSimStatus, mark)
  BY <1>1 DEF Marked, MarksAt, Lists
<1>4. Code[fn] = requestGetSimStatus
  BY SMTT(20) DEF Code, requestGetSimStatus, requestGetSimStatus_DM6200
<1> QED  BY <1>2, <1>3, <1>4, Zenon DEF Sound

\* filterSimStatus completes its request once.
LEMMA FilterSimStatusSound == Sound("filterSimStatus")
<1> DEFINE note == <<"empty", "empty", "empty">>
           mark == <<"no", "no", "yes">>
<1>1. Lists(filterSimStatus, <<Call("getSIMStatus2"), Complete("RADIO_NOT_AVAILABLE"),
                                 Return("none")>>)
  BY DEF filterSimStatus, Lists, Ends
<1>2. Noted("filterSimStatus", filterSimStatus, note)
  BY <1>1 DEF Noted, NotesAt, Lists
<1>3. Marked("filterSimStatus", filterSimStatus, mark)
  BY <1>1 DEF Marked, MarksAt, Lists
<1>4. Code["filterSimStatus"] = filterSimStatus
  BY DEF Code
<1> QED  BY <1>2, <1>3, <1>4, Zenon DEF Sound

\* requestSimIo completes its request once.
LEMMA RequestSimIoSound == Sound("requestSimIo")
<1> DEFINE note == <<"empty", "null", "null", "null", "asked", "lines", "clean", "clean",
                     "clean", "empty", "held", "held", "held", "gone">>
           mark == <<"no", "no", "no", "no", "no", "no", "no", "no", "yes", "yes", "no", "no",
                     "yes", "yes">>
<1>1. Lists(requestSimIo, <<Null, Call("sim_io_hook"), OnReturn("0", "hooked"),
                              Send("singleline"), OnFailure("error"), Parse("error"),
                              Label("hooked"), Complete("SUCCESS"), Free, Return("none"),
                              Label("error"), Complete("GENERIC_FAILURE"), Free, Return("none")>>)
  BY DEF requestSimIo, Lists, Finish
<1>2. Noted("requestSimIo", requestSimIo, note)
  BY <1>1, SMTT(20) DEF Noted, NotesAt, Lists
<1>3. Marked("requestSimIo", requestSimIo, mark)
  BY <1>1, SMTT(20) DEF Marked, MarksAt, Lists
<1>4. Code["requestSimIo"] = requestSimIo
  BY DEF Code
<1> QED  BY <1>2, <1>3, <1>4, Zenon DEF Sound

\* requestEnterSimPin completes its request once.
LEMMA RequestEnterSimPinSound == Sound("requestEnterSimPin")
<1> DEFINE note == <<"empty", "null", "null", "null", "sent", "ok", "ok", "ok", "ok", "ok",
                     "held", "held", "held", "held", "gone">>
           mark == <<"no", "no", "no", "no", "no", "no", "yes", "yes", "yes", "yes", "no", "no",
                     "yes", "yes", "yes">>
<1>2. Noted("requestEnterSimPin", requestEnterSimPin, note)
  BY SMTT(20) DEF Noted, NotesAt, requestEnterSimPin
<1>3. Marked("requestEnterSimPin", requestEnterSimPin, mark)
  BY DEF Marked, MarksAt, requestEnterSimPin
<1>4. Code["requestEnterSimPin"] = requestEnterSimPin
  BY DEF Code
<1> QED  BY <1>2, <1>3, <1>4, Zenon DEF Sound

(***************************************************************************)
(* sxx-ril-phonebook.c                                                     *)
(***************************************************************************)
\* get_phone_book completes nothing.
LEMMA Get_phone_bookSound == Sound("get_phone_book")
<1> DEFINE note == <<"empty", "null", "null", "asked", "answered", "answered", "lines", "lines",
                     "lines", "lines", "empty", "held", "held", "gone">>
<1>1. Lists(get_phone_book, <<Null, Fire, Send("singleline"), OnError("error"),
                                OnNull("error"), OnRefusal("error"), OnNoLines("done"),
                                Parse("error"), Label("done"), Free, Return("0"), Label("error"),
                                Free, Return("-1")>>)
  BY DEF get_phone_book, Lists, PhoneBook
<1>2. Noted("get_phone_book", get_phone_book, note)
  BY <1>1, SMTT(20) DEF Noted, NotesAt, Lists
<1>3. Marked("get_phone_book", get_phone_book, << >>)
  BY <1>1, SMTT(20) DEF Marked, MarksAt, Lists
<1>4. Code["get_phone_book"] = get_phone_book
  BY DEF Code
<1> QED  BY <1>2, <1>3, <1>4, Zenon DEF Sound

\* set_phone_book completes nothing.
LEMMA Set_phone_bookSound == Sound("set_phone_book")
<1> DEFINE note == <<"empty", "null", "null", "sent", "live", "live", "ok", "ok", "empty",
                     "held", "held", "gone">>
<1>1. Lists(set_phone_book, <<Null, Fire, Send("plain"), OnError("error"), OnNull("error"),
                                OnRefusal("error"), Label("done"), Free, Return("0"),
                                Label("error"), Free, Return("-1")>>)
  BY DEF set_phone_book, Lists, PhoneBook
<1>2. Noted("set_phone_book", set_phone_book, note)
  BY <1>1 DEF Noted, NotesAt, Lists
<1>3. Marked("set_phone_book", set_phone_book, << >>)
  BY <1>1 DEF Marked, MarksAt, Lists
<1>4. Code["set_phone_book"] = set_phone_book
  BY DEF Code
<1> QED  BY <1>2, <1>3, <1>4, Zenon DEF Sound

\* sim_io_hook completes nothing.
LEMMA Sim_io_hookSound == Sound("sim_io_hook")
<1> DEFINE note == <<"empty", "empty", "empty", "empty", "empty", "empty", "empty", "empty",
                     "empty", "empty", "empty", "empty", "empty">>
<1>2. Noted("sim_io_hook", sim_io_hook, note)
  BY SMTT(20) DEF Noted, NotesAt, sim_io_hook
<1>3. Marked("sim_io_hook", sim_io_hook, << >>)
  BY DEF Marked, MarksAt, sim_io_hook
<1>4. Code["sim_io_hook"] = sim_io_hook
  BY DEF Code
<1> QED  BY <1>2, <1>3, <1>4, Zenon DEF Sound

(***************************************************************************)
(* sxx-ril-pdp.c                                                           *)
(***************************************************************************)
\* reportDataCallList completes its request once, but may run into undefined
\* behaviour and lose a response.
LEMMA ReportDataCallListSound == Sound("reportDataCallList")
<1> DEFINE note == <<"empty", "tried", "ok", "lines", "lines", "lines", "lines", "ok", "ok",
                     "empty", "tried", "ok", "lines", "ok", "ok", "empty", "empty", "tried",
                     "tried", "tried", "lines", "lines", "lines", "empty">>
           mark == <<"no", "no", "no", "no", "no", "no", "no", "no", "no", "no", "no", "no",
                     "no", "no", "no", "no", "yes", "no", "no", "yes", "no", "no", "yes", "yes">>
<1>1. Lists(reportDataCallList, <<Send("multiline"), OnFailure("failed"), OnNoLines("listed"),
                                    Maybe("connected"), Wild, Label("connected"), Parse("error"),
                                    Label("listed"), Free, Send("multiline"), OnFailure("failed"),
                                    OnNoLines("reported"), Parse("error"), Label("reported"),
                                    Free, Complete("SUCCESS"), Return("none"), Label("failed"),
                                    Complete("GENERIC_FAILURE"), Return("none"), Label("error"),
                                    Complete("GENERIC_FAILURE"), Free, Return("none")>>)
  BY DEF reportDataCallList, Lists, Ends
<1>2. Noted("reportDataCallList", reportDataCallList, note)
  BY <1>1, SMTT(20) DEF Noted, NotesAt, Lists
<1>3. Marked("reportDataCallList", reportDataCallList, mark)
  BY <1>1, SMTT(20) DEF Marked, MarksAt, Lists
<1>4. Code["reportDataCallList"] = reportDataCallList
  BY DEF Code
<1> QED  BY <1>2, <1>3, <1>4, Zenon DEF Sound

\* These complete their request once.
LEMMA OnDataCallListChangedSound ==
    \A fn \in {"onDataCallListChanged", "requestDataCallList"} : Sound(fn)
<1> TAKE fn \in {"onDataCallListChanged", "requestDataCallList"}
<1> DEFINE note == <<"empty", "empty">>
           mark == <<"no", "yes">>
<1>2. Noted(fn, onDataCallListChanged, note)
  BY DEF Noted, NotesAt, onDataCallListChanged
<1>3. Marked(fn, onDataCallListChanged, mark)
  BY DEF Marked, MarksAt, onDataCallListChanged
<1>4. Code[fn] = onDataCallListChanged
  BY SMTT(20) DEF Code, onDataCallListChanged, requestDataCallList
<1> QED  BY <1>2, <1>3, <1>4, Zenon DEF Sound

\* onDataCallStageChanged completes nothing.
LEMMA OnDataCallStageChangedSound == Sound("onDataCallStageChanged")
<1> DEFINE note == <<"empty", "empty">>
<1>2. Noted("onDataCallStageChanged", onDataCallStageChanged, note)
  BY DEF Noted, NotesAt, onDataCallStageChanged
<1>3. Marked("onDataCallStageChanged", onDataCallStageChanged, << >>)
  BY DEF Marked, MarksAt, onDataCallStageChanged
<1>4. Code["onDataCallStageChanged"] = onDataCallStageChanged
  BY DEF Code
<1> QED  BY <1>2, <1>3, <1>4, Zenon DEF Sound

\* dc_thread completes its request once.
LEMMA Dc_threadSound == Sound("dc_thread")
<1> DEFINE note == <<"empty", "empty", "empty", "empty", "empty", "empty", "empty", "empty",
                     "empty", "empty", "empty", "empty", "empty", "empty">>
           mark == <<"no", "no", "no", "no", "no", "no", "no", "no", "no", "yes", "yes", "no",
                     "no", "yes">>
<1>1. Lists(dc_thread, <<Fire, Fire, Maybe("timeout"), Maybe("report"), Call("getZmdsValue"),
                           Maybe("report"), Fire, Label("report"), Call("reportDataCallList"),
                           Fire, Return("none"), Label("timeout"), Complete("SUCCESS"),
                           Return("none")>>)
  BY DEF dc_thread, Lists, Ends
<1>2. Noted("dc_thread", dc_thread, note)
  BY <1>1, SMTT(20) DEF Noted, NotesAt, Lists
<1>3. Marked("dc_thread", dc_thread, mark)
  BY <1>1, SMTT(20) DEF Marked, MarksAt, Lists
<1>4. Code["dc_thread"] = dc_thread
  BY DEF Code
<1> QED  BY <1>2, <1>3, <1>4, Zenon DEF Sound

\* requestSetupDataCall completes its request once.
LEMMA RequestSetupDataCallSound == Sound("requestSetupDataCall")
<1> DEFINE note == <<"empty", "empty">>
           mark == <<"no", "yes">>
<1>2. Noted("requestSetupDataCall", requestSetupDataCall, note)
  BY DEF Noted, NotesAt, requestSetupDataCall
<1>3. Marked("requestSetupDataCall", requestSetupDataCall, mark)
  BY DEF Marked, MarksAt, requestSetupDataCall
<1>4. Code["requestSetupDataCall"] = requestSetupDataCall
  BY DEF Code
<1> QED  BY <1>2, <1>3, <1>4, Zenon DEF Sound

\* requestDeactivateDataCall completes its request once.
LEMMA RequestDeactivateDataCallSound == Sound("requestDeactivateDataCall")
<1> DEFINE note == <<"empty", "empty", "empty">>
           mark == <<"no", "yes", "yes">>
<1>2. Noted("requestDeactivateDataCall", requestDeactivateDataCall, note)
  BY DEF Noted, NotesAt, requestDeactivateDataCall
<1>3. Marked("requestDeactivateDataCall", requestDeactivateDataCall, mark)
  BY DEF Marked, MarksAt, requestDeactivateDataCall
<1>4. Code["requestDeactivateDataCall"] = requestDeactivateDataCall
  BY DEF Code
<1> QED  BY <1>2, <1>3, <1>4, Zenon DEF Sound

\* requestScreenState completes its request once.
LEMMA RequestScreenStateSound == Sound("requestScreenState")
<1> DEFINE note == <<"empty", "empty", "empty", "empty", "empty", "empty">>
           mark == <<"no", "yes", "yes", "yes", "yes", "yes">>
<1>2. Noted("requestScreenState", requestScreenState, note)
  BY DEF Noted, NotesAt, requestScreenState
<1>3. Marked("requestScreenState", requestScreenState, mark)
  BY DEF Marked, MarksAt, requestScreenState
<1>4. Code["requestScreenState"] = requestScreenState
  BY DEF Code
<1> QED  BY <1>2, <1>3, <1>4, Zenon DEF Sound

(***************************************************************************)
(* The handlers of the modems.                                             *)
(***************************************************************************)
\* requestGetIMEI_MG3732 completes its request once.
LEMMA RequestGetIMEI_MG3732Sound == Sound("requestGetIMEI_MG3732")
<1> DEFINE note == <<"empty", "null", "asked", "lines", "lines", "lines", "empty", "asked",
                     "asked", "asked", "gone">>
           mark == <<"no", "no", "no", "no", "no", "yes", "yes", "no", "no", "yes", "yes">>
<1>1. Lists(requestGetIMEI_MG3732, <<Null, Send("singleline"), OnFailure("error"), ReadLine,
                                       Complete("SUCCESS"), Free, Return("none"), Label("error"),
                                       Complete("GENERIC_FAILURE"), Free, Return("none")>>)
  BY DEF requestGetIMEI_MG3732, Lists, Finish, Command
<1>2. Noted("requestGetIMEI_MG3732", requestGetIMEI_MG3732, note)
  BY <1>1 DEF Noted, NotesAt, Lists
<1>3. Marked("requestGetIMEI_MG3732", requestGetIMEI_MG3732, mark)
  BY <1>1 DEF Marked, MarksAt, Lists
<1>4. Code["requestGetIMEI_MG3732"] = requestGetIMEI_MG3732
  BY DEF Code
<1> QED  BY <1>2, <1>3, <1>4, Zenon DEF Sound

\* requestSetNetworkSelectionAutomaticW218 completes its request once.
LEMMA RequestSetNetworkSelectionAutomaticW218Sound == Sound("requestSetNetworkSelectionAutomaticW218")
<1> DEFINE note == <<"empty", "empty", "empty", "empty", "empty", "empty", "empty", "empty",
                     "empty">>
           mark == <<"no", "no", "no", "no", "no", "yes", "no", "no", "yes">>
<1>1. Lists(requestSetNetworkSelectionAutomaticW218, <<Call("getZmdsValue"), Fire,
                                                         OnError("error"), Fire,
                                                         Complete("SUCCESS"), Return("none"),
                                                         Label("error"),
                                                         Complete("GENERIC_FAILURE"),
                                                         Return("none")>>)
  BY DEF requestSetNetworkSelectionAutomaticW218, Lists, Ends
<1>2. Noted("requestSetNetworkSelectionAutomaticW218", requestSetNetworkSelectionAutomaticW218, note)
  BY <1>1 DEF Noted, NotesAt, Lists
<1>3. Marked("requestSetNetworkSelectionAutomaticW218", requestSetNetworkSelectionAutomaticW218, mark)
  BY <1>1 DEF Marked, MarksAt, Lists
<1>4. Code["requestSetNetworkSelectionAutomaticW218"] = requestSetNetworkSelectionAutomaticW218
  BY DEF Code
<1> QED  BY <1>2, <1>3, <1>4, Zenon DEF Sound

\* getClvlValue completes nothing, but may run into undefined behaviour.
LEMMA GetClvlValueSound == Sound("getClvlValue")
<1> DEFINE note == <<"empty", "null", "asked", "answered", "answered", "read", "read", "gone",
                     "held", "held", "gone", "gone">>
<1>2. Noted("getClvlValue", getClvlValue, note)
  BY DEF Noted, NotesAt, getClvlValue
<1>3. Marked("getClvlValue", getClvlValue, << >>)
  BY DEF Marked, MarksAt, getClvlValue
<1>4. Code["getClvlValue"] = getClvlValue
  BY DEF Code
<1> QED  BY <1>2, <1>3, <1>4, Zenon DEF Sound

\* requestSetAudioPath_MG3732 completes its request once.
LEMMA RequestSetAudioPath_MG3732Sound == Sound("requestSetAudioPath_MG3732")
<1> DEFINE note == <<"empty", "empty", "empty", "empty", "empty", "empty", "empty", "empty">>
           mark == <<"no", "no", "no", "no", "no", "no", "no", "yes">>
<1>1. Lists(requestSetAudioPath_MG3732, <<Call("getClvlValue"), Fire, Fire, Fire, Fire, Fire,
                                            Complete("SUCCESS"), Return("none")>>)
  BY DEF requestSetAudioPath_MG3732, Lists, Ends, Fires
<1>2. Noted("requestSetAudioPath_MG3732", requestSetAudioPath_MG3732, note)
  BY <1>1 DEF Noted, NotesAt, Lists
<1>3. Marked("requestSetAudioPath_MG3732", requestSetAudioPath_MG3732, mark)
  BY <1>1 DEF Marked, MarksAt, Lists
<1>4. Code["requestSetAudioPath_MG3732"] = requestSetAudioPath_MG3732
  BY DEF Code
<1> QED  BY <1>2, <1>3, <1>4, Zenon DEF Sound

\* requestSendSMS_FR900 completes its request once.
LEMMA RequestSendSMS_FR900Sound == Sound("requestSendSMS_FR900")
<1> DEFINE note == <<"empty", "null", "null", "asked", "lines", "lines", "empty", "asked",
                     "asked", "asked", "gone">>
           mark == <<"no", "no", "no", "no", "no", "yes", "yes", "no", "no", "yes", "yes">>
<1>1. Lists(requestSendSMS_FR900, <<Null, Fire, Send("sms"), OnFailure("error"),
                                      Complete("SUCCESS"), Free, Return("none"), Label("error"),
                                      Complete("GENERIC_FAILURE"), Free, Return("none")>>)
  BY DEF requestSendSMS_FR900, Lists, Finish
<1>2. Noted("requestSendSMS_FR900", requestSendSMS_FR900, note)
  BY <1>1 DEF Noted, NotesAt, Lists
<1>3. Marked("requestSendSMS_FR900", requestSendSMS_FR900, mark)
  BY <1>1 DEF Marked, MarksAt, Lists
<1>4. Code["requestSendSMS_FR900"] = requestSendSMS_FR900
  BY DEF Code
<1> QED  BY <1>2, <1>3, <1>4, Zenon DEF Sound

\* requestRadioPower_MH400B completes its request once, but may report a success
\* that was refused.
LEMMA RequestRadioPower_MH400BSound == Sound("requestRadioPower_MH400B")
<1> DEFINE note == <<"empty", "null", "null", "held", "held", "gone", "gone", "null", "held",
                     "held", "held", "null", "null", "sent", "ok", "sent", "sent", "sent", "sent",
                     "sent", "sent", "sent", "gone", "gone">>
           mark == <<"no", "no", "no", "no", "no", "no", "yes", "no", "no", "no", "no", "no",
                     "no", "no", "no", "no", "no", "no", "no", "no", "no", "no", "no", "yes">>
<1>1. Lists(requestRadioPower_MH400B, <<Null, Maybe("off"), Maybe("on"), Label("done"), Free,
                                          Complete("SUCCESS"), Return("none"), Label("off"),
                                          Label("set"), Call("setRadioState"), Goto("done"),
                                          Label("on"), Send("plain"), OnFailure("check"),
                                          Goto("set"), Label("check"), Call("getRadioPower"),
                                          OnReturn("1", "set"), Call("getRadioPower"),
                                          OnReturn("7", "set"), Label("error"), Free,
                                          Complete("GENERIC_FAILURE"), Return("none")>>)
  BY DEF requestRadioPower_MH400B, Lists, Ends, RadioPower
<1>2. Noted("requestRadioPower_MH400B", requestRadioPower_MH400B, note)
  BY <1>1, SMTT(20) DEF Noted, NotesAt, Lists
<1>3. Marked("requestRadioPower_MH400B", requestRadioPower_MH400B, mark)
  BY <1>1, SMTT(20) DEF Marked, MarksAt, Lists
<1>4. Code["requestRadioPower_MH400B"] = requestRadioPower_MH400B
  BY DEF Code
<1> QED  BY <1>2, <1>3, <1>4, Zenon DEF Sound

\* requestSetPreferredNetworkType_MH400B completes its request once.
LEMMA RequestSetPreferredNetworkType_MH400BSound == Sound("requestSetPreferredNetworkType_MH400B")
<1> DEFINE note == <<"empty", "null", "null", "null", "null", "null", "null", "sent", "ok",
                     "ok", "empty", "sent", "sent", "sent", "gone", "null", "null", "null">>
           mark == <<"no", "no", "no", "no", "no", "no", "no", "no", "no", "yes", "yes", "no",
                     "no", "yes", "yes", "no", "no", "yes">>
<1>1. Lists(requestSetPreferredNetworkType_MH400B, <<Null, Maybe("off"), Maybe("set"), Fire,
                                                       Label("set"),
                                                       Call("getNetworkType_MH400B"),
                                                       Send("plain"), OnFailure("error"),
                                                       Complete("SUCCESS"), Free, Return("none"),
                                                       Label("error"),
                                                       Complete("GENERIC_FAILURE"), Free,
                                                       Return("none"), Label("off"),
                                                       Complete("RADIO_NOT_AVAILABLE"),
                                                       Return("none")>>)
  BY DEF requestSetPreferredNetworkType_MH400B, Lists, Ends, Finish
<1>2. Noted("requestSetPreferredNetworkType_MH400B", requestSetPreferredNetworkType_MH400B, note)
  BY <1>1, SMTT(20) DEF Noted, NotesAt, Lists
<1>3. Marked("requestSetPreferredNetworkType_MH400B", requestSetPreferredNetworkType_MH400B, mark)
  BY <1>1, SMTT(20) DEF Marked, MarksAt, Lists
<1>4. Code["requestSetPreferredNetworkType_MH400B"] = requestSetPreferredNetworkType_MH400B
  BY DEF Code
<1> QED  BY <1>2, <1>3, <1>4, Zenon DEF Sound

\* getNetworkType_MH400B completes nothing, but may lose a response.
LEMMA GetNetworkType_MH400BSound == Sound("getNetworkType_MH400B")
<1> DEFINE note == <<"empty", "null", "asked", "lines", "lines", "lines", "lines", "lines",
                     "empty", "asked", "asked">>
<1>2. Noted("getNetworkType_MH400B", getNetworkType_MH400B, note)
  BY DEF Noted, NotesAt, getNetworkType_MH400B
<1>3. Marked("getNetworkType_MH400B", getNetworkType_MH400B, << >>)
  BY DEF Marked, MarksAt, getNetworkType_MH400B
<1>4. Code["getNetworkType_MH400B"] = getNetworkType_MH400B
  BY DEF Code
<1> QED  BY <1>2, <1>3, <1>4, Zenon DEF Sound

\* requestRegistrationStateSub_MH400B completes its request once.
LEMMA RequestRegistrationStateSub_MH400BSound == Sound("requestRegistrationStateSub_MH400B")
<1> DEFINE note == <<"empty", "null", "asked", "lines", "lines", "lines", "lines", "lines",
                     "lines", "empty", "held", "held", "held", "gone">>
           mark == <<"no", "no", "no", "no", "no", "no", "yes", "yes", "yes", "yes", "no", "no",
                     "yes", "yes">>
<1>1. Lists(requestRegistrationStateSub_MH400B, <<Null, Send("singleline"),
                                                    OnFailure("error"), Parse("error"),
                                                    Call("getNetworkType_MH400B"),
                                                    Complete("SUCCESS"),
                                                    Call("reportSignalStrength"),
                                                    Call("reportSignalStrength"), Free,
                                                    Return("0"), Label("error"),
                                                    Complete("GENERIC_FAILURE"), Free,
                                                    Return("-1")>>)
  BY DEF requestRegistrationStateSub_MH400B, Lists, Command, Query
<1>2. Noted("requestRegistrationStateSub_MH400B", requestRegistrationStateSub_MH400B, note)
  BY <1>1, SMTT(20) DEF Noted, NotesAt, Lists
<1>3. Marked("requestRegistrationStateSub_MH400B", requestRegistrationStateSub_MH400B, mark)
  BY <1>1, SMTT(20) DEF Marked, MarksAt, Lists
<1>4. Code["requestRegistrationStateSub_MH400B"] = requestRegistrationStateSub_MH400B
  BY DEF Code
<1> QED  BY <1>2, <1>3, <1>4, Zenon DEF Sound

\* requestRegistrationState_MH400B completes its request once.
LEMMA RequestRegistrationState_MH400BSound == Sound("requestRegistrationState_MH400B")
<1> DEFINE note == <<"empty", "empty">>
           mark == <<"no", "yes">>
<1>2. Noted("requestRegistrationState_MH400B", requestRegistrationState_MH400B, note)
  BY DEF Noted, NotesAt, requestRegistrationState_MH400B
<1>3. Marked("requestRegistrationState_MH400B", requestRegistrationState_MH400B, mark)
  BY DEF Marked, MarksAt, requestRegistrationState_MH400B
<1>4. Code["requestRegistrationState_MH400B"] = requestRegistrationState_MH400B
  BY DEF Code
<1> QED  BY <1>2, <1>3, <1>4, Zenon DEF Sound

HIDE DEF Ins, Null, Send, Fire, Complete, Free, Call, Return, Set, Later, Report, Label, Goto,
         OnError, OnFailure, OnRefusal, OnFinal, OnNull, OnNoLines, OnReturn, Maybe, Countdown,
         Parse, ReadLine, Wild, Crash, Held, Fine, NotLive, LiveNotes, Pending, Weaker, Leads,
         Safe, Faulty, Leaky, Dishonest, Silent, Repeating, Callees, Completes, WeakerMark,
         Counts, CountsJump, Ending, Jumping, Operands, Allowed, LabelAt, Values, Errors, MaxTries

\* Every program is checked.
LEMMA AllSound == \A fn \in DOMAIN Code : Sound(fn)
BY RequestHangupWaitingOrBackgroundSound, RequestHangupSound,
   RequestSwitchWaitingOrHoldingAndActiveSound, RequestSetMuteSound, RequestGetMuteSound,
   RequestGetCurrentCallsSound, SendCallStateChangedSound, RequestAnswerSound,
   CallConnectedJobSound, OnCallConnectedSound, RequestGetIMSISound,
   RequestDeviceIdentitySound, RequestGetIMEISVSound, RequestReportStkServiceIsRunningSound,
   RequestBasebandVersionSound, RequestGSMGetBroadcastSMSConfigSound,
   RequestGSMSetBroadcastSMSConfigSound, RequestSendSMSSound, RequestSendSMSExpectMoreSound,
   RequestSMSAcknowledgeSound, RequestGetSMSCAddressSound, ReadMessageByIndexSound,
   OnNewMesssageByIndexSound, OnMessageListingSound, RequestCancelUSSDSound,
   RequestSendUSSDSound, RequestGetCLIRSound, RequestCallForwardSound,
   RequestQueryCallForwardStatusSound, RequestSetCallWaitingSound, OnUSSDReceivedSound,
   OnCmeErrorSound, RequestSetPreferredNetworkTypeSound, ReportSignalStrengthSound,
   RequestSignalStrengthSound, RequestQueryAvailableNetworksSound, GetNetworkTypeSound,
   RequestRegistrationStateSubSound, RequestVoiceRegistrationStateSound,
   RequestOperatorSound, GetZmdsValueSound, RequestGetPreferredNetworkTypeSound,
   RequestSetFacilityLockSound, GetRadioPowerSound, SetRadioStateSound,
   OnNetworkStateChangedSound, RequestRadioPowerSound, OnSIMReadySound, GetSIMStatusSound,
   GetSIMStatus2Sound, PollSIMStateSound, RequestGetSimStatusSound, FilterSimStatusSound,
   RequestSimIoSound, RequestEnterSimPinSound, Get_phone_bookSound, Set_phone_bookSound,
   Sim_io_hookSound, ReportDataCallListSound, OnDataCallListChangedSound,
   OnDataCallStageChangedSound, Dc_threadSound, RequestSetupDataCallSound,
   RequestDeactivateDataCallSound, RequestScreenStateSound, RequestGetIMEI_MG3732Sound,
   RequestSetNetworkSelectionAutomaticW218Sound, GetClvlValueSound,
   RequestSetAudioPath_MG3732Sound, RequestSendSMS_FR900Sound, RequestRadioPower_MH400BSound,
   RequestSetPreferredNetworkType_MH400BSound, GetNetworkType_MH400BSound,
   RequestRegistrationStateSub_MH400BSound, RequestRegistrationState_MH400BSound
DEF Code

(***************************************************************************)
(* The notes and marks of a function, and what a frame is that fits them.  *)
(***************************************************************************)
NoteOf(fn) == CHOOSE note : Noted(fn, Code[fn], note)
MarkOf(fn) == CHOOSE mark : Marked(fn, Code[fn], mark)
Note(f) == NoteOf(f.fn)[f.pc]
Mark(f) == MarkOf(f.fn)[f.pc]

FrameFits(f) ==
    /\ f \in Frames
    /\ f.pc \in DOMAIN Code[f.fn]
    /\ f.p.final = "OK" => Accepted(f)
    /\ Knows(Note(f), f)

\* Every function has them.
LEMMA NotesFit ==
    \A fn \in DOMAIN Code : Noted(fn, Code[fn], NoteOf(fn)) /\ Marked(fn, Code[fn], MarkOf(fn))
<1> TAKE fn \in DOMAIN Code
<1>1. Sound(fn)
  BY AllSound
<1>2. PICK note : Noted(fn, Code[fn], note)
  BY <1>1 DEF Sound
<1>3. PICK mark : Marked(fn, Code[fn], mark)
  BY <1>1 DEF Sound
<1> QED  BY <1>2, <1>3, Zenon DEF NoteOf, MarkOf

(***************************************************************************)
(* What the notes say after each kind of step.                             *)
(***************************************************************************)
\* g is f as far as a note can tell.
Alike(g, f) == g.p = f.p /\ g.err = f.err /\ g.answer = f.answer

\* A weaker note still holds.
LEMMA KnowsLess ==
    ASSUME NEW f, NEW g, Alike(g, f), NEW k, NEW k2, Knows(k, f), Weaker(k, k2)
    PROVE  Knows(k2, g)
BY DEF Alike, Knows, Weaker, Held, Fine, NotLive, LiveNotes, Pending, Accepted, Live, Nothing, Finals

\* p_response = NULL
LEMMA KnowsNull ==
    ASSUME NEW f, NEW g, g.p = Nothing("NULL"), g.answer = f.answer,
           NEW k, NEW k2, Knows(k, f), NEW ins, ins.op = "null", Leads(ins, k, k2)
    PROVE  Knows(k2, g)
BY DEF Knows, Leads, Held, Fine, NotLive, LiveNotes, Pending, Accepted, Live, Nothing, Finals

\* A command that is answered with p, on a channel that may have been closed.
LEMMA KnowsSent ==
    ASSUME NEW f, NEW k, NEW k2, Knows(k, f), NEW ins, ins.op = "send", Leads(ins, k, k2),
           NEW p \in Responses, NEW closed \in BOOLEAN, NEW g,
           g.p = (IF ~closed /\ NeedsLine(ins.arg, p) THEN Nothing("NULL") ELSE p),
           g.err = (closed \/ NeedsLine(ins.arg, p)),
           g.answer = p.final
    PROVE  Knows(k2, g) /\ (g.p.final = "OK" => Accepted(g))
<1>1. k2 \in {"tried", "sent", "asked"}
      /\ (k2 = "asked" => ins.arg \in {"singleline", "numeric", "sms"})
  BY DEF Leads
<1>2. p.final \in Finals /\ p.lines \in BOOLEAN
  BY DEF Responses
<1>3. CASE ~closed /\ NeedsLine(ins.arg, p)
  BY <1>1, <1>2, <1>3
  DEF Knows, Held, Fine, NotLive, LiveNotes, Pending, Accepted, Live, Nothing, Finals, NeedsLine
<1>4. CASE ~(~closed /\ NeedsLine(ins.arg, p))
  BY <1>1, <1>2, <1>4
  DEF Knows, Held, Fine, NotLive, LiveNotes, Pending, Accepted, Live, Nothing, Finals, NeedsLine
<1> QED  BY <1>3, <1>4

\* A command that could not be sent.
LEMMA KnowsNotSent ==
    ASSUME NEW f, NEW g, g.p = f.p, g.err, g.answer = "none",
           NEW k, NEW k2, Knows(k, f), NEW ins, ins.op = "send", Leads(ins, k, k2)
    PROVE  Knows(k2, g)
BY DEF Knows, Leads, Held, Fine, NotLive, LiveNotes, Pending, Accepted, Live, Nothing, Finals

\* A command that does not ask for its response.
LEMMA KnowsFired ==
    ASSUME NEW f, NEW g, g.p = f.p, g.answer = f.answer,
           NEW k, NEW k2, Knows(k, f), NEW ins, ins.op = "fire", Leads(ins, k, k2)
    PROVE  Knows(k2, g)
BY DEF Knows, Leads, Weaker, Held, Fine, NotLive, LiveNotes, Pending, Accepted, Live, Nothing, Finals

\* The response is freed, or there is none.
LEMMA KnowsFreed ==
    ASSUME NEW f, NEW g, g.answer = f.answer, ~Live(g.p),
           NEW k, NEW k2, Knows(k, f), NEW ins, ins.op = "free", Leads(ins, k, k2)
    PROVE  Knows(k2, g)
BY DEF Knows, Leads, Held, Fine, NotLive, LiveNotes, Pending, Accepted, Live, Nothing, Finals

\* A test that does not jump, or an instruction that leaves the response alone.
LEMMA KnowsTested ==
    ASSUME NEW f, NEW g, Alike(g, f), NEW k, NEW k2, Knows(k, f),
           NEW ins, ins.op \notin {"null", "send", "free", "fire"}, Leads(ins, k, k2),
           f.p.final = "OK" => Accepted(f),
           ins.op = "error" => ~f.err,
           ins.op = "failure" => ~f.err /\ f.p.final = "OK",
           ins.op = "refusal" => f.p.final = "OK",
           ins.op = "nolines" => f.p.lines
    PROVE  Knows(k2, g)
<1>1. CASE Weaker(k, k2)
  BY <1>1, KnowsLess
<1>2. CASE ~Weaker(k, k2)
  <2> USE DEF Alike, Knows, Held, Fine, NotLive, LiveNotes, Pending, Accepted, Live, Nothing, Finals
  <2>1. CASE ins.op = "error"
    <3>1. (k2 = "live" /\ k \in Pending) \/ (k2 = "answered" /\ k = "asked")
      BY <1>2, <2>1 DEF Leads
    <3> QED  BY <2>1, <3>1
  <2>2. CASE ins.op = "failure"
    <3>1. \/ k2 = "ok" /\ k \in Pending \union LiveNotes \union {"held"}
          \/ k2 = "lines" /\ k \in {"asked", "answered"}
      BY <1>2, <2>2 DEF Leads
    <3> QED  BY <2>2, <3>1
  <2>3. CASE ins.op = "refusal"
    <3>1. (k2 = "ok" /\ k \in LiveNotes) \/ (k2 = "lines" /\ k = "answered")
      BY <1>2, <2>3 DEF Leads
    <3> QED  BY <2>3, <3>1
  <2>4. CASE ins.op = "nolines"
    <3>1. (k2 = "read" /\ k \in LiveNotes) \/ (k2 = "lines" /\ k = "ok")
      BY <1>2, <2>4 DEF Leads
    <3> QED  BY <2>4, <3>1
  <2>5. ins.op \in {"error", "failure", "refusal", "nolines"}
    BY <1>2 DEF Leads
  <2> QED  BY <2>1, <2>2, <2>3, <2>4, <2>5
<1> QED  BY <1>1, <1>2

\* An instruction that followed p_response where there is none, and survived it.
LEMMA KnowsSurvived ==
    ASSUME NEW f, NEW g, Alike(g, f), NEW k, NEW k2, Knows(k, f),
           NEW ins, ins.op \notin {"null", "send", "fire", "error"}, Leads(ins, k, k2),
           ins.op = "free" => ~Live(f.p),
           ins.op \in {"failure", "refusal", "nolines"} => ~Live(f.p) /\ f.p # Nothing("NULL"),
           ins.op = "failure" => ~f.err
    PROVE  Knows(k2, g)
<1>1. CASE ins.op = "free"
  BY <1>1, KnowsFreed DEF Alike
<1>2. CASE ins.op # "free"
  <2>1. Weaker(k, k2)
    BY <1>2 DEF Knows, Leads, Held, Fine, NotLive, LiveNotes, Pending
  <2> QED  BY <2>1, KnowsLess
<1> QED  BY <1>1, <1>2

(***************************************************************************)
(* The invariant of the stack, and what a step needs to keep it.           *)
(***************************************************************************)
\* Every frame on the stack fits its notes, and the functions that were found to do
\* wrong are among those that are known to.
Fits ==
    /\ stack \in Seq(Frames)
    /\ \A i \in DOMAIN stack : FrameFits(stack[i])
    /\ faults \subseteq Faulty /\ leaks \subseteq Leaky /\ dishonest \subseteq Dishonest

\* What the notes say of the instruction of the top frame.
LEMMA TopNoted ==
    ASSUME Fits, stack # << >>
    PROVE  /\ Len(stack) \in Nat \ {0} /\ Top = stack[Len(stack)]
           /\ Top \in Frames /\ FrameFits(Top)
           /\ Operands(Instruction) /\ Allowed(Top.fn, Instruction, Note(Top))
           /\ Instruction.op \notin Ending =>
                /\ Top.pc + 1 \in DOMAIN Code[Top.fn]
                /\ Leads(Instruction, Note(Top), NoteOf(Top.fn)[Top.pc + 1])
           /\ Instruction.op # "label" /\ Instruction.to # "none" =>
                /\ Place(Instruction.to) \in DOMAIN Code[Top.fn]
                /\ LabelAt(Code[Top.fn], Place(Instruction.to), Instruction.to)
                /\ Weaker(Note(Top), NoteOf(Top.fn)[Place(Instruction.to)])
<1>1. Len(stack) \in Nat \ {0} /\ Len(stack) \in DOMAIN stack
  BY EmptySeq, LenProperties DEF Fits
<1>2. Top = stack[Len(stack)] /\ FrameFits(Top) /\ Top \in Frames
  BY <1>1 DEF Fits, Top, FrameFits
<1>3. Top.fn \in DOMAIN Code /\ Top.pc \in DOMAIN Code[Top.fn]
  BY <1>2 DEF FrameFits, Frames
<1>4. NotesAt(Top.fn, Code[Top.fn], NoteOf(Top.fn), Top.pc)
  BY <1>3, NotesFit DEF Noted
<1>5. Instruction = Code[Top.fn][Top.pc] /\ Note(Top) = NoteOf(Top.fn)[Top.pc]
  BY DEF Instruction, Note
<1>6. ASSUME Instruction.op # "label", Instruction.to # "none"
      PROVE  /\ Place(Instruction.to) \in DOMAIN Code[Top.fn]
             /\ LabelAt(Code[Top.fn], Place(Instruction.to), Instruction.to)
             /\ Weaker(Note(Top), NoteOf(Top.fn)[Place(Instruction.to)])
  <2>1. /\ \E i \in DOMAIN Code[Top.fn] : LabelAt(Code[Top.fn], i, Instruction.to)
        /\ \A i \in DOMAIN Code[Top.fn] : LabelAt(Code[Top.fn], i, Instruction.to) =>
              Weaker(Note(Top), NoteOf(Top.fn)[i])
    BY <1>4, <1>5, <1>6 DEF NotesAt
  <2>2. Place(Instruction.to) = CHOOSE i \in DOMAIN Code[Top.fn] :
                                   LabelAt(Code[Top.fn], i, Instruction.to)
    BY DEF Place, LabelAt
  <2>3. /\ Place(Instruction.to) \in DOMAIN Code[Top.fn]
        /\ LabelAt(Code[Top.fn], Place(Instruction.to), Instruction.to)
    BY <2>1, <2>2
  <2> QED  BY <2>1, <2>3
<1>7. /\ Operands(Instruction) /\ Allowed(Top.fn, Instruction, Note(Top))
      /\ Instruction.op \notin Ending =>
           /\ Top.pc + 1 \in DOMAIN Code[Top.fn]
           /\ Leads(Instruction, Note(Top), NoteOf(Top.fn)[Top.pc + 1])
  BY <1>4, <1>5 DEF NotesAt
<1> QED  BY <1>1, <1>2, <1>6, <1>7

\* The top frame is replaced by one that fits.
LEMMA Replaced ==
    ASSUME Fits, stack # << >>, NEW g, FrameFits(g)
    PROVE  /\ SetTop(g) \in Seq(Frames) /\ Len(SetTop(g)) = Len(stack)
           /\ DOMAIN SetTop(g) = DOMAIN stack
           /\ SetTop(g)[Len(stack)] = g
           /\ \A i \in DOMAIN stack : i # Len(stack) => SetTop(g)[i] = stack[i]
           /\ \A i \in DOMAIN SetTop(g) : FrameFits(SetTop(g)[i])
<1>1. Len(stack) \in DOMAIN stack /\ stack \in Seq(Frames) /\ g \in Frames
  BY TopNoted, LenProperties DEF Fits, FrameFits
<1>2. SetTop(g) \in Seq(Frames) /\ Len(SetTop(g)) = Len(stack)
  BY <1>1, ExceptSeq DEF SetTop
<1>3. SetTop(g) = [i \in DOMAIN stack |-> IF i = Len(stack) THEN g ELSE stack[i]]
  BY DEF SetTop
<1> QED  BY <1>1, <1>2, <1>3 DEF Fits

\* A frame of the same function at pc fits when its fields do.
LEMMA FitsAt ==
    ASSUME NEW f, FrameFits(f), NEW g \in Frames, NEW pc \in DOMAIN Code[f.fn],
           g.fn = f.fn, g.pc = pc, g.p.final = "OK" => Accepted(g), Knows(NoteOf(f.fn)[pc], g)
    PROVE  FrameFits(g)
BY DEF FrameFits, Note

\* A program has Nat for its places.
LEMMA Places == \A fn \in DOMAIN Code : \A pc \in DOMAIN Code[fn] : pc \in Nat
BY NotesFit DEF Noted, NotesAt

\* The frame after the next instruction.
LEMMA NextFrame ==
    ASSUME NEW f \in Frames, f.pc + 1 \in Nat
    PROVE  /\ Next1(f) \in Frames /\ Next1(f).fn = f.fn /\ Next1(f).pc = f.pc + 1
           /\ Alike(Next1(f), f) /\ Next1(f).n = f.n /\ Next1(f).returned = f.returned
BY DEF Next1, Frames, Alike

(***************************************************************************)
(* Each step of a handler keeps the stack in order.                        *)
(***************************************************************************)
\* A step that replaces the top frame and finds nothing wrong.
LEMMA ReplaceKeepsFits ==
    ASSUME Fits, stack # << >>, NEW g, FrameFits(g), stack' = SetTop(g),
           faults' \subseteq Faulty, leaks' \subseteq Leaky, dishonest' \subseteq Dishonest
    PROVE  Fits'
<1>1. SetTop(g) \in Seq(Frames) /\ \A i \in DOMAIN SetTop(g) : FrameFits(SetTop(g)[i])
  BY Replaced
<1> QED  BY <1>1 DEF Fits

\* A response is lost only by a function that is known to.
LEMMA LostFits ==
    ASSUME Fits, stack # << >>, Instruction.op \in {"null", "send", "return"}
    PROVE  Lost \subseteq Leaky
<1>1. Top.fn \in Leaky \/ Note(Top) \in NotLive
  BY TopNoted DEF Allowed
<1>2. Note(Top) \in NotLive => ~Live(Top.p)
  BY TopNoted DEF FrameFits, Knows
<1> QED  BY <1>1, <1>2 DEF Lost, Fits

\* The top frame with the next instruction.
LEMMA NextTop ==
    ASSUME Fits, stack # << >>, Instruction.op \notin Ending
    PROVE  /\ Next1(Top) \in Frames /\ Next1(Top).fn = Top.fn /\ Next1(Top).pc = Top.pc + 1
           /\ Alike(Next1(Top), Top) /\ Next1(Top).n = Top.n /\ Next1(Top).returned = Top.returned
           /\ Top.pc + 1 \in DOMAIN Code[Top.fn]
           /\ Leads(Instruction, Note(Top), NoteOf(Top.fn)[Top.pc + 1])
<1>1. Top.pc + 1 \in DOMAIN Code[Top.fn] /\ Top \in Frames /\ FrameFits(Top)
      /\ Leads(Instruction, Note(Top), NoteOf(Top.fn)[Top.pc + 1])
  BY TopNoted
<1>2. Top.pc + 1 \in Nat
  BY <1>1, Places DEF Frames
<1> QED  BY <1>1, <1>2, NextFrame

\* A frame that is at the next instruction fits when its note holds.
LEMMA NextFits ==
    ASSUME Fits, stack # << >>, Instruction.op \notin Ending,
           NEW g \in Frames, g.fn = Top.fn, g.pc = Top.pc + 1,
           g.p.final = "OK" => Accepted(g), Knows(NoteOf(Top.fn)[Top.pc + 1], g)
    PROVE  FrameFits(g)
BY TopNoted, NextTop, FitsAt

LEMMA SetNullFits == ASSUME Fits, SetNull PROVE Fits'
<1> DEFINE g == [Next1(Top) EXCEPT !.p = Nothing("NULL")]
<1>1. stack # << >> /\ Instruction.op = "null" /\ Instruction.op \notin Ending
  BY DEF SetNull, At, Ending
<1>2. /\ g \in Frames /\ g.fn = Top.fn /\ g.pc = Top.pc + 1 /\ g.p = Nothing("NULL")
      /\ g.answer = Top.answer
  BY <1>1, NextTop DEF Frames, Pointers, Nothing, Alike
<1>3. Knows(NoteOf(Top.fn)[Top.pc + 1], g)
  <2>1. Knows(Note(Top), Top) /\ Leads(Instruction, Note(Top), NoteOf(Top.fn)[Top.pc + 1])
    BY <1>1, TopNoted, NextTop DEF FrameFits
  <2> HIDE DEF g
  <2> QED  BY <1>1, <1>2, <2>1, KnowsNull
<1>4. g.p.final # "OK"
  BY <1>2 DEF Nothing
<1>5. FrameFits(g)
  <2> HIDE DEF g
  <2> QED  BY <1>1, <1>2, <1>3, <1>4, NextFits
<1>6. stack' = SetTop(g) /\ faults' = faults /\ leaks' = Lost /\ dishonest' = dishonest
  BY DEF SetNull
<1> HIDE DEF g
<1> QED  BY <1>1, <1>5, <1>6, LostFits, ReplaceKeepsFits DEF Fits

LEMMA SendAnsweredFits == ASSUME Fits, SendAnswered PROVE Fits'
<1>1. stack # << >> /\ Instruction.op = "send" /\ Instruction.op \notin Ending
  BY DEF SendAnswered, At, Ending
<1>2. PICK p \in Answers(Instruction.arg), closed \in BOOLEAN :
         stack' = SetTop([Next1(Top) EXCEPT
                    !.p = IF ~closed /\ NeedsLine(Instruction.arg, p) THEN Nothing("NULL") ELSE p,
                    !.err = closed \/ NeedsLine(Instruction.arg, p),
                    !.answer = p.final])
  BY DEF SendAnswered
<1> DEFINE q == IF ~closed /\ NeedsLine(Instruction.arg, p) THEN Nothing("NULL") ELSE p
           e == closed \/ NeedsLine(Instruction.arg, p)
           g == [Next1(Top) EXCEPT !.p = q, !.err = e, !.answer = p.final]
<1>3. p \in Responses /\ p.final \in Finals
  BY DEF Answers, Responses
<1>4. q \in Pointers /\ e \in BOOLEAN
  BY <1>3 DEF Pointers, NeedsLine
<1>5. /\ g \in Frames /\ g.fn = Top.fn /\ g.pc = Top.pc + 1
      /\ g.p = q /\ g.err = e /\ g.answer = p.final
  <2> HIDE DEF q, e
  <2> QED  BY <1>1, <1>3, <1>4, NextTop DEF Frames
<1>6. Knows(NoteOf(Top.fn)[Top.pc + 1], g) /\ (g.p.final = "OK" => Accepted(g))
  <2>1. Knows(Note(Top), Top) /\ Leads(Instruction, Note(Top), NoteOf(Top.fn)[Top.pc + 1])
    BY <1>1, TopNoted, NextTop DEF FrameFits
  <2>2. g.p = (IF ~closed /\ NeedsLine(Instruction.arg, p) THEN Nothing("NULL") ELSE p)
        /\ g.err = (closed \/ NeedsLine(Instruction.arg, p)) /\ g.answer = p.final
    BY <1>5
  <2> HIDE DEF g
  <2> QED  BY <1>1, <1>3, <2>1, <2>2, KnowsSent
<1>7. stack' = SetTop(g) /\ faults' = faults /\ leaks' = Lost /\ dishonest' = dishonest
  BY <1>2 DEF SendAnswered
<1> HIDE DEF g
<1>8. FrameFits(g)
  BY <1>1, <1>5, <1>6, NextFits
<1> QED  BY <1>1, <1>7, <1>8, LostFits, ReplaceKeepsFits DEF Fits

LEMMA SendFailsFits == ASSUME Fits, SendFails PROVE Fits'
<1> DEFINE g == [Next1(Top) EXCEPT !.err = TRUE, !.answer = "none"]
<1>1. stack # << >> /\ Instruction.op = "send" /\ Instruction.op \notin Ending
  BY DEF SendFails, At, Ending
<1>2. /\ g \in Frames /\ g.fn = Top.fn /\ g.pc = Top.pc + 1
      /\ g.p = Top.p /\ g.err /\ g.answer = "none"
  BY <1>1, NextTop DEF Frames, Alike
<1>3. stack' = SetTop(g) /\ faults' = faults /\ leaks' = leaks /\ dishonest' = dishonest
  BY DEF SendFails
<1> HIDE DEF g
<1>4. Knows(NoteOf(Top.fn)[Top.pc + 1], g)
  <2>1. FrameFits(Top) /\ Leads(Instruction, Note(Top), NoteOf(Top.fn)[Top.pc + 1])
    BY <1>1, TopNoted, NextTop
  <2>2. Knows(Note(Top), Top)
    BY <2>1 DEF FrameFits
  <2> QED  BY <1>1, <1>2, <2>1, <2>2, KnowsNotSent
<1>5. Accepted(g)
  BY <1>2 DEF Accepted
<1>6. FrameFits(g)
  BY <1>1, <1>2, <1>4, <1>5, NextFits
<1> QED  BY <1>1, <1>3, <1>6, ReplaceKeepsFits DEF Fits

LEMMA FireCommandFits == ASSUME Fits, FireCommand PROVE Fits'
<1>1. stack # << >> /\ Instruction.op = "fire" /\ Instruction.op \notin Ending
  BY DEF FireCommand, At, Ending
<1>2. PICK e \in BOOLEAN : stack' = SetTop([Next1(Top) EXCEPT !.err = e])
  BY DEF FireCommand
<1> DEFINE g == [Next1(Top) EXCEPT !.err = e]
<1>3. /\ g \in Frames /\ g.fn = Top.fn /\ g.pc = Top.pc + 1
      /\ g.p = Top.p /\ g.answer = Top.answer
  BY <1>1, NextTop DEF Frames, Alike
<1>4. stack' = SetTop(g) /\ faults' = faults /\ leaks' = leaks /\ dishonest' = dishonest
  BY <1>2 DEF FireCommand
<1> HIDE DEF g
<1>5. Knows(NoteOf(Top.fn)[Top.pc + 1], g) /\ (g.p.final = "OK" => Accepted(g))
  <2>1. FrameFits(Top) /\ Leads(Instruction, Note(Top), NoteOf(Top.fn)[Top.pc + 1])
    BY <1>1, TopNoted, NextTop
  <2>2. Knows(Note(Top), Top) /\ (Top.p.final = "OK" => Accepted(Top))
    BY <2>1 DEF FrameFits
  <2> QED  BY <1>1, <1>3, <2>1, <2>2, KnowsFired DEF Accepted
<1>6. FrameFits(g)
  BY <1>1, <1>3, <1>5, NextFits
<1> QED  BY <1>1, <1>4, <1>6, ReplaceKeepsFits DEF Fits

\* The top frame goes on as it is, after an instruction that leaves its response alone.
LEMMA GoesOnFits ==
    ASSUME Fits, stack # << >>, Instruction.op \notin Ending,
           Instruction.op \notin {"null", "send", "free", "fire"},
           Instruction.op \notin {"error", "failure", "refusal", "nolines"},
           NEW g \in Frames, g.fn = Top.fn, g.pc = Top.pc + 1, Alike(g, Top)
    PROVE  FrameFits(g)
<1>1. FrameFits(Top) /\ Leads(Instruction, Note(Top), NoteOf(Top.fn)[Top.pc + 1])
  BY TopNoted, NextTop
<1>2. Knows(Note(Top), Top) /\ (Top.p.final = "OK" => Accepted(Top))
  BY <1>1 DEF FrameFits
<1>3. Knows(NoteOf(Top.fn)[Top.pc + 1], g)
  BY <1>1, <1>2, KnowsTested
<1>4. g.p.final = "OK" => Accepted(g)
  BY <1>2 DEF Alike, Accepted
<1> QED  BY <1>3, <1>4, NextFits

LEMMA CompleteRequestFits == ASSUME Fits, CompleteRequest PROVE Fits'
<1>1. /\ stack # << >> /\ Instruction.op = "complete" /\ Instruction.op \notin Ending
      /\ stack' = SetTop(Next1(Top)) /\ faults' = faults /\ leaks' = leaks
  BY DEF CompleteRequest, At, Ending
<1>2. FrameFits(Next1(Top))
  BY <1>1, NextTop, GoesOnFits
<1>3. dishonest' \subseteq Dishonest
  <2>1. CASE dishonest' = dishonest
    BY <2>1 DEF Fits
  <2>2. CASE Instruction.arg = "SUCCESS" /\ Top.answer \in Finals \ {"OK"}
    <3>1. Top.fn \in Dishonest \/ Note(Top) \in Fine
      BY <1>1, <2>2, TopNoted DEF Allowed
    <3>2. Note(Top) \in Fine => Accepted(Top)
      BY <1>1, TopNoted DEF FrameFits, Knows
    <3>3. ~Accepted(Top)
      BY <2>2 DEF Accepted, Finals
    <3>4. dishonest' \subseteq dishonest \union {Top.fn}
      BY DEF CompleteRequest
    <3> QED  BY <3>1, <3>2, <3>3, <3>4 DEF Fits
  <2> QED  BY <2>1, <2>2 DEF CompleteRequest
<1> QED  BY <1>1, <1>2, <1>3, ReplaceKeepsFits DEF Fits

LEMMA FreeResponseFits == ASSUME Fits, FreeResponse PROVE Fits'
<1> DEFINE q == IF Live(Top.p) THEN Nothing("freed") ELSE Top.p
           g == [Next1(Top) EXCEPT !.p = q]
<1>1. /\ stack # << >> /\ Instruction.op = "free" /\ Instruction.op \notin Ending
      /\ Live(Top.p) \/ Top.p = Nothing("NULL")
      /\ faults' = faults /\ leaks' = leaks /\ dishonest' = dishonest
  BY DEF FreeResponse, At, Ending
<1>2. Next1(Top).p = Top.p
  BY <1>1, NextTop DEF Alike
<1>3. stack' = SetTop(g)
  BY <1>2 DEF FreeResponse
<1>4. q \in Pointers /\ ~Live(q) /\ q.final # "OK"
  BY <1>1 DEF Pointers, Live, Nothing, Finals
<1>5. g \in Frames /\ g.fn = Top.fn /\ g.pc = Top.pc + 1 /\ g.p = q /\ g.answer = Top.answer
  <2> HIDE DEF q
  <2> QED  BY <1>1, <1>4, NextTop DEF Frames, Alike
<1> HIDE DEF q, g
<1>6. Knows(NoteOf(Top.fn)[Top.pc + 1], g)
  <2>1. Knows(Note(Top), Top) /\ Leads(Instruction, Note(Top), NoteOf(Top.fn)[Top.pc + 1])
    BY <1>1, TopNoted, NextTop DEF FrameFits
  <2> QED  BY <1>1, <1>4, <1>5, <2>1, KnowsFreed
<1>7. FrameFits(g)
  BY <1>1, <1>4, <1>5, <1>6, NextFits
<1> QED  BY <1>1, <1>3, <1>7, ReplaceKeepsFits DEF Fits

\* A frame that jumps fits.
LEMMA JumpFits ==
    ASSUME Fits, stack # << >>, Instruction.op # "label", Instruction.to # "none"
    PROVE  FrameFits([Top EXCEPT !.pc = Place(Instruction.to)])
<1> DEFINE pc == Place(Instruction.to)
           g == [Top EXCEPT !.pc = pc]
<1>1. /\ Top \in Frames /\ FrameFits(Top) /\ pc \in DOMAIN Code[Top.fn]
      /\ Weaker(Note(Top), NoteOf(Top.fn)[pc])
  BY TopNoted
<1>2. pc \in Nat
  BY <1>1, Places DEF Frames
<1> HIDE DEF pc
<1>3. g \in Frames /\ g.fn = Top.fn /\ g.pc = pc /\ Alike(g, Top)
  BY <1>1, <1>2 DEF Frames, Alike
<1> HIDE DEF g
<1>4. Knows(Note(Top), Top) /\ (Top.p.final = "OK" => Accepted(Top))
  BY <1>1 DEF FrameFits
<1>5. Knows(NoteOf(Top.fn)[pc], g)
  BY <1>1, <1>3, <1>4, KnowsLess
<1>6. g.p.final = "OK" => Accepted(g)
  BY <1>3, <1>4 DEF Alike, Accepted
<1>7. FrameFits(g)
  BY <1>1, <1>3, <1>5, <1>6, FitsAt
<1> QED  BY <1>7 DEF g, pc

\* What the outcome of a test tells.
LEMMA OutcomesTell ==
    ASSUME Top \in Frames, NEW taken \in Outcomes
    PROVE  /\ taken \in BOOLEAN
           /\ taken => Instruction.op \in Jumping
           /\ ~taken => /\ Instruction.op \notin Ending \union {"null", "send", "free", "fire"}
                        /\ Instruction.op = "error" => ~Top.err
                        /\ Instruction.op = "failure" => ~Top.err /\ Top.p.final = "OK"
                        /\ Instruction.op = "refusal" => Top.p.final = "OK"
                        /\ Instruction.op = "nolines" => Top.p.lines
<1> DEFINE op == Instruction.op
           err == Top.err
           bad == Top.p.final # "OK"
           lines == Top.p.lines
<1>1. err \in BOOLEAN /\ lines \in BOOLEAN
  <2>1. Top.p \in Pointers /\ Top.err \in BOOLEAN
    BY DEF Frames
  <2>2. CASE Top.p \in Responses
    BY <2>1, <2>2 DEF Responses
  <2>3. CASE Top.p \in {Nothing(why) : why \in {"uninit", "NULL", "freed"}}
    <3>1. PICK why \in {"uninit", "NULL", "freed"} : Top.p = Nothing(why)
      BY <2>3
    <3>2. Nothing(why).lines = FALSE
      BY DEF Nothing
    <3> QED  BY <2>1, <3>1, <3>2
  <2> QED  BY <2>1, <2>2, <2>3 DEF Pointers
<1>2. \/ op \in {"parse", "maybe"} /\ taken \in BOOLEAN
      \/ op \in {"label", "line", "report"} /\ ~taken
      \/ op = "goto" /\ taken
      \/ op = "error" /\ (taken <=> err)
      \/ op = "failure" /\ (taken <=> err \/ bad)
      \/ op = "refusal" /\ (taken <=> bad)
      \/ op \in {"final", "isnull", "returned"} /\ taken \in BOOLEAN
      \/ op = "nolines" /\ (taken <=> ~lines)
  BY DEF Outcomes
<1>3. taken \in BOOLEAN
  BY <1>1 DEF Outcomes
<1> HIDE DEF op, err, bad, lines
<1>4. /\ taken => op \in Jumping
      /\ ~taken => /\ op \notin Ending \union {"null", "send", "free", "fire"}
                   /\ op = "error" => ~err
                   /\ op = "failure" => ~err /\ ~bad
                   /\ op = "refusal" => ~bad
                   /\ op = "nolines" => lines
  BY <1>1, <1>2, <1>3 DEF Jumping, Ending
<1> QED  BY <1>3, <1>4 DEF op, err, bad, lines

LEMMA TestFits == ASSUME Fits, Test PROVE Fits'
<1>1. /\ stack # << >> /\ faults' = faults /\ leaks' = leaks /\ dishonest' = dishonest
  BY DEF Test
<1>2. PICK taken \in Outcomes : stack' = Follow(taken)
  BY DEF Test
<1>3. Top \in Frames /\ FrameFits(Top) /\ Operands(Instruction)
  BY <1>1, TopNoted
<1>4. CASE taken
  <2>1. Instruction.op \in Jumping
    BY <1>3, <1>4, OutcomesTell
  <2>2. Instruction.op # "label" /\ Instruction.to # "none"
    BY <1>3, <2>1 DEF Operands, Jumping
  <2>3. FrameFits([Top EXCEPT !.pc = Place(Instruction.to)])
    BY <1>1, <2>2, JumpFits
  <2>4. stack' = SetTop([Top EXCEPT !.pc = Place(Instruction.to)])
    BY <1>2, <1>4 DEF Follow
  <2> QED  BY <1>1, <2>3, <2>4, ReplaceKeepsFits DEF Fits
<1>5. CASE ~taken
  <2> DEFINE g == Next1(Top)
  <2>1. Instruction.op \notin Ending \union {"null", "send", "free", "fire"}
    BY <1>3, <1>5, OutcomesTell
  <2>2. /\ g \in Frames /\ g.fn = Top.fn /\ g.pc = Top.pc + 1 /\ Alike(g, Top)
        /\ Leads(Instruction, Note(Top), NoteOf(Top.fn)[Top.pc + 1])
    BY <1>1, <2>1, NextTop
  <2>3. stack' = SetTop(g)
    BY <1>2, <1>5 DEF Follow
  <2> HIDE DEF g
  <2>4. Knows(Note(Top), Top) /\ (Top.p.final = "OK" => Accepted(Top))
    BY <1>3 DEF FrameFits
  <2>5. Knows(NoteOf(Top.fn)[Top.pc + 1], g)
    BY <1>3, <1>5, <2>1, <2>2, <2>4, OutcomesTell, KnowsTested
  <2>6. g.p.final = "OK" => Accepted(g)
    BY <2>2, <2>4 DEF Alike, Accepted
  <2>7. FrameFits(g)
    BY <1>1, <2>1, <2>2, <2>5, <2>6, NextFits
  <2> QED  BY <1>1, <2>3, <2>7, ReplaceKeepsFits DEF Fits
<1>6. taken \in BOOLEAN
  BY <1>3, OutcomesTell
<1> QED  BY <1>4, <1>5, <1>6

\* A function that runs into undefined behaviour is one that is known to.
LEMMA FaultIsKnown ==
    ASSUME Fits, stack # << >>, Undefined
    PROVE  Top.fn \in Faulty
<1>1. FrameFits(Top) /\ Allowed(Top.fn, Instruction, Note(Top))
  BY TopNoted
<1>2. SUFFICES ASSUME Safe(Instruction, Note(Top)) PROVE FALSE
  BY <1>1 DEF Allowed
<1>3. Knows(Note(Top), Top)
  BY <1>1 DEF FrameFits
<1>4. Instruction.op \notin {"wild", "crash"}
  BY <1>2 DEF Safe
<1>5. CASE Dereferences /\ ~Live(Top.p)
  <2>1. Note(Top) \in LiveNotes \/ (Note(Top) \in Pending /\ ~Top.err)
    BY <1>2, <1>5 DEF Safe, Dereferences, Reads, ReadsLine, LiveNotes
  <2> QED  BY <1>3, <1>5, <2>1 DEF Knows
<1>6. CASE Instruction.op \in ReadsLine /\ ~Top.p.lines
  BY <1>2, <1>3, <1>6 DEF Safe, ReadsLine, Knows
<1>7. CASE Instruction.op = "free" /\ Top.p.final \in {"uninit", "freed"}
  BY <1>2, <1>3, <1>7 DEF Safe, Knows, Live, Nothing, Finals
<1> QED  BY <1>4, <1>5, <1>6, <1>7 DEF Undefined

LEMMA FaultFits == ASSUME Fits, Fault PROVE Fits'
<1>1. /\ stack # << >> /\ Undefined /\ faults' = faults \union {Top.fn}
      /\ leaks' = leaks /\ dishonest' = dishonest
  BY DEF Fault
<1>2. faults' \subseteq Faulty
  BY <1>1, FaultIsKnown DEF Fits
<1>3. CASE stack' = stack
  BY <1>1, <1>2, <1>3 DEF Fits
<1>4. CASE ~MustCrash /\ \E taken \in IF Instruction.to = "none" THEN {FALSE} ELSE BOOLEAN :
                            stack' = Follow(taken)
  <2>1. PICK taken \in IF Instruction.to = "none" THEN {FALSE} ELSE BOOLEAN :
          stack' = Follow(taken)
    BY <1>4
  <2>2. FrameFits(Top)
    BY <1>1, TopNoted
  <2>3. Instruction.op \in {"wild", "free", "failure"} \union Reads /\ Instruction.op # "crash"
    BY <1>1, <1>4 DEF Undefined, MustCrash, Dereferences, Reads
  <2>4. CASE taken
    <3>1. Instruction.op # "label" /\ Instruction.to # "none"
      BY <2>1, <2>3, <2>4 DEF Reads, ReadsLine
    <3>2. FrameFits([Top EXCEPT !.pc = Place(Instruction.to)])
      BY <1>1, <3>1, JumpFits
    <3>3. stack' = SetTop([Top EXCEPT !.pc = Place(Instruction.to)])
      BY <2>1, <2>4 DEF Follow
    <3> QED  BY <1>1, <1>2, <3>2, <3>3, ReplaceKeepsFits DEF Fits
  <2>5. CASE ~taken
    <3> DEFINE g == Next1(Top)
    <3>1. Instruction.op \notin Ending \union {"null", "send", "fire", "error"}
      BY <2>3 DEF Ending, Reads, ReadsLine
    <3>2. /\ g \in Frames /\ g.fn = Top.fn /\ g.pc = Top.pc + 1 /\ Alike(g, Top)
          /\ Leads(Instruction, Note(Top), NoteOf(Top.fn)[Top.pc + 1])
      BY <1>1, <3>1, NextTop
    <3>3. stack' = SetTop(g)
      BY <2>1, <2>5 DEF Follow
    <3> HIDE DEF g
    <3>4. Knows(Note(Top), Top) /\ (Top.p.final = "OK" => Accepted(Top))
      BY <2>2 DEF FrameFits
    <3>5. /\ Instruction.op = "free" => ~Live(Top.p)
          /\ Instruction.op \in {"failure", "refusal", "nolines"} =>
                ~Live(Top.p) /\ Top.p # Nothing("NULL")
          /\ Instruction.op = "failure" => ~Top.err
      <4>1. Instruction.op = "free" => ~Live(Top.p)
        BY <1>1 DEF Undefined, Dereferences, Reads, ReadsLine, Live, Finals
      <4>2. Instruction.op \in {"failure", "refusal", "nolines"} => Dereferences /\ ~Live(Top.p)
        BY <1>1 DEF Undefined, Dereferences, Reads, ReadsLine
      <4>3. Dereferences => Top.p # Nothing("NULL")
        BY <1>4 DEF MustCrash
      <4>4. Instruction.op = "failure" /\ Dereferences => ~Top.err
        BY DEF Dereferences, Reads, ReadsLine
      <4> QED  BY <4>1, <4>2, <4>3, <4>4
    <3>6. Knows(NoteOf(Top.fn)[Top.pc + 1], g)
      BY <3>1, <3>2, <3>4, <3>5, KnowsSurvived
    <3>7. g.p.final = "OK" => Accepted(g)
      BY <3>2, <3>4 DEF Alike, Accepted
    <3>8. FrameFits(g)
      BY <1>1, <3>1, <3>2, <3>6, <3>7, NextFits
    <3> QED  BY <1>1, <1>2, <3>3, <3>8, ReplaceKeepsFits DEF Fits
  <2> QED  BY <2>1, <2>4, <2>5
<1> QED  BY <1>3, <1>4 DEF Fault

\* A function that starts fits.
LEMMA FrameStarts ==
    ASSUME NEW fn \in DOMAIN Code
    PROVE  FrameFits(Frame(fn)) /\ Frame(fn).fn = fn /\ Frame(fn).pc = 1
<1> DEFINE f == Frame(fn)
<1>1. 1 \in DOMAIN Code[fn] /\ NoteOf(fn)[1] = "empty"
  BY NotesFit DEF Noted
<1>2. /\ f.fn = fn /\ f.pc = 1 /\ f.p = Nothing("uninit") /\ f.err = FALSE /\ f.answer = "none"
      /\ f.returned = "none" /\ f.n = 0
  BY DEF Frame
<1>3. f \in Frames
  BY DEF Frame, Frames, Pointers, Values, MaxTries
<1> HIDE DEF f
<1>4. Knows("empty", f)
  BY <1>2 DEF Knows, Held, Fine, NotLive, LiveNotes, Pending, Accepted, Live, Nothing, Finals
<1>5. f.p.final = "OK" => Accepted(f)
  BY <1>2 DEF Accepted
<1>6. FrameFits(f)
  BY <1>1, <1>2, <1>3, <1>4, <1>5 DEF FrameFits, Note
<1> QED  BY <1>2, <1>6 DEF f

\* What is called by name has a program.
LEMMA CalleesAreCode == Callees \subseteq DOMAIN Code
BY DEF Callees, Code

\* A function is called on top of a stack in order.
LEMMA AppendFits ==
    ASSUME NEW s \in Seq(Frames), \A i \in DOMAIN s : FrameFits(s[i]),
           NEW g, FrameFits(g)
    PROVE  /\ Append(s, g) \in Seq(Frames)
           /\ \A i \in DOMAIN Append(s, g) : FrameFits(Append(s, g)[i])
<1>1. g \in Frames
  BY DEF FrameFits
<1>2. /\ Append(s, g) \in Seq(Frames) /\ DOMAIN Append(s, g) = 1..Len(s) + 1
      /\ \A i \in 1..Len(s) : Append(s, g)[i] = s[i]
      /\ Append(s, g)[Len(s) + 1] = g
  BY <1>1, AppendProperties, LenProperties
<1>3. DOMAIN s = 1..Len(s) /\ Len(s) \in Nat
  BY LenProperties
<1> QED  BY <1>2, <1>3

LEMMA CallFunctionFits == ASSUME Fits, CallFunction PROVE Fits'
<1>1. /\ stack # << >> /\ Instruction.op = "call" /\ Instruction.op \notin Ending
      /\ stack' = Append(SetTop(Next1(Top)), Frame(Instruction.arg))
      /\ faults' = faults /\ leaks' = leaks /\ dishonest' = dishonest
  BY DEF CallFunction, At, Ending
<1>2. FrameFits(Next1(Top))
  BY <1>1, NextTop, GoesOnFits
<1>3. Instruction.arg \in DOMAIN Code
  BY <1>1, TopNoted, CalleesAreCode DEF Operands
<1>4. FrameFits(Frame(Instruction.arg))
  BY <1>3, FrameStarts
<1>5. /\ SetTop(Next1(Top)) \in Seq(Frames)
      /\ \A i \in DOMAIN SetTop(Next1(Top)) : FrameFits(SetTop(Next1(Top))[i])
  BY <1>1, <1>2, Replaced
<1>6. stack' \in Seq(Frames) /\ \A i \in DOMAIN stack' : FrameFits(stack'[i])
  BY <1>1, <1>4, <1>5, AppendFits
<1> QED  BY <1>1, <1>6 DEF Fits

\* What the last call returned is not in the notes.
LEMMA ReturnedFits ==
    ASSUME NEW f, FrameFits(f), NEW v \in Values
    PROVE  FrameFits([f EXCEPT !.returned = v])
<1> DEFINE g == [f EXCEPT !.returned = v]
<1>1. f \in Frames /\ f.pc \in DOMAIN Code[f.fn] /\ Knows(Note(f), f)
      /\ (f.p.final = "OK" => Accepted(f))
  BY DEF FrameFits
<1>2. g \in Frames /\ g.fn = f.fn /\ g.pc = f.pc /\ Alike(g, f)
  BY <1>1 DEF Frames, Alike
<1> HIDE DEF g
<1>3. Note(g) = Note(f)
  BY <1>2 DEF Note
<1>4. Knows(Note(g), g)
  BY <1>1, <1>2, <1>3, KnowsLess DEF Weaker
<1>5. g.p.final = "OK" => Accepted(g)
  BY <1>1, <1>2 DEF Alike, Accepted
<1>6. FrameFits(g)
  BY <1>1, <1>2, <1>4, <1>5 DEF FrameFits
<1> QED  BY <1>6 DEF g

\* The stack below its top, to which v is returned.
LEMMA RestOf ==
    ASSUME NEW s \in Seq(Frames), s # << >>, NEW rest, rest = SubSeq(s, 1, Len(s) - 1)
    PROVE  /\ Len(s) \in Nat \ {0} /\ rest \in Seq(Frames) /\ Len(rest) = Len(s) - 1
           /\ DOMAIN s = 1..Len(s) /\ DOMAIN rest = 1..Len(s) - 1
           /\ \A i \in 1..Len(s) - 1 : rest[i] = s[i]
           /\ rest = << >> <=> Len(s) = 1
<1>1. Len(s) \in Nat \ {0} /\ DOMAIN s = 1..Len(s)
  BY EmptySeq, LenProperties
<1>2. rest \in Seq(Frames) /\ Len(rest) = Len(s) - 1 /\ \A i \in 1..Len(s) - 1 : rest[i] = s[i]
  BY <1>1, SubSeqProperties
<1>3. DOMAIN rest = 1..Len(s) - 1
  BY <1>1, <1>2, LenProperties
<1>4. rest = << >> <=> Len(s) = 1
  <2>1. rest = << >> <=> Len(rest) = 0
    BY <1>2, EmptySeq
  <2> QED  BY <1>1, <1>2, <2>1
<1> QED  BY <1>1, <1>2, <1>3, <1>4

LEMMA ReturnFromFunctionFits == ASSUME Fits, ReturnFromFunction PROVE Fits'
<1> DEFINE rest == SubSeq(stack, 1, Len(stack) - 1)
           l == Len(rest)
           g == [rest[l] EXCEPT !.returned = Instruction.arg]
<1>1. /\ stack # << >> /\ Instruction.op = "return"
      /\ stack' = IF rest = << >> THEN rest
                  ELSE [rest EXCEPT ![l].returned = Instruction.arg]
      /\ faults' = faults /\ leaks' = Lost /\ dishonest' = dishonest
  BY DEF ReturnFromFunction, At
<1>2. leaks' \subseteq Leaky
  BY <1>1, LostFits
<1>3. Instruction.arg \in Values
  BY <1>1, TopNoted DEF Operands
<1>4. rest \in Seq(Frames) /\ \A i \in DOMAIN rest : FrameFits(rest[i])
  BY <1>1, RestOf DEF Fits
<1> HIDE DEF rest
<1>5. CASE rest = << >>
  BY <1>1, <1>2, <1>4, <1>5 DEF Fits
<1>6. CASE rest # << >>
  <2>1. l \in DOMAIN rest
    BY <1>4, <1>6, EmptySeq, LenProperties
  <2>2. FrameFits(g)
    BY <1>3, <1>4, <2>1, ReturnedFits
  <2>3. g \in Frames
    BY <2>2 DEF FrameFits
  <2>4. stack' = [rest EXCEPT ![l] = g]
    BY <1>1, <1>6
  <2> HIDE DEF g
  <2>5. stack' \in Seq(Frames) /\ DOMAIN stack' = DOMAIN rest
    BY <1>4, <2>1, <2>3, <2>4, ExceptSeq
  <2>6. \A i \in DOMAIN stack' : FrameFits(stack'[i])
    BY <1>4, <2>1, <2>2, <2>4, <2>5
  <2> QED  BY <1>1, <1>2, <2>5, <2>6 DEF Fits
<1> QED  BY <1>5, <1>6

LEMMA RequestCallbackFits == ASSUME Fits, RequestCallback PROVE Fits'
<1>1. /\ stack # << >> /\ Instruction.op = "later" /\ Instruction.op \notin Ending
      /\ stack' = SetTop(Next1(Top)) /\ faults' = faults /\ leaks' = leaks
      /\ dishonest' = dishonest
  BY DEF RequestCallback, At, Ending
<1>2. FrameFits(Next1(Top))
  BY <1>1, NextTop, GoesOnFits
<1> QED  BY <1>1, <1>2, ReplaceKeepsFits DEF Fits

LEMMA SetTriesFits == ASSUME Fits, SetTries PROVE Fits'
<1> DEFINE g == [Next1(Top) EXCEPT !.n = Instruction.arg]
<1>1. /\ stack # << >> /\ Instruction.op = "set" /\ Instruction.op \notin Ending
      /\ stack' = SetTop(g) /\ faults' = faults /\ leaks' = leaks /\ dishonest' = dishonest
  BY DEF SetTries, At, Ending
<1>2. Instruction.arg \in 0..MaxTries
  BY <1>1, TopNoted DEF Operands
<1>3. g \in Frames /\ g.fn = Top.fn /\ g.pc = Top.pc + 1 /\ Alike(g, Top)
  BY <1>1, <1>2, NextTop DEF Frames, Alike
<1> HIDE DEF g
<1>4. FrameFits(g)
  BY <1>1, <1>3, GoesOnFits
<1> QED  BY <1>1, <1>4, ReplaceKeepsFits DEF Fits

LEMMA CountTryFits == ASSUME Fits, CountTry PROVE Fits'
<1> DEFINE g == [Next1(Top) EXCEPT !.n = @ - 1]
           j == [Top EXCEPT !.pc = Place(Instruction.to)]
<1>1. /\ stack # << >> /\ Instruction.op = "countdown" /\ Instruction.op \notin Ending
      /\ faults' = faults /\ leaks' = leaks /\ dishonest' = dishonest
      /\ stack' = SetTop(IF NoTriesLeft(Top) THEN j ELSE g)
  BY DEF CountTry, At, Ending
<1>2. CASE NoTriesLeft(Top)
  <2>1. Instruction.op # "label" /\ Instruction.to # "none"
    BY <1>1, TopNoted DEF Operands, Jumping
  <2>2. FrameFits(j)
    BY <1>1, <2>1, JumpFits
  <2> HIDE DEF j, g
  <2> QED  BY <1>1, <1>2, <2>2, ReplaceKeepsFits DEF Fits
<1>3. CASE ~NoTriesLeft(Top)
  <2>1. /\ Next1(Top) \in Frames /\ Next1(Top).fn = Top.fn /\ Next1(Top).pc = Top.pc + 1
        /\ Alike(Next1(Top), Top) /\ Next1(Top).n = Top.n
    BY <1>1, NextTop
  <2>2. Next1(Top).n - 1 \in 0..MaxTries
    BY <1>3, <2>1 DEF NoTriesLeft, Frames, MaxTries
  <2>3. g \in Frames /\ g.fn = Top.fn /\ g.pc = Top.pc + 1 /\ Alike(g, Top)
    BY <2>1, <2>2 DEF Frames, Alike
  <2> HIDE DEF g
  <2>4. FrameFits(g)
    BY <1>1, <2>3, GoesOnFits
  <2> HIDE DEF j
  <2> QED  BY <1>1, <1>3, <2>4, ReplaceKeepsFits DEF Fits
<1> QED  BY <1>2, <1>3

(***************************************************************************)
(* What a request, a line and a callback start.                            *)
(***************************************************************************)
\* A handler of request r is a function that completes requests, and completes one
\* again only if r may be.
Serves(h, r) == h \in DOMAIN Code /\ h \notin Silent /\ (h \in Repeating => r \in Repeaters)

LEMMA DefaultServes ==
    \A r \in DOMAIN Default : Default[r] # {} /\ \A h \in Default[r] : Serves(h, r)
BY DEF Default, Serves, Code, Silent, Repeating, Repeaters

LEMMA SpecificServes ==
    \A m \in Modems : \A r \in DOMAIN Specific[m] : Serves(Specific[m][r], r)
<1>1. ASSUME NEW m \in {"MG3732"}
      PROVE  \A r \in DOMAIN Specific[m] : Serves(Specific[m][r], r)
  BY DEF Specific, Modems, Serves, Code, Silent, Repeating, Repeaters
<1>2. ASSUME NEW m \in {"DM6200"}
      PROVE  \A r \in DOMAIN Specific[m] : Serves(Specific[m][r], r)
  BY DEF Specific, Modems, Serves, Code, Silent, Repeating, Repeaters
<1>3. ASSUME NEW m \in {"FR900"}
      PROVE  \A r \in DOMAIN Specific[m] : Serves(Specific[m][r], r)
  BY DEF Specific, Modems, Serves, Code, Silent, Repeating, Repeaters
<1>4. ASSUME NEW m \in {"MH400B"}
      PROVE  \A r \in DOMAIN Specific[m] : Serves(Specific[m][r], r)
  BY DEF Specific, Modems, Serves, Code, Silent, Repeating, Repeaters
<1>5. ASSUME NEW m \in {"DM6600", "MW100"}
      PROVE  \A r \in DOMAIN Specific[m] : Serves(Specific[m][r], r)
  BY DEF Specific, Modems, Serves, Code, Silent, Repeating, Repeaters
<1> QED  BY <1>1, <1>2, <1>3, <1>4, <1>5 DEF Modems

LEMMA HandlersServe ==
    ASSUME NEW r, NEW m \in Modems
    PROVE  /\ r \in DOMAIN Default => Handlers(r, m) # {}
           /\ \A h \in Handlers(r, m) : Serves(h, r)
<1>1. CASE r \in DOMAIN Specific[m]
  BY <1>1, SpecificServes DEF Handlers
<1>2. CASE r \notin DOMAIN Specific[m]
  BY <1>2, DefaultServes DEF Handlers
<1> QED  BY <1>1, <1>2

LEMMA UnsolicitedAreCode == Unsolicited \subseteq DOMAIN Code
BY DEF Unsolicited, Code

LEMMA FilterSimStatusServes == \A r : Serves("filterSimStatus", r)
BY DEF Serves, Code, Silent, Repeating

\* The filter completes a request with an error number.
LEMMA FilterErrors == \A i, r : FilterError(i, r) \in Errors
BY DEF FilterError, Errors

(***************************************************************************)
(* The invariant holds.                                                    *)
(***************************************************************************)
\* The variables besides the stack have their types.
Common ==
    /\ modem \in Modems
    /\ request \in Requests \union {"none", "line", "timed"}
    /\ process \in {"running", "crashed", "exited"}
    /\ timed \subseteq DOMAIN Code
    /\ completions \in 0..MaxCompletions
    /\ result \in Errors \union {"none"}

\* A step of a handler keeps the stack in order.
LEMMA RunFits == ASSUME Fits, Run PROVE Fits'
<1>1. CASE Timeout
  BY <1>1 DEF Timeout, Fits
<1> QED
  BY <1>1, SetNullFits, SendAnsweredFits, SendFailsFits, FireCommandFits, CompleteRequestFits,
     FreeResponseFits, CallFunctionFits, ReturnFromFunctionFits, RequestCallbackFits,
     SetTriesFits, CountTryFits, TestFits, FaultFits DEF Run

\* ... and the types.
LEMMA RunCommon == ASSUME Fits, Common, Run PROVE Common'
<1>1. CASE CompleteRequest
  <2>1. Instruction.arg \in Errors
    BY <1>1, TopNoted DEF CompleteRequest, At, Operands
  <2>2. completions' \in 0..MaxCompletions /\ result' \in Errors \union {"none"}
    BY <1>1, <2>1, MaxCompletionsAssumption DEF CompleteRequest, Common
  <2> QED  BY <1>1, <2>2 DEF CompleteRequest, Common
<1>2. CASE RequestCallback
  <2>1. Instruction.arg \in DOMAIN Code
    BY <1>2, TopNoted, CalleesAreCode DEF RequestCallback, At, Operands
  <2> QED  BY <1>2, <2>1 DEF RequestCallback, Common
<1>3. CASE Timeout
  BY <1>3 DEF Timeout, Common
<1>4. CASE Fault
  BY <1>4 DEF Fault, Common
<1>5. CASE SetNull \/ SendAnswered \/ SendFails \/ FireCommand \/ FreeResponse
  BY <1>5 DEF SetNull, SendAnswered, SendFails, FireCommand, FreeResponse, Common
<1>6. CASE CallFunction \/ ReturnFromFunction \/ SetTries \/ CountTry \/ Test
  BY <1>6 DEF CallFunction, ReturnFromFunction, SetTries, CountTry, Test, Common
<1> QED  BY <1>1, <1>2, <1>3, <1>4, <1>5, <1>6 DEF Run

\* A stack of one function that starts is in order, and so is an empty one.
LEMMA StartFits ==
    ASSUME Fits, stack' = << >> \/ \E fn \in DOMAIN Code : stack' = <<Frame(fn)>>,
           faults' \subseteq Faulty, leaks' \subseteq Leaky, dishonest' \subseteq Dishonest
    PROVE  Fits'
<1>1. CASE stack' = << >>
  BY <1>1 DEF Fits
<1>2. CASE \E fn \in DOMAIN Code : stack' = <<Frame(fn)>>
  <2>1. PICK fn \in DOMAIN Code : stack' = <<Frame(fn)>>
    BY <1>2
  <2>2. FrameFits(Frame(fn)) /\ Frame(fn) \in Frames
    BY FrameStarts DEF FrameFits
  <2> DEFINE f == Frame(fn)
  <2> HIDE DEF f
  <2>3. stack' = <<f>> /\ FrameFits(f) /\ f \in Frames
    BY <2>1, <2>2 DEF f
  <2>4. stack' \in Seq(Frames) /\ DOMAIN stack' = {1} /\ stack'[1] = f
    BY <2>3
  <2>5. \A i \in DOMAIN stack' : FrameFits(stack'[i])
    BY <2>3, <2>4
  <2> QED  BY <2>4, <2>5 DEF Fits
<1> QED  BY <1>1, <1>2

\* What starts the handling of a request, a line or a callback, or ends it.
Begins ==
    \/ RequestDone
    \/ \E r \in Requests : Request(r)
    \/ \E h \in Unsolicited : Line(h)
    \/ \E fn \in timed : Timed(fn)

\* What a request starts with.
LEMMA RequestStarts ==
    ASSUME Common, NEW r \in Requests, Request(r)
    PROVE  /\ request' = r
           /\ \/ /\ completions' = 0
                 /\ \E h \in DOMAIN Code : stack' = <<Frame(h)>> /\ Serves(h, r)
              \/ completions' = 0 /\ stack' = << >> /\ r \notin DOMAIN Default
              \/ completions' = 1 /\ stack' = << >>
           /\ result' \in Errors \union {"none"}
<1>1. CASE Refuse(r)
  <2>1. PICK i \in Tests : IF i = 2 /\ r = "GET_SIM_STATUS"
           THEN stack' = <<Frame("filterSimStatus")>> /\ completions' = 0 /\ result' = "none"
           ELSE stack' = << >> /\ completions' = 1 /\ result' = FilterError(i, r)
    BY <1>1 DEF Refuse
  <2>2. Serves("filterSimStatus", r)
    BY FilterSimStatusServes
  <2> QED  BY <2>1, <2>2, FilterErrors DEF Request, Serves
<1>2. CASE Accept(r)
  <2>1. modem \in Modems
    BY DEF Common
  <2>2. CASE Handlers(r, modem) = {}
    BY <1>2, <2>1, <2>2, HandlersServe DEF Accept, Request
  <2>3. CASE Handlers(r, modem) # {}
    <3>1. PICK h \in Handlers(r, modem) : stack' = <<Frame(h)>>
      BY <1>2, <2>3 DEF Accept
    <3>2. Serves(h, r)
      BY <2>1, HandlersServe
    <3> QED  BY <1>2, <3>1, <3>2 DEF Accept, Request, Serves
  <2> QED  BY <2>2, <2>3
<1> QED  BY <1>1, <1>2 DEF Request

LEMMA BeginFits == ASSUME Fits, Common, Begins PROVE Fits' /\ Common'
<1>1. CASE RequestDone
  <2>1. stack' = << >> /\ faults' = {} /\ leaks' = {} /\ dishonest' = {}
    BY <1>1 DEF RequestDone, Idle
  <2>2. Common'
    BY <1>1, MaxCompletionsAssumption DEF RequestDone, Common
  <2> QED  BY <2>1, <2>2, StartFits
<1>2. CASE \E r \in Requests : Request(r)
  <2>1. PICK r \in Requests : Request(r)
    BY <1>2
  <2>2. faults' = faults /\ leaks' = leaks /\ dishonest' = dishonest
    BY <2>1 DEF Request
  <2>3. /\ request' = r /\ completions' \in {0, 1} /\ result' \in Errors \union {"none"}
        /\ stack' = << >> \/ \E h \in DOMAIN Code : stack' = <<Frame(h)>>
    BY <2>1, RequestStarts
  <2>4. Common'
    BY <2>1, <2>3, MaxCompletionsAssumption DEF Request, Common
  <2> QED  BY <2>2, <2>3, <2>4, StartFits DEF Fits
<1>3. CASE \E h \in Unsolicited : Line(h)
  <2>1. PICK h \in Unsolicited : Line(h)
    BY <1>3
  <2>2. h \in DOMAIN Code /\ stack' = <<Frame(h)>> /\ Common'
    BY <2>1, UnsolicitedAreCode DEF Line, Common
  <2>3. faults' = faults /\ leaks' = leaks /\ dishonest' = dishonest
    BY <2>1 DEF Line
  <2> QED  BY <2>2, <2>3, StartFits DEF Fits
<1>4. CASE \E fn \in timed : Timed(fn)
  <2>1. PICK fn \in timed : Timed(fn)
    BY <1>4
  <2>2. fn \in DOMAIN Code /\ stack' = <<Frame(fn)>> /\ Common'
    BY <2>1 DEF Timed, Common
  <2>3. faults' = faults /\ leaks' = leaks /\ dishonest' = dishonest
    BY <2>1 DEF Timed
  <2> QED  BY <2>2, <2>3, StartFits DEF Fits
<1> QED  BY <1>1, <1>2, <1>3, <1>4 DEF Begins

\* The invariant: the stack is in order, and everything has its type.
LEMMA FitsInvariant == Spec => [](Fits /\ Common)
<1>1. Init => Fits /\ Common
  <2> SUFFICES ASSUME Init PROVE Fits /\ Common
    OBVIOUS
  <2>1. Fits
    BY DEF Init, Fits
  <2>2. Common
    BY MaxCompletionsAssumption DEF Init, Common
  <2> QED  BY <2>1, <2>2
<1>2. (Fits /\ Common) /\ [Next]_vars => (Fits /\ Common)'
  <2> SUFFICES ASSUME Fits, Common, [Next]_vars PROVE Fits' /\ Common'
    OBVIOUS
  <2>1. CASE Run
    BY <2>1, RunFits, RunCommon
  <2>2. CASE Begins
    BY <2>2, BeginFits
  <2>3. CASE UNCHANGED vars
    BY <2>3 DEF vars, Fits, Common
  <2> QED  BY <2>1, <2>2, <2>3 DEF Next, Begins
<1> QED  BY <1>1, <1>2, PTL DEF Spec

\* Every variable keeps its type.  No handler runs on behind the end of its program,
\* jumps to a label it does not have, or calls a function there is none of.
THEOREM TypeTheorem == Spec => []TypeOK
<1>1. Faulty \subseteq DOMAIN Code /\ Leaky \subseteq DOMAIN Code /\ Dishonest \subseteq DOMAIN Code
  BY DEF Faulty, Leaky, Dishonest, Code
<1>2. Fits /\ Common => TypeOK
  <2> SUFFICES ASSUME Fits, Common PROVE TypeOK
    OBVIOUS
  <2>1. \A i \in DOMAIN stack : stack[i].pc \in DOMAIN Code[stack[i].fn]
    BY DEF Fits, FrameFits
  <2>2. \A s \in {faults, leaks, dishonest} : s \subseteq DOMAIN Code
    BY <1>1 DEF Fits
  <2> QED  BY <2>1, <2>2 DEF TypeOK, Common, Fits, Requests
<1> QED  BY <1>2, FitsInvariant, PTL

\* Only the functions found to do so run into undefined behaviour, whatever the
\* modem answers to whichever of their commands, and however the channel fails.
THEOREM FaultsTheorem == Spec => []KnownFaults
<1>1. Fits => KnownFaults
  BY DEF Fits, Faulty, KnownFaults
<1> QED  BY <1>1, FitsInvariant, PTL

\* Only the functions found to do so lose a response.
THEOREM LeaksTheorem == Spec => []KnownLeaks
<1>1. Fits => KnownLeaks
  BY DEF Fits, Leaky, KnownLeaks
<1> QED  BY <1>1, FitsInvariant, PTL

\* Only the functions found to do so report a success that the modem has refused.
THEOREM HonestTheorem == Spec => []HonestSuccess
<1>1. Fits => HonestSuccess
  BY DEF Fits, Dishonest, HonestSuccess
<1> QED  BY <1>1, FitsInvariant, PTL

(***************************************************************************)
(* Completions.  The frames of a request are the functions that complete   *)
(* requests, one calling the other, below the silent ones.  Only the       *)
(* uppermost of the former tells how often the request has been completed; *)
(* those below it will have been when the call they wait for returns.      *)
(***************************************************************************)
\* c completions of request r are what frame f says.
Counted(f, r, c) ==
    IF r \in Repeaters
    THEN (Mark(f) = "yes" => c >= 1) /\ (Mark(f) = "tries" => c >= 1 \/ f.n >= 1)
    ELSE c = IF Mark(f) = "yes" THEN 1 ELSE 0

Loud(f) == f.fn \notin Silent

\* Frame i of stack s waits for a function that completes the request.
Waits(s, i) == i + 1 \in DOMAIN s /\ Loud(s[i + 1])

Tallied(s, i, r, c) ==
    Loud(s[i]) => /\ s[i].fn \in Repeating => r \in Repeaters
                  /\ Waits(s, i) => Mark(s[i]) = "yes" \/ s[i].fn \in Repeating
                  /\ ~Waits(s, i) => Counted(s[i], r, c)

\* Stack s serves request r, which was completed c times.
Serving(s, r, c) ==
    /\ s # << >> /\ Loud(s[1])
    /\ \A i, j \in DOMAIN s : i < j /\ Loud(s[j]) => Loud(s[i])
    /\ \A i \in DOMAIN s : Tallied(s, i, r, c)
    /\ c > 1 => r \in Repeaters

Tally ==
    IF request \in Requests
    THEN \/ Serving(stack, request, completions)
         \/ /\ stack = << >> /\ completions \in Nat
            /\ request \in DOMAIN Default => completions >= 1
            /\ completions > 1 => request \in Repeaters
    ELSE completions = 0

\* A weaker mark counts no more.
LEMMA CountedLess ==
    ASSUME NEW f, NEW g, NEW r, NEW c, Counted(f, r, c), g.n = f.n,
           WeakerMark(f.fn, Mark(f), Mark(g)), f.fn \in Repeating => r \in Repeaters
    PROVE  Counted(g, r, c)
BY DEF Counted, WeakerMark

\* What the marks say of the instruction of the top frame.
LEMMA TopMarked ==
    ASSUME Fits, stack # << >>
    PROVE  /\ ~Loud(Top) => ~Completes(Instruction)
           /\ Loud(Top) =>
                /\ Mark(Top) \in {"no", "yes"} \/ (Mark(Top) = "tries" /\ Top.fn \in Repeating)
                /\ Instruction.op \notin Ending =>
                     Counts(Top.fn, Instruction, Mark(Top), MarkOf(Top.fn)[Top.pc + 1])
                /\ Instruction.op # "label" /\ Instruction.to # "none" =>
                     CountsJump(Top.fn, Instruction, Mark(Top), MarkOf(Top.fn)[Place(Instruction.to)])
                /\ Instruction.op = "return" => Mark(Top) = "yes"
<1>1. Top \in Frames /\ FrameFits(Top)
  BY TopNoted
<1>2. Top.fn \in DOMAIN Code /\ Top.pc \in DOMAIN Code[Top.fn]
  BY <1>1 DEF FrameFits, Frames
<1>3. Marked(Top.fn, Code[Top.fn], MarkOf(Top.fn))
  BY <1>2, NotesFit
<1>4. Instruction = Code[Top.fn][Top.pc] /\ Mark(Top) = MarkOf(Top.fn)[Top.pc]
  BY DEF Instruction, Mark
<1>5. CASE ~Loud(Top)
  BY <1>2, <1>3, <1>4, <1>5 DEF Marked, Loud
<1>6. CASE Loud(Top)
  <2>1. MarksAt(Top.fn, Code[Top.fn], MarkOf(Top.fn), Top.pc)
    BY <1>2, <1>3, <1>6 DEF Marked, Loud
  <2>2. Instruction.op # "label" /\ Instruction.to # "none" =>
          /\ Place(Instruction.to) \in DOMAIN Code[Top.fn]
          /\ LabelAt(Code[Top.fn], Place(Instruction.to), Instruction.to)
    BY TopNoted
  <2> QED  BY <1>4, <1>6, <2>1, <2>2 DEF MarksAt
<1> QED  BY <1>5, <1>6

\* A function starts with nothing completed.
LEMMA StartsUnmarked ==
    ASSUME NEW fn \in DOMAIN Code, Loud(Frame(fn))
    PROVE  Mark(Frame(fn)) = "no"
<1>1. Marked(fn, Code[fn], MarkOf(fn))
  BY NotesFit
<1>2. Frame(fn).fn = fn /\ Frame(fn).pc = 1
  BY DEF Frame
<1> QED  BY <1>1, <1>2 DEF Marked, Mark, Loud

(***************************************************************************)
(* What is done to the stack keeps the tally.                              *)
(***************************************************************************)
\* The top frame becomes g.
LEMMA TopTallied ==
    ASSUME NEW s \in Seq(Frames), NEW r, NEW c, Serving(s, r, c),
           NEW t \in Seq(Frames), DOMAIN t = DOMAIN s, NEW g, t[Len(s)] = g,
           \A i \in DOMAIN s : i # Len(s) => t[i] = s[i],
           g.fn = s[Len(s)].fn, NEW d, Loud(g) => Counted(g, r, d), Loud(g) \/ d = c,
           d > 1 => r \in Repeaters
    PROVE  Serving(t, r, d)
<1> DEFINE n == Len(s)
<1>1. n \in Nat \ {0} /\ DOMAIN s = 1..n
  BY EmptySeq, LenProperties DEF Serving
<1> HIDE DEF n
<1>2. t[n] = g /\ g.fn = s[n].fn /\ \A i \in 1..n : i # n => t[i] = s[i]
  BY <1>1 DEF n
<1>3. \A i \in 1..n : t[i].fn = s[i].fn /\ (Loud(t[i]) <=> Loud(s[i]))
  BY <1>2 DEF Loud
<1>4. \A i \in 1..n : Waits(t, i) <=> Waits(s, i)
  BY <1>1, <1>3 DEF Waits
<1>5. \A i \in 1..n : Tallied(t, i, r, d)
  <2> TAKE i \in 1..n
  <2>1. Tallied(s, i, r, c)
    BY <1>1 DEF Serving
  <2>2. CASE i = n
    <3>1. ~Waits(t, i)
      BY <1>1, <2>2 DEF Waits
    <3> QED  BY <1>2, <1>3, <2>1, <2>2, <3>1 DEF Tallied
  <2>3. CASE i # n
    <3>1. t[i] = s[i]
      BY <1>2, <2>3
    <3>2. Loud(s[i]) /\ ~Waits(s, i) => d = c
      <4> SUFFICES ASSUME Loud(s[i]), ~Waits(s, i), Loud(g) PROVE FALSE
        OBVIOUS
      <4>1. Loud(s[n]) /\ i + 1 \in 1..n
        BY <1>1, <1>2, <2>3 DEF Loud
      <4>2. Loud(s[i + 1])
        BY <1>1, <4>1 DEF Serving
      <4> QED  BY <1>1, <4>1, <4>2 DEF Waits
    <3> QED  BY <1>4, <2>1, <3>1, <3>2 DEF Tallied
  <2> QED  BY <2>2, <2>3
<1>6. t # << >> /\ Loud(t[1])
  BY <1>1, <1>3 DEF Serving
<1>7. \A i, j \in DOMAIN t : i < j /\ Loud(t[j]) => Loud(t[i])
  BY <1>1, <1>3 DEF Serving
<1> QED  BY <1>1, <1>5, <1>6, <1>7 DEF Serving

\* The top frame becomes g, and h is put on it.
LEMMA CallTallied ==
    ASSUME NEW s \in Seq(Frames), NEW r, NEW c, Serving(s, r, c),
           NEW t \in Seq(Frames), DOMAIN t = 1..Len(s) + 1, NEW g, NEW h,
           t[Len(s)] = g, t[Len(s) + 1] = h,
           \A i \in DOMAIN s : i # Len(s) => t[i] = s[i],
           g.fn = s[Len(s)].fn,
           ~Loud(h) => (Loud(g) => Counted(g, r, c)),
           Loud(h) => /\ Loud(g) /\ (Mark(g) = "yes" \/ g.fn \in Repeating)
                      /\ h.fn \notin Repeating /\ Counted(h, r, c)
    PROVE  Serving(t, r, c)
<1> DEFINE n == Len(s)
<1>1. n \in Nat \ {0} /\ DOMAIN s = 1..n /\ DOMAIN t = 1..n + 1
  BY EmptySeq, LenProperties DEF Serving
<1> HIDE DEF n
<1>2. t[n] = g /\ t[n + 1] = h /\ g.fn = s[n].fn /\ \A i \in 1..n : i # n => t[i] = s[i]
  BY <1>1 DEF n
<1>3. \A i \in 1..n : t[i].fn = s[i].fn /\ (Loud(t[i]) <=> Loud(s[i]))
  BY <1>2 DEF Loud
<1>4. \A i \in 1..n : i # n => (Waits(t, i) <=> Waits(s, i))
  BY <1>1, <1>3 DEF Waits
<1>5. ASSUME NEW i \in 1..n + 1 PROVE Tallied(t, i, r, c)
  <2>1. CASE i = n + 1
    <3>1. ~Waits(t, i)
      BY <1>1, <2>1 DEF Waits
    <3> QED  BY <1>2, <2>1, <3>1 DEF Tallied
  <2>2. CASE i = n
    <3>1. Waits(t, i) <=> Loud(h)
      BY <1>1, <1>2, <2>2 DEF Waits
    <3>2. Tallied(s, i, r, c)
      BY <1>1, <2>2 DEF Serving
    <3> QED  BY <1>1, <1>2, <1>3, <2>2, <3>1, <3>2 DEF Tallied
  <2>3. CASE i \in 1..n /\ i # n
    <3>1. t[i] = s[i] /\ Tallied(s, i, r, c) /\ (Waits(t, i) <=> Waits(s, i))
      BY <1>1, <1>2, <1>4, <2>3 DEF Serving
    <3> QED  BY <3>1 DEF Tallied
  <2> QED  BY <1>1, <2>1, <2>2, <2>3
<1>6. t # << >> /\ Loud(t[1])
  BY <1>1, <1>3 DEF Serving
<1>7. \A i, j \in DOMAIN t : i < j /\ Loud(t[j]) => Loud(t[i])
  <2> SUFFICES ASSUME NEW i \in 1..n + 1, NEW j \in 1..n + 1, i < j, Loud(t[j]) PROVE Loud(t[i])
    BY <1>1
  <2>1. i \in 1..n
    BY <1>1
  <2>2. CASE j = n + 1
    <3>1. Loud(s[n])
      BY <1>1, <1>2, <2>2 DEF Loud
    <3> QED  BY <1>1, <1>3, <2>1, <3>1 DEF Serving
  <2>3. CASE j \in 1..n
    BY <1>1, <1>3, <2>1, <2>3 DEF Serving
  <2> QED  BY <1>1, <2>2, <2>3
<1> QED  BY <1>1, <1>5, <1>6, <1>7 DEF Serving

\* The top frame is taken off, and g is what becomes of the frame below it.
LEMMA ReturnTallied ==
    ASSUME NEW s \in Seq(Frames), NEW r, NEW c \in Nat, Serving(s, r, c),
           Len(s) > 1, Loud(s[Len(s)]) => Mark(s[Len(s)]) = "yes",
           NEW t \in Seq(Frames), DOMAIN t = 1..Len(s) - 1, NEW g, t[Len(s) - 1] = g,
           \A i \in 1..Len(s) - 1 : i # Len(s) - 1 => t[i] = s[i],
           g.fn = s[Len(s) - 1].fn, g.pc = s[Len(s) - 1].pc, g.n = s[Len(s) - 1].n
    PROVE  Serving(t, r, c)
<1> DEFINE n == Len(s)
           m == Len(s) - 1
<1>1. n \in Nat \ {0} /\ m \in Nat \ {0} /\ n = m + 1 /\ DOMAIN s = 1..n /\ DOMAIN t = 1..m
  BY EmptySeq, LenProperties DEF Serving
<1> HIDE DEF n, m
<1>2. t[m] = g /\ g.fn = s[m].fn /\ g.pc = s[m].pc /\ g.n = s[m].n
      /\ \A i \in 1..m : i # m => t[i] = s[i]
  BY <1>1 DEF n, m
<1>3. \A i \in 1..m : t[i].fn = s[i].fn /\ (Loud(t[i]) <=> Loud(s[i]))
  BY <1>2 DEF Loud
<1>4. ASSUME NEW i \in 1..m PROVE Tallied(t, i, r, c)
  <2>1. Tallied(s, i, r, c)
    BY <1>1 DEF Serving
  <2>2. CASE i # m
    <3>1. t[i] = s[i] /\ (Waits(t, i) <=> Waits(s, i))
      BY <1>1, <1>2, <1>3, <2>2 DEF Waits
    <3> QED  BY <2>1, <3>1 DEF Tallied
  <2>3. CASE i = m
    <3>1. ~Waits(t, i)
      BY <1>1, <2>3 DEF Waits
    <3>2. Mark(g) = Mark(s[m]) /\ g.n = s[m].n
      BY <1>2 DEF Mark
    <3>3. Counted(s[m], r, c) => Counted(g, r, c)
      BY <3>2 DEF Counted
    <3>4. SUFFICES ASSUME Loud(s[m]) PROVE Counted(s[m], r, c)
      BY <1>2, <1>3, <2>1, <2>3, <3>1, <3>3 DEF Tallied
    <3>5. CASE ~Loud(s[n])
      <4>1. ~Waits(s, m)
        BY <1>1, <3>5 DEF Waits
      <4> QED  BY <2>1, <2>3, <3>4, <4>1 DEF Tallied
    <3>6. CASE Loud(s[n])
      <4>1. Waits(s, m) /\ ~Waits(s, n)
        BY <1>1, <3>6 DEF Waits
      <4>2. Mark(s[m]) = "yes" \/ (s[m].fn \in Repeating /\ r \in Repeaters)
        BY <2>1, <2>3, <3>4, <4>1 DEF Tallied
      <4>3. Tallied(s, n, r, c)
        BY <1>1 DEF Serving
      <4>4. Counted(s[n], r, c) /\ Mark(s[n]) = "yes"
        BY <3>6, <4>1, <4>3 DEF Tallied, n
      <4> QED  BY <4>2, <4>4 DEF Counted
    <3> QED  BY <3>5, <3>6
  <2> QED  BY <2>2, <2>3
<1>5. t # << >> /\ Loud(t[1])
  BY <1>1, <1>3 DEF Serving
<1>6. \A i, j \in DOMAIN t : i < j /\ Loud(t[j]) => Loud(t[i])
  BY <1>1, <1>3 DEF Serving
<1> QED  BY <1>1, <1>4, <1>5, <1>6 DEF Serving

(***************************************************************************)
(* Each step keeps the tally.                                              *)
(***************************************************************************)
\* The uppermost function that completes the request tells how often it was.
LEMMA TopCounted ==
    ASSUME Fits, NEW r, NEW c, Serving(stack, r, c), Loud(Top)
    PROVE  (Top.fn \in Repeating => r \in Repeaters) /\ Counted(Top, r, c)
<1>1. stack # << >> /\ stack \in Seq(Frames)
  BY DEF Serving, Fits
<1>2. Len(stack) \in Nat \ {0} /\ DOMAIN stack = 1..Len(stack) /\ Top = stack[Len(stack)]
  BY <1>1, EmptySeq, LenProperties DEF Top
<1>3. Tallied(stack, Len(stack), r, c) /\ ~Waits(stack, Len(stack))
  BY <1>2 DEF Serving, Waits
<1> QED  BY <1>2, <1>3 DEF Tallied

\* What is put on top of frames to make a stack of frames is one.
LEMMA SetTopElement ==
    ASSUME stack \in Seq(Frames), stack # << >>, NEW g, SetTop(g) \in Seq(Frames)
    PROVE  g \in Frames
<1>1. Len(stack) \in DOMAIN stack
  BY EmptySeq, LenProperties
<1>2. DOMAIN SetTop(g) = DOMAIN stack /\ SetTop(g)[Len(stack)] = g
  BY <1>1 DEF SetTop
<1>3. DOMAIN SetTop(g) = 1..Len(SetTop(g))
  BY LenProperties
<1> QED  BY <1>1, <1>2, <1>3, ElementOfSeq

\* The top frame is replaced.
LEMMA ReplaceTally ==
    ASSUME Fits, request \in Requests, Serving(stack, request, completions),
           NEW g \in Frames, stack' = SetTop(g), g.fn = Top.fn, request' = request,
           Loud(g) => Counted(g, request, completions'), Loud(g) \/ completions' = completions,
           completions' > 1 => request \in Repeaters
    PROVE  Tally'
<1>1. stack # << >> /\ stack \in Seq(Frames)
  BY DEF Serving, Fits
<1>2. Len(stack) \in Nat \ {0} /\ DOMAIN stack = 1..Len(stack) /\ Top = stack[Len(stack)]
  BY <1>1, EmptySeq, LenProperties DEF Top
<1>3. SetTop(g) \in Seq(Frames) /\ Len(SetTop(g)) = Len(stack)
      /\ \A i \in 1..Len(stack) : SetTop(g)[i] = IF i = Len(stack) THEN g ELSE stack[i]
  BY <1>1, <1>2, ExceptSeq DEF SetTop
<1> DEFINE t == SetTop(g)
           d == completions'
<1> HIDE DEF t, d
<1>4. /\ t \in Seq(Frames) /\ DOMAIN t = DOMAIN stack /\ t[Len(stack)] = g
      /\ \A i \in DOMAIN stack : i # Len(stack) => t[i] = stack[i]
  <2>1. t \in Seq(Frames) /\ Len(t) = Len(stack)
        /\ \A i \in 1..Len(stack) : t[i] = IF i = Len(stack) THEN g ELSE stack[i]
    BY <1>3 DEF t
  <2>2. DOMAIN t = 1..Len(stack)
    BY <2>1, LenProperties
  <2>3. t[Len(stack)] = g
    <3>1. Len(stack) \in 1..Len(stack)
      BY <1>2
    <3> QED  BY <2>1, <3>1
  <2>4. \A i \in 1..Len(stack) : i # Len(stack) => t[i] = stack[i]
    BY <2>1
  <2> QED  BY <1>2, <2>1, <2>2, <2>3, <2>4
<1>5. Serving(t, request, d)
  BY <1>1, <1>2, <1>4, TopTallied DEF d
<1> QED  BY <1>5 DEF Tally, t, d

\* A step to the next instruction that completes nothing and leaves the tries alone.
LEMMA AdvanceTally ==
    ASSUME Fits, request \in Requests, Serving(stack, request, completions),
           Instruction.op \notin Ending \union {"complete", "call", "set", "countdown"},
           NEW g \in Frames, stack' = SetTop(g), g.fn = Top.fn, g.pc = Top.pc + 1, g.n = Top.n,
           request' = request, completions' = completions
    PROVE  Tally'
<1>1. stack # << >> /\ (completions > 1 => request \in Repeaters)
  BY DEF Serving
<1>2. ASSUME Loud(g) PROVE Counted(g, request, completions)
  <2>1. Loud(Top)
    BY <1>2 DEF Loud
  <2>2. Counts(Top.fn, Instruction, Mark(Top), MarkOf(Top.fn)[Top.pc + 1])
    BY <1>1, <2>1, TopMarked
  <2>3. WeakerMark(Top.fn, Mark(Top), Mark(g))
    BY <2>2 DEF Counts, Completes, Mark
  <2> QED  BY <2>1, <2>3, TopCounted, CountedLess
<1> QED  BY <1>1, <1>2, ReplaceTally

\* A jump of a test.
LEMMA JumpTally ==
    ASSUME Fits, request \in Requests, Serving(stack, request, completions),
           Instruction.op \notin {"label", "countdown"}, Instruction.to # "none",
           stack' = SetTop([Top EXCEPT !.pc = Place(Instruction.to)]),
           request' = request, completions' = completions
    PROVE  Tally'
<1> DEFINE g == [Top EXCEPT !.pc = Place(Instruction.to)]
<1>1. stack # << >> /\ (completions > 1 => request \in Repeaters)
  BY DEF Serving
<1>2. FrameFits(g) /\ g \in Frames
  BY <1>1, JumpFits DEF FrameFits
<1>3. g.fn = Top.fn /\ g.n = Top.n /\ g.pc = Place(Instruction.to)
  BY <1>1, TopNoted DEF Frames
<1> HIDE DEF g
<1>4. ASSUME Loud(g) PROVE Counted(g, request, completions)
  <2>1. Loud(Top)
    BY <1>3, <1>4 DEF Loud
  <2>2. CountsJump(Top.fn, Instruction, Mark(Top), MarkOf(Top.fn)[Place(Instruction.to)])
    BY <1>1, <2>1, TopMarked
  <2>3. WeakerMark(Top.fn, Mark(Top), Mark(g))
    BY <1>3, <2>2 DEF CountsJump, Mark
  <2> QED  BY <1>3, <2>1, <2>3, TopCounted, CountedLess
<1>5. stack' = SetTop(g)
  BY DEF g
<1> QED  BY <1>1, <1>2, <1>3, <1>4, <1>5, ReplaceTally

\* A step that goes on or jumps.
LEMMA FollowTally ==
    ASSUME Fits, request \in Requests, Serving(stack, request, completions),
           NEW taken \in BOOLEAN, stack' = Follow(taken),
           taken => Instruction.op \notin {"label", "countdown"} /\ Instruction.to # "none",
           ~taken => Instruction.op \notin Ending \union {"complete", "call", "set", "countdown"},
           request' = request, completions' = completions
    PROVE  Tally'
<1>1. stack # << >>
  BY DEF Serving
<1>2. CASE taken
  BY <1>2, JumpTally DEF Follow
<1>3. CASE ~taken
  <2> DEFINE g == Next1(Top)
  <2>1. Instruction.op \notin Ending \union {"complete", "call", "set", "countdown"}
    BY <1>3
  <2>2. g \in Frames /\ g.fn = Top.fn /\ g.pc = Top.pc + 1 /\ g.n = Top.n
    BY <1>1, <2>1, NextTop
  <2>3. stack' = SetTop(g)
    BY <1>3 DEF Follow
  <2> HIDE DEF g
  <2> QED  BY <2>1, <2>2, <2>3, AdvanceTally
<1> QED  BY <1>2, <1>3

LEMMA TestTally ==
    ASSUME Fits, request \in Requests, Serving(stack, request, completions), Test
    PROVE  Tally'
<1>1. stack # << >> /\ request' = request /\ completions' = completions
  BY DEF Test
<1>2. PICK taken \in Outcomes : stack' = Follow(taken)
  BY DEF Test
<1>3. Top \in Frames /\ Operands(Instruction)
  BY <1>1, TopNoted
<1>4. taken \in BOOLEAN /\ (taken => Instruction.op \in Jumping)
      /\ Instruction.op \notin {"complete", "call", "set", "countdown"}
      /\ (~taken => Instruction.op \notin Ending)
  <2>1. Instruction.op \notin {"complete", "call", "set", "countdown"}
    BY <1>2 DEF Outcomes
  <2> QED  BY <1>3, <2>1, OutcomesTell
<1>5. taken => Instruction.op \notin {"label", "countdown"} /\ Instruction.to # "none"
  BY <1>3, <1>4 DEF Operands, Jumping
<1> QED  BY <1>1, <1>2, <1>4, <1>5, FollowTally

LEMMA FaultTally ==
    ASSUME Fits, request \in Requests, Serving(stack, request, completions), Fault
    PROVE  Tally'
<1>1. stack # << >> /\ Undefined /\ request' = request /\ completions' = completions
  BY DEF Fault
<1>2. CASE stack' = stack
  BY <1>1, <1>2 DEF Tally
<1>3. CASE ~MustCrash /\ \E taken \in IF Instruction.to = "none" THEN {FALSE} ELSE BOOLEAN :
                            stack' = Follow(taken)
  <2>1. PICK taken \in IF Instruction.to = "none" THEN {FALSE} ELSE BOOLEAN :
          stack' = Follow(taken)
    BY <1>3
  <2>2. Instruction.op \in {"wild", "free", "failure"} \union Reads
    BY <1>1, <1>3 DEF Undefined, MustCrash, Dereferences, Reads
  <2>3. Instruction.op \notin Ending \union {"complete", "call", "set", "countdown", "label"}
    BY <2>2 DEF Ending, Reads, ReadsLine
  <2>4. taken \in BOOLEAN /\ (taken => Instruction.to # "none")
    BY <2>1
  <2> QED  BY <1>1, <2>1, <2>3, <2>4, FollowTally
<1> QED  BY <1>2, <1>3 DEF Fault

\* Effects on the response.
LEMMA ResponseTally ==
    ASSUME Fits, request \in Requests, Serving(stack, request, completions),
           SetNull \/ SendAnswered \/ SendFails \/ FireCommand \/ FreeResponse
    PROVE  Tally'
<1>1. /\ stack # << >> /\ request' = request /\ completions' = completions
      /\ Instruction.op \in {"null", "send", "fire", "free"}
  BY DEF SetNull, SendAnswered, SendFails, FireCommand, FreeResponse, At
<1>2. Instruction.op \notin Ending \union {"complete", "call", "set", "countdown"}
  BY <1>1 DEF Ending
<1>3. /\ Next1(Top) \in Frames /\ Next1(Top).fn = Top.fn /\ Next1(Top).pc = Top.pc + 1
      /\ Next1(Top).n = Top.n
  BY <1>1, <1>2, NextTop
<1>4. ASSUME NEW g, stack' = SetTop(g), g.fn = Top.fn, g.pc = Top.pc + 1, g.n = Top.n
      PROVE  Tally'
  <2>1. stack' \in Seq(Frames)
    BY RunFits DEF Run, Fits
  <2>2. g \in Frames
    BY <1>1, <1>4, <2>1, SetTopElement DEF Fits
  <2> QED  BY <1>1, <1>2, <1>4, <2>2, AdvanceTally
<1>5. CASE SetNull
  <2> DEFINE g == [Next1(Top) EXCEPT !.p = Nothing("NULL")]
  <2>1. stack' = SetTop(g) /\ g.fn = Top.fn /\ g.pc = Top.pc + 1 /\ g.n = Top.n
    BY <1>3, <1>5 DEF SetNull, Frames
  <2> HIDE DEF g
  <2> QED  BY <1>4, <2>1
<1>6. CASE SendAnswered
  <2>1. PICK p \in Answers(Instruction.arg), closed \in BOOLEAN :
           stack' = SetTop([Next1(Top) EXCEPT
                      !.p = IF ~closed /\ NeedsLine(Instruction.arg, p) THEN Nothing("NULL") ELSE p,
                      !.err = closed \/ NeedsLine(Instruction.arg, p),
                      !.answer = p.final])
    BY <1>6 DEF SendAnswered
  <2> DEFINE q == IF ~closed /\ NeedsLine(Instruction.arg, p) THEN Nothing("NULL") ELSE p
             e == closed \/ NeedsLine(Instruction.arg, p)
             g == [Next1(Top) EXCEPT !.p = q, !.err = e, !.answer = p.final]
  <2>2. stack' = SetTop(g)
    BY <2>1
  <2> HIDE DEF q, e
  <2>3. g.fn = Top.fn /\ g.pc = Top.pc + 1 /\ g.n = Top.n
    BY <1>3 DEF Frames
  <2> HIDE DEF g
  <2> QED  BY <1>4, <2>2, <2>3
<1>7. CASE SendFails
  <2> DEFINE g == [Next1(Top) EXCEPT !.err = TRUE, !.answer = "none"]
  <2>1. stack' = SetTop(g) /\ g.fn = Top.fn /\ g.pc = Top.pc + 1 /\ g.n = Top.n
    BY <1>3, <1>7 DEF SendFails, Frames
  <2> HIDE DEF g
  <2> QED  BY <1>4, <2>1
<1>8. CASE FireCommand
  <2>1. PICK e \in BOOLEAN : stack' = SetTop([Next1(Top) EXCEPT !.err = e])
    BY <1>8 DEF FireCommand
  <2> DEFINE g == [Next1(Top) EXCEPT !.err = e]
  <2>2. stack' = SetTop(g) /\ g.fn = Top.fn /\ g.pc = Top.pc + 1 /\ g.n = Top.n
    BY <1>3, <2>1 DEF Frames
  <2> HIDE DEF g
  <2> QED  BY <1>4, <2>2
<1>9. CASE FreeResponse
  <2> DEFINE q == IF Live(Next1(Top).p) THEN Nothing("freed") ELSE Next1(Top).p
             g == [Next1(Top) EXCEPT !.p = q]
  <2>1. stack' = SetTop(g)
    BY <1>9 DEF FreeResponse
  <2> HIDE DEF q
  <2>2. g.fn = Top.fn /\ g.pc = Top.pc + 1 /\ g.n = Top.n
    BY <1>3 DEF Frames
  <2> HIDE DEF g
  <2> QED  BY <1>4, <2>1, <2>2
<1> QED  BY <1>5, <1>6, <1>7, <1>8, <1>9

LEMMA CompleteTally ==
    ASSUME Fits, Common, request \in Requests, Serving(stack, request, completions),
           CompleteRequest
    PROVE  Tally'
<1> DEFINE g == Next1(Top)
<1>1. /\ stack # << >> /\ Instruction.op = "complete" /\ Instruction.op \notin Ending
      /\ stack' = SetTop(g) /\ request' = request
      /\ completions' = IF completions < MaxCompletions THEN completions + 1 ELSE completions
      /\ (completions > 1 => request \in Repeaters)
  BY DEF CompleteRequest, At, Ending, Serving
<1>2. g \in Frames /\ g.fn = Top.fn /\ g.pc = Top.pc + 1 /\ g.n = Top.n
  BY <1>1, NextTop
<1>3. Loud(Top)
  BY <1>1, TopMarked DEF Completes
<1>4. (Top.fn \in Repeating => request \in Repeaters) /\ Counted(Top, request, completions)
  BY <1>3, TopCounted
<1> HIDE DEF g
<1>5. WeakerMark(Top.fn, "yes", Mark(g)) /\ (Mark(Top) = "no" \/ Top.fn \in Repeating)
  <2>1. Counts(Top.fn, Instruction, Mark(Top), MarkOf(Top.fn)[Top.pc + 1])
    BY <1>1, <1>3, TopMarked
  <2> QED  BY <1>1, <1>2, <2>1 DEF Counts, Completes, Mark
<1>6. completions \in Nat /\ MaxCompletions \in Nat /\ MaxCompletions >= 2
  BY MaxCompletionsAssumption DEF Common
<1>7. CASE request \in Repeaters
  <2>1. completions' >= 1
    BY <1>1, <1>6
  <2>2. Counted(g, request, completions')
    BY <1>7, <2>1 DEF Counted
  <2>3. Loud(g)
    BY <1>2, <1>3 DEF Loud
  <2> QED  BY <1>1, <1>2, <1>7, <2>2, <2>3, ReplaceTally
<1>8. CASE request \notin Repeaters
  <2>1. Mark(Top) = "no" /\ Mark(g) = "yes"
    BY <1>4, <1>5, <1>8 DEF WeakerMark
  <2>2. completions = 0
    BY <1>4, <1>8, <2>1 DEF Counted
  <2>3. completions' = 1
    BY <1>1, <1>6, <2>2
  <2>4. Counted(g, request, completions')
    BY <1>8, <2>1, <2>3 DEF Counted
  <2>5. Loud(g)
    BY <1>2, <1>3 DEF Loud
  <2> QED  BY <1>1, <1>2, <2>3, <2>4, <2>5, ReplaceTally
<1> QED  BY <1>7, <1>8

\* No function that is called completes a request twice.
LEMMA CalleesOnce == Callees \cap Repeating = {}
BY DEF Callees, Repeating

LEMMA CallTally ==
    ASSUME Fits, request \in Requests, Serving(stack, request, completions), CallFunction
    PROVE  Tally'
<1> DEFINE g == Next1(Top)
           h == Frame(Instruction.arg)
           t == Append(SetTop(g), h)
<1>1. /\ stack # << >> /\ Instruction.op = "call" /\ Instruction.op \notin Ending
      /\ stack' = t /\ request' = request /\ completions' = completions
  BY DEF CallFunction, At, Ending, Serving
<1>2. g \in Frames /\ g.fn = Top.fn /\ g.pc = Top.pc + 1 /\ g.n = Top.n /\ FrameFits(g)
  BY <1>1, NextTop, GoesOnFits
<1>3. Instruction.arg \in DOMAIN Code /\ Instruction.arg \notin Repeating
  BY <1>1, TopNoted, CalleesAreCode, CalleesOnce DEF Operands
<1>4. h \in Frames /\ h.fn = Instruction.arg
  BY <1>3, FrameStarts DEF FrameFits
<1>5. Loud(h) => Mark(h) = "no"
  BY <1>3, StartsUnmarked
<1> HIDE DEF g, h
<1>6. stack \in Seq(Frames) /\ Len(stack) \in Nat \ {0} /\ DOMAIN stack = 1..Len(stack)
      /\ Top = stack[Len(stack)]
  BY <1>1, EmptySeq, LenProperties DEF Fits, Top
<1>7. SetTop(g) \in Seq(Frames) /\ Len(SetTop(g)) = Len(stack)
      /\ SetTop(g)[Len(stack)] = g
      /\ \A i \in DOMAIN stack : i # Len(stack) => SetTop(g)[i] = stack[i]
  BY <1>1, <1>2, Replaced
<1>8. t \in Seq(Frames) /\ DOMAIN t = 1..Len(stack) + 1 /\ t[Len(stack) + 1] = h
      /\ \A i \in 1..Len(stack) : t[i] = SetTop(g)[i]
  BY <1>4, <1>7, AppendProperties, LenProperties
<1> HIDE DEF t
<1>9. t[Len(stack)] = g /\ \A i \in DOMAIN stack : i # Len(stack) => t[i] = stack[i]
  <2>1. Len(stack) \in 1..Len(stack)
    BY <1>6
  <2> QED  BY <1>6, <1>7, <1>8, <2>1
<1>10. Loud(Top) => /\ Counts(Top.fn, Instruction, Mark(Top), Mark(g))
                    /\ Top.fn \in Repeating => request \in Repeaters
                    /\ Counted(Top, request, completions)
  BY <1>1, <1>2, TopMarked, TopCounted DEF Mark
<1>11. ~Loud(h) => (Loud(g) => Counted(g, request, completions))
  <2> SUFFICES ASSUME ~Loud(h), Loud(g) PROVE Counted(g, request, completions)
    OBVIOUS
  <2>1. Loud(Top) /\ ~Completes(Instruction)
    BY <1>1, <1>2, <1>4 DEF Loud, Completes
  <2>2. WeakerMark(Top.fn, Mark(Top), Mark(g))
    BY <1>1, <1>10, <2>1 DEF Counts
  <2> QED  BY <1>2, <1>10, <2>1, <2>2, CountedLess
<1>12. Loud(h) => /\ Loud(g) /\ (Mark(g) = "yes" \/ g.fn \in Repeating)
                  /\ h.fn \notin Repeating /\ Counted(h, request, completions)
  <2> SUFFICES ASSUME Loud(h)
               PROVE  /\ Loud(g) /\ (Mark(g) = "yes" \/ g.fn \in Repeating)
                      /\ h.fn \notin Repeating /\ Counted(h, request, completions)
    OBVIOUS
  <2>1. Completes(Instruction)
    BY <1>1, <1>4 DEF Loud, Completes
  <2>2. Loud(Top) /\ Loud(g)
    BY <1>1, <1>2, <2>1, TopMarked DEF Loud
  <2>3. WeakerMark(Top.fn, "yes", Mark(g)) /\ (Mark(Top) = "no" \/ Top.fn \in Repeating)
    BY <1>1, <1>10, <2>1, <2>2 DEF Counts
  <2>4. Mark(g) = "yes" \/ g.fn \in Repeating
    BY <1>2, <2>3 DEF WeakerMark
  <2>5. Counted(h, request, completions)
    BY <1>5, <1>10, <2>2, <2>3 DEF Counted
  <2> QED  BY <1>3, <1>4, <2>2, <2>4, <2>5
<1>13. Serving(t, request, completions)
  BY <1>1, <1>2, <1>6, <1>8, <1>9, <1>11, <1>12, CallTallied
<1> QED  BY <1>1, <1>13 DEF Tally

LEMMA ReturnTally ==
    ASSUME Fits, Common, request \in Requests, Serving(stack, request, completions),
           ReturnFromFunction
    PROVE  Tally'
<1> DEFINE n == Len(stack)
           rest == SubSeq(stack, 1, n - 1)
           l == Len(rest)
           g == [rest[l] EXCEPT !.returned = Instruction.arg]
<1>1. /\ stack # << >> /\ Instruction.op = "return"
      /\ stack' = IF rest = << >> THEN rest
                  ELSE [rest EXCEPT ![l].returned = Instruction.arg]
      /\ request' = request /\ completions' = completions
  BY DEF ReturnFromFunction, At
<1>2. Loud(Top) => Mark(Top) = "yes"
  BY <1>1, TopMarked
<1>3. /\ stack \in Seq(Frames) /\ n \in Nat \ {0} /\ DOMAIN stack = 1..n /\ Top = stack[n]
      /\ rest \in Seq(Frames) /\ l = n - 1 /\ DOMAIN rest = 1..n - 1
      /\ \A i \in 1..n - 1 : rest[i] = stack[i]
      /\ rest = << >> <=> n = 1
  BY <1>1, RestOf DEF Fits, Top
<1>4. Fits'
  BY RunFits DEF Run
<1> HIDE DEF rest
<1>5. completions \in Nat /\ (completions > 1 => request \in Repeaters)
  BY DEF Common, Serving
<1>6. CASE rest = << >>
  <2>1. Loud(Top)
    BY <1>3, <1>6 DEF Serving
  <2>2. completions >= 1
    BY <1>2, <1>5, <2>1, TopCounted DEF Counted
  <2> QED  BY <1>1, <1>5, <1>6, <2>2 DEF Tally
<1>7. CASE rest # << >>
  <2>1. l \in 1..n - 1 /\ n > 1
    BY <1>3, <1>7
  <2>2. rest[l] \in Frames /\ rest[l] = stack[n - 1]
    BY <1>3, <2>1, ElementOfSeq
  <2>3. g.fn = stack[n - 1].fn /\ g.pc = stack[n - 1].pc /\ g.n = stack[n - 1].n
    BY <2>2 DEF Frames
  <2>4. stack' = [rest EXCEPT ![l] = g]
    BY <1>1, <1>7
  <2> HIDE DEF g
  <2> DEFINE t == [rest EXCEPT ![l] = g]
  <2>5. DOMAIN t = 1..n - 1 /\ t[n - 1] = g
        /\ \A i \in 1..n - 1 : i # n - 1 => t[i] = stack[i]
    BY <1>3, <2>1
  <2>6. t \in Seq(Frames)
    BY <1>4, <2>4 DEF Fits
  <2> HIDE DEF t, n
  <2>7. Serving(t, request, completions)
    BY <1>2, <1>3, <1>5, <2>1, <2>3, <2>5, <2>6, ReturnTallied DEF n
  <2> QED  BY <1>1, <2>4, <2>7 DEF Tally, t
<1> QED  BY <1>6, <1>7

LEMMA SetTriesTally ==
    ASSUME Fits, request \in Requests, Serving(stack, request, completions), SetTries
    PROVE  Tally'
<1> DEFINE g == [Next1(Top) EXCEPT !.n = Instruction.arg]
<1>1. /\ stack # << >> /\ Instruction.op = "set" /\ Instruction.op \notin Ending
      /\ stack' = SetTop(g) /\ request' = request /\ completions' = completions
      /\ (completions > 1 => request \in Repeaters)
  BY DEF SetTries, At, Ending, Serving
<1>2. Instruction.arg \in 0..MaxTries
  BY <1>1, TopNoted DEF Operands
<1>3. g \in Frames /\ g.fn = Top.fn /\ g.pc = Top.pc + 1 /\ g.n = Instruction.arg
  BY <1>1, <1>2, NextTop DEF Frames
<1> HIDE DEF g
<1>4. ASSUME Loud(g) PROVE Counted(g, request, completions)
  <2>1. Loud(Top)
    BY <1>3, <1>4 DEF Loud
  <2>2. Counts(Top.fn, Instruction, Mark(Top), Mark(g))
    BY <1>1, <1>3, <2>1, TopMarked DEF Mark
  <2>3. Instruction.arg # 0 /\ Mark(g) = "tries" /\ Top.fn \in Repeating
    BY <1>1, <2>2 DEF Counts, Completes
  <2>4. request \in Repeaters
    BY <2>1, <2>3, TopCounted
  <2>5. g.n >= 1
    BY <1>2, <1>3, <2>3 DEF MaxTries
  <2> QED  BY <2>3, <2>4, <2>5 DEF Counted
<1> QED  BY <1>1, <1>3, <1>4, ReplaceTally

LEMMA CountTryTally ==
    ASSUME Fits, Common, request \in Requests, Serving(stack, request, completions), CountTry
    PROVE  Tally'
<1> DEFINE j == [Top EXCEPT !.pc = Place(Instruction.to)]
           g == [Next1(Top) EXCEPT !.n = @ - 1]
<1>1. /\ stack # << >> /\ Instruction.op = "countdown" /\ Instruction.op \notin Ending
      /\ stack' = SetTop(IF NoTriesLeft(Top) THEN j ELSE g)
      /\ request' = request /\ completions' = completions
      /\ (completions > 1 => request \in Repeaters)
  BY DEF CountTry, At, Ending, Serving
<1>2. stack' \in Seq(Frames)
  BY RunFits DEF Run, Fits
<1>3. Top \in Frames /\ Instruction.op # "label" /\ Instruction.to # "none"
  BY <1>1, TopNoted DEF Operands, Jumping
<1>4. CASE NoTriesLeft(Top)
  <2>1. j.fn = Top.fn /\ j.pc = Place(Instruction.to) /\ j.n = Top.n
    BY <1>3 DEF Frames
  <2> HIDE DEF j, g
  <2>2. stack' = SetTop(j)
    BY <1>1, <1>4
  <2>3. j \in Frames
    BY <1>1, <1>2, <2>2, SetTopElement DEF Fits
  <2>4. ASSUME Loud(j) PROVE Counted(j, request, completions)
    <3>1. Loud(Top)
      BY <2>1, <2>4 DEF Loud
    <3>2. CountsJump(Top.fn, Instruction, Mark(Top), Mark(j))
      BY <1>1, <1>3, <2>1, <3>1, TopMarked DEF Mark
    <3>3. Mark(Top) = "tries" /\ Mark(j) = "yes"
      BY <1>1, <3>2 DEF CountsJump
    <3>4. Top.fn \in Repeating
      BY <1>1, <3>1, <3>3, TopMarked
    <3>5. request \in Repeaters /\ Counted(Top, request, completions)
      BY <3>1, <3>4, TopCounted
    <3>6. completions >= 1
      BY <1>4, <3>3, <3>5 DEF Counted, NoTriesLeft
    <3> QED  BY <3>3, <3>5, <3>6 DEF Counted
  <2> QED  BY <1>1, <2>1, <2>2, <2>3, <2>4, ReplaceTally
<1>5. CASE ~NoTriesLeft(Top)
  <2>1. Next1(Top) \in Frames /\ Next1(Top).fn = Top.fn /\ Next1(Top).pc = Top.pc + 1
    BY <1>1, NextTop
  <2>2. g.fn = Top.fn /\ g.pc = Top.pc + 1
    BY <2>1 DEF Frames
  <2> HIDE DEF j, g
  <2>3. stack' = SetTop(g)
    BY <1>1, <1>5
  <2>4. g \in Frames
    BY <1>1, <1>2, <2>3, SetTopElement DEF Fits
  <2>5. ASSUME Loud(g) PROVE Counted(g, request, completions)
    <3>1. Loud(Top)
      BY <2>2, <2>5 DEF Loud
    <3>2. Counts(Top.fn, Instruction, Mark(Top), Mark(g))
      BY <1>1, <2>2, <3>1, TopMarked DEF Mark
    <3>3. Mark(g) = "no" /\ Top.fn \in Repeating
      BY <1>1, <3>2 DEF Counts, Completes
    <3>4. request \in Repeaters
      BY <3>1, <3>3, TopCounted
    <3> QED  BY <3>3, <3>4 DEF Counted
  <2> QED  BY <1>1, <2>2, <2>3, <2>4, <2>5, ReplaceTally
<1> QED  BY <1>4, <1>5

LEMMA CallbackTally ==
    ASSUME Fits, request \in Requests, Serving(stack, request, completions), RequestCallback
    PROVE  Tally'
<1>1. /\ stack # << >> /\ Instruction.op = "later" /\ stack' = SetTop(Next1(Top))
      /\ request' = request /\ completions' = completions
  BY DEF RequestCallback, At
<1>2. Instruction.op \notin Ending \union {"complete", "call", "set", "countdown"}
  BY <1>1 DEF Ending
<1>3. /\ Next1(Top) \in Frames /\ Next1(Top).fn = Top.fn /\ Next1(Top).pc = Top.pc + 1
      /\ Next1(Top).n = Top.n
  BY <1>1, <1>2, NextTop
<1> QED  BY <1>1, <1>2, <1>3, AdvanceTally

\* A step of a handler keeps the tally.
LEMMA RunTally == ASSUME Fits, Common, Tally, Run PROVE Tally'
<1>1. request' = request /\ stack # << >>
  BY DEF Run, SetNull, SendAnswered, SendFails, FireCommand, Timeout, CompleteRequest,
         FreeResponse, CallFunction, ReturnFromFunction, RequestCallback, SetTries, CountTry,
         Test, Fault, At
<1>2. CASE request \notin Requests
  <2>1. completions' = completions
    BY <1>2 DEF Run, SetNull, SendAnswered, SendFails, FireCommand, Timeout, CompleteRequest,
           FreeResponse, CallFunction, ReturnFromFunction, RequestCallback, SetTries, CountTry,
           Test, Fault
  <2> QED  BY <1>1, <1>2, <2>1 DEF Tally
<1>3. CASE request \in Requests
  <2>1. Serving(stack, request, completions)
    BY <1>1, <1>3 DEF Tally
  <2>2. CASE Timeout
    BY <2>1, <2>2, <1>3 DEF Timeout, Tally
  <2> QED
    BY <1>3, <2>1, <2>2, ResponseTally, CompleteTally, CallTally, ReturnTally, CallbackTally,
       SetTriesTally, CountTryTally, TestTally, FaultTally DEF Run
<1> QED  BY <1>2, <1>3

\* A handler that starts has completed nothing.
LEMMA StartsServing ==
    ASSUME NEW h, NEW r, Serves(h, r)
    PROVE  Serving(<<Frame(h)>>, r, 0)
<1> DEFINE f == Frame(h)
           s == <<f>>
<1>1. h \in DOMAIN Code /\ f.fn = h
  BY FrameStarts DEF Serves
<1>2. Loud(f) /\ (f.fn \in Repeating => r \in Repeaters)
  BY <1>1 DEF Serves, Loud
<1>3. Mark(f) = "no"
  BY <1>1, <1>2, StartsUnmarked
<1> HIDE DEF f
<1>4. s # << >> /\ DOMAIN s = {1} /\ s[1] = f
  OBVIOUS
<1> HIDE DEF s
<1>5. ~Waits(s, 1) /\ Counted(f, r, 0)
  BY <1>3, <1>4 DEF Waits, Counted
<1>6. Tallied(s, 1, r, 0)
  BY <1>2, <1>4, <1>5 DEF Tallied
<1>7. Serving(s, r, 0)
  BY <1>2, <1>4, <1>6 DEF Serving
<1> QED  BY <1>7 DEF s, f

LEMMA BeginTally == ASSUME Common, Tally, Begins PROVE Tally'
<1>1. CASE RequestDone
  BY <1>1, NoRequests DEF RequestDone, Tally
<1>2. CASE \E r \in Requests : Request(r)
  <2>1. PICK r \in Requests : Request(r)
    BY <1>2
  <2>2. /\ request' = r
        /\ \/ /\ completions' = 0
              /\ \E h \in DOMAIN Code : stack' = <<Frame(h)>> /\ Serves(h, r)
           \/ completions' = 0 /\ stack' = << >> /\ r \notin DOMAIN Default
           \/ completions' = 1 /\ stack' = << >>
    BY <2>1, RequestStarts
  <2>3. CASE completions' = 0 /\ \E h \in DOMAIN Code : stack' = <<Frame(h)>> /\ Serves(h, r)
    BY <2>1, <2>2, <2>3, StartsServing DEF Tally
  <2>4. CASE completions' = 0 /\ stack' = << >> /\ r \notin DOMAIN Default
    BY <2>1, <2>2, <2>4 DEF Tally
  <2>5. CASE completions' = 1 /\ stack' = << >>
    BY <2>1, <2>2, <2>5 DEF Tally
  <2> QED  BY <2>2, <2>3, <2>4, <2>5
<1>3. CASE \E h \in Unsolicited : Line(h)
  BY <1>3, NoRequests DEF Line, Tally
<1>4. CASE \E fn \in timed : Timed(fn)
  BY <1>4, NoRequests DEF Timed, Tally
<1> QED  BY <1>1, <1>2, <1>3, <1>4 DEF Begins

\* The invariant: the frames of a request tell how often it has been completed.
LEMMA TallyInvariant == Spec => []Tally
<1>1. Init => Tally
  BY NoRequests DEF Init, Tally
<1>2. Fits /\ Common /\ Tally /\ [Next]_vars => Tally'
  <2> SUFFICES ASSUME Fits, Common, Tally, [Next]_vars PROVE Tally'
    OBVIOUS
  <2>1. CASE Run
    BY <2>1, RunTally
  <2>2. CASE Begins
    BY <2>2, BeginTally
  <2>3. CASE UNCHANGED vars
    BY <2>3 DEF vars, Tally
  <2> QED  BY <2>1, <2>2, <2>3 DEF Next, Begins
<1> QED  BY <1>1, <1>2, FitsInvariant, PTL DEF Spec

\* Whatever the commands of its handler bring, a request that has a handler has been
\* completed when it returns, and the framework gets its token back.
THEOREM AnsweredTheorem == Spec => []EveryTokenAnswered
<1>1. Tally => EveryTokenAnswered
  <2> SUFFICES ASSUME Tally, stack = << >>, request \in DOMAIN Default
               PROVE  completions > 0
    BY DEF EveryTokenAnswered, Idle, Served
  <2>1. completions \in Nat /\ completions >= 1
    BY DEF Tally, Serving, Requests
  <2> QED  BY <2>1
<1> QED  BY <1>1, TallyInvariant, PTL

\* No request is completed twice, but those of the three handlers that do.
THEOREM OnceTheorem == Spec => []AnsweredOnce
<1>1. Tally => AnsweredOnce
  BY DEF Tally, Serving, AnsweredOnce
<1> QED  BY <1>1, TallyInvariant, PTL
=============================================================================

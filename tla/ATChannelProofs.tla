--------------------------- MODULE ATChannelProofs ---------------------------
(* Theorems about ATChannel, for any number of threads, commands, retries    *)
(* and sessions.                                                             *)
EXTENDS ATChannel, SequenceTheorems, TLAPS

-----------------------------------------------------------------------------
(* The operators the actions are made of.                                    *)

\* NoLine and NULL are values of their types, and NULL belongs to nobody.
LEMMA NullFacts ==
    /\ NoLine \in Line
    /\ NULL \in Response
    /\ NULL.owner = Nobody
    /\ NULL.finalResponse = NoLine
    /\ HandshakeCommand \in Command
    /\ HandshakeCommand.via = "handshake"
BY DEF NoLine, Line, LineKinds, NULL, Response, HandshakeCommand, Command, Types

\* pthread_cond_signal changes nothing but a waiting thread, which it wakes.
LEMMA SignalledFacts ==
    ASSUME NEW p \in [Threads -> PcStates], NEW q \in Signalled(p)
    PROVE  /\ q \in [Threads -> PcStates]
           /\ \A t \in Threads : q[t] = p[t] \/ (p[t] = "wait" /\ q[t] = "woken")
           /\ \A t \in Threads : (\A u \in Threads : p[u] = "wait" => u = t)
                                   => q[t] # "wait"
BY DEF Signalled, PcStates

\* reverseIntermediates returns a response of the same command.
LEMMA ReverseType ==
    ASSUME NEW r \in Response
    PROVE  reverseIntermediates(r) \in Response
<1> DEFINE s == r.p_intermediates
           q == [i \in 1..Len(s) |-> s[Len(s) + 1 - i]]
<1>1. s \in Seq(Line)  BY DEF Response
<1>2. \A i \in 1..Len(s) : s[Len(s) + 1 - i] \in Line  BY <1>1
<1>3. q \in Seq(Line)  BY <1>1, <1>2
<1>4. reverseIntermediates(r) = [r EXCEPT !.p_intermediates = q]
  BY DEF reverseIntermediates
<1> QED  BY <1>3, <1>4 DEF Response

\* What a call returns has its type.
LEMMA OutcomeType ==
    ASSUME NEW c \in Command, NEW err \in Errors, NEW id \in Nat, NEW r \in Response
    PROVE  Outcome(c, err, id, r) \in [err: Errors, type: Types, id: Nat, response: Response]
BY NullFacts DEF Outcome, Command, Errors

\* The return from at_send_command_full_nolock keeps the types of what the
\* thread owns.
LEMMA ReturnsType ==
    ASSUME CallTypes, NEW t \in Threads, NEW err \in Errors, NEW id \in Nat,
           NEW r \in Response, NolockReturns(t, err, id, r)
    PROVE  CallTypes'
<1>1. call[t] \in Command  BY DEF CallTypes
<1>2. /\ Outcome(call[t], err, id, r) \in [err: Errors, type: Types, id: Nat, response: Response]
      /\ Outcome(call[t], err, id, NULL) \in [err: Errors, type: Types, id: Nat, response: Response]
  BY <1>1, OutcomeType, NullFacts
<1>3. UNCHANGED <<call, calls>>  BY DEF NolockReturns
<1>4. CASE FullReturns(t, err, id, r)
  BY <1>2, <1>3, <1>4 DEF FullReturns, CallTypes, PcStates
<1>5. CASE HandshakeReturns(t, err, id)
  BY <1>2, <1>3, <1>5, BoundAssumption DEF HandshakeReturns, HandshakeLast, CallTypes, PcStates
<1> QED  BY <1>4, <1>5 DEF NolockReturns

\* clearPendingCommand and sp_response = NULL are well typed.
LEMMA ClearType ==
    ASSUME PendingTypes, clearPendingCommand
    PROVE  PendingTypes'
BY NullFacts DEF PendingTypes, clearPendingCommand

-----------------------------------------------------------------------------
(* Type correctness.                                                         *)

\* The static variables of atchannel.c start well typed.
LEMMA InitType == Init => TypeOK
<1> SUFFICES ASSUME Init PROVE TypeOK  OBVIOUS
<1>1. CallTypes
  <2>1. NoCall \in [err: Errors, type: Types, id: Nat, response: Response]
    BY NullFacts DEF NoCall, Errors, Types
  <2> QED  BY <2>1, NullFacts, BoundAssumption DEF Init, CallTypes, PcStates
<1>2. PendingTypes  BY NullFacts DEF Init, PendingTypes, Types
<1>3. ChannelTypes  BY NullFacts DEF Init, ChannelTypes, ReaderStates
<1>4. ModemTypes
  <2>1. modem \in Seq(ModemEntry) /\ wire \in Seq(Line)  BY DEF Init
  <2>2. urcs \in Nat /\ hung \in BOOLEAN  BY DEF Init
  <2> QED  BY <2>1, <2>2 DEF ModemTypes
<1>5. HistoryTypes  BY DEF Init, HistoryTypes
<1> QED  BY <1>1, <1>2, <1>3, <1>4, <1>5 DEF TypeOK

\* The steps of a thread that issues commands.
LEMMA ThreadType ==
    ASSUME TypeOK, NEW t \in Threads,
           \/ \E c \in Commands : Call(t, c)
           \/ CallHandshake(t) \/ Thread(t) \/ TimeoutFires(t) \/ SpuriousWakeup(t)
    PROVE  TypeOK'
<1>1. CallTypes /\ PendingTypes /\ ChannelTypes /\ ModemTypes /\ HistoryTypes  BY DEF TypeOK
<1> USE DEF TypeOK
<1>2. ASSUME NEW c \in Commands, Call(t, c)  PROVE TypeOK'
  <2>1. c \in Command  BY CommandAssumption
  <2>2. CallTypes'  BY <1>1, <1>2, <2>1, BoundAssumption DEF Call, CallTypes, PcStates
  <2> QED  BY <1>1, <1>2, <2>2
           DEF Call, PendingTypes, ChannelTypes, ModemTypes, HistoryTypes, pendingVars, closeVars, modemVars, history
<1>3. CASE CallHandshake(t)
  <2>1. CallTypes'
    BY <1>1, <1>3, NullFacts, BoundAssumption DEF CallHandshake, CallTypes, PcStates
  <2> QED  BY <1>1, <1>3, <2>1
           DEF CallHandshake, PendingTypes, ChannelTypes, ModemTypes, HistoryTypes, pendingVars, closeVars, modemVars, history
<1>4. CASE LockCommandMutex(t) \/ TimeoutFires(t) \/ SpuriousWakeup(t) \/ WakeAgain(t)
  <2>1. CallTypes'
    BY <1>1, <1>4 DEF LockCommandMutex, TimeoutFires, SpuriousWakeup, WakeAgain,
                      CallTypes, PcStates, callVars
  <2>2. UNCHANGED <<pendingVars, closeVars, reader, process, session, modemVars, history>>
    BY <1>4 DEF LockCommandMutex, TimeoutFires, SpuriousWakeup, WakeAgain
  <2> QED  BY <1>1, <2>1, <2>2 DEF PendingTypes, ChannelTypes, ModemTypes, HistoryTypes,
                                   pendingVars, closeVars, modemVars, history
<1>5. CASE SendPending(t)
  <2>1. CallTypes'  BY <1>1, <1>5, ReturnsType, NullFacts DEF SendPending, Errors
  <2>2. PendingTypes'  BY <1>1, <1>5, ClearType DEF SendPending
  <2> QED  BY <1>1, <1>5, <2>1, <2>2 DEF SendPending, ChannelTypes, ModemTypes, HistoryTypes, closeVars, modemVars
<1>6. CASE SendFails(t)
  <2>1. PICK err \in writelineErrors : clearPendingCommand /\ NolockReturns(t, err, 0, NULL)
    BY <1>6 DEF SendFails
  <2>2. err \in Errors  BY DEF writelineErrors, Errors
  <2>3. CallTypes'  BY <1>1, <2>1, <2>2, ReturnsType, NullFacts
  <2>4. PendingTypes'  BY <1>1, <2>1, ClearType
  <2> QED  BY <1>1, <1>6, <2>3, <2>4 DEF SendFails, ChannelTypes, ModemTypes, HistoryTypes, closeVars, modemVars, history
<1>7. CASE SendWaits(t)
  <2>1. call[t] \in Command  BY <1>1 DEF CallTypes
  <2>2. CallTypes'  BY <1>1, <1>7 DEF SendWaits, CallTypes, PcStates, callVars
  <2>3. sp_response' \in Response
    <3>1. sent + 1 \in Nat  BY <1>1 DEF HistoryTypes
    <3>2. sp_response' = [id |-> sent + 1, owner |-> t, success |-> FALSE,
                          finalResponse |-> NoLine, p_intermediates |-> <<>>]
      BY <1>7 DEF SendWaits, NULL
    <3> QED  BY <3>1, <3>2, NullFacts DEF Response
  <2>4. PendingTypes'
    BY <1>1, <1>7, <2>1, <2>3 DEF SendWaits, PendingTypes, ChannelTypes, ModemTypes, HistoryTypes, Command
  <2>5. [id |-> sent + 1, cmd |-> call[t], infos |-> 0,
         stage |-> IF call[t].pdu THEN "prompt" ELSE "run"]
           \in ModemEntry
    BY <1>1, <2>1 DEF HistoryTypes, ModemEntry
  <2> QED  BY <1>1, <1>7, <2>2, <2>4, <2>5 DEF SendWaits, ChannelTypes, ModemTypes, HistoryTypes, closeVars
<1>8. CASE TimedOut(t)
  <2>1. CallTypes'  BY <1>1, <1>8, ReturnsType, NullFacts DEF TimedOut, Errors
  <2>2. PendingTypes'  BY <1>1, <1>8, ClearType DEF TimedOut
  <2> QED  BY <1>1, <1>8, <2>1, <2>2 DEF TimedOut, ChannelTypes, ModemTypes, HistoryTypes, closeVars, modemVars, history
<1>9. CASE WakeReturns(t)
  <2>1. reverseIntermediates(sp_response) \in Response /\ sp_response.id \in Nat
    BY <1>1, ReverseType DEF PendingTypes, Response
  <2>2. CallTypes'
    <3> DEFINE err == IF s_readerClosed THEN "CHANNEL_CLOSED" ELSE "NONE"
    <3>1. err \in Errors  BY DEF Errors
    <3>2. NolockReturns(t, err, sp_response.id, reverseIntermediates(sp_response))
      BY <1>9 DEF WakeReturns
    <3> HIDE DEF err
    <3> QED  BY <1>1, <2>1, <3>1, <3>2, ReturnsType
  <2>3. PendingTypes'  BY <1>1, <1>9, ClearType DEF WakeReturns
  <2>4. UNCHANGED <<closeVars, reader, process, session, modemVars, history>>
    BY <1>9 DEF WakeReturns
  <2>5. ChannelTypes'  BY <1>1, <2>4 DEF ChannelTypes, closeVars
  <2>6. ModemTypes'  BY <1>1, <2>4 DEF ModemTypes, modemVars
  <2>7. HistoryTypes'  BY <1>1, <2>4 DEF HistoryTypes, history
  <2> QED  BY <2>2, <2>3, <2>5, <2>6, <2>7
<1>10. CASE WakeCrashes(t) \/ HandshakePauseEnds(t) \/ OnTimeoutCloses(t) \/ OnTimeoutExits(t)
  <2>1. CASE WakeCrashes(t) \/ OnTimeoutExits(t)
    BY <1>1, <2>1 DEF WakeCrashes, OnTimeoutExits, CallTypes, PendingTypes, ChannelTypes,
       ModemTypes, HistoryTypes, callVars, pendingVars, closeVars, modemVars, history
  <2>2. CASE HandshakePauseEnds(t)
    BY <1>1, <2>2 DEF HandshakePauseEnds, CallTypes, PcStates, PendingTypes, ChannelTypes,
       ModemTypes, HistoryTypes, callVars, pendingVars, closeVars, modemVars
  <2>3. CASE OnTimeoutCloses(t)
    BY <1>1, <2>3 DEF OnTimeoutCloses, CallTypes, PcStates, PendingTypes, ChannelTypes,
       ModemTypes, HistoryTypes, callVars, pendingVars, modemVars, history
  <2> QED  BY <1>10, <2>1, <2>2, <2>3
<1>11. CASE at_close(t)
  <2>1. [pc EXCEPT ![t] = "exit"] \in [Threads -> PcStates]  BY <1>1 DEF CallTypes, PcStates
  <2>2. pc' \in [Threads -> PcStates]  BY <1>11, <2>1, SignalledFacts DEF at_close
  <2> QED  BY <1>1, <1>11, <2>2 DEF at_close, CallTypes, PendingTypes, ChannelTypes, ModemTypes, HistoryTypes,
             callVars, pendingVars, modemVars, history
<1> QED  BY <1>2, <1>3, <1>4, <1>5, <1>6, <1>7, <1>8, <1>9, <1>10, <1>11 DEF Thread

\* The steps of the reader thread.
LEMMA ReaderType ==
    ASSUME TypeOK, Reader
    PROVE  TypeOK'
<1>1. CallTypes /\ PendingTypes /\ ChannelTypes /\ ModemTypes /\ HistoryTypes  BY DEF TypeOK
<1>2. CASE ReadLine
  <2>1. Head(wire) \in Line /\ Tail(wire) \in Seq(Line)
    <3>1. wire \in Seq(Line) /\ wire # <<>>
      BY <1>1, <1>2 DEF ReadLine, ModemTypes
    <3> QED  BY <3>1
  <2>2. reader' \in [at: ReaderStates, line: Line]
    BY <1>2, <2>1 DEF ReadLine, ReaderStates
  <2> QED  BY <1>1, <1>2, <2>1, <2>2
           DEF ReadLine, TypeOK, CallTypes, PendingTypes, ChannelTypes, ModemTypes, HistoryTypes,
               readerFrame, callVars, pendingVars, closeVars, history
<1>3. CASE ReadFails \/ onReaderClosed \/ CallbackCloses
  <2>1. reader' \in [at: ReaderStates, line: Line] /\ s_fd' \in BOOLEAN
    BY <1>1, <1>3 DEF ReadFails, onReaderClosed, CallbackCloses, ChannelTypes, ReaderStates,
                      closeVars
  <2>2. UNCHANGED <<pc, readerFrame, pendingVars, s_readerClosed, s_closed, process, modem,
                    wire, history>>
    BY <1>3 DEF ReadFails, onReaderClosed, CallbackCloses, closeVars
  <2> QED  BY <1>1, <2>1, <2>2
           DEF TypeOK, CallTypes, PendingTypes, ChannelTypes, ModemTypes, HistoryTypes,
               readerFrame, callVars, pendingVars, history
<1>4. CASE ReaderCloses \/ onATReaderClosed
  <2>1. pc' \in [Threads -> PcStates]
    BY <1>1, <1>4, SignalledFacts DEF ReaderCloses, onATReaderClosed, CallTypes
  <2>2. reader' \in [at: ReaderStates, line: Line] /\ s_readerClosed' \in BOOLEAN
          /\ s_closed' \in BOOLEAN
    BY <1>1, <1>4 DEF ReaderCloses, onATReaderClosed, ChannelTypes, ReaderStates
  <2>3. UNCHANGED <<readerFrame, pendingVars, s_fd, process, modem, wire, history>>
    BY <1>4 DEF ReaderCloses, onATReaderClosed
  <2> QED  BY <1>1, <2>1, <2>2, <2>3
           DEF TypeOK, CallTypes, PendingTypes, ChannelTypes, ModemTypes, HistoryTypes,
               readerFrame, callVars, pendingVars, history
<1>5. CASE processLine
  <2> DEFINE line == reader.line
  <2>1. line \in Line  BY <1>1 DEF ChannelTypes
  <2>2. reader' \in [at: ReaderStates, line: Line]
    BY <1>5, NullFacts DEF processLine, ReaderStates
  <2>3. pc' \in [Threads -> PcStates]
    BY <1>1, <1>5, SignalledFacts DEF processLine, handleFinalResponse, CallTypes
  <2>4. sp_response' \in Response
    <3>1. CASE UNCHANGED sp_response  BY <1>1, <3>1 DEF PendingTypes
    <3>2. CASE \E ok \in BOOLEAN : handleFinalResponse(line, ok)
      BY <1>1, <2>1, <3>2 DEF handleFinalResponse, PendingTypes, Response
    <3>3. CASE addIntermediate(line)
      <4>1. sp_response.p_intermediates \in Seq(Line)  BY <1>1 DEF PendingTypes, Response
      <4>2. <<line>> \o sp_response.p_intermediates \in Seq(Line)  BY <2>1, <4>1
      <4> QED  BY <1>1, <3>3, <4>2 DEF addIntermediate, PendingTypes, Response
    <3>4. isFinalResponseSuccess(line) \in BOOLEAN  BY DEF isFinalResponseSuccess
    <3> QED  BY <1>5, <3>1, <3>2, <3>3, <3>4 DEF processLine
  <2>5. s_smsPDU' \in Nat  BY <1>1, <1>5 DEF processLine, PendingTypes
  <2>6. modem' \in Seq(ModemEntry)
    <3>1. CASE UNCHANGED modem  BY <1>1, <3>1 DEF ModemTypes
    <3>2. CASE ~UNCHANGED modem
      <4> DEFINE M(i) == IF i = 1 /\ modem[i].stage = "prompted"
                           THEN [modem[i] EXCEPT !.stage = "run"] ELSE modem[i]
      <4>1. modem' = [i \in DOMAIN modem |-> M(i)]  BY <1>5, <3>2 DEF processLine, writeCtrlZ
      <4>2. modem \in Seq(ModemEntry)  BY <1>1 DEF ModemTypes
      <4>3. ASSUME NEW i \in 1..Len(modem) PROVE M(i) \in ModemEntry
        <5>1. modem[i] \in ModemEntry  BY <4>2
        <5> QED  BY <5>1 DEF ModemEntry
      <4>4. DOMAIN modem = 1..Len(modem)  BY <4>2
      <4> HIDE DEF M
      <4> QED  BY <4>1, <4>2, <4>3, <4>4
    <3> QED  BY <3>1, <3>2
  <2>7. ctrlZ' \subseteq [pdu: Nat, prompt: Nat]
    <3>1. line.id \in Nat /\ s_smsPDU \in Nat /\ ctrlZ \subseteq [pdu: Nat, prompt: Nat]
      BY <1>1, <2>1 DEF Line, PendingTypes, HistoryTypes
    <3>2. UNCHANGED ctrlZ \/ ctrlZ' = ctrlZ \cup {[pdu |-> s_smsPDU, prompt |-> line.id]}
      BY <1>5 DEF processLine, writeCtrlZ
    <3> QED  BY <3>1, <3>2
  <2>8. UNCHANGED <<readerFrame, s_type, s_responsePrefix, closeVars, process, wire, sent,
                    intruded, paused>>
    BY <1>5 DEF processLine
  <2> QED  BY <1>1, <2>2, <2>3, <2>4, <2>5, <2>6, <2>7, <2>8
           DEF TypeOK, CallTypes, PendingTypes, ChannelTypes, ModemTypes, HistoryTypes,
               readerFrame, callVars, closeVars
<1> QED  BY <1>2, <1>3, <1>4, <1>5 DEF Reader

\* The modem's steps, and at_open.
LEMMA ModemType ==
    ASSUME TypeOK, Modem \/ at_open
    PROVE  TypeOK'
<1>1. CallTypes /\ PendingTypes /\ ChannelTypes /\ ModemTypes /\ HistoryTypes  BY DEF TypeOK
<1>2. modem \in Seq(ModemEntry) /\ wire \in Seq(Line)  BY <1>1 DEF ModemTypes
<1>3. ASSUME NEW c \in ModemEntry, NEW kind \in LineKinds, NEW n \in Nat
      PROVE  Answer(kind, c, n) \in Line
  BY DEF ModemEntry, Answer, Line, Command
<1>4. ASSUME modem # <<>>
      PROVE  Head(modem) \in ModemEntry /\ modem[1] = Head(modem) /\ Tail(modem) \in Seq(ModemEntry)
               /\ Head(modem).infos \in Nat
  <2>1. Head(modem) \in ModemEntry /\ modem[1] = Head(modem) /\ Tail(modem) \in Seq(ModemEntry)
    BY <1>2, <1>4
  <2> QED  BY <2>1 DEF ModemEntry
<1>5. ASSUME modem # <<>>, NEW e \in ModemEntry  PROVE [modem EXCEPT ![1] = e] \in Seq(ModemEntry)
  BY <1>2, <1>5
<1>6. CASE Modem
  <2>1. UNCHANGED modemFrame
    BY <1>6 DEF Modem, ModemInfo, ModemPrompt, ModemFinal, ModemHangup, ModemUrc
  <2>2. modem' \in Seq(ModemEntry) /\ wire' \in Seq(Line) /\ urcs' \in Nat /\ hung' \in BOOLEAN
    <3>1. CASE ModemInfo
      <4>1. PICK kind \in LineKinds : wire' = Append(wire, Answer(kind, Head(modem), Head(modem).infos + 1))
        BY <3>1 DEF ModemInfo, LineKinds
      <4>2. modem' = [modem EXCEPT ![1] = [modem[1] EXCEPT !.infos = modem[1].infos + 1]]
        BY <3>1 DEF ModemInfo
      <4>3. [modem[1] EXCEPT !.infos = modem[1].infos + 1] \in ModemEntry
        BY <1>4, <3>1 DEF ModemInfo, ModemEntry
      <4>4. Answer(kind, Head(modem), Head(modem).infos + 1) \in Line
        BY <1>3, <1>4, <3>1 DEF ModemInfo
      <4> QED  BY <1>1, <1>2, <1>5, <3>1, <4>1, <4>2, <4>3, <4>4 DEF ModemInfo, ModemTypes
    <3>2. CASE ModemPrompt
      <4>1. modem' = [modem EXCEPT ![1] = [modem[1] EXCEPT !.stage = "prompted"]]
        BY <3>2 DEF ModemPrompt
      <4>2. [modem[1] EXCEPT !.stage = "prompted"] \in ModemEntry  BY <1>4, <3>2 DEF ModemPrompt, ModemEntry
      <4>3. Answer("> ", Head(modem), 0) \in Line
        BY <1>3, <1>4, <3>2 DEF ModemPrompt, LineKinds
      <4>4. modem' \in Seq(ModemEntry)
        <5>1. modem # <<>>  BY <3>2 DEF ModemPrompt
        <5> QED  BY <1>5, <4>1, <4>2, <5>1
      <4>5. wire' \in Seq(Line)
        <5>1. wire' = Append(wire, Answer("> ", Head(modem), 0))  BY <3>2 DEF ModemPrompt
        <5>2. ASSUME NEW x \in Line  PROVE Append(wire, x) \in Seq(Line)  BY <1>2
        <5> QED  BY <4>3, <5>1, <5>2
      <4> QED  BY <1>1, <3>2, <4>4, <4>5 DEF ModemPrompt, ModemTypes
    <3>3. CASE ModemFinal
      <4>1. PICK kind \in LineKinds : wire' = Append(wire, Answer(kind, Head(modem), Head(modem).infos))
        BY <3>3 DEF ModemFinal, LineKinds
      <4>2. Answer(kind, Head(modem), Head(modem).infos) \in Line
        BY <1>3, <1>4, <3>3 DEF ModemFinal
      <4> QED  BY <1>1, <1>2, <1>4, <3>3, <4>1, <4>2 DEF ModemFinal, ModemTypes
    <3>4. CASE ModemHangup  BY <1>1, <3>4 DEF ModemHangup, ModemTypes
    <3>5. ASSUME NEW kind \in UrcKinds, ModemUrc(kind)
          PROVE  modem' \in Seq(ModemEntry) /\ wire' \in Seq(Line) /\ urcs' \in Nat /\ hung' \in BOOLEAN
      <4>1. \A lines \in UrcLines(kind) : lines \in Seq(Line)
        <5>1. \A k \in LineKinds, p \in Prefixes \cup {NoPrefix} : Urc(k, p) \in Line
          BY DEF Urc, Line
        <5>2. kind \in LineKinds \/ kind = "+CREG"  BY UrcAssumption DEF LineKinds
        <5>3. {"+CMT", "PDU", "info"} \subseteq LineKinds  BY DEF LineKinds
        <5>a. \A x, y \in Line : <<x>> \in Seq(Line) /\ <<x, y>> \in Seq(Line)
          OBVIOUS
        <5>4. CASE kind = "+CMT"
          <6>1. UrcLines(kind) = {<<Urc("+CMT", NoPrefix), Urc("PDU", NoPrefix)>>}
            BY <5>4 DEF UrcLines
          <6>2. Urc("+CMT", NoPrefix) \in Line /\ Urc("PDU", NoPrefix) \in Line
            BY <5>1, <5>3 DEF LineKinds
          <6> QED  BY <5>a, <6>1, <6>2
        <5>5. CASE kind = "+CREG"
          <6>1. UrcLines(kind) = {<<Urc("info", p)>> : p \in Prefixes}
            BY <5>5 DEF UrcLines
          <6>2. \A p \in Prefixes : Urc("info", p) \in Line
            BY <5>1, <5>3
          <6> QED  BY <5>a, <6>1, <6>2
        <5>6. CASE kind # "+CMT" /\ kind # "+CREG"
          <6>1. UrcLines(kind) = {<<Urc(kind, NoPrefix)>>}
            BY <5>6 DEF UrcLines
          <6>2. Urc(kind, NoPrefix) \in Line
            BY <5>1, <5>2, <5>6
          <6> QED  BY <5>a, <6>1, <6>2
        <5> QED  BY <5>4, <5>5, <5>6
      <4>3. wire' \in Seq(Line)
        <5>1. PICK lines \in UrcLines(kind) : wire' = wire \o lines
          BY <3>5 DEF ModemUrc
        <5>2. lines \in Seq(Line)  BY <4>1
        <5> QED  BY <1>2, <5>1, <5>2
      <4> QED  BY <1>1, <3>5, <4>3 DEF ModemUrc, ModemTypes
    <3> QED  BY <1>6, <3>1, <3>2, <3>3, <3>4, <3>5 DEF Modem
  <2> QED  BY <1>1, <2>1, <2>2
           DEF modemFrame, TypeOK, CallTypes, PendingTypes, ChannelTypes, ModemTypes, HistoryTypes,
               callVars, pendingVars, closeVars, history
<1>7. CASE at_open
  <2>1. PendingTypes'  BY <1>1, <1>7, ClearType DEF at_open
  <2>2. CallTypes'  BY <1>1, <1>7 DEF at_open, CallTypes, callVars
  <2>3. ChannelTypes'
    <3>1. session' \in Nat /\ process' \in {"running", "exit", "segv"}
      BY <1>1, <1>7 DEF at_open, ChannelTypes
    <3>2. reader' \in [at: ReaderStates, line: Line]  BY <1>7, NullFacts DEF at_open, ReaderStates
    <3>3. s_fd' \in BOOLEAN /\ s_readerClosed' \in BOOLEAN /\ s_closed' \in BOOLEAN
      BY <1>7 DEF at_open
    <3> QED  BY <3>1, <3>2, <3>3 DEF ChannelTypes
  <2>4. ModemTypes'
    <3>1. modem' \in Seq(ModemEntry) /\ wire' \in Seq(Line)  BY <1>7 DEF at_open
    <3>2. urcs' \in Nat /\ hung' \in BOOLEAN  BY <1>1, <1>7 DEF at_open, ModemTypes
    <3> QED  BY <3>1, <3>2 DEF ModemTypes
  <2>5. HistoryTypes'  BY <1>1, <1>7 DEF at_open, HistoryTypes
  <2> QED  BY <2>1, <2>2, <2>3, <2>4, <2>5 DEF TypeOK
<1> QED  BY <1>6, <1>7

\* A step that changes nothing keeps the types.
LEMMA StutterType ==
    ASSUME TypeOK, UNCHANGED vars
    PROVE  TypeOK'
BY DEF vars, TypeOK, CallTypes, PendingTypes, ChannelTypes, ModemTypes, HistoryTypes,
       callVars, pendingVars, closeVars, modemVars, history

\* Every step of the threads, the reader, mainLoop and the modem keeps the types.
LEMMA NextType == TypeOK /\ [Next]_vars => TypeOK'
BY ThreadType, ReaderType, ModemType, StutterType DEF Next, Step, Terminating

\* Type correctness of atchannel.c's state in every behaviour.
THEOREM TypeCorrect == Spec => []TypeOK
BY InitType, NextType, PTL DEF Spec
-----------------------------------------------------------------------------
(* Mutexes and the ownership of the pending command.                         *)

\* A thread that returns from at_send_command_full_nolock gives up what it
\* holds and disturbs no other thread.
LEMMA ReturnsMutex ==
    ASSUME TypeOK, MutexInv, HandshakeInv, NEW t \in Threads,
           \/ pc[t] \in {"send", "woken", "timedout"} /\ s_commandmutex = Nobody
           \/ pc[t] = "hsTry" /\ s_commandmutex = t,
           NEW err, NEW id, NEW r, NolockReturns(t, err, id, r)
    PROVE  /\ MutexInv' /\ HandshakeInv'
           /\ ~Blocked(t)'
           /\ \A u \in Threads \ {t} : pc'[u] = pc[u]
<1>1. pc \in [Threads -> PcStates] /\ UNCHANGED call
  BY DEF TypeOK, CallTypes, NolockReturns
<1>3. CASE call[t].via = "full" /\ FullReturns(t, err, id, r)
  <2>1. \A u \in Threads \ {t} : pc'[u] = pc[u]  BY <1>1, <1>3 DEF FullReturns
  <2>2. pc'[t] \in {"idle", "onTimeout"}  BY <1>1, <1>3 DEF FullReturns
  <2>3. commandmutex = t  BY <1>3, ThreadsAssumption DEF MutexInv, Blocked
  <2>4. commandmutex' = Nobody /\ s_commandmutex' = Nobody  BY <1>3 DEF FullReturns
  <2>5. s_commandmutex = Nobody  BY <1>3 DEF MutexInv
  <2>6. MutexInv'
    BY <1>1, <2>1, <2>2, <2>3, <2>4, <2>5, ThreadsAssumption DEF MutexInv, Blocked
  <2>7. HandshakeInv'  BY <1>1, <2>1, <2>2 DEF HandshakeInv, Blocked
  <2> QED  BY <2>1, <2>2, <2>6, <2>7 DEF Blocked
<1>4. CASE call[t].via = "handshake" /\ HandshakeReturns(t, err, id)
  <2>1. \A u \in Threads \ {t} : pc'[u] = pc[u]  BY <1>1, <1>4 DEF HandshakeReturns
  <2>2. \/ pc'[t] \in {"hsTry", "hsSleep"} /\ s_commandmutex' = t
        \/ pc'[t] = "idle" /\ s_commandmutex' = Nobody
    <3>1. /\ pc'[t] = IF err = "NONE" THEN "hsSleep"
                      ELSE IF HandshakeLast(t) THEN "idle" ELSE "hsTry"
          /\ s_commandmutex' = IF err # "NONE" /\ HandshakeLast(t) THEN Nobody ELSE t
      BY <1>1, <1>4 DEF HandshakeReturns
    <3>2. CASE err = "NONE"  BY <3>1, <3>2
    <3>3. CASE err # "NONE" /\ HandshakeLast(t)  BY <3>1, <3>3
    <3>4. CASE err # "NONE" /\ ~HandshakeLast(t)  BY <3>1, <3>4
    <3> QED  BY <3>2, <3>3, <3>4
  <2>3. commandmutex' = commandmutex /\ commandmutex # t
    BY <1>4 DEF HandshakeReturns, MutexInv, Blocked
  <2>4. \A u \in Threads \ {t} : s_commandmutex # u  BY ThreadsAssumption
  <2>5. MutexInv'
    BY <1>1, <1>4, <2>1, <2>2, <2>3, <2>4, ThreadsAssumption DEF MutexInv, Blocked
  <2>6. t \in Handshakers  BY <1>4 DEF HandshakeInv, Blocked, MutexInv
  <2>7. HandshakeInv'  BY <1>1, <2>1, <2>6 DEF HandshakeInv, Blocked
  <2> QED  BY <2>1, <2>2, <2>5, <2>7 DEF Blocked
<1> QED  BY <1>3, <1>4 DEF NolockReturns

\* A signal leaves the mutexes and the set of blocked threads alone, and after
\* it no thread sleeps if at most one did.
LEMMA SignalInv ==
    ASSUME TypeOK, MutexInv, HandshakeInv, NEW p \in [Threads -> PcStates],
           \A u \in Threads : p[u] = pc[u] \/ (pc[u] = "close" /\ p[u] = "exit"),
           pc' \in Signalled(p), UNCHANGED <<call, commandmutex, s_commandmutex>>
    PROVE  /\ MutexInv' /\ HandshakeInv'
           /\ \A u \in Threads : Blocked(u)' <=> Blocked(u)
           /\ (\A t, u \in Threads : Blocked(t) /\ Blocked(u) => t = u)
                => \A u \in Threads : pc'[u] # "wait"
<1>1. \A u \in Threads : pc'[u] = p[u] \/ (p[u] = "wait" /\ pc'[u] = "woken")
  BY SignalledFacts
<1>2. \A u \in Threads : Blocked(u)' <=> Blocked(u)  BY <1>1 DEF Blocked
<1>3. MutexInv'  BY <1>1, <1>2 DEF MutexInv, Blocked
<1>4. HandshakeInv'  BY <1>1, <1>2 DEF HandshakeInv, Blocked
<1>5. ASSUME \A t, u \in Threads : Blocked(t) /\ Blocked(u) => t = u, NEW u \in Threads
      PROVE  pc'[u] # "wait"
  <2>1. CASE p[u] = "wait"
    <3>1. \A v \in Threads : p[v] = "wait" => v = u  BY <1>5, <2>1 DEF Blocked
    <3> QED  BY <3>1, SignalledFacts
  <2>2. CASE p[u] # "wait"  BY <1>1, <2>2
  <2> QED  BY <2>1, <2>2
<1> QED  BY <1>2, <1>3, <1>4, <1>5

\* The inductive invariant holds when the channel has just been opened.
LEMMA InitInv == Init => IndInv
<1> SUFFICES ASSUME Init PROVE IndInv  OBVIOUS
<1>1. TypeOK  BY InitType
<1>2. MutexInv /\ HandshakeInv  BY ThreadsAssumption DEF Init, MutexInv, HandshakeInv, Blocked
<1>3. OwnerInv  BY ThreadsAssumption, NullFacts DEF Init, OwnerInv, NoLostWakeup, Blocked
<1> QED  BY <1>1, <1>2, <1>3 DEF Init, IndInv, SegvOnlyIntruded

\* The part of the invariant that is not about types.
Ownership ==
    /\ MutexInv /\ HandshakeInv
    /\ ~intruded => OwnerInv
    /\ SegvOnlyIntruded
    /\ session >= 1

\* The steps of a thread that issues commands.
LEMMA ThreadInv ==
    ASSUME IndInv, NEW t \in Threads,
           \/ \E c \in Commands : Call(t, c)
           \/ CallHandshake(t) \/ Thread(t) \/ TimeoutFires(t) \/ SpuriousWakeup(t)
    PROVE  Ownership'
<1>1. /\ TypeOK /\ MutexInv /\ HandshakeInv /\ (~intruded => OwnerInv)
      /\ SegvOnlyIntruded /\ session >= 1
  BY DEF IndInv
<1>2. pc \in [Threads -> PcStates] /\ call \in [Threads -> Command]  BY <1>1 DEF TypeOK, CallTypes
<1>3. ASSUME NEW c \in Commands, Call(t, c)  PROVE Ownership'
  <2>1. c.via = "full"  BY CommandAssumption
  <2>2. MutexInv' /\ HandshakeInv'
    BY <1>1, <1>2, <1>3, <2>1, ThreadsAssumption DEF Call, MutexInv, HandshakeInv, Blocked
  <2>3. ~intruded' => OwnerInv'
    BY <1>1, <1>2, <1>3 DEF Call, OwnerInv, NoLostWakeup, Blocked, history, pendingVars, closeVars
  <2> QED  BY <1>1, <1>3, <2>2, <2>3 DEF Ownership, SegvOnlyIntruded, Call, history
<1>4. CASE CallHandshake(t)
  <2>1. MutexInv' /\ HandshakeInv'
    BY <1>1, <1>2, <1>4, NullFacts, ThreadsAssumption
       DEF CallHandshake, MutexInv, HandshakeInv, Blocked
  <2>2. ~intruded' => OwnerInv'
    BY <1>1, <1>2, <1>4 DEF CallHandshake, OwnerInv, NoLostWakeup, Blocked, history,
                            pendingVars, closeVars
  <2> QED  BY <1>1, <1>4, <2>1, <2>2 DEF Ownership, SegvOnlyIntruded, CallHandshake, history
<1>5. CASE LockCommandMutex(t)
  <2>1. MutexInv' /\ HandshakeInv'
    BY <1>1, <1>2, <1>5, ThreadsAssumption
       DEF LockCommandMutex, MutexInv, HandshakeInv, Blocked, callVars
  <2>2. ~intruded' => OwnerInv'
    BY <1>1, <1>2, <1>5 DEF LockCommandMutex, OwnerInv, NoLostWakeup, Blocked, history,
                            pendingVars, closeVars
  <2> QED  BY <1>1, <1>5, <2>1, <2>2 DEF Ownership, SegvOnlyIntruded, LockCommandMutex, history
<1>6. CASE TimeoutFires(t) \/ SpuriousWakeup(t) \/ WakeAgain(t)
  <2>1. /\ UNCHANGED <<callVars, commandmutex, s_commandmutex, pendingVars, closeVars, process,
                       session, history>>
        /\ Blocked(t)
        /\ \E q \in {"wait", "woken", "timedout"} : pc' = [pc EXCEPT ![t] = q]
    BY <1>6 DEF TimeoutFires, SpuriousWakeup, WakeAgain, Blocked
  <2>2. \A u \in Threads : (Blocked(u)' <=> Blocked(u)) /\ (pc'[u] = pc[u] \/ Blocked(u))
    BY <1>2, <2>1 DEF Blocked
  <2>3. MutexInv' /\ HandshakeInv'
    BY <1>1, <2>1, <2>2 DEF MutexInv, HandshakeInv, Blocked, callVars
  <2>4. pc'[t] = "wait" => sp_response.finalResponse = NoLine /\ ~s_readerClosed
    BY <1>2, <1>6 DEF TimeoutFires, SpuriousWakeup, WakeAgain
  <2>5. ~intruded' => OwnerInv'
    <3> SUFFICES ASSUME ~intruded' PROVE OwnerInv'  OBVIOUS
    <3>1. OwnerInv  BY <1>1, <2>1 DEF history
    <3>2. \A u \in Threads \ {t} : pc'[u] = pc[u]  BY <1>2, <2>1
    <3> QED  BY <2>1, <2>2, <2>4, <3>1, <3>2 DEF OwnerInv, NoLostWakeup, pendingVars, closeVars
  <2> QED  BY <1>1, <2>1, <2>3, <2>5 DEF Ownership, SegvOnlyIntruded, history
<1>7. CASE SendPending(t)
  <2>1. MutexInv' /\ HandshakeInv'
    BY <1>1, <1>7, ReturnsMutex DEF SendPending, MaySend
  <2> QED  BY <1>1, <1>7, <2>1 DEF Ownership, SegvOnlyIntruded, SendPending
<1>8. CASE SendFails(t) \/ TimedOut(t) \/ WakeReturns(t)
  <2>1. PICK err, id, r : NolockReturns(t, err, id, r)
    BY <1>8 DEF SendFails, TimedOut, WakeReturns
  <2>2. \/ pc[t] \in {"send", "woken", "timedout"} /\ s_commandmutex = Nobody
        \/ pc[t] = "hsTry" /\ s_commandmutex = t
    BY <1>8 DEF SendFails, TimedOut, WakeReturns, MaySend
  <2>3. /\ MutexInv' /\ HandshakeInv' /\ ~Blocked(t)'
        /\ \A u \in Threads \ {t} : pc'[u] = pc[u]
    BY <1>1, <2>1, <2>2, ReturnsMutex
  <2>4. sp_response' = NULL /\ UNCHANGED <<closeVars, process, session, history>>
    BY <1>8 DEF SendFails, TimedOut, WakeReturns, clearPendingCommand
  <2>5. sp_response = NULL \/ Blocked(t)
    BY <1>8 DEF SendFails, TimedOut, WakeReturns, Blocked
  <2>6. ~intruded' => OwnerInv'
    <3> SUFFICES ASSUME ~intruded' PROVE OwnerInv'  OBVIOUS
    <3>1. OwnerInv  BY <1>1, <2>4 DEF history
    <3>2. \A u \in Threads \ {t} : ~Blocked(u)
      BY <2>5, <3>1, NullFacts, ThreadsAssumption DEF OwnerInv
    <3>3. \A u \in Threads : ~Blocked(u)' /\ pc'[u] # "wait"
      BY <2>3, <3>2 DEF Blocked
    <3> QED  BY <2>4, <3>3, NullFacts, ThreadsAssumption DEF OwnerInv, NoLostWakeup
  <2> QED  BY <1>1, <2>3, <2>4, <2>6 DEF Ownership, SegvOnlyIntruded, history
<1>9. CASE SendWaits(t)
  <2>1. \A u \in Threads : pc'[u] = IF u = t THEN "wait" ELSE pc[u]  BY <1>2, <1>9 DEF SendWaits
  <2>2. /\ UNCHANGED <<callVars, commandmutex, closeVars, process, session, intruded>>
        /\ s_commandmutex' = Nobody
        /\ sp_response'.owner = t /\ sp_response'.finalResponse = NoLine
    BY <1>9 DEF SendWaits, NULL
  <2>3. MaySend(t) /\ sp_response = NULL /\ ~s_readerClosed
    BY <1>9 DEF SendWaits, writelineErrors
  <2>4. MutexInv'
    BY <1>1, <2>1, <2>2, <2>3, ThreadsAssumption DEF MutexInv, MaySend, Blocked, callVars, Command
  <2>5. HandshakeInv'
    BY <1>1, <2>1, <2>2, <2>3 DEF HandshakeInv, MutexInv, MaySend, Blocked, callVars
  <2>6. ~intruded' => OwnerInv'
    <3> SUFFICES ASSUME ~intruded' PROVE OwnerInv'  OBVIOUS
    <3>1. OwnerInv  BY <1>1, <2>2
    <3>2. \A u \in Threads : ~Blocked(u)  BY <2>3, <3>1, NullFacts, ThreadsAssumption DEF OwnerInv
    <3> QED  BY <2>1, <2>2, <2>3, <3>2, ThreadsAssumption DEF OwnerInv, NoLostWakeup, Blocked, closeVars
  <2> QED  BY <1>1, <2>2, <2>4, <2>5, <2>6 DEF Ownership, SegvOnlyIntruded
<1>10. CASE WakeCrashes(t)
  <2>1. intruded
    BY <1>1, <1>10, NullFacts, ThreadsAssumption DEF WakeCrashes, OwnerInv, Blocked
  <2>2. MutexInv' /\ HandshakeInv'
    BY <1>1, <1>10 DEF WakeCrashes, MutexInv, HandshakeInv, Blocked, callVars
  <2> QED  BY <1>1, <1>10, <2>1, <2>2 DEF WakeCrashes, Ownership, SegvOnlyIntruded, history
<1>11. CASE HandshakePauseEnds(t)
  <2>1. MutexInv' /\ HandshakeInv'
    BY <1>1, <1>2, <1>11, ThreadsAssumption
       DEF HandshakePauseEnds, MutexInv, HandshakeInv, Blocked, callVars
  <2>2. ~intruded' => OwnerInv'
    BY <1>1, <1>2, <1>11 DEF HandshakePauseEnds, OwnerInv, NoLostWakeup, Blocked, pendingVars, closeVars
  <2> QED  BY <1>1, <1>11, <2>1, <2>2 DEF Ownership, SegvOnlyIntruded, HandshakePauseEnds
<1>12. CASE OnTimeoutCloses(t) \/ OnTimeoutExits(t)
  <2>1. /\ UNCHANGED <<callVars, commandmutex, s_commandmutex, pendingVars, s_readerClosed,
                       session, history>>
        /\ pc' = pc \/ (pc[t] = "onTimeout" /\ pc' = [pc EXCEPT ![t] = "close"])
        /\ process' = "segv" => process = "segv"
    BY <1>12 DEF OnTimeoutCloses, OnTimeoutExits
  <2>2. MutexInv' /\ HandshakeInv'
    BY <1>1, <1>2, <2>1 DEF MutexInv, HandshakeInv, Blocked, callVars
  <2>3. ~intruded' => OwnerInv'
    BY <1>1, <1>2, <2>1 DEF OwnerInv, NoLostWakeup, Blocked, pendingVars, history
  <2> QED  BY <1>1, <2>1, <2>2, <2>3 DEF Ownership, SegvOnlyIntruded, history
<1>13. CASE at_close(t)
  <2> DEFINE p == [pc EXCEPT ![t] = "exit"]
  <2>1. p \in [Threads -> PcStates]  BY <1>2 DEF PcStates
  <2>2. \A u \in Threads : p[u] = pc[u] \/ (pc[u] = "close" /\ p[u] = "exit")
    BY <1>2, <1>13 DEF at_close
  <2>3. /\ pc' \in Signalled(p)
        /\ UNCHANGED <<callVars, commandmutex, s_commandmutex, pendingVars, process, session, history>>
    BY <1>13 DEF at_close
  <2> HIDE DEF p
  <2>4. /\ MutexInv' /\ HandshakeInv'
        /\ \A u \in Threads : Blocked(u)' <=> Blocked(u)
        /\ (\A v, u \in Threads : Blocked(v) /\ Blocked(u) => v = u)
             => \A u \in Threads : pc'[u] # "wait"
    BY <1>1, <2>1, <2>2, <2>3, SignalInv DEF callVars
  <2>5. ~intruded' => OwnerInv'
    BY <1>1, <2>3, <2>4 DEF OwnerInv, NoLostWakeup, pendingVars, history
  <2> QED  BY <1>1, <2>3, <2>4, <2>5 DEF Ownership, SegvOnlyIntruded, history
<1> QED  BY <1>3, <1>4, <1>5, <1>6, <1>7, <1>8, <1>9, <1>10, <1>11, <1>12, <1>13 DEF Thread

\* The reader thread, at_open and the modem.
LEMMA ReaderInv ==
    ASSUME IndInv, Reader
    PROVE  Ownership'
<1>1. /\ TypeOK /\ MutexInv /\ HandshakeInv /\ (~intruded => OwnerInv)
      /\ SegvOnlyIntruded /\ session >= 1
  BY DEF IndInv
<1>2. pc \in [Threads -> PcStates] /\ sp_response \in Response
  BY <1>1 DEF TypeOK, CallTypes, PendingTypes
<1>3. UNCHANGED <<call, commandmutex, s_commandmutex, process, session, intruded>>
  BY DEF Reader, ReadLine, ReadFails, processLine, onReaderClosed, ReaderCloses, CallbackCloses,
         onATReaderClosed, readerFrame, callVars, history
<1>4. ASSUME pc' \in Signalled(pc)
      PROVE  /\ MutexInv' /\ HandshakeInv'
             /\ \A u \in Threads : Blocked(u)' <=> Blocked(u)
             /\ OwnerInv => \A u \in Threads : pc'[u] # "wait"
  <2>1. \A u \in Threads : pc[u] = pc[u] \/ (pc[u] = "close" /\ pc[u] = "exit")  OBVIOUS
  <2>2. OwnerInv => \A v, u \in Threads : Blocked(v) /\ Blocked(u) => v = u  BY DEF OwnerInv
  <2> QED  BY <1>1, <1>2, <1>3, <1>4, <2>1, <2>2, SignalInv
<1>5. ASSUME pc' = pc
      PROVE  MutexInv' /\ HandshakeInv' /\ \A u \in Threads : Blocked(u)' <=> Blocked(u)
  BY <1>1, <1>3, <1>5 DEF MutexInv, HandshakeInv, Blocked
<1>6. CASE ReaderCloses \/ onATReaderClosed
  <2>1. pc' \in Signalled(pc) /\ UNCHANGED pendingVars
    BY <1>6 DEF ReaderCloses, onATReaderClosed
  <2>2. ~intruded' => OwnerInv'
    BY <1>1, <1>3, <1>4, <2>1 DEF OwnerInv, NoLostWakeup, pendingVars
  <2> QED  BY <1>1, <1>3, <1>4, <2>1, <2>2 DEF Ownership, SegvOnlyIntruded
<1>7. CASE ReadLine \/ ReadFails \/ onReaderClosed \/ CallbackCloses
  <2>1. UNCHANGED <<pc, pendingVars, s_readerClosed>>
    BY <1>7 DEF ReadLine, ReadFails, onReaderClosed, CallbackCloses, closeVars
  <2>2. ~intruded' => OwnerInv'
    BY <1>1, <1>3, <2>1 DEF OwnerInv, NoLostWakeup, Blocked, pendingVars
  <2> QED  BY <1>1, <1>3, <1>5, <2>1, <2>2 DEF Ownership, SegvOnlyIntruded
<1>8. CASE processLine
  <2> DEFINE line == reader.line
  <2>1. UNCHANGED s_readerClosed  BY <1>8 DEF processLine, closeVars
  <2>2. CASE UNCHANGED <<pc, sp_response>>
    <3>1. ~intruded' => OwnerInv'
      BY <1>1, <1>3, <2>1, <2>2 DEF OwnerInv, NoLostWakeup, Blocked
    <3> QED  BY <1>1, <1>3, <1>5, <2>2, <3>1 DEF Ownership, SegvOnlyIntruded
  <2>3. CASE sp_response # NULL /\ addIntermediate(line) /\ UNCHANGED pc
    <3>1. /\ sp_response'.owner = sp_response.owner
          /\ sp_response'.finalResponse = sp_response.finalResponse
      BY <1>2, <2>3 DEF addIntermediate, Response
    <3>2. ~intruded' => OwnerInv'
      <4> SUFFICES ASSUME ~intruded' PROVE OwnerInv'  OBVIOUS
      <4>1. OwnerInv /\ sp_response.owner # Nobody  BY <1>1, <1>3, <2>3 DEF OwnerInv
      <4> QED  BY <1>5, <2>1, <2>3, <3>1, <4>1 DEF OwnerInv, NoLostWakeup
    <3> QED  BY <1>1, <1>3, <1>5, <2>3, <3>2 DEF Ownership, SegvOnlyIntruded
  <2>4. CASE sp_response # NULL /\ \E ok \in BOOLEAN : handleFinalResponse(line, ok)
    <3>1. sp_response'.owner = sp_response.owner /\ pc' \in Signalled(pc)
      BY <1>2, <2>4 DEF handleFinalResponse, Response
    <3>2. ~intruded' => OwnerInv'
      <4> SUFFICES ASSUME ~intruded' PROVE OwnerInv'  OBVIOUS
      <4>1. OwnerInv /\ sp_response.owner # Nobody  BY <1>1, <1>3, <2>4 DEF OwnerInv
      <4> QED  BY <1>4, <2>1, <3>1, <4>1 DEF OwnerInv, NoLostWakeup
    <3> QED  BY <1>1, <1>3, <1>4, <3>1, <3>2 DEF Ownership, SegvOnlyIntruded
  <2>5. isFinalResponseSuccess(line) \in BOOLEAN  BY DEF isFinalResponseSuccess
  <2> QED  BY <1>8, <2>2, <2>3, <2>4, <2>5 DEF processLine
<1> QED  BY <1>6, <1>7, <1>8 DEF Reader

\* at_open, which sets intruded when it finds a pending command, and the modem.
LEMMA EnvironmentInv ==
    ASSUME IndInv, at_open \/ Modem \/ UNCHANGED vars
    PROVE  Ownership'
<1>1. /\ TypeOK /\ MutexInv /\ HandshakeInv /\ (~intruded => OwnerInv)
      /\ SegvOnlyIntruded /\ session >= 1
  BY DEF IndInv
<1>2. UNCHANGED <<pc, call, commandmutex, s_commandmutex, process>>
  BY DEF at_open, Modem, ModemInfo, ModemPrompt, ModemFinal, ModemHangup, ModemUrc, modemFrame,
         vars, callVars
<1>3. MutexInv' /\ HandshakeInv'  BY <1>1, <1>2 DEF MutexInv, HandshakeInv, Blocked
<1>4. CASE at_open
  <2>1. ~intruded' => OwnerInv'
    <3> SUFFICES ASSUME ~intruded' PROVE OwnerInv'  OBVIOUS
    <3>1. OwnerInv /\ sp_response = NULL /\ sp_response' = NULL
      BY <1>1, <1>4 DEF at_open, clearPendingCommand
    <3>2. \A u \in Threads : ~Blocked(u)  BY <3>1, NullFacts, ThreadsAssumption DEF OwnerInv
    <3> QED  BY <1>2, <3>1, <3>2, NullFacts, ThreadsAssumption DEF OwnerInv, NoLostWakeup, Blocked
  <2>2. intruded => intruded'  BY <1>4 DEF at_open
  <2>3. session' >= 1  BY <1>1, <1>4 DEF at_open, TypeOK, ChannelTypes
  <2> QED  BY <1>1, <1>2, <1>3, <2>1, <2>2, <2>3 DEF Ownership, SegvOnlyIntruded
<1>5. CASE Modem \/ UNCHANGED vars
  <2>1. UNCHANGED <<sp_response, s_readerClosed, session, intruded>>
    BY <1>5 DEF Modem, ModemInfo, ModemPrompt, ModemFinal, ModemHangup, ModemUrc, modemFrame,
                vars, pendingVars, closeVars, history
  <2>2. ~intruded' => OwnerInv'
    BY <1>1, <1>2, <2>1 DEF OwnerInv, NoLostWakeup, Blocked
  <2> QED  BY <1>1, <1>2, <1>3, <2>1, <2>2 DEF Ownership, SegvOnlyIntruded
<1> QED  BY <1>4, <1>5

\* The inductive invariant is preserved by every step.
LEMMA NextInv == IndInv /\ [Next]_vars => IndInv'
<1> SUFFICES ASSUME IndInv, [Next]_vars PROVE IndInv'  OBVIOUS
<1>1. TypeOK'  BY NextType DEF IndInv
<1>2. Ownership'
  BY ThreadInv, ReaderInv, EnvironmentInv DEF Next, Step, Terminating
<1> QED  BY <1>1, <1>2 DEF IndInv, Ownership

\* The inductive invariant holds throughout.
LEMMA Inductive == Spec => []IndInv
BY InitInv, NextInv, PTL DEF Spec

\* Whatever threads, handshakes and sessions there are: as long as neither
\* at_open nor a COMMAND_PENDING error has cleared a pending command, each
\* waiting thread owns the pending command and no wakeup is lost.
THEOREM OwnershipTheorem == Spec => []OwnedUnlessIntruded
<1>1. IndInv => OwnedUnlessIntruded
  BY DEF IndInv, OwnerInv, OwnedUnlessIntruded, PendingCommandOwned
<1> QED  BY <1>1, Inductive, PTL

\* The dereference of sp_response after a wait can crash only if the pending
\* command was cleared under its waiter.
THEOREM SegvTheorem == Spec => []SegvOnlyIntruded
<1>1. IndInv => SegvOnlyIntruded  BY DEF IndInv
<1> QED  BY <1>1, Inductive, PTL
-----------------------------------------------------------------------------
(* Without at_handshake, and with a single session, nothing is ever cleared  *)
(* under a waiter: commandmutex keeps a second command out.                  *)

\* No step clears a command of another thread if nobody calls at_handshake and
\* mainLoop opens the channel once: commandmutex keeps a second command out.
LEMMA NoIntrusionStep ==
    ASSUME Handshakers = {}, MaxSessions = 1, IndInv, ~intruded, [Next]_vars
    PROVE  ~intruded'
<1>1. /\ TypeOK /\ MutexInv /\ HandshakeInv /\ OwnerInv /\ session >= 1
  BY DEF IndInv
<1>2. ASSUME NEW t \in Threads, SendPending(t)  PROVE FALSE
  <2>1. MaySend(t) /\ sp_response # NULL  BY <1>2 DEF SendPending
  <2>2. pc[t] = "send" /\ commandmutex = t
    BY <1>1, <2>1 DEF MaySend, HandshakeInv, MutexInv
  <2>3. PICK u \in Threads : sp_response.owner = u
    <3>1. sp_response.owner \in Threads \cup {Nobody}
      BY <1>1 DEF TypeOK, PendingTypes, Response
    <3> QED  BY <1>1, <2>1, <3>1 DEF OwnerInv
  <2>4. Blocked(u)  BY <1>1, <2>3 DEF OwnerInv
  <2>5. call[u].via = "full"
    <3>1. call[u] \in Command  BY <1>1 DEF TypeOK, CallTypes
    <3>2. call[u].via \in {"full", "handshake"}  BY <3>1 DEF Command
    <3> QED  BY <1>1, <2>4, <3>2 DEF HandshakeInv
  <2>6. commandmutex = u  BY <1>1, <2>4, <2>5 DEF MutexInv
  <2> QED  BY <2>2, <2>4, <2>6 DEF Blocked
<1>3. ~at_open  BY <1>1 DEF at_open, TypeOK, ChannelTypes
<1>4. ASSUME NEW t \in Threads,
             \/ \E c \in Commands : Call(t, c)
             \/ CallHandshake(t) \/ Thread(t) \/ TimeoutFires(t) \/ SpuriousWakeup(t)
      PROVE  UNCHANGED intruded
  BY <1>2, <1>4 DEF Call, CallHandshake, Thread, TimeoutFires, SpuriousWakeup, LockCommandMutex,
       SendFails, SendWaits, TimedOut, WakeCrashes, WakeAgain, WakeReturns, HandshakePauseEnds,
       OnTimeoutCloses, at_close, OnTimeoutExits, history
<1>5. ASSUME Reader \/ Modem \/ UNCHANGED vars  PROVE UNCHANGED intruded
  BY <1>5 DEF Reader, ReadLine, ReadFails, processLine, onReaderClosed, ReaderCloses,
       CallbackCloses, onATReaderClosed, Modem, ModemInfo, ModemPrompt, ModemFinal, ModemHangup,
       ModemUrc, modemFrame, vars, history
<1> QED  BY <1>3, <1>4, <1>5 DEF Next, Step, Terminating

\* at_send_command_full alone, in one session: every waiting thread owns the
\* pending command, so none of them dereferences NULL.
THEOREM CommandMutexTheorem ==
    ASSUME Handshakers = {}, MaxSessions = 1
    PROVE  Spec => [](PendingCommandOwned /\ NoLostWakeup /\ process # "segv")
<1>1. Init => ~intruded  BY DEF Init
<1>2. IndInv /\ ~intruded /\ [Next]_vars => ~intruded'  BY NoIntrusionStep
<1>3. IndInv /\ ~intruded => PendingCommandOwned /\ NoLostWakeup /\ process # "segv"
  BY DEF IndInv, OwnerInv, PendingCommandOwned, SegvOnlyIntruded
<1> QED  BY <1>1, <1>2, <1>3, Inductive, PTL DEF Spec

-----------------------------------------------------------------------------
(* Which answer goes where: that the answer a caller gets is the modem's     *)
(* answer to its command.  The rest is about one session without             *)
(* at_handshake, in which commandmutex lets one command out at a time.       *)

\* A line that ends a command, and the response that waits for it.
Ends(line)   == line.kind \in {"OK", "ERROR"}
Expecting(k) == sp_response.id = k /\ sp_response.finalResponse = NoLine

\* The reader thread still reads.
Live == reader.at \in {"read", "read2", "process"}

\* A thread whose command timed out goes on to exit, and calls nothing else.
EndingInv ==
    \A t \in Threads : got[t].err = "TIMEOUT" <=> pc[t] \in {"onTimeout", "close", "exit"}

\* The modem says NO CARRIER only as it hangs up, never of its own accord.
CarrierHeld == "NO CARRIER" \notin UrcKinds

\* The modem does not end a command, or prompt for a message, of its own accord.
Genuine(line) ==
    /\ line.kind # "NO CARRIER"
    /\ Ends(line) \/ line.kind = "> " => line.id # 0

LinesInv ==
    /\ \A i \in DOMAIN wire : Genuine(wire[i])
    /\ reader.at = "process" => Genuine(reader.line)

\* What is on its way to the reader answers the pending command, and a final line
\* is the last that does.
TransitInv ==
    Live =>
      /\ \A i \in DOMAIN wire : wire[i].id # 0 => Expecting(wire[i].id)
      /\ \A i, j \in DOMAIN wire : i < j /\ Ends(wire[i]) => wire[j].id = 0
      /\ \A i \in DOMAIN wire : Ends(wire[i]) => modem = <<>>
      /\ reader.at = "process" =>
           /\ reader.line.id # 0 => Expecting(reader.line.id)
           /\ Ends(reader.line) => modem = <<>> /\ \A i \in DOMAIN wire : wire[i].id = 0

\* The modem works on the pending command or on none.
ModemInv ==
    modem # <<>> => Len(modem) = 1 /\ modem[1].id # 0 /\ Expecting(modem[1].id)

\* The reader stops, and the channel closes, only when the device is gone.
ClosedInv ==
    /\ hung => modem = <<>>
    /\ ~Live => hung
    /\ s_readerClosed \/ ~s_fd => ~Live

\* The pending response holds lines of its own command and notifications.
ResponseInv ==
    /\ sp_response.finalResponse # NoLine => sp_response.finalResponse.id = sp_response.id
    /\ \A i \in DOMAIN sp_response.p_intermediates :
          sp_response.p_intermediates[i].id \in {0, sp_response.id}
    /\ s_smsPDU # 0 => s_smsPDU = sp_response.id

Delivery == LinesInv /\ TransitInv /\ ModemInv /\ ClosedInv /\ ResponseInv

Delivered == AnswersMatch /\ PduAnswersPrompt

MatchInv ==
    /\ IndInv /\ ~intruded /\ EndingInv
    /\ ~TimeoutSeen => Delivery /\ Delivered

-----------------------------------------------------------------------------
(* Returning from a call.                                                    *)

\* A thread that returns from at_send_command_full_nolock came through
\* at_send_command_full.
LEMMA ReturnsFull ==
    ASSUME Handshakers = {}, IndInv, NEW t \in Threads, NEW err, NEW id, NEW r,
           NolockReturns(t, err, id, r), MaySend(t) \/ Blocked(t)
    PROVE  FullReturns(t, err, id, r)
<1>1. call[t].via # "handshake"
  BY DEF IndInv, MutexInv, HandshakeInv, MaySend, Blocked
<1> QED  BY <1>1 DEF NolockReturns

\* What it leaves in got and pc.
LEMMA FullFacts ==
    ASSUME TypeOK, NEW t \in Threads, NEW err, NEW id, NEW r, FullReturns(t, err, id, r)
    PROVE  /\ got'[t] = Outcome(call[t], err, id, r)
           /\ got'[t].err = "TIMEOUT" <=> err = "TIMEOUT"
           /\ pc'[t] = IF err = "TIMEOUT" THEN "onTimeout" ELSE "idle"
           /\ \A u \in Threads \ {t} : got'[u] = got[u] /\ pc'[u] = pc[u]
  BY DEF FullReturns, TypeOK, CallTypes, Outcome, InvalidResponse

\* The steps that return to the caller.
Returns(t) == SendPending(t) \/ SendFails(t) \/ TimedOut(t) \/ WakeReturns(t)

\* A thread's steps but those that return, send or close.
Calm(t) ==
    \/ \E c \in Commands : Call(t, c)
    \/ CallHandshake(t) \/ LockCommandMutex(t) \/ TimeoutFires(t) \/ SpuriousWakeup(t)
    \/ WakeCrashes(t) \/ WakeAgain(t) \/ HandshakePauseEnds(t) \/ OnTimeoutExits(t)

\* Such a step touches neither what is delivered nor who is on its way to exit.
LEMMA CalmFacts ==
    ASSUME TypeOK, NEW t \in Threads, Calm(t)
    PROVE  /\ UNCHANGED <<got, pendingVars, s_fd, s_readerClosed, reader, modemVars, ctrlZ>>
           /\ \A u \in Threads :
                 pc'[u] \in {"onTimeout", "close", "exit"} <=> pc[u] \in {"onTimeout", "close", "exit"}
<1>1. CASE \/ \E c \in Commands : Call(t, c)
           \/ CallHandshake(t) \/ LockCommandMutex(t) \/ TimeoutFires(t) \/ SpuriousWakeup(t)
  BY <1>1 DEF Call, CallHandshake, LockCommandMutex, TimeoutFires, SpuriousWakeup, TypeOK,
     CallTypes, callVars, closeVars, history
<1>2. CASE WakeCrashes(t) \/ WakeAgain(t) \/ HandshakePauseEnds(t) \/ OnTimeoutExits(t)
  BY <1>2 DEF WakeCrashes, WakeAgain, HandshakePauseEnds, OnTimeoutExits, TypeOK, CallTypes,
     callVars, closeVars, history
<1> QED  BY <1>1, <1>2 DEF Calm

\* The steps that return do so with an error, or with the pending response.
LEMMA ReturnsFacts ==
    ASSUME Handshakers = {}, IndInv, NEW t \in Threads, Returns(t)
    PROVE  \E err, id, r : FullReturns(t, err, id, r)
<1>1. PICK err, id, r : NolockReturns(t, err, id, r)
  BY DEF Returns, SendPending, SendFails, TimedOut, WakeReturns
<1>2. MaySend(t) \/ Blocked(t)
  BY DEF Returns, SendPending, SendFails, TimedOut, WakeReturns, Blocked
<1> QED  BY <1>1, <1>2, ReturnsFull

\* A thread that returns was not on its way to exit, and one that is stays there.
LEMMA EndingStep ==
    ASSUME Handshakers = {}, MaxSessions = 1, IndInv, EndingInv, [Next]_vars
    PROVE  EndingInv' /\ (TimeoutSeen => TimeoutSeen')
<1> USE DEF EndingInv, TimeoutSeen
<1>0. TypeOK /\ session >= 1 /\ pc \in [Threads -> PcStates]
  BY DEF IndInv, TypeOK, CallTypes
<1>1. ASSUME NEW t \in Threads, Calm(t)  PROVE EndingInv' /\ (TimeoutSeen => TimeoutSeen')
  BY <1>0, <1>1, CalmFacts
<1>2. ASSUME NEW t \in Threads, Returns(t)  PROVE EndingInv' /\ (TimeoutSeen => TimeoutSeen')
  <2>1. PICK err, id, r : FullReturns(t, err, id, r)  BY <1>2, ReturnsFacts
  <2>2. pc[t] \notin {"onTimeout", "close", "exit"}
    BY <1>2 DEF Returns, SendPending, SendFails, TimedOut, WakeReturns, MaySend
  <2>3. /\ got'[t].err = "TIMEOUT" <=> pc'[t] \in {"onTimeout", "close", "exit"}
        /\ \A u \in Threads \ {t} : got'[u] = got[u] /\ pc'[u] = pc[u]
    BY <1>0, <2>1, FullFacts
  <2>4. TimeoutSeen => TimeoutSeen'
    <3> SUFFICES ASSUME NEW u \in Threads, got[u].err = "TIMEOUT" PROVE TimeoutSeen'  OBVIOUS
    <3>1. u # t  BY <2>2
    <3> QED  BY <2>3, <3>1
  <2> QED  BY <2>3, <2>4
<1>3. ASSUME NEW t \in Threads, SendWaits(t)  PROVE EndingInv' /\ (TimeoutSeen => TimeoutSeen')
  BY <1>0, <1>3 DEF SendWaits, MaySend, callVars
<1>4. ASSUME NEW t \in Threads, OnTimeoutCloses(t)  PROVE EndingInv' /\ (TimeoutSeen => TimeoutSeen')
  BY <1>0, <1>4 DEF OnTimeoutCloses, callVars
<1>5. ASSUME NEW t \in Threads, at_close(t)  PROVE EndingInv' /\ (TimeoutSeen => TimeoutSeen')
  <2> DEFINE p == [pc EXCEPT ![t] = "exit"]
  <2>1. p \in [Threads -> PcStates]  BY <1>0 DEF PcStates
  <2>2. \A u \in Threads : pc'[u] = p[u] \/ (p[u] = "wait" /\ pc'[u] = "woken")
    BY <1>5, <2>1, SignalledFacts DEF at_close
  <2> QED  BY <1>0, <1>5, <2>2 DEF at_close, callVars
<1>6. CASE Reader
  <2>1. got' = got /\ (pc' = pc \/ pc' \in Signalled(pc))
    BY <1>6 DEF Reader, ReadLine, ReadFails, processLine, handleFinalResponse, onReaderClosed,
       ReaderCloses, CallbackCloses, onATReaderClosed, readerFrame, callVars
  <2>2. \A u \in Threads : pc'[u] = pc[u] \/ (pc[u] = "wait" /\ pc'[u] = "woken")
    BY <1>0, <2>1, SignalledFacts
  <2> QED  BY <2>1, <2>2
<1>7. CASE Modem \/ at_open \/ UNCHANGED vars
  BY <1>7 DEF Modem, ModemInfo, ModemPrompt, ModemFinal, ModemHangup, ModemUrc, modemFrame,
     at_open, vars, callVars
<1> QED
  BY <1>1, <1>2, <1>3, <1>4, <1>5, <1>6, <1>7
  DEF Next, Step, Terminating, Thread, Calm, Returns

-----------------------------------------------------------------------------
(* The steps of a thread.                                                    *)

\* What the invariants are about.
delivery == <<wire, reader, modem, hung, s_fd, s_readerClosed, sp_response, s_smsPDU, got, ctrlZ>>

\* A step that leaves them alone keeps the invariants.
LEMMA DeliverySame ==
    ASSUME Delivery, Delivered, UNCHANGED delivery
    PROVE  Delivery' /\ Delivered'
  BY DEF delivery, Delivery, Delivered, LinesInv, TransitInv, ModemInv, ClosedInv, ResponseInv,
     Expecting, Live, AnswersMatch, PduAnswersPrompt

\* The response a caller gets is empty or that of its own command.
LEMMA OutcomeMatches ==
    ASSUME PendingTypes, ResponseInv, NEW c, NEW err
    PROVE  ~Mismatched(Outcome(c, err, sp_response.id, reverseIntermediates(sp_response)))
<1> SUFFICES ASSUME NEW r, r = reverseIntermediates(sp_response)
             PROVE  ~Mismatched(Outcome(c, err, sp_response.id, r))
  OBVIOUS
<1> DEFINE s == sp_response.p_intermediates
<1>1. sp_response \in Response /\ s \in Seq(Line)  BY DEF PendingTypes, Response
<1>2. /\ r.finalResponse = sp_response.finalResponse
      /\ r.p_intermediates = [i \in 1..Len(s) |-> s[Len(s) + 1 - i]]
  BY <1>1 DEF reverseIntermediates, Response
<1>3. \A i \in DOMAIN r.p_intermediates : r.p_intermediates[i].id \in {0, sp_response.id}
  <2> TAKE i \in DOMAIN r.p_intermediates
  <2>1. i \in 1..Len(s) /\ r.p_intermediates[i] = s[Len(s) + 1 - i]  BY <1>2
  <2>2. Len(s) + 1 - i \in DOMAIN s  BY <1>1, <2>1
  <2> QED  BY <2>1, <2>2 DEF ResponseInv
<1>4. Outcome(c, err, sp_response.id, r).id = sp_response.id
      /\ Outcome(c, err, sp_response.id, r).response \in {NULL, r}
  BY DEF Outcome
<1> QED  BY <1>2, <1>3, <1>4, NullFacts DEF Mismatched, ResponseInv

\* An empty response matches.
LEMMA NullMatches ==
    ASSUME NEW c, NEW err, NEW id PROVE ~Mismatched(Outcome(c, err, id, NULL))
<1>1. Outcome(c, err, id, NULL).response = NULL  BY DEF Outcome
<1> QED  BY <1>1, NullFacts DEF Mismatched

\* No answer is under way when no command is pending, or its final line is in.
LEMMA NothingExpected ==
    ASSUME ModemTypes, TransitInv, ModemInv, sp_response = NULL \/ sp_response.finalResponse # NoLine
    PROVE  /\ modem = <<>>
           /\ Live => \A i \in DOMAIN wire : wire[i].id = 0
           /\ Live /\ reader.at = "process" => reader.line.id = 0
<1>1. \A k : k # 0 => ~Expecting(k)
  BY DEF Expecting, NULL
<1> QED  BY <1>1 DEF ModemInv, TransitInv

\* The pending command is cleared when nothing is expected for it.
LEMMA ClearedDelivery ==
    ASSUME TypeOK, Delivery, clearPendingCommand,
           sp_response = NULL \/ sp_response.finalResponse # NoLine \/ s_readerClosed,
           UNCHANGED <<wire, reader, modem, hung, s_fd, s_readerClosed>>
    PROVE  Delivery'
<1>1. modem = <<>> /\ (Live => \A i \in DOMAIN wire : wire[i].id = 0)
      /\ (reader.at = "process" => reader.line.id = 0)
  <2>1. CASE s_readerClosed  BY <2>1 DEF Delivery, ClosedInv, Live
  <2>2. CASE ~s_readerClosed  BY <2>2, NothingExpected DEF TypeOK, Delivery, Live
  <2> QED  BY <2>1, <2>2
<1>2. LinesInv' /\ ClosedInv'  BY DEF Delivery, LinesInv, ClosedInv, Live
<1>3. TransitInv' /\ ModemInv'  BY <1>1 DEF TransitInv, ModemInv, Live
<1>4. ResponseInv'
  <2>1. sp_response' = NULL /\ s_smsPDU' = 0  BY DEF clearPendingCommand
  <2>2. NULL.finalResponse = NoLine /\ NULL.p_intermediates = <<>>  BY NullFacts DEF NULL
  <2> QED  BY <2>1, <2>2 DEF ResponseInv
<1> QED  BY <1>2, <1>3, <1>4 DEF Delivery

\* A thread that returns, without a timeout, hands its caller a response of its own.
LEMMA ReturnsDeliver ==
    ASSUME Handshakers = {}, IndInv, ~intruded, Delivery, Delivered,
           NEW t \in Threads, Returns(t), ~intruded', ~TimeoutSeen'
    PROVE  Delivery' /\ Delivered'
<1>0. TypeOK /\ OwnerInv  BY DEF IndInv
<1>1. UNCHANGED <<wire, reader, modem, hung, s_fd, s_readerClosed, ctrlZ>> /\ clearPendingCommand
  BY DEF Returns, SendPending, SendFails, TimedOut, WakeReturns, closeVars, modemVars, history
<1>2. ~SendPending(t)  BY DEF SendPending
<1>3. ~TimedOut(t)
  <2> SUFFICES ASSUME TimedOut(t) PROVE FALSE  OBVIOUS
  <2>1. FullReturns(t, "TIMEOUT", 0, NULL)
    BY ReturnsFull DEF TimedOut, Blocked
  <2> QED  BY <1>0, <2>1, FullFacts DEF TimeoutSeen
<1>4. CASE SendFails(t)
  <2>1. PICK err \in writelineErrors : NolockReturns(t, err, 0, NULL)
    BY <1>4 DEF SendFails
  <2>2. FullReturns(t, err, 0, NULL)  BY <1>4, <2>1, ReturnsFull DEF SendFails
  <2>3. AnswersMatch'  BY <1>0, <2>2, FullFacts, NullMatches DEF Delivered, AnswersMatch
  <2>4. Delivery'  BY <1>0, <1>1, <1>4, ClearedDelivery DEF SendFails
  <2> QED  BY <1>1, <2>3, <2>4 DEF Delivered, PduAnswersPrompt
<1>5. CASE WakeReturns(t)
  <2>1. PICK err : NolockReturns(t, err, sp_response.id, reverseIntermediates(sp_response))
    BY <1>5 DEF WakeReturns
  <2>2. FullReturns(t, err, sp_response.id, reverseIntermediates(sp_response))
    BY <1>5, <2>1, ReturnsFull DEF WakeReturns, Blocked
  <2>3. AnswersMatch'
    BY <1>0, <2>2, FullFacts, OutcomeMatches DEF Delivery, Delivered, AnswersMatch, TypeOK
  <2>4. Delivery'  BY <1>0, <1>1, <1>5, ClearedDelivery DEF WakeReturns
  <2> QED  BY <1>1, <2>3, <2>4 DEF Delivered, PduAnswersPrompt
<1> QED  BY <1>2, <1>3, <1>4, <1>5 DEF Returns

\* A command is sent when nothing else is under way.
LEMMA SendDelivers ==
    ASSUME IndInv, Delivery, Delivered, NEW t \in Threads, SendWaits(t)
    PROVE  Delivery' /\ Delivered'
<1>0. TypeOK /\ sent \in Nat  BY DEF IndInv, TypeOK, HistoryTypes
<1>1. /\ UNCHANGED <<wire, reader, hung, s_fd, s_readerClosed, got, ctrlZ>>
      /\ sp_response = NULL /\ ~hung
  BY DEF SendWaits, closeVars, callVars, writelineErrors
<1>2. modem = <<>> /\ (Live => \A i \in DOMAIN wire : wire[i].id = 0)
      /\ (reader.at = "process" => reader.line.id = 0)
  BY <1>0, <1>1, NothingExpected DEF TypeOK, Delivery, Live
<1>3. /\ sp_response'.id = sent + 1 /\ sp_response'.finalResponse = NoLine
      /\ sp_response'.p_intermediates = <<>> /\ s_smsPDU' \in {0, sent + 1}
  BY DEF SendWaits, NULL
<1>4. Len(modem') = 1 /\ modem'[1].id = sent + 1
  BY <1>2 DEF SendWaits
<1>5. LinesInv' /\ ClosedInv'  BY <1>1 DEF Delivery, LinesInv, ClosedInv, Live
<1>6. ModemInv'  BY <1>0, <1>3, <1>4 DEF ModemInv, Expecting
<1>7. TransitInv'
  <2>1. Live => (\A i \in DOMAIN wire : ~Ends(wire[i])) /\ (reader.at = "process" => ~Ends(reader.line))
    BY <1>2 DEF Delivery, LinesInv, Genuine
  <2> QED  BY <1>1, <1>2, <2>1 DEF TransitInv, Live
<1>8. ResponseInv'  BY <1>3 DEF ResponseInv
<1>9. Delivered'  BY <1>1 DEF Delivered, AnswersMatch, PduAnswersPrompt
<1> QED  BY <1>5, <1>6, <1>7, <1>8, <1>9 DEF Delivery

-----------------------------------------------------------------------------
(* The steps of the reader and of the modem.                                 *)

\* readline takes the first line of the wire.
LEMMA ReadDelivers ==
    ASSUME TypeOK, Delivery, ReadLine
    PROVE  Delivery'
<1>0. wire \in Seq(Line) /\ wire # <<>>  BY DEF TypeOK, ModemTypes, ReadLine
<1>1. /\ UNCHANGED <<modem, hung, s_fd, s_readerClosed, sp_response, s_smsPDU>>
      /\ Live /\ Live' /\ reader.at # "process"
      /\ reader'.line = wire[1] /\ wire' = Tail(wire)
  BY <1>0 DEF ReadLine, readerFrame, closeVars, pendingVars, Live
<1>2. /\ 1 \in DOMAIN wire
      /\ \A i \in DOMAIN wire' : i + 1 \in DOMAIN wire /\ wire'[i] = wire[i + 1]
                                 /\ i \in DOMAIN wire
      /\ \A i \in DOMAIN wire : i \in Nat /\ i >= 1
      /\ DOMAIN wire' \subseteq DOMAIN wire
  BY <1>0, <1>1
<1>3. LinesInv'  BY <1>1, <1>2 DEF Delivery, LinesInv
<1>4. TransitInv'
  <2>1. \A k : Expecting(k)' <=> Expecting(k)  BY <1>1 DEF Expecting
  <2>2. \A i \in DOMAIN wire' : wire'[i].id # 0 => Expecting(wire'[i].id)
    BY <1>1, <1>2 DEF Delivery, TransitInv
  <2>3. \A i, j \in DOMAIN wire' : i < j /\ Ends(wire'[i]) => wire'[j].id = 0
    <3> TAKE i, j \in DOMAIN wire'
    <3>1. i < j => i + 1 < j + 1  BY <1>2
    <3> QED  BY <1>1, <1>2, <3>1 DEF Delivery, TransitInv
  <2>4. \A i \in DOMAIN wire' : Ends(wire'[i]) => modem' = <<>>
    BY <1>1, <1>2 DEF Delivery, TransitInv
  <2>5. reader'.line.id # 0 => Expecting(reader'.line.id)
    BY <1>1, <1>2 DEF Delivery, TransitInv
  <2>6. Ends(reader'.line) => modem' = <<>> /\ \A i \in DOMAIN wire' : wire'[i].id = 0
    <3>1. \A i \in DOMAIN wire' : 1 < i + 1  BY <1>2
    <3> QED  BY <1>1, <1>2, <3>1 DEF Delivery, TransitInv
  <2> QED  BY <2>1, <2>2, <2>3, <2>4, <2>5, <2>6 DEF TransitInv, Ends
<1>5. ModemInv' /\ ClosedInv' /\ ResponseInv'
  BY <1>1 DEF Delivery, ModemInv, ClosedInv, ResponseInv, Expecting, Live
<1> QED  BY <1>3, <1>4, <1>5 DEF Delivery

\* The reader's end.
LEMMA ReaderEnds ==
    ASSUME TypeOK, Delivery,
           ReadFails \/ onReaderClosed \/ ReaderCloses \/ CallbackCloses \/ onATReaderClosed
    PROVE  Delivery'
<1>0. reader \in [at: ReaderStates, line: Line]  BY DEF TypeOK, ChannelTypes
<1>1. UNCHANGED <<wire, modem, hung, sp_response, s_smsPDU>> /\ ~Live'
  BY <1>0 DEF ReadFails, onReaderClosed, ReaderCloses, CallbackCloses, onATReaderClosed,
     readerFrame, pendingVars, Live
<1>2. hung
  BY DEF Delivery, ClosedInv, Live, ReadFails, onReaderClosed, ReaderCloses, CallbackCloses,
     onATReaderClosed
<1>3. LinesInv' /\ TransitInv' /\ ModemInv' /\ ClosedInv' /\ ResponseInv'
  BY <1>1, <1>2 DEF Delivery, LinesInv, TransitInv, ModemInv, ClosedInv, ResponseInv, Expecting, Live
<1> QED  BY <1>3 DEF Delivery

\* processLine: a final or an intermediate line is added to the response of its
\* own command, and a prompt releases the message of its own command.
LEMMA ProcessDelivers ==
    ASSUME TypeOK, Delivery, Delivered, processLine
    PROVE  Delivery' /\ Delivered'
<1> DEFINE line == reader.line
<1>0. /\ sp_response \in Response /\ modem \in Seq(ModemEntry)
      /\ reader.at = "process" /\ reader'.at = "read" /\ Live /\ Live'
  BY DEF TypeOK, PendingTypes, ModemTypes, processLine, Live
<1>1. UNCHANGED <<wire, hung, s_fd, s_readerClosed, got>>
  BY DEF processLine, readerFrame, closeVars, callVars
<1>2. /\ Genuine(line) /\ (line.id # 0 => Expecting(line.id))
      /\ Ends(line) => modem = <<>> /\ \A i \in DOMAIN wire : wire[i].id = 0
  BY <1>0 DEF Delivery, LinesInv, TransitInv
<1>3. LinesInv'  BY <1>0, <1>1 DEF Delivery, LinesInv
<1>4. AnswersMatch'  BY <1>1 DEF Delivered, AnswersMatch
<1>5. CASE UNCHANGED <<sp_response, s_smsPDU, modem, ctrlZ>>
  <2>1. TransitInv' /\ ModemInv' /\ ClosedInv' /\ ResponseInv' /\ PduAnswersPrompt'
    BY <1>0, <1>1, <1>5 DEF Delivery, TransitInv, ModemInv, ClosedInv, ResponseInv, Expecting, Live,
       Delivered, PduAnswersPrompt
  <2> QED  BY <1>3, <1>4, <2>1 DEF Delivery, Delivered
<1>6. CASE /\ sp_response # NULL /\ ~isUnsolicited(line)
           /\ isFinalResponseSuccess(line) \/ isFinalResponseError(line)
           /\ handleFinalResponse(line, isFinalResponseSuccess(line))
           /\ UNCHANGED <<s_smsPDU, modem, ctrlZ>>
  <2>1. Ends(line)
    BY <1>2, <1>6 DEF isUnsolicited, isFinalResponseSuccess, isFinalResponseError, Genuine, Ends
  <2>2. line.id = sp_response.id /\ modem = <<>> /\ \A i \in DOMAIN wire : wire[i].id = 0
    BY <1>2, <2>1 DEF Genuine, Expecting
  <2>3. /\ sp_response'.id = sp_response.id /\ sp_response'.finalResponse = line
        /\ sp_response'.p_intermediates = sp_response.p_intermediates
    BY <1>0, <1>6 DEF handleFinalResponse, Response
  <2>4. TransitInv' /\ ModemInv' /\ ClosedInv' /\ ResponseInv' /\ PduAnswersPrompt'
    BY <1>0, <1>1, <1>6, <2>2, <2>3 DEF Delivery, TransitInv, ModemInv, ClosedInv, ResponseInv, Live,
       Delivered, PduAnswersPrompt
  <2> QED  BY <1>3, <1>4, <2>4 DEF Delivery, Delivered
<1>7. CASE IsPrompt(line) /\ writeCtrlZ(line) /\ s_smsPDU' = 0 /\ UNCHANGED sp_response
  <2>1. line.id # 0 /\ line.id = sp_response.id /\ s_smsPDU = sp_response.id
    BY <1>2, <1>7 DEF IsPrompt, Genuine, Expecting, Delivery, ResponseInv
  <2>2. PduAnswersPrompt'
    BY <1>7, <2>1 DEF writeCtrlZ, Delivered, PduAnswersPrompt
  <2>3. Len(modem') = Len(modem) /\ (modem' # <<>> <=> modem # <<>>)
        /\ (modem # <<>> => modem'[1].id = modem[1].id)
    <3>1. CASE UNCHANGED modem  BY <3>1
    <3>2. CASE ~UNCHANGED modem
      <4> DEFINE M(i) == IF i = 1 /\ modem[i].stage = "prompted"
                           THEN [modem[i] EXCEPT !.stage = "run"] ELSE modem[i]
      <4>1. modem' = [i \in 1..Len(modem) |-> M(i)]  BY <1>0, <1>7, <3>2 DEF writeCtrlZ
      <4>2. modem # <<>> => M(1).id = modem[1].id
        <5>1. modem # <<>> => modem[1] \in ModemEntry  BY <1>0
        <5> QED  BY <5>1 DEF ModemEntry
      <4>3. modem # <<>> <=> 1 \in 1..Len(modem)  BY <1>0
      <4>4. DOMAIN modem' = 1..Len(modem) /\ Len(modem) \in Nat  BY <1>0, <4>1
      <4>5. Len(modem') = Len(modem) /\ (modem' # <<>> <=> modem # <<>>)
        <5> HIDE DEF M
        <5>1. modem' \in Seq({M(i) : i \in 1..Len(modem)})  BY <1>0, <4>1
        <5> QED  BY <1>0, <4>4, <5>1
      <4>6. modem # <<>> => modem'[1] = M(1)
        <5> HIDE DEF M
        <5> QED  BY <4>1, <4>3
      <4> HIDE DEF M
      <4> QED  BY <4>2, <4>5, <4>6
    <3> QED  BY <3>1, <3>2
  <2>4. TransitInv' /\ ModemInv' /\ ClosedInv' /\ ResponseInv'
    BY <1>0, <1>1, <1>7, <2>3 DEF Delivery, TransitInv, ModemInv, ClosedInv, ResponseInv, Expecting,
       Live
  <2> QED  BY <1>3, <1>4, <2>2, <2>4 DEF Delivery, Delivered
<1>8. CASE sp_response # NULL /\ addIntermediate(line) /\ UNCHANGED <<s_smsPDU, modem, ctrlZ>>
  <2>1. line.id \in {0, sp_response.id}  BY <1>2 DEF Expecting
  <2>2. /\ sp_response'.id = sp_response.id
        /\ sp_response'.finalResponse = sp_response.finalResponse
        /\ sp_response'.p_intermediates = <<line>> \o sp_response.p_intermediates
    BY <1>0, <1>8 DEF addIntermediate, Response
  <2>3. \A i \in DOMAIN sp_response'.p_intermediates :
           sp_response'.p_intermediates[i].id \in {0, sp_response.id}
    <3> DEFINE s == sp_response.p_intermediates
               q == <<line>> \o s
    <3>1. s \in Seq(Line) /\ line \in Line
      BY <1>0 DEF Response, TypeOK, ChannelTypes
    <3>2. \A i \in DOMAIN q : q[i] = line \/ (i - 1 \in DOMAIN s /\ q[i] = s[i - 1])
      BY <3>1
    <3>3. \A i \in DOMAIN s : s[i].id \in {0, sp_response.id}
      BY DEF Delivery, ResponseInv
    <3> HIDE DEF s, q
    <3>4. \A i \in DOMAIN q : q[i].id \in {0, sp_response.id}
      BY <2>1, <3>2, <3>3
    <3> QED  BY <2>2, <3>4 DEF q, s
  <2>4. TransitInv' /\ ModemInv' /\ ClosedInv' /\ ResponseInv' /\ PduAnswersPrompt'
    BY <1>0, <1>1, <1>8, <2>2, <2>3 DEF Delivery, TransitInv, ModemInv, ClosedInv, ResponseInv,
       Expecting, Live, Delivered, PduAnswersPrompt
  <2> QED  BY <1>3, <1>4, <2>4 DEF Delivery, Delivered
<1> QED  BY <1>5, <1>6, <1>7, <1>8 DEF processLine

\* A modem that sends one more line, of the pending command or of none.
LEMMA AppendDelivers ==
    ASSUME TypeOK, Delivery, NEW x \in Line, wire' = Append(wire, x),
           Genuine(x), x.id # 0 => Expecting(x.id),
           x.id # 0 /\ Live => /\ \A i \in DOMAIN wire : ~Ends(wire[i])
                               /\ reader.at = "process" => ~Ends(reader.line),
           Ends(x) => modem' = <<>>, modem = <<>> => modem' = <<>>,
           UNCHANGED <<reader, sp_response>>
    PROVE  LinesInv' /\ TransitInv'
<1>0. wire \in Seq(Line)  BY DEF TypeOK, ModemTypes
<1>1. \A i \in DOMAIN wire' : \/ i \in DOMAIN wire /\ wire'[i] = wire[i]
                              \/ i = Len(wire) + 1 /\ wire'[i] = x
  BY <1>0
<1>2. \A i \in DOMAIN wire : i \in Nat /\ i < Len(wire) + 1
  BY <1>0
<1>3. LinesInv'  BY <1>1 DEF Delivery, LinesInv
<1>4. TransitInv'
  <2> SUFFICES ASSUME Live PROVE TransitInv'  BY DEF TransitInv, Live
  <2>1. \A i \in DOMAIN wire' : wire'[i].id # 0 => Expecting(wire'[i].id)
    BY <1>1 DEF Delivery, TransitInv
  <2>2. \A i, j \in DOMAIN wire' : i < j /\ Ends(wire'[i]) => wire'[j].id = 0
    <3> TAKE i, j \in DOMAIN wire'
    <3> SUFFICES ASSUME i < j, Ends(wire'[i]) PROVE wire'[j].id = 0  OBVIOUS
    <3>1. i \in DOMAIN wire /\ wire'[i] = wire[i]
      <4>1. CASE j \in DOMAIN wire  BY <1>0, <1>1, <1>2, <4>1
      <4>2. CASE j = Len(wire) + 1  BY <1>0, <1>1, <1>2, <4>2
      <4> QED  BY <1>1, <4>1, <4>2
    <3>2. CASE j \in DOMAIN wire /\ wire'[j] = wire[j]
      BY <3>1, <3>2 DEF Delivery, TransitInv
    <3>3. CASE wire'[j] = x
      <4>1. Ends(wire[i])  BY <3>1 DEF Ends
      <4> QED  BY <3>1, <3>3, <4>1
    <3> QED  BY <1>1, <3>2, <3>3
  <2>3. \A i \in DOMAIN wire' : Ends(wire'[i]) => modem' = <<>>
    BY <1>1 DEF Delivery, TransitInv
  <2>4. reader.at = "process" =>
           /\ reader.line.id # 0 => Expecting(reader.line.id)
           /\ Ends(reader.line) => modem' = <<>> /\ \A i \in DOMAIN wire' : wire'[i].id = 0
    <3> SUFFICES ASSUME reader.at = "process"
                 PROVE  /\ reader.line.id # 0 => Expecting(reader.line.id)
                        /\ Ends(reader.line) => /\ modem' = <<>>
                                                 /\ \A i \in DOMAIN wire' : wire'[i].id = 0
      OBVIOUS
    <3>1. /\ reader.line.id # 0 => Expecting(reader.line.id)
          /\ Ends(reader.line) => modem = <<>> /\ \A i \in DOMAIN wire : wire[i].id = 0
      BY DEF Delivery, TransitInv
    <3>2. Ends(reader.line) => x.id = 0  OBVIOUS
    <3> QED  BY <1>1, <3>1, <3>2
  <2>5. \A k : Expecting(k)' <=> Expecting(k)  BY DEF Expecting
  <2> QED  BY <2>1, <2>2, <2>3, <2>4, <2>5 DEF TransitInv, Live, Ends
<1> QED  BY <1>3, <1>4

\* A queue of one entry: an update keeps its length ...
LEMMA SingletonUpdate ==
    ASSUME NEW S, NEW s \in Seq(S), Len(s) = 1, NEW e \in S
    PROVE  /\ [s EXCEPT ![1] = e] # <<>>
           /\ Len([s EXCEPT ![1] = e]) = 1
           /\ [s EXCEPT ![1] = e][1] = e
<1> DEFINE x == [s EXCEPT ![1] = e]
<1>1. 1 \in 1..Len(s)  OBVIOUS
<1>2. x \in Seq(S) /\ Len(x) = Len(s) /\ x[1] = e  BY <1>1, ExceptSeq
<1> HIDE DEF x
<1>3. Len(x) # Len(<<>>)  BY <1>2, EmptySeq
<1>4. x # <<>>  BY <1>3, Zenon
<1> QED  BY <1>2, <1>4 DEF x

\* ... and its tail is empty.
LEMMA SingletonTail ==
    ASSUME NEW S, NEW s \in Seq(S), Len(s) = 1
    PROVE  Tail(s) = <<>>
<1>1. s # <<>>  OBVIOUS
<1>2. Tail(s) \in Seq(S) /\ Len(Tail(s)) = 0  BY <1>1, HeadTailProperties
<1> QED  BY <1>2, EmptySeq

\* What the modem sends answers the command it works on.
LEMMA ModemDelivers ==
    ASSUME CarrierHeld, TypeOK, Delivery, Modem
    PROVE  Delivery'
<1>a. modem \in Seq(ModemEntry) /\ wire \in Seq(Line)  BY DEF TypeOK, ModemTypes
<1>b. modem # <<>> => Head(modem) = modem[1] /\ modem[1] \in ModemEntry
  <2> SUFFICES ASSUME modem # <<>> PROVE Head(modem) = modem[1] /\ modem[1] \in ModemEntry
    OBVIOUS
  <2> QED  BY <1>a
<1>0. /\ modem \in Seq(ModemEntry) /\ wire \in Seq(Line)
      /\ modem # <<>> => Head(modem) = modem[1] /\ modem[1] \in ModemEntry
  BY <1>a, <1>b
<1>1. UNCHANGED <<reader, sp_response, s_smsPDU, s_fd, s_readerClosed>>
  BY DEF Modem, ModemInfo, ModemPrompt, ModemFinal, ModemHangup, ModemUrc, modemFrame,
     pendingVars, closeVars
<1>2. ResponseInv'  BY <1>1 DEF Delivery, ResponseInv
<1>3. \A k : Expecting(k)' <=> Expecting(k)  BY <1>1 DEF Expecting
<1>4. modem # <<>> =>
         /\ modem[1].id # 0 /\ Expecting(modem[1].id) /\ Len(modem) = 1
         /\ Live => /\ \A i \in DOMAIN wire : ~Ends(wire[i])
                    /\ reader.at = "process" => ~Ends(reader.line)
  BY DEF Delivery, ModemInv, TransitInv
<1>5. CASE ModemInfo \/ ModemPrompt
  <2>1. /\ modem # <<>> /\ hung' = hung /\ ~hung
        /\ modem' # <<>> /\ Len(modem') = 1 /\ modem'[1].id = modem[1].id
    <3>1. modem # <<>> /\ hung' = hung /\ ~hung
      BY <1>5 DEF ModemInfo, ModemPrompt
    <3>2. \E e \in ModemEntry : modem' = [modem EXCEPT ![1] = e] /\ e.id = modem[1].id
      <4>1. CASE ModemInfo
        <5>1. modem' = [modem EXCEPT ![1] = [modem[1] EXCEPT !.infos = modem[1].infos + 1]]
          BY <4>1 DEF ModemInfo
        <5>2. /\ [modem[1] EXCEPT !.infos = modem[1].infos + 1] \in ModemEntry
              /\ [modem[1] EXCEPT !.infos = modem[1].infos + 1].id = modem[1].id
          <6> DEFINE n == modem[1].infos + 1
          <6>1. modem[1] \in ModemEntry  BY <1>0, <3>1
          <6>2. n \in Nat  BY <6>1 DEF ModemEntry
          <6> HIDE DEF n
          <6>3. /\ [modem[1] EXCEPT !.infos = n] \in ModemEntry
                /\ [modem[1] EXCEPT !.infos = n].id = modem[1].id
            BY <6>1, <6>2 DEF ModemEntry
          <6> QED  BY <6>3 DEF n
        <5> QED  BY <5>1, <5>2
      <4>2. CASE ModemPrompt
        <5>1. modem' = [modem EXCEPT ![1] = [modem[1] EXCEPT !.stage = "prompted"]]
          BY <4>2 DEF ModemPrompt
        <5>2. /\ [modem[1] EXCEPT !.stage = "prompted"] \in ModemEntry
              /\ [modem[1] EXCEPT !.stage = "prompted"].id = modem[1].id
          BY <1>0, <3>1 DEF ModemEntry
        <5> QED  BY <5>1, <5>2
      <4> QED  BY <1>5, <4>1, <4>2
    <3>3. PICK e \in ModemEntry : modem' = [modem EXCEPT ![1] = e] /\ e.id = modem[1].id  BY <3>2
    <3>4. modem \in Seq(ModemEntry) /\ Len(modem) = 1  BY <1>0, <1>4, <3>1
    <3>5. modem' # <<>> /\ Len(modem') = 1 /\ modem'[1] = e  BY <3>3, <3>4, SingletonUpdate
    <3> QED  BY <3>1, <3>3, <3>5
  <2>2. PICK kind \in {"digits", "info", "> "}, n \in Nat : wire' = Append(wire, Answer(kind, modem[1], n))
    <3>1. CASE ModemInfo
      <4>1. modem # <<>> /\ Head(modem) = modem[1]  BY <1>0, <3>1 DEF ModemInfo
      <4>2. modem[1].infos + 1 \in Nat  BY <1>0, <4>1 DEF ModemEntry
      <4>3. \E kind \in {"digits", "info"} :
               wire' = Append(wire, Answer(kind, Head(modem), Head(modem).infos + 1))
        BY <3>1 DEF ModemInfo
      <4> QED  BY <4>1, <4>2, <4>3
    <3>2. CASE ModemPrompt
      <4>1. Head(modem) = modem[1]  BY <1>0, <3>2 DEF ModemPrompt
      <4>2. wire' = Append(wire, Answer("> ", Head(modem), 0))  BY <3>2 DEF ModemPrompt
      <4> QED  BY <4>1, <4>2
    <3> QED  BY <1>5, <3>1, <3>2
  <2>3. ModemInv' /\ ClosedInv'
    BY <1>1, <1>3, <1>4, <2>1 DEF Delivery, ModemInv, ClosedInv, Live
  <2>4. LinesInv' /\ TransitInv'
    <3>1. Answer(kind, modem[1], n) \in Line
      BY <1>0, <2>1 DEF Answer, Line, LineKinds, ModemEntry, Command
    <3>2. Genuine(Answer(kind, modem[1], n)) /\ Answer(kind, modem[1], n).id = modem[1].id
          /\ ~Ends(Answer(kind, modem[1], n))
      BY <1>4, <2>1 DEF Answer, Genuine, Ends
    <3> QED  BY <1>1, <1>4, <2>2, <2>1, <3>1, <3>2, AppendDelivers
  <2> QED  BY <1>2, <2>3, <2>4 DEF Delivery
<1>6. CASE ModemFinal
  <2>1. modem # <<>> /\ modem' = <<>> /\ hung' = hung
    <3>1. modem # <<>> /\ modem' = Tail(modem) /\ hung' = hung  BY <1>6 DEF ModemFinal
    <3>2. Len(modem) = 1  BY <1>4, <3>1
    <3>3. Tail(modem) = <<>>  BY <1>0, <3>2, SingletonTail
    <3> QED  BY <3>1, <3>3
  <2>2. PICK kind \in {"OK", "ERROR"} : wire' = Append(wire, Answer(kind, modem[1], modem[1].infos))
    BY <1>0, <1>6, <2>1 DEF ModemFinal
  <2>3. ModemInv' /\ ClosedInv'
    BY <1>1, <2>1 DEF Delivery, ModemInv, ClosedInv, Live
  <2>4. LinesInv' /\ TransitInv'
    <3> DEFINE x == Answer(kind, modem[1], modem[1].infos)
    <3>1. x \in Line
      BY <1>0, <2>1 DEF Answer, Line, LineKinds, ModemEntry, Command
    <3>2. Genuine(x) /\ x.id = modem[1].id
      BY <1>4, <2>1 DEF Answer, Genuine, Ends
    <3> HIDE DEF x
    <3> QED  BY <1>1, <1>4, <2>1, <2>2, <3>1, <3>2, AppendDelivers DEF x
  <2> QED  BY <1>2, <2>3, <2>4 DEF Delivery
<1>7. CASE ModemHangup
  <2>1. modem' = <<>> /\ hung' /\ wire' = wire  BY <1>7 DEF ModemHangup
  <2>2. LinesInv' /\ TransitInv' /\ ModemInv' /\ ClosedInv'
    BY <1>1, <1>3, <2>1 DEF Delivery, LinesInv, TransitInv, ModemInv, ClosedInv, Live
  <2> QED  BY <1>2, <2>2 DEF Delivery
<1>8. ASSUME NEW kind \in UrcKinds, ModemUrc(kind)
      PROVE  Delivery'
  <2>1. PICK lines \in UrcLines(kind) : wire' = wire \o lines
    BY <1>8 DEF ModemUrc
  <2>2. UNCHANGED <<modem, hung>>  BY <1>8 DEF ModemUrc
  <2>3. kind \in {"RING", "CONNECT", "+CMT", "+CREG"}  BY UrcAssumption, Zenon DEF CarrierHeld
  <2>4. \A k \in {"RING", "CONNECT", "+CMT", "PDU", "info"}, p \in Prefixes \cup {NoPrefix} :
           Urc(k, p) \in Line /\ Genuine(Urc(k, p)) /\ ~Ends(Urc(k, p)) /\ Urc(k, p).id = 0
    BY DEF Urc, Line, LineKinds, Genuine, Ends
  <2>5. lines \in Seq(Line) /\ \A i \in DOMAIN lines :
           Genuine(lines[i]) /\ ~Ends(lines[i]) /\ lines[i].id = 0
    <3> DEFINE Quiet(x) == x \in Line /\ Genuine(x) /\ ~Ends(x) /\ x.id = 0
    <3>1. \E x, y : Quiet(x) /\ Quiet(y) /\ lines \in {<<x>>, <<x, y>>}
      <4>1. CASE kind = "+CMT"
        <5>1. lines = <<Urc("+CMT", NoPrefix), Urc("PDU", NoPrefix)>>  BY <4>1 DEF UrcLines
        <5>2. Quiet(Urc("+CMT", NoPrefix)) /\ Quiet(Urc("PDU", NoPrefix))  BY <2>4
        <5> QED  BY <5>1, <5>2
      <4>2. CASE kind = "+CREG"
        <5>1. PICK p \in Prefixes : lines = <<Urc("info", p)>>  BY <4>2 DEF UrcLines
        <5>2. Quiet(Urc("info", p))  BY <2>4
        <5> QED  BY <5>1, <5>2
      <4>3. CASE kind \in {"RING", "CONNECT"}
        <5>1. lines = <<Urc(kind, NoPrefix)>>  BY <4>3 DEF UrcLines
        <5>2. Quiet(Urc(kind, NoPrefix))  BY <2>4, <4>3
        <5> QED  BY <5>1, <5>2
      <4> QED  BY <2>3, <4>1, <4>2, <4>3
    <3>2. PICK x, y : Quiet(x) /\ Quiet(y) /\ lines \in {<<x>>, <<x, y>>}  BY <3>1
    <3> HIDE DEF Quiet
    <3>3. CASE lines = <<x>>
      <4>1. DOMAIN lines = {1} /\ lines[1] = x  BY <3>3
      <4>2. lines \in Seq(Line)  BY <3>2, <3>3 DEF Quiet
      <4> QED  BY <3>2, <4>1, <4>2 DEF Quiet
    <3>4. CASE lines = <<x, y>>
      <4>1. DOMAIN lines = {1, 2} /\ lines[1] = x /\ lines[2] = y  BY <3>4
      <4>2. lines \in Seq(Line)  BY <3>2, <3>4 DEF Quiet
      <4> QED  BY <3>2, <4>1, <4>2 DEF Quiet
    <3> QED  BY <3>2, <3>3, <3>4
  <2>6. \A i \in DOMAIN wire' :
           \/ i \in DOMAIN wire /\ wire'[i] = wire[i]
           \/ i - Len(wire) \in DOMAIN lines /\ wire'[i] = lines[i - Len(wire)]
    <3> TAKE i \in DOMAIN wire'
    <3>1. i \in 1..(Len(wire) + Len(lines)) /\ Len(wire) \in Nat /\ Len(lines) \in Nat
      BY <1>0, <2>1, <2>5
    <3>2. CASE i <= Len(wire)  BY <1>0, <2>1, <2>5, <3>1, <3>2
    <3>3. CASE i > Len(wire)
      <4>1. i - Len(wire) \in 1..Len(lines)  BY <3>1, <3>3
      <4>2. wire'[i] = lines[i - Len(wire)]  BY <1>0, <2>1, <2>5, <3>1, <3>3
      <4> QED  BY <2>5, <4>1, <4>2
    <3> QED  BY <3>1, <3>2, <3>3
  <2>7. \A i \in DOMAIN wire' :
           \/ i \in DOMAIN wire /\ wire'[i] = wire[i]
           \/ Genuine(wire'[i]) /\ ~Ends(wire'[i]) /\ wire'[i].id = 0
    BY <2>5, <2>6
  <2>8. LinesInv' /\ TransitInv'
    BY <1>1, <1>3, <2>2, <2>7 DEF Delivery, LinesInv, TransitInv, Live
  <2>9. ModemInv' /\ ClosedInv'
    BY <1>1, <1>3, <2>2 DEF Delivery, ModemInv, ClosedInv, Live
  <2> QED  BY <1>2, <2>8, <2>9 DEF Delivery
<1> QED  BY <1>5, <1>6, <1>7, <1>8 DEF Modem

-----------------------------------------------------------------------------
(* The theorems.                                                             *)

\* Every step keeps MatchInv.
LEMMA MatchStep ==
    ASSUME Handshakers = {}, MaxSessions = 1, CarrierHeld,
           MatchInv, [Next]_vars
    PROVE  MatchInv'
<1>0. IndInv /\ ~intruded /\ EndingInv /\ TypeOK /\ session >= 1  BY DEF MatchInv, IndInv
<1>1. IndInv' /\ ~intruded' /\ EndingInv' /\ (TimeoutSeen => TimeoutSeen')
  BY <1>0, NextInv, NoIntrusionStep, EndingStep
<1> SUFFICES ASSUME ~TimeoutSeen' PROVE Delivery' /\ Delivered'
  BY <1>1 DEF MatchInv
<1>2. ~TimeoutSeen  BY <1>1
<1>3. Delivery /\ Delivered  BY <1>2 DEF MatchInv
<1>4. ASSUME NEW t \in Threads, Calm(t)  PROVE Delivery' /\ Delivered'
  BY <1>0, <1>3, <1>4, CalmFacts, DeliverySame DEF delivery, modemVars, pendingVars
<1>5. ASSUME NEW t \in Threads, Returns(t)  PROVE Delivery' /\ Delivered'
  BY <1>0, <1>1, <1>3, <1>5, ReturnsDeliver
<1>6. ASSUME NEW t \in Threads, SendWaits(t)  PROVE Delivery' /\ Delivered'
  BY <1>0, <1>3, <1>6, SendDelivers
<1>7. ASSUME NEW t \in Threads, OnTimeoutCloses(t) \/ at_close(t)  PROVE FALSE
  BY <1>0, <1>2, <1>7 DEF OnTimeoutCloses, at_close, EndingInv, TimeoutSeen
<1>8. CASE Reader
  <2>1. CASE processLine  BY <1>0, <1>3, <2>1, ProcessDelivers
  <2>2. CASE ~processLine
    <3>1. Delivery'  BY <1>0, <1>3, <1>8, <2>2, ReadDelivers, ReaderEnds DEF Reader
    <3>2. UNCHANGED <<got, ctrlZ>>
      BY <1>8, <2>2 DEF Reader, ReadLine, ReadFails, onReaderClosed, ReaderCloses, CallbackCloses,
         onATReaderClosed, readerFrame, callVars, history
    <3> QED  BY <1>3, <3>1, <3>2 DEF Delivered, AnswersMatch, PduAnswersPrompt
  <2> QED  BY <2>1, <2>2
<1>9. CASE Modem
  <2>1. UNCHANGED <<got, ctrlZ>>
    BY <1>9 DEF Modem, ModemInfo, ModemPrompt, ModemFinal, ModemHangup, ModemUrc, modemFrame,
       callVars, history
  <2> QED  BY <1>0, <1>3, <1>9, <2>1, ModemDelivers DEF Delivered, AnswersMatch, PduAnswersPrompt
<1>10. CASE UNCHANGED vars
  <2>1. UNCHANGED delivery
    BY <1>10 DEF delivery, vars, callVars, modemVars, pendingVars, closeVars, history
  <2> QED  BY <1>3, <2>1, DeliverySame
<1>11. ~at_open  BY <1>0 DEF at_open, TypeOK, ChannelTypes
<1> QED
  BY <1>4, <1>5, <1>6, <1>7, <1>8, <1>9, <1>10, <1>11
  DEF Next, Step, Terminating, Thread, Calm, Returns

\* MatchInv holds of the initial states.
LEMMA MatchInit == ASSUME Init PROVE MatchInv
<1>1. IndInv  BY InitInv
<1>2. EndingInv /\ ~intruded /\ Delivered
  BY NullFacts DEF Init, EndingInv, NoCall, Delivered, AnswersMatch, Mismatched, PduAnswersPrompt
<1>3. Delivery
  <2>1. NULL.finalResponse = NoLine /\ NULL.p_intermediates = <<>>  BY NullFacts DEF NULL
  <2> QED
    BY <2>1 DEF Init, Delivery, LinesInv, TransitInv, ModemInv, ClosedInv, ResponseInv, Live
<1> QED  BY <1>1, <1>2, <1>3 DEF MatchInv

\* However many threads issue whatever commands: without at_handshake, in one
\* session, and if the modem does not say NO CARRIER of its own accord, every
\* response a caller gets is the answer to its own command until one times out.
THEOREM MatchTheorem ==
    ASSUME Handshakers = {}, MaxSessions = 1, CarrierHeld
    PROVE  Spec => []MismatchOnlyAfterTimeout
<1>1. MatchInv => MismatchOnlyAfterTimeout
  BY DEF MatchInv, MismatchOnlyAfterTimeout, Delivered, TimeoutSeen
<1>2. MatchInv /\ [Next]_vars => MatchInv'  BY MatchStep
<1>3. Init => MatchInv  BY MatchInit
<1> QED  BY <1>1, <1>2, <1>3, PTL DEF Spec

\* And until then the body of a message is written to the prompt of its own command.
THEOREM PduTheorem ==
    ASSUME Handshakers = {}, MaxSessions = 1, CarrierHeld
    PROVE  Spec => []PduMismatchOnlyAfterTimeout
<1>1. MatchInv => PduMismatchOnlyAfterTimeout
  BY DEF MatchInv, PduMismatchOnlyAfterTimeout, Delivered, TimeoutSeen
<1>2. MatchInv /\ [Next]_vars => MatchInv'  BY MatchStep
<1>3. Init => MatchInv  BY MatchInit
<1> QED  BY <1>1, <1>2, <1>3, PTL DEF Spec

-----------------------------------------------------------------------------
(* The channel implements CommandService, under the same assumptions.        *)

\* The pending command is the last one sent, and its body is not yet out.
IssueInv ==
    /\ sp_response # NULL => sp_response.id = sent /\ sent # 0
    /\ s_smsPDU # 0 => s_smsPDU = sent /\ sp_response.id = sent
    /\ \A z \in ctrlZ : z.pdu <= sent /\ (s_smsPDU # 0 => z.pdu < sent)

ServiceInv == MatchInv /\ IssueInv

\* A command is issued exactly while there is a pending one.
LEMMA IssuedFacts ==
    ASSUME TypeOK, OwnerInv
    PROVE  Issued <=> sp_response # NULL
<1>1. sp_response.owner \in Threads \cup {Nobody}  BY DEF TypeOK, PendingTypes, Response
<1>2. NULL.owner = Nobody /\ Nobody \notin Threads  BY ThreadsAssumption DEF NULL
<1> QED  BY <1>1, <1>2 DEF Issued, OwnerInv

\* Who sends or waits has the turn.
LEMMA TurnFacts ==
    ASSUME Handshakers = {}, IndInv, NEW t \in Threads, MaySend(t) \/ Blocked(t)
    PROVE  commandmutex = t
<1>1. call[t] \in Command  BY DEF IndInv, TypeOK, CallTypes
<1>2. call[t].via \in {"full", "handshake"}  BY <1>1 DEF Command
<1>3. HandshakeInv /\ MutexInv  BY DEF IndInv
<1> QED  BY <1>2, <1>3 DEF MutexInv, HandshakeInv, MaySend

\* What the mapping does not see does not matter.
LEMMA ServiceSame ==
    ASSUME UNCHANGED <<commandmutex, Issued, sent, ctrlZ, got, s_readerClosed>>
    PROVE  UNCHANGED Service!serviceVars
<1>1. UNCHANGED <<Results, TimeoutSeen>>  BY DEF Results, TimeoutSeen
<1> QED  BY <1>1 DEF Service!serviceVars

\* A thread's steps but those that return or send keep the numbers of the command.
LEMMA CalmIssue ==
    ASSUME NEW t \in Threads, Calm(t) \/ OnTimeoutCloses(t) \/ at_close(t)
    PROVE  UNCHANGED <<sp_response, s_smsPDU, sent, ctrlZ>>
  BY DEF Calm, Call, CallHandshake, LockCommandMutex, TimeoutFires, SpuriousWakeup, WakeCrashes,
     WakeAgain, HandshakePauseEnds, OnTimeoutExits, OnTimeoutCloses, at_close, pendingVars, history

\* A step of the reader but processLine does too.
LEMMA ReaderIssue ==
    ASSUME Reader, ~processLine
    PROVE  UNCHANGED <<sp_response, s_smsPDU, sent, ctrlZ>>
  BY DEF Reader, ReadLine, ReadFails, onReaderClosed, ReaderCloses, CallbackCloses,
     onATReaderClosed, pendingVars, history

\* And a step of the modem.
LEMMA ModemIssue ==
    ASSUME Modem \/ UNCHANGED vars
    PROVE  UNCHANGED <<sp_response, s_smsPDU, sent, ctrlZ>>
  BY DEF Modem, ModemInfo, ModemPrompt, ModemFinal, ModemHangup, ModemUrc, modemFrame, vars,
     pendingVars, history

\* What processLine does to the pending command: it keeps its number, and either
\* keeps the body of its message or writes it.
LEMMA ProcessIssue ==
    ASSUME TypeOK, processLine
    PROVE  /\ sent' = sent
           /\ sp_response'.id = sp_response.id
           /\ sp_response = NULL => sp_response' = NULL
           /\ \/ UNCHANGED <<s_smsPDU, ctrlZ>>
              \/ /\ IsPrompt(reader.line) /\ s_smsPDU' = 0 /\ UNCHANGED sp_response
                 /\ \/ UNCHANGED ctrlZ
                    \/ /\ ~s_readerClosed
                       /\ ctrlZ' = ctrlZ \cup {[pdu |-> s_smsPDU, prompt |-> reader.line.id]}
<1>1. sp_response \in Response  BY DEF TypeOK, PendingTypes
<1>2. \A line : addIntermediate(line) => sp_response'.id = sp_response.id
  BY <1>1 DEF addIntermediate, Response
<1>3. \A line, ok : handleFinalResponse(line, ok) => sp_response'.id = sp_response.id
  BY <1>1 DEF handleFinalResponse, Response
<1> QED  BY <1>2, <1>3 DEF processLine, writeCtrlZ

\* The invariant is inductive.
LEMMA IssueStep ==
    ASSUME Handshakers = {}, MaxSessions = 1, IndInv, IssueInv, [Next]_vars
    PROVE  IssueInv'
<1>0. TypeOK /\ session >= 1  BY DEF IndInv
<1>1. sent \in Nat /\ \A z \in ctrlZ : z.pdu \in Nat  BY <1>0 DEF TypeOK, HistoryTypes
<1>2. ASSUME UNCHANGED <<sp_response, s_smsPDU, sent, ctrlZ>>  PROVE IssueInv'
  BY <1>2 DEF IssueInv
<1>3. ASSUME NEW t \in Threads, Returns(t)  PROVE IssueInv'
  <2>1. sp_response' = NULL /\ s_smsPDU' = 0 /\ UNCHANGED <<sent, ctrlZ>>
    BY <1>3 DEF Returns, SendPending, SendFails, TimedOut, WakeReturns, clearPendingCommand, history
  <2> QED  BY <2>1 DEF IssueInv
<1>4. ASSUME NEW t \in Threads, SendWaits(t)  PROVE IssueInv'
  <2>1. sp_response'.id = sent' /\ sent' = sent + 1 /\ s_smsPDU' \in {0, sent'} /\ UNCHANGED ctrlZ
    BY <1>4 DEF SendWaits, NULL
  <2> QED  BY <1>1, <2>1 DEF IssueInv
<1>5. CASE processLine
  <2>0. IsPrompt(reader.line) => s_smsPDU # 0  BY DEF IsPrompt
  <2>1. \A z \in ctrlZ' : z.pdu <= sent /\ (s_smsPDU' # 0 => z.pdu < sent)
    BY <1>0, <1>1, <1>5, <2>0, ProcessIssue DEF IssueInv
  <2>2. /\ sent' = sent /\ (sp_response' # NULL => sp_response'.id = sent /\ sent # 0)
        /\ s_smsPDU' # 0 => s_smsPDU' = sent /\ sp_response'.id = sent
    BY <1>0, <1>5, ProcessIssue DEF IssueInv
  <2> QED  BY <2>1, <2>2 DEF IssueInv
<1>6. ~at_open  BY <1>0 DEF at_open, TypeOK, ChannelTypes
<1> QED
  BY <1>2, <1>3, <1>4, <1>5, <1>6, CalmIssue, ReaderIssue, ModemIssue
  DEF Next, Step, Terminating, Thread, Calm, Returns

-----------------------------------------------------------------------------
(* The steps of the channel as steps of CommandService.                      *)

\* A call that ends without a response.
LEMMA NothingReturned ==
    ASSUME NEW c, NEW err, err # "NONE"
    PROVE  Returned(Outcome(c, err, 0, NULL)) = Service!Nothing(err)
<1> DEFINE o == Outcome(c, err, 0, NULL)
<1>1. o.err = err /\ o.id = 0 /\ o.response = NULL  BY DEF Outcome, InvalidResponse
<1>2. NULL.finalResponse.id = 0 /\ NULL.p_intermediates = <<>>  BY DEF NULL, NoLine
<1>3. {NULL.p_intermediates[i].id : i \in DOMAIN NULL.p_intermediates} = {}  BY <1>2
<1> HIDE DEF o
<1>4. Returned(o) = [err |-> err, id |-> 0, given |-> FALSE, final |-> 0, lines |-> {}]
  BY <1>1, <1>2, <1>3 DEF Returned
<1> QED  BY <1>4 DEF o, Service!Nothing, Service!Result

\* The lines of a response and of the same response turned round.
LEMMA ReverseLines ==
    ASSUME NEW r \in Response
    PROVE  LET s == r.p_intermediates
               q == reverseIntermediates(r).p_intermediates
           IN  {q[i].id : i \in DOMAIN q} = {s[i].id : i \in DOMAIN s}
<1> DEFINE s == r.p_intermediates
           q == reverseIntermediates(r).p_intermediates
<1>1. s \in Seq(Line) /\ Len(s) \in Nat /\ DOMAIN s = 1..Len(s)  BY DEF Response
<1>2. q = [i \in 1..Len(s) |-> s[Len(s) + 1 - i]]
  BY DEF reverseIntermediates, Response
<1>3. \A i \in 1..Len(s) : Len(s) + 1 - i \in 1..Len(s) /\ q[i] = s[Len(s) + 1 - i]
  BY <1>1, <1>2
<1>4. \A i \in 1..Len(s) : q[Len(s) + 1 - i] = s[i]
  <2> TAKE i \in 1..Len(s)
  <2>1. Len(s) + 1 - i \in 1..Len(s) /\ Len(s) + 1 - (Len(s) + 1 - i) = i  BY <1>1
  <2> QED  BY <1>3, <2>1
<1>5. DOMAIN q = 1..Len(s)  BY <1>2
<1> HIDE DEF s, q
<1>6. {q[i].id : i \in DOMAIN q} \subseteq {s[i].id : i \in DOMAIN s}
  BY <1>1, <1>3, <1>5
<1>7. {s[i].id : i \in DOMAIN s} \subseteq {q[i].id : i \in DOMAIN q}
  <2> SUFFICES ASSUME NEW i \in 1..Len(s) PROVE \E j \in DOMAIN q : q[j].id = s[i].id
    BY <1>1
  <2>1. Len(s) + 1 - i \in DOMAIN q  BY <1>3, <1>5
  <2> QED  BY <1>4, <2>1
<1>8. {q[i].id : i \in DOMAIN q} = {s[i].id : i \in DOMAIN s}  BY <1>6, <1>7
<1> QED  BY <1>8 DEF s, q

\* What a caller is given when the wait is over: the number of its command, and
\* while nothing has timed out, lines of its own command and notifications.
LEMMA ResponseReturned ==
    ASSUME TypeOK, sp_response # NULL, sp_response.finalResponse # NoLine \/ s_readerClosed,
           NEW t \in Threads,
           NEW err, err = IF s_readerClosed THEN "CHANNEL_CLOSED" ELSE "NONE",
           NEW r, r = Returned(Outcome(call[t], err, sp_response.id,
                                       reverseIntermediates(sp_response)))
    PROVE  /\ r.id = sp_response.id
           /\ r.err \in IF s_readerClosed THEN {"CHANNEL_CLOSED"} ELSE {"NONE", "INVALID_RESPONSE"}
           /\ ResponseInv => /\ r.final \in {0, r.id} /\ r.lines \subseteq {0, r.id}
                             /\ r.given /\ ~s_readerClosed => r.final = r.id
<1> DEFINE resp == reverseIntermediates(sp_response)
           o == Outcome(call[t], err, sp_response.id, resp)
<1>1. sp_response \in Response  BY DEF TypeOK, PendingTypes
<1>2. resp.finalResponse = sp_response.finalResponse
  BY <1>1 DEF reverseIntermediates, Response
<1>3. /\ o.id = sp_response.id
      /\ o.err = err \/ (err = "NONE" /\ o.err = "INVALID_RESPONSE")
      /\ o.response = NULL \/ o.response = resp
  BY DEF Outcome, InvalidResponse
<1>4. /\ r.err = o.err /\ r.id = o.id
      /\ r.given <=> o.response # NULL
      /\ r.final = o.response.finalResponse.id
      /\ r.lines = {o.response.p_intermediates[i].id : i \in DOMAIN o.response.p_intermediates}
  BY DEF Returned
<1> HIDE DEF resp, o
<1>5. r.id = sp_response.id
      /\ r.err \in IF s_readerClosed THEN {"CHANNEL_CLOSED"} ELSE {"NONE", "INVALID_RESPONSE"}
  BY <1>3, <1>4
<1>6. ASSUME ResponseInv
      PROVE  /\ r.final \in {0, r.id} /\ r.lines \subseteq {0, r.id}
             /\ r.given /\ ~s_readerClosed => r.final = r.id
  <2>1. NULL.finalResponse.id = 0 /\ NoLine.id = 0 /\ NULL.p_intermediates = <<>>
    BY DEF NULL, NoLine
  <2>2. CASE o.response = NULL
    <3>1. {NULL.p_intermediates[i].id : i \in DOMAIN NULL.p_intermediates} = {}  BY <2>1
    <3> QED  BY <1>4, <2>1, <2>2, <3>1
  <2>3. CASE o.response = resp
    <3>1. {resp.p_intermediates[i].id : i \in DOMAIN resp.p_intermediates}
            = {sp_response.p_intermediates[i].id : i \in DOMAIN sp_response.p_intermediates}
      BY <1>1, ReverseLines DEF resp
    <3>2. r.lines \subseteq {0, r.id}
      BY <1>4, <1>5, <1>6, <2>3, <3>1 DEF ResponseInv
    <3>3. r.final \in {0, r.id} /\ (~s_readerClosed => r.final = r.id)
      BY <1>2, <1>4, <1>5, <1>6, <2>1, <2>3 DEF ResponseInv
    <3> QED  BY <3>2, <3>3
  <2> QED  BY <1>3, <2>2, <2>3
<1> QED  BY <1>5, <1>6

\* Returning from at_send_command_full ends the turn.
LEMMA ReturnMaps ==
    ASSUME NEW t \in Threads, TypeOK, commandmutex = t, Issued' = FALSE,
           NEW err, NEW id, NEW r, FullReturns(t, err, id, r),
           UNCHANGED <<sent, ctrlZ, s_readerClosed>>
    PROVE  Service!Return(t) /\ Results'[t] = Returned(Outcome(call[t], err, id, r))
<1>1. got' = [got EXCEPT ![t] = Outcome(call[t], err, id, r)] /\ DOMAIN got = Threads
  BY DEF FullReturns, TypeOK, CallTypes
<1>2. got'[t] = Outcome(call[t], err, id, r) /\ \A u \in Threads \ {t} : got'[u] = got[u]
  BY <1>1
<1>3. Results'[t] = Returned(Outcome(call[t], err, id, r))  BY <1>2 DEF Results
<1>4. Results' = [Results EXCEPT ![t] = Results'[t]]
  <2>1. Results' = [u \in Threads |-> Returned(got'[u])]  BY DEF Results, Returned
  <2>2. \A u \in Threads \ {t} : Returned(got'[u]) = Returned(got[u])  BY <1>2
  <2> QED  BY <2>1, <2>2 DEF Results
<1> QED  BY <1>3, <1>4 DEF Service!Return, FullReturns

\* The same of the next state.
LEMMA IssuedNext ==
    ASSUME TypeOK', OwnerInv'
    PROVE  Issued' <=> sp_response' # NULL
<1>1. sp_response'.owner \in Threads \cup {Nobody}  BY DEF TypeOK, PendingTypes, Response
<1>2. NULL.owner = Nobody /\ Nobody \notin Threads  BY ThreadsAssumption DEF NULL
<1> QED  BY <1>1, <1>2 DEF Issued, OwnerInv

\* Every step is one of CommandService, or is not seen by it.
LEMMA ServiceStep ==
    ASSUME Handshakers = {}, MaxSessions = 1, CarrierHeld, ServiceInv, [Next]_vars
    PROVE  [Service!Next]_(Service!serviceVars)
<1>0. /\ MatchInv /\ IndInv /\ ~intruded /\ TypeOK /\ OwnerInv /\ IssueInv /\ session >= 1
      /\ ~TimeoutSeen => Delivery
  BY DEF ServiceInv, MatchInv, IndInv
<1>1. MatchInv' /\ ~intruded' /\ TypeOK' /\ OwnerInv'
  BY <1>0, MatchStep DEF MatchInv, IndInv
<1>2. /\ Issued <=> sp_response # NULL
      /\ Issued' <=> sp_response' # NULL
      /\ TimeoutSeen => TimeoutSeen'
  BY <1>0, <1>1, IssuedFacts, IssuedNext, EndingStep DEF MatchInv
<1>3. ASSUME UNCHANGED <<commandmutex, sent, ctrlZ, got, s_readerClosed>>,
             sp_response' # NULL <=> sp_response # NULL
      PROVE  UNCHANGED Service!serviceVars
  <2>1. Issued' = Issued  BY <1>2, <1>3 DEF Issued
  <2> QED  BY <1>3, <2>1, ServiceSame
<1>4. ASSUME NEW t \in Threads, Calm(t)  PROVE [Service!Next]_(Service!serviceVars)
  <2>1. /\ UNCHANGED <<sp_response, sent, ctrlZ, got, s_readerClosed>>
        /\ ~LockCommandMutex(t) => UNCHANGED commandmutex
    BY <1>4, <1>0, CalmIssue, CalmFacts
    DEF Calm, Call, CallHandshake, TimeoutFires, SpuriousWakeup, WakeCrashes, WakeAgain,
        HandshakePauseEnds, OnTimeoutExits
  <2>2. CASE LockCommandMutex(t)
    <3>1. Issued' = Issued  BY <1>2, <2>1 DEF Issued
    <3>2. UNCHANGED <<Results, TimeoutSeen>>  BY <2>1 DEF Results, TimeoutSeen
    <3>3. Service!Begin(t)
      BY <2>1, <2>2, <3>1, <3>2 DEF Service!Begin, LockCommandMutex
    <3> QED  BY <3>3 DEF Service!Next
  <2>3. CASE ~LockCommandMutex(t)  BY <1>3, <2>1, <2>3
  <2> QED  BY <2>2, <2>3
<1>5. ASSUME NEW t \in Threads, Returns(t)  PROVE Service!Next
  <2>1. MaySend(t) \/ Blocked(t)
    BY <1>5 DEF Returns, SendPending, SendFails, TimedOut, WakeReturns, Blocked
  <2>2. commandmutex = t  BY <1>0, <2>1, TurnFacts
  <2>3. sp_response' = NULL /\ UNCHANGED <<sent, ctrlZ, s_readerClosed>>
    BY <1>5 DEF Returns, SendPending, SendFails, TimedOut, WakeReturns, clearPendingCommand,
       closeVars, history
  <2>4. Issued' = FALSE  BY <1>2, <2>3 DEF Issued
  <2>5. ASSUME NEW err, NEW id, NEW r, NolockReturns(t, err, id, r)
        PROVE  /\ Service!Return(t) /\ Results'[t] = Returned(Outcome(call[t], err, id, r))
               /\ err # "TIMEOUT" => UNCHANGED TimeoutSeen
               /\ err = "TIMEOUT" => TimeoutSeen' = TRUE
    <3>1. FullReturns(t, err, id, r)  BY <1>0, <2>1, <2>5, ReturnsFull
    <3>2. Service!Return(t) /\ Results'[t] = Returned(Outcome(call[t], err, id, r))
      BY <1>0, <2>2, <2>3, <2>4, <3>1, ReturnMaps
    <3>3. /\ got'[t].err = "TIMEOUT" <=> err = "TIMEOUT"
          /\ \A u \in Threads \ {t} : got'[u] = got[u]
      BY <1>0, <3>1, FullFacts
    <3>4. TimeoutSeen' <=> TimeoutSeen \/ err = "TIMEOUT"
      BY <1>2, <3>3 DEF TimeoutSeen
    <3> QED  BY <3>2, <3>4 DEF TimeoutSeen
  <2>6. CASE SendPending(t)  BY <1>1, <2>6 DEF SendPending
  <2>7. CASE SendFails(t)
    <3>1. PICK err \in writelineErrors : NolockReturns(t, err, 0, NULL)
      BY <2>7 DEF SendFails
    <3>2. err \in {"GENERIC", "CHANNEL_CLOSED"}  BY <3>1 DEF writelineErrors
    <3>3. ~Issued  BY <1>2, <2>7 DEF SendFails
    <3>4. Results'[t] = Service!Nothing(err) /\ Service!Return(t) /\ UNCHANGED TimeoutSeen
      <4>1. Returned(Outcome(call[t], err, 0, NULL)) = Service!Nothing(err)
        BY <3>2, NothingReturned
      <4>2. Results'[t] = Returned(Outcome(call[t], err, 0, NULL))  BY <2>5, <3>1
      <4>3. Service!Return(t) /\ UNCHANGED TimeoutSeen  BY <2>5, <3>1, <3>2
      <4> QED  BY <4>1, <4>2, <4>3
    <3>5. Service!Refuse(t)  BY <3>2, <3>3, <3>4 DEF Service!Refuse
    <3> QED  BY <3>5 DEF Service!Next
  <2>8. CASE TimedOut(t)
    <3>1. NolockReturns(t, "TIMEOUT", 0, NULL) /\ Blocked(t)  BY <2>8 DEF TimedOut, Blocked
    <3>2. Issued  BY <3>1 DEF Issued
    <3>3. Results'[t] = Service!Nothing("TIMEOUT") /\ Service!Return(t) /\ TimeoutSeen' = TRUE
      <4>1. Returned(Outcome(call[t], "TIMEOUT", 0, NULL)) = Service!Nothing("TIMEOUT")
        BY NothingReturned
      <4>2. Results'[t] = Returned(Outcome(call[t], "TIMEOUT", 0, NULL))  BY <2>5, <3>1
      <4>3. Service!Return(t) /\ TimeoutSeen' = TRUE  BY <2>5, <3>1
      <4> QED  BY <4>1, <4>2, <4>3
    <3>4. Service!GiveUp(t)  BY <3>2, <3>3 DEF Service!GiveUp
    <3> QED  BY <3>4 DEF Service!Next
  <2>9. CASE WakeReturns(t)
    <3> DEFINE err == IF s_readerClosed THEN "CHANNEL_CLOSED" ELSE "NONE"
               r == Results'[t]
    <3>1. /\ NolockReturns(t, err, sp_response.id, reverseIntermediates(sp_response))
          /\ sp_response # NULL /\ (sp_response.finalResponse # NoLine \/ s_readerClosed)
      BY <2>9 DEF WakeReturns
    <3>2. Issued /\ sp_response.id = sent  BY <1>0, <1>2, <3>1 DEF IssueInv
    <3>3. r = Returned(Outcome(call[t], err, sp_response.id, reverseIntermediates(sp_response)))
      BY <2>5, <3>1
    <3>4. err # "TIMEOUT"  OBVIOUS
    <3>5. Service!Return(t) /\ UNCHANGED TimeoutSeen  BY <2>5, <3>1, <3>4
    <3>6. /\ r.id = sent
          /\ r.err \in IF s_readerClosed THEN {"CHANNEL_CLOSED"} ELSE {"NONE", "INVALID_RESPONSE"}
          /\ ResponseInv => /\ r.final \in {0, sent} /\ r.lines \subseteq {0, sent}
                            /\ r.given /\ ~s_readerClosed => r.final = sent
      <4> HIDE DEF r
      <4> QED  BY <1>0, <3>1, <3>2, <3>3, ResponseReturned
    <3>7. ~TimeoutSeen => ResponseInv  BY <1>0 DEF Delivery
    <3>8. Service!Answer(t)  BY <3>2, <3>5, <3>6, <3>7 DEF Service!Answer
    <3> QED  BY <3>8 DEF Service!Next
  <2> QED  BY <1>5, <2>6, <2>7, <2>8, <2>9 DEF Returns
<1>6. ASSUME NEW t \in Threads, SendWaits(t)  PROVE Service!Issue
  <2>1. commandmutex = t /\ t # Nobody
    BY <1>0, <1>6, TurnFacts, ThreadsAssumption DEF SendWaits
  <2>2. ~Issued /\ ~s_readerClosed  BY <1>2, <1>6 DEF SendWaits, writelineErrors
  <2>3. sent \in Nat /\ sp_response'.id = sent + 1 /\ sent' = sent + 1
    BY <1>0, <1>6 DEF SendWaits, NULL, TypeOK, HistoryTypes
  <2>4. Issued' = TRUE
    <3>1. sp_response' # NULL  BY <2>3 DEF NULL
    <3> QED  BY <1>2, <3>1 DEF Issued
  <2>5. UNCHANGED <<commandmutex, ctrlZ, got, s_readerClosed>>
    BY <1>6 DEF SendWaits, callVars, closeVars
  <2>6. UNCHANGED <<Results, TimeoutSeen>>  BY <2>5 DEF Results, TimeoutSeen
  <2> QED  BY <2>1, <2>2, <2>3, <2>4, <2>5, <2>6 DEF Service!Issue
<1>7. ASSUME UNCHANGED <<commandmutex, sent, ctrlZ, got>>,
             s_readerClosed' = s_readerClosed \/ s_readerClosed' = TRUE,
             sp_response' # NULL <=> sp_response # NULL
      PROVE  [Service!Next]_(Service!serviceVars)
  <2>1. CASE s_readerClosed' = s_readerClosed  BY <1>3, <1>7, <2>1
  <2>2. CASE s_readerClosed' # s_readerClosed
    <3>1. s_readerClosed' = TRUE /\ ~s_readerClosed
      BY <1>0, <1>7, <2>2 DEF TypeOK, ChannelTypes
    <3>2. Issued' = Issued  BY <1>2, <1>7 DEF Issued
    <3>3. UNCHANGED <<Results, TimeoutSeen>>  BY <1>7 DEF Results, TimeoutSeen
    <3>4. Service!Close  BY <1>7, <3>1, <3>2, <3>3 DEF Service!Close
    <3> QED  BY <3>4 DEF Service!Next
  <2> QED  BY <2>1, <2>2
<1>8. ASSUME NEW t \in Threads, OnTimeoutCloses(t) \/ at_close(t)
      PROVE  [Service!Next]_(Service!serviceVars)
  <2>1. UNCHANGED <<commandmutex, sent, ctrlZ, got, sp_response>>
        /\ (s_readerClosed' = s_readerClosed \/ s_readerClosed' = TRUE)
    BY <1>8, CalmIssue DEF OnTimeoutCloses, at_close, callVars
  <2> QED  BY <1>7, <2>1
<1>9. CASE Reader /\ ~processLine
  <2>1. UNCHANGED <<commandmutex, sent, ctrlZ, got, sp_response>>
        /\ (s_readerClosed' = s_readerClosed \/ s_readerClosed' = TRUE)
    BY <1>9, ReaderIssue DEF Reader, ReadLine, ReadFails, onReaderClosed, ReaderCloses,
       CallbackCloses, onATReaderClosed, readerFrame, callVars, closeVars
  <2> QED  BY <1>7, <2>1
<1>10. CASE processLine
  <2>1. UNCHANGED <<commandmutex, sent, got, s_readerClosed>>
    BY <1>10 DEF processLine, readerFrame, callVars, closeVars
  <2>2. /\ sp_response'.id = sp_response.id /\ (sp_response = NULL => sp_response' = NULL)
        /\ sp_response # NULL => sp_response.id = sent /\ sent # 0
    BY <1>0, <1>10, ProcessIssue DEF IssueInv
  <2>3. sp_response' # NULL <=> sp_response # NULL
    <3> SUFFICES ASSUME sp_response # NULL PROVE sp_response' # NULL  BY <2>2
    <3>1. NULL.id = 0  BY DEF NULL
    <3> QED  BY <1>0, <2>2, <3>1
  <2>4. CASE UNCHANGED ctrlZ  BY <1>3, <2>1, <2>3, <2>4
  <2>5. CASE ctrlZ' # ctrlZ
    <3> DEFINE z == [pdu |-> s_smsPDU, prompt |-> reader.line.id]
    <3>1. IsPrompt(reader.line) /\ ~s_readerClosed /\ ctrlZ' = ctrlZ \cup {z}
      BY <1>0, <1>10, <2>5, ProcessIssue
    <3>2. s_smsPDU # 0  BY <3>1 DEF IsPrompt
    <3>3. s_smsPDU = sent /\ sp_response.id = sent /\ \A y \in ctrlZ : y.pdu < sent
      BY <1>0, <3>2 DEF IssueInv
    <3>4. Issued
      <4>1. sp_response # NULL  BY <3>2, <3>3 DEF NULL
      <4> QED  BY <1>2, <4>1
    <3>5. TimeoutSeen \/ z.prompt = sent
      <4> SUFFICES ASSUME ~TimeoutSeen PROVE z.prompt = sent  OBVIOUS
      <4>1. reader.at = "process"  BY <1>10 DEF processLine
      <4>2. Genuine(reader.line) /\ (reader.line.id # 0 => Expecting(reader.line.id))
        BY <1>0, <4>1 DEF Delivery, LinesInv, TransitInv, Live
      <4>3. reader.line.id # 0  BY <3>1, <4>2 DEF IsPrompt, Genuine
      <4> QED  BY <3>3, <4>2, <4>3 DEF Expecting
    <3>6. Issued' = Issued  BY <1>2, <2>3 DEF Issued
    <3>7. UNCHANGED <<Results, TimeoutSeen>>  BY <2>1 DEF Results, TimeoutSeen
    <3>8. z \in ctrlZ' /\ z.pdu = sent  BY <3>1, <3>3
    <3> HIDE DEF z
    <3>9. Service!Body  BY <2>1, <3>1, <3>3, <3>4, <3>5, <3>6, <3>7, <3>8 DEF Service!Body
    <3> QED  BY <3>9 DEF Service!Next
  <2> QED  BY <2>4, <2>5
<1>11. CASE Modem \/ UNCHANGED vars
  <2>1. UNCHANGED <<commandmutex, sent, ctrlZ, got, sp_response, s_readerClosed>>
    BY <1>11, ModemIssue DEF Modem, ModemInfo, ModemPrompt, ModemFinal, ModemHangup, ModemUrc,
       modemFrame, vars, callVars, closeVars
  <2> QED  BY <1>3, <2>1
<1>12. ~at_open  BY <1>0 DEF at_open, TypeOK, ChannelTypes
<1> QED
  BY <1>4, <1>5, <1>6, <1>8, <1>9, <1>10, <1>11, <1>12
  DEF Next, Step, Terminating, Thread, Calm, Returns, Service!Next

\* The channel starts as CommandService does.
LEMMA ServiceInit == ASSUME Init PROVE Service!Init /\ IssueInv
<1>1. Issued = FALSE /\ TimeoutSeen = FALSE  BY DEF Init, Issued, Blocked, TimeoutSeen, NoCall
<1>2. NULL.finalResponse.id = 0 /\ NULL.p_intermediates = <<>>  BY DEF NULL, NoLine
<1>3. {NULL.p_intermediates[i].id : i \in DOMAIN NULL.p_intermediates} = {}  BY <1>2
<1>4. NoCall.err = "NONE" /\ NoCall.id = 0 /\ NoCall.response = NULL  BY DEF NoCall
<1>5. Returned(NoCall) = Service!Nothing("NONE")
  BY <1>2, <1>3, <1>4 DEF Returned, Service!Nothing, Service!Result
<1>6. Results = [t \in Threads |-> Service!Nothing("NONE")]  BY <1>5 DEF Init, Results
<1>7. IssueInv  BY DEF Init, IssueInv
<1> QED  BY <1>1, <1>6, <1>7 DEF Init, Service!Init

\* However many threads issue whatever commands, without at_handshake and in one
\* session: the two mutexes, the condition variable, the reader thread and its
\* tables of lines amount to a service that takes one command after another, sends
\* it once, and gives back what the modem said to that command.
THEOREM ServiceTheorem ==
    ASSUME Handshakers = {}, MaxSessions = 1, CarrierHeld
    PROVE  Spec => ServiceSpec
<1>1. Init => ServiceInv /\ Service!Init
  BY MatchInit, ServiceInit DEF ServiceInv
<1>2. ServiceInv /\ [Next]_vars => ServiceInv'
  BY MatchStep, IssueStep DEF ServiceInv, MatchInv
<1>3. ServiceInv /\ [Next]_vars => [Service!Next]_(Service!serviceVars)
  BY ServiceStep
<1> QED  BY <1>1, <1>2, <1>3, PTL DEF Spec, ServiceSpec, Service!Spec

=============================================================================

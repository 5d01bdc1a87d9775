------------------------------ MODULE LineReader ------------------------------
(* The input of the AT channel: readline of atchannel.c cuts the bytes of    *)
(* the tty into lines in one static buffer, and readerLoop pairs the two     *)
(* lines of a short message.  Bytes arrive in chunks of any size.            *)
(*                                                                           *)
(* A byte stands for what readline tells apart, and remembers its place in   *)
(* the stream; a prefix that strStartsWith tests is one byte, since a line   *)
(* that has it in part only is treated like one without.                     *)
EXTENDS Integers, Sequences

CONSTANTS
    MAX_AT_RESPONSE, \* size of the buffer, less one
    Sendable,        \* the kinds of message the modem sends
    MaxMessages,     \* bound: messages
    MaxOpens         \* bound: sessions

\* SP is the blank behind the sign of the prompt, x any other character.
Classes == {"NUL", "NL", ">", "SP", "x", "OK", "+CMT:", "+CDSI:", "+CUSD:"}

Byte == [c : Classes, at : Nat]
NUL  == [c |-> "NUL", at |-> 0]

ASSUME BufferAssumption   == MAX_AT_RESPONSE \in Nat \ {0}
ASSUME SendableAssumption ==
    Sendable \subseteq {"OK", "sms", "notice", "prompt", "ussd", "long"}
ASSUME InputBounds        == MaxMessages \in Nat /\ MaxOpens \in Nat

VARIABLES
    s_ATBuffer, s_ATBufferCur,
    p_read,        \* local variable of readline
    thread,        \* where the reader thread is
    line1,         \* the first line of a short message, which readerLoop keeps
    tty,           \* the bytes that have arrived and are not read
    opens,         \* calls of at_open
    \* history
    arrived,       \* number of bytes the modem has sent
    sent,          \* what was sent, as it should be handed on
    kinds,         \* the kinds of message sent
    early,         \* something was sent before a prompt had been read
    handed         \* the calls of processLine and of s_unsolHandler

bufferVars == <<s_ATBuffer, s_ATBufferCur, p_read>>
modemVars  == <<tty, opens, arrived, sent, kinds, early>>
lineVars   == <<bufferVars, thread, line1, modemVars, handed>>

NoLine == << >>

\* One call: of processLine with a line, or of the handler with two.
Handed(first, second) == [first |-> first, second |-> second]

LineInit ==
    /\ s_ATBuffer = [i \in 0..MAX_AT_RESPONSE |-> NUL]
    /\ s_ATBufferCur = 0 /\ p_read = 0
    /\ thread = "loop" /\ line1 = NoLine
    /\ tty = << >> /\ opens = 1 /\ arrived = 0
    /\ sent = << >> /\ kinds = {} /\ early = FALSE /\ handed = << >>
-----------------------------------------------------------------------------
(* Strings in the buffer.                                                    *)

\* The first place from cur on whose byte is in class C.
First(buf, cur, C) ==
    CHOOSE i \in cur..MAX_AT_RESPONSE :
       buf[i].c \in C /\ \A j \in cur..(i - 1) : buf[j].c \notin C

StringEnd(buf, cur) == First(buf, cur, {"NUL"})

SkipNewlines(buf, cur) == First(buf, cur, Classes \ {"NL"})

String(buf, from, end) == [i \in 1..(end - from) |-> buf[from + i - 1]]

NULL == -1

\* A USSD message ends where the data end.
processUSSD(buf, cur) ==
    IF buf[cur].c = "+CUSD:" THEN StringEnd(buf, cur) ELSE NULL

IsPrompt(buf, cur) ==
    /\ buf[cur].c = ">"
    /\ buf[cur + 1].c = "SP"
    /\ buf[cur + 2].c = "NUL"

\* Mutant: the prompt is waited for like any other line.
findNextEOL_NoPrompt(buf, cur) ==
    LET end == First(buf, cur, {"NUL", "NL"})
    IN  IF buf[end].c = "NUL" THEN NULL ELSE end

findNextEOL(buf, cur) ==
    IF IsPrompt(buf, cur) THEN cur + 2
    ELSE LET end == First(buf, cur, {"NUL", "NL"})
         IN  IF buf[end].c = "NUL" THEN NULL ELSE end

PromptLine(line) == Len(line) = 2 /\ line[1].c = ">" /\ line[2].c = "SP"

\* Mutant: the list lacks the prefix of a received message.
isSMSUnsolicited_NoCMT(line) == line[1].c = "+CDSI:"

isSMSUnsolicited(line) == line[1].c \in {"+CMT:", "+CDSI:"}
-----------------------------------------------------------------------------
(* readerLoop: what becomes of a line.                                       *)

Dispatch(line) ==
    IF line1 # NoLine
      THEN handed' = Append(handed, Handed(line1, line)) /\ line1' = NoLine
    ELSE IF isSMSUnsolicited(line)
      THEN line1' = line /\ UNCHANGED handed
    ELSE handed' = Append(handed, Handed(line, NoLine)) /\ UNCHANGED line1

\* Mutant: the newline is taken for two bytes.
AfterEOL_CRLF(eol) == eol + 2

AfterEOL(eol) == eol + 1

\* The end of readline: a NUL over the end of the line that starts at cur.  What
\* came in behind a prompt is given up.
ReturnLine(buf, cur, eol) ==
    LET line == String(buf, cur, eol)
        cut  == [buf EXCEPT ![eol] = NUL]
    IN  /\ s_ATBuffer' = IF PromptLine(line) /\ eol < MAX_AT_RESPONSE
                           THEN [cut EXCEPT ![eol + 1] = NUL] ELSE cut
        /\ s_ATBufferCur' = AfterEOL(eol)
        /\ thread' = "loop"
        /\ Dispatch(line)

\* readline with nothing in the buffer.
BeginEmpty ==
    /\ s_ATBuffer' = [s_ATBuffer EXCEPT ![0] = NUL]
    /\ s_ATBufferCur' = 0 /\ p_read' = 0
    /\ thread' = "read"
    /\ UNCHANGED <<line1, handed, modemVars>>

ReadlineEmpty ==
    /\ thread = "loop"
    /\ s_ATBufferCur <= MAX_AT_RESPONSE /\ s_ATBuffer[s_ATBufferCur].c = "NUL"
    /\ BeginEmpty

\* readline with the rest of an earlier read: a line of it, or its last part
\* moved to the front.  A USSD message is not looked for here.
ReadlineBuffered ==
    /\ thread = "loop"
    /\ s_ATBufferCur <= MAX_AT_RESPONSE /\ s_ATBuffer[s_ATBufferCur].c # "NUL"
    /\ LET cur == SkipNewlines(s_ATBuffer, s_ATBufferCur)
           eol == findNextEOL(s_ATBuffer, cur)
           len == StringEnd(s_ATBuffer, cur) - cur
       IN  IF eol # NULL
             THEN ReturnLine(s_ATBuffer, cur, eol) /\ UNCHANGED p_read
             ELSE /\ s_ATBuffer' = [i \in 0..MAX_AT_RESPONSE |->
                                      s_ATBuffer[IF i <= len THEN cur + i ELSE i]]
                  /\ s_ATBufferCur' = 0 /\ p_read' = len
                  /\ thread' = "read"
                  /\ UNCHANGED <<line1, handed>>
    /\ UNCHANGED modemVars

\* s_ATBufferCur has left the buffer: what follows it in memory decides.
ReadlineBeyond ==
    /\ thread = "loop" /\ s_ATBufferCur > MAX_AT_RESPONSE
    /\ \/ BeginEmpty
       \/ thread' = "undefined" /\ UNCHANGED <<bufferVars, line1, handed, modemVars>>

\* A full buffer without a line in it is given up before the next read.
Overflow == p_read = MAX_AT_RESPONSE

BeforeRead == IF Overflow THEN [s_ATBuffer EXCEPT ![0] = NUL] ELSE s_ATBuffer

StartOfRead(place) == IF Overflow THEN 0 ELSE place

\* Mutant: nothing is put behind the bytes.
AfterRead_Open(place, count) ==
    [i \in 0..MAX_AT_RESPONSE |->
       IF i \in place..(place + count - 1) THEN tty[i - place + 1] ELSE BeforeRead[i]]

\* read brings count bytes to place, and a NUL is put behind them.
AfterRead(place, count) ==
    [i \in 0..MAX_AT_RESPONSE |->
       IF i \in place..(place + count - 1) THEN tty[i - place + 1]
       ELSE IF i = place + count THEN NUL ELSE BeforeRead[i]]

Read(count) ==
    /\ thread = "read"
    /\ LET place == StartOfRead(p_read)
           buf   == AfterRead(place, count)
           cur   == SkipNewlines(buf, StartOfRead(s_ATBufferCur))
           ussd  == processUSSD(buf, cur)
           eol   == IF ussd # NULL THEN ussd ELSE findNextEOL(buf, cur)
       IN  /\ count <= Len(tty) /\ count <= MAX_AT_RESPONSE - place
           /\ p_read' = place + count
           /\ IF eol # NULL THEN ReturnLine(buf, cur, eol)
              ELSE /\ s_ATBuffer' = buf /\ s_ATBufferCur' = cur
                   /\ UNCHANGED <<thread, line1, handed>>
    /\ tty' = SubSeq(tty, count + 1, Len(tty))
    /\ UNCHANGED <<opens, arrived, sent, kinds, early>>

\* EOF or an error: the thread leaves readerLoop, and the buffer stays as it is.
ReadFails ==
    /\ thread = "read"
    /\ thread' = "closed" /\ line1' = NoLine
    /\ tty' = << >>
    /\ s_ATBuffer' = BeforeRead /\ s_ATBufferCur' = StartOfRead(s_ATBufferCur)
    /\ p_read' = StartOfRead(p_read)
    /\ UNCHANGED <<opens, arrived, sent, kinds, early, handed>>

\* at_open starts a new reader thread; it does not reset the buffer.
at_open ==
    /\ thread = "closed" /\ opens < MaxOpens
    /\ opens' = opens + 1 /\ thread' = "loop"
    /\ UNCHANGED <<bufferVars, line1, tty, arrived, sent, kinds, early, handed>>
-----------------------------------------------------------------------------
(* The modem.                                                                *)

\* The lines of a message, and which of them belong in one call.
Lines(kind) ==
    CASE kind = "OK"     -> << <<"OK">> >>
      [] kind = "sms"    -> << <<"+CMT:">>, <<"x">> >>
      [] kind = "notice" -> << <<"+CDSI:">> >>
      [] kind = "prompt" -> << <<">", "SP">> >>
      [] kind = "ussd"   -> << <<"+CUSD:", "x", "NL", "x">> >>
      [] kind = "long"   -> << [i \in 1..MAX_AT_RESPONSE |-> "x"] >>

\* Every line goes between newlines, except that none follows a prompt.
Framed(line) ==
    <<"NL">> \o line \o (IF line = <<">", "SP">> THEN << >> ELSE <<"NL">>)

Stream(kind) ==
    LET lines == Lines(kind)
    IN  IF Len(lines) = 1 THEN Framed(lines[1]) ELSE Framed(lines[1]) \o Framed(lines[2])

Bytes(classes, after) == [i \in DOMAIN classes |-> [c |-> classes[i], at |-> after + i]]

\* The call that a message is meant to lead to.
Meant(kind, after) ==
    LET first == Lines(kind)[1]
    IN  Handed(Bytes(first, after + 1),
               IF kind = "sms" THEN Bytes(Lines(kind)[2], after + Len(first) + 3) ELSE NoLine)

Send(kind) ==
    /\ thread # "closed" /\ Len(sent) < MaxMessages
    /\ tty' = tty \o Bytes(Stream(kind), arrived)
    /\ arrived' = arrived + Len(Stream(kind))
    /\ sent' = Append(sent, Meant(kind, arrived))
    /\ kinds' = kinds \cup {kind}
    /\ early' = (early \/ \E i \in DOMAIN tty : tty[i].c = ">" \/ tty[i].c = "SP")
    /\ UNCHANGED <<bufferVars, thread, line1, opens, handed>>
-----------------------------------------------------------------------------
Readline == ReadlineEmpty \/ ReadlineBuffered \/ ReadlineBeyond

LineStep ==
    \/ Readline \/ \E count \in 1..Len(tty) : Read(count)
    \/ ReadFails \/ at_open
    \/ \E kind \in Sendable : Send(kind)

LineSpec == LineInit /\ [][LineStep]_lineVars
-----------------------------------------------------------------------------
(* Properties.                                                               *)

LineTypeOK ==
    /\ s_ATBuffer \in [0..MAX_AT_RESPONSE -> Byte]
    /\ s_ATBufferCur \in 0..(MAX_AT_RESPONSE + 1)
    /\ p_read \in 0..MAX_AT_RESPONSE
    /\ thread \in {"loop", "read", "closed", "undefined"}
    /\ line1 \in Seq(Byte) /\ tty \in Seq(Byte)
    /\ opens \in Nat /\ arrived \in Nat
    /\ kinds \subseteq Sendable /\ early \in BOOLEAN
    /\ {sent, handed} \subseteq Seq([first : Seq(Byte), second : Seq(Byte)])

\* The comment in readline, "this will always be <= p_read": the place where the
\* next line is looked for stays in the buffer, except behind a prompt or a USSD
\* message that has filled it to its last byte.
LastLine ==
    IF line1 # NoLine THEN line1
    ELSE LET call == handed[Len(handed)]
         IN  IF call.second # NoLine THEN call.second ELSE call.first

InBounds ==
    s_ATBufferCur > MAX_AT_RESPONSE =>
       PromptLine(LastLine) \/ LastLine[1].c = "+CUSD:"

\* While the modem sends complete lines that fit into the buffer, and nothing
\* before its prompt has been read, every line is handed on as it was sent, in
\* order and one at a time, however the bytes are cut into reads; and none is
\* held back while readline waits for more.
LinesAsSent ==
    kinds \subseteq {"OK", "sms", "prompt"} /\ ~early /\ opens = 1 =>
       /\ Len(handed) <= Len(sent) /\ handed = SubSeq(sent, 1, Len(handed))
       /\ thread = "read" /\ tty = << >> => handed = sent

InCall(i) == handed[i].first \o handed[i].second

\* Lines may be lost or run together by an overflow, a prompt or a new session,
\* but nothing is handed on twice or out of order; only behind a USSD message
\* can readline find what it has returned before.
OnceInOrder ==
    "ussd" \notin kinds =>
       \A i, j \in DOMAIN handed :
          \A m \in DOMAIN InCall(i), n \in DOMAIN InCall(j) :
             i < j \/ (i = j /\ m < n) => InCall(i)[m].at < InCall(j)[n].at
===============================================================================

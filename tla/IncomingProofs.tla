---------------------------- MODULE IncomingProofs ----------------------------
(* Theorems about LineReader and Incoming, for every mixture of messages and *)
(* however their bytes are cut into reads.  For every size of the buffer:    *)
(* readline stays in it, and hands on nothing twice or out of order.  For a  *)
(* size of three bytes or more: complete lines are handed on as they were    *)
(* sent, and a short message reaches its handler with the PDU behind its     *)
(* header.                                                                   *)
EXTENDS Incoming, RegistryProofs, SequenceTheorems

\* The place of the last byte of the buffer.
LastByte == MAX_AT_RESPONSE

\* What the buffer may hold: it always ends in a NUL.
Buffers == {buf \in [0..LastByte -> Byte] : buf[LastByte].c = "NUL"}

-----------------------------------------------------------------------------
(* Strings in the buffer.                                                    *)

\* First finds the first byte of class C, if there is one.
LEMMA FirstFacts ==
    ASSUME NEW buf, NEW cur \in 0..LastByte, NEW C, NEW k \in cur..LastByte, buf[k].c \in C
    PROVE  /\ First(buf, cur, C) \in cur..k
           /\ buf[First(buf, cur, C)].c \in C
           /\ \A j \in cur..(First(buf, cur, C) - 1) : buf[j].c \notin C
<1> DEFINE S == {i \in cur..LastByte : buf[i].c \in C}
           P(i) == buf[i].c \in C /\ \A j \in cur..(i - 1) : buf[j].c \notin C
<1>1. S \in SUBSET Nat /\ S # {}
  BY BufferAssumption DEF LastByte
<1>2. PICK x \in S : \A y \in S : ~(y < x)
  BY <1>1, LeastElement
<1>3. x \in cur..LastByte /\ P(x)
  BY <1>2, BufferAssumption DEF LastByte
<1>4. First(buf, cur, C) = CHOOSE i \in cur..LastByte : P(i)
  BY DEF First, LastByte
<1>5. First(buf, cur, C) \in cur..LastByte /\ P(First(buf, cur, C))
  BY <1>3, <1>4
<1>6. ~(k < First(buf, cur, C))
  BY <1>5, BufferAssumption DEF LastByte
<1> QED
  BY <1>5, <1>6, BufferAssumption DEF LastByte

\* Newlines are skipped up to the terminator at most.
LEMMA SkipFacts ==
    ASSUME NEW buf \in Buffers, NEW cur \in 0..LastByte, NEW k \in cur..LastByte, buf[k].c = "NUL"
    PROVE  /\ SkipNewlines(buf, cur) \in cur..k
           /\ buf[SkipNewlines(buf, cur)].c # "NL"
           /\ \A j \in cur..(SkipNewlines(buf, cur) - 1) : buf[j].c = "NL"
<1> DEFINE C == Classes \ {"NL"}
<1>1. \A j \in cur..LastByte : buf[j].c \in Classes
  BY BufferAssumption DEF Buffers, Byte, LastByte
<1>2. buf[k].c \in C
  BY DEF Classes
<1>3. SkipNewlines(buf, cur) = First(buf, cur, C)
  BY DEF SkipNewlines
<1>4. /\ First(buf, cur, C) \in cur..k
      /\ buf[First(buf, cur, C)].c \in C
      /\ \A j \in cur..(First(buf, cur, C) - 1) : buf[j].c \notin C
  <2> HIDE DEF C
  <2> QED
    BY <1>2, FirstFacts
<1>5. buf[SkipNewlines(buf, cur)].c # "NL"
  BY <1>3, <1>4
<1>6. \A j \in cur..(SkipNewlines(buf, cur) - 1) : j \in cur..LastByte
  BY <1>3, <1>4, BufferAssumption DEF LastByte
<1>7. \A j \in cur..(SkipNewlines(buf, cur) - 1) : buf[j].c = "NL"
  BY <1>1, <1>3, <1>4, <1>6
<1> QED
  BY <1>3, <1>4, <1>5, <1>7

\* The end of a string is its terminator.
LEMMA StringEndFacts ==
    ASSUME NEW buf \in Buffers, NEW cur \in 0..LastByte
    PROVE  /\ StringEnd(buf, cur) \in cur..LastByte
           /\ buf[StringEnd(buf, cur)].c = "NUL"
           /\ \A j \in cur..(StringEnd(buf, cur) - 1) : buf[j].c # "NUL"
<1>1. LastByte \in cur..LastByte /\ buf[LastByte].c \in {"NUL"}
  BY BufferAssumption DEF Buffers, LastByte
<1> QED
  BY <1>1, FirstFacts DEF StringEnd

\* A line that findNextEOL finds ends at a newline, or is the prompt.
LEMMA EOLFacts ==
    ASSUME NEW buf \in Buffers, NEW cur \in 0..LastByte, buf[cur].c # "NL",
           NEW eol, eol = findNextEOL(buf, cur), eol # NULL
    PROVE  /\ eol \in (cur + 1)..LastByte
           /\ \A j \in cur..(eol - 1) : buf[j].c # "NUL"
           /\ \/ buf[eol].c = "NL"
              \/ IsPrompt(buf, cur) /\ eol = cur + 2
<1>1. CASE IsPrompt(buf, cur)
  <2>1. eol = cur + 2 /\ buf[cur].c = ">" /\ buf[cur + 1].c = "SP"
    BY <1>1 DEF findNextEOL, IsPrompt
  <2>2. buf[LastByte].c = "NUL" /\ LastByte \in Nat
    BY BufferAssumption DEF Buffers, LastByte
  <2>3. cur # LastByte /\ cur + 1 # LastByte
    BY <2>1, <2>2
  <2>4. eol \in (cur + 1)..LastByte
    <3>1. cur \in Nat /\ cur <= LastByte
      BY <2>2
    <3>2. cur + 2 \in (cur + 1)..LastByte
      BY <2>2, <2>3, <3>1
    <3> QED
      BY <2>1, <3>2
  <2>5. \A j \in cur..(eol - 1) : j = cur \/ j = cur + 1
    <3>1. cur \in Nat
      BY <2>2
    <3>2. eol = cur + 2
      BY <2>1
    <3>3. eol \in Nat
      BY <3>1, <3>2
    <3> QED
      BY <3>1, <3>2, <3>3
  <2>6. \A j \in cur..(eol - 1) : buf[j].c # "NUL"
    BY <2>1, <2>5
  <2> QED
    BY <1>1, <2>1, <2>4, <2>6
<1>2. CASE ~IsPrompt(buf, cur)
  <2> DEFINE end == First(buf, cur, {"NUL", "NL"})
  <2>1. LastByte \in cur..LastByte /\ buf[LastByte].c \in {"NUL", "NL"} /\ LastByte \in Nat
    BY BufferAssumption DEF Buffers, LastByte
  <2>2. /\ end \in cur..LastByte
        /\ buf[end].c \in {"NUL", "NL"}
        /\ \A j \in cur..(end - 1) : buf[j].c \notin {"NUL", "NL"}
    BY <2>1, FirstFacts
  <2>3. eol = IF buf[end].c = "NUL" THEN NULL ELSE end
    BY <1>2 DEF findNextEOL
  <2>4. eol = end /\ buf[eol].c = "NL"
    BY <2>2, <2>3
  <2>5. eol # cur
    BY <2>4
  <2> QED
    BY <2>1, <2>2, <2>4, <2>5
<1> QED
  BY <1>1, <1>2

\* A line is a sequence of the bytes before its end.
LEMMA StringFacts ==
    ASSUME NEW buf \in Buffers, NEW cur \in 0..LastByte, NEW eol \in (cur + 1)..LastByte
    PROVE  /\ String(buf, cur, eol) \in Seq(Byte)
           /\ Len(String(buf, cur, eol)) = eol - cur
           /\ String(buf, cur, eol) # << >>
           /\ \A m \in 1..(eol - cur) : String(buf, cur, eol)[m] = buf[cur + m - 1]
<1>1. eol - cur \in Nat \ {0} /\ LastByte \in Nat
  BY BufferAssumption DEF LastByte
<1>2. \A m \in 1..(eol - cur) : cur + m - 1 \in 0..LastByte
  BY <1>1
<1>3. \A m \in 1..(eol - cur) : buf[cur + m - 1] \in Byte
  BY <1>2 DEF Buffers
<1>4. String(buf, cur, eol) = [m \in 1..(eol - cur) |-> buf[cur + m - 1]]
  BY DEF String
<1>5. String(buf, cur, eol) \in Seq(Byte)
  BY <1>1, <1>3, <1>4
<1> QED
  BY <1>1, <1>4, <1>5

-----------------------------------------------------------------------------
(* Types, and the place in the buffer.                                       *)

Call == [first : Seq(Byte), second : Seq(Byte)]

\* The place leaves the buffer only behind a line, and only behind one that may
\* end in the last byte; the buffer stays terminated.
LineInv ==
    /\ LineTypeOK
    /\ s_ATBuffer[LastByte].c = "NUL"
    /\ thread \in {"read", "closed"} => s_ATBufferCur <= LastByte
    /\ InBounds

\* What ReturnLine leaves: a terminated buffer, and the line where it belongs.
LEMMA ReturnFacts ==
    ASSUME NEW buf \in Buffers, NEW cur \in 0..LastByte, NEW eol \in (cur + 1)..LastByte,
           line1 \in Seq(Byte), handed \in Seq(Call), ReturnLine(buf, cur, eol)
    PROVE  /\ s_ATBuffer' \in Buffers
           /\ s_ATBufferCur' = eol + 1 /\ thread' = "loop"
           /\ line1' \in Seq(Byte) /\ handed' \in Seq(Call)
           /\ LastLine' = String(buf, cur, eol)
<1> DEFINE line == String(buf, cur, eol)
<1>1. line \in Seq(Byte) /\ line # << >>
  BY StringFacts
<1>2. /\ LastByte \in Nat /\ eol \in 0..LastByte
      /\ NUL \in Byte /\ NUL.c = "NUL"
  <2>1. LastByte \in Nat
    BY BufferAssumption DEF LastByte
  <2>2. NUL \in Byte /\ NUL.c = "NUL"
    BY DEF NUL, Byte, Classes
  <2> QED
    BY <2>1, <2>2
<1>3. s_ATBuffer' \in Buffers
  <2>1. [buf EXCEPT ![eol] = NUL] \in Buffers
    BY <1>2 DEF Buffers
  <2>2. eol < LastByte => [[buf EXCEPT ![eol] = NUL] EXCEPT ![eol + 1] = NUL] \in Buffers
    BY <1>2, <2>1 DEF Buffers
  <2> QED
    BY <2>1, <2>2 DEF ReturnLine, LastByte
<1>4. s_ATBufferCur' = eol + 1 /\ thread' = "loop" /\ Dispatch(line)
  BY DEF ReturnLine, AfterEOL
<1> HIDE DEF line
<1>5. CASE line1 # NoLine
  <2>1. handed' = Append(handed, Handed(line1, line)) /\ line1' = NoLine
    BY <1>4, <1>5 DEF Dispatch
  <2>2. Handed(line1, line) \in Call /\ Handed(line1, line).second = line
    BY <1>1 DEF Handed, Call
  <2>3. handed' \in Seq(Call) /\ handed'[Len(handed')] = Handed(line1, line)
    BY <2>1, <2>2
  <2>4. LastLine' = line
    BY <1>1, <2>1, <2>2, <2>3 DEF LastLine, NoLine
  <2>5. line1' \in Seq(Byte)
    BY <2>1 DEF NoLine
  <2> QED
    BY <1>3, <1>4, <2>3, <2>4, <2>5 DEF line
<1>6. CASE line1 = NoLine /\ isSMSUnsolicited(line)
  <2>1. line1' = line /\ handed' = handed
    BY <1>4, <1>6 DEF Dispatch
  <2>2. LastLine' = line
    BY <1>1, <2>1 DEF LastLine, NoLine
  <2> QED
    BY <1>1, <1>3, <1>4, <2>1, <2>2 DEF line
<1>7. CASE line1 = NoLine /\ ~isSMSUnsolicited(line)
  <2>1. handed' = Append(handed, Handed(line, NoLine)) /\ line1' = line1
    BY <1>4, <1>7 DEF Dispatch
  <2>2. /\ Handed(line, NoLine) \in Call
        /\ Handed(line, NoLine).first = line /\ Handed(line, NoLine).second = NoLine
    BY <1>1 DEF Handed, Call, NoLine
  <2>3. handed' \in Seq(Call) /\ handed'[Len(handed')] = Handed(line, NoLine)
    BY <2>1, <2>2
  <2>4. LastLine' = line
    BY <1>7, <2>1, <2>2, <2>3 DEF LastLine
  <2> QED
    BY <1>3, <1>4, <2>1, <2>3, <2>4 DEF line
<1> QED
  BY <1>5, <1>6, <1>7

\* What findNextEOL takes for the prompt is what readline takes for it.
LEMMA PromptText ==
    ASSUME NEW buf \in Buffers, NEW cur \in 0..LastByte, NEW eol \in (cur + 1)..LastByte,
           IsPrompt(buf, cur), eol = cur + 2
    PROVE  PromptLine(String(buf, cur, eol))
<1>1. LastByte \in Nat
  BY BufferAssumption DEF LastByte
<1>2. eol - cur = 2 /\ cur + 1 - 1 = cur /\ cur + 2 - 1 = cur + 1
  BY <1>1
<1>3. /\ Len(String(buf, cur, eol)) = eol - cur
      /\ \A m \in 1..(eol - cur) : String(buf, cur, eol)[m] = buf[cur + m - 1]
  BY StringFacts
<1>4. \A m \in 1..2 : String(buf, cur, eol)[m] = buf[cur + m - 1]
  BY <1>2, <1>3
<1>5. /\ Len(String(buf, cur, eol)) = 2
      /\ String(buf, cur, eol)[1] = buf[cur] /\ String(buf, cur, eol)[2] = buf[cur + 1]
  BY <1>2, <1>3, <1>4
<1> QED
  BY <1>5 DEF PromptLine, IsPrompt

\* A line that ends in the last byte is a prompt or a USSD message.
LEMMA ReturnInBounds ==
    ASSUME NEW buf \in Buffers, NEW cur \in 0..LastByte, buf[cur].c # "NL",
           NEW eol, eol # NULL,
           \/ eol = findNextEOL(buf, cur)
           \/ eol = processUSSD(buf, cur),
           line1 \in Seq(Byte), handed \in Seq(Call), ReturnLine(buf, cur, eol)
    PROVE  eol \in (cur + 1)..LastByte /\ InBounds'
<1>1. buf[LastByte].c = "NUL" /\ LastByte \in Nat
  BY BufferAssumption DEF Buffers, LastByte
<1>2. CASE eol = findNextEOL(buf, cur)
  <2>1. eol \in (cur + 1)..LastByte /\ (buf[eol].c = "NL" \/ (IsPrompt(buf, cur) /\ eol = cur + 2))
    BY <1>2, EOLFacts
  <2>2. s_ATBufferCur' = eol + 1 /\ LastLine' = String(buf, cur, eol)
    BY <2>1, ReturnFacts
  <2>3. CASE buf[eol].c = "NL"
    <3>1. eol # LastByte
      BY <1>1, <2>3
    <3> QED
      BY <1>1, <2>1, <2>2, <3>1 DEF InBounds, LastByte
  <2>4. CASE IsPrompt(buf, cur) /\ eol = cur + 2
    <3>1. PromptLine(String(buf, cur, eol))
      BY <2>1, <2>4, PromptText
    <3>2. PromptLine(LastLine)'
      BY <2>2, <3>1 DEF PromptLine
    <3> QED
      BY <2>1, <3>2 DEF InBounds
  <2> QED
    BY <2>1, <2>3, <2>4
<1>3. CASE eol = processUSSD(buf, cur)
  <2>1. buf[cur].c = "+CUSD:" /\ eol = StringEnd(buf, cur)
    BY <1>3 DEF processUSSD
  <2>2. eol \in cur..LastByte /\ buf[eol].c = "NUL"
    BY <2>1, StringEndFacts
  <2>3. eol # cur
    BY <2>1, <2>2
  <2>4. eol \in (cur + 1)..LastByte
    BY <1>1, <2>2, <2>3
  <2>5. LastLine' = String(buf, cur, eol)
    BY <2>4, ReturnFacts
  <2>6. String(buf, cur, eol)[1] = buf[cur]
    <3>1. 1 \in 1..(eol - cur) /\ cur + 1 - 1 = cur
      BY <1>1, <2>4
    <3> QED
      BY <2>4, <3>1, StringFacts
  <2> QED
    BY <2>1, <2>4, <2>5, <2>6 DEF InBounds
<1> QED
  BY <1>2, <1>3

-----------------------------------------------------------------------------
(* What the modem sends.                                                     *)

\* The classes a message of some kind is made of: none but a USSD message has
\* its prefix.
ClassesOf(kind) == (Classes \ {"NUL", "+CUSD:"}) \cup {c \in {"+CUSD:"} : kind = "ussd"}

\* Short sequences.
LEMMA Tuples ==
    ASSUME NEW D, NEW a \in D, NEW b \in D, NEW c \in D, NEW d \in D
    PROVE  <<a>> \in Seq(D) /\ <<a, b>> \in Seq(D) /\ <<a, b, c, d>> \in Seq(D)
OBVIOUS

\* ... and their elements.
LEMMA OneOrTwo ==
    ASSUME NEW a, NEW b
    PROVE  /\ <<a>>[1] = a /\ Len(<<a>>) = 1
           /\ <<a, b>>[1] = a /\ <<a, b>>[2] = b /\ Len(<<a, b>>) = 2
OBVIOUS

\* The lines of every kind of message.
LEMMA LinesFacts ==
    ASSUME NEW kind \in Sendable
    PROVE  /\ Lines(kind)[1] \in Seq(ClassesOf(kind))
           /\ kind = "sms" => Lines(kind)[2] \in Seq(ClassesOf(kind)) /\ Len(Lines(kind)) = 2
           /\ kind # "sms" => Len(Lines(kind)) = 1
<1>1. kind \in {"OK", "sms", "notice", "prompt", "ussd", "long"}
  BY SendableAssumption
<1> DEFINE D == ClassesOf(kind)
<1>2. /\ "OK" \in D /\ "x" \in D /\ "+CMT:" \in D /\ "+CDSI:" \in D
      /\ ">" \in D /\ "SP" \in D /\ "NL" \in D
      /\ kind = "ussd" => "+CUSD:" \in D
  BY DEF ClassesOf, Classes
<1> HIDE DEF D
<1>3. CASE kind = "OK"
  <2>1. Lines(kind) = << <<"OK">> >>
    BY <1>3 DEF Lines
  <2>2. <<"OK">> \in Seq(D)
    BY <1>2, Tuples
  <2>3. Lines(kind)[1] = <<"OK">> /\ Len(Lines(kind)) = 1
    BY <2>1, OneOrTwo
  <2> QED
    BY <1>3, <2>2, <2>3 DEF D
<1>4. CASE kind = "sms"
  <2>1. Lines(kind) = << <<"+CMT:">>, <<"x">> >>
    BY <1>4 DEF Lines
  <2>2. <<"+CMT:">> \in Seq(D) /\ <<"x">> \in Seq(D)
    BY <1>2, Tuples
  <2>3. Lines(kind)[1] = <<"+CMT:">> /\ Lines(kind)[2] = <<"x">> /\ Len(Lines(kind)) = 2
    BY <2>1, OneOrTwo
  <2> QED
    BY <1>4, <2>2, <2>3 DEF D
<1>5. CASE kind = "notice"
  <2>1. Lines(kind) = << <<"+CDSI:">> >>
    BY <1>5 DEF Lines
  <2>2. <<"+CDSI:">> \in Seq(D)
    BY <1>2, Tuples
  <2>3. Lines(kind)[1] = <<"+CDSI:">> /\ Len(Lines(kind)) = 1
    BY <2>1, OneOrTwo
  <2> QED
    BY <1>5, <2>2, <2>3 DEF D
<1>6. CASE kind = "prompt"
  <2>1. Lines(kind) = << <<">", "SP">> >>
    BY <1>6 DEF Lines
  <2>2. <<">", "SP">> \in Seq(D)
    BY <1>2, Tuples
  <2>3. Lines(kind)[1] = <<">", "SP">> /\ Len(Lines(kind)) = 1
    BY <2>1, OneOrTwo
  <2> QED
    BY <1>6, <2>2, <2>3 DEF D
<1>7. CASE kind = "ussd"
  <2>1. Lines(kind) = << <<"+CUSD:", "x", "NL", "x">> >>
    BY <1>7 DEF Lines
  <2>2. <<"+CUSD:", "x", "NL", "x">> \in Seq(D)
    BY <1>2, <1>7, Tuples
  <2>3. Lines(kind)[1] = <<"+CUSD:", "x", "NL", "x">> /\ Len(Lines(kind)) = 1
    BY <2>1, OneOrTwo
  <2> QED
    BY <1>7, <2>2, <2>3 DEF D
<1>8. CASE kind = "long"
  <2> DEFINE xs == [i \in 1..MAX_AT_RESPONSE |-> "x"]
  <2>1. Lines(kind) = <<xs>>
    BY <1>8 DEF Lines
  <2>2. xs \in Seq(D)
    <3>1. MAX_AT_RESPONSE \in Nat
      BY BufferAssumption
    <3>2. \A i \in 1..MAX_AT_RESPONSE : "x" \in D
      BY <1>2
    <3> QED
      BY <3>1, <3>2
  <2> HIDE DEF xs
  <2>3. Lines(kind)[1] = xs /\ Len(Lines(kind)) = 1
    BY <2>1, OneOrTwo
  <2> QED
    BY <1>8, <2>2, <2>3 DEF D
<1> QED
  BY <1>1, <1>3, <1>4, <1>5, <1>6, <1>7, <1>8

\* ... and the bytes it becomes.
LEMMA StreamFacts ==
    ASSUME NEW kind \in Sendable
    PROVE  Stream(kind) \in Seq(ClassesOf(kind))
<1> DEFINE D == ClassesOf(kind)
<1>1. "NL" \in D
  BY DEF ClassesOf, Classes
<1>2. ASSUME NEW line \in Seq(D) PROVE Framed(line) \in Seq(D)
  <2>1. <<"NL">> \in Seq(D) /\ << >> \in Seq(D)
    BY <1>1
  <2>2. <<"NL">> \o line \in Seq(D)
    BY <1>2, <2>1, ConcatProperties
  <2>3. (IF line = <<">", "SP">> THEN << >> ELSE <<"NL">>) \in Seq(D)
    BY <2>1
  <2> QED
    BY <2>2, <2>3, ConcatProperties DEF Framed
<1> HIDE DEF D
<1>3. Lines(kind)[1] \in Seq(D) /\ (kind = "sms" => Lines(kind)[2] \in Seq(D))
  BY LinesFacts DEF D
<1>4. kind # "sms" => Stream(kind) = Framed(Lines(kind)[1])
  BY LinesFacts DEF Stream
<1>5. kind = "sms" => Stream(kind) = Framed(Lines(kind)[1]) \o Framed(Lines(kind)[2])
  BY LinesFacts DEF Stream
<1>6. CASE kind # "sms"
  BY <1>2, <1>3, <1>4, <1>6 DEF D
<1>7. CASE kind = "sms"
  <2>1. Framed(Lines(kind)[1]) \in Seq(D) /\ Framed(Lines(kind)[2]) \in Seq(D)
    BY <1>2, <1>3, <1>7
  <2>2. Framed(Lines(kind)[1]) \o Framed(Lines(kind)[2]) \in Seq(D)
    BY <2>1, ConcatProperties
  <2> QED
    BY <1>5, <1>7, <2>2 DEF D
<1> QED
  BY <1>6, <1>7

\* Bytes get their places in the stream one by one.
LEMMA BytesFacts ==
    ASSUME NEW D, D \subseteq Classes, NEW classes \in Seq(D), NEW after \in Nat
    PROVE  /\ Bytes(classes, after) \in Seq(Byte)
           /\ Len(Bytes(classes, after)) = Len(classes)
           /\ \A i \in 1..Len(classes) :
                /\ Bytes(classes, after)[i].c \in D
                /\ Bytes(classes, after)[i].at = after + i
<1>1. Len(classes) \in Nat /\ DOMAIN classes = 1..Len(classes)
  OBVIOUS
<1>2. \A i \in 1..Len(classes) : classes[i] \in D /\ after + i \in Nat
  BY <1>1
<1>3. \A i \in 1..Len(classes) : [c |-> classes[i], at |-> after + i] \in Byte
  BY <1>2 DEF Byte
<1>4. Bytes(classes, after) = [i \in 1..Len(classes) |-> [c |-> classes[i], at |-> after + i]]
  BY <1>1 DEF Bytes
<1>5. Bytes(classes, after) \in Seq(Byte) /\ Len(Bytes(classes, after)) = Len(classes)
  BY <1>1, <1>3, <1>4
<1> QED
  BY <1>2, <1>4, <1>5

\* What a message is meant to lead to is a call.
LEMMA MeantFacts ==
    ASSUME NEW kind \in Sendable, NEW after \in Nat
    PROVE  Meant(kind, after) \in Call
<1> DEFINE D == ClassesOf(kind)
           first == Lines(kind)[1]
<1>1. D \subseteq Classes
  BY DEF ClassesOf, Classes
<1>2. first \in Seq(D) /\ (kind = "sms" => Lines(kind)[2] \in Seq(D))
  BY LinesFacts
<1>3. Len(first) \in Nat
  BY <1>2
<1>4. Bytes(first, after + 1) \in Seq(Byte)
  <2> HIDE DEF D, first
  <2> QED
    BY <1>1, <1>2, BytesFacts
<1>5. kind = "sms" => Bytes(Lines(kind)[2], after + Len(first) + 3) \in Seq(Byte)
  <2> HIDE DEF D, first
  <2>1. after + Len(first) + 3 \in Nat
    BY <1>3
  <2> QED
    BY <1>1, <1>2, <2>1, BytesFacts
<1>6. NoLine \in Seq(Byte)
  BY DEF NoLine
<1> QED
  BY <1>4, <1>5, <1>6 DEF Meant, Handed, Call

-----------------------------------------------------------------------------
(* LineInv is inductive.                                                     *)

\* A record set that TypeOK spells out.
LEMMA CallType == LineTypeOK => handed \in Seq(Call) /\ sent \in Seq(Call)
BY DEF LineTypeOK, Call

\* It holds at first.
LEMMA InitLine == LineInit => LineInv
<1> SUFFICES ASSUME LineInit PROVE LineInv
  OBVIOUS
<1>1. MAX_AT_RESPONSE \in Nat
  BY BufferAssumption
<1>2. NUL \in Byte /\ NUL.c = "NUL"
  BY DEF NUL, Byte, Classes
<1>3. s_ATBuffer \in [0..MAX_AT_RESPONSE -> Byte] /\ s_ATBuffer[MAX_AT_RESPONSE].c = "NUL"
  BY <1>1, <1>2 DEF LineInit
<1>4. s_ATBufferCur \in 0..(MAX_AT_RESPONSE + 1) /\ p_read \in 0..MAX_AT_RESPONSE
  BY <1>1 DEF LineInit
<1>5. LineTypeOK
  <2>1. line1 \in Seq(Byte) /\ tty \in Seq(Byte)
    BY DEF LineInit, NoLine
  <2>2. {sent, handed} \subseteq Seq([first : Seq(Byte), second : Seq(Byte)])
    BY DEF LineInit
  <2>3. opens \in Nat /\ arrived \in Nat /\ kinds \subseteq Sendable /\ early \in BOOLEAN
    BY DEF LineInit
  <2>4. thread \in {"loop", "read", "closed", "undefined"}
    BY DEF LineInit
  <2> QED
    BY <1>3, <1>4, <2>1, <2>2, <2>3, <2>4 DEF LineTypeOK
<1>6. InBounds
  BY <1>1 DEF LineInit, InBounds
<1> QED
  BY <1>1, <1>3, <1>5, <1>6 DEF LineInv, LineInit, LastByte

\* readline with nothing in the buffer.
LEMMA LineBegin ==
    ASSUME LineInv, BeginEmpty
    PROVE  LineInv'
<1>1. MAX_AT_RESPONSE \in Nat \ {0}
  BY BufferAssumption
<1>2. NUL \in Byte
  BY DEF NUL, Byte, Classes
<1>3. /\ s_ATBuffer' \in [0..MAX_AT_RESPONSE -> Byte]
      /\ s_ATBuffer'[MAX_AT_RESPONSE] = s_ATBuffer[MAX_AT_RESPONSE]
  BY <1>1, <1>2 DEF LineInv, LineTypeOK, BeginEmpty
<1>4. s_ATBufferCur' = 0 /\ p_read' = 0
  BY DEF BeginEmpty
<1>5. LineTypeOK'
  <2>1. s_ATBufferCur' \in 0..(MAX_AT_RESPONSE + 1) /\ p_read' \in 0..MAX_AT_RESPONSE
    BY <1>1, <1>4
  <2> QED
    BY <1>3, <2>1 DEF LineInv, LineTypeOK, BeginEmpty, modemVars
<1>6. InBounds'
  BY <1>1, <1>4 DEF InBounds
<1> QED
  BY <1>1, <1>3, <1>4, <1>5, <1>6 DEF LineInv, LastByte

\* What is known of the buffer.
LEMMA BufferFacts ==
    ASSUME LineInv
    PROVE  /\ s_ATBuffer \in Buffers
           /\ LastByte \in Nat \ {0}
           /\ p_read \in 0..LastByte
           /\ line1 \in Seq(Byte) /\ handed \in Seq(Call)
BY BufferAssumption, CallType DEF LineInv, LineTypeOK, Buffers, LastByte

\* A returned line keeps the invariant.
LEMMA LineReturned ==
    ASSUME LineInv, LineTypeOK, NEW buf \in Buffers, NEW cur \in 0..LastByte, buf[cur].c # "NL",
           NEW eol, eol # NULL,
           \/ eol = findNextEOL(buf, cur)
           \/ eol = processUSSD(buf, cur),
           ReturnLine(buf, cur, eol),
           p_read' \in 0..LastByte, tty' \in Seq(Byte),
           UNCHANGED <<opens, arrived, sent, kinds, early>>
    PROVE  LineInv'
<1>1. line1 \in Seq(Byte) /\ handed \in Seq(Call) /\ sent \in Seq(Call)
  BY CallType DEF LineTypeOK
<1>2. eol \in (cur + 1)..LastByte /\ InBounds'
  BY <1>1, ReturnInBounds
<1>3. /\ s_ATBuffer' \in Buffers
      /\ s_ATBufferCur' = eol + 1 /\ thread' = "loop"
      /\ line1' \in Seq(Byte) /\ handed' \in Seq(Call)
  BY <1>1, <1>2, ReturnFacts
<1>4. s_ATBufferCur' \in 0..(LastByte + 1)
  <2>1. LastByte \in Nat
    BY BufferAssumption DEF LastByte
  <2> QED
    BY <1>2, <1>3, <2>1
<1>5. sent' \in Seq(Call)
  BY <1>1
<1>6. s_ATBuffer' \in [0..MAX_AT_RESPONSE -> Byte] /\ s_ATBuffer'[LastByte].c = "NUL"
  BY <1>3 DEF Buffers, LastByte
<1>7. LineTypeOK'
  BY <1>3, <1>4, <1>5, <1>6 DEF LineTypeOK, LastByte, Call
<1> QED
  BY <1>2, <1>3, <1>6, <1>7 DEF LineInv

\* readline with the rest of an earlier read.
LEMMA LineBuffered ==
    ASSUME LineInv, ReadlineBuffered
    PROVE  LineInv'
<1> DEFINE cur == SkipNewlines(s_ATBuffer, s_ATBufferCur)
           eol == findNextEOL(s_ATBuffer, cur)
           len == StringEnd(s_ATBuffer, cur) - cur
<1>1. s_ATBuffer \in Buffers /\ LastByte \in Nat \ {0} /\ s_ATBufferCur \in 0..LastByte
  BY BufferFacts DEF LineInv, LineTypeOK, ReadlineBuffered, LastByte
<1>2. LastByte \in s_ATBufferCur..LastByte /\ s_ATBuffer[LastByte].c = "NUL"
  BY <1>1 DEF Buffers
<1>3. cur \in 0..LastByte /\ s_ATBuffer[cur].c # "NL"
  <2>1. cur \in s_ATBufferCur..LastByte /\ s_ATBuffer[cur].c # "NL"
    BY <1>1, <1>2, SkipFacts
  <2> QED
    BY <1>1, <2>1
<1>4. CASE eol # NULL
  <2>1. ReturnLine(s_ATBuffer, cur, eol) /\ UNCHANGED <<p_read, modemVars>>
    BY <1>4 DEF ReadlineBuffered
  <2>2. p_read' \in 0..LastByte /\ tty' \in Seq(Byte)
    BY <2>1 DEF LineInv, LineTypeOK, LastByte, modemVars
  <2>3. UNCHANGED <<opens, arrived, sent, kinds, early>> /\ LineTypeOK
    BY <2>1 DEF LineInv, modemVars
  <2> HIDE DEF cur
  <2> QED
    BY <1>1, <1>3, <1>4, <2>1, <2>2, <2>3, LineReturned
<1>5. CASE eol = NULL
  <2>1. /\ s_ATBuffer' = [i \in 0..MAX_AT_RESPONSE |-> s_ATBuffer[IF i <= len THEN cur + i ELSE i]]
        /\ s_ATBufferCur' = 0 /\ p_read' = len /\ thread' = "read"
        /\ UNCHANGED <<line1, handed, modemVars>>
    BY <1>5 DEF ReadlineBuffered
  <2>2. StringEnd(s_ATBuffer, cur) \in cur..LastByte
    <3> HIDE DEF cur
    <3> QED
      BY <1>1, <1>3, StringEndFacts
  <2>3. len \in 0..LastByte /\ cur + len \in 0..LastByte
    <3> HIDE DEF cur
    <3> QED
      BY <1>1, <1>3, <2>2
  <2> HIDE DEF cur, len
  <2>4. \A i \in 0..LastByte : (IF i <= len THEN cur + i ELSE i) \in 0..LastByte
    BY <1>1, <1>3, <2>3
  <2>5. s_ATBuffer' \in [0..MAX_AT_RESPONSE -> Byte]
    BY <1>1, <2>1, <2>4 DEF Buffers, LastByte
  <2>6. s_ATBuffer'[LastByte] = s_ATBuffer[LastByte]
    <3>1. (IF LastByte <= len THEN cur + LastByte ELSE LastByte) = LastByte
      BY <1>1, <1>3, <2>3
    <3>2. LastByte \in 0..LastByte
      BY <1>1
    <3> QED
      BY <2>1, <3>1, <3>2 DEF LastByte
  <2>7. LineTypeOK'
    <3>1. s_ATBufferCur' \in 0..(MAX_AT_RESPONSE + 1) /\ p_read' \in 0..MAX_AT_RESPONSE
      BY <1>1, <2>1, <2>3 DEF LastByte
    <3> QED
      BY <2>1, <2>5, <3>1 DEF LineInv, LineTypeOK, modemVars
  <2>8. InBounds'
    BY <1>1, <2>1 DEF InBounds, LastByte
  <2>9. s_ATBufferCur' <= LastByte
    BY <1>1, <2>1
  <2> QED
    BY <1>2, <2>6, <2>7, <2>8, <2>9 DEF LineInv
<1> QED
  BY <1>4, <1>5

\* The buffer before a read.
LEMMA BeforeReadFacts ==
    ASSUME LineInv
    PROVE  /\ BeforeRead \in Buffers
           /\ StartOfRead(p_read) \in 0..LastByte /\ StartOfRead(p_read) # LastByte
           /\ s_ATBufferCur \in 0..LastByte => StartOfRead(s_ATBufferCur) \in 0..LastByte
<1>1. s_ATBuffer \in Buffers /\ LastByte \in Nat \ {0} /\ p_read \in 0..LastByte
  BY BufferFacts
<1>2. NUL \in Byte
  BY DEF NUL, Byte, Classes
<1>3. [s_ATBuffer EXCEPT ![0] = NUL] \in Buffers
  BY <1>1, <1>2 DEF Buffers
<1>4. BeforeRead \in Buffers
  BY <1>1, <1>3 DEF BeforeRead
<1>5. StartOfRead(p_read) \in 0..LastByte /\ StartOfRead(p_read) # LastByte
  BY <1>1 DEF StartOfRead, Overflow, LastByte
<1>6. s_ATBufferCur \in 0..LastByte => StartOfRead(s_ATBufferCur) \in 0..LastByte
  BY <1>1 DEF StartOfRead
<1> QED
  BY <1>4, <1>5, <1>6

\* What read leaves: the bytes that were there, those that came, and a NUL.
LEMMA AfterReadFacts ==
    ASSUME LineInv, NEW count \in 1..Len(tty),
           count <= MAX_AT_RESPONSE - StartOfRead(p_read)
    PROVE  /\ AfterRead(StartOfRead(p_read), count) \in Buffers
           /\ StartOfRead(p_read) + count \in 1..LastByte
           /\ AfterRead(StartOfRead(p_read), count)[StartOfRead(p_read) + count] = NUL
<1> DEFINE place == StartOfRead(p_read)
           buf == AfterRead(place, count)
<1>1. BeforeRead \in Buffers /\ place \in 0..LastByte
  BY BeforeReadFacts
<1>2. LastByte \in Nat \ {0} /\ tty \in Seq(Byte) /\ Len(tty) \in Nat
  BY BufferFacts DEF LineInv, LineTypeOK
<1> HIDE DEF place
<1>3. count \in Nat \ {0} /\ count <= LastByte - place /\ count <= Len(tty)
  BY <1>2 DEF place, LastByte
<1>4. place + count \in 1..LastByte
  BY <1>1, <1>2, <1>3
<1>5. NUL \in Byte /\ NUL.c = "NUL"
  BY DEF NUL, Byte, Classes
<1>6. ASSUME NEW i \in 0..LastByte, i \in place..(place + count - 1)
      PROVE  tty[i - place + 1] \in Byte
  <2>1. i - place + 1 \in 1..Len(tty)
    BY <1>1, <1>2, <1>3, <1>6
  <2> QED
    BY <1>2, <2>1
<1>7. buf \in [0..LastByte -> Byte]
  <2>1. \A i \in 0..LastByte :
           (IF i \in place..(place + count - 1) THEN tty[i - place + 1]
            ELSE IF i = place + count THEN NUL ELSE BeforeRead[i]) \in Byte
    BY <1>1, <1>5, <1>6 DEF Buffers
  <2> QED
    BY <2>1 DEF AfterRead, LastByte
<1>8. place + count \notin place..(place + count - 1)
  BY <1>1, <1>3
<1>9. buf[place + count] = NUL
  <2>1. place + count \in 0..MAX_AT_RESPONSE
    BY <1>4 DEF LastByte
  <2> QED
    BY <1>8, <2>1 DEF AfterRead
<1>10. buf[LastByte].c = "NUL"
  <2>1. CASE place + count = LastByte
    BY <1>5, <1>9, <2>1
  <2>2. CASE place + count # LastByte
    <3>1. LastByte \notin place..(place + count - 1) /\ LastByte \in 0..LastByte
      BY <1>1, <1>2, <1>3, <1>4
    <3>2. buf[LastByte] = BeforeRead[LastByte]
      BY <2>2, <3>1 DEF AfterRead, LastByte
    <3> QED
      BY <1>1, <3>2 DEF Buffers
  <2> QED
    BY <2>1, <2>2
<1> QED
  BY <1>4, <1>7, <1>9, <1>10 DEF Buffers, place

\* A read, with or without a line at its end.
LEMMA LineRead ==
    ASSUME LineInv, NEW count \in 1..Len(tty), Read(count)
    PROVE  LineInv'
<1> DEFINE place == StartOfRead(p_read)
           buf == AfterRead(place, count)
           start == StartOfRead(s_ATBufferCur)
           cur == SkipNewlines(buf, start)
           ussd == processUSSD(buf, cur)
           eol == IF ussd # NULL THEN ussd ELSE findNextEOL(buf, cur)
<1>1. LastByte \in Nat \ {0} /\ LineTypeOK /\ s_ATBufferCur \in 0..LastByte
  BY BufferFacts DEF LineInv, LineTypeOK, Read, LastByte
<1>2. count <= MAX_AT_RESPONSE - place
  BY DEF Read
<1>3. buf \in Buffers /\ place + count \in 1..LastByte
  BY <1>2, AfterReadFacts
<1>4. start \in 0..LastByte
  BY <1>1, BeforeReadFacts
<1> HIDE DEF place, buf, start
<1>5. cur \in 0..LastByte /\ buf[cur].c # "NL"
  <2>1. LastByte \in start..LastByte /\ buf[LastByte].c = "NUL"
    BY <1>1, <1>3, <1>4 DEF Buffers
  <2>2. cur \in start..LastByte /\ buf[cur].c # "NL"
    BY <1>3, <1>4, <2>1, SkipFacts
  <2> QED
    BY <1>1, <1>4, <2>2
<1>6. p_read' = place + count /\ p_read' \in 0..LastByte
  BY <1>1, <1>3 DEF Read, place
<1>7. tty' \in Seq(Byte)
  <2>1. tty' = SubSeq(tty, count + 1, Len(tty)) /\ tty \in Seq(Byte)
    BY <1>1 DEF Read, LineTypeOK
  <2>2. \A m \in (count + 1)..Len(tty) : m \in 1..Len(tty)
    OBVIOUS
  <2> QED
    BY <2>1, <2>2, SubSeqProperties
<1>8. UNCHANGED <<opens, arrived, sent, kinds, early>>
  BY DEF Read
<1>9. CASE eol # NULL
  <2>1. ReturnLine(buf, cur, eol)
    BY <1>9 DEF Read, place, buf, start
  <2>2. eol = findNextEOL(buf, cur) \/ eol = processUSSD(buf, cur)
    OBVIOUS
  <2> HIDE DEF cur, eol
  <2> QED
    BY <1>1, <1>3, <1>5, <1>6, <1>7, <1>8, <1>9, <2>1, <2>2, LineReturned
<1>10. CASE eol = NULL
  <2>1. s_ATBuffer' = buf /\ s_ATBufferCur' = cur /\ UNCHANGED <<thread, line1, handed>>
    BY <1>10 DEF Read, place, buf, start
  <2> HIDE DEF cur, eol
  <2>2. s_ATBuffer' \in [0..MAX_AT_RESPONSE -> Byte] /\ s_ATBuffer'[LastByte].c = "NUL"
    BY <1>3, <2>1 DEF Buffers, LastByte
  <2>3. s_ATBufferCur' \in 0..(MAX_AT_RESPONSE + 1) /\ s_ATBufferCur' <= LastByte
    BY <1>1, <1>5, <2>1 DEF LastByte
  <2>4. LineTypeOK'
    BY <1>1, <1>6, <1>7, <1>8, <2>1, <2>2, <2>3 DEF LineTypeOK, LastByte
  <2>5. InBounds'
    BY <1>1, <2>3 DEF InBounds, LastByte
  <2> QED
    BY <2>2, <2>3, <2>4, <2>5 DEF LineInv
<1> QED
  BY <1>9, <1>10

\* A read that fails.
LEMMA LineFails ==
    ASSUME LineInv, ReadFails
    PROVE  LineInv'
<1>1. LastByte \in Nat \ {0} /\ LineTypeOK /\ s_ATBufferCur \in 0..LastByte
  BY BufferFacts DEF LineInv, LineTypeOK, ReadFails, LastByte
<1>2. BeforeRead \in Buffers
  BY BeforeReadFacts
<1>3. StartOfRead(s_ATBufferCur) \in 0..LastByte
  BY <1>1, BeforeReadFacts
<1>4. StartOfRead(p_read) \in 0..LastByte
  BY BeforeReadFacts
<1>5. /\ s_ATBuffer' \in [0..MAX_AT_RESPONSE -> Byte] /\ s_ATBuffer'[LastByte].c = "NUL"
      /\ s_ATBufferCur' \in 0..LastByte /\ p_read' \in 0..MAX_AT_RESPONSE
  BY <1>2, <1>3, <1>4 DEF ReadFails, Buffers, LastByte
<1>6. s_ATBufferCur' \in 0..(MAX_AT_RESPONSE + 1) /\ s_ATBufferCur' <= LastByte
  BY <1>1, <1>5 DEF LastByte
<1>7. line1' \in Seq(Byte) /\ tty' \in Seq(Byte)
  BY DEF ReadFails, NoLine
<1>8. LineTypeOK'
  BY <1>1, <1>5, <1>6, <1>7 DEF LineTypeOK, ReadFails
<1>9. InBounds'
  BY <1>1, <1>6 DEF InBounds, LastByte
<1> QED
  BY <1>5, <1>6, <1>8, <1>9 DEF LineInv

\* The modem sends a message.
LEMMA LineSend ==
    ASSUME LineInv, NEW kind \in Sendable, Send(kind)
    PROVE  LineInv'
<1> DEFINE D == ClassesOf(kind)
<1>1. LineTypeOK /\ arrived \in Nat /\ tty \in Seq(Byte) /\ sent \in Seq(Call)
  BY CallType DEF LineInv, LineTypeOK
<1>2. D \subseteq Classes /\ Stream(kind) \in Seq(D)
  BY StreamFacts DEF ClassesOf, Classes
<1>3. tty' = tty \o Bytes(Stream(kind), arrived) /\ sent' = Append(sent, Meant(kind, arrived))
  BY DEF Send
<1>4. Bytes(Stream(kind), arrived) \in Seq(Byte)
  <2> HIDE DEF D
  <2> QED
    BY <1>1, <1>2, BytesFacts
<1>5. tty' \in Seq(Byte)
  BY <1>1, <1>3, <1>4, ConcatProperties
<1>6. sent' \in Seq(Call)
  BY <1>1, <1>3, MeantFacts, AppendProperties
<1>7. arrived' \in Nat /\ kinds' \subseteq Sendable /\ early' \in BOOLEAN
  <2>1. Len(Stream(kind)) \in Nat
    BY <1>2
  <2>2. arrived' = arrived + Len(Stream(kind))
    BY DEF Send
  <2>3. kinds' \subseteq Sendable
    BY <1>1 DEF Send, LineTypeOK
  <2>4. early' \in BOOLEAN
    BY Zenon DEF Send
  <2> QED
    BY <1>1, <2>1, <2>2, <2>3, <2>4
<1>8. UNCHANGED <<bufferVars, thread, line1, opens, handed>>
  BY DEF Send
<1>9. LineTypeOK'
  BY <1>1, <1>5, <1>6, <1>7, <1>8 DEF LineTypeOK, bufferVars, Call
<1> QED
  BY <1>8, <1>9 DEF LineInv, InBounds, LastLine, bufferVars

\* A new session.
LEMMA LineOpen ==
    ASSUME LineInv, at_open
    PROVE  LineInv'
<1>1. LineTypeOK'
  BY DEF LineInv, LineTypeOK, at_open, bufferVars
<1> QED
  BY <1>1 DEF LineInv, at_open, bufferVars, InBounds, LastLine

\* Every step keeps it.
LEMMA LineNext ==
    ASSUME LineInv, [LineStep]_lineVars
    PROVE  LineInv'
<1>1. CASE UNCHANGED lineVars
  BY <1>1 DEF lineVars, bufferVars, modemVars, LineInv, LineTypeOK, InBounds, LastLine
<1>2. CASE ReadlineEmpty
  BY <1>2, LineBegin DEF ReadlineEmpty
<1>3. CASE ReadlineBuffered
  BY <1>3, LineBuffered
<1>4. CASE ReadlineBeyond
  <2>1. CASE BeginEmpty
    BY <2>1, LineBegin
  <2>2. CASE thread' = "undefined" /\ UNCHANGED <<bufferVars, line1, handed, modemVars>>
    BY <2>2 DEF bufferVars, modemVars, LineInv, LineTypeOK, InBounds, LastLine
  <2> QED
    BY <1>4, <2>1, <2>2 DEF ReadlineBeyond
<1>5. CASE \E count \in 1..Len(tty) : Read(count)
  BY <1>5, LineRead
<1>6. CASE ReadFails
  BY <1>6, LineFails
<1>7. CASE at_open
  BY <1>7, LineOpen
<1>8. CASE \E kind \in Sendable : Send(kind)
  BY <1>8, LineSend
<1> QED
  BY <1>1, <1>2, <1>3, <1>4, <1>5, <1>6, <1>7, <1>8 DEF LineStep, Readline

\* The composition: what each part promises alone it promises in it.
LEMMA Composed == Spec => BootSpec /\ LineSpec
<1>1. Init => BootInit /\ LineInit
  BY DEF Init
<1>2. [Next]_vars => [Boot]_bootVars /\ [LineStep]_lineVars
  BY DEF Next, BootStep, ReaderStep, vars
<1> QED
  BY <1>1, <1>2, PTL DEF Spec, BootSpec, LineSpec

\* ... and so it always holds.
LEMMA LineInvariant == LineSpec => []LineInv
<1> QED
  BY InitLine, LineNext, PTL DEF LineSpec

\* The types, of the tables and of the line buffer.
THEOREM IncomingTypeTheorem == Spec => []TypeOK
<1>1. LineInv /\ BootTypeOK => TypeOK
  BY DEF LineInv, TypeOK
<1> QED
  BY <1>1, Composed, LineInvariant, BootTypeTheorem, PTL

\* For any size of the buffer and any bytes, however they are cut into reads, the
\* place where readline goes on stays in the buffer, except behind a prompt or a
\* USSD message.
THEOREM InBoundsTheorem == Spec => []InBounds
<1>1. LineInv => InBounds
  BY DEF LineInv
<1> QED
  BY <1>1, Composed, LineInvariant, PTL

-----------------------------------------------------------------------------
(* The order of the bytes.  A line, what is left of the buffer and what has  *)
(* arrived are functions on integers; s is below t if every byte of s came   *)
(* before every byte of t.                                                   *)

Text(call) == call.first \o call.second

Rising(t)   == \A m, n \in DOMAIN t : m < n => t[m].at < t[n].at
Below(s, t) == \A m \in DOMAIN s, n \in DOMAIN t : s[m].at < t[n].at
UpTo(t, k)  == \A m \in DOMAIN t : t[m].at <= k
NoUssd(t)   == \A m \in DOMAIN t : t[m].c # "+CUSD:"

CallsRising(calls) ==
    \A i, j \in DOMAIN calls :
       \A m \in DOMAIN Text(calls[i]), n \in DOMAIN Text(calls[j]) :
          i < j \/ (i = j /\ m < n) => Text(calls[i])[m].at < Text(calls[j])[n].at

CallsBelow(calls, t) == \A i \in DOMAIN calls : Below(Text(calls[i]), t)
CallsUpTo(calls, k)  == \A i \in DOMAIN calls : UpTo(Text(calls[i]), k)

\* What readline has still to hand on from the place cur: up to the first NUL.
LivePlaces(buf, cur) ==
    {i \in cur..LastByte : \A j \in cur..i : buf[j].c # "NUL"}

LiveOf(buf, cur) == [i \in LivePlaces(buf, cur) |-> buf[i]]

\* The calls, the line that readerLoop keeps, the rest of the buffer and what has
\* arrived, in this order, and no byte from after the k-th.
Ordered(calls, line, live, rest, k) ==
    /\ CallsRising(calls) /\ Rising(line) /\ Rising(live) /\ Rising(rest)
    /\ CallsBelow(calls, line) /\ CallsBelow(calls, live) /\ CallsBelow(calls, rest)
    /\ Below(line, live) /\ Below(line, rest) /\ Below(live, rest)
    /\ CallsUpTo(calls, k) /\ UpTo(line, k) /\ UpTo(live, k) /\ UpTo(rest, k)
    /\ NoUssd(live) /\ NoUssd(rest)

\* s is a part of t, moved by d.
PartAt(s, t, d) == \A m \in DOMAIN s : m \in Int /\ m + d \in DOMAIN t /\ s[m] = t[m + d]
Part(s, t)      == \E d \in Int : PartAt(s, t, d)

\* A part of something keeps its order and its bounds.
LEMMA PartFacts ==
    ASSUME NEW s, NEW t, Part(s, t)
    PROVE  /\ Rising(t) => Rising(s)
           /\ \A u : Below(u, t) => Below(u, s)
           /\ \A u : Below(t, u) => Below(s, u)
           /\ \A calls : CallsBelow(calls, t) => CallsBelow(calls, s)
           /\ \A k : UpTo(t, k) => UpTo(s, k)
           /\ NoUssd(t) => NoUssd(s)
<1>1. PICK d \in Int : PartAt(s, t, d)
  BY DEF Part
<1>2. ASSUME Rising(t), NEW m \in DOMAIN s, NEW n \in DOMAIN s, m < n
      PROVE  s[m].at < s[n].at
  <2>1. /\ m \in Int /\ n \in Int /\ m + d \in DOMAIN t /\ n + d \in DOMAIN t
        /\ s[m] = t[m + d] /\ s[n] = t[n + d]
    BY <1>1 DEF PartAt
  <2>2. m + d < n + d
    BY <1>2, <2>1
  <2>3. t[m + d].at < t[n + d].at
    BY <1>2, <2>1, <2>2 DEF Rising
  <2> QED
    BY <2>1, <2>3
<1>3. ASSUME NEW u, Below(u, t) PROVE Below(u, s)
  BY <1>1, <1>3 DEF PartAt, Below
<1>4. ASSUME NEW u, Below(t, u) PROVE Below(s, u)
  BY <1>1, <1>4 DEF PartAt, Below
<1>5. ASSUME NEW calls, CallsBelow(calls, t) PROVE CallsBelow(calls, s)
  BY <1>3, <1>5 DEF CallsBelow
<1>6. ASSUME NEW k, UpTo(t, k) PROVE UpTo(s, k)
  BY <1>1, <1>6 DEF PartAt, UpTo
<1>7. ASSUME NoUssd(t) PROVE NoUssd(s)
  BY <1>1, <1>7 DEF PartAt, NoUssd
<1>8. Rising(t) => Rising(s)
  BY <1>2 DEF Rising
<1> QED
  BY <1>3, <1>4, <1>5, <1>6, <1>7, <1>8

\* Everything is a part of itself, and nothing is a part of everything.
LEMMA PartSelf ==
    ASSUME NEW t, DOMAIN t \subseteq Int
    PROVE  Part(t, t) /\ Part(<< >>, t)
<1>1. 0 \in Int /\ PartAt(t, t, 0) /\ PartAt(<< >>, t, 0)
  BY DEF PartAt
<1> QED
  BY <1>1 DEF Part

\* Bytes may be lost.
LEMMA OrderedPart ==
    ASSUME NEW calls, NEW line, NEW live, NEW rest, NEW k, Ordered(calls, line, live, rest, k),
           NEW line2, NEW live2, NEW rest2,
           Part(line2, line), Part(live2, live), Part(rest2, rest)
    PROVE  Ordered(calls, line2, live2, rest2, k)
<1>1. CallsRising(calls) /\ Rising(line2) /\ Rising(live2) /\ Rising(rest2)
  BY PartFacts DEF Ordered
<1>2. CallsBelow(calls, line2) /\ CallsBelow(calls, live2) /\ CallsBelow(calls, rest2)
  BY PartFacts DEF Ordered
<1>3. Below(line2, live2) /\ Below(line2, rest2) /\ Below(live2, rest2)
  <2>1. Below(line, live) /\ Below(line, rest) /\ Below(live, rest)
    BY DEF Ordered
  <2>2. Below(line2, live) /\ Below(line2, rest) /\ Below(live2, rest)
    BY <2>1, PartFacts
  <2> QED
    BY <2>2, PartFacts
<1>4. /\ CallsUpTo(calls, k) /\ UpTo(line2, k) /\ UpTo(live2, k) /\ UpTo(rest2, k)
      /\ NoUssd(live2) /\ NoUssd(rest2)
  BY PartFacts DEF Ordered
<1> QED
  BY <1>1, <1>2, <1>3, <1>4 DEF Ordered

\* The first count bytes that have arrived go behind a part of the live bytes.
LEMMA OrderedRead ==
    ASSUME NEW calls, NEW line, NEW live, NEW rest, NEW k, Ordered(calls, line, live, rest, k),
           NEW live2, NEW rest2, NEW place \in Int, NEW count \in Nat,
           DOMAIN live2 \subseteq Int, DOMAIN rest \subseteq Int, DOMAIN rest2 \subseteq Nat \ {0},
           \A i \in DOMAIN live2 :
              /\ i < place => i \in DOMAIN live /\ live2[i] = live[i]
              /\ i >= place => /\ i - place + 1 \in DOMAIN rest /\ i - place + 1 <= count
                               /\ live2[i] = rest[i - place + 1],
           PartAt(rest2, rest, count)
    PROVE  Ordered(calls, line, live2, rest2, k)
<1>1. Part(rest2, rest)
  BY DEF Part
<1>2. Rising(live2)
  <2> SUFFICES ASSUME NEW m \in DOMAIN live2, NEW n \in DOMAIN live2, m < n
               PROVE  live2[m].at < live2[n].at
    BY DEF Rising
  <2>1. m \in Int /\ n \in Int
    OBVIOUS
  <2>2. CASE n < place
    <3>1. m < place
      BY <2>1, <2>2
    <3> QED
      BY <2>2, <3>1 DEF Ordered, Rising
  <2>3. CASE m < place /\ n >= place
    BY <2>3 DEF Ordered, Below
  <2>4. CASE m >= place
    <3>1. n >= place /\ m - place + 1 < n - place + 1
      BY <2>1, <2>4
    <3> QED
      BY <2>4, <3>1 DEF Ordered, Rising
  <2> QED
    BY <2>1, <2>2, <2>3, <2>4
<1>3. \A i \in DOMAIN live2 : i < place \/ i >= place
  OBVIOUS
<1>4. ASSUME NEW u, Below(u, live), Below(u, rest) PROVE Below(u, live2)
  BY <1>3, <1>4 DEF Below
<1>5. Below(live2, rest2)
  <2> SUFFICES ASSUME NEW m \in DOMAIN live2, NEW n \in DOMAIN rest2
               PROVE  live2[m].at < rest2[n].at
    BY DEF Below
  <2>1. n \in Nat \ {0} /\ n + count \in DOMAIN rest /\ rest2[n] = rest[n + count]
    BY DEF PartAt
  <2>2. CASE m < place
    BY <2>1, <2>2 DEF Ordered, Below
  <2>3. CASE m >= place
    <3>1. m - place + 1 < n + count
      BY <2>1, <2>3
    <3> QED
      BY <2>1, <2>3, <3>1 DEF Ordered, Rising
  <2> QED
    BY <1>3, <2>2, <2>3
<1>6. CallsBelow(calls, live2)
  BY <1>4 DEF Ordered, CallsBelow
<1>7. UpTo(live2, k) /\ NoUssd(live2)
  BY <1>3 DEF Ordered, UpTo, NoUssd
<1>8. /\ Rising(rest2) /\ CallsBelow(calls, rest2) /\ Below(line, rest2)
      /\ UpTo(rest2, k) /\ NoUssd(rest2)
  BY <1>1, PartFacts DEF Ordered
<1> QED
  BY <1>2, <1>4, <1>5, <1>6, <1>7, <1>8 DEF Ordered

\* What holds of both lines of a call holds of the call.
LEMMA TextFacts ==
    ASSUME NEW a \in Seq(Byte), NEW b \in Seq(Byte), NEW s, s = a \o b
    PROVE  /\ Rising(a) /\ Rising(b) /\ Below(a, b) => Rising(s)
           /\ \A u : Below(u, a) /\ Below(u, b) => Below(u, s)
           /\ \A u : Below(a, u) /\ Below(b, u) => Below(s, u)
           /\ \A k : UpTo(a, k) /\ UpTo(b, k) => UpTo(s, k)
<1>1. Len(a) \in Nat /\ Len(b) \in Nat /\ DOMAIN a = 1..Len(a) /\ DOMAIN b = 1..Len(b)
  OBVIOUS
<1>2. /\ s \in Seq(Byte) /\ Len(s) = Len(a) + Len(b)
      /\ \A m \in 1..(Len(a) + Len(b)) : s[m] = IF m <= Len(a) THEN a[m] ELSE b[m - Len(a)]
  BY ConcatProperties
<1>3. DOMAIN s = 1..(Len(a) + Len(b))
  BY <1>2
<1>4. ASSUME NEW m \in DOMAIN s
      PROVE  /\ m \in Int
             /\ m <= Len(a) => m \in DOMAIN a /\ s[m] = a[m]
             /\ ~(m <= Len(a)) => m - Len(a) \in DOMAIN b /\ s[m] = b[m - Len(a)]
  BY <1>1, <1>2, <1>3, <1>4
<1>5. ASSUME Rising(a), Rising(b), Below(a, b), NEW m \in DOMAIN s, NEW n \in DOMAIN s, m < n
      PROVE  s[m].at < s[n].at
  <2>1. m \in Int /\ n \in Int
    BY <1>4
  <2>2. CASE n <= Len(a)
    <3>1. m <= Len(a)
      BY <1>1, <1>5, <2>1, <2>2
    <3> QED
      BY <1>4, <1>5, <2>2, <3>1 DEF Rising
  <2>3. CASE m <= Len(a) /\ ~(n <= Len(a))
    BY <1>4, <1>5, <2>3 DEF Below
  <2>4. CASE ~(m <= Len(a))
    <3>1. ~(n <= Len(a)) /\ m - Len(a) < n - Len(a)
      BY <1>1, <1>5, <2>1, <2>4
    <3> QED
      BY <1>4, <1>5, <2>4, <3>1 DEF Rising
  <2> QED
    BY <2>2, <2>3, <2>4
<1>6. ASSUME NEW u, Below(u, a), Below(u, b) PROVE Below(u, s)
  BY <1>4, <1>6 DEF Below
<1>7. ASSUME NEW u, Below(a, u), Below(b, u) PROVE Below(s, u)
  BY <1>4, <1>7 DEF Below
<1>8. ASSUME NEW k, UpTo(a, k), UpTo(b, k) PROVE UpTo(s, k)
  BY <1>4, <1>8 DEF UpTo
<1>9. Rising(a) /\ Rising(b) /\ Below(a, b) => Rising(s)
  BY <1>5 DEF Rising
<1> QED
  BY <1>6, <1>7, <1>8, <1>9

\* One more call.
LEMMA AppendCall ==
    ASSUME NEW calls \in Seq(Call), NEW call \in Call,
           CallsRising(calls), Rising(Text(call)), CallsBelow(calls, Text(call))
    PROVE  /\ CallsRising(Append(calls, call))
           /\ \A u : CallsBelow(calls, u) /\ Below(Text(call), u) => CallsBelow(Append(calls, call), u)
           /\ \A k : CallsUpTo(calls, k) /\ UpTo(Text(call), k) => CallsUpTo(Append(calls, call), k)
<1> DEFINE all == Append(calls, call)
           len == Len(calls)
<1>1. len \in Nat /\ DOMAIN calls = 1..len
  OBVIOUS
<1>2. DOMAIN all = 1..(len + 1) /\ all[len + 1] = call /\ \A i \in 1..len : all[i] = calls[i]
  BY AppendProperties
<1> HIDE DEF all, len
<1>3. \A i \in DOMAIN all : i = len + 1 \/ (i \in 1..len /\ i < len + 1)
  BY <1>1, <1>2
<1>4. CallsRising(all)
  <2> SUFFICES ASSUME NEW i \in DOMAIN all, NEW j \in DOMAIN all,
                      NEW m \in DOMAIN Text(all[i]), NEW n \in DOMAIN Text(all[j]),
                      i < j \/ (i = j /\ m < n)
               PROVE  Text(all[i])[m].at < Text(all[j])[n].at
    BY DEF CallsRising
  <2>1. CASE i \in 1..len /\ j \in 1..len
    BY <1>1, <1>2, <2>1 DEF CallsRising
  <2>2. CASE i \in 1..len /\ j = len + 1
    BY <1>1, <1>2, <2>2 DEF CallsBelow, Below
  <2>3. CASE i = len + 1
    <3>1. j = len + 1 /\ m < n
      BY <1>1, <1>3, <2>3
    <3> QED
      BY <1>2, <2>3, <3>1 DEF Rising
  <2> QED
    BY <1>3, <2>1, <2>2, <2>3
<1>5. ASSUME NEW u, CallsBelow(calls, u), Below(Text(call), u) PROVE CallsBelow(all, u)
  BY <1>1, <1>2, <1>3, <1>5 DEF CallsBelow
<1>6. ASSUME NEW k, CallsUpTo(calls, k), UpTo(Text(call), k) PROVE CallsUpTo(all, k)
  BY <1>1, <1>2, <1>3, <1>6 DEF CallsUpTo
<1> QED
  BY <1>4, <1>5, <1>6 DEF all

\* Two lines in one call come in order, behind all that was handed on.
LEMMA OrderedAppend ==
    ASSUME NEW calls \in Seq(Call), NEW a \in Seq(Byte), NEW b \in Seq(Byte),
           NEW live, NEW rest, NEW k,
           CallsRising(calls), CallsUpTo(calls, k), Rising(live), Rising(rest), Below(live, rest),
           CallsBelow(calls, a), CallsBelow(calls, b), CallsBelow(calls, live), CallsBelow(calls, rest),
           Rising(a), Rising(b), Below(a, b), UpTo(a, k), UpTo(b, k), UpTo(live, k), UpTo(rest, k),
           Below(a, live), Below(a, rest), Below(b, live), Below(b, rest),
           NoUssd(live), NoUssd(rest)
    PROVE  Ordered(Append(calls, Handed(a, b)), << >>, live, rest, k)
<1> DEFINE call == Handed(a, b)
<1>1. call \in Call /\ Text(call) = a \o b
  BY DEF Handed, Call, Text
<1> HIDE DEF call
<1>2. /\ Rising(Text(call)) /\ UpTo(Text(call), k)
      /\ Below(Text(call), live) /\ Below(Text(call), rest)
      /\ CallsBelow(calls, Text(call))
  <2> DEFINE s == a \o b
  <2>1. /\ Rising(a) /\ Rising(b) /\ Below(a, b) => Rising(s)
        /\ \A u : Below(u, a) /\ Below(u, b) => Below(u, s)
        /\ \A u : Below(a, u) /\ Below(b, u) => Below(s, u)
        /\ \A n : UpTo(a, n) /\ UpTo(b, n) => UpTo(s, n)
    BY TextFacts
  <2> HIDE DEF s
  <2>2. Rising(s) /\ UpTo(s, k) /\ Below(s, live) /\ Below(s, rest)
    BY <2>1
  <2>3. CallsBelow(calls, s)
    BY <2>1 DEF CallsBelow
  <2> QED
    BY <1>1, <2>2, <2>3 DEF s
<1>3. /\ CallsRising(Append(calls, call)) /\ CallsUpTo(Append(calls, call), k)
      /\ CallsBelow(Append(calls, call), live) /\ CallsBelow(Append(calls, call), rest)
  BY <1>1, <1>2, AppendCall
<1>4. /\ Rising(<< >>) /\ CallsBelow(Append(calls, call), << >>)
      /\ Below(<< >>, live) /\ Below(<< >>, rest) /\ UpTo(<< >>, k)
  BY DEF Rising, CallsBelow, Below, UpTo
<1> QED
  BY <1>3, <1>4 DEF Ordered, call

\* readerLoop hands on a line, or keeps it, and the order stays.
LEMMA OrderedDispatch ==
    ASSUME NEW live, NEW rest, NEW k, Ordered(handed, line1, live, rest, k),
           NEW line \in Seq(Byte), NEW live2, Part(line, live), Part(live2, live), Below(line, live2),
           handed \in Seq(Call), line1 \in Seq(Byte), Dispatch(line)
    PROVE  Ordered(handed', line1', live2, rest, k)
<1>1. /\ Rising(live2) /\ UpTo(live2, k) /\ NoUssd(live2) /\ CallsBelow(handed, live2)
      /\ Below(line1, live2) /\ Below(live2, rest)
  BY PartFacts DEF Ordered
<1>2. /\ Rising(line) /\ UpTo(line, k) /\ CallsBelow(handed, line)
      /\ Below(line1, line) /\ Below(line, rest)
  BY PartFacts DEF Ordered
<1>3. CASE line1 # NoLine
  <2>1. handed' = Append(handed, Handed(line1, line)) /\ line1' = << >>
    BY <1>3 DEF Dispatch, NoLine
  <2>2. Ordered(Append(handed, Handed(line1, line)), << >>, live2, rest, k)
    BY <1>1, <1>2, OrderedAppend DEF Ordered
  <2> QED
    BY <2>1, <2>2
<1>4. CASE line1 = NoLine /\ isSMSUnsolicited(line)
  <2>1. line1' = line /\ handed' = handed
    BY <1>4 DEF Dispatch
  <2>2. Ordered(handed, line, live2, rest, k)
    BY <1>1, <1>2 DEF Ordered
  <2> QED
    BY <2>1, <2>2
<1>5. CASE line1 = NoLine /\ ~isSMSUnsolicited(line)
  <2>1. handed' = Append(handed, Handed(line, << >>)) /\ line1' = << >>
    BY <1>5 DEF Dispatch, NoLine
  <2>2. << >> \in Seq(Byte)
    OBVIOUS
  <2>3. /\ Rising(<< >>) /\ Below(line, << >>) /\ CallsBelow(handed, << >>) /\ UpTo(<< >>, k)
        /\ Below(<< >>, live2) /\ Below(<< >>, rest)
    BY DEF Rising, Below, CallsBelow, UpTo
  <2>4. Ordered(Append(handed, Handed(line, << >>)), << >>, live2, rest, k)
    BY <1>1, <1>2, <2>2, <2>3, OrderedAppend DEF Ordered
  <2> QED
    BY <2>1, <2>4
<1> QED
  BY <1>3, <1>4, <1>5

-----------------------------------------------------------------------------
(* The order is kept.                                                        *)

\* What is live between two calls of readline; in a read, it lies before p_read.
OrderInv ==
    /\ "ussd" \notin kinds =>
          Ordered(handed, line1, LiveOf(s_ATBuffer, s_ATBufferCur), tty, arrived)
    /\ thread = "read" => s_ATBufferCur <= p_read

\* What is live, place by place.
LEMMA LiveFacts ==
    ASSUME NEW buf, NEW cur \in Int
    PROVE  /\ DOMAIN LiveOf(buf, cur) = LivePlaces(buf, cur)
           /\ LivePlaces(buf, cur) \subseteq Int
           /\ \A i \in LivePlaces(buf, cur) :
                /\ i \in cur..LastByte
                /\ LiveOf(buf, cur)[i] = buf[i]
                /\ \A j \in cur..i : buf[j].c # "NUL"
BY DEF LiveOf, LivePlaces

\* Nothing is live from a NUL on.
LEMMA NothingLive ==
    ASSUME NEW buf, NEW cur \in Nat, cur <= LastByte => buf[cur].c = "NUL", NEW t
    PROVE  Part(LiveOf(buf, cur), t)
<1>1. LastByte \in Nat
  BY BufferAssumption DEF LastByte
<1>2. ASSUME NEW i \in LivePlaces(buf, cur) PROVE FALSE
  <2>1. i \in cur..LastByte /\ buf[cur].c # "NUL"
    <3>1. i \in cur..LastByte /\ \A j \in cur..i : buf[j].c # "NUL"
      BY LiveFacts
    <3>2. cur \in cur..i
      BY <1>1, <3>1
    <3> QED
      BY <3>1, <3>2
  <2> QED
    BY <1>1, <2>1
<1>3. 0 \in Int /\ PartAt(LiveOf(buf, cur), t, 0)
  BY <1>2, LiveFacts DEF PartAt
<1> QED
  BY <1>3 DEF Part

\* Skipping newlines loses them and no more.
LEMMA LiveSkip ==
    ASSUME NEW buf \in Buffers, NEW cur \in 0..LastByte
    PROVE  Part(LiveOf(buf, SkipNewlines(buf, cur)), LiveOf(buf, cur))
<1> DEFINE next == SkipNewlines(buf, cur)
<1>1. LastByte \in Nat /\ buf[LastByte].c = "NUL" /\ LastByte \in cur..LastByte
  BY BufferAssumption DEF LastByte, Buffers
<1>2. next \in cur..LastByte /\ \A j \in cur..(next - 1) : buf[j].c = "NL"
  BY <1>1, SkipFacts
<1> HIDE DEF next
<1>3. ASSUME NEW i \in LivePlaces(buf, next)
      PROVE  i \in Int /\ i \in LivePlaces(buf, cur) /\ i + 0 = i
  <2>1. i \in next..LastByte /\ \A j \in next..i : buf[j].c # "NUL"
    BY <1>1, <1>2, LiveFacts
  <2>2. \A j \in cur..i : j \in cur..(next - 1) \/ j \in next..i
    BY <1>1, <1>2, <2>1
  <2>3. \A j \in cur..i : buf[j].c # "NUL"
    BY <1>2, <2>1, <2>2
  <2>4. i \in cur..LastByte /\ i \in Int
    BY <1>1, <1>2, <2>1
  <2> QED
    BY <2>3, <2>4 DEF LivePlaces
<1>4. next \in Int /\ cur \in Int
  BY <1>1, <1>2
<1>5. PartAt(LiveOf(buf, next), LiveOf(buf, cur), 0)
  BY <1>3, <1>4, LiveFacts DEF PartAt
<1> QED
  BY <1>5 DEF Part, next

\* readline returns a line and goes on behind it.
LEMMA OrderedReturn ==
    ASSUME NEW buf \in Buffers, NEW cur \in 0..LastByte, buf[cur].c # "NL",
           NEW eol, eol # NULL,
           \/ eol = findNextEOL(buf, cur)
           \/ eol = processUSSD(buf, cur),
           ReturnLine(buf, cur, eol), handed \in Seq(Call), line1 \in Seq(Byte),
           NEW rest, NEW k, Ordered(handed, line1, LiveOf(buf, cur), rest, k)
    PROVE  Ordered(handed', line1', LiveOf(s_ATBuffer', s_ATBufferCur'), rest, k)
<1> DEFINE live  == LiveOf(buf, cur)
           line  == String(buf, cur, eol)
           live2 == LiveOf(s_ATBuffer', s_ATBufferCur')
<1>1. LastByte \in Nat /\ cur \in Int
  BY BufferAssumption DEF LastByte
<1>2. processUSSD(buf, cur) = NULL
  <2>1. CASE buf[cur].c = "+CUSD:"
    <3>1. \A j \in cur..cur : buf[j].c # "NUL"
      BY <1>1, <2>1
    <3>2. cur \in LivePlaces(buf, cur)
      BY <1>1, <3>1 DEF LivePlaces
    <3>3. live[cur].c = "+CUSD:" /\ cur \in DOMAIN live
      BY <1>1, <2>1, <3>2, LiveFacts
    <3> QED
      BY <3>3 DEF Ordered, NoUssd
  <2> QED
    BY <2>1 DEF processUSSD
<1>3. /\ eol \in (cur + 1)..LastByte
      /\ \A j \in cur..(eol - 1) : buf[j].c # "NUL"
      /\ \/ buf[eol].c = "NL"
         \/ IsPrompt(buf, cur) /\ eol = cur + 2
  BY <1>2, EOLFacts
<1>4. /\ line \in Seq(Byte) /\ Len(line) = eol - cur
      /\ \A m \in 1..(eol - cur) : line[m] = buf[cur + m - 1]
  BY <1>3, StringFacts
<1>5. s_ATBufferCur' = eol + 1 /\ Dispatch(line)
  BY DEF ReturnLine, AfterEOL
<1>6. IsPrompt(buf, cur) /\ eol = cur + 2 => PromptLine(line)
  BY <1>3, PromptText
<1>7. s_ATBuffer' = IF PromptLine(line) /\ eol < MAX_AT_RESPONSE
                      THEN [[buf EXCEPT ![eol] = NUL] EXCEPT ![eol + 1] = NUL]
                      ELSE [buf EXCEPT ![eol] = NUL]
  BY DEF ReturnLine
<1> HIDE DEF live, line
<1>8. ASSUME NEW m \in 1..(eol - cur)
      PROVE  m \in Int /\ m + (cur - 1) \in LivePlaces(buf, cur) /\ buf[m + (cur - 1)] = line[m]
  <2>1. m + (cur - 1) = cur + m - 1 /\ cur + m - 1 \in cur..(eol - 1) /\ m \in Int
    BY <1>1, <1>3
  <2>2. \A j \in cur..(cur + m - 1) : j \in cur..(eol - 1)
    BY <1>1, <1>3, <2>1
  <2>3. cur + m - 1 \in cur..LastByte
    BY <1>1, <1>3, <2>1
  <2>4. cur + m - 1 \in LivePlaces(buf, cur)
    BY <1>3, <2>2, <2>3 DEF LivePlaces
  <2> QED
    BY <1>4, <2>1, <2>4
<1>9. DOMAIN line = 1..(eol - cur)
  BY <1>4
<1>10. Part(line, live)
  <2>1. cur - 1 \in Int /\ PartAt(line, live, cur - 1)
    BY <1>1, <1>8, <1>9, LiveFacts DEF PartAt, live
  <2> QED
    BY <2>1 DEF Part
<1>11. ASSUME NEW i \in LivePlaces(s_ATBuffer', eol + 1)
       PROVE  i \in LivePlaces(buf, cur) /\ s_ATBuffer'[i] = buf[i] /\ i > eol
  <2>1. /\ eol + 1 \in Int /\ i \in (eol + 1)..LastByte
        /\ \A j \in (eol + 1)..i : s_ATBuffer'[j].c # "NUL"
    BY <1>1, <1>3, LiveFacts
  <2>2. eol + 1 \in (eol + 1)..i /\ eol < LastByte /\ eol + 1 \in 0..LastByte /\ eol \in 0..LastByte
    BY <1>1, <1>3, <2>1
  <2>3. ~PromptLine(line)
    <3>1. CASE PromptLine(line)
      <4>1. s_ATBuffer'[eol + 1] = NUL
        BY <1>7, <2>2, <3>1 DEF Buffers, LastByte
      <4> QED
        BY <2>1, <2>2, <4>1 DEF NUL
    <3> QED
      BY <3>1
  <2>4. buf[eol].c = "NL"
    BY <1>3, <1>6, <2>3
  <2>5. \A j \in (eol + 1)..i : j \in 0..LastByte /\ j # eol
    BY <1>1, <1>3, <2>1
  <2>6. \A j \in (eol + 1)..i : s_ATBuffer'[j] = buf[j]
    BY <1>7, <2>3, <2>5 DEF Buffers
  <2>7. \A j \in cur..i : j \in cur..(eol - 1) \/ j = eol \/ j \in (eol + 1)..i
    BY <1>1, <1>3, <2>1
  <2>8. \A j \in cur..i : buf[j].c # "NUL"
    BY <1>3, <2>1, <2>4, <2>6, <2>7
  <2>9. i \in cur..LastByte /\ i > eol /\ i \in (eol + 1)..i
    BY <1>1, <1>3, <2>1
  <2> QED
    BY <2>6, <2>8, <2>9 DEF LivePlaces
<1>12. eol + 1 \in Int
  BY <1>1, <1>3
<1>13. /\ DOMAIN live2 = LivePlaces(s_ATBuffer', eol + 1)
       /\ \A i \in DOMAIN live2 : i \in Int /\ live2[i] = s_ATBuffer'[i]
  BY <1>5, <1>12, LiveFacts
<1>14. /\ DOMAIN live = LivePlaces(buf, cur)
       /\ \A i \in DOMAIN live : i \in Int /\ live[i] = buf[i]
  BY <1>1, LiveFacts DEF live
<1> HIDE DEF live2
<1>15. Part(live2, live)
  <2>1. \A i \in DOMAIN live2 : i + 0 = i
    BY <1>13
  <2>2. 0 \in Int /\ PartAt(live2, live, 0)
    BY <1>11, <1>13, <1>14, <2>1 DEF PartAt
  <2> QED
    BY <2>2 DEF Part
<1>16. Below(line, live2)
  <2> SUFFICES ASSUME NEW m \in DOMAIN line, NEW i \in DOMAIN live2
               PROVE  line[m].at < live2[i].at
    BY DEF Below
  <2>1. /\ m + (cur - 1) \in DOMAIN live /\ live[m + (cur - 1)] = line[m]
        /\ i \in DOMAIN live /\ live[i] = live2[i] /\ i > eol
    BY <1>8, <1>9, <1>11, <1>13, <1>14
  <2>2. m + (cur - 1) < i
    BY <1>1, <1>3, <1>9, <1>13, <2>1
  <2>3. Rising(live)
    BY DEF Ordered, live
  <2> QED
    BY <2>1, <2>2, <2>3 DEF Rising
<1> QED
  BY <1>4, <1>5, <1>10, <1>15, <1>16, OrderedDispatch DEF live, live2

\* What the steps below need of the types.
LEMMA OrderFacts ==
    ASSUME LineInv
    PROVE  /\ s_ATBuffer \in Buffers /\ LastByte \in Nat \ {0}
           /\ s_ATBufferCur \in Nat /\ p_read \in 0..LastByte
           /\ thread \in {"read", "closed"} => s_ATBufferCur \in 0..LastByte
           /\ handed \in Seq(Call) /\ line1 \in Seq(Byte) /\ tty \in Seq(Byte) /\ arrived \in Nat
           /\ Part(line1, line1) /\ Part(tty, tty) /\ Part(<< >>, line1) /\ Part(<< >>, tty)
<1>1. s_ATBufferCur \in 0..(LastByte + 1) /\ tty \in Seq(Byte) /\ arrived \in Nat
  BY DEF LineInv, LineTypeOK, LastByte
<1>2. s_ATBuffer \in Buffers /\ LastByte \in Nat \ {0} /\ p_read \in 0..LastByte
  BY BufferFacts
<1>3. line1 \in Seq(Byte) /\ handed \in Seq(Call)
  BY BufferFacts
<1>4. s_ATBufferCur \in Nat /\ (thread \in {"read", "closed"} => s_ATBufferCur \in 0..LastByte)
  BY <1>1, <1>2 DEF LineInv
<1>5. DOMAIN line1 \subseteq Int /\ DOMAIN tty \subseteq Int
  BY <1>1, <1>3
<1>6. Part(line1, line1) /\ Part(tty, tty) /\ Part(<< >>, line1) /\ Part(<< >>, tty)
  BY <1>5, PartSelf
<1> QED
  BY <1>1, <1>2, <1>3, <1>4, <1>6

\* The order holds at first.
LEMMA OrderInit == LineInit => OrderInv
<1> SUFFICES ASSUME LineInit PROVE OrderInv
  OBVIOUS
<1>1. MAX_AT_RESPONSE \in Nat /\ LastByte \in Nat
  BY BufferAssumption DEF LastByte
<1>2. s_ATBuffer[0].c = "NUL" /\ s_ATBufferCur = 0 /\ 0 \in Nat
  BY <1>1 DEF LineInit, NUL
<1>3. Part(LiveOf(s_ATBuffer, s_ATBufferCur), << >>)
  BY <1>2, NothingLive
<1>4. handed = << >> /\ line1 = << >> /\ tty = << >> /\ thread = "loop"
  BY DEF LineInit, NoLine
<1>5. Ordered(<< >>, << >>, << >>, << >>, arrived)
  BY DEF Ordered, CallsRising, CallsBelow, CallsUpTo, Rising, Below, UpTo, NoUssd
<1>6. Part(<< >>, << >>)
  <2>1. DOMAIN << >> \subseteq Int
    OBVIOUS
  <2> QED
    BY <2>1, PartSelf
<1>7. Ordered(<< >>, << >>, LiveOf(s_ATBuffer, s_ATBufferCur), << >>, arrived)
  BY <1>3, <1>5, <1>6, OrderedPart
<1> QED
  BY <1>4, <1>7 DEF OrderInv

\* readline with nothing in the buffer.
LEMMA OrderBegin ==
    ASSUME LineInv, OrderInv, BeginEmpty
    PROVE  OrderInv'
<1>1. s_ATBuffer' = [s_ATBuffer EXCEPT ![0] = NUL] /\ s_ATBufferCur' = 0 /\ p_read' = 0
  BY DEF BeginEmpty
<1>2. UNCHANGED <<handed, line1, tty, arrived, kinds>>
  BY DEF BeginEmpty, modemVars
<1>3. s_ATBuffer'[0].c = "NUL" /\ 0 \in Nat
  BY <1>1, OrderFacts DEF Buffers, NUL
<1>4. Part(LiveOf(s_ATBuffer', s_ATBufferCur'), LiveOf(s_ATBuffer, s_ATBufferCur))
  BY <1>1, <1>3, NothingLive
<1>5. ASSUME "ussd" \notin kinds
      PROVE  Ordered(handed, line1, LiveOf(s_ATBuffer', s_ATBufferCur'), tty, arrived)
  BY <1>4, <1>5, OrderFacts, OrderedPart DEF OrderInv
<1> QED
  BY <1>1, <1>2, <1>5 DEF OrderInv

\* readline with the rest of an earlier read: a line of it, or what is moved to the front.
LEMMA OrderBuffered ==
    ASSUME LineInv, OrderInv, ReadlineBuffered
    PROVE  OrderInv'
<1> DEFINE cur == SkipNewlines(s_ATBuffer, s_ATBufferCur)
           eol == findNextEOL(s_ATBuffer, cur)
           end == StringEnd(s_ATBuffer, cur)
           len == end - cur
<1>1. /\ s_ATBuffer \in Buffers /\ LastByte \in Nat \ {0} /\ s_ATBufferCur \in 0..LastByte
      /\ s_ATBuffer[LastByte].c = "NUL" /\ LastByte \in s_ATBufferCur..LastByte
  <2>1. s_ATBuffer \in Buffers /\ LastByte \in Nat \ {0} /\ s_ATBufferCur \in Nat
    BY OrderFacts
  <2>2. s_ATBufferCur <= LastByte
    BY DEF ReadlineBuffered, LastByte
  <2> QED
    BY <2>1, <2>2 DEF Buffers
<1>2. cur \in 0..LastByte /\ s_ATBuffer[cur].c # "NL"
  <2>1. cur \in s_ATBufferCur..LastByte /\ s_ATBuffer[cur].c # "NL"
    BY <1>1, SkipFacts
  <2> QED
    BY <1>1, <2>1
<1>3. UNCHANGED <<tty, arrived, kinds>>
  BY DEF ReadlineBuffered, modemVars
<1>4. "ussd" \notin kinds =>
         Ordered(handed, line1, LiveOf(s_ATBuffer, cur), tty, arrived)
  <2>1. Part(LiveOf(s_ATBuffer, cur), LiveOf(s_ATBuffer, s_ATBufferCur))
    BY <1>1, LiveSkip
  <2> HIDE DEF cur
  <2> QED
    BY <2>1, OrderFacts, OrderedPart DEF OrderInv
<1>5. CASE eol # NULL
  <2>1. ReturnLine(s_ATBuffer, cur, eol) /\ thread' = "loop"
    BY <1>5 DEF ReadlineBuffered, ReturnLine
  <2> HIDE DEF cur
  <2>2. "ussd" \notin kinds =>
           Ordered(handed', line1', LiveOf(s_ATBuffer', s_ATBufferCur'), tty, arrived)
    BY <1>1, <1>2, <1>4, <1>5, <2>1, OrderFacts, OrderedReturn
  <2> QED
    BY <1>3, <2>1, <2>2 DEF OrderInv
<1>6. CASE eol = NULL
  <2>1. /\ s_ATBuffer' = [i \in 0..MAX_AT_RESPONSE |-> s_ATBuffer[IF i <= len THEN cur + i ELSE i]]
        /\ s_ATBufferCur' = 0 /\ p_read' = len /\ UNCHANGED <<line1, handed>>
    BY <1>6 DEF ReadlineBuffered
  <2> HIDE DEF cur
  <2>2. end \in cur..LastByte /\ s_ATBuffer[end].c = "NUL"
    BY <1>1, <1>2, StringEndFacts
  <2> HIDE DEF end
  <2>3. len \in 0..LastByte /\ cur + len = end
    BY <1>1, <1>2, <2>2
  <2> HIDE DEF len
  <2>4. \A i \in 0..LastByte : i <= len => s_ATBuffer'[i] = s_ATBuffer[cur + i]
    BY <2>1 DEF LastByte
  <2>5. ASSUME NEW i \in LivePlaces(s_ATBuffer', 0)
        PROVE  /\ i \in Int /\ i + cur \in LivePlaces(s_ATBuffer, cur)
               /\ s_ATBuffer'[i] = s_ATBuffer[i + cur]
    <3>1. i \in 0..LastByte /\ \A j \in 0..i : s_ATBuffer'[j].c # "NUL"
      BY LiveFacts
    <3>2. i < len
      <4>1. CASE len <= i
        <5>1. len \in 0..i /\ s_ATBuffer'[len] = s_ATBuffer[end]
          BY <2>3, <2>4, <3>1, <4>1
        <5> QED
          BY <2>2, <3>1, <5>1
      <4> QED
        BY <2>3, <3>1, <4>1
    <3>3. \A j \in cur..(i + cur) : j - cur \in 0..i /\ j - cur \in 0..LastByte /\ j - cur <= len
                                    /\ cur + (j - cur) = j
      BY <1>1, <1>2, <2>3, <3>1, <3>2
    <3>4. \A j \in cur..(i + cur) : s_ATBuffer[j].c # "NUL"
      BY <2>4, <3>1, <3>3
    <3>5. i + cur \in cur..LastByte /\ cur + i = i + cur /\ i \in Int /\ i <= len
      BY <1>1, <1>2, <2>2, <2>3, <3>1, <3>2
    <3> QED
      BY <2>4, <3>1, <3>4, <3>5 DEF LivePlaces
  <2>6. Part(LiveOf(s_ATBuffer', 0), LiveOf(s_ATBuffer, cur))
    <3>1. cur \in Int /\ 0 \in Int
      BY <1>1, <1>2
    <3>2. PartAt(LiveOf(s_ATBuffer', 0), LiveOf(s_ATBuffer, cur), cur)
      BY <2>5, <3>1, LiveFacts DEF PartAt
    <3> QED
      BY <3>1, <3>2 DEF Part
  <2>7. "ussd" \notin kinds =>
           Ordered(handed, line1, LiveOf(s_ATBuffer', 0), tty, arrived)
    BY <1>4, <2>6, OrderFacts, OrderedPart
  <2>8. s_ATBufferCur' <= p_read'
    BY <1>1, <2>1, <2>3
  <2> QED
    BY <1>3, <2>1, <2>7, <2>8 DEF OrderInv
<1> QED
  BY <1>5, <1>6

\* A read that fails.
LEMMA OrderFails ==
    ASSUME LineInv, OrderInv, ReadFails
    PROVE  OrderInv'
<1>1. /\ s_ATBuffer' = BeforeRead /\ s_ATBufferCur' = StartOfRead(s_ATBufferCur)
      /\ thread' = "closed" /\ line1' = << >> /\ tty' = << >>
      /\ UNCHANGED <<handed, arrived, kinds>>
  BY DEF ReadFails, NoLine
<1>2. Part(LiveOf(s_ATBuffer', s_ATBufferCur'), LiveOf(s_ATBuffer, s_ATBufferCur))
  <2>1. CASE Overflow
    <3>1. s_ATBufferCur' = 0 /\ s_ATBuffer'[0].c = "NUL" /\ 0 \in Nat
      BY <1>1, <2>1, OrderFacts DEF BeforeRead, StartOfRead, Buffers, NUL
    <3> QED
      BY <3>1, NothingLive
  <2>2. CASE ~Overflow
    <3>1. s_ATBuffer' = s_ATBuffer /\ s_ATBufferCur' = s_ATBufferCur
      BY <1>1, <2>2 DEF BeforeRead, StartOfRead
    <3>2. s_ATBufferCur \in Int
      BY OrderFacts
    <3>3. DOMAIN LiveOf(s_ATBuffer, s_ATBufferCur) \subseteq Int
      BY <3>2, LiveFacts
    <3> QED
      BY <3>1, <3>3, PartSelf
  <2> QED
    BY <2>1, <2>2
<1>3. "ussd" \notin kinds =>
         Ordered(handed, << >>, LiveOf(s_ATBuffer', s_ATBufferCur'), << >>, arrived)
  BY <1>2, OrderFacts, OrderedPart DEF OrderInv
<1> QED
  BY <1>1, <1>3 DEF OrderInv

\* A read puts the bytes that have arrived behind the live ones.
LEMMA OrderRead ==
    ASSUME LineInv, OrderInv, NEW count \in 1..Len(tty), Read(count)
    PROVE  OrderInv'
<1> DEFINE place == StartOfRead(p_read)
           buf   == AfterRead(place, count)
           start == StartOfRead(s_ATBufferCur)
           cur   == SkipNewlines(buf, start)
           ussd  == processUSSD(buf, cur)
           eol   == IF ussd # NULL THEN ussd ELSE findNextEOL(buf, cur)
           live  == LiveOf(s_ATBuffer, s_ATBufferCur)
<1>1. /\ LastByte \in Nat \ {0} /\ s_ATBufferCur \in 0..LastByte /\ p_read \in 0..LastByte
      /\ s_ATBufferCur <= p_read
      /\ tty \in Seq(Byte) /\ Len(tty) \in Nat /\ count \in Nat \ {0} /\ count <= Len(tty)
  BY OrderFacts DEF OrderInv, Read
<1>2. /\ buf \in Buffers /\ place + count \in 1..LastByte /\ buf[place + count] = NUL
  BY AfterReadFacts DEF Read
<1>3. place \in 0..LastByte /\ start \in 0..LastByte /\ start <= place
  BY <1>1, BeforeReadFacts DEF StartOfRead
<1>4. ASSUME NEW i \in 0..LastByte
      PROVE  buf[i] = IF i \in place..(place + count - 1) THEN tty[i - place + 1]
                      ELSE IF i = place + count THEN NUL ELSE BeforeRead[i]
  BY <1>4 DEF AfterRead, LastByte
<1>5. ASSUME NEW i \in start..LastByte, i < place
      PROVE  s_ATBufferCur = start /\ BeforeRead = s_ATBuffer
  <2>1. ~Overflow
    BY <1>1, <1>3, <1>5 DEF StartOfRead
  <2> QED
    BY <2>1 DEF BeforeRead, StartOfRead
<1>6. p_read' = place + count /\ tty' = SubSeq(tty, count + 1, Len(tty))
      /\ UNCHANGED <<arrived, kinds>>
  BY DEF Read
<1> HIDE DEF place, buf, start
<1>7. ASSUME NEW i \in LivePlaces(buf, start)
      PROVE  /\ i \in Int
             /\ i < place => i \in LivePlaces(s_ATBuffer, s_ATBufferCur) /\ buf[i] = s_ATBuffer[i]
             /\ i >= place => /\ i - place + 1 \in DOMAIN tty /\ i - place + 1 <= count
                              /\ buf[i] = tty[i - place + 1]
  <2>1. i \in start..LastByte /\ \A j \in start..i : buf[j].c # "NUL"
    BY <1>3, LiveFacts
  <2>2. i < place + count
    <3>1. CASE place + count <= i
      <4>1. place + count \in start..i
        BY <1>1, <1>2, <1>3, <2>1, <3>1
      <4> QED
        BY <1>2, <2>1, <4>1 DEF NUL
    <3> QED
      BY <1>1, <1>2, <1>3, <2>1, <3>1
  <2>3. i \in Int /\ i \in 0..LastByte
    BY <1>1, <1>3, <2>1
  <2>4. ASSUME i < place
        PROVE  i \in LivePlaces(s_ATBuffer, s_ATBufferCur) /\ buf[i] = s_ATBuffer[i]
    <3>1. s_ATBufferCur = start /\ BeforeRead = s_ATBuffer
      BY <1>5, <2>1, <2>4
    <3>2. \A j \in start..i : /\ j \in 0..LastByte /\ j \notin place..(place + count - 1)
                              /\ j # place + count
      BY <1>1, <1>3, <2>1, <2>4
    <3>3. \A j \in start..i : buf[j] = s_ATBuffer[j]
      BY <1>4, <3>1, <3>2
    <3>4. i \in start..i
      BY <1>3, <2>1
    <3> QED
      BY <2>1, <3>1, <3>3, <3>4 DEF LivePlaces
  <2>5. ASSUME i >= place
        PROVE  /\ i - place + 1 \in DOMAIN tty /\ i - place + 1 <= count
               /\ buf[i] = tty[i - place + 1]
    <3>1. i \in place..(place + count - 1) /\ i - place + 1 \in 1..Len(tty) /\ i - place + 1 <= count
      BY <1>1, <1>3, <2>2, <2>3, <2>5
    <3> QED
      BY <1>1, <1>4, <2>3, <3>1
  <2> QED
    BY <2>3, <2>4, <2>5
<1>8. PartAt(tty', tty, count) /\ DOMAIN tty' \subseteq Nat \ {0} /\ DOMAIN tty \subseteq Int
  <2>1. \A m \in (count + 1)..Len(tty) : m \in 1..Len(tty)
    BY <1>1
  <2>2. /\ tty' \in Seq(Byte)
        /\ Len(tty') = IF count + 1 <= Len(tty) THEN Len(tty) - (count + 1) + 1 ELSE 0
        /\ \A m \in 1..Len(tty') : tty'[m] = tty[count + 1 + m - 1]
    BY <1>1, <1>6, <2>1, SubSeqProperties
  <2>3. \A m \in 1..Len(tty') : m \in Int /\ m + count \in 1..Len(tty) /\ count + 1 + m - 1 = m + count
    BY <1>1, <2>2
  <2>4. DOMAIN tty' = 1..Len(tty') /\ DOMAIN tty = 1..Len(tty) /\ Len(tty') \in Nat
    BY <1>1, <2>2
  <2>5. \A m \in DOMAIN tty' : m \in Int /\ m + count \in DOMAIN tty /\ tty'[m] = tty[m + count]
    BY <2>2, <2>3, <2>4
  <2>6. DOMAIN tty' \subseteq Nat \ {0} /\ DOMAIN tty \subseteq Int
    BY <1>1, <2>4
  <2> QED
    BY <2>5, <2>6 DEF PartAt
<1>9. "ussd" \notin kinds => Ordered(handed, line1, LiveOf(buf, start), tty', arrived)
  <2> SUFFICES ASSUME "ussd" \notin kinds
               PROVE  Ordered(handed, line1, LiveOf(buf, start), tty', arrived)
    OBVIOUS
  <2>1. Ordered(handed, line1, live, tty, arrived)
    BY DEF OrderInv
  <2>2. start \in Int /\ place \in Int /\ s_ATBufferCur \in Int /\ count \in Nat
    BY <1>1, <1>3
  <2>3. /\ DOMAIN LiveOf(buf, start) = LivePlaces(buf, start)
        /\ \A i \in LivePlaces(buf, start) : LiveOf(buf, start)[i] = buf[i]
    BY <2>2, LiveFacts
  <2>4. /\ DOMAIN live = LivePlaces(s_ATBuffer, s_ATBufferCur)
        /\ \A i \in LivePlaces(s_ATBuffer, s_ATBufferCur) : live[i] = s_ATBuffer[i]
    BY <2>2, LiveFacts
  <2> HIDE DEF live
  <2>5. DOMAIN LiveOf(buf, start) \subseteq Int
    BY <1>7, <2>3
  <2>6. \A i \in DOMAIN LiveOf(buf, start) :
           /\ i < place => i \in DOMAIN live /\ LiveOf(buf, start)[i] = live[i]
           /\ i >= place => /\ i - place + 1 \in DOMAIN tty /\ i - place + 1 <= count
                            /\ LiveOf(buf, start)[i] = tty[i - place + 1]
    BY <1>7, <2>3, <2>4
  <2> QED
    BY <1>8, <2>1, <2>2, <2>5, <2>6, OrderedRead
<1>10. cur \in start..(place + count) /\ cur \in 0..LastByte /\ buf[cur].c # "NL"
  <2>1. place + count \in start..LastByte /\ buf[place + count].c = "NUL"
    BY <1>1, <1>2, <1>3 DEF NUL
  <2>2. cur \in start..(place + count) /\ buf[cur].c # "NL"
    BY <1>2, <1>3, <2>1, SkipFacts
  <2> QED
    BY <1>1, <1>2, <1>3, <2>2
<1>11. "ussd" \notin kinds => Ordered(handed, line1, LiveOf(buf, cur), tty', arrived)
  <2>1. Part(LiveOf(buf, cur), LiveOf(buf, start))
    BY <1>2, <1>3, LiveSkip
  <2>2. Part(tty', tty') /\ Part(line1, line1)
    BY <1>8, OrderFacts, PartSelf
  <2> HIDE DEF cur
  <2> QED
    BY <1>9, <2>1, <2>2, OrderedPart
<1>12. CASE eol # NULL
  <2>1. ReturnLine(buf, cur, eol) /\ thread' = "loop"
    BY <1>12 DEF Read, ReturnLine, place, buf, start
  <2>2. eol = findNextEOL(buf, cur) \/ eol = processUSSD(buf, cur)
    OBVIOUS
  <2> HIDE DEF cur, eol
  <2>3. "ussd" \notin kinds =>
           Ordered(handed', line1', LiveOf(s_ATBuffer', s_ATBufferCur'), tty', arrived)
    BY <1>2, <1>10, <1>11, <1>12, <2>1, <2>2, OrderFacts, OrderedReturn
  <2> QED
    BY <1>6, <2>1, <2>3 DEF OrderInv
<1>13. CASE eol = NULL
  <2>1. s_ATBuffer' = buf /\ s_ATBufferCur' = cur /\ UNCHANGED <<thread, line1, handed>>
    BY <1>13 DEF Read, place, buf, start
  <2>2. s_ATBufferCur' <= p_read'
    BY <1>1, <1>2, <1>3, <1>6, <1>10, <2>1
  <2> HIDE DEF cur, eol
  <2> QED
    BY <1>6, <1>11, <2>1, <2>2 DEF OrderInv
<1> QED
  BY <1>12, <1>13

\* What is sent comes after everything that has been sent.
LEMMA LaterBytes ==
    ASSUME NEW t, \A m \in DOMAIN t : t[m] \in Byte, NEW k \in Nat, UpTo(t, k),
           NEW classes \in Seq(Classes)
    PROVE  Below(t, Bytes(classes, k)) /\ UpTo(t, k + Len(classes))
<1>1. Len(classes) \in Nat
  OBVIOUS
<1>2. /\ Bytes(classes, k) \in Seq(Byte) /\ Len(Bytes(classes, k)) = Len(classes)
      /\ \A i \in 1..Len(classes) : Bytes(classes, k)[i].at = k + i
  BY BytesFacts
<1>3. DOMAIN Bytes(classes, k) = 1..Len(classes)
  BY <1>2
<1>4. \A m \in DOMAIN t : t[m].at \in Nat /\ t[m].at <= k
  BY DEF UpTo, Byte
<1>5. Below(t, Bytes(classes, k))
  <2> SUFFICES ASSUME NEW m \in DOMAIN t, NEW i \in 1..Len(classes)
               PROVE  t[m].at < Bytes(classes, k)[i].at
    BY <1>3 DEF Below
  <2>1. t[m].at \in Nat /\ t[m].at <= k
    BY <1>4
  <2>2. Bytes(classes, k)[i].at = k + i /\ i \in Nat \ {0}
    BY <1>2
  <2> QED
    BY <2>1, <2>2
<1>6. UpTo(t, k + Len(classes))
  <2> SUFFICES ASSUME NEW m \in DOMAIN t PROVE t[m].at <= k + Len(classes)
    BY DEF UpTo
  <2>1. t[m].at \in Nat /\ t[m].at <= k
    BY <1>4
  <2> QED
    BY <1>1, <2>1
<1> QED
  BY <1>5, <1>6

\* The modem sends a message.
LEMMA OrderSend ==
    ASSUME LineInv, OrderInv, NEW kind \in Sendable, Send(kind)
    PROVE  OrderInv'
<1> DEFINE stream == Stream(kind)
           new    == Bytes(stream, arrived)
           live   == LiveOf(s_ATBuffer, s_ATBufferCur)
           later  == arrived + Len(stream)
<1>1. /\ tty' = tty \o new /\ arrived' = later
      /\ UNCHANGED <<s_ATBuffer, s_ATBufferCur, p_read, thread, line1, handed>>
      /\ kinds' = kinds \cup {kind}
  BY DEF Send, bufferVars
<1>2. SUFFICES ASSUME "ussd" \notin kinds, kind # "ussd"
               PROVE  Ordered(handed, line1, live, tty', later)
  BY <1>1 DEF OrderInv
<1>3. Ordered(handed, line1, live, tty, arrived)
  BY <1>2 DEF OrderInv
<1>4. stream \in Seq(ClassesOf(kind)) /\ ClassesOf(kind) \subseteq Classes \ {"+CUSD:"}
  BY <1>2, StreamFacts DEF ClassesOf, Classes
<1> HIDE DEF stream
<1>5. stream \in Seq(Classes) /\ Len(stream) \in Nat /\ arrived \in Nat
  BY <1>4, OrderFacts
<1>6. /\ new \in Seq(Byte) /\ DOMAIN new = 1..Len(stream)
      /\ \A i \in 1..Len(stream) : new[i].c # "+CUSD:" /\ new[i].at = arrived + i
  <2>1. /\ new \in Seq(Byte) /\ Len(new) = Len(stream)
        /\ \A i \in 1..Len(stream) : new[i].c \in ClassesOf(kind) /\ new[i].at = arrived + i
    BY <1>4, <1>5, BytesFacts
  <2> HIDE DEF new
  <2> QED
    BY <1>4, <2>1
<1>7. /\ handed \in Seq(Call) /\ line1 \in Seq(Byte) /\ tty \in Seq(Byte)
      /\ s_ATBuffer \in Buffers /\ s_ATBufferCur \in Nat
  BY OrderFacts
<1>8. \A i \in DOMAIN live : live[i] \in Byte
  <2>1. ASSUME NEW i \in LivePlaces(s_ATBuffer, s_ATBufferCur) PROVE live[i] \in Byte
    <3>1. i \in s_ATBufferCur..LastByte /\ live[i] = s_ATBuffer[i]
      BY <1>7, LiveFacts
    <3>2. i \in 0..LastByte
      BY <1>7, <3>1
    <3> QED
      BY <1>7, <3>1, <3>2 DEF Buffers
  <2> QED
    BY <1>7, <2>1, LiveFacts
<1>9. \A i \in DOMAIN handed : \A m \in DOMAIN Text(handed[i]) : Text(handed[i])[m] \in Byte
  <2> SUFFICES ASSUME NEW i \in DOMAIN handed PROVE Text(handed[i]) \in Seq(Byte)
    BY ElementOfSeq
  <2>1. handed[i] \in Call
    BY <1>7
  <2> QED
    BY <2>1, ConcatProperties DEF Text, Call
<1> HIDE DEF live, new
<1>10. Below(live, new) /\ UpTo(live, later)
  BY <1>3, <1>5, <1>8, LaterBytes DEF Ordered, new
<1>11. Below(line1, new) /\ UpTo(line1, later)
  <2>1. \A m \in DOMAIN line1 : line1[m] \in Byte
    BY <1>7
  <2> QED
    BY <1>3, <1>5, <2>1, LaterBytes DEF Ordered, new
<1>12. Below(tty, new) /\ UpTo(tty, later)
  <2>1. \A m \in DOMAIN tty : tty[m] \in Byte
    BY <1>7
  <2> QED
    BY <1>3, <1>5, <2>1, LaterBytes DEF Ordered, new
<1>13. CallsBelow(handed, new) /\ CallsUpTo(handed, later)
  <2> SUFFICES ASSUME NEW i \in DOMAIN handed
               PROVE  Below(Text(handed[i]), new) /\ UpTo(Text(handed[i]), later)
    BY DEF CallsBelow, CallsUpTo
  <2>1. UpTo(Text(handed[i]), arrived)
    BY <1>3 DEF Ordered, CallsUpTo
  <2> QED
    BY <1>5, <1>9, <2>1, LaterBytes DEF new
<1>14. Rising(new) /\ UpTo(new, later) /\ NoUssd(new)
  <2>1. Rising(new)
    BY <1>5, <1>6 DEF Rising
  <2>2. UpTo(new, later)
    BY <1>5, <1>6 DEF UpTo
  <2> QED
    BY <1>6, <2>1, <2>2 DEF NoUssd
<1>15. /\ Rising(tty') /\ UpTo(tty', later)
       /\ CallsBelow(handed, tty') /\ Below(line1, tty') /\ Below(live, tty')
  <2>1. /\ Rising(tty) /\ Rising(new) /\ Below(tty, new) => Rising(tty')
        /\ \A u : Below(u, tty) /\ Below(u, new) => Below(u, tty')
        /\ \A n : UpTo(tty, n) /\ UpTo(new, n) => UpTo(tty', n)
    BY <1>1, <1>6, <1>7, TextFacts
  <2>2. Rising(tty') /\ UpTo(tty', later) /\ Below(line1, tty') /\ Below(live, tty')
    BY <1>3, <1>10, <1>11, <1>12, <1>14, <2>1 DEF Ordered
  <2>3. CallsBelow(handed, tty')
    BY <1>3, <1>13, <2>1 DEF Ordered, CallsBelow
  <2> QED
    BY <2>2, <2>3
<1>16. NoUssd(tty')
  <2>1. Len(tty) \in Nat /\ DOMAIN tty = 1..Len(tty)
    BY <1>7
  <2>2. /\ Len(new) = Len(stream) /\ Len(tty') = Len(tty) + Len(new) /\ tty' \in Seq(Byte)
        /\ \A m \in 1..(Len(tty) + Len(new)) :
             tty'[m] = IF m <= Len(tty) THEN tty[m] ELSE new[m - Len(tty)]
    BY <1>1, <1>5, <1>6, <1>7, ConcatProperties
  <2>3. \A m \in DOMAIN tty' : m \in 1..(Len(tty) + Len(new))
    BY <2>2
  <2> SUFFICES ASSUME NEW m \in DOMAIN tty' PROVE tty'[m].c # "+CUSD:"
    BY DEF NoUssd
  <2>4. CASE m <= Len(tty)
    BY <1>3, <2>1, <2>2, <2>3, <2>4 DEF Ordered, NoUssd
  <2>5. CASE ~(m <= Len(tty))
    <3>1. m - Len(tty) \in 1..Len(stream)
      BY <1>5, <2>1, <2>2, <2>3, <2>5
    <3> QED
      BY <1>6, <2>2, <2>3, <2>5, <3>1
  <2> QED
    BY <2>4, <2>5
<1> QED
  BY <1>3, <1>10, <1>11, <1>13, <1>15, <1>16 DEF Ordered

\* Every step keeps it.
LEMMA OrderNext ==
    ASSUME LineInv, OrderInv, [LineStep]_lineVars
    PROVE  OrderInv'
<1>1. CASE UNCHANGED lineVars
  BY <1>1 DEF lineVars, bufferVars, modemVars, OrderInv
<1>2. CASE ReadlineEmpty
  BY <1>2, OrderBegin DEF ReadlineEmpty
<1>3. CASE ReadlineBuffered
  BY <1>3, OrderBuffered
<1>4. CASE ReadlineBeyond
  <2>1. CASE BeginEmpty
    BY <2>1, OrderBegin
  <2>2. CASE thread' = "undefined" /\ UNCHANGED <<bufferVars, line1, handed, modemVars>>
    BY <2>2 DEF bufferVars, modemVars, OrderInv
  <2> QED
    BY <1>4, <2>1, <2>2 DEF ReadlineBeyond
<1>5. CASE \E count \in 1..Len(tty) : Read(count)
  BY <1>5, OrderRead
<1>6. CASE ReadFails
  BY <1>6, OrderFails
<1>7. CASE at_open
  BY <1>7 DEF at_open, bufferVars, OrderInv
<1>8. CASE \E kind \in Sendable : Send(kind)
  BY <1>8, OrderSend
<1> QED
  BY <1>1, <1>2, <1>3, <1>4, <1>5, <1>6, <1>7, <1>8 DEF LineStep, Readline

\* ... and so it always holds.
LEMMA OrderInvariant == LineSpec => []OrderInv
<1>1. LineInv /\ OrderInv /\ [LineStep]_lineVars => OrderInv'
  BY OrderNext
<1> QED
  BY <1>1, OrderInit, LineInvariant, PTL DEF LineSpec

\* Whatever the modem sends but USSD messages, however the bytes are cut into
\* reads and however often the device is lost and opened again: no byte is handed
\* on twice, and none before one that came earlier.
THEOREM OrderTheorem == Spec => []OnceInOrder
<1>1. OrderInv => OnceInOrder
  <2>1. CallsRising(handed) => OnceInOrder
    BY DEF CallsRising, OnceInOrder, InCall, Text
  <2>2. "ussd" \in kinds => OnceInOrder
    BY DEF OnceInOrder
  <2> QED
    BY <2>1, <2>2 DEF OrderInv, Ordered
<1> QED
  BY <1>1, Composed, OrderInvariant, PTL

\* The tables that process_unsolicited looks lines up in, as OverrideTheorem says.
THEOREM HandlerTheorem == Spec => []OverrideWins
BY Composed, OverrideTheorem, PTL

-----------------------------------------------------------------------------
(* What is sent, byte by byte.  Msgs are the calls that are meant, n is the  *)
(* number of bytes sent.                                                     *)

ByteAt(c, at) == [c |-> c, at |-> at]

\* The place before the first byte of the k-th message.
Begin(msgs, n, k) == IF k <= Len(msgs) THEN msgs[k].first[1].at - 2 ELSE n

\* A message that comes behind the o-th byte.
OKAt(call, o)     == call = Handed(<<ByteAt("OK", o + 2)>>, NoLine)
SmsAt(call, o)    == call = Handed(<<ByteAt("+CMT:", o + 2)>>, <<ByteAt("x", o + 5)>>)
PromptAt(call, o) == call = Handed(<<ByteAt(">", o + 2), ByteAt("SP", o + 3)>>, NoLine)

Message(call, o, next, ks) ==
    \/ OKAt(call, o) /\ next = o + 3
    \/ SmsAt(call, o) /\ next = o + 6
    \/ PromptAt(call, o) /\ next = o + 3
    \/ "long" \in ks /\ call.second = NoLine /\ next >= o + 3

\* The messages follow each other.
Layout(msgs, n, ks) ==
    \A k \in 1..Len(msgs) :
       /\ Begin(msgs, n, k) \in Nat /\ Begin(msgs, n, k + 1) \in Nat
       /\ Begin(msgs, n, k + 1) <= n
       /\ Message(msgs[k], Begin(msgs, n, k), Begin(msgs, n, k + 1), ks)

\* A byte that is the one at its place of the message.
FitsMessage(b, call, o) ==
    /\ b.at = o + 1 => b.c = "NL"
    /\ OKAt(call, o) => (b.at = o + 2 => b.c = "OK") /\ (b.at = o + 3 => b.c = "NL")
    /\ SmsAt(call, o) =>
          /\ b.at = o + 2 => b.c = "+CMT:"
          /\ b.at = o + 5 => b.c = "x"
          /\ b.at = o + 3 \/ b.at = o + 4 \/ b.at = o + 6 => b.c = "NL"
    /\ PromptAt(call, o) => (b.at = o + 2 => b.c = ">") /\ (b.at = o + 3 => b.c = "SP")

Fits(b, msgs, n) ==
    /\ b.c \notin {"NUL", "+CDSI:", "+CUSD:"}
    /\ \A k \in 1..Len(msgs) : FitsMessage(b, msgs[k], Begin(msgs, n, k))
    /\ b.c = "+CMT:" =>
          \E k \in 1..Len(msgs) :
             SmsAt(msgs[k], Begin(msgs, n, k)) /\ b.at = Begin(msgs, n, k) + 2

-----------------------------------------------------------------------------
(* Lines in the buffer.                                                      *)

\* From cur to end the buffer has the bytes before the next to be read.
Window(buf, cur, end, next, msgs, n) ==
    /\ cur \in Nat /\ end \in Nat /\ cur <= end
    /\ cur <= LastByte => end <= LastByte /\ buf[end].c = "NUL"
    /\ cur > LastByte => end = cur
    /\ \A i \in cur..(end - 1) : buf[i].at = next - (end - i) /\ Fits(buf[i], msgs, n)

\* The next byte that counts has place goal; a newline may be before it.
Aim(cur, end, next, goal) == goal - 1 <= next - (end - cur) /\ next - (end - cur) <= goal

\* A blank comes last.
BlankLast(buf, cur, end) == \A i \in cur..(end - 1) : buf[i].c = "SP" => i = end - 1

\* What findNextEOL finds when the byte at goal begins a line: nothing until the
\* byte behind it is there, and then this line.
Expects(buf, cur, end, next, goal, C, E) ==
    /\ \A i \in cur..(end - 1) :
          /\ buf[i].c # "NUL" /\ buf[i].at = next - (end - i)
          /\ buf[i].at = goal - 1 => buf[i].c = "NL"
          /\ buf[i].at = goal => buf[i].c = C
          /\ buf[i].at = goal + 1 => buf[i].c = E
    /\ C # "NL"
    /\ C = ">" => E = "SP" /\ BlankLast(buf, cur, end)
    /\ C # ">" => E = "NL"
    /\ Aim(cur, end, next, goal)

\* What findNextEOL finds in a window, of a line that the modem has sent.
LEMMA FindLine ==
    ASSUME NEW buf \in Buffers, NEW cur \in 0..LastByte, buf[cur].c # "NL",
           NEW end \in cur..LastByte, buf[end].c = "NUL",
           NEW next \in Int, NEW goal \in Int, NEW C, NEW E,
           Expects(buf, cur, end, next, goal, C, E)
    PROVE  /\ end # cur => buf[cur].at = goal /\ buf[cur].c = C
           /\ findNextEOL(buf, cur) = NULL => end <= cur + 1
           /\ findNextEOL(buf, cur) # NULL =>
                 /\ cur + 2 <= end
                 /\ buf[cur + 1].at = goal + 1 /\ buf[cur + 1].c = E
                 /\ C = ">" => findNextEOL(buf, cur) = cur + 2 /\ end = cur + 2
                 /\ C # ">" => findNextEOL(buf, cur) = cur + 1
<1> DEFINE eol == findNextEOL(buf, cur)
<1> USE DEF Expects
<1>1. LastByte \in Nat /\ cur \in Int /\ end \in Int /\ cur <= end
  BY BufferAssumption DEF LastByte
<1>2. CASE end = cur
  <2>1. eol = NULL
    <3>1. CASE eol # NULL
      <4>1. eol \in (cur + 1)..LastByte /\ \A j \in cur..(eol - 1) : buf[j].c # "NUL"
        BY <3>1, EOLFacts
      <4>2. cur \in cur..(eol - 1)
        BY <1>1, <4>1
      <4> QED
        BY <1>2, <4>1, <4>2
    <3> QED
      BY <3>1
  <2> QED
    BY <1>1, <1>2, <2>1
<1>3. CASE end # cur
  <2>1. cur \in cur..(end - 1) /\ cur + 1 <= end
    BY <1>1, <1>3
  <2>2. buf[cur].at = next - (end - cur) /\ buf[cur].at = goal /\ buf[cur].c = C
    <3>1. buf[cur].at = next - (end - cur) /\ (buf[cur].at = goal - 1 => buf[cur].c = "NL")
      BY <2>1
    <3>2. buf[cur].at = goal
      BY <1>1, <3>1 DEF Aim
    <3> QED
      BY <2>1, <3>1, <3>2
  <2>3. ASSUME cur + 2 <= end
        PROVE  buf[cur + 1].at = goal + 1 /\ buf[cur + 1].c = E
    <3>1. cur + 1 \in cur..(end - 1)
      BY <1>1, <2>3
    <3>2. buf[cur + 1].at = next - (end - (cur + 1))
      BY <3>1
    <3>3. buf[cur + 1].at = goal + 1
      BY <1>1, <2>2, <3>2
    <3> QED
      BY <3>1, <3>3
  <2>4. ASSUME ~(cur + 2 <= end) PROVE eol = NULL
    <3>1. end = cur + 1
      BY <1>1, <2>1, <2>4
    <3>2. CASE eol # NULL
      <4>1. /\ eol \in (cur + 1)..LastByte /\ \A j \in cur..(eol - 1) : buf[j].c # "NUL"
            /\ buf[eol].c = "NL" \/ (IsPrompt(buf, cur) /\ eol = cur + 2)
        BY <3>2, EOLFacts
      <4>2. eol # cur + 1 => cur + 1 \in cur..(eol - 1)
        BY <1>1, <4>1
      <4>3. eol = cur + 1
        BY <3>1, <4>1, <4>2
      <4>4. cur + 1 # cur + 2
        BY <1>1
      <4> QED
        BY <3>1, <4>1, <4>3, <4>4
    <3> QED
      BY <3>2
  <2>5. CASE cur + 2 <= end /\ C = ">"
    <3>1. end = cur + 2
      <4>1. cur + 1 \in cur..(end - 1) /\ buf[cur + 1].c = "SP"
        BY <1>1, <2>3, <2>5
      <4>2. cur + 1 = end - 1
        BY <2>5, <4>1 DEF BlankLast
      <4> QED
        BY <1>1, <4>2
    <3>2. IsPrompt(buf, cur)
      BY <2>2, <2>3, <2>5, <3>1 DEF IsPrompt
    <3>3. eol = cur + 2 /\ NULL # cur + 2
      BY <1>1, <3>2 DEF findNextEOL, NULL
    <3> QED
      BY <1>1, <2>2, <2>3, <2>5, <3>1, <3>3
  <2>6. CASE cur + 2 <= end /\ C # ">"
    <3>1. ~IsPrompt(buf, cur)
      BY <2>2, <2>6 DEF IsPrompt
    <3> DEFINE first == First(buf, cur, {"NUL", "NL"})
    <3>2. cur + 1 \in cur..LastByte /\ buf[cur + 1].c \in {"NUL", "NL"}
      BY <1>1, <2>3, <2>6
    <3>3. first \in cur..(cur + 1) /\ buf[first].c \in {"NUL", "NL"}
      BY <3>2, FirstFacts
    <3>4. first # cur
      <4>1. buf[cur].c # "NUL"
        BY <2>1
      <4> QED
        BY <3>3, <4>1
    <3>5. first = cur + 1
      BY <1>1, <3>3, <3>4
    <3>6. eol = cur + 1 /\ NULL # cur + 1
      <4>1. buf[cur + 1].c = "NL"
        BY <2>3, <2>6
      <4>2. eol = IF buf[first].c = "NUL" THEN NULL ELSE first
        BY <3>1 DEF findNextEOL
      <4> HIDE DEF first
      <4> QED
        BY <1>1, <3>5, <4>1, <4>2 DEF NULL
    <3> QED
      BY <1>1, <2>2, <2>3, <2>6, <3>6
  <2> HIDE DEF eol
  <2> QED
    BY <1>1, <2>1, <2>2, <2>4, <2>5, <2>6 DEF eol
<1> QED
  BY <1>2, <1>3

\* Where the line begins that is waited for: of message k, the second line of a
\* short message when its first line is kept.
Goal(msgs, n, k, first) == Begin(msgs, n, k) + (IF first = NoLine THEN 2 ELSE 5)

\* The line that is kept is the first of the short message k.
Keeps(msgs, n, k, first) ==
    first # NoLine =>
       k \in 1..Len(msgs) /\ SmsAt(msgs[k], Begin(msgs, n, k)) /\ first = msgs[k].first

\* The bytes at the goal and beside it, when the message is not a long one.
Awaited(C, E, msgs, n, k, first) ==
    LET goal == Goal(msgs, n, k, first)
    IN  /\ C \notin {"NL", "SP"}
        /\ C = ">" => E = "SP"
        /\ C # ">" => E = "NL"
        /\ \A b : Fits(b, msgs, n) /\ b.at <= n =>
              /\ b.at = goal - 1 => b.c = "NL"
              /\ b.at = goal => b.c = C
              /\ b.at = goal + 1 => b.c = E
        /\ k <= Len(msgs) =>
              \/ /\ first # NoLine /\ C = "x" /\ Begin(msgs, n, k + 1) = goal + 1
                 /\ msgs[k] = Handed(first, <<ByteAt("x", goal)>>)
              \/ /\ first = NoLine /\ C = "+CMT:"
                 /\ SmsAt(msgs[k], Begin(msgs, n, k)) /\ msgs[k].first = <<ByteAt("+CMT:", goal)>>
              \/ /\ first = NoLine /\ C = "OK" /\ Begin(msgs, n, k + 1) = goal + 1
                 /\ msgs[k] = Handed(<<ByteAt("OK", goal)>>, NoLine)
              \/ /\ first = NoLine /\ C = ">" /\ Begin(msgs, n, k + 1) = goal + 1
                 /\ msgs[k] = Handed(<<ByteAt(">", goal), ByteAt("SP", goal + 1)>>, NoLine)
        /\ k > Len(msgs) => goal = n + 2

\* The line that is waited for has one of these shapes.
LEMMA AwaitedFacts ==
    ASSUME NEW msgs \in Seq(Call), NEW n \in Nat, NEW ks, Layout(msgs, n, ks),
           NEW k \in 1..(Len(msgs) + 1), NEW first, Keeps(msgs, n, k, first),
           \/ "long" \notin ks
           \/ k \in 1..Len(msgs) /\ SmsAt(msgs[k], Begin(msgs, n, k))
    PROVE  /\ Goal(msgs, n, k, first) \in Int
           /\ \E C, E : Awaited(C, E, msgs, n, k, first)
<1> DEFINE o == Begin(msgs, n, k)
           q == Begin(msgs, n, k + 1)
           goal == Goal(msgs, n, k, first)
           call == msgs[k]
<1>1. Len(msgs) \in Nat /\ k \in Int
  OBVIOUS
<1>2. CASE k > Len(msgs)
  <2>1. o = n /\ first = NoLine
    BY <1>1, <1>2 DEF Begin, Keeps
  <2>2. goal = n + 2
    BY <2>1 DEF Goal
  <2>3. Awaited("OK", "NL", msgs, n, k, first)
    <3> HIDE DEF o, q, goal, call
    <3>1. \A b : b.at <= n => b.at # goal - 1 /\ b.at # goal /\ b.at # goal + 1
      BY <2>2
    <3> QED
      BY <1>1, <1>2, <2>2, <3>1 DEF Awaited, goal
  <2> QED  BY <2>2, <2>3
<1>3. CASE k <= Len(msgs)
  <2>1. k \in 1..Len(msgs)
    BY <1>1, <1>3
  <2>2. o \in Nat /\ q \in Nat /\ Message(call, o, q, ks)
    BY <2>1 DEF Layout
  <2>3. \A b : Fits(b, msgs, n) => FitsMessage(b, call, o)
    BY <2>1 DEF Fits
  <2>4. goal = o + (IF first = NoLine THEN 2 ELSE 5)
    BY DEF Goal
  <2>5. \/ OKAt(call, o) /\ q = o + 3
        \/ SmsAt(call, o) /\ q = o + 6
        \/ PromptAt(call, o) /\ q = o + 3
    <3>1. SmsAt(call, o) => call.second # NoLine
      BY DEF SmsAt, Handed, NoLine
    <3> HIDE DEF o, q, call
    <3>2. "long" \notin ks \/ SmsAt(call, o)
      BY DEF o, call
    <3> QED  BY <2>2, <3>1, <3>2 DEF Message
  <2>6. first # NoLine => SmsAt(call, o) /\ first = call.first
    BY DEF Keeps
  <2> HIDE DEF o, q, goal, call
  <2>7. CASE first # NoLine
    <3>1. SmsAt(call, o) /\ first = call.first /\ goal = o + 5
      BY <2>4, <2>6, <2>7
    <3>2. q = o + 6
      BY <2>2, <2>5, <3>1 DEF OKAt, SmsAt, PromptAt, Handed, NoLine
    <3>3. call = Handed(first, <<ByteAt("x", goal)>>)
      BY <3>1 DEF SmsAt, Handed
    <3>4. ASSUME NEW b, Fits(b, msgs, n)
          PROVE  /\ b.at = goal - 1 => b.c = "NL"
                 /\ b.at = goal => b.c = "x"
                 /\ b.at = goal + 1 => b.c = "NL"
      <4>1. FitsMessage(b, call, o)
        BY <2>3, <3>4
      <4>2. goal - 1 = o + 4 /\ goal = o + 5 /\ goal + 1 = o + 6
        BY <2>2, <3>1
      <4> QED
        BY <3>1, <4>1, <4>2 DEF FitsMessage
    <3>5. Awaited("x", "NL", msgs, n, k, first)
      BY <1>1, <1>3, <2>2, <2>7, <3>1, <3>2, <3>3, <3>4 DEF Awaited, goal, q, call
    <3> QED  BY <2>2, <3>1, <3>5 DEF goal
  <2>8. CASE first = NoLine
    <3>1. goal = o + 2 /\ goal - 1 = o + 1 /\ goal + 1 = o + 3
      BY <2>2, <2>4, <2>8
    <3>2. ASSUME NEW b, Fits(b, msgs, n)
          PROVE  FitsMessage(b, call, o) /\ (b.at = goal - 1 => b.c = "NL")
      BY <2>3, <3>1, <3>2 DEF FitsMessage
    <3>3. CASE OKAt(call, o) /\ q = o + 3
      <4>1. \A b : Fits(b, msgs, n) => (b.at = goal => b.c = "OK") /\ (b.at = goal + 1 => b.c = "NL")
        BY <3>1, <3>2, <3>3 DEF FitsMessage
      <4>2. call = Handed(<<ByteAt("OK", goal)>>, NoLine) /\ q = goal + 1
        BY <3>1, <3>3 DEF OKAt
      <4>3. Awaited("OK", "NL", msgs, n, k, first)
        BY <1>1, <1>3, <2>8, <3>2, <4>1, <4>2 DEF Awaited, goal, q, call
      <4> QED  BY <2>2, <3>1, <4>3 DEF goal
    <3>4. CASE SmsAt(call, o)
      <4>1. \A b : Fits(b, msgs, n) => (b.at = goal => b.c = "+CMT:") /\ (b.at = goal + 1 => b.c = "NL")
        BY <3>1, <3>2, <3>4 DEF FitsMessage
      <4>2. call.first = <<ByteAt("+CMT:", goal)>>
        BY <3>1, <3>4 DEF SmsAt, Handed
      <4>3. Awaited("+CMT:", "NL", msgs, n, k, first)
        BY <1>1, <1>3, <2>8, <3>2, <3>4, <4>1, <4>2 DEF Awaited, goal, o, call
      <4> QED  BY <2>2, <3>1, <4>3 DEF goal
    <3>5. CASE PromptAt(call, o) /\ q = o + 3
      <4>1. \A b : Fits(b, msgs, n) => (b.at = goal => b.c = ">") /\ (b.at = goal + 1 => b.c = "SP")
        BY <3>1, <3>2, <3>5 DEF FitsMessage
      <4>2. call = Handed(<<ByteAt(">", goal), ByteAt("SP", goal + 1)>>, NoLine) /\ q = goal + 1
        BY <3>1, <3>5 DEF PromptAt
      <4>3. Awaited(">", "SP", msgs, n, k, first)
        BY <1>1, <1>3, <2>8, <3>2, <4>1, <4>2 DEF Awaited, goal, q, call
      <4> QED  BY <2>2, <3>1, <4>3 DEF goal
    <3> QED  BY <2>5, <3>3, <3>4, <3>5
  <2> QED  BY <2>7, <2>8
<1> QED  BY <1>1, <1>2, <1>3

\* Lines of one byte and of two.
LEMMA ShortStrings ==
    ASSUME NEW buf \in Buffers, NEW cur \in 0..LastByte, NEW eol \in (cur + 1)..LastByte
    PROVE  /\ eol = cur + 1 => String(buf, cur, eol) = <<buf[cur]>>
           /\ eol = cur + 2 => String(buf, cur, eol) = <<buf[cur], buf[cur + 1]>>
<1> DEFINE line == String(buf, cur, eol)
<1>1. LastByte \in Nat /\ cur \in Int /\ buf[cur] \in Byte
  BY BufferAssumption DEF LastByte, Buffers
<1>2. /\ line \in Seq(Byte) /\ Len(line) = eol - cur
      /\ \A m \in 1..(eol - cur) : line[m] = buf[cur + m - 1]
  BY StringFacts
<1> HIDE DEF line
<1>3. ASSUME eol = cur + 1 PROVE line = <<buf[cur]>>
  <2>1. Len(line) = 1 /\ line[1] = buf[cur]
    BY <1>1, <1>2, <1>3
  <2> DEFINE one == <<buf[cur]>>
  <2>2. one \in Seq(Byte) /\ Len(one) = 1 /\ one[1] = buf[cur]
    BY <1>1, Tuples, OneOrTwo
  <2> HIDE DEF one
  <2>3. line = one
    BY <1>2, <2>1, <2>2, SeqEqual
  <2> QED  BY <2>3 DEF one
<1>4. ASSUME eol = cur + 2 PROVE line = <<buf[cur], buf[cur + 1]>>
  <2>1. Len(line) = 2 /\ line[1] = buf[cur] /\ line[2] = buf[cur + 1]
    BY <1>1, <1>2, <1>4
  <2> DEFINE two == <<buf[cur], buf[cur + 1]>>
  <2>2. two \in Seq(Byte) /\ Len(two) = 2 /\ two[1] = buf[cur] /\ two[2] = buf[cur + 1]
    <3>1. buf[cur + 1] \in Byte
      BY <1>1, <1>4 DEF Buffers
    <3> QED  BY <1>1, <3>1, Tuples, OneOrTwo
  <2> HIDE DEF two
  <2>3. \A m \in 1..Len(line) : line[m] = two[m]
    BY <2>1, <2>2
  <2>4. line = two
    BY <1>2, <2>1, <2>2, <2>3, SeqEqual
  <2> QED  BY <2>4 DEF two
<1> QED  BY <1>3, <1>4 DEF line

\* The bytes of a window are bytes that were sent.
LEMMA WindowBytes ==
    ASSUME NEW buf \in Buffers, NEW cur \in 0..LastByte, NEW end, NEW next \in Int, NEW msgs,
           NEW n \in Nat, next <= n + 1, Window(buf, cur, end, next, msgs, n)
    PROVE  /\ end \in cur..LastByte /\ buf[end].c = "NUL"
           /\ \A i \in cur..(end - 1) :
                /\ i \in 0..LastByte /\ buf[i] \in Byte /\ buf[i].c # "NUL"
                /\ buf[i].at = next - (end - i) /\ buf[i].at <= n
                /\ Fits(buf[i], msgs, n)
<1>1. LastByte \in Nat /\ cur \in Int /\ cur <= LastByte /\ buf \in [0..LastByte -> Byte]
  BY BufferAssumption DEF LastByte, Buffers
<1>2. end \in Int /\ end \in cur..LastByte /\ buf[end].c = "NUL"
  BY <1>1 DEF Window
<1>3. ASSUME NEW i \in cur..(end - 1)
      PROVE  /\ i \in 0..LastByte /\ buf[i] \in Byte /\ buf[i].c # "NUL"
             /\ buf[i].at = next - (end - i) /\ buf[i].at <= n
             /\ Fits(buf[i], msgs, n)
  <2>1. i \in 0..LastByte /\ i \in Int /\ i <= end - 1
    BY <1>1, <1>2
  <2>2. buf[i].at = next - (end - i) /\ Fits(buf[i], msgs, n)
    BY DEF Window
  <2>3. next - (end - i) <= n
    BY <1>2, <2>1
  <2> QED  BY <1>1, <2>1, <2>2, <2>3 DEF Fits
<1> QED  BY <1>2, <1>3

\* The line at eol is the one that is waited for.
Found(buf, cur, end, next, eol, msgs, n, k, first) ==
    LET line == String(buf, cur, eol)
        goal == Goal(msgs, n, k, first)
    IN  /\ k <= Len(msgs) /\ cur + 2 <= end /\ next - (end - cur) = goal
        /\ \/ /\ first # NoLine /\ Begin(msgs, n, k + 1) = goal + 1
              /\ msgs[k] = Handed(first, line)
           \/ /\ first = NoLine /\ isSMSUnsolicited(line) /\ line = msgs[k].first
              /\ SmsAt(msgs[k], Begin(msgs, n, k))
           \/ /\ first = NoLine /\ ~isSMSUnsolicited(line) /\ Begin(msgs, n, k + 1) = goal + 1
              /\ msgs[k] = Handed(line, NoLine)
        /\ PromptLine(line) => eol = cur + 2 /\ end = cur + 2
        /\ ~PromptLine(line) => eol = cur + 1

\* ... and it is the one that findNextEOL finds, from its first byte to its last.
LEMMA FoundLine ==
    ASSUME NEW buf \in Buffers, NEW cur \in 0..LastByte, buf[cur].c # "NL",
           NEW end, NEW next \in Int, NEW msgs \in Seq(Call), NEW n \in Nat, next <= n + 1,
           NEW ks, Layout(msgs, n, ks), Window(buf, cur, end, next, msgs, n),
           NEW k \in 1..(Len(msgs) + 1), NEW first, Keeps(msgs, n, k, first),
           \/ "long" \notin ks /\ BlankLast(buf, cur, end)
           \/ k \in 1..Len(msgs) /\ SmsAt(msgs[k], Begin(msgs, n, k)),
           Aim(cur, end, next, Goal(msgs, n, k, first)),
           NEW eol, eol = findNextEOL(buf, cur)
    PROVE  /\ eol = NULL => end <= cur + 1
           /\ eol # NULL => Found(buf, cur, end, next, eol, msgs, n, k, first)
<1> DEFINE goal == Goal(msgs, n, k, first)
<1>1. goal \in Int
  BY AwaitedFacts
<1>2. PICK C, E : Awaited(C, E, msgs, n, k, first)
  BY AwaitedFacts
<1>3. /\ end \in cur..LastByte /\ buf[end].c = "NUL"
      /\ \A i \in cur..(end - 1) :
            /\ i \in 0..LastByte /\ buf[i] \in Byte /\ buf[i].c # "NUL"
            /\ buf[i].at = next - (end - i) /\ buf[i].at <= n
            /\ Fits(buf[i], msgs, n)
  BY WindowBytes
<1>4. \A i \in cur..(end - 1) :
         /\ buf[i].at = goal - 1 => buf[i].c = "NL"
         /\ buf[i].at = goal => buf[i].c = C
         /\ buf[i].at = goal + 1 => buf[i].c = E
  BY <1>2, <1>3 DEF Awaited
<1>5. C # "NL" /\ (C = ">" => E = "SP") /\ (C # ">" => E = "NL")
  BY <1>2 DEF Awaited
<1>6. C = ">" => BlankLast(buf, cur, end)
  <2>1. CASE k \in 1..Len(msgs) /\ SmsAt(msgs[k], Begin(msgs, n, k))
    <3>1. msgs[k].second # NoLine /\ k <= Len(msgs)
      BY <2>1 DEF SmsAt, Handed, NoLine
    <3>2. C # ">"
      BY <1>2, <3>1 DEF Awaited, Handed
    <3> QED  BY <3>2
  <2> QED  BY <2>1
<1>7. /\ end # cur => buf[cur].at = goal /\ buf[cur].c = C
      /\ eol = NULL => end <= cur + 1
      /\ eol # NULL =>
            /\ cur + 2 <= end
            /\ buf[cur + 1].at = goal + 1 /\ buf[cur + 1].c = E
            /\ C = ">" => eol = cur + 2 /\ end = cur + 2
            /\ C # ">" => eol = cur + 1
  <2> HIDE DEF goal
  <2>1. Aim(cur, end, next, goal)
    BY DEF goal
  <2>2. \A i \in cur..(end - 1) :
           /\ buf[i].c # "NUL" /\ buf[i].at = next - (end - i)
           /\ buf[i].at = goal - 1 => buf[i].c = "NL"
           /\ buf[i].at = goal => buf[i].c = C
           /\ buf[i].at = goal + 1 => buf[i].c = E
    BY <1>3, <1>4
  <2>3. end \in cur..LastByte /\ buf[end].c = "NUL"
    BY <1>3
  <2>4. /\ end # cur => buf[cur].at = goal /\ buf[cur].c = C
        /\ findNextEOL(buf, cur) = NULL => end <= cur + 1
        /\ findNextEOL(buf, cur) # NULL =>
              /\ cur + 2 <= end
              /\ buf[cur + 1].at = goal + 1 /\ buf[cur + 1].c = E
              /\ C = ">" => findNextEOL(buf, cur) = cur + 2 /\ end = cur + 2
              /\ C # ">" => findNextEOL(buf, cur) = cur + 1
    <3>1. Expects(buf, cur, end, next, goal, C, E)
      BY <1>5, <1>6, <2>1, <2>2 DEF Expects
    <3> QED  BY <1>1, <2>3, <3>1, FindLine
  <2> QED  BY <2>4
<1>8. ASSUME eol # NULL PROVE Found(buf, cur, end, next, eol, msgs, n, k, first)
  <2> DEFINE line == String(buf, cur, eol)
  <2>1. cur \in Int /\ end \in Int /\ LastByte \in Nat /\ end <= LastByte
    BY <1>3, BufferAssumption DEF LastByte
  <2>2. cur + 2 <= end /\ cur \in cur..(end - 1) /\ cur + 1 \in cur..(end - 1) /\ end # cur
    BY <1>7, <1>8, <2>1
  <2>3. /\ buf[cur].at = goal /\ buf[cur].at = next - (end - cur) /\ buf[cur].at <= n
        /\ buf[cur].c = C /\ buf[cur] \in Byte /\ buf[cur + 1] \in Byte
        /\ buf[cur + 1].at = goal + 1 /\ buf[cur + 1].c = E
    BY <1>3, <1>7, <1>8, <2>2
  <2>4. buf[cur] = ByteAt(C, goal) /\ buf[cur + 1] = ByteAt(E, goal + 1)
    BY <2>3 DEF Byte, ByteAt
  <2>5. k <= Len(msgs)
    <3>1. goal <= n
      BY <2>3
    <3> HIDE DEF goal
    <3>2. k > Len(msgs) => goal = n + 2
      BY <1>2 DEF Awaited, goal
    <3> QED  BY <1>1, <3>1, <3>2
  <2>6. C # ">" => eol = cur + 1 /\ line = <<ByteAt(C, goal)>>
    <3>1. eol \in (cur + 1)..LastByte
      BY <1>8, EOLFacts
    <3> QED  BY <1>7, <1>8, <2>4, <3>1, ShortStrings
  <2>7. C = ">" => eol = cur + 2 /\ line = <<ByteAt(C, goal), ByteAt(E, goal + 1)>>
    <3>1. eol \in (cur + 1)..LastByte
      BY <1>8, EOLFacts
    <3> QED  BY <1>7, <1>8, <2>4, <3>1, ShortStrings
  <2> HIDE DEF line
  <2>8. /\ C = ">" => PromptLine(line) /\ ~isSMSUnsolicited(line)
        /\ C # ">" => ~PromptLine(line) /\ (isSMSUnsolicited(line) <=> C \in {"+CMT:", "+CDSI:"})
    <3>1. CASE C = ">"
      BY <1>5, <2>7, <3>1 DEF PromptLine, isSMSUnsolicited, ByteAt
    <3>2. CASE C # ">"
      BY <2>6, <3>2 DEF PromptLine, isSMSUnsolicited, ByteAt
    <3> QED  BY <3>1, <3>2
  <2> HIDE DEF goal
  <2>9. \/ /\ first # NoLine /\ Begin(msgs, n, k + 1) = goal + 1
           /\ msgs[k] = Handed(first, line)
        \/ /\ first = NoLine /\ isSMSUnsolicited(line) /\ line = msgs[k].first
           /\ SmsAt(msgs[k], Begin(msgs, n, k))
        \/ /\ first = NoLine /\ ~isSMSUnsolicited(line) /\ Begin(msgs, n, k + 1) = goal + 1
           /\ msgs[k] = Handed(line, NoLine)
    <3>1. \/ /\ first # NoLine /\ C = "x" /\ Begin(msgs, n, k + 1) = goal + 1
             /\ msgs[k] = Handed(first, <<ByteAt("x", goal)>>)
          \/ /\ first = NoLine /\ C = "+CMT:"
             /\ SmsAt(msgs[k], Begin(msgs, n, k)) /\ msgs[k].first = <<ByteAt("+CMT:", goal)>>
          \/ /\ first = NoLine /\ C = "OK" /\ Begin(msgs, n, k + 1) = goal + 1
             /\ msgs[k] = Handed(<<ByteAt("OK", goal)>>, NoLine)
          \/ /\ first = NoLine /\ C = ">" /\ Begin(msgs, n, k + 1) = goal + 1
             /\ msgs[k] = Handed(<<ByteAt(">", goal), ByteAt("SP", goal + 1)>>, NoLine)
      BY <1>2, <2>5 DEF Awaited, goal
    <3> QED  BY <1>5, <2>6, <2>7, <2>8, <3>1
  <2> QED
    BY <1>7, <1>8, <2>2, <2>3, <2>5, <2>6, <2>8, <2>9 DEF Found, goal, line
<1> QED  BY <1>7, <1>8

Cut(buf, cur, eol) ==
    IF PromptLine(String(buf, cur, eol)) /\ eol < MAX_AT_RESPONSE
    THEN [[buf EXCEPT ![eol] = NUL] EXCEPT ![eol + 1] = NUL]
    ELSE [buf EXCEPT ![eol] = NUL]

\* What readline leaves behind a line: the rest of the window, or nothing behind
\* a prompt.
LEMMA WindowReturn ==
    ASSUME NEW buf \in Buffers, NEW cur \in 0..LastByte, buf[cur].c # "NL",
           NEW eol, eol = findNextEOL(buf, cur), eol # NULL,
           NEW end, NEW next \in Int, NEW msgs, NEW n \in Nat, next <= n + 1,
           Window(buf, cur, end, next, msgs, n),
           NEW buf2, buf2 = Cut(buf, cur, eol)
    PROVE  \E end2 :
              /\ Window(buf2, eol + 1, end2, next, msgs, n)
              /\ PromptLine(String(buf, cur, eol)) => end2 = eol + 1
              /\ ~PromptLine(String(buf, cur, eol)) => end2 = end
              /\ BlankLast(buf, cur, end) => BlankLast(buf2, eol + 1, end2)
<1> DEFINE prompt == PromptLine(String(buf, cur, eol))
<1>1. LastByte \in Nat /\ cur \in Int /\ buf \in [0..LastByte -> Byte] /\ NUL.c = "NUL"
  BY BufferAssumption DEF LastByte, Buffers, NUL
<1>2. /\ eol \in (cur + 1)..LastByte
      /\ \A j \in cur..(eol - 1) : buf[j].c # "NUL"
      /\ \/ buf[eol].c = "NL"
         \/ IsPrompt(buf, cur) /\ eol = cur + 2
  BY EOLFacts
<1>3. end \in cur..LastByte /\ buf[end].c = "NUL"
  BY WindowBytes
<1>4. eol <= end /\ eol \in Int /\ end \in Int
  <2>1. end < eol => end \in cur..(eol - 1)
    BY <1>1, <1>2, <1>3
  <2> QED  BY <1>1, <1>2, <1>3, <2>1
<1>5. CASE prompt
  <2>1. eol + 1 <= LastByte => buf2[eol + 1].c = "NUL"
    <3>1. ASSUME eol + 1 <= LastByte PROVE buf2[eol + 1] = NUL
      <4>1. buf2 = [[buf EXCEPT ![eol] = NUL] EXCEPT ![eol + 1] = NUL]
        BY <1>2, <1>5, <3>1, <1>1, BufferAssumption DEF LastByte, Cut
      <4>2. eol + 1 \in 0..LastByte
        BY <1>1, <1>2, <3>1
      <4> QED  BY <1>1, <4>1, <4>2
    <3> QED  BY <1>1, <3>1
  <2>2. \A i \in (eol + 1)..(eol + 1 - 1) : FALSE
    BY <1>4
  <2>3. Window(buf2, eol + 1, eol + 1, next, msgs, n)
    BY <1>1, <1>2, <1>4, <2>1, <2>2 DEF Window
  <2>4. BlankLast(buf2, eol + 1, eol + 1)
    <3> DEFINE behind == eol + 1
    <3>1. \A i \in behind..(behind - 1) : FALSE
      BY <1>4
    <3> HIDE DEF behind
    <3>2. BlankLast(buf2, behind, behind)
      BY <3>1 DEF BlankLast
    <3> QED  BY <3>2 DEF behind
  <2> QED  BY <1>5, <2>3, <2>4
<1>6. CASE ~prompt
  <2>1. eol # end
    <3>1. ~(IsPrompt(buf, cur) /\ eol = cur + 2)
      BY <1>2, <1>6, PromptText
    <3> QED  BY <1>2, <1>3, <3>1
  <2>2. eol + 1 <= end
    BY <1>4, <2>1
  <2>3. \A i \in (eol + 1)..end : i \in cur..end /\ buf2[i] = buf[i]
    <3>1. buf2 = [buf EXCEPT ![eol] = NUL]
      BY <1>6 DEF Cut
    <3>2. ASSUME NEW i \in (eol + 1)..end PROVE i \in cur..end /\ buf2[i] = buf[i]
      <4>1. i # eol /\ i \in 0..LastByte /\ i \in cur..end
        BY <1>1, <1>2, <1>3, <1>4
      <4> QED  BY <1>1, <3>1, <4>1
    <3> QED  BY <3>2
  <2>4. \A i \in (eol + 1)..(end - 1) : i \in cur..(end - 1) /\ buf2[i] = buf[i]
    <3> SUFFICES ASSUME NEW i \in (eol + 1)..(end - 1)
                 PROVE  i \in cur..(end - 1) /\ buf2[i] = buf[i]
      OBVIOUS
    <3>1. i \in (eol + 1)..end /\ i \in cur..(end - 1)
      BY <1>1, <1>2, <1>4
    <3> QED  BY <2>3, <3>1
  <2>5. Window(buf2, eol + 1, end, next, msgs, n)
    <3>1. buf2[end].c = "NUL"
      <4>1. end \in (eol + 1)..end
        BY <1>4, <2>2
      <4> QED  BY <1>3, <2>3, <4>1
    <3>2. \A i \in (eol + 1)..(end - 1) : buf2[i].at = next - (end - i) /\ Fits(buf2[i], msgs, n)
      BY <2>4 DEF Window
    <3>3. eol + 1 \in Nat /\ end \in Nat /\ end <= LastByte /\ eol + 1 <= LastByte
      BY <1>1, <1>2, <1>3, <2>2
    <3> QED  BY <1>1, <2>2, <3>1, <3>2, <3>3 DEF Window
  <2>6. BlankLast(buf, cur, end) => BlankLast(buf2, eol + 1, end)
    BY <2>4 DEF BlankLast
  <2> QED  BY <1>6, <2>5, <2>6
<1> QED  BY <1>5, <1>6

\* Newlines at the front are skipped, and no byte that counts is.
LEMMA WindowSkip ==
    ASSUME NEW buf \in Buffers, NEW cur \in 0..LastByte, NEW cur2, cur2 = SkipNewlines(buf, cur),
           NEW end, NEW next \in Int, NEW msgs, NEW n \in Nat, next <= n + 1,
           Window(buf, cur, end, next, msgs, n)
    PROVE  /\ cur2 \in cur..end /\ cur2 \in 0..LastByte /\ buf[cur2].c # "NL"
           /\ Window(buf, cur2, end, next, msgs, n)
           /\ BlankLast(buf, cur, end) => BlankLast(buf, cur2, end)
           /\ \A goal \in Int :
                 /\ Aim(cur, end, next, goal)
                 /\ \A i \in cur..(end - 1) : buf[i].at = goal => buf[i].c # "NL"
                 => Aim(cur2, end, next, goal)
<1>1. LastByte \in Nat /\ cur \in Int
  BY BufferAssumption DEF LastByte
<1>2. /\ end \in cur..LastByte /\ buf[end].c = "NUL"
      /\ \A i \in cur..(end - 1) : buf[i].at = next - (end - i)
  BY WindowBytes
<1>3. /\ cur2 \in cur..end /\ buf[cur2].c # "NL"
      /\ \A j \in cur..(cur2 - 1) : buf[j].c = "NL"
  BY <1>2, SkipFacts
<1>4. cur2 \in Int /\ end \in Int /\ cur2 \in 0..LastByte
  BY <1>1, <1>2, <1>3
<1>5. \A i \in cur2..(end - 1) : i \in cur..(end - 1)
  BY <1>1, <1>3, <1>4
<1>6. Window(buf, cur2, end, next, msgs, n)
  <2>1. \A i \in cur2..(end - 1) : buf[i].at = next - (end - i) /\ Fits(buf[i], msgs, n)
    BY <1>5 DEF Window
  <2> QED  BY <1>1, <1>2, <1>3, <1>4, <2>1 DEF Window
<1>7. BlankLast(buf, cur, end) => BlankLast(buf, cur2, end)
  BY <1>5 DEF BlankLast
<1>8. ASSUME NEW goal \in Int, Aim(cur, end, next, goal),
             \A i \in cur..(end - 1) : buf[i].at = goal => buf[i].c # "NL"
      PROVE  Aim(cur2, end, next, goal)
  <2> DEFINE place == goal - next + end
  <2>1. place \in Int /\ cur <= place /\ place <= cur + 1
    BY <1>1, <1>4, <1>8 DEF Aim
  <2>2. cur2 <= place
    <3>1. ASSUME place < cur2 PROVE FALSE
      <4>1. place \in cur..(cur2 - 1) /\ place \in cur..(end - 1)
        BY <1>1, <1>3, <1>4, <2>1, <3>1
      <4>2. buf[place].at = next - (end - place)
        BY <1>2, <4>1
      <4>3. next - (end - place) = goal
        BY <1>4, <2>1
      <4> QED  BY <1>3, <1>8, <4>1, <4>2, <4>3
    <3> QED  BY <1>4, <2>1, <3>1
  <2> QED  BY <1>1, <1>3, <1>4, <2>1, <2>2 DEF Aim
<1> QED  BY <1>3, <1>4, <1>6, <1>7, <1>8

-----------------------------------------------------------------------------
(* The lines that have been handed on, and what is left.                     *)

\* The reader is on its way to message k; calm tells that only short messages
\* were sent, and in time.
Sound(buf, cur, end, next, msgs, n, calm, k, first) ==
    /\ Window(buf, cur, end, next, msgs, n)
    /\ k \in 1..(Len(msgs) + 1) /\ Keeps(msgs, n, k, first)
    /\ calm => BlankLast(buf, cur, end)
    /\ calm \/ first # NoLine => Aim(cur, end, next, Goal(msgs, n, k, first))

\* Two lines in one call are a message, and in the calm the calls are the messages.
Passed(calls, msgs, calm, k) ==
    /\ \A i \in 1..Len(calls) :
          calls[i].second # NoLine => \E j \in 1..Len(msgs) : msgs[j] = calls[i]
    /\ calm => /\ k = Len(calls) + 1
               /\ \A i \in 1..Len(calls) : calls[i] = msgs[i]

\* One more call, of message k or of a line alone.
LEMMA PassedAppend ==
    ASSUME NEW calls \in Seq(Call), NEW msgs \in Seq(Call), NEW calm \in BOOLEAN,
           NEW k \in 1..(Len(msgs) + 1), Passed(calls, msgs, calm, k), NEW call,
           \/ k <= Len(msgs) /\ call = msgs[k]
           \/ ~calm /\ call.second = NoLine
    PROVE  Passed(Append(calls, call), msgs, calm, k + 1)
<1> DEFINE more == Append(calls, call)
<1>1. Len(calls) \in Nat /\ Len(msgs) \in Nat /\ k \in Int
  OBVIOUS
<1>2. /\ Len(more) = Len(calls) + 1
      /\ \A i \in 1..Len(more) : more[i] = IF i <= Len(calls) THEN calls[i] ELSE call
  OBVIOUS
<1> HIDE DEF more
<1>3. ASSUME NEW i \in 1..Len(more), more[i].second # NoLine
      PROVE  \E j \in 1..Len(msgs) : msgs[j] = more[i]
  <2>1. CASE i <= Len(calls)
    <3>1. i \in 1..Len(calls) /\ more[i] = calls[i]
      BY <1>1, <1>2, <2>1
    <3> QED  BY <1>3, <3>1 DEF Passed
  <2>2. CASE ~(i <= Len(calls))
    <3>1. more[i] = call
      BY <1>2, <2>2
    <3>2. k \in 1..Len(msgs) /\ call = msgs[k]
      BY <1>1, <1>3, <3>1
    <3> QED  BY <3>1, <3>2
  <2> QED  BY <2>1, <2>2
<1>4. ASSUME calm
      PROVE  /\ k + 1 = Len(more) + 1
             /\ \A i \in 1..Len(more) : more[i] = msgs[i]
  <2>1. k = Len(calls) + 1 /\ \A i \in 1..Len(calls) : calls[i] = msgs[i]
    BY <1>4 DEF Passed
  <2>2. call = msgs[k]
    BY <1>4
  <2>3. ASSUME NEW i \in 1..Len(more) PROVE more[i] = msgs[i]
    <3>1. CASE i <= Len(calls)
      <4>1. i \in 1..Len(calls)
        BY <1>1, <1>2, <3>1
      <4> QED  BY <1>2, <2>1, <3>1, <4>1
    <3>2. CASE ~(i <= Len(calls))
      <4>1. i = k
        BY <1>1, <1>2, <2>1, <3>2
      <4> QED  BY <1>2, <2>2, <3>2, <4>1
    <3> QED  BY <3>1, <3>2
  <2> QED  BY <1>2, <2>1, <2>3
<1>5. Passed(more, msgs, calm, k + 1)
  BY <1>3, <1>4 DEF Passed
<1> QED  BY <1>5 DEF more

\* Behind the line that was waited for, the next line is waited for.
LEMMA AimReturn ==
    ASSUME NEW buf, NEW cur \in Nat, NEW end \in Int, NEW next \in Int, NEW eol \in Int,
           NEW msgs, NEW n, NEW k, NEW first, Goal(msgs, n, k, first) \in Int,
           Found(buf, cur, end, next, eol, msgs, n, k, first),
           NEW end2,
           PromptLine(String(buf, cur, eol)) => end2 = eol + 1,
           ~PromptLine(String(buf, cur, eol)) => end2 = end
    PROVE  Aim(eol + 1, end2, next, Goal(msgs, n, k, first) + 3)
<1> DEFINE goal == Goal(msgs, n, k, first)
<1>1. next - (end - cur) = goal
  BY DEF Found
<1>2. CASE PromptLine(String(buf, cur, eol))
  <2>1. end2 = eol + 1 /\ eol = cur + 2 /\ end = cur + 2
    BY <1>2 DEF Found
  <2> HIDE DEF goal
  <2>2. goal \in Int
    BY DEF goal
  <2>3. Aim(eol + 1, end2, next, goal + 3)
    BY <1>1, <2>1, <2>2 DEF Aim
  <2> QED  BY <2>3 DEF goal
<1>3. CASE ~PromptLine(String(buf, cur, eol))
  <2>1. end2 = end /\ eol = cur + 1
    BY <1>3 DEF Found
  <2> HIDE DEF goal
  <2>2. goal \in Int
    BY DEF goal
  <2>3. Aim(eol + 1, end2, next, goal + 3)
    BY <1>1, <2>1, <2>2 DEF Aim
  <2> QED  BY <2>3 DEF goal
<1> QED  BY <1>2, <1>3

Arrives(buf, cur, eol, end, next, msgs, n, ks, calm, k, first) ==
    /\ buf[cur].c # "NL" /\ eol = findNextEOL(buf, cur) /\ eol # NULL
    /\ next <= n + 1 /\ Layout(msgs, n, ks)
    /\ Window(buf, cur, end, next, msgs, n) /\ Keeps(msgs, n, k, first)
    /\ calm => BlankLast(buf, cur, end)
    /\ Found(buf, cur, end, next, eol, msgs, n, k, first)

\* A line that is found and waited for is handed on as it was sent.
LEMMA ReturnAwaited ==
    ASSUME NEW buf \in Buffers, NEW cur \in 0..LastByte, NEW eol,
           NEW end, NEW next \in Int, NEW msgs \in Seq(Call), NEW n \in Nat,
           NEW ks, NEW calm \in BOOLEAN, NEW k \in 1..(Len(msgs) + 1), NEW first,
           Arrives(buf, cur, eol, end, next, msgs, n, ks, calm, k, first),
           line1 = first, handed \in Seq(Call), Passed(handed, msgs, calm, k),
           ReturnLine(buf, cur, eol)
    PROVE  \E end2, k2 : /\ Sound(s_ATBuffer', s_ATBufferCur', end2, next, msgs, n, calm, k2, line1')
                         /\ Passed(handed', msgs, calm, k2)
<1>0. /\ buf[cur].c # "NL" /\ eol = findNextEOL(buf, cur) /\ eol # NULL
      /\ next <= n + 1 /\ Layout(msgs, n, ks)
      /\ Window(buf, cur, end, next, msgs, n) /\ Keeps(msgs, n, k, first)
      /\ calm => BlankLast(buf, cur, end)
      /\ Found(buf, cur, end, next, eol, msgs, n, k, first)
  BY DEF Arrives
<1> USE <1>0
<1> DEFINE line == String(buf, cur, eol)
           goal == Goal(msgs, n, k, first)
<1>1. cur \in Nat /\ end \in Int /\ eol \in Int /\ Len(msgs) \in Nat
  BY EOLFacts, WindowBytes, BufferAssumption DEF LastByte
<1>2. k <= Len(msgs) /\ k \in Int /\ k \in 1..Len(msgs)
  BY <1>1 DEF Found
<1>3. /\ Begin(msgs, n, k) \in Nat /\ Begin(msgs, n, k + 1) \in Nat
      /\ Goal(msgs, n, k, first) \in Int
  BY <1>2 DEF Layout, Goal
<1>4. PICK end2 :
         /\ Window(s_ATBuffer', eol + 1, end2, next, msgs, n)
         /\ PromptLine(line) => end2 = eol + 1
         /\ ~PromptLine(line) => end2 = end
         /\ BlankLast(buf, cur, end) => BlankLast(s_ATBuffer', eol + 1, end2)
  <2>1. PICK buf2 : buf2 = s_ATBuffer'
    OBVIOUS
  <2>2. buf2 = Cut(buf, cur, eol)
    BY <2>1 DEF ReturnLine, Cut
  <2>3. \E end2 :
           /\ Window(buf2, eol + 1, end2, next, msgs, n)
           /\ PromptLine(line) => end2 = eol + 1
           /\ ~PromptLine(line) => end2 = end
           /\ BlankLast(buf, cur, end) => BlankLast(buf2, eol + 1, end2)
    BY <2>2, WindowReturn
  <2> QED  BY <2>1, <2>3
<1>5. s_ATBufferCur' = eol + 1 /\ Dispatch(line)
  BY DEF ReturnLine, AfterEOL
<1>6. Aim(eol + 1, end2, next, goal + 3)
  BY <1>1, <1>3, <1>4, AimReturn, Zenon
<1>7. calm => BlankLast(s_ATBuffer', eol + 1, end2)
  BY <1>4
<1>8. CASE first # NoLine /\ Begin(msgs, n, k + 1) = goal + 1 /\ msgs[k] = Handed(first, line)
  <2>1. handed' = Append(handed, msgs[k]) /\ line1' = NoLine
    BY <1>5, <1>8 DEF Dispatch
  <2>2. Passed(handed', msgs, calm, k + 1)
    BY <1>2, <2>1, PassedAppend
  <2>3. Goal(msgs, n, k + 1, NoLine) = goal + 3
    BY <1>3, <1>8 DEF Goal
  <2>4. Sound(s_ATBuffer', eol + 1, end2, next, msgs, n, calm, k + 1, NoLine)
    BY <1>1, <1>2, <1>4, <1>6, <1>7, <2>3 DEF Sound, Keeps
  <2> QED  BY <1>5, <2>1, <2>2, <2>4
<1>9. CASE /\ first = NoLine /\ isSMSUnsolicited(line) /\ line = msgs[k].first
            /\ SmsAt(msgs[k], Begin(msgs, n, k))
  <2>1. handed' = handed /\ line1' = line
    BY <1>5, <1>9 DEF Dispatch
  <2>2. line # NoLine
    BY <1>9 DEF SmsAt, Handed, NoLine
  <2>3. Goal(msgs, n, k, line) = goal + 3
    BY <1>3, <1>9, <2>2 DEF Goal
  <2>4. Keeps(msgs, n, k, line)
    BY <1>2, <1>9 DEF Keeps
  <2>5. Sound(s_ATBuffer', eol + 1, end2, next, msgs, n, calm, k, line)
    BY <1>4, <1>6, <1>7, <2>3, <2>4 DEF Sound
  <2> QED  BY <1>5, <2>1, <2>5
<1>10. CASE /\ first = NoLine /\ ~isSMSUnsolicited(line) /\ Begin(msgs, n, k + 1) = goal + 1
            /\ msgs[k] = Handed(line, NoLine)
  <2>1. handed' = Append(handed, msgs[k]) /\ line1' = NoLine
    BY <1>5, <1>10 DEF Dispatch
  <2>2. Passed(handed', msgs, calm, k + 1)
    BY <1>2, <2>1, PassedAppend
  <2>3. Goal(msgs, n, k + 1, NoLine) = goal + 3
    BY <1>3, <1>10 DEF Goal
  <2>4. Sound(s_ATBuffer', eol + 1, end2, next, msgs, n, calm, k + 1, NoLine)
    BY <1>1, <1>2, <1>4, <1>6, <1>7, <2>3 DEF Sound, Keeps
  <2> QED  BY <1>5, <2>1, <2>2, <2>4
<1> QED  BY <1>8, <1>9, <1>10 DEF Found

\* What was sent, and whether it was only short messages, and in time.
Known(next, msgs, n, ks, calm) ==
    /\ msgs \in Seq(Call) /\ n \in Nat /\ next \in Int /\ next <= n + 1
    /\ calm \in BOOLEAN /\ (calm => "long" \notin ks) /\ Layout(msgs, n, ks)

\* A line that readline returns.
LEMMA ReturnSound ==
    ASSUME NEW buf \in Buffers, NEW cur \in 0..LastByte, buf[cur].c # "NL",
           NEW eol, eol = findNextEOL(buf, cur), eol # NULL,
           NEW end, NEW next, NEW msgs, NEW n, NEW ks, NEW calm, Known(next, msgs, n, ks, calm),
           NEW k, Sound(buf, cur, end, next, msgs, n, calm, k, line1),
           handed \in Seq(Call), Passed(handed, msgs, calm, k), ReturnLine(buf, cur, eol)
    PROVE  \E end2, k2 : /\ Sound(s_ATBuffer', s_ATBufferCur', end2, next, msgs, n, calm, k2, line1')
                         /\ Passed(handed', msgs, calm, k2)
<1>0. /\ msgs \in Seq(Call) /\ n \in Nat /\ next \in Int /\ next <= n + 1
      /\ calm \in BOOLEAN /\ (calm => "long" \notin ks) /\ Layout(msgs, n, ks)
  BY DEF Known
<1> USE <1>0
<1> DEFINE line == String(buf, cur, eol)
<1>1. PICK first : first = line1
  OBVIOUS
<1>2. /\ Window(buf, cur, end, next, msgs, n)
      /\ k \in 1..(Len(msgs) + 1) /\ Keeps(msgs, n, k, first)
      /\ calm => BlankLast(buf, cur, end)
      /\ calm \/ first # NoLine => Aim(cur, end, next, Goal(msgs, n, k, first))
  BY <1>1 DEF Sound
<1>3. CASE calm \/ first # NoLine
  <2>1. \/ "long" \notin ks /\ BlankLast(buf, cur, end)
        \/ k \in 1..Len(msgs) /\ SmsAt(msgs[k], Begin(msgs, n, k))
    BY <1>2, <1>3 DEF Keeps
  <2>2. Found(buf, cur, end, next, eol, msgs, n, k, first)
    BY <1>2, <1>3, <2>1, FoundLine
  <2>3. Arrives(buf, cur, eol, end, next, msgs, n, ks, calm, k, first)
    BY <1>2, <2>2 DEF Arrives
  <2> QED  BY <1>1, <1>2, <2>3, ReturnAwaited
<1>4. CASE ~calm /\ first = NoLine /\ isSMSUnsolicited(line)
  <2>1. /\ eol \in (cur + 1)..LastByte
        /\ \A j \in cur..(eol - 1) : buf[j].c # "NUL"
    BY EOLFacts
  <2>2. /\ end \in cur..LastByte /\ buf[end].c = "NUL"
        /\ \A i \in cur..(end - 1) : buf[i].at = next - (end - i) /\ Fits(buf[i], msgs, n)
    BY <1>2, WindowBytes
  <2>3. cur \in cur..(eol - 1) /\ cur \in cur..(end - 1) /\ 1 \in 1..(eol - cur) /\ cur + 1 - 1 = cur
    <3>1. LastByte \in Nat /\ cur \in Int
      BY BufferAssumption DEF LastByte
    <3>2. cur \in cur..(eol - 1)
      BY <2>1, <3>1
    <3>3. end # cur
      BY <2>1, <2>2, <3>2
    <3> QED  BY <2>1, <2>2, <3>1, <3>3
  <2>4. line[1] = buf[cur]
    BY <2>1, <2>3, StringFacts
  <2>5. buf[cur].c \in {"+CMT:", "+CDSI:"} /\ Fits(buf[cur], msgs, n) /\ buf[cur].at = next - (end - cur)
    BY <1>4, <2>2, <2>3, <2>4 DEF isSMSUnsolicited
  <2>6. PICK j \in 1..Len(msgs) : SmsAt(msgs[j], Begin(msgs, n, j)) /\ buf[cur].at = Begin(msgs, n, j) + 2
    BY <2>5 DEF Fits
  <2>7. j \in 1..(Len(msgs) + 1) /\ Keeps(msgs, n, j, NoLine)
    BY <2>6 DEF Keeps
  <2>8. Aim(cur, end, next, Goal(msgs, n, j, NoLine))
    <3>1. Goal(msgs, n, j, NoLine) = next - (end - cur)
      BY <2>5, <2>6 DEF Goal
    <3>2. cur \in Int /\ end \in Int
      BY <2>2, BufferAssumption DEF LastByte
    <3> QED  BY <3>1, <3>2 DEF Aim
  <2>9. Found(buf, cur, end, next, eol, msgs, n, j, NoLine)
    BY <1>2, <2>6, <2>7, <2>8, FoundLine
  <2>10. Passed(handed, msgs, calm, j)
    BY <1>4 DEF Passed
  <2>11. Arrives(buf, cur, eol, end, next, msgs, n, ks, calm, j, NoLine)
    BY <1>2, <1>4, <2>7, <2>9 DEF Arrives
  <2> QED  BY <1>1, <1>4, <2>7, <2>10, <2>11, ReturnAwaited
<1>5. CASE ~calm /\ first = NoLine /\ ~isSMSUnsolicited(line)
  <2>1. handed' = Append(handed, Handed(line, NoLine)) /\ line1' = NoLine /\ s_ATBufferCur' = eol + 1
    BY <1>1, <1>5 DEF ReturnLine, Dispatch, AfterEOL
  <2>2. PICK buf2 : buf2 = s_ATBuffer'
    OBVIOUS
  <2>3. buf2 = Cut(buf, cur, eol)
    BY <2>2 DEF ReturnLine, Cut
  <2>4. PICK end2 : Window(buf2, eol + 1, end2, next, msgs, n)
    BY <1>2, <2>3, WindowReturn
  <2>5. Sound(buf2, eol + 1, end2, next, msgs, n, calm, k, NoLine)
    BY <1>2, <1>5, <2>4 DEF Sound, Keeps
  <2>6. Passed(handed', msgs, calm, k + 1)
    BY <1>2, <1>5, <2>1, PassedAppend DEF Handed
  <2>7. Passed(handed', msgs, calm, k)
    BY <1>5, <2>6 DEF Passed
  <2> QED  BY <2>1, <2>2, <2>5, <2>7
<1> QED  BY <1>3, <1>4, <1>5

\* Newlines are skipped.
LEMMA SkipSound ==
    ASSUME NEW buf \in Buffers, NEW cur \in 0..LastByte, NEW cur2, cur2 = SkipNewlines(buf, cur),
           NEW end, NEW next, NEW msgs, NEW n, NEW ks, NEW calm, Known(next, msgs, n, ks, calm),
           NEW k, NEW first, Sound(buf, cur, end, next, msgs, n, calm, k, first)
    PROVE  /\ cur2 \in cur..end /\ cur2 \in 0..LastByte /\ buf[cur2].c # "NL"
           /\ Sound(buf, cur2, end, next, msgs, n, calm, k, first)
<1>0. /\ msgs \in Seq(Call) /\ n \in Nat /\ next \in Int /\ next <= n + 1
      /\ calm \in BOOLEAN /\ (calm => "long" \notin ks) /\ Layout(msgs, n, ks)
  BY DEF Known
<1> USE <1>0
<1>1. /\ cur2 \in cur..end /\ cur2 \in 0..LastByte /\ buf[cur2].c # "NL"
      /\ Window(buf, cur2, end, next, msgs, n)
      /\ BlankLast(buf, cur, end) => BlankLast(buf, cur2, end)
      /\ \A goal \in Int :
            /\ Aim(cur, end, next, goal)
            /\ \A i \in cur..(end - 1) : buf[i].at = goal => buf[i].c # "NL"
            => Aim(cur2, end, next, goal)
  BY WindowSkip DEF Sound
<1>2. ASSUME calm \/ first # NoLine PROVE Aim(cur2, end, next, Goal(msgs, n, k, first))
  <2>1. k \in 1..(Len(msgs) + 1) /\ Keeps(msgs, n, k, first) /\ Aim(cur, end, next, Goal(msgs, n, k, first))
    BY <1>2 DEF Sound
  <2>2. "long" \notin ks \/ (k \in 1..Len(msgs) /\ SmsAt(msgs[k], Begin(msgs, n, k)))
    BY <1>2, <2>1 DEF Keeps
  <2>3. Goal(msgs, n, k, first) \in Int /\ \E C, E : Awaited(C, E, msgs, n, k, first)
    BY <2>1, <2>2, AwaitedFacts
  <2>4. PICK C, E : Awaited(C, E, msgs, n, k, first)
    BY <2>3
  <2>5. \A i \in cur..(end - 1) : Fits(buf[i], msgs, n) /\ buf[i].at <= n
    BY WindowBytes DEF Sound
  <2>6. \A i \in cur..(end - 1) : buf[i].at = Goal(msgs, n, k, first) => buf[i].c # "NL"
    BY <2>4, <2>5 DEF Awaited
  <2> QED  BY <1>1, <2>1, <2>3, <2>6
<1> QED  BY <1>1, <1>2 DEF Sound

\* readline begins a new buffer when there is nothing in the old one.
LEMMA EmptySound ==
    ASSUME NEW buf, NEW cur, NEW end, NEW next \in Int, NEW msgs, NEW n,
           NEW calm \in BOOLEAN, NEW k, NEW first,
           Sound(buf, cur, end, next, msgs, n, calm, k, first),
           cur <= LastByte => buf[cur].c = "NUL",
           NEW buf2, buf2[0].c = "NUL"
    PROVE  end = cur /\ Sound(buf2, 0, 0, next, msgs, n, calm, k, first)
<1>1. /\ cur \in Nat /\ end \in Nat /\ cur <= end /\ LastByte \in Nat
      /\ cur > LastByte => end = cur
      /\ \A i \in cur..(end - 1) : Fits(buf[i], msgs, n)
  BY BufferAssumption DEF Sound, Window, LastByte
<1>2. end = cur
  <2>1. ASSUME end # cur PROVE FALSE
    <3>1. cur \in cur..(end - 1) /\ cur <= LastByte
      BY <1>1, <2>1
    <3> QED  BY <1>1, <3>1 DEF Fits
  <2> QED  BY <2>1
<1>3. \A i \in 0..(0 - 1) : FALSE
  OBVIOUS
<1>4. Window(buf2, 0, 0, next, msgs, n)
  BY <1>1, <1>3 DEF Window
<1>5. BlankLast(buf2, 0, 0)
  BY <1>3 DEF BlankLast
<1>6. \A goal : Aim(cur, end, next, goal) => Aim(0, 0, next, goal)
  BY <1>1, <1>2 DEF Aim
<1> QED  BY <1>2, <1>4, <1>5, <1>6 DEF Sound

\* While the reader waits for a line that counts, it has no more of it than its
\* first byte, and the newline before it.
Near(end, next, goal) == next <= goal + 1 /\ goal - 1 <= next - end

Shifted(buf2, buf, cur, len) ==
    /\ len = StringEnd(buf, cur) - cur
    /\ buf2 = [i \in 0..MAX_AT_RESPONSE |-> buf[IF i <= len THEN cur + i ELSE i]]

\* readline moves the part of a line to the front of the buffer.
LEMMA ShiftSound ==
    ASSUME NEW buf \in Buffers, NEW cur \in 0..LastByte, buf[cur].c # "NL",
           findNextEOL(buf, cur) = NULL,
           NEW end, NEW next, NEW msgs, NEW n, NEW ks, NEW calm, Known(next, msgs, n, ks, calm),
           NEW k, NEW first, Sound(buf, cur, end, next, msgs, n, calm, k, first),
           NEW buf2, NEW len, Shifted(buf2, buf, cur, len)
    PROVE  /\ Sound(buf2, 0, len, next, msgs, n, calm, k, first)
           /\ calm \/ first # NoLine => end <= cur + 1 /\ Near(len, next, Goal(msgs, n, k, first))
<1>0. /\ msgs \in Seq(Call) /\ n \in Nat /\ next \in Int /\ next <= n + 1
      /\ calm \in BOOLEAN /\ (calm => "long" \notin ks) /\ Layout(msgs, n, ks)
  BY DEF Known
<1> USE <1>0
<1>a. /\ len = StringEnd(buf, cur) - cur
      /\ buf2 = [i \in 0..MAX_AT_RESPONSE |-> buf[IF i <= len THEN cur + i ELSE i]]
  BY DEF Shifted
<1> USE <1>a
<1>1. LastByte \in Nat /\ cur \in Int /\ MAX_AT_RESPONSE = LastByte /\ buf \in [0..LastByte -> Byte]
  BY BufferAssumption DEF LastByte, Buffers
<1>2. /\ end \in cur..LastByte /\ buf[end].c = "NUL"
      /\ \A i \in cur..(end - 1) :
           buf[i].c # "NUL" /\ buf[i].at = next - (end - i) /\ Fits(buf[i], msgs, n)
  BY WindowBytes DEF Sound
<1>3. /\ StringEnd(buf, cur) \in cur..LastByte
      /\ buf[StringEnd(buf, cur)].c = "NUL"
      /\ \A j \in cur..(StringEnd(buf, cur) - 1) : buf[j].c # "NUL"
  BY StringEndFacts
<1>4. StringEnd(buf, cur) = end
  <2>1. StringEnd(buf, cur) < end => StringEnd(buf, cur) \in cur..(end - 1)
    BY <1>1, <1>2, <1>3
  <2>2. end < StringEnd(buf, cur) => end \in cur..(StringEnd(buf, cur) - 1)
    BY <1>1, <1>2, <1>3
  <2> QED  BY <1>1, <1>2, <1>3, <2>1, <2>2
<1>5. len = end - cur /\ len \in 0..LastByte /\ end \in Int
  BY <1>1, <1>2, <1>4
<1>6. \A i \in 0..len : buf2[i] = buf[cur + i]
  BY <1>1, <1>5
<1>7. \A i \in 0..(len - 1) : cur + i \in cur..(end - 1) /\ i \in 0..len /\ len - i = end - (cur + i)
  BY <1>1, <1>5
<1>8. Window(buf2, 0, len, next, msgs, n)
  <2>1. buf2[len].c = "NUL"
    <3>1. cur + len = end /\ len \in 0..len
      BY <1>1, <1>5
    <3> QED  BY <1>2, <1>6, <3>1
  <2>2. ASSUME NEW i \in 0..(len - 1)
        PROVE  buf2[i].at = next - (len - i) /\ Fits(buf2[i], msgs, n)
    <3>1. cur + i \in cur..(end - 1) /\ buf2[i] = buf[cur + i] /\ len - i = end - (cur + i)
      BY <1>6, <1>7
    <3> DEFINE j == cur + i
    <3>2. j \in cur..(end - 1) /\ buf2[i] = buf[j] /\ len - i = end - j
      BY <3>1
    <3> HIDE DEF j
    <3>3. buf[j].at = next - (end - j) /\ Fits(buf[j], msgs, n)
      BY <1>2, <3>2
    <3> QED  BY <3>2, <3>3
  <2>3. \A i \in 0..(len - 1) : buf2[i].at = next - (len - i) /\ Fits(buf2[i], msgs, n)
    BY <2>2
  <2>4. 0 \in Nat /\ len \in Nat /\ 0 <= len /\ len <= LastByte /\ ~(0 > LastByte)
    BY <1>1, <1>5
  <2> QED  BY <2>1, <2>3, <2>4 DEF Window
<1>9. BlankLast(buf, cur, end) => BlankLast(buf2, 0, len)
  <2>1. ASSUME BlankLast(buf, cur, end), NEW i \in 0..(len - 1), buf2[i].c = "SP"
        PROVE  i = len - 1
    <3>1. cur + i \in cur..(end - 1) /\ buf[cur + i].c = "SP"
      BY <1>6, <1>7, <2>1
    <3>2. cur + i = end - 1
      BY <2>1, <3>1 DEF BlankLast
    <3> QED  BY <1>1, <1>5, <3>2
  <2> QED  BY <2>1 DEF BlankLast
<1>10. \A goal \in Int : Aim(cur, end, next, goal) => Aim(0, len, next, goal)
  BY <1>1, <1>5 DEF Aim
<1>11. ASSUME calm \/ first # NoLine
       PROVE  /\ end <= cur + 1 /\ Near(len, next, Goal(msgs, n, k, first))
              /\ Aim(0, len, next, Goal(msgs, n, k, first))
  <2>1. /\ k \in 1..(Len(msgs) + 1) /\ Keeps(msgs, n, k, first)
        /\ Aim(cur, end, next, Goal(msgs, n, k, first)) /\ Window(buf, cur, end, next, msgs, n)
        /\ calm => BlankLast(buf, cur, end)
    BY <1>11 DEF Sound
  <2>2. \/ "long" \notin ks /\ BlankLast(buf, cur, end)
        \/ k \in 1..Len(msgs) /\ SmsAt(msgs[k], Begin(msgs, n, k))
    BY <1>11, <2>1 DEF Keeps
  <2>3. Goal(msgs, n, k, first) \in Int
    BY <2>1, <2>2, AwaitedFacts
  <2>4. end <= cur + 1
    <3>1. PICK eol : eol = findNextEOL(buf, cur)
      OBVIOUS
    <3>2. /\ eol = NULL => end <= cur + 1
          /\ eol # NULL => Found(buf, cur, end, next, eol, msgs, n, k, first)
      BY <2>1, <2>2, <3>1, FoundLine
    <3> QED  BY <3>1, <3>2
  <2> DEFINE goal == Goal(msgs, n, k, first)
  <2>5. Aim(cur, end, next, goal) /\ goal \in Int
    BY <2>1, <2>3
  <2> HIDE DEF goal
  <2>6. Near(len, next, goal)
    BY <1>1, <1>5, <2>4, <2>5 DEF Near, Aim
  <2> QED  BY <1>10, <2>4, <2>5, <2>6 DEF goal
<1> QED  BY <1>8, <1>9, <1>10, <1>11 DEF Sound

\* What the reader knows when it waits for a line that counts.
Waits(end, next, msgs, n, calm, k, first) ==
    calm \/ first # NoLine => Near(end, next, Goal(msgs, n, k, first))

Silent(buf, cur, end) == \A i \in cur..(end - 1) : buf[i].c # "SP"

\* Before a read there is no blank in the buffer, and a line that counts leaves
\* room in a buffer of three bytes.
LEMMA SilentNear ==
    ASSUME NEW buf \in Buffers, NEW cur \in 0..LastByte,
           NEW end, NEW next, NEW msgs, NEW n, NEW ks, NEW calm, Known(next, msgs, n, ks, calm),
           NEW k, NEW first, Sound(buf, cur, end, next, msgs, n, calm, k, first),
           Waits(end, next, msgs, n, calm, k, first), calm \/ first # NoLine
    PROVE  end <= 2 /\ (calm => Silent(buf, cur, end))
<1>0. /\ msgs \in Seq(Call) /\ n \in Nat /\ next \in Int /\ next <= n + 1
      /\ calm \in BOOLEAN /\ (calm => "long" \notin ks) /\ Layout(msgs, n, ks)
  BY DEF Known
<1> USE <1>0
<1> DEFINE goal == Goal(msgs, n, k, first)
<1>1. /\ k \in 1..(Len(msgs) + 1) /\ Keeps(msgs, n, k, first)
      /\ Aim(cur, end, next, goal) /\ Window(buf, cur, end, next, msgs, n)
      /\ Near(end, next, goal)
  BY DEF Sound, Waits
<1>2. "long" \notin ks \/ (k \in 1..Len(msgs) /\ SmsAt(msgs[k], Begin(msgs, n, k)))
  BY <1>1 DEF Keeps
<1>3. goal \in Int /\ \E C, E : Awaited(C, E, msgs, n, k, first)
  BY <1>1, <1>2, AwaitedFacts
<1>4. /\ end \in cur..LastByte
      /\ \A i \in cur..(end - 1) :
            buf[i].at = next - (end - i) /\ buf[i].at <= n /\ Fits(buf[i], msgs, n)
  BY <1>1, WindowBytes
<1>5. LastByte \in Nat /\ cur \in Int /\ end \in Int /\ 0 <= cur
  BY <1>4, BufferAssumption DEF LastByte
<1>6. end <= 2
  <2> HIDE DEF goal
  <2> QED  BY <1>1, <1>3, <1>5 DEF Near
<1>7. ASSUME NEW i \in cur..(end - 1) PROVE buf[i].c # "SP"
  <2>1. buf[i].at = goal - 1 \/ buf[i].at = goal
    <3> HIDE DEF goal
    <3>1. buf[i].at = next - (end - i) /\ cur <= i /\ i <= end - 1 /\ i \in Int
      BY <1>4, <1>5
    <3>2. goal - 1 <= next - (end - cur) /\ next <= goal + 1 /\ goal \in Int
      BY <1>1, <1>3 DEF Near, Aim
    <3>3. \A g, x, e, c, j \in Int :
             c <= j /\ j <= e - 1 /\ g - 1 <= x - (e - c) /\ x <= g + 1 =>
                x - (e - j) = g - 1 \/ x - (e - j) = g
      OBVIOUS
    <3>4. next - (end - i) = goal - 1 \/ next - (end - i) = goal
      BY <1>5, <3>1, <3>2, <3>3
    <3> QED  BY <3>1, <3>4
  <2>2. PICK C, E : Awaited(C, E, msgs, n, k, first)
    BY <1>3
  <2>3. buf[i].c = "NL" \/ buf[i].c = C
    BY <1>4, <2>1, <2>2 DEF Awaited
  <2> QED  BY <2>2, <2>3 DEF Awaited
<1> QED  BY <1>6, <1>7 DEF Silent

\* The bytes that have arrived and are not read.
Rest(bytes, msgs, n, calm) ==
    \A m \in 1..Len(bytes) :
       /\ bytes[m].at = n - Len(bytes) + m /\ Fits(bytes[m], msgs, n)
       /\ calm /\ bytes[m].c = "SP" => m = Len(bytes)

\* buf2 is buf with count of the bytes at place, and an end behind them.
Filled(buf2, buf, place, bytes, count) ==
    /\ \A i \in 0..(place - 1) : buf2[i] = buf[i]
    /\ \A i \in place..(place + count - 1) : buf2[i] = bytes[i - place + 1]
    /\ buf2[place + count].c = "NUL"

\* A read fills the window with the next bytes that were sent.
LEMMA FillSound ==
    ASSUME NEW buf, NEW cur \in 0..LastByte, NEW place,
           NEW bytes \in Seq(Byte), NEW count \in 1..Len(bytes), NEW msgs, NEW n \in Nat,
           NEW next, next = n + 1 - Len(bytes),
           NEW calm \in BOOLEAN, NEW k, NEW first,
           Sound(buf, cur, place, next, msgs, n, calm, k, first),
           calm => Silent(buf, cur, place), Rest(bytes, msgs, n, calm),
           place + count <= LastByte,
           NEW buf2, Filled(buf2, buf, place, bytes, count)
    PROVE  Sound(buf2, cur, place + count, next + count, msgs, n, calm, k, first)
<1> DEFINE end == place + count
<1>1. /\ LastByte \in Nat /\ cur \in Int /\ 0 <= cur /\ cur <= LastByte
      /\ place \in Int /\ cur <= place /\ Len(bytes) \in Nat /\ count \in Int
      /\ 1 <= count /\ count <= Len(bytes) /\ next \in Int /\ end \in Int /\ end = place + count
  BY BufferAssumption DEF LastByte, Sound, Window
<1>2. buf2[end].c = "NUL" /\ end <= LastByte
  BY DEF Filled
<1> HIDE DEF end
<1>3. ASSUME NEW i \in cur..(end - 1)
      PROVE  /\ buf2[i].at = next + count - (end - i) /\ Fits(buf2[i], msgs, n)
             /\ calm /\ buf2[i].c = "SP" => i = end - 1
  <2>1. i \in Int /\ cur <= i /\ i <= end - 1
    BY <1>1
  <2>2. CASE i < place
    <3>1. i \in cur..(place - 1) /\ i \in 0..(place - 1)
      BY <1>1, <2>1, <2>2
    <3>2. buf2[i] = buf[i]
      BY <3>1 DEF Filled
    <3>3. buf[i].at = next - (place - i) /\ Fits(buf[i], msgs, n)
      BY <3>1 DEF Sound, Window
    <3>4. next - (place - i) = next + count - (end - i)
      BY <1>1, <2>1
    <3>5. calm => buf[i].c # "SP"
      BY <3>1 DEF Silent
    <3> QED  BY <3>2, <3>3, <3>4, <3>5
  <2>3. CASE ~(i < place)
    <3> DEFINE m == i - place + 1
    <3>1. /\ m \in 1..Len(bytes) /\ i \in place..(place + count - 1)
          /\ n - Len(bytes) + m = next + count - (end - i)
          /\ m = Len(bytes) => i = end - 1
      BY <1>1, <2>1, <2>3
    <3>2. buf2[i] = bytes[m]
      BY <3>1 DEF Filled
    <3> HIDE DEF m
    <3>3. /\ bytes[m].at = n - Len(bytes) + m /\ Fits(bytes[m], msgs, n)
          /\ calm /\ bytes[m].c = "SP" => m = Len(bytes)
      BY <3>1 DEF Rest
    <3> QED  BY <3>1, <3>2, <3>3
  <2> QED  BY <2>2, <2>3
<1>4. Window(buf2, cur, end, next + count, msgs, n)
  <2>1. \A i \in cur..(end - 1) :
           buf2[i].at = next + count - (end - i) /\ Fits(buf2[i], msgs, n)
    BY <1>3
  <2>2. cur \in Nat /\ end \in Nat /\ cur <= end /\ ~(cur > LastByte)
    BY <1>1
  <2> QED  BY <1>2, <2>1, <2>2 DEF Window
<1>5. calm => BlankLast(buf2, cur, end)
  BY <1>3 DEF BlankLast
<1>6. \A goal : Aim(cur, place, next, goal) => Aim(cur, end, next + count, goal)
  <2>1. (next + count) - (end - cur) = next - (place - cur)
    BY <1>1
  <2>2. ASSUME NEW goal, Aim(cur, place, next, goal) PROVE Aim(cur, end, next + count, goal)
    BY <2>1, <2>2 DEF Aim
  <2> QED  BY <2>2
<1> QED  BY <1>4, <1>5, <1>6 DEF Sound, end

\* A line between newlines.
LEMMA FramedFacts ==
    ASSUME NEW line \in Seq(Classes), NEW f, f = Framed(line)
    PROVE  /\ f[1] = "NL" /\ Len(f) = Len(line) + (IF line = <<">", "SP">> THEN 1 ELSE 2)
           /\ \A i \in 1..Len(line) : f[i + 1] = line[i]
           /\ line # <<">", "SP">> => f[Len(line) + 2] = "NL"
<1> DEFINE nl == <<"NL">>
           tail == IF line = <<">", "SP">> THEN << >> ELSE nl
<1>1. nl \in Seq(Classes) /\ Len(nl) = 1 /\ nl[1] = "NL"
  BY DEF Classes
<1>2. f = (nl \o line) \o tail
  BY DEF Framed
<1>3. tail \in Seq(Classes) /\ Len(tail) = IF line = <<">", "SP">> THEN 0 ELSE 1
  BY <1>1
<1>4. line # <<">", "SP">> => tail[1] = "NL"
  BY <1>1
<1> DEFINE front == nl \o line
<1> HIDE DEF nl, tail
<1>5. /\ front \in Seq(Classes) /\ Len(front) = 1 + Len(line) /\ Len(line) \in Nat
      /\ \A i \in 1..Len(front) : front[i] = IF i <= 1 THEN nl[i] ELSE line[i - 1]
  BY <1>1, ConcatProperties
<1> HIDE DEF front
<1>6. /\ Len(f) = Len(front) + Len(tail)
      /\ \A i \in 1..Len(f) : f[i] = IF i <= Len(front) THEN front[i] ELSE tail[i - Len(front)]
  BY <1>2, <1>3, <1>5, ConcatProperties DEF front
<1>7. f[1] = "NL"
  BY <1>1, <1>3, <1>5, <1>6
<1>8. ASSUME NEW i \in 1..Len(line) PROVE f[i + 1] = line[i]
  <2>1. i + 1 \in 1..Len(f) /\ i + 1 \in 1..Len(front) /\ i + 1 - 1 = i
    BY <1>3, <1>5, <1>6
  <2> QED  BY <1>5, <1>6, <2>1
<1>9. ASSUME line # <<">", "SP">> PROVE f[Len(line) + 2] = "NL"
  <2>1. Len(tail) = 1 /\ tail[1] = "NL"
    BY <1>3, <1>4, <1>9
  <2>2. Len(line) + 2 \in 1..Len(f) /\ ~(Len(line) + 2 <= Len(front)) /\ Len(line) + 2 - Len(front) = 1
    BY <1>5, <1>6, <2>1
  <2> QED  BY <1>6, <2>1, <2>2
<1> QED  BY <1>3, <1>5, <1>6, <1>7, <1>8, <1>9

\* The bytes of the messages.
LEMMA StreamText ==
    ASSUME NEW kind \in Sendable, NEW s, s = Stream(kind), MAX_AT_RESPONSE >= 3
    PROVE  /\ kind = "OK" => Len(s) = 3 /\ s[1] = "NL" /\ s[2] = "OK" /\ s[3] = "NL"
           /\ kind = "prompt" => Len(s) = 3 /\ s[1] = "NL" /\ s[2] = ">" /\ s[3] = "SP"
           /\ kind = "sms" => /\ Len(s) = 6 /\ s[1] = "NL" /\ s[2] = "+CMT:" /\ s[3] = "NL"
                              /\ s[4] = "NL" /\ s[5] = "x" /\ s[6] = "NL"
           /\ kind = "long" => /\ Len(s) >= 3 /\ s[1] = "NL"
                               /\ \A i \in 1..Len(s) : s[i] \in {"x", "NL"}
<1>1. /\ "OK" \in Classes /\ "x" \in Classes /\ "+CMT:" \in Classes
      /\ ">" \in Classes /\ "SP" \in Classes
  BY DEF Classes
<1>2. ASSUME NEW c \in Classes
      PROVE  <<c>> \in Seq(Classes) /\ Len(<<c>>) = 1 /\ <<c>>[1] = c /\ <<c>> # <<">", "SP">>
  <2>1. Len(<<c>>) = 1 /\ Len(<<">", "SP">>) = 2
    OBVIOUS
  <2> QED  BY <2>1
<1>3. ASSUME NEW c \in Classes, NEW f, f = Framed(<<c>>)
      PROVE  f \in Seq(Classes) /\ Len(f) = 3 /\ f[1] = "NL" /\ f[2] = c /\ f[3] = "NL"
  <2> DEFINE line == <<c>>
  <2>1. line \in Seq(Classes) /\ Len(line) = 1 /\ line[1] = c /\ line # <<">", "SP">>
    BY <1>2
  <2>2. f = Framed(line)
    BY <1>3
  <2>3. f \in Seq(Classes)
    <3>1. <<"NL">> \in Seq(Classes)
      BY DEF Classes
    <3> HIDE DEF line
    <3>2. <<"NL">> \o line \in Seq(Classes)
      BY <2>1, <3>1, ConcatProperties
    <3> QED  BY <2>1, <2>2, <3>1, <3>2, ConcatProperties DEF Framed
  <2> HIDE DEF line
  <2>4. /\ f[1] = "NL" /\ Len(f) = Len(line) + 2
        /\ \A i \in 1..Len(line) : f[i + 1] = line[i]
        /\ f[Len(line) + 2] = "NL"
    BY <2>1, <2>2, FramedFacts
  <2> QED  BY <2>1, <2>3, <2>4
<1>4. kind # "sms" => s = Framed(Lines(kind)[1])
  BY LinesFacts DEF Stream
<1>5. ASSUME kind = "OK"
      PROVE  Len(s) = 3 /\ s[1] = "NL" /\ s[2] = "OK" /\ s[3] = "NL"
  <2>1. Lines(kind)[1] = <<"OK">>
    BY <1>5 DEF Lines
  <2>2. s = Framed(<<"OK">>)
    BY <1>4, <1>5, <2>1
  <2> QED  BY <1>1, <1>3, <2>2
<1>6. ASSUME kind = "prompt"
      PROVE  Len(s) = 3 /\ s[1] = "NL" /\ s[2] = ">" /\ s[3] = "SP"
  <2> DEFINE line == <<">", "SP">>
  <2>1. Lines(kind)[1] = line
    BY <1>6 DEF Lines
  <2>2. line \in Seq(Classes) /\ Len(line) = 2 /\ line[1] = ">" /\ line[2] = "SP"
    BY <1>1, Tuples, OneOrTwo
  <2>3. s = Framed(line) /\ line = <<">", "SP">>
    BY <1>4, <1>6, <2>1
  <2> HIDE DEF line
  <2>4. /\ s[1] = "NL" /\ Len(s) = Len(line) + (IF line = <<">", "SP">> THEN 1 ELSE 2)
        /\ \A i \in 1..Len(line) : s[i + 1] = line[i]
    BY <2>2, <2>3, FramedFacts, Zenon
  <2>5. Len(s) = Len(line) + 1
    BY <2>3, <2>4
  <2> QED  BY <2>2, <2>4, <2>5
<1>7. ASSUME kind = "sms"
      PROVE  /\ Len(s) = 6 /\ s[1] = "NL" /\ s[2] = "+CMT:" /\ s[3] = "NL"
             /\ s[4] = "NL" /\ s[5] = "x" /\ s[6] = "NL"
  <2>1. Lines(kind)[1] = <<"+CMT:">> /\ Lines(kind)[2] = <<"x">> /\ Len(Lines(kind)) = 2
    BY <1>7, OneOrTwo DEF Lines
  <2>2. PICK f, g : f = Framed(<<"+CMT:">>) /\ g = Framed(<<"x">>)
    OBVIOUS
  <2>3. s = f \o g
    BY <2>1, <2>2 DEF Stream
  <2>4. /\ f \in Seq(Classes) /\ Len(f) = 3 /\ f[1] = "NL" /\ f[2] = "+CMT:" /\ f[3] = "NL"
        /\ g \in Seq(Classes) /\ Len(g) = 3 /\ g[1] = "NL" /\ g[2] = "x" /\ g[3] = "NL"
    BY <1>1, <1>3, <2>2
  <2>5. /\ Len(s) = Len(f) + Len(g)
        /\ \A i \in 1..(Len(f) + Len(g)) : s[i] = IF i <= Len(f) THEN f[i] ELSE g[i - Len(f)]
    <3>1. f \in Seq(Classes) /\ g \in Seq(Classes)
      BY <2>4
    <3>2. /\ Len(f \o g) = Len(f) + Len(g)
          /\ \A i \in 1..Len(f) + Len(g) : (f \o g)[i] = IF i <= Len(f) THEN f[i] ELSE g[i - Len(f)]
      BY <3>1, ConcatProperties
    <3> QED  BY <2>3, <3>2
  <2>6. /\ Len(s) = 6
        /\ \A i \in 1..6 : s[i] = IF i <= 3 THEN f[i] ELSE g[i - 3]
    BY <2>4, <2>5
  <2> QED  BY <2>4, <2>6
<1>8. ASSUME kind = "long"
      PROVE  /\ Len(s) >= 3 /\ s[1] = "NL"
             /\ \A i \in 1..Len(s) : s[i] \in {"x", "NL"}
  <2> DEFINE line == [i \in 1..MAX_AT_RESPONSE |-> "x"]
  <2>1. Lines(kind)[1] = line
    BY <1>8 DEF Lines
  <2>2. MAX_AT_RESPONSE \in Nat
    BY BufferAssumption
  <2>3. /\ line \in Seq(Classes) /\ Len(line) = MAX_AT_RESPONSE
        /\ \A i \in 1..MAX_AT_RESPONSE : line[i] = "x"
    BY <1>1, <2>2
  <2>4. s = Framed(line)
    BY <1>4, <1>8, <2>1
  <2> HIDE DEF line
  <2>5. line # <<">", "SP">>
    <3>1. Len(<<">", "SP">>) = 2
      OBVIOUS
    <3> QED  BY <2>2, <2>3, <3>1
  <2>6. /\ s[1] = "NL" /\ Len(s) = Len(line) + 2
        /\ \A i \in 1..Len(line) : s[i + 1] = line[i]
        /\ s[Len(line) + 2] = "NL"
    BY <2>3, <2>4, <2>5, FramedFacts
  <2>7. ASSUME NEW i \in 1..Len(s) PROVE s[i] \in {"x", "NL"}
    <3>1. CASE i = 1
      BY <2>6, <3>1
    <3>2. CASE i = Len(line) + 2
      BY <2>6, <3>2
    <3>3. CASE i # 1 /\ i # Len(line) + 2
      <4> DEFINE j == i - 1
      <4>1. j \in 1..Len(line) /\ j + 1 = i
        BY <2>2, <2>3, <2>6, <3>3
      <4> HIDE DEF j
      <4>2. s[j + 1] = line[j] /\ line[j] = "x"
        BY <2>3, <2>6, <4>1
      <4> QED  BY <4>1, <4>2
    <3> QED  BY <3>1, <3>2, <3>3
  <2> QED  BY <2>2, <2>3, <2>6, <2>7
<1> QED  BY <1>5, <1>6, <1>7, <1>8

\* The calls they are meant to lead to.
LEMMA MeantText ==
    ASSUME NEW kind \in Sendable, NEW o \in Nat, NEW call, call = Meant(kind, o), MAX_AT_RESPONSE >= 3
    PROVE  /\ kind = "OK" => OKAt(call, o)
           /\ kind = "prompt" => PromptAt(call, o)
           /\ kind = "sms" => SmsAt(call, o)
           /\ kind = "long" => /\ call.second = NoLine
                               /\ call.first[1].at = o + 2 /\ call.first[1].c = "x"
<1>1. ASSUME NEW c, NEW at \in Nat PROVE Bytes(<<c>>, at) = <<ByteAt(c, at + 1)>>
  <2>1. DOMAIN <<c>> = 1..1 /\ <<c>>[1] = c
    OBVIOUS
  <2>2. Bytes(<<c>>, at) = [i \in 1..1 |-> [c |-> <<c>>[i], at |-> at + i]]
    BY <2>1 DEF Bytes
  <2> QED  BY <2>1, <2>2 DEF ByteAt
<1>2. ASSUME NEW c, NEW d, NEW at \in Nat
      PROVE Bytes(<<c, d>>, at) = <<ByteAt(c, at + 1), ByteAt(d, at + 2)>>
  <2>1. DOMAIN <<c, d>> = 1..2 /\ <<c, d>>[1] = c /\ <<c, d>>[2] = d
    OBVIOUS
  <2>2. Bytes(<<c, d>>, at) = [i \in 1..2 |-> [c |-> <<c, d>>[i], at |-> at + i]]
    BY <2>1 DEF Bytes
  <2> QED  BY <2>1, <2>2 DEF ByteAt
<1>3. o + 1 \in Nat /\ (o + 1) + 1 = o + 2 /\ (o + 1) + 2 = o + 3
      /\ o + 1 + 3 \in Nat /\ (o + 1 + 3) + 1 = o + 5
  OBVIOUS
<1>4. ASSUME kind = "OK" PROVE OKAt(call, o)
  <2>1. Lines(kind)[1] = <<"OK">>
    BY <1>4 DEF Lines
  <2>2. call = Handed(Bytes(<<"OK">>, o + 1), NoLine)
    BY <1>4, <2>1 DEF Meant
  <2> QED  BY <1>1, <1>3, <2>2 DEF OKAt
<1>5. ASSUME kind = "prompt" PROVE PromptAt(call, o)
  <2>1. Lines(kind)[1] = <<">", "SP">>
    BY <1>5 DEF Lines
  <2>2. call = Handed(Bytes(<<">", "SP">>, o + 1), NoLine)
    BY <1>5, <2>1 DEF Meant
  <2> QED  BY <1>2, <1>3, <2>2 DEF PromptAt
<1>6. ASSUME kind = "sms" PROVE SmsAt(call, o)
  <2>1. Lines(kind)[1] = <<"+CMT:">> /\ Lines(kind)[2] = <<"x">>
    BY <1>6, OneOrTwo DEF Lines
  <2>2. Len(<<"+CMT:">>) = 1
    OBVIOUS
  <2>3. call = Handed(Bytes(<<"+CMT:">>, o + 1), Bytes(<<"x">>, o + 1 + 3))
    BY <1>6, <2>1, <2>2 DEF Meant
  <2> QED  BY <1>1, <1>3, <2>3 DEF SmsAt
<1>7. ASSUME kind = "long"
      PROVE  call.second = NoLine /\ call.first[1].at = o + 2 /\ call.first[1].c = "x"
  <2> DEFINE line == [i \in 1..MAX_AT_RESPONSE |-> "x"]
  <2>1. Lines(kind)[1] = line
    BY <1>7 DEF Lines
  <2>2. 1 \in DOMAIN line /\ line[1] = "x"
    BY BufferAssumption
  <2> HIDE DEF line
  <2>3. call = Handed(Bytes(line, o + 1), NoLine)
    BY <1>7, <2>1 DEF Meant
  <2>4. Bytes(line, o + 1)[1] = [c |-> "x", at |-> o + 1 + 1]
    BY <2>2 DEF Bytes
  <2> QED  BY <1>3, <2>3, <2>4 DEF Handed
<1> QED  BY <1>4, <1>5, <1>6, <1>7

\* What a message that is sent behind the o-th byte brings.
Brings(kind, s, call, o, ks) ==
    /\ call.first[1].at - 2 = o /\ Len(s) \in Nat /\ Message(call, o, o + Len(s), ks)
    /\ \A i \in 1..Len(s) : \A b : b.c = s[i] /\ b.at = o + i =>
          /\ FitsMessage(b, call, o) /\ b.c \notin {"NUL", "+CDSI:", "+CUSD:"}
          /\ b.c = "+CMT:" => SmsAt(call, o) /\ b.at = o + 2
          /\ b.c = "SP" => i = Len(s)

\* The bytes of a message lie where its call says that they do.
LEMMA NewMessage ==
    ASSUME NEW kind \in Sendable, kind \notin {"notice", "ussd"}, NEW ks, kind \in ks,
           NEW o \in Nat, NEW call, call = Meant(kind, o), NEW s, s = Stream(kind),
           MAX_AT_RESPONSE >= 3
    PROVE  Brings(kind, s, call, o, ks)
<1> USE DEF Brings
<1>1. kind \in {"OK", "sms", "prompt", "long"}
  BY SendableAssumption
<1>2. Len(s) \in Nat
  BY StreamFacts
<1>3. CASE kind = "OK"
  <2>1. OKAt(call, o) /\ Len(s) = 3 /\ s[1] = "NL" /\ s[2] = "OK" /\ s[3] = "NL"
    BY <1>3, StreamText, MeantText
  <2>2. call.first[1].at = o + 2 /\ ~SmsAt(call, o) /\ ~PromptAt(call, o)
    BY <2>1 DEF OKAt, SmsAt, PromptAt, Handed, ByteAt, NoLine
  <2>3. ASSUME NEW i \in 1..3, NEW b, b.c = s[i], b.at = o + i
        PROVE  FitsMessage(b, call, o) /\ b.c \in {"NL", "OK"}
    <3>1. i = 1 \/ i = 2 \/ i = 3
      OBVIOUS
    <3> QED  BY <2>1, <2>2, <2>3, <3>1 DEF FitsMessage
  <2>4. Message(call, o, o + Len(s), ks) /\ call.first[1].at - 2 = o
    BY <2>1, <2>2 DEF Message
  <2>5. ASSUME NEW i \in 1..Len(s), NEW b, b.c = s[i], b.at = o + i
        PROVE  FitsMessage(b, call, o) /\ b.c \notin {"NUL", "+CDSI:", "+CUSD:", "+CMT:", "SP"}
    <3>1. i \in 1..3
      BY <2>1
    <3> QED  BY <2>3, <2>5, <3>1
  <2> QED  BY <1>2, <2>4, <2>5
<1>4. CASE kind = "prompt"
  <2>1. PromptAt(call, o) /\ Len(s) = 3 /\ s[1] = "NL" /\ s[2] = ">" /\ s[3] = "SP"
    BY <1>4, StreamText, MeantText
  <2>2. call.first[1].at = o + 2 /\ ~SmsAt(call, o) /\ ~OKAt(call, o)
    <3>1. call.first[1] = ByteAt(">", o + 2) /\ call.second = NoLine
      BY <2>1 DEF PromptAt, Handed
    <3> QED  BY <3>1 DEF OKAt, SmsAt, Handed, ByteAt, NoLine
  <2>3. ASSUME NEW i \in 1..3, NEW b, b.c = s[i], b.at = o + i
        PROVE  FitsMessage(b, call, o) /\ b.c \in {"NL", ">", "SP"} /\ (b.c = "SP" => i = Len(s))
    <3>1. i = 1 \/ i = 2 \/ i = 3
      OBVIOUS
    <3> QED  BY <2>1, <2>2, <2>3, <3>1 DEF FitsMessage
  <2>4. Message(call, o, o + Len(s), ks)
    BY <2>1 DEF Message
  <2>5. ASSUME NEW i \in 1..Len(s), NEW b, b.c = s[i], b.at = o + i
        PROVE  /\ FitsMessage(b, call, o) /\ b.c \notin {"NUL", "+CDSI:", "+CUSD:", "+CMT:"}
               /\ b.c = "SP" => i = Len(s)
    <3>1. i \in 1..3
      BY <2>1
    <3> QED  BY <2>3, <2>5, <3>1
  <2>6. call.first[1].at - 2 = o
    BY <2>2
  <2> QED  BY <1>2, <2>4, <2>5, <2>6
<1>5. CASE kind = "sms"
  <2>1. /\ SmsAt(call, o) /\ Len(s) = 6 /\ s[1] = "NL" /\ s[2] = "+CMT:" /\ s[3] = "NL"
        /\ s[4] = "NL" /\ s[5] = "x" /\ s[6] = "NL"
    BY <1>5, StreamText, MeantText
  <2>2. call.first[1].at = o + 2 /\ ~OKAt(call, o) /\ ~PromptAt(call, o)
    <3>1. call.first[1] = ByteAt("+CMT:", o + 2) /\ call.second # NoLine
      BY <2>1 DEF SmsAt, Handed, NoLine
    <3> QED  BY <3>1 DEF OKAt, PromptAt, Handed, ByteAt
  <2>3. ASSUME NEW i \in 1..6, NEW b, b.c = s[i], b.at = o + i
        PROVE  /\ FitsMessage(b, call, o) /\ b.c \in {"NL", "+CMT:", "x"}
               /\ b.c = "+CMT:" => b.at = o + 2
    <3>1. i = 1 \/ i = 2 \/ i = 3 \/ i = 4 \/ i = 5 \/ i = 6
      OBVIOUS
    <3>2. b.c \in {"NL", "+CMT:", "x"} /\ (b.c = "+CMT:" => i = 2)
      BY <2>1, <2>3, <3>1
    <3>3. /\ i = 1 => b.at = o + 1 /\ b.c = "NL"
          /\ i = 2 => b.at = o + 2 /\ b.c = "+CMT:"
          /\ i = 3 => b.at = o + 3 /\ b.c = "NL"
          /\ i = 4 => b.at = o + 4 /\ b.c = "NL"
          /\ i = 5 => b.at = o + 5 /\ b.c = "x"
          /\ i = 6 => b.at = o + 6 /\ b.c = "NL"
      BY <2>1, <2>3
    <3>4. FitsMessage(b, call, o)
      BY <2>2, <3>1, <3>3 DEF FitsMessage
    <3> QED  BY <2>3, <3>2, <3>4
  <2>4. Message(call, o, o + Len(s), ks) /\ call.first[1].at - 2 = o
    BY <2>1, <2>2 DEF Message
  <2>5. ASSUME NEW i \in 1..Len(s), NEW b, b.c = s[i], b.at = o + i
        PROVE  /\ FitsMessage(b, call, o) /\ b.c \notin {"NUL", "+CDSI:", "+CUSD:", "SP"}
               /\ b.c = "+CMT:" => b.at = o + 2
    <3>1. i \in 1..6
      BY <2>1
    <3> QED  BY <2>3, <2>5, <3>1
  <2> QED  BY <1>2, <2>1, <2>4, <2>5
<1>6. CASE kind = "long"
  <2>0. Len(s) >= 3 /\ s[1] = "NL" /\ \A i \in 1..Len(s) : s[i] \in {"x", "NL"}
    BY <1>6, StreamText
  <2>1. /\ Len(s) >= 3 /\ s[1] = "NL" /\ \A i \in 1..Len(s) : s[i] \in {"x", "NL"}
        /\ call.second = NoLine /\ call.first[1].at = o + 2 /\ call.first[1].c = "x"
    BY <1>6, <2>0, MeantText
  <2>2. ~OKAt(call, o) /\ ~PromptAt(call, o) /\ ~SmsAt(call, o)
    BY <2>1 DEF OKAt, PromptAt, SmsAt, Handed, ByteAt, NoLine
  <2>3. ASSUME NEW i \in 1..Len(s), NEW b, b.c = s[i], b.at = o + i
        PROVE  FitsMessage(b, call, o) /\ b.c \in {"NL", "x"}
    <3>1. b.at = o + 1 => i = 1
      BY <1>2, <2>3
    <3> QED  BY <2>1, <2>2, <2>3, <3>1 DEF FitsMessage
  <2>4. Message(call, o, o + Len(s), ks) /\ call.first[1].at - 2 = o
    BY <1>2, <1>6, <2>1 DEF Message
  <2>5. ASSUME NEW i \in 1..Len(s), NEW b, b.c = s[i], b.at = o + i
        PROVE  FitsMessage(b, call, o) /\ b.c \notin {"NUL", "+CDSI:", "+CUSD:", "+CMT:", "SP"}
    BY <2>3, <2>5
  <2> QED  BY <1>2, <2>4, <2>5
<1> QED  BY <1>1, <1>3, <1>4, <1>5, <1>6

\* One more message.
More(msgs, n, ks, msgs2, n2, ks2) ==
    \E call \in Call :
       /\ msgs2 = Append(msgs, call) /\ call.first[1].at - 2 = n
       /\ n2 \in Nat /\ Message(call, n, n2, ks2) /\ ks \subseteq ks2

\* A new message leaves the places of the old ones.
LEMMA BeginMore ==
    ASSUME NEW msgs \in Seq(Call), NEW n \in Nat, NEW ks, NEW msgs2, NEW n2, NEW ks2,
           More(msgs, n, ks, msgs2, n2, ks2)
    PROVE  /\ msgs2 \in Seq(Call) /\ Len(msgs2) = Len(msgs) + 1 /\ n2 \in Nat /\ n + 3 <= n2
           /\ \A k \in 1..Len(msgs) : msgs2[k] = msgs[k]
           /\ \A k \in 1..(Len(msgs) + 1) : Begin(msgs2, n2, k) = Begin(msgs, n, k)
           /\ Begin(msgs2, n2, Len(msgs) + 1) = n /\ Begin(msgs2, n2, Len(msgs) + 2) = n2
           /\ Message(msgs2[Len(msgs) + 1], n, n2, ks2)
<1>1. PICK call \in Call :
         /\ msgs2 = Append(msgs, call) /\ call.first[1].at - 2 = n
         /\ n2 \in Nat /\ Message(call, n, n2, ks2)
  BY DEF More
<1>2. /\ msgs2 \in Seq(Call) /\ Len(msgs2) = Len(msgs) + 1 /\ Len(msgs) \in Nat
      /\ \A k \in 1..Len(msgs) : msgs2[k] = msgs[k]
      /\ msgs2[Len(msgs) + 1] = call
  BY <1>1, AppendProperties
<1>3. ASSUME NEW k \in 1..(Len(msgs) + 1) PROVE Begin(msgs2, n2, k) = Begin(msgs, n, k)
  <2>1. CASE k \in 1..Len(msgs)
    <3>1. k <= Len(msgs) /\ k <= Len(msgs2) /\ msgs2[k] = msgs[k]
      BY <1>2, <2>1
    <3> QED  BY <3>1 DEF Begin
  <2>2. CASE k \notin 1..Len(msgs)
    <3>1. k = Len(msgs) + 1 /\ ~(k <= Len(msgs)) /\ k <= Len(msgs2)
      BY <1>2, <2>2
    <3> QED  BY <1>1, <1>2, <3>1 DEF Begin
  <2> QED  BY <2>1, <2>2
<1>4. Begin(msgs2, n2, Len(msgs) + 1) = n
  <2>1. Len(msgs) + 1 <= Len(msgs2)
    BY <1>2
  <2> QED  BY <1>1, <1>2, <2>1 DEF Begin
<1>5. Begin(msgs2, n2, Len(msgs) + 2) = n2
  <2>1. ~(Len(msgs) + 2 <= Len(msgs2))
    BY <1>2
  <2> QED  BY <2>1 DEF Begin
<1>6. n + 3 <= n2
  BY <1>1 DEF Message
<1> QED  BY <1>1, <1>2, <1>3, <1>4, <1>5, <1>6

\* ... and comes behind them.
LEMMA LayoutMore ==
    ASSUME NEW msgs \in Seq(Call), NEW n \in Nat, NEW ks, NEW msgs2, NEW n2, NEW ks2,
           More(msgs, n, ks, msgs2, n2, ks2), Layout(msgs, n, ks)
    PROVE  Layout(msgs2, n2, ks2)
<1>1. /\ msgs2 \in Seq(Call) /\ Len(msgs2) = Len(msgs) + 1 /\ n2 \in Nat /\ n + 3 <= n2
      /\ \A k \in 1..Len(msgs) : msgs2[k] = msgs[k]
      /\ \A k \in 1..(Len(msgs) + 1) : Begin(msgs2, n2, k) = Begin(msgs, n, k)
      /\ Begin(msgs2, n2, Len(msgs) + 1) = n /\ Begin(msgs2, n2, Len(msgs) + 2) = n2
      /\ Message(msgs2[Len(msgs) + 1], n, n2, ks2)
  BY BeginMore
<1>2. Len(msgs) \in Nat /\ ks \subseteq ks2
  BY DEF More
<1>3. ASSUME NEW k \in 1..Len(msgs2)
      PROVE  /\ Begin(msgs2, n2, k) \in Nat /\ Begin(msgs2, n2, k + 1) \in Nat
             /\ Begin(msgs2, n2, k + 1) <= n2
             /\ Message(msgs2[k], Begin(msgs2, n2, k), Begin(msgs2, n2, k + 1), ks2)
  <2>1. CASE k \in 1..Len(msgs)
    <3>1. k \in 1..(Len(msgs) + 1) /\ k + 1 \in 1..(Len(msgs) + 1)
      BY <1>2, <2>1
    <3>2. Begin(msgs2, n2, k) = Begin(msgs, n, k) /\ Begin(msgs2, n2, k + 1) = Begin(msgs, n, k + 1)
      BY <1>1, <3>1
    <3>3. /\ Begin(msgs, n, k) \in Nat /\ Begin(msgs, n, k + 1) \in Nat
          /\ Begin(msgs, n, k + 1) <= n
          /\ Message(msgs[k], Begin(msgs, n, k), Begin(msgs, n, k + 1), ks)
      BY <2>1 DEF Layout
    <3>4. Message(msgs[k], Begin(msgs, n, k), Begin(msgs, n, k + 1), ks2)
      BY <1>2, <3>3 DEF Message
    <3>5. Begin(msgs, n, k + 1) <= n2
      BY <1>1, <3>3
    <3> QED  BY <1>1, <2>1, <3>2, <3>3, <3>4, <3>5
  <2>2. CASE k \notin 1..Len(msgs)
    <3>1. k = Len(msgs) + 1 /\ k + 1 = Len(msgs) + 2
      BY <1>1, <1>2, <2>2
    <3>2. n2 <= n2
      BY <1>1
    <3> QED  BY <1>1, <3>1, <3>2
  <2> QED  BY <2>1, <2>2
<1> QED  BY <1>3 DEF Layout

\* The bytes sent before fit still.
LEMMA FitsMore ==
    ASSUME NEW msgs \in Seq(Call), NEW n \in Nat, NEW ks, NEW msgs2, NEW n2, NEW ks2,
           More(msgs, n, ks, msgs2, n2, ks2),
           NEW b, b.at \in Int, b.at <= n, Fits(b, msgs, n)
    PROVE  Fits(b, msgs2, n2)
<1>1. /\ msgs2 \in Seq(Call) /\ Len(msgs2) = Len(msgs) + 1 /\ n2 \in Nat
      /\ \A k \in 1..Len(msgs) : msgs2[k] = msgs[k]
      /\ \A k \in 1..(Len(msgs) + 1) : Begin(msgs2, n2, k) = Begin(msgs, n, k)
      /\ Begin(msgs2, n2, Len(msgs) + 1) = n
  BY BeginMore
<1>2. \A k \in 1..Len(msgs) :
         /\ k \in 1..Len(msgs2) /\ msgs2[k] = msgs[k]
         /\ Begin(msgs2, n2, k) = Begin(msgs, n, k)
  BY <1>1
<1>3. ASSUME NEW k \in 1..Len(msgs2) PROVE FitsMessage(b, msgs2[k], Begin(msgs2, n2, k))
  <2>1. CASE k \in 1..Len(msgs)
    <3>1. FitsMessage(b, msgs[k], Begin(msgs, n, k))
      BY <2>1 DEF Fits
    <3> QED  BY <1>2, <2>1, <3>1
  <2>2. CASE k \notin 1..Len(msgs)
    <3>1. k = Len(msgs) + 1
      BY <1>1, <2>2
    <3>2. Begin(msgs2, n2, k) = n
      BY <1>1, <3>1
    <3>3. /\ b.at # n + 1 /\ b.at # n + 2 /\ b.at # n + 3 /\ b.at # n + 4
          /\ b.at # n + 5 /\ b.at # n + 6
      OBVIOUS
    <3> QED  BY <3>2, <3>3 DEF FitsMessage
  <2> QED  BY <2>1, <2>2
<1>4. ASSUME b.c = "+CMT:"
      PROVE  \E k \in 1..Len(msgs2) :
                SmsAt(msgs2[k], Begin(msgs2, n2, k)) /\ b.at = Begin(msgs2, n2, k) + 2
  <2>1. PICK k \in 1..Len(msgs) : SmsAt(msgs[k], Begin(msgs, n, k)) /\ b.at = Begin(msgs, n, k) + 2
    BY <1>4 DEF Fits
  <2> QED  BY <1>2, <2>1
<1> QED  BY <1>3, <1>4 DEF Fits

\* A byte behind what was sent fits the messages before it.
LEMMA BehindFits ==
    ASSUME NEW msgs \in Seq(Call), NEW n \in Nat, NEW ks, Layout(msgs, n, ks),
           NEW b, b.at \in Int, b.at > n, NEW k \in 1..Len(msgs)
    PROVE  FitsMessage(b, msgs[k], Begin(msgs, n, k))
<1> DEFINE o == Begin(msgs, n, k)
           q == Begin(msgs, n, k + 1)
           call == msgs[k]
<1>1. o \in Nat /\ q \in Nat /\ q <= n /\ Message(call, o, q, ks)
  BY DEF Layout
<1>2. SmsAt(call, o) => call.second # NoLine
  BY DEF SmsAt, Handed, NoLine
<1> HIDE DEF o, q, call
<1>3. o + 3 <= q /\ (SmsAt(call, o) => q = o + 6)
  BY <1>1, <1>2 DEF Message, OKAt, PromptAt, Handed
<1>4. /\ b.at # o + 1 /\ b.at # o + 2 /\ b.at # o + 3
      /\ SmsAt(call, o) => b.at # o + 4 /\ b.at # o + 5 /\ b.at # o + 6
  BY <1>1, <1>3
<1>5. FitsMessage(b, call, o)
  BY <1>4 DEF FitsMessage
<1> QED  BY <1>5 DEF o, call

-----------------------------------------------------------------------------
(* The steps of the reader.                                                  *)

\* Where the reader is in what was sent.
Reading(end, k, next, msgs, n, calm) ==
    /\ Sound(s_ATBuffer, s_ATBufferCur, end, next, msgs, n, calm, k, line1)
    /\ Passed(handed, msgs, calm, k)
    /\ thread = "read" => end = p_read /\ Waits(end, next, msgs, n, calm, k, line1)

Reads(next, msgs, n, calm) == \E end, k : Reading(end, k, next, msgs, n, calm)

\* readline with nothing in the buffer.
LEMMA ReadsBegin ==
    ASSUME LineInv, NEW next, NEW msgs, NEW n, NEW ks, NEW calm, Known(next, msgs, n, ks, calm),
           Reads(next, msgs, n, calm), BeginEmpty,
           s_ATBufferCur <= LastByte => s_ATBuffer[s_ATBufferCur].c = "NUL"
    PROVE  Reads(next, msgs, n, calm)'
<1>1. PICK end, k : Reading(end, k, next, msgs, n, calm)
  BY DEF Reads
<1>2. PICK first, buf2 : first = line1 /\ buf2 = s_ATBuffer'
  OBVIOUS
<1>3. PICK buf, cur : buf = s_ATBuffer /\ cur = s_ATBufferCur
  OBVIOUS
<1>4. Sound(buf, cur, end, next, msgs, n, calm, k, first)
  BY <1>1, <1>2, <1>3 DEF Reading
<1>5. buf2[0].c = "NUL"
  BY <1>2, BufferFacts DEF BeginEmpty, NUL, Buffers, LastByte
<1>6. Sound(buf2, 0, 0, next, msgs, n, calm, k, first)
  BY <1>3, <1>4, <1>5, EmptySound DEF Known
<1>7. Waits(0, next, msgs, n, calm, k, first)
  <2> DEFINE goal == Goal(msgs, n, k, first)
  <2>1. ASSUME calm \/ first # NoLine PROVE Near(0, next, goal)
    <3>1. Aim(0, 0, next, goal) /\ k \in 1..(Len(msgs) + 1) /\ Keeps(msgs, n, k, first)
      BY <1>6, <2>1 DEF Sound
    <3>2. "long" \notin ks \/ (k \in 1..Len(msgs) /\ SmsAt(msgs[k], Begin(msgs, n, k)))
      BY <2>1, <3>1 DEF Keeps, Known
    <3>3. goal \in Int
      BY <3>1, <3>2, AwaitedFacts DEF Known
    <3> HIDE DEF goal
    <3> QED  BY <3>1, <3>3 DEF Aim, Near, Known
  <2> QED  BY <2>1 DEF Waits
<1>8. UNCHANGED <<line1, handed>> /\ s_ATBufferCur' = 0 /\ p_read' = 0
  BY DEF BeginEmpty
<1>9. Passed(handed, msgs, calm, k)
  BY <1>1 DEF Reading
<1>10. Reading(0, k, next, msgs, n, calm)'
  BY <1>2, <1>6, <1>7, <1>8, <1>9 DEF Reading
<1> QED  BY <1>10 DEF Reads

\* readline with the rest of an earlier read.
LEMMA ReadsBuffered ==
    ASSUME LineInv, NEW next, NEW msgs, NEW n, NEW ks, NEW calm, Known(next, msgs, n, ks, calm),
           Reads(next, msgs, n, calm), ReadlineBuffered
    PROVE  Reads(next, msgs, n, calm)'
<1> DEFINE cur == SkipNewlines(s_ATBuffer, s_ATBufferCur)
           eol == findNextEOL(s_ATBuffer, cur)
           len == StringEnd(s_ATBuffer, cur) - cur
<1>1. PICK end, k : Reading(end, k, next, msgs, n, calm)
  BY DEF Reads
<1>2. /\ s_ATBuffer \in Buffers /\ s_ATBufferCur \in 0..LastByte /\ handed \in Seq(Call)
  BY BufferFacts DEF LineInv, LineTypeOK, ReadlineBuffered, LastByte
<1>3. /\ Sound(s_ATBuffer, s_ATBufferCur, end, next, msgs, n, calm, k, line1)
      /\ Passed(handed, msgs, calm, k)
  BY <1>1 DEF Reading
<1>4. /\ msgs \in Seq(Call) /\ n \in Nat /\ next \in Int /\ next <= n + 1
      /\ calm \in BOOLEAN /\ (calm => "long" \notin ks) /\ Layout(msgs, n, ks)
  BY DEF Known
<1>5. /\ cur \in cur..end /\ cur \in 0..LastByte /\ s_ATBuffer[cur].c # "NL"
      /\ Sound(s_ATBuffer, cur, end, next, msgs, n, calm, k, line1)
  <2>1. PICK buf, place, c, first :
           buf = s_ATBuffer /\ place = s_ATBufferCur /\ c = cur /\ first = line1
    OBVIOUS
  <2>2. /\ buf \in Buffers /\ place \in 0..LastByte /\ c = SkipNewlines(buf, place)
        /\ Sound(buf, place, end, next, msgs, n, calm, k, first)
    BY <1>2, <1>3, <2>1
  <2>3. /\ c \in place..end /\ c \in 0..LastByte /\ buf[c].c # "NL"
        /\ Sound(buf, c, end, next, msgs, n, calm, k, first)
    BY <2>2, SkipSound
  <2>4. c \in c..end
    BY <2>2, <2>3, BufferAssumption DEF LastByte
  <2> QED  BY <2>1, <2>3, <2>4
<1>6. CASE eol # NULL
  <2>1. ReturnLine(s_ATBuffer, cur, eol)
    BY <1>6 DEF ReadlineBuffered
  <2> HIDE DEF cur
  <2>2. PICK e : e = eol
    OBVIOUS
  <2>3. \E end2, k2 : /\ Sound(s_ATBuffer', s_ATBufferCur', end2, next, msgs, n, calm, k2, line1')
                      /\ Passed(handed', msgs, calm, k2)
    BY <1>2, <1>3, <1>5, <1>6, <2>1, <2>2, ReturnSound
  <2>4. thread' = "loop"
    BY <2>1 DEF ReturnLine
  <2> QED  BY <2>3, <2>4 DEF Reads, Reading
<1>7. CASE eol = NULL
  <2>1. /\ s_ATBuffer' = [i \in 0..MAX_AT_RESPONSE |-> s_ATBuffer[IF i <= len THEN cur + i ELSE i]]
        /\ s_ATBufferCur' = 0 /\ p_read' = len /\ thread' = "read"
        /\ UNCHANGED <<line1, handed>>
    BY <1>7 DEF ReadlineBuffered
  <2> HIDE DEF cur
  <2>2. PICK l : l = len
    OBVIOUS
  <2>3. PICK buf2, first, buf, c :
           buf2 = s_ATBuffer' /\ first = line1 /\ buf = s_ATBuffer /\ c = cur
    OBVIOUS
  <2>4. Shifted(buf2, buf, c, l)
    BY <2>1, <2>2, <2>3 DEF Shifted
  <2>5. /\ Sound(buf, c, end, next, msgs, n, calm, k, first)
        /\ buf \in Buffers /\ c \in 0..LastByte /\ buf[c].c # "NL" /\ findNextEOL(buf, c) = NULL
    BY <1>2, <1>5, <1>7, <2>3
  <2>6. /\ Sound(buf2, 0, l, next, msgs, n, calm, k, first)
        /\ calm \/ first # NoLine => end <= c + 1 /\ Near(l, next, Goal(msgs, n, k, first))
    BY <2>4, <2>5, ShiftSound
  <2>7. Reading(l, k, next, msgs, n, calm)'
    BY <1>3, <2>1, <2>2, <2>3, <2>6 DEF Reading, Waits
  <2> QED  BY <2>7 DEF Reads
<1> QED  BY <1>6, <1>7

\* readline before a read.
LEMMA ReadsReadline ==
    ASSUME LineInv, NEW next, NEW msgs, NEW n, NEW ks, NEW calm, Known(next, msgs, n, ks, calm),
           Reads(next, msgs, n, calm), Readline
    PROVE  Reads(next, msgs, n, calm)'
<1>1. CASE ReadlineEmpty
  BY <1>1, ReadsBegin DEF ReadlineEmpty
<1>2. CASE ReadlineBuffered
  BY <1>2, ReadsBuffered
<1>3. CASE ReadlineBeyond
  <2>1. ~(s_ATBufferCur <= LastByte)
    <3>1. s_ATBufferCur \in Int /\ MAX_AT_RESPONSE \in Int /\ s_ATBufferCur > MAX_AT_RESPONSE
      BY <1>3, BufferAssumption DEF LineInv, LineTypeOK, ReadlineBeyond
    <3> QED  BY <3>1 DEF LastByte
  <2>2. CASE BeginEmpty
    BY <2>1, <2>2, ReadsBegin
  <2>3. CASE thread' = "undefined" /\ UNCHANGED <<bufferVars, line1, handed, modemVars>>
    <3>1. PICK end, k : Reading(end, k, next, msgs, n, calm)
      BY DEF Reads
    <3>2. Reading(end, k, next, msgs, n, calm)'
      BY <2>3, <3>1 DEF Reading, bufferVars
    <3> QED  BY <3>2 DEF Reads
  <2> QED  BY <1>3, <2>2, <2>3 DEF ReadlineBeyond
<1> QED  BY <1>1, <1>2, <1>3 DEF Readline

\* Before a read: a full buffer is given up only when no line counts.
LEMMA ReadStarts ==
    ASSUME LineInv, thread = "read", MAX_AT_RESPONSE >= 3,
           NEW next, NEW msgs, NEW n, NEW ks, NEW calm, Known(next, msgs, n, ks, calm),
           NEW end, NEW k, Reading(end, k, next, msgs, n, calm)
    PROVE  /\ end = p_read /\ s_ATBufferCur \in 0..LastByte
           /\ calm \/ line1 # NoLine => ~Overflow
           /\ calm => Silent(BeforeRead, StartOfRead(s_ATBufferCur), StartOfRead(p_read))
           /\ Sound(BeforeRead, StartOfRead(s_ATBufferCur), StartOfRead(p_read), next, msgs, n,
                    calm, k, line1)
<1>1. /\ s_ATBuffer \in Buffers /\ s_ATBufferCur \in 0..LastByte /\ LastByte \in Nat /\ LastByte >= 3
      /\ p_read \in 0..LastByte
  BY BufferFacts DEF LineInv, LineTypeOK, LastByte
<1>2. /\ Sound(s_ATBuffer, s_ATBufferCur, end, next, msgs, n, calm, k, line1)
      /\ end = p_read /\ Waits(end, next, msgs, n, calm, k, line1)
  BY DEF Reading
<1>3. PICK buf, cur, first : buf = s_ATBuffer /\ cur = s_ATBufferCur /\ first = line1
  OBVIOUS
<1>4. calm \/ first # NoLine => end <= 2 /\ (calm => Silent(buf, cur, end))
  <2>1. /\ buf \in Buffers /\ cur \in 0..LastByte
        /\ Sound(buf, cur, end, next, msgs, n, calm, k, first)
        /\ Waits(end, next, msgs, n, calm, k, first)
    BY <1>1, <1>2, <1>3
  <2> QED  BY <2>1, SilentNear
<1>5. CASE ~Overflow
  <2>1. BeforeRead = buf /\ StartOfRead(s_ATBufferCur) = cur /\ StartOfRead(p_read) = end
    BY <1>2, <1>3, <1>5 DEF BeforeRead, StartOfRead
  <2> QED  BY <1>1, <1>2, <1>3, <1>4, <1>5, <2>1
<1>6. CASE Overflow
  <2>1. ~calm /\ first = NoLine
    BY <1>1, <1>2, <1>4, <1>6 DEF Overflow, LastByte
  <2>2. BeforeRead[0].c = "NUL" /\ StartOfRead(s_ATBufferCur) = 0 /\ StartOfRead(p_read) = 0
    BY <1>1, <1>6 DEF BeforeRead, StartOfRead, Buffers, NUL
  <2>3. PICK buf2 : buf2 = BeforeRead
    OBVIOUS
  <2>4. Window(buf2, 0, 0, next, msgs, n)
    <3>1. \A i \in 0..(0 - 1) : FALSE
      OBVIOUS
    <3> QED  BY <1>1, <2>2, <2>3, <3>1 DEF Window
  <2>5. k \in 1..(Len(msgs) + 1) /\ Keeps(msgs, n, k, first)
    BY <1>2, <1>3 DEF Sound
  <2>6. Sound(buf2, 0, 0, next, msgs, n, calm, k, first)
    BY <2>1, <2>4, <2>5 DEF Sound
  <2> QED  BY <1>1, <1>2, <1>3, <2>1, <2>2, <2>3, <2>6
<1> QED  BY <1>5, <1>6

\* A read brings bytes, and maybe a line.
LEMMA ReadsRead ==
    ASSUME LineInv, MAX_AT_RESPONSE >= 3,
           NEW next, NEW msgs, NEW n, NEW ks, NEW calm, Known(next, msgs, n, ks, calm),
           Reads(next, msgs, n, calm), next = n + 1 - Len(tty), Rest(tty, msgs, n, calm),
           NEW count \in 1..Len(tty), Read(count)
    PROVE  Reads(next + count, msgs, n, calm)'
<1>0. /\ msgs \in Seq(Call) /\ n \in Nat /\ next \in Int /\ next <= n + 1
      /\ calm \in BOOLEAN /\ (calm => "long" \notin ks) /\ Layout(msgs, n, ks)
  BY DEF Known
<1>1. PICK end0, k : Reading(end0, k, next, msgs, n, calm)
  BY DEF Reads
<1>2. thread = "read" /\ count <= Len(tty) /\ count <= MAX_AT_RESPONSE - StartOfRead(p_read)
  BY DEF Read
<1>3. PICK old, start, place, first, bytes, buf :
         /\ old = BeforeRead /\ start = StartOfRead(s_ATBufferCur) /\ place = StartOfRead(p_read)
         /\ first = line1 /\ bytes = tty /\ buf = AfterRead(place, count)
  OBVIOUS
<1>4. /\ end0 = p_read /\ s_ATBufferCur \in 0..LastByte
      /\ calm \/ first # NoLine => ~Overflow
      /\ calm => Silent(old, start, place)
      /\ Sound(old, start, place, next, msgs, n, calm, k, first)
  BY <1>1, <1>2, <1>3, ReadStarts
<1>5. /\ buf \in Buffers /\ place + count \in 1..LastByte
      /\ buf[place + count] = NUL /\ place \in 0..LastByte /\ start \in 0..LastByte
  BY <1>2, <1>3, <1>4, AfterReadFacts, BeforeReadFacts
<1>6. bytes \in Seq(Byte) /\ LastByte \in Nat /\ handed \in Seq(Call)
  BY <1>3, BufferFacts DEF LineInv, LineTypeOK
<1>7. Filled(buf, old, place, bytes, count)
  <2>1. \A i \in 0..LastByte :
           buf[i] = IF i \in place..(place + count - 1) THEN bytes[i - place + 1]
                    ELSE IF i = place + count THEN NUL ELSE old[i]
    BY <1>3 DEF AfterRead, LastByte
  <2>2. ASSUME NEW i \in 0..(place - 1) PROVE buf[i] = old[i]
    <3>1. i \in 0..LastByte /\ i \notin place..(place + count - 1) /\ i # place + count
      BY <1>5, <1>6
    <3> QED  BY <2>1, <3>1
  <2>3. ASSUME NEW i \in place..(place + count - 1) PROVE buf[i] = bytes[i - place + 1]
    <3>1. i \in 0..LastByte
      BY <1>5, <1>6
    <3> QED  BY <2>1, <3>1
  <2> QED  BY <1>5, <2>2, <2>3 DEF Filled, NUL
<1> DEFINE end == place + count
           next2 == next + count
<1>8. Sound(buf, start, end, next2, msgs, n, calm, k, first)
  <2>1. /\ count \in 1..Len(bytes) /\ next = n + 1 - Len(bytes) /\ Rest(bytes, msgs, n, calm)
        /\ place + count <= LastByte
    BY <1>3, <1>5, <1>6
  <2> QED  BY <1>0, <1>4, <1>5, <1>6, <1>7, <2>1, FillSound
<1>9. Known(next2, msgs, n, ks, calm) /\ next2 \in Int /\ end \in Int /\ end <= LastByte
  <2>1. next2 \in Int /\ next2 <= n + 1 /\ end \in Int /\ end <= LastByte
    BY <1>0, <1>3, <1>5, <1>6
  <2> QED  BY <1>0, <2>1 DEF Known
<1> DEFINE cur == SkipNewlines(buf, start)
           ussd == processUSSD(buf, cur)
           eol == IF ussd # NULL THEN ussd ELSE findNextEOL(buf, cur)
<1> HIDE DEF end, next2
<1>10. /\ cur \in start..end /\ cur \in 0..LastByte /\ buf[cur].c # "NL"
       /\ Sound(buf, cur, end, next2, msgs, n, calm, k, first)
  <2>1. PICK c : c = cur
    OBVIOUS
  <2>2. /\ c \in start..end /\ c \in 0..LastByte /\ buf[c].c # "NL"
        /\ Sound(buf, c, end, next2, msgs, n, calm, k, first)
    BY <1>5, <1>8, <1>9, <2>1, SkipSound
  <2> QED  BY <2>1, <2>2
<1>11. eol = findNextEOL(buf, cur)
  <2>1. Window(buf, cur, end, next2, msgs, n) /\ cur \in Int /\ cur <= end
    BY <1>5, <1>9, <1>10 DEF Sound
  <2>2. buf[cur].c # "+CUSD:"
    <3> HIDE DEF cur
    <3>1. CASE cur = end
      BY <1>5, <3>1 DEF NUL, end
    <3>2. CASE cur # end
      <4>1. cur \in cur..(end - 1)
        BY <1>9, <2>1, <3>2
      <4> QED  BY <2>1, <4>1 DEF Window, Fits
    <3> QED  BY <3>1, <3>2
  <2> QED  BY <2>2 DEF processUSSD
<1>12. /\ p_read' = end
       /\ IF eol # NULL THEN ReturnLine(buf, cur, eol)
          ELSE /\ s_ATBuffer' = buf /\ s_ATBufferCur' = cur
               /\ UNCHANGED <<thread, line1, handed>>
  BY <1>3 DEF Read, end
<1>13. Passed(handed, msgs, calm, k)
  BY <1>1 DEF Reading
<1> HIDE DEF cur, eol
<1>14. CASE eol # NULL
  <2>1. ReturnLine(buf, cur, eol)
    BY <1>12, <1>14
  <2>2. Sound(buf, cur, end, next2, msgs, n, calm, k, line1)
    BY <1>3, <1>10
  <2>3. \E end2, k2 : /\ Sound(s_ATBuffer', s_ATBufferCur', end2, next2, msgs, n, calm, k2, line1')
                      /\ Passed(handed', msgs, calm, k2)
    BY <1>5, <1>6, <1>9, <1>10, <1>11, <1>13, <1>14, <2>1, <2>2, ReturnSound
  <2>4. thread' = "loop"
    BY <2>1 DEF ReturnLine
  <2> QED  BY <2>3, <2>4 DEF Reads, Reading, next2
<1>15. CASE eol = NULL
  <2>1. s_ATBuffer' = buf /\ s_ATBufferCur' = cur /\ UNCHANGED <<thread, line1, handed>>
    BY <1>12, <1>15
  <2>2. Waits(end, next2, msgs, n, calm, k, first)
    <3> SUFFICES ASSUME calm \/ first # NoLine PROVE Near(end, next2, Goal(msgs, n, k, first))
      BY DEF Waits
    <3> DEFINE goal == Goal(msgs, n, k, first)
    <3>1. /\ k \in 1..(Len(msgs) + 1) /\ Keeps(msgs, n, k, first)
          /\ Aim(cur, end, next2, goal) /\ Window(buf, cur, end, next2, msgs, n)
          /\ calm => BlankLast(buf, cur, end)
      BY <1>10 DEF Sound
    <3>2. \/ "long" \notin ks /\ BlankLast(buf, cur, end)
          \/ k \in 1..Len(msgs) /\ SmsAt(msgs[k], Begin(msgs, n, k))
      BY <1>0, <3>1 DEF Keeps
    <3>3. goal \in Int
      BY <1>0, <3>1, <3>2, AwaitedFacts
    <3>4. end <= cur + 1
      <4>1. PICK e : e = eol
        OBVIOUS
      <4>2. next2 <= n + 1 /\ e = findNextEOL(buf, cur)
        BY <1>9, <1>11, <4>1 DEF Known
      <4>3. /\ e = NULL => end <= cur + 1
            /\ e # NULL => Found(buf, cur, end, next2, e, msgs, n, k, first)
        BY <1>0, <1>5, <1>9, <1>10, <3>1, <3>2, <4>2, FoundLine
      <4> QED  BY <1>15, <4>1, <4>3
    <3>5. Near(place, next, goal)
      <4>1. ~Overflow /\ place = p_read
        BY <1>3, <1>4 DEF StartOfRead
      <4>2. Waits(p_read, next, msgs, n, calm, k, first)
        BY <1>1, <1>2, <1>3, <1>4 DEF Reading
      <4> QED  BY <4>1, <4>2 DEF Waits
    <3>6. next2 - end = next - place
      BY <1>0, <1>5, <1>6 DEF end, next2
    <3> HIDE DEF goal
    <3>7. next2 <= goal + 1
      <4>1. next2 - (end - cur) <= goal /\ cur \in Int
        BY <1>10, <3>1 DEF Aim
      <4> QED  BY <1>9, <3>3, <3>4, <4>1
    <3>8. goal - 1 <= next2 - end
      BY <3>5, <3>6 DEF Near
    <3>9. Near(end, next2, goal)
      BY <3>7, <3>8 DEF Near
    <3> QED  BY <3>9 DEF goal
  <2>3. Reading(end, k, next2, msgs, n, calm)'
    BY <1>3, <1>10, <1>12, <1>13, <2>1, <2>2 DEF Reading
  <2> QED  BY <2>3 DEF Reads, next2
<1> QED  BY <1>14, <1>15

\* What is left after a read.
LEMMA RestRead ==
    ASSUME NEW bytes \in Seq(Byte), NEW msgs, NEW n \in Nat, NEW calm, Rest(bytes, msgs, n, calm),
           NEW count \in 1..Len(bytes)
    PROVE  /\ Rest(SubSeq(bytes, count + 1, Len(bytes)), msgs, n, calm)
           /\ Len(SubSeq(bytes, count + 1, Len(bytes))) = Len(bytes) - count
<1> DEFINE left == SubSeq(bytes, count + 1, Len(bytes))
<1>1. Len(bytes) \in Nat /\ count \in Int /\ 1 <= count /\ count <= Len(bytes)
  OBVIOUS
<1>2. /\ Len(left) = Len(bytes) - count
      /\ \A m \in 1..Len(left) : left[m] = bytes[count + m] /\ count + m \in 1..Len(bytes)
  BY <1>1
<1> HIDE DEF left
<1>3. ASSUME NEW m \in 1..Len(left)
      PROVE  /\ left[m].at = n - Len(left) + m /\ Fits(left[m], msgs, n)
             /\ calm /\ left[m].c = "SP" => m = Len(left)
  <2> DEFINE j == count + m
  <2>1. j \in 1..Len(bytes) /\ left[m] = bytes[j]
    BY <1>2
  <2>2. n - Len(bytes) + j = n - Len(left) + m /\ (j = Len(bytes) => m = Len(left))
    <3>1. Len(left) = Len(bytes) - count /\ m \in Int /\ n \in Int
      BY <1>2
    <3>2. PICK a, b : a = Len(bytes) /\ b = Len(left)
      OBVIOUS
    <3>3. a \in Int /\ b \in Int /\ count \in Int /\ b = a - count
      BY <1>1, <3>1, <3>2
    <3>4. (n - a) + (count + m) = (n - b) + m
      BY <3>1, <3>3
    <3>5. count + m = a => m = b
      BY <3>1, <3>3
    <3> QED  BY <3>2, <3>4, <3>5
  <2> HIDE DEF j
  <2>3. /\ bytes[j].at = n - Len(bytes) + j /\ Fits(bytes[j], msgs, n)
        /\ calm /\ bytes[j].c = "SP" => j = Len(bytes)
    BY <2>1 DEF Rest
  <2> QED  BY <2>1, <2>2, <2>3
<1> QED  BY <1>2, <1>3 DEF Rest, left

-----------------------------------------------------------------------------
(* What a new message changes.                                               *)

\* What is in the buffer is what it was.
LEMMA SoundMore ==
    ASSUME NEW next, NEW msgs, NEW n, NEW ks, NEW calm, Known(next, msgs, n, ks, calm),
           NEW msgs2, NEW n2, NEW ks2, More(msgs, n, ks, msgs2, n2, ks2),
           NEW calm2, calm2 => calm,
           NEW buf, NEW cur, NEW end, NEW k, NEW first,
           Sound(buf, cur, end, next, msgs, n, calm, k, first)
    PROVE  /\ Sound(buf, cur, end, next, msgs2, n2, calm2, k, first)
           /\ Goal(msgs2, n2, k, first) = Goal(msgs, n, k, first)
<1>0. msgs \in Seq(Call) /\ n \in Nat /\ next \in Int /\ next <= n + 1
  BY DEF Known
<1>1. /\ Len(msgs2) = Len(msgs) + 1 /\ Len(msgs) \in Nat
      /\ \A j \in 1..Len(msgs) : msgs2[j] = msgs[j]
      /\ \A j \in 1..(Len(msgs) + 1) : Begin(msgs2, n2, j) = Begin(msgs, n, j)
  BY <1>0, BeginMore
<1>2. /\ Window(buf, cur, end, next, msgs, n)
      /\ k \in 1..(Len(msgs) + 1) /\ Keeps(msgs, n, k, first)
      /\ calm => BlankLast(buf, cur, end)
      /\ calm \/ first # NoLine => Aim(cur, end, next, Goal(msgs, n, k, first))
  BY DEF Sound
<1>3. ASSUME NEW i \in cur..(end - 1) PROVE buf[i].at = next - (end - i) /\ Fits(buf[i], msgs2, n2)
  <2>1. buf[i].at = next - (end - i) /\ Fits(buf[i], msgs, n) /\ cur \in Nat /\ end \in Nat
    BY <1>2 DEF Window
  <2>2. buf[i].at \in Int /\ buf[i].at <= n
    BY <1>0, <2>1
  <2> QED  BY <1>0, <2>1, <2>2, FitsMore
<1>4. Window(buf, cur, end, next, msgs2, n2)
  BY <1>2, <1>3 DEF Window
<1>5. Goal(msgs2, n2, k, first) = Goal(msgs, n, k, first)
  BY <1>1, <1>2 DEF Goal
<1>6. Keeps(msgs2, n2, k, first)
  <2>1. ASSUME first # NoLine
        PROVE  /\ k \in 1..Len(msgs2) /\ SmsAt(msgs2[k], Begin(msgs2, n2, k))
               /\ first = msgs2[k].first
    <3>1. k \in 1..Len(msgs) /\ SmsAt(msgs[k], Begin(msgs, n, k)) /\ first = msgs[k].first
      BY <1>2, <2>1 DEF Keeps
    <3>2. k \in 1..Len(msgs2) /\ msgs2[k] = msgs[k] /\ Begin(msgs2, n2, k) = Begin(msgs, n, k)
      BY <1>1, <3>1
    <3> QED  BY <3>1, <3>2
  <2> QED  BY <2>1 DEF Keeps
<1>7. k \in 1..(Len(msgs2) + 1)
  BY <1>1, <1>2
<1> QED  BY <1>2, <1>4, <1>5, <1>6, <1>7 DEF Sound

\* What was handed on is among the messages still.
LEMMA PassedMore ==
    ASSUME NEW msgs \in Seq(Call), NEW n \in Nat, NEW ks, NEW msgs2, NEW n2, NEW ks2,
           More(msgs, n, ks, msgs2, n2, ks2), NEW calm, NEW calm2, calm2 => calm,
           NEW calls \in Seq(Call), NEW k \in 1..(Len(msgs) + 1), Passed(calls, msgs, calm, k)
    PROVE  Passed(calls, msgs2, calm2, k)
<1>1. /\ Len(msgs2) = Len(msgs) + 1 /\ Len(msgs) \in Nat /\ Len(calls) \in Nat
      /\ \A j \in 1..Len(msgs) : msgs2[j] = msgs[j] /\ j \in 1..Len(msgs2)
  BY BeginMore
<1>2. ASSUME NEW i \in 1..Len(calls), calls[i].second # NoLine
      PROVE  \E j \in 1..Len(msgs2) : msgs2[j] = calls[i]
  BY <1>1, <1>2 DEF Passed
<1>3. ASSUME calm2
      PROVE  k = Len(calls) + 1 /\ \A i \in 1..Len(calls) : calls[i] = msgs2[i]
  <2>1. k = Len(calls) + 1 /\ \A i \in 1..Len(calls) : calls[i] = msgs[i]
    BY <1>3 DEF Passed
  <2>2. \A i \in 1..Len(calls) : i \in 1..Len(msgs)
    BY <1>1, <2>1
  <2> QED  BY <1>1, <2>1, <2>2
<1> QED  BY <1>2, <1>3 DEF Passed

NoBlank(bytes) == \A i \in 1..Len(bytes) : bytes[i].c # "SP"

\* A message is sent: it is added to the messages, and its bytes to those that
\* are not read.
Adds(kind, msgs, n, ks, bytes, msgs2, n2, ks2, bytes2) ==
    /\ n2 = n + Len(Stream(kind)) /\ msgs2 = Append(msgs, Meant(kind, n)) /\ ks2 = ks \cup {kind}
    /\ bytes2 = bytes \o Bytes(Stream(kind), n)

Adding(kind, next, msgs, n, ks, bytes, calm, msgs2, n2, ks2, bytes2, calm2) ==
    /\ kind \in Sendable /\ kind \notin {"notice", "ussd"}
    /\ Known(next, msgs, n, ks, calm) /\ bytes \in Seq(Byte) /\ Rest(bytes, msgs, n, calm)
    /\ Adds(kind, msgs, n, ks, bytes, msgs2, n2, ks2, bytes2)
    /\ calm2 => NoBlank(bytes)

\* The bytes of a new message come behind those that are not read.
LEMMA RestMore ==
    ASSUME MAX_AT_RESPONSE >= 3, NEW kind, NEW next, NEW msgs, NEW n, NEW ks, NEW bytes, NEW calm,
           NEW msgs2, NEW n2, NEW ks2, NEW bytes2, NEW calm2,
           Adding(kind, next, msgs, n, ks, bytes, calm, msgs2, n2, ks2, bytes2, calm2)
    PROVE  /\ More(msgs, n, ks, msgs2, n2, ks2)
           /\ Rest(bytes2, msgs2, n2, calm2)
           /\ n2 - Len(bytes2) = n - Len(bytes)
<1>c. /\ kind \in Sendable /\ kind \notin {"notice", "ussd"}
      /\ Known(next, msgs, n, ks, calm) /\ bytes \in Seq(Byte) /\ Rest(bytes, msgs, n, calm)
      /\ Adds(kind, msgs, n, ks, bytes, msgs2, n2, ks2, bytes2)
      /\ calm2 => NoBlank(bytes)
  BY DEF Adding
<1> USE <1>c
<1> DEFINE call == Meant(kind, n)
<1>a. PICK s : s = Stream(kind)
  OBVIOUS
<1> DEFINE new == Bytes(s, n)
<1>b. /\ n2 = n + Len(s) /\ msgs2 = Append(msgs, call) /\ ks2 = ks \cup {kind}
      /\ bytes2 = bytes \o new
  BY <1>a DEF Adds
<1>0. msgs \in Seq(Call) /\ n \in Nat /\ Layout(msgs, n, ks)
  BY DEF Known
<1>1. call \in Call /\ s \in Seq(Classes) /\ Len(s) \in Nat /\ Len(msgs) \in Nat
  <2>1. s \in Seq(ClassesOf(kind))
    BY <1>a, StreamFacts
  <2>2. \A i \in 1..Len(s) : s[i] \in Classes
    BY <2>1 DEF ClassesOf, Classes
  <2>3. s \in Seq(Classes) /\ Len(s) \in Nat
    <3> DEFINE D == ClassesOf(kind)
    <3>1. s \in Seq(D)
      BY <2>1
    <3> HIDE DEF D
    <3>2. D \subseteq Classes
      BY DEF D, ClassesOf, Classes
    <3>3. s \in Seq(Classes)
      BY <3>1, <3>2
    <3> QED  BY <3>3
  <2>4. call \in Call
    BY <1>0, MeantFacts
  <2> QED  BY <1>0, <2>3, <2>4
<1>2. /\ call.first[1].at - 2 = n /\ Message(call, n, n2, ks2)
      /\ \A i \in 1..Len(s) : \A b : b.c = s[i] /\ b.at = n + i =>
            /\ FitsMessage(b, call, n) /\ b.c \notin {"NUL", "+CDSI:", "+CUSD:"}
            /\ b.c = "+CMT:" => SmsAt(call, n) /\ b.at = n + 2
            /\ b.c = "SP" => i = Len(s)
  <2>1. kind \in ks2
    BY <1>b
  <2>2. PICK c : c = call
    OBVIOUS
  <2>3. c = Meant(kind, n)
    BY <2>2
  <2> HIDE DEF call
  <2>4. Brings(kind, s, c, n, ks2)
    BY <1>0, <1>a, <1>b, <2>1, <2>3, NewMessage
  <2> QED  BY <1>b, <2>2, <2>4 DEF Brings
<1>3. n2 \in Nat /\ ks \subseteq ks2 /\ n2 = n + Len(s)
  BY <1>0, <1>1, <1>b
<1>4. More(msgs, n, ks, msgs2, n2, ks2)
  <2> HIDE DEF call
  <2>1. msgs2 = Append(msgs, call)
    BY <1>b DEF call
  <2> QED  BY <1>1, <1>2, <1>3, <2>1 DEF More
<1>5. /\ msgs2 \in Seq(Call) /\ Len(msgs2) = Len(msgs) + 1
      /\ \A k \in 1..Len(msgs) : msgs2[k] = msgs[k]
      /\ \A k \in 1..(Len(msgs) + 1) : Begin(msgs2, n2, k) = Begin(msgs, n, k)
      /\ Begin(msgs2, n2, Len(msgs) + 1) = n /\ msgs2[Len(msgs) + 1] = call
  BY <1>0, <1>1, <1>4, <1>b, BeginMore, AppendProperties
<1>6. /\ new \in Seq(Byte) /\ Len(new) = Len(s)
      /\ \A i \in 1..Len(s) : new[i] \in Byte /\ new[i].c = s[i] /\ new[i].at = n + i
  <2>1. \A i \in 1..Len(s) : n + i \in Nat /\ s[i] \in Classes
    BY <1>0, <1>1
  <2>2. DOMAIN s = 1..Len(s)
    BY <1>1
  <2>3. new = [i \in 1..Len(s) |-> [c |-> s[i], at |-> n + i]]
    BY <2>2 DEF Bytes
  <2> HIDE DEF new
  <2>4. \A i \in 1..Len(s) : new[i] = [c |-> s[i], at |-> n + i] /\ new[i] \in Byte
    BY <2>1, <2>3 DEF Byte
  <2>5. new \in Seq(Byte) /\ Len(new) = Len(s)
    BY <1>1, <2>3, <2>4
  <2>6. ASSUME NEW i \in 1..Len(s)
        PROVE  new[i] \in Byte /\ new[i].c = s[i] /\ new[i].at = n + i
    <3>1. new[i] = [c |-> s[i], at |-> n + i] /\ new[i] \in Byte
      BY <2>4
    <3> QED  BY <3>1
  <2> QED  BY <2>5, <2>6
<1> HIDE DEF new, call
<1>7. /\ Len(bytes2) = Len(bytes) + Len(s) /\ Len(bytes) \in Nat
      /\ \A m \in 1..Len(bytes2) :
            bytes2[m] = IF m <= Len(bytes) THEN bytes[m] ELSE new[m - Len(bytes)]
  <2>1. bytes2 = bytes \o new
    BY <1>b DEF new
  <2>2. /\ Len(bytes \o new) = Len(bytes) + Len(new)
        /\ \A m \in 1..Len(bytes) + Len(new) :
              (bytes \o new)[m] = IF m <= Len(bytes) THEN bytes[m] ELSE new[m - Len(bytes)]
    BY <1>6, ConcatProperties
  <2> QED  BY <1>6, <2>1, <2>2
<1>8. n2 - Len(bytes2) = n - Len(bytes)
  BY <1>0, <1>1, <1>3, <1>7
<1>9. ASSUME NEW m \in 1..Len(bytes2)
      PROVE  /\ bytes2[m].at = n2 - Len(bytes2) + m /\ Fits(bytes2[m], msgs2, n2)
             /\ calm2 /\ bytes2[m].c = "SP" => m = Len(bytes2)
  <2>0. m \in Int /\ 1 <= m /\ m <= Len(bytes2) /\ Len(bytes2) \in Int
    BY <1>1, <1>7
  <2>1. CASE m <= Len(bytes)
    <3>1. m \in 1..Len(bytes) /\ bytes2[m] = bytes[m]
      BY <1>7, <2>0, <2>1
    <3>2. bytes[m].at = n - Len(bytes) + m /\ Fits(bytes[m], msgs, n)
      BY <3>1 DEF Rest
    <3>3. bytes[m].at \in Int /\ bytes[m].at <= n
      BY <1>0, <1>7, <2>0, <2>1, <3>2
    <3>4. Fits(bytes[m], msgs2, n2)
      BY <1>0, <1>4, <3>2, <3>3, FitsMore
    <3>5. calm2 => bytes[m].c # "SP"
      BY <3>1 DEF NoBlank
    <3> QED  BY <1>8, <3>1, <3>2, <3>4, <3>5
  <2>2. CASE ~(m <= Len(bytes))
    <3> DEFINE i == m - Len(bytes)
    <3>1. /\ i \in 1..Len(s) /\ n + i = n2 - Len(bytes2) + m /\ (i = Len(s) => m = Len(bytes2))
          /\ n + i \in Int /\ n + i > n
      BY <1>0, <1>1, <1>3, <1>7, <2>0, <2>2
    <3>2. bytes2[m] = new[i]
      BY <1>7, <2>2
    <3> HIDE DEF i
    <3>3. PICK b : b = new[i]
      OBVIOUS
    <3>4. b.c = s[i] /\ b.at = n + i
      BY <1>6, <3>1, <3>3
    <3>5. /\ FitsMessage(b, call, n) /\ b.c \notin {"NUL", "+CDSI:", "+CUSD:"}
          /\ b.c = "+CMT:" => SmsAt(call, n) /\ b.at = n + 2
          /\ b.c = "SP" => i = Len(s)
      BY <1>2, <3>1, <3>4
    <3>6. b.at \in Int /\ b.at > n
      BY <3>1, <3>4
    <3>7. ASSUME NEW k \in 1..Len(msgs2) PROVE FitsMessage(b, msgs2[k], Begin(msgs2, n2, k))
      <4>1. CASE k \in 1..Len(msgs)
        <5>1. FitsMessage(b, msgs[k], Begin(msgs, n, k))
          BY <1>0, <3>6, <4>1, BehindFits
        <5>2. msgs2[k] = msgs[k] /\ Begin(msgs2, n2, k) = Begin(msgs, n, k)
          BY <1>1, <1>5, <4>1
        <5> QED  BY <5>1, <5>2
      <4>2. CASE k \notin 1..Len(msgs)
        <5>1. k = Len(msgs) + 1
          BY <1>1, <1>5, <4>2
        <5> QED  BY <1>5, <3>5, <5>1
      <4> QED  BY <4>1, <4>2
    <3>8. b.c = "+CMT:" =>
             \E k \in 1..Len(msgs2) :
                SmsAt(msgs2[k], Begin(msgs2, n2, k)) /\ b.at = Begin(msgs2, n2, k) + 2
      <4>1. Len(msgs) + 1 \in 1..Len(msgs2)
        BY <1>1, <1>5
      <4> QED  BY <1>5, <3>5, <4>1
    <3>9. Fits(b, msgs2, n2)
      BY <3>5, <3>7, <3>8 DEF Fits
    <3> QED  BY <3>1, <3>2, <3>3, <3>4, <3>5, <3>9
  <2> QED  BY <2>1, <2>2
<1> QED  BY <1>4, <1>8, <1>9 DEF Rest

-----------------------------------------------------------------------------
(* SentInv is inductive.                                                     *)

\* Only messages that are handed on line by line or in pairs, in one session.
Whole == kinds \cap {"notice", "ussd"} = {} /\ opens = 1

\* Only short messages, each in time.
Calm == kinds \subseteq {"OK", "sms", "prompt"} /\ ~early /\ opens = 1

\* The place of the next byte that is read.
NextByte == arrived + 1 - Len(tty)

\* The bytes that are not read are those of the messages, the reader is on its
\* way to one of them, and what it has handed on are messages.
SentInv ==
    /\ opens \in Nat \ {0}
    /\ Whole =>
          /\ Layout(sent, arrived, kinds)
          /\ \E k \in 1..(Len(sent) + 1) : Passed(handed, sent, Calm, k)
          /\ thread # "closed" =>
                /\ Rest(tty, sent, arrived, Calm)
                /\ Reads(NextByte, sent, arrived, Calm)

\* Nothing is sent at first.
LEMMA SentInit == LineInit => SentInv
<1> SUFFICES ASSUME LineInit PROVE SentInv
  OBVIOUS
<1>1. /\ sent = << >> /\ tty = << >> /\ handed = << >> /\ arrived = 0 /\ kinds = {}
      /\ opens = 1 /\ thread = "loop" /\ line1 = NoLine /\ s_ATBufferCur = 0
      /\ s_ATBuffer = [i \in 0..MAX_AT_RESPONSE |-> NUL]
  BY DEF LineInit
<1>2. Len(sent) = 0 /\ Len(handed) = 0 /\ Len(tty) = 0 /\ NextByte = 1
  BY <1>1 DEF NextByte
<1>3. Layout(sent, arrived, kinds)
  BY <1>2 DEF Layout
<1>4. Passed(handed, sent, Calm, 1)
  BY <1>2 DEF Passed
<1>5. Rest(tty, sent, arrived, Calm)
  BY <1>2 DEF Rest
<1>6. s_ATBuffer[0].c = "NUL" /\ LastByte \in Nat
  BY <1>1, BufferAssumption DEF NUL, LastByte
<1>7. \A i \in 0..(0 - 1) : FALSE
  OBVIOUS
<1>8. Window(s_ATBuffer, 0, 0, 1, sent, arrived)
  BY <1>6, <1>7 DEF Window
<1>9. BlankLast(s_ATBuffer, 0, 0)
  BY <1>7 DEF BlankLast
<1>10. Goal(sent, arrived, 1, NoLine) = 2
  BY <1>1, <1>2 DEF Goal, Begin
<1>11. Aim(0, 0, 1, 2)
  BY DEF Aim
<1>12. Sound(s_ATBuffer, s_ATBufferCur, 0, NextByte, sent, arrived, Calm, 1, line1)
  BY <1>1, <1>2, <1>8, <1>9, <1>10, <1>11 DEF Sound, Keeps
<1>13. Reads(NextByte, sent, arrived, Calm)
  BY <1>1, <1>4, <1>12 DEF Reads, Reading
<1> QED  BY <1>1, <1>2, <1>3, <1>4, <1>5, <1>13 DEF SentInv

\* What the state says of what was sent.
LEMMA SentFacts ==
    ASSUME LineInv, SentInv, Whole
    PROVE  /\ Known(NextByte, sent, arrived, kinds, Calm)
           /\ sent \in Seq(Call) /\ handed \in Seq(Call) /\ tty \in Seq(Byte)
           /\ arrived \in Nat
<1>1. /\ sent \in Seq(Call) /\ handed \in Seq(Call) /\ tty \in Seq(Byte)
      /\ arrived \in Nat
  BY CallType DEF LineInv, LineTypeOK
<1>2. NextByte \in Int /\ NextByte <= arrived + 1
  BY <1>1 DEF NextByte
<1>3. Calm \in BOOLEAN
  BY Zenon DEF Calm
<1>4. Calm => "long" \notin kinds
  BY DEF Calm
<1> QED  BY <1>1, <1>2, <1>3, <1>4 DEF SentInv, Known

\* A step of the reader that leaves the modem alone.
LEMMA SentReader ==
    ASSUME LineInv, SentInv, MAX_AT_RESPONSE >= 3, thread # "closed",
           \/ Readline
           \/ \E count \in 1..Len(tty) : Read(count)
    PROVE  SentInv'
<1>1. UNCHANGED <<opens, arrived, sent, kinds, early>>
  BY DEF Readline, ReadlineEmpty, ReadlineBuffered, ReadlineBeyond, BeginEmpty, Read, modemVars
<1>2. PICK msgs, n, ks, calm, next :
         msgs = sent /\ n = arrived /\ ks = kinds /\ calm = Calm /\ next = NextByte
  OBVIOUS
<1>3. msgs = sent' /\ n = arrived' /\ ks = kinds' /\ calm = Calm' /\ Whole' = Whole
  BY <1>1, <1>2 DEF Calm, Whole
<1>4. opens' \in Nat \ {0}
  BY <1>1 DEF SentInv
<1>5. ASSUME Whole, NEW next2, next2 = NextByte', Reads(next2, msgs, n, calm)',
             Rest(tty', msgs, n, calm)
      PROVE  SentInv'
  <2>1. Layout(msgs, n, ks)
    BY <1>2, <1>5 DEF SentInv
  <2>2. PICK end, k : Reading(end, k, next2, msgs, n, calm)'
    BY <1>5 DEF Reads
  <2>3. k \in 1..(Len(msgs) + 1) /\ Passed(handed', msgs, calm, k)
    BY <2>2 DEF Reading, Sound
  <2>4. Reading(end, k, NextByte, sent, arrived, Calm)'
    BY <1>3, <1>5, <2>2 DEF Reading
  <2>5. Reads(NextByte, sent, arrived, Calm)'
    BY <2>4 DEF Reads
  <2> QED  BY <1>3, <1>4, <1>5, <2>1, <2>3, <2>5 DEF SentInv
<1>6. ASSUME Whole
      PROVE  /\ Known(next, msgs, n, ks, calm) /\ tty \in Seq(Byte) /\ Reads(next, msgs, n, calm)
             /\ Rest(tty, msgs, n, calm) /\ n \in Nat /\ next = n + 1 - Len(tty)
  <2>1. Reads(NextByte, sent, arrived, Calm) /\ Rest(tty, sent, arrived, Calm)
    BY <1>6 DEF SentInv
  <2>2. Known(NextByte, sent, arrived, kinds, Calm) /\ tty \in Seq(Byte) /\ arrived \in Nat
    BY <1>6, SentFacts
  <2> QED  BY <1>2, <2>1, <2>2 DEF NextByte
<1>7. CASE ~Whole
  BY <1>3, <1>4, <1>7 DEF SentInv
<1>8. CASE Whole /\ Readline
  <2>1. tty' = tty
    BY <1>8 DEF Readline, ReadlineEmpty, ReadlineBuffered, ReadlineBeyond, BeginEmpty, modemVars
  <2>2. NextByte' = next
    BY <1>3, <1>6, <1>8, <2>1 DEF NextByte
  <2>3. Reads(next, msgs, n, calm)'
    BY <1>6, <1>8, ReadsReadline
  <2> QED  BY <1>5, <1>6, <1>8, <2>1, <2>2, <2>3
<1>9. CASE Whole /\ \E count \in 1..Len(tty) : Read(count)
  <2>1. PICK count \in 1..Len(tty) : Read(count)
    BY <1>9
  <2>2. PICK bytes, left : bytes = tty /\ left = tty'
    OBVIOUS
  <2>3. left = SubSeq(bytes, count + 1, Len(bytes))
    BY <2>1, <2>2 DEF Read
  <2>4. Rest(left, msgs, n, calm) /\ Len(left) = Len(bytes) - count
    <3>1. bytes \in Seq(Byte) /\ n \in Nat /\ Rest(bytes, msgs, n, calm) /\ count \in 1..Len(bytes)
      BY <1>6, <1>9, <2>2
    <3>2. /\ Rest(SubSeq(bytes, count + 1, Len(bytes)), msgs, n, calm)
          /\ Len(SubSeq(bytes, count + 1, Len(bytes))) = Len(bytes) - count
      BY <3>1, RestRead
    <3> QED  BY <2>3, <3>2
  <2>5. NextByte' = next + count
    <3>1. NextByte' = n + 1 - Len(left)
      BY <1>3, <2>2 DEF NextByte
    <3>2. Len(bytes) \in Int /\ count \in Int
      BY <1>6, <1>9, <2>2
    <3>3. next = n + 1 - Len(bytes)
      BY <1>6, <1>9, <2>2
    <3> QED  BY <1>6, <1>9, <2>4, <3>1, <3>2, <3>3
  <2>6. Reads(next + count, msgs, n, calm)'
    BY <1>6, <1>9, <2>1, ReadsRead
  <2>7. PICK next2 : next2 = next + count
    OBVIOUS
  <2> QED  BY <1>5, <1>9, <2>2, <2>4, <2>5, <2>6, <2>7
<1> QED  BY <1>7, <1>8, <1>9

\* A message is sent.
LEMMA SentSend ==
    ASSUME LineInv, SentInv, MAX_AT_RESPONSE >= 3, NEW kind \in Sendable, Send(kind)
    PROVE  SentInv'
<1>1. /\ thread # "closed" /\ tty' = tty \o Bytes(Stream(kind), arrived)
      /\ arrived' = arrived + Len(Stream(kind))
      /\ sent' = Append(sent, Meant(kind, arrived)) /\ kinds' = kinds \cup {kind}
      /\ UNCHANGED <<s_ATBuffer, s_ATBufferCur, p_read, thread, line1, opens, handed>>
  BY DEF Send, bufferVars
<1>2. ~early' => ~early /\ \A i \in 1..Len(tty) : tty[i].c # "SP"
  <2>1. DOMAIN tty = 1..Len(tty)
    BY DEF LineInv, LineTypeOK
  <2>2. early' = (early \/ \E i \in DOMAIN tty : tty[i].c = ">" \/ tty[i].c = "SP")
    BY DEF Send
  <2> QED  BY <2>1, <2>2
<1>3. CASE ~Whole'
  <2>1. opens' \in Nat \ {0}
    BY <1>1 DEF SentInv
  <2> QED  BY <1>3, <2>1 DEF SentInv
<1>4. CASE Whole'
  <2>1. Whole /\ kind \notin {"notice", "ussd"}
    BY <1>1, <1>4 DEF Whole
  <2>2. PICK msgs, n, ks, calm, next, bytes :
           /\ msgs = sent /\ n = arrived /\ ks = kinds /\ calm = Calm /\ next = NextByte
           /\ bytes = tty
    OBVIOUS
  <2>3. PICK msgs2, n2, ks2, calm2, bytes2 :
           /\ msgs2 = sent' /\ n2 = arrived' /\ ks2 = kinds' /\ calm2 = Calm' /\ bytes2 = tty'
    OBVIOUS
  <2>4. /\ Known(next, msgs, n, ks, calm) /\ msgs \in Seq(Call) /\ handed \in Seq(Call)
        /\ bytes \in Seq(Byte) /\ n \in Nat
    BY <2>1, <2>2, SentFacts
  <2>5. /\ Layout(msgs, n, ks) /\ Rest(bytes, msgs, n, calm) /\ Reads(next, msgs, n, calm)
    BY <1>1, <2>1, <2>2 DEF SentInv
  <2>6. Adds(kind, msgs, n, ks, bytes, msgs2, n2, ks2, bytes2)
    BY <1>1, <2>2, <2>3 DEF Adds
  <2>7. calm2 => calm /\ \A i \in 1..Len(bytes) : bytes[i].c # "SP"
    BY <1>1, <1>2, <2>2, <2>3 DEF Calm
  <2>8. /\ More(msgs, n, ks, msgs2, n2, ks2) /\ Rest(bytes2, msgs2, n2, calm2)
        /\ n2 - Len(bytes2) = n - Len(bytes)
    <3>1. calm2 => NoBlank(bytes)
      BY <2>7 DEF NoBlank
    <3>2. kind \notin {"notice", "ussd"} /\ bytes \in Seq(Byte) /\ Rest(bytes, msgs, n, calm)
      BY <2>1, <2>4, <2>5
    <3>3. Adding(kind, next, msgs, n, ks, bytes, calm, msgs2, n2, ks2, bytes2, calm2)
      BY <2>4, <2>6, <3>1, <3>2 DEF Adding
    <3> QED  BY <3>3, RestMore
  <2>9. Layout(msgs2, n2, ks2)
    BY <2>4, <2>5, <2>8, LayoutMore
  <2>10. PICK end, k : Reading(end, k, next, msgs, n, calm)
    BY <2>5 DEF Reads
  <2>11. PICK first, buf, cur : first = line1 /\ buf = s_ATBuffer /\ cur = s_ATBufferCur
    OBVIOUS
  <2>12. /\ Sound(buf, cur, end, next, msgs, n, calm, k, first) /\ k \in 1..(Len(msgs) + 1)
         /\ Passed(handed, msgs, calm, k)
    BY <2>10, <2>11 DEF Reading, Sound
  <2>13. /\ Sound(buf, cur, end, next, msgs2, n2, calm2, k, first)
         /\ Goal(msgs2, n2, k, first) = Goal(msgs, n, k, first)
    BY <2>4, <2>7, <2>8, <2>12, SoundMore
  <2>14. Passed(handed, msgs2, calm2, k)
    BY <2>4, <2>7, <2>8, <2>12, PassedMore
  <2>15. NextByte' = next
    <3>1. Len(bytes2) \in Int /\ Len(bytes) \in Int /\ n2 \in Int
      <4>1. bytes2 \in Seq(Byte) /\ n2 \in Nat
        <5>1. LineInv'
          BY LineSend
        <5> QED  BY <2>3, <5>1 DEF LineInv, LineTypeOK
      <4> QED  BY <2>4, <4>1
    <3>2. NextByte' = n2 + 1 - Len(bytes2) /\ next = n + 1 - Len(bytes)
      BY <2>2, <2>3 DEF NextByte
    <3> QED  BY <2>4, <2>8, <3>1, <3>2
  <2>16. Reading(end, k, next, msgs2, n2, calm2)'
    <3>1. thread = "read" => end = p_read /\ Waits(end, next, msgs2, n2, calm2, k, first)
      BY <2>7, <2>10, <2>11, <2>13 DEF Reading, Waits
    <3> QED  BY <1>1, <2>11, <2>13, <2>14, <3>1 DEF Reading
  <2>17. Reads(NextByte, sent, arrived, Calm)'
    <3>1. Reading(end, k, NextByte, sent, arrived, Calm)'
      BY <2>3, <2>15, <2>16 DEF Reading
    <3> QED  BY <3>1 DEF Reads
  <2>18. k \in 1..(Len(msgs2) + 1)
    BY <2>13 DEF Sound
  <2>19. opens' \in Nat \ {0}
    BY <1>1 DEF SentInv
  <2> QED  BY <1>1, <2>3, <2>8, <2>9, <2>14, <2>17, <2>18, <2>19 DEF SentInv
<1> QED  BY <1>3, <1>4

\* A session ends, and another begins.
LEMMA SentSession ==
    ASSUME LineInv, SentInv, ReadFails \/ at_open
    PROVE  SentInv'
<1>1. CASE ReadFails
  <2>1. UNCHANGED <<opens, arrived, sent, kinds, early, handed>> /\ thread' = "closed"
    BY <1>1 DEF ReadFails
  <2> QED  BY <2>1 DEF SentInv, Whole, Calm
<1>2. CASE at_open
  <2>1. opens' = opens + 1 /\ opens \in Nat \ {0}
    BY <1>2 DEF at_open, SentInv
  <2>2. opens' \in Nat \ {0} /\ opens' # 1
    BY <2>1
  <2> QED  BY <2>2 DEF SentInv, Whole
<1> QED  BY <1>1, <1>2

\* Every step keeps SentInv.
LEMMA SentNext ==
    ASSUME LineInv, SentInv, MAX_AT_RESPONSE >= 3, [LineStep]_lineVars
    PROVE  SentInv'
<1>1. CASE UNCHANGED lineVars
  BY <1>1 DEF lineVars, bufferVars, modemVars, SentInv, Whole, Calm, NextByte, Reads, Reading
<1>2. CASE Readline
  <2>1. thread # "closed"
    BY <1>2 DEF Readline, ReadlineEmpty, ReadlineBuffered, ReadlineBeyond
  <2> QED  BY <1>2, <2>1, SentReader
<1>3. CASE \E count \in 1..Len(tty) : Read(count)
  <2>1. thread # "closed"
    BY <1>3 DEF Read
  <2> QED  BY <1>3, <2>1, SentReader
<1>4. CASE ReadFails \/ at_open
  BY <1>4, SentSession
<1>5. CASE \E kind \in Sendable : Send(kind)
  BY <1>5, SentSend
<1> QED  BY <1>1, <1>2, <1>3, <1>4, <1>5 DEF LineStep

\* ... and so it always holds, in a buffer of three bytes or more.
LEMMA SentInvariant ==
    ASSUME MAX_AT_RESPONSE >= 3
    PROVE  LineSpec => [](LineInv /\ SentInv)
<1>1. LineInv /\ SentInv /\ [LineStep]_lineVars => LineInv' /\ SentInv'
  BY LineNext, SentNext
<1>2. LineInit => LineInv /\ SentInv
  BY InitLine, SentInit
<1> QED  BY <1>1, <1>2, PTL DEF LineSpec

\* The reader waits with nothing to read only behind the last message.
LEMMA NothingWaits ==
    ASSUME LineInv, SentInv, Calm, thread = "read", tty = << >>
    PROVE  handed = sent
<1>1. Whole
  BY DEF Calm, Whole, LineInv, LineTypeOK
<1>2. /\ Known(NextByte, sent, arrived, kinds, Calm) /\ Reads(NextByte, sent, arrived, Calm)
      /\ sent \in Seq(Call) /\ handed \in Seq(Call) /\ arrived \in Nat
  BY <1>1, SentFacts DEF SentInv
<1>3. PICK end, k : Reading(end, k, NextByte, sent, arrived, Calm)
  BY <1>2 DEF Reads
<1>4. PICK msgs, n, first, ks : msgs = sent /\ n = arrived /\ first = line1 /\ ks = kinds
  OBVIOUS
<1>5. /\ k \in 1..(Len(msgs) + 1) /\ Keeps(msgs, n, k, first) /\ Layout(msgs, n, ks)
      /\ "long" \notin ks /\ msgs \in Seq(Call) /\ n \in Nat
      /\ k = Len(handed) + 1 /\ \A i \in 1..Len(handed) : handed[i] = msgs[i]
  BY <1>2, <1>3, <1>4 DEF Reading, Sound, Passed, Known
<1> DEFINE goal == Goal(msgs, n, k, first)
<1>6. n <= goal
  <2>1. Near(end, NextByte, goal)
    BY <1>3, <1>4 DEF Reading, Waits
  <2>2. NextByte = n + 1
    BY <1>2, <1>4 DEF NextByte
  <2>3. goal \in Int
    BY <1>5, AwaitedFacts
  <2> HIDE DEF goal
  <2> QED  BY <1>5, <2>1, <2>2, <2>3 DEF Near
<1>7. k = Len(msgs) + 1
  <2> SUFFICES ASSUME k \in 1..Len(msgs) PROVE FALSE
    BY <1>5
  <2> DEFINE o == Begin(msgs, n, k)
             q == Begin(msgs, n, k + 1)
  <2>1. o \in Nat /\ q \in Nat /\ q <= n /\ Message(msgs[k], o, q, ks)
    BY <1>5 DEF Layout
  <2>2. first # NoLine => SmsAt(msgs[k], o)
    BY <1>5 DEF Keeps
  <2>3. goal = o + (IF first = NoLine THEN 2 ELSE 5)
    BY DEF Goal
  <2> HIDE DEF o, q, goal
  <2>4. q >= o + 3 /\ (SmsAt(msgs[k], o) => q = o + 6)
    <3>1. SmsAt(msgs[k], o) => msgs[k].second # NoLine
      BY DEF SmsAt, Handed, NoLine
    <3> QED  BY <1>5, <2>1, <3>1 DEF Message, OKAt, PromptAt, Handed
  <2> QED  BY <1>5, <1>6, <2>1, <2>2, <2>3, <2>4
<1>8. Len(handed) = Len(msgs) /\ \A i \in 1..Len(handed) : handed[i] = msgs[i]
  BY <1>2, <1>5, <1>7
<1> QED  BY <1>2, <1>4, <1>8, SeqEqual

\* Complete lines are handed on as they were sent.
LEMMA AsSent == LineInv /\ SentInv => LinesAsSent
<1> SUFFICES ASSUME LineInv, SentInv, Calm
             PROVE  /\ Len(handed) <= Len(sent) /\ handed = SubSeq(sent, 1, Len(handed))
                    /\ thread = "read" /\ tty = << >> => handed = sent
  BY DEF LinesAsSent, Calm
<1>1. Whole
  BY DEF Calm, Whole, LineInv, LineTypeOK
<1>2. sent \in Seq(Call) /\ handed \in Seq(Call)
  BY <1>1, SentFacts
<1>3. PICK k \in 1..(Len(sent) + 1) : Passed(handed, sent, Calm, k)
  BY <1>1 DEF SentInv
<1>4. k = Len(handed) + 1 /\ \A i \in 1..Len(handed) : handed[i] = sent[i]
  BY <1>3 DEF Passed
<1>5. Len(handed) <= Len(sent) /\ Len(handed) \in Nat /\ Len(sent) \in Nat
  BY <1>2, <1>3, <1>4
<1>6. handed = SubSeq(sent, 1, Len(handed))
  <2> DEFINE part == SubSeq(sent, 1, Len(handed))
  <2>1. \A i \in 1..Len(handed) : sent[i] \in Call
    BY <1>2, <1>5
  <2>2. /\ part \in Seq(Call) /\ Len(part) = Len(handed)
        /\ \A i \in 1..Len(handed) : part[i] = sent[i]
    BY <1>2, <1>5
  <2> HIDE DEF part
  <2>3. handed = part
    BY <1>2, <1>4, <2>2, SeqEqual
  <2> QED  BY <2>3 DEF part
<1> QED  BY <1>5, <1>6, NothingWaits

-----------------------------------------------------------------------------
(* The lines of a short message.                                             *)

\* Lines hold bytes: a line that readline returns, in readerLoop.
LEMMA ReturnedLine ==
    ASSUME NEW buf \in Buffers, NEW cur \in 0..LastByte, buf[cur].c # "NL",
           NEW eol, eol # NULL,
           \/ eol = findNextEOL(buf, cur)
           \/ eol = processUSSD(buf, cur),
           line1 \in Seq(Byte), handed \in Seq(Call), ReturnLine(buf, cur, eol)
    PROVE  \E line \in Seq(Byte) \ {NoLine} : Dispatch(line)
<1>1. eol \in (cur + 1)..LastByte
  BY ReturnInBounds
<1>2. String(buf, cur, eol) \in Seq(Byte) /\ String(buf, cur, eol) # << >>
  BY <1>1, StringFacts
<1>3. Dispatch(String(buf, cur, eol))
  BY DEF ReturnLine
<1> QED  BY <1>2, <1>3 DEF NoLine

\* A step of the reader hands on a line that is not empty, or none.
LEMMA Dispatches ==
    ASSUME LineInv, [LineStep]_lineVars
    PROVE  \/ UNCHANGED <<line1, handed>>
           \/ line1' = NoLine /\ UNCHANGED handed
           \/ \E line \in Seq(Byte) \ {NoLine} : Dispatch(line)
<1>1. CASE UNCHANGED lineVars
  BY <1>1 DEF lineVars
<1>2. CASE ReadlineEmpty \/ ReadlineBeyond \/ ReadFails \/ at_open
  BY <1>2 DEF ReadlineEmpty, ReadlineBeyond, BeginEmpty, ReadFails, at_open
<1>3. CASE \E kind \in Sendable : Send(kind)
  BY <1>3 DEF Send
<1>4. CASE ReadlineBuffered
  <2> DEFINE cur == SkipNewlines(s_ATBuffer, s_ATBufferCur)
             eol == findNextEOL(s_ATBuffer, cur)
  <2>1. /\ s_ATBuffer \in Buffers /\ LastByte \in Nat \ {0} /\ s_ATBufferCur \in 0..LastByte
        /\ line1 \in Seq(Byte) /\ handed \in Seq(Call)
    BY <1>4, BufferFacts DEF LineInv, LineTypeOK, ReadlineBuffered, LastByte
  <2>2. LastByte \in s_ATBufferCur..LastByte /\ s_ATBuffer[LastByte].c = "NUL"
    BY <2>1 DEF Buffers
  <2>3. cur \in s_ATBufferCur..LastByte /\ s_ATBuffer[cur].c # "NL"
    BY <2>1, <2>2, SkipFacts
  <2>4. eol = NULL => UNCHANGED <<line1, handed>>
    BY <1>4 DEF ReadlineBuffered
  <2>5. eol # NULL => ReturnLine(s_ATBuffer, cur, eol)
    BY <1>4 DEF ReadlineBuffered
  <2>6. cur \in 0..LastByte
    BY <2>1, <2>3
  <2> HIDE DEF cur
  <2> QED  BY <2>1, <2>3, <2>4, <2>5, <2>6, ReturnedLine
<1>5. CASE \E count \in 1..Len(tty) : Read(count)
  <2>1. PICK count \in 1..Len(tty) : Read(count)
    BY <1>5
  <2> DEFINE place == StartOfRead(p_read)
             buf == AfterRead(place, count)
             start == StartOfRead(s_ATBufferCur)
             cur == SkipNewlines(buf, start)
             ussd == processUSSD(buf, cur)
             eol == IF ussd # NULL THEN ussd ELSE findNextEOL(buf, cur)
  <2>2. /\ LastByte \in Nat \ {0} /\ LineTypeOK /\ s_ATBufferCur \in 0..LastByte
        /\ line1 \in Seq(Byte) /\ handed \in Seq(Call)
    BY <2>1, BufferFacts DEF LineInv, LineTypeOK, Read, LastByte
  <2>3. count <= MAX_AT_RESPONSE - place
    BY <2>1 DEF Read
  <2>4. buf \in Buffers
    BY <2>3, AfterReadFacts
  <2>5. start \in 0..LastByte
    BY <2>2, BeforeReadFacts
  <2>6. eol = NULL => UNCHANGED <<line1, handed>>
    BY <2>1 DEF Read
  <2>7. eol # NULL => ReturnLine(buf, cur, eol)
    BY <2>1 DEF Read
  <2> HIDE DEF place, buf, start
  <2>8. LastByte \in start..LastByte /\ buf[LastByte].c = "NUL"
    BY <2>2, <2>4, <2>5 DEF Buffers
  <2>9. cur \in start..LastByte /\ buf[cur].c # "NL"
    BY <2>4, <2>5, <2>8, SkipFacts
  <2>10. cur \in 0..LastByte
    BY <2>2, <2>5, <2>9
  <2>11. eol = findNextEOL(buf, cur) \/ eol = processUSSD(buf, cur)
    OBVIOUS
  <2> HIDE DEF cur, eol
  <2> QED  BY <2>2, <2>4, <2>6, <2>7, <2>9, <2>10, <2>11, ReturnedLine
<1> QED  BY <1>1, <1>2, <1>3, <1>4, <1>5 DEF LineStep, Readline

\* A line that is kept is the first of two, and one that is handed on alone is not.
PairInv ==
    /\ line1 # NoLine => isSMSUnsolicited(line1)
    /\ \A i \in 1..Len(handed) :
          /\ handed[i].first # NoLine
          /\ handed[i].second = NoLine => ~isSMSUnsolicited(handed[i].first)

\* PairInv is inductive.
LEMMA PairInit == LineInit => PairInv
BY DEF LineInit, PairInv

\* ... as every line goes through readerLoop.
LEMMA PairNext ==
    ASSUME LineInv, PairInv, [LineStep]_lineVars
    PROVE  PairInv'
<1>1. CASE UNCHANGED <<line1, handed>> \/ (line1' = NoLine /\ UNCHANGED handed)
  BY <1>1 DEF PairInv, isSMSUnsolicited
<1>2. CASE \E line \in Seq(Byte) \ {NoLine} : Dispatch(line)
  <2>1. PICK line \in Seq(Byte) \ {NoLine} : Dispatch(line)
    BY <1>2
  <2>2. handed \in Seq(Call) /\ line1 \in Seq(Byte)
    BY BufferFacts
  <2>3. ASSUME NEW call \in Call, handed' = Append(handed, call), call.first # NoLine,
               call.second = NoLine => ~isSMSUnsolicited(call.first),
               line1' = NoLine
        PROVE  PairInv'
    <3>1. \A i \in 1..Len(handed') :
             handed'[i] = call \/ (i \in 1..Len(handed) /\ handed'[i] = handed[i])
      BY <2>2, <2>3
    <3> QED  BY <2>3, <3>1 DEF PairInv, isSMSUnsolicited
  <2>4. CASE line1 # NoLine
    <3>1. /\ handed' = Append(handed, Handed(line1, line)) /\ line1' = NoLine
          /\ Handed(line1, line) \in Call
          /\ Handed(line1, line).first = line1 /\ Handed(line1, line).second = line
      BY <2>1, <2>2, <2>4 DEF Dispatch, Handed, Call
    <3> QED  BY <2>1, <2>3, <2>4, <3>1
  <2>5. CASE line1 = NoLine /\ isSMSUnsolicited(line)
    BY <2>1, <2>5 DEF Dispatch, PairInv, isSMSUnsolicited
  <2>6. CASE line1 = NoLine /\ ~isSMSUnsolicited(line)
    <3>1. /\ handed' = Append(handed, Handed(line, NoLine)) /\ line1' = NoLine
          /\ Handed(line, NoLine) \in Call
          /\ Handed(line, NoLine).first = line /\ Handed(line, NoLine).second = NoLine
      BY <2>1, <2>6 DEF Dispatch, Handed, Call, NoLine
    <3> QED  BY <2>1, <2>3, <2>6, <3>1
  <2> QED  BY <2>4, <2>5, <2>6
<1> QED  BY <1>1, <1>2, Dispatches

\* ... and so it always holds.
LEMMA PairInvariant == LineSpec => []PairInv
<1>1. LineInv /\ PairInv /\ [LineStep]_lineVars => PairInv'
  BY PairNext
<1> QED  BY <1>1, PairInit, LineInvariant, PTL DEF LineSpec

\* onNewMessageOrStatus is registered for prefixes that readerLoop takes for the
\* first line of two, of those that a byte of the model stands for: sxx-ril-message.c
\* registers it for +CMT:, +CDS: and +CMGR:, all of which isSMSUnsolicited knows.
SmsPrefixes ==
    /\ "onNewMessageOrStatus" \in HandlerNames
    /\ \A item \in UnsolicitedItems :
          item.handler = "onNewMessageOrStatus" /\ item.key \in Classes =>
             item.key \in {"+CMT:", "+CDSI:"}

\* The lookup finds a handler only under the prefix it was registered for.
LEMMA HandlerRegistered ==
    ASSUME BootInv, NEW key, NEW h \in HandlerNames, process_unsolicited(key) = h
    PROVE  \E item \in UnsolicitedItems : item.key = key /\ item.handler = h
<1> DEFINE items == unsolicited_items
           found == {i \in Slot(items, key) : items[i].key = key}
<1>1. h # NoHandler
  BY ItemAssumption
<1>2. found # {} /\ items[CHOOSE i \in found : TRUE].handler = h
  BY <1>1 DEF process_unsolicited, Handler
<1>3. PICK i \in found : items[i].handler = h
  BY <1>2
<1>4. items \in Table(RIL_MAX_UNSOLICITED, Prefixes) /\ DOMAIN items = 1..RIL_MAX_UNSOLICITED
  BY DEF BootInv, BootTypeOK, Table
<1>5. i \in DOMAIN items /\ items[i].key = key
  BY DEF Slot
<1>6. items[i] \in Item(Prefixes) \cup {Empty}
  BY <1>4, <1>5 DEF Table
<1>7. items[i] # Empty
  BY <1>1, <1>3 DEF Empty
<1>8. items[i].key # NoKey
  BY <1>6, <1>7, KeyAssumption DEF Item
<1>9. items[i] \in UnsolicitedItems
  BY <1>5, <1>8 DEF BootInv, TableInv, FromDone
<1> QED  BY <1>3, <1>5, <1>9

\* The handler of a short message has its PDU, the one that came with its header.
LEMMA PduFound ==
    ASSUME SmsPrefixes, BootInv, LineInv, SentInv, PairInv
    PROVE  PduOfItsHeader
<1> SUFFICES ASSUME NEW i \in DOMAIN handed, HandlerOf(handed[i]) = "onNewMessageOrStatus"
             PROVE  /\ handed[i].second # NoLine
                    /\ Whole => \E k \in DOMAIN sent : sent[k] = handed[i]
  BY DEF PduOfItsHeader, Whole
<1>1. /\ handed \in Seq(Call) /\ sent \in Seq(Call)
      /\ DOMAIN handed = 1..Len(handed) /\ DOMAIN sent = 1..Len(sent)
  <2>1. handed \in Seq(Call) /\ sent \in Seq(Call)
    BY CallType DEF LineInv
  <2> QED  BY <2>1
<1>2. PICK call \in Call : call = handed[i]
  BY <1>1
<1>3. call.first # NoLine /\ (call.second = NoLine => ~isSMSUnsolicited(call.first))
  BY <1>1, <1>2 DEF PairInv
<1>4. call.first[1].c \in Classes
  <2>1. call.first \in Seq(Byte) /\ call.first # << >>
    BY <1>3 DEF Call, NoLine
  <2>2. call.first[1] \in Byte
    BY <2>1
  <2> QED  BY <2>2 DEF Byte
<1>5. PICK item \in UnsolicitedItems :
         item.key = call.first[1].c /\ item.handler = "onNewMessageOrStatus"
  BY <1>2, HandlerRegistered DEF SmsPrefixes, HandlerOf
<1>6. call.second # NoLine
  BY <1>3, <1>4, <1>5 DEF SmsPrefixes, isSMSUnsolicited
<1>7. ASSUME Whole
      PROVE  \E k \in DOMAIN sent : sent[k] = call
  <2>1. PICK k \in 1..(Len(sent) + 1) : Passed(handed, sent, Calm, k)
    BY <1>7 DEF SentInv
  <2> QED  BY <1>1, <1>2, <1>6, <2>1 DEF Passed
<1> QED  BY <1>2, <1>6, <1>7

-----------------------------------------------------------------------------
\* In a buffer of three bytes or more, however the bytes are cut into reads:
\* complete lines are handed on as they were sent and in order, and none is held
\* back while readline waits.  The code's buffer has 8 * 1024 bytes; one of two has
\* no room for a line of one byte between its newlines, and TLC finds it lost.
THEOREM LinesTheorem ==
    ASSUME MAX_AT_RESPONSE >= 3
    PROVE  Spec => []LinesAsSent
<1>1. LineSpec => [](LineInv /\ SentInv)
  BY SentInvariant
<1> QED  BY <1>1, AsSent, Composed, PTL

\* Whatever files register and in whatever order, and however the bytes are cut
\* into reads: onNewMessageOrStatus is called with a PDU, and in a session without
\* one-line notices and USSD messages with the one that came behind its header.
THEOREM PduTheorem ==
    ASSUME MAX_AT_RESPONSE >= 3, SmsPrefixes
    PROVE  Spec => []PduOfItsHeader
<1>1. LineSpec => [](LineInv /\ SentInv)
  BY SentInvariant
<1>2. BootInv /\ LineInv /\ SentInv /\ PairInv => PduOfItsHeader
  BY PduFound
<1> QED  BY <1>1, <1>2, PairInvariant, BootInvariant, Composed, PTL
===============================================================================

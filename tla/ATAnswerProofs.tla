---------------------------- MODULE ATAnswerProofs ----------------------------
(* Theorems about ATChannel: that the answer a caller gets is the whole of   *)
(* it, in order, for any threads, commands and sessions, whatever times out. *)
EXTENDS ATChannelProofs

-----------------------------------------------------------------------------
(* The inductive invariant.                                                  *)

\* The lines on their way to the pending command: 0 is the line processLine has
\* in its hands, the others are still on the wire.
Places == (IF reader.at = "process" THEN {0} ELSE {}) \cup DOMAIN wire

LineAt(p) == IF p = 0 THEN reader.line ELSE wire[p]

Final(line) == isFinalResponseSuccess(line) \/ isFinalResponseError(line)
Info(line)  == line.kind \in {"info", "digits"}

Solicited(line) == ~isUnsolicited(line) /\ line.kind \notin {"+CMT", "PDU"}

\* Commands have their own numbers, and the lines the modem sends of its own
\* accord have none.
NumberInv ==
    /\ \A p \in Places : LineAt(p).id <= sent
    /\ \A p \in Places : LineAt(p).id # 0 => Solicited(LineAt(p))
    /\ \A i \in DOMAIN modem : modem[i].id # 0 /\ modem[i].id <= sent
    /\ \A i, j \in DOMAIN modem : modem[i].id = modem[j].id => i = j

\* A line that readerLoop takes for the second of a short message is one.
PairInv ==
    /\ \A i \in DOMAIN wire :
          wire[i].kind = "+CMT" => i + 1 \in DOMAIN wire /\ wire[i + 1].kind = "PDU"
    /\ reader.at = "read2" => 1 \in DOMAIN wire /\ wire[1].kind = "PDU"

\* The pending command, while the modem works on it ...
Mine(line) == line.id = sp_response.id

EntryInv ==
    \A i \in DOMAIN modem : modem[i].id = sp_response.id =>
       /\ modem[i].cmd.type = s_type /\ modem[i].cmd.prefix = s_responsePrefix
       /\ ~Mine(sp_response.finalResponse)
       /\ \A p \in Places : Mine(LineAt(p)) =>
             ~Final(LineAt(p)) /\ (Info(LineAt(p)) => LineAt(p).n <= modem[i].infos)

\* ... and while its answer is on its way: in order, and the final line last.
ArrivalInv ==
    \A p \in Places : Mine(LineAt(p)) =>
       /\ ~Mine(sp_response.finalResponse)
       /\ Info(LineAt(p)) => /\ LineAt(p).kind = IF s_type = "NUMERIC" THEN "digits" ELSE "info"
                             /\ LineAt(p).prefix = s_responsePrefix
       /\ \A q \in Places : p < q /\ Mine(LineAt(q)) =>
             /\ ~Final(LineAt(p))
             /\ Info(LineAt(p)) /\ Info(LineAt(q)) => LineAt(p).n < LineAt(q).n

\* Its intermediate lines: those processLine has taken, and those still to come.
Kept   == {i \in DOMAIN sp_response.p_intermediates : Mine(sp_response.p_intermediates[i])}
Coming == {p \in Places : Mine(LineAt(p)) /\ Info(LineAt(p))}

KeptNumbers   == {sp_response.p_intermediates[i].n : i \in Kept}
ComingNumbers == {LineAt(p).n : p \in Coming}

\* So many intermediate lines the modem has sent.
Said(n) ==
    \/ \E i \in DOMAIN modem : modem[i].id = sp_response.id /\ modem[i].infos = n
    \/ \E p \in Places : Mine(LineAt(p)) /\ Final(LineAt(p)) /\ LineAt(p).n = n
    \/ Mine(sp_response.finalResponse) /\ sp_response.finalResponse.n = n

\* They have all been taken or are still to come, as far as the type of the
\* command asks for them; what has been taken is in reverse order.
AllLines(n) ==
    /\ KeptNumbers \cup ComingNumbers = 1..n
    /\ \A i, j \in Kept : i < j =>
          sp_response.p_intermediates[j].n < sp_response.p_intermediates[i].n
    /\ \A i \in Kept, p \in Coming : sp_response.p_intermediates[i].n < LineAt(p).n

FirstLine(n) ==
    /\ Len(sp_response.p_intermediates) <= 1
    /\ \A i \in Kept : sp_response.p_intermediates[i].n = 1
    /\ sp_response.p_intermediates = <<>> => ComingNumbers = 1..n

Whole(n) ==
    /\ s_type = "NO_RESULT" => sp_response.p_intermediates = <<>>
    /\ s_type = "MULTILINE" => AllLines(n)
    /\ s_type \in {"SINGLELINE", "NUMERIC"} => FirstLine(n)

WholeInv == \A n \in Nat : Said(n) => Whole(n)

\* The waiter asked for what the reader collects.
WaiterInv ==
    \A t \in Threads : sp_response.owner = t => s_type = call[t].type

PendingInv == EntryInv /\ ArrivalInv /\ WholeInv

Traffic ==
    /\ NumberInv /\ PairInv
    /\ sp_response.id <= sent
    /\ sp_response # NULL => sp_response.id # 0
    /\ sp_response.id # 0 => PendingInv

AnswerInv ==
    /\ IndInv /\ Traffic
    /\ ~intruded => WaiterInv /\ CompleteAnswer
-----------------------------------------------------------------------------
(* The lines on their way.                                                   *)

\* The types the proofs below use.
LEMMA Typed ==
    ASSUME IndInv
    PROVE  /\ wire \in Seq(Line) /\ modem \in Seq(ModemEntry) /\ reader.line \in Line
           /\ sp_response \in Response /\ sp_response.p_intermediates \in Seq(Line)
           /\ sp_response.id \in Nat /\ s_type \in Types /\ sent \in Nat
           /\ \A i \in DOMAIN modem : modem[i] \in ModemEntry /\ modem[i].id \in Nat /\ modem[i].infos \in Nat
<1>1. /\ wire \in Seq(Line) /\ modem \in Seq(ModemEntry) /\ reader.line \in Line
      /\ sp_response \in Response /\ s_type \in Types /\ sent \in Nat
  BY DEF IndInv, TypeOK, ModemTypes, ChannelTypes, PendingTypes, HistoryTypes
<1>2. sp_response.p_intermediates \in Seq(Line) /\ sp_response.id \in Nat
  BY <1>1 DEF Response
<1>3. \A i \in DOMAIN modem : modem[i] \in ModemEntry  BY <1>1
<1>4. \A e \in ModemEntry : e.id \in Nat /\ e.infos \in Nat  BY DEF ModemEntry
<1> QED  BY <1>1, <1>2, <1>3, <1>4

\* Places are numbers, and lines are lines.
LEMMA PlaceFacts ==
    ASSUME IndInv
    PROVE  \A p \in Places : p \in Nat /\ LineAt(p) \in Line /\ LineAt(p).n \in Nat /\ LineAt(p).id \in Nat
<1>0. wire \in Seq(Line) /\ reader.line \in Line  BY Typed
<1>1. \A p \in Places : p \in Nat /\ LineAt(p) \in Line
  BY <1>0 DEF Places, LineAt
<1> QED  BY <1>1 DEF Line

\* An intermediate line ends nothing.
LEMMA InfoNotFinal == \A line : Info(line) => ~Final(line) /\ Solicited(line)
  BY DEF Info, Final, isFinalResponseSuccess, isFinalResponseError, Solicited, isUnsolicited

\* What the pending command has been told need not be kept on the wire.
Satisfied ==
    \/ s_type = "NO_RESULT"
    \/ s_type # "MULTILINE" /\ sp_response.p_intermediates # <<>>

\* Lines that move up by d places, or that come from nowhere but for another
\* command, and intermediate lines that nobody waits for may get lost: all this
\* keeps the invariant of the pending command.
LEMMA MovesKeep ==
    ASSUME IndInv, IndInv', PendingInv, NEW d \in {0, 1},
           UNCHANGED <<sp_response, s_type, s_responsePrefix>>,
           \A p \in Places' : Mine(LineAt(p)') => p + d \in Places /\ LineAt(p)' = LineAt(p + d),
           Satisfied \/ \A p \in Coming : p - d \in Places' /\ LineAt(p - d)' = LineAt(p),
           \A i \in DOMAIN modem' : modem'[i].id = sp_response.id =>
              \E j \in DOMAIN modem : /\ modem[j].id = modem'[i].id /\ modem[j].infos = modem'[i].infos
                                      /\ modem[j].cmd = modem'[i].cmd
    PROVE  PendingInv'
<1>0. /\ \A p \in Places : p \in Nat /\ LineAt(p).n \in Nat
      /\ \A p \in Places' : p \in Nat
  <2>1. wire' \in Seq(Line)  BY DEF IndInv, TypeOK, ModemTypes
  <2> QED  BY <2>1, PlaceFacts DEF Places
<1>1. \A line : Mine(line)' <=> Mine(line)  BY DEF Mine
<1>2. EntryInv'  BY <1>1 DEF PendingInv, EntryInv
<1>3. ArrivalInv'
  <2> SUFFICES ASSUME NEW p \in Places', Mine(LineAt(p)')
               PROVE  /\ ~Mine(sp_response.finalResponse)
                      /\ Info(LineAt(p)') =>
                            /\ LineAt(p)'.kind = IF s_type = "NUMERIC" THEN "digits" ELSE "info"
                            /\ LineAt(p)'.prefix = s_responsePrefix
                      /\ \A q \in Places' : p < q /\ Mine(LineAt(q)') =>
                            /\ ~Final(LineAt(p)')
                            /\ Info(LineAt(p)') /\ Info(LineAt(q)') => LineAt(p)'.n < LineAt(q)'.n
    BY <1>1 DEF ArrivalInv
  <2>1. p + d \in Places /\ LineAt(p)' = LineAt(p + d)  OBVIOUS
  <2>2. ASSUME NEW q \in Places', p < q, Mine(LineAt(q)')
        PROVE  q + d \in Places /\ LineAt(q)' = LineAt(q + d) /\ p + d < q + d
    BY <1>0, <2>2
  <2> QED  BY <2>1, <2>2 DEF PendingInv, ArrivalInv
<1>4. WholeInv'
  <2> SUFFICES ASSUME NEW n \in Nat, Said(n)' PROVE Whole(n)'  BY DEF WholeInv
  <2>1. Said(n)  BY <1>1 DEF Said
  <2>2. Whole(n)  BY <2>1 DEF PendingInv, WholeInv
  <2>3. Kept' = Kept /\ KeptNumbers' = KeptNumbers  BY <1>1 DEF Kept, KeptNumbers
  <2>4. CASE Satisfied
    <3>1. s_type # "MULTILINE" /\ (s_type = "NO_RESULT" \/ sp_response.p_intermediates # <<>>)
      BY <2>4 DEF Satisfied
    <3>2. FirstLine(n) /\ sp_response.p_intermediates # <<>> => FirstLine(n)'
      BY <2>3 DEF FirstLine
    <3> QED  BY <2>2, <3>1, <3>2 DEF Whole
  <2>5. CASE ~Satisfied
    <3>1. \A p \in Coming' : p + d \in Coming /\ LineAt(p)' = LineAt(p + d)
      BY <1>1 DEF Coming
    <3>2. \A p \in Coming : p - d \in Coming' /\ LineAt(p - d)' = LineAt(p)
      BY <1>1, <2>5 DEF Coming
    <3>3. ComingNumbers' = ComingNumbers  BY <3>1, <3>2 DEF ComingNumbers
    <3>4. AllLines(n) => AllLines(n)'  BY <2>3, <3>1, <3>3 DEF AllLines
    <3>5. FirstLine(n) => FirstLine(n)'  BY <2>3, <3>3 DEF FirstLine
    <3> QED  BY <2>2, <3>4, <3>5 DEF Whole
  <2> QED  BY <2>4, <2>5
<1> QED  BY <1>2, <1>3, <1>4 DEF PendingInv

-----------------------------------------------------------------------------
(* What processLine does with a line of the pending command.                 *)

\* The line in its hands leaves the places, the others stay.
LineGone ==
    /\ 0 \in Places /\ LineAt(0) = reader.line
    /\ Places' = Places \ {0} /\ \A p \in Places' : LineAt(p)' = LineAt(p)

\* A final line: if it is the command's own, nothing of the answer is left behind.
LEMMA FinalKeeps ==
    ASSUME IndInv, PendingInv, LineGone, Final(reader.line),
           sp_response'.finalResponse = reader.line,
           sp_response'.id = sp_response.id,
           sp_response'.p_intermediates = sp_response.p_intermediates,
           UNCHANGED <<s_type, s_responsePrefix, modem>>
    PROVE  PendingInv'
<1>0. \A p \in Places : p \in Nat  BY PlaceFacts
<1>1. \A line : Mine(line)' <=> Mine(line)  BY DEF Mine
<1>2. /\ 0 \in Places /\ LineAt(0) = reader.line
      /\ \A p \in Places' : p \in Places /\ p # 0 /\ LineAt(p)' = LineAt(p)
      /\ \A p \in Places : p # 0 => p \in Places'
  BY DEF LineGone
<1>3. Kept' = Kept /\ KeptNumbers' = KeptNumbers  BY <1>1 DEF Kept, KeptNumbers
<1>4. ~Info(reader.line)  BY InfoNotFinal
<1>5. Coming' = Coming /\ ComingNumbers' = ComingNumbers
  <2>1. Coming' = Coming  BY <1>1, <1>2, <1>4 DEF Coming
  <2>2. \A p \in Coming' : LineAt(p)' = LineAt(p)  BY <1>2 DEF Coming
  <2> QED  BY <2>1, <2>2 DEF ComingNumbers
<1>6. \A n : Whole(n) => Whole(n)'
  <2> TAKE n
  <2>1. \A p \in Coming : LineAt(p)' = LineAt(p)  BY <1>2, <1>5 DEF Coming
  <2>2. AllLines(n) => AllLines(n)'  BY <1>3, <1>5, <2>1 DEF AllLines
  <2>3. FirstLine(n) => FirstLine(n)'  BY <1>3, <1>5 DEF FirstLine
  <2> QED  BY <2>2, <2>3 DEF Whole
<1>7. CASE Mine(reader.line)
  <2>1. \A p \in Places' : ~Mine(LineAt(p)')
    BY <1>0, <1>1, <1>2, <1>7 DEF PendingInv, ArrivalInv
  <2>2. \A i \in DOMAIN modem' : modem'[i].id # sp_response'.id
    BY <1>2, <1>7 DEF PendingInv, EntryInv
  <2>3. EntryInv' /\ ArrivalInv'
    <3>1. \A p \in Places' : ~Mine(LineAt(p))'  BY <1>1, <2>1
    <3> QED  BY <2>2, <3>1 DEF EntryInv, ArrivalInv
  <2>4. ASSUME NEW n \in Nat, Said(n)' PROVE Said(n)
    BY <1>1, <1>2, <1>7, <2>1, <2>2, <2>4 DEF Said
  <2> QED  BY <1>6, <2>3, <2>4 DEF PendingInv, WholeInv
<1>8. CASE ~Mine(reader.line)
  <2>1. EntryInv'  BY <1>1, <1>2, <1>8 DEF PendingInv, EntryInv
  <2>2. ArrivalInv'
    <3> SUFFICES ASSUME NEW p \in Places', Mine(LineAt(p)')
                 PROVE  /\ Info(LineAt(p)') =>
                            /\ LineAt(p)'.kind = IF s_type = "NUMERIC" THEN "digits" ELSE "info"
                            /\ LineAt(p)'.prefix = s_responsePrefix
                        /\ \A q \in Places' : p < q /\ Mine(LineAt(q)') =>
                            /\ ~Final(LineAt(p)')
                            /\ Info(LineAt(p)') /\ Info(LineAt(q)') => LineAt(p)'.n < LineAt(q)'.n
      BY <1>1, <1>8 DEF ArrivalInv
    <3> QED  BY <1>2 DEF PendingInv, ArrivalInv
  <2>3. ASSUME NEW n \in Nat, Said(n)' PROVE Said(n)
    BY <1>1, <1>2, <1>8, <2>3 DEF Said
  <2> QED  BY <1>6, <2>1, <2>2, <2>3 DEF PendingInv, WholeInv
<1> QED  BY <1>7, <1>8

\* An intermediate line goes in front of those already taken.
LEMMA IntermediateKeeps ==
    ASSUME IndInv, PendingInv, sp_response.id # 0, LineGone, IsIntermediate(reader.line),
           sp_response'.finalResponse = sp_response.finalResponse,
           sp_response'.id = sp_response.id,
           sp_response'.p_intermediates = <<reader.line>> \o sp_response.p_intermediates,
           UNCHANGED <<s_type, s_responsePrefix, modem>>
    PROVE  PendingInv'
<1> DEFINE line == reader.line
           s == sp_response.p_intermediates
<1>0. /\ \A p \in Places : p \in Nat /\ LineAt(p).n \in Nat
      /\ s \in Seq(Line) /\ line \in Line
  BY PlaceFacts, Typed
<1>1. \A x : Mine(x)' <=> Mine(x)  BY DEF Mine
<1>2. /\ 0 \in Places /\ LineAt(0) = line
      /\ \A p \in Places' : p \in Places /\ p # 0 /\ LineAt(p)' = LineAt(p)
      /\ \A p \in Places : p # 0 => p \in Places'
  BY DEF LineGone
<1>3. Info(line) /\ ~Final(line) /\ s_type # "NO_RESULT" /\ (s_type # "MULTILINE" => s = <<>>)
  <2>1. Info(line) /\ s_type # "NO_RESULT" /\ (s_type # "MULTILINE" => s = <<>>)
    BY DEF IsIntermediate, Info
  <2> QED  BY <2>1, InfoNotFinal
<1>4. EntryInv'  BY <1>1, <1>2 DEF PendingInv, EntryInv
<1>5. ArrivalInv'
  <2> SUFFICES ASSUME NEW p \in Places', Mine(LineAt(p)')
               PROVE  /\ ~Mine(sp_response.finalResponse)
                      /\ Info(LineAt(p)') =>
                            /\ LineAt(p)'.kind = IF s_type = "NUMERIC" THEN "digits" ELSE "info"
                            /\ LineAt(p)'.prefix = s_responsePrefix
                      /\ \A q \in Places' : p < q /\ Mine(LineAt(q)') =>
                            /\ ~Final(LineAt(p)')
                            /\ Info(LineAt(p)') /\ Info(LineAt(q)') => LineAt(p)'.n < LineAt(q)'.n
    BY <1>1 DEF ArrivalInv
  <2> QED  BY <1>2 DEF PendingInv, ArrivalInv
<1>6. WholeInv'
  <2> SUFFICES ASSUME NEW n \in Nat, Said(n)' PROVE Whole(n)'  BY DEF WholeInv
  <2>1. Said(n)  BY <1>1, <1>2 DEF Said
  <2>2. Whole(n)  BY <2>1 DEF PendingInv, WholeInv
  <2> DEFINE r == sp_response'.p_intermediates
  <2>3. /\ Len(r) = Len(s) + 1 /\ r # <<>> /\ r[1] = line /\ 1 \in DOMAIN r
        /\ \A i \in DOMAIN r : i = 1 \/ (i - 1 \in DOMAIN s /\ r[i] = s[i - 1])
        /\ \A i \in DOMAIN s : i + 1 \in DOMAIN r /\ r[i + 1] = s[i]
        /\ \A i \in DOMAIN r : i \in Nat /\ i >= 1
    <3> HIDE DEF s
    <3>1. r = <<line>> \o s  BY DEF s
    <3> HIDE DEF r, line
    <3> QED  BY <1>0, <3>1
  <2>4. Coming' = Coming \ {0} /\ (\A p \in Coming' : LineAt(p)' = LineAt(p))
    BY <1>1, <1>2 DEF Coming
  <2>5. /\ \A i \in Kept : i + 1 \in Kept'
        /\ \A i \in Kept' : (i = 1 /\ Mine(line)) \/ (i - 1 \in Kept /\ r[i] = s[i - 1] /\ i > 1)
    BY <1>1, <2>3 DEF Kept
  <2>6. CASE s_type = "MULTILINE"
    <3>0. AllLines(n)  BY <2>2, <2>6 DEF Whole
    <3>1. CASE ~Mine(line)
      <4>1. ComingNumbers' = ComingNumbers
        <5>1. 0 \notin Coming  BY <1>2, <3>1 DEF Coming
        <5> QED  BY <2>4, <5>1 DEF ComingNumbers
      <4>2. KeptNumbers' = KeptNumbers
        <5>1. ASSUME NEW m \in KeptNumbers' PROVE m \in KeptNumbers
          <6>1. PICK i \in Kept' : m = r[i].n  BY <5>1 DEF KeptNumbers
          <6> QED  BY <2>5, <3>1, <6>1 DEF KeptNumbers
        <5>2. ASSUME NEW m \in KeptNumbers PROVE m \in KeptNumbers'
          <6>1. PICK i \in Kept : m = s[i].n  BY <5>2 DEF KeptNumbers
          <6>2. i + 1 \in Kept' /\ r[i + 1] = s[i]  BY <2>3, <2>5 DEF Kept
          <6> QED  BY <6>1, <6>2 DEF KeptNumbers
        <5> QED  BY <5>1, <5>2
      <4>3. \A i, j \in Kept' : i < j => r[j].n < r[i].n
        <5> TAKE i, j \in Kept'
        <5> SUFFICES ASSUME i < j PROVE r[j].n < r[i].n  OBVIOUS
        <5>1. j - 1 \in Kept /\ r[j] = s[j - 1] /\ i - 1 \in Kept /\ r[i] = s[i - 1]
          BY <2>5, <3>1
        <5>2. i - 1 < j - 1  BY <2>3 DEF Kept
        <5> QED  BY <3>0, <5>1, <5>2 DEF AllLines
      <4>4. \A i \in Kept', p \in Coming' : r[i].n < LineAt(p)'.n
        BY <2>4, <2>5, <3>0, <3>1 DEF AllLines
      <4> QED  BY <2>6, <3>0, <4>1, <4>2, <4>3, <4>4 DEF AllLines, Whole
    <3>2. CASE Mine(line)
      <4>1. 0 \in Coming /\ LineAt(0).n = line.n  BY <1>2, <1>3, <3>2 DEF Coming
      <4>2. ComingNumbers = ComingNumbers' \cup {line.n}
        BY <2>4, <4>1 DEF ComingNumbers
      <4>3. 1 \in Kept'  BY <1>1, <2>3, <3>2 DEF Kept
      <4>4. KeptNumbers' = KeptNumbers \cup {line.n}
        <5>1. ASSUME NEW m \in KeptNumbers' PROVE m \in KeptNumbers \cup {line.n}
          <6>1. PICK i \in Kept' : m = r[i].n  BY <5>1 DEF KeptNumbers
          <6> QED  BY <2>3, <2>5, <6>1 DEF KeptNumbers
        <5>2. ASSUME NEW m \in KeptNumbers PROVE m \in KeptNumbers'
          <6>1. PICK i \in Kept : m = s[i].n  BY <5>2 DEF KeptNumbers
          <6>2. i + 1 \in Kept' /\ r[i + 1] = s[i]  BY <2>3, <2>5 DEF Kept
          <6> QED  BY <6>1, <6>2 DEF KeptNumbers
        <5>3. line.n \in KeptNumbers'  BY <2>3, <4>3 DEF KeptNumbers
        <5> QED  BY <5>1, <5>2, <5>3
      <4>5. \A i, j \in Kept' : i < j => r[j].n < r[i].n
        <5> TAKE i, j \in Kept'
        <5> SUFFICES ASSUME i < j PROVE r[j].n < r[i].n  OBVIOUS
        <5>1. j - 1 \in Kept /\ r[j] = s[j - 1]
          <6>1. i \in DOMAIN r /\ j \in DOMAIN r  BY DEF Kept
          <6>2. i >= 1 /\ i \in Nat /\ j \in Nat  BY <2>3, <6>1
          <6>3. j # 1  BY <6>2
          <6> QED  BY <2>5, <6>3
        <5>2. CASE i = 1  BY <2>3, <3>0, <4>1, <5>1, <5>2 DEF AllLines
        <5>3. CASE i # 1
          <6>1. i - 1 \in Kept /\ r[i] = s[i - 1]  BY <2>5, <5>3
          <6>2. i - 1 < j - 1  BY <2>3 DEF Kept
          <6> QED  BY <3>0, <5>1, <6>1, <6>2 DEF AllLines
        <5> QED  BY <5>2, <5>3
      <4>6. \A i \in Kept', p \in Coming' : r[i].n < LineAt(p)'.n
        <5> TAKE i \in Kept', p \in Coming'
        <5>1. p \in Coming /\ p # 0 /\ p > 0 /\ LineAt(p)' = LineAt(p)
          BY <1>0, <2>4 DEF Coming
        <5>2. CASE i = 1
          <6>1. line.n < LineAt(p).n
            BY <1>0, <1>2, <4>1, <5>1 DEF PendingInv, ArrivalInv, Coming
          <6> QED  BY <2>3, <5>1, <5>2, <6>1
        <5>3. CASE i # 1  BY <2>5, <3>0, <5>1, <5>3 DEF AllLines
        <5> QED  BY <5>2, <5>3
      <4> QED  BY <2>6, <3>0, <4>2, <4>4, <4>5, <4>6 DEF AllLines, Whole
    <3> QED  BY <3>1, <3>2
  <2>7. CASE s_type # "MULTILINE"
    <3>1. s = <<>> /\ s_type \in {"SINGLELINE", "NUMERIC"}
      BY <1>3, <2>7, Typed DEF Types
    <3>2. ComingNumbers = 1..n /\ FirstLine(n)  BY <2>2, <3>1 DEF Whole, FirstLine
    <3>3. Len(r) = 1
      <4>1. Len(s) = 0  BY <3>1, EmptySeq
      <4> QED  BY <2>3, <4>1
    <3>4. ASSUME NEW i \in Kept' PROVE r[i].n = 1
      <4>1. Kept = {}  BY <3>1 DEF Kept
      <4>2. i = 1 /\ Mine(line)  BY <2>5, <4>1
      <4>3. 0 \in Coming /\ line.n \in ComingNumbers
        BY <1>2, <1>3, <4>2 DEF Coming, ComingNumbers
      <4>4. line.n \in 1..n /\ 1 \in 1..n  BY <3>2, <4>3
      <4>5. PICK p \in Coming : LineAt(p).n = 1  BY <3>2, <4>4 DEF ComingNumbers
      <4>6. CASE p = 0  BY <1>2, <2>3, <4>2, <4>5, <4>6
      <4>7. CASE p # 0
        <5>1. p > 0 /\ p \in Places  BY <1>0, <4>7 DEF Coming
        <5>2. line.n < 1
          BY <1>2, <1>3, <4>2, <4>5, <5>1 DEF PendingInv, ArrivalInv, Coming
        <5> QED  BY <4>4, <5>2
      <4> QED  BY <4>6, <4>7
    <3>5. FirstLine(n)'  BY <2>3, <3>3, <3>4 DEF FirstLine
    <3> QED  BY <3>1, <3>5 DEF Whole
  <2> QED  BY <2>6, <2>7
<1> QED  BY <1>4, <1>5, <1>6 DEF PendingInv

-----------------------------------------------------------------------------
(* What the modem says.                                                      *)

\* A line appended to the wire gets a place behind all others.
LEMMA AppendedPlace ==
    ASSUME IndInv, NEW x \in Line, wire' = Append(wire, x), UNCHANGED reader
    PROVE  \E new \in Nat \ {0} :
              /\ LineAt(new)' = x /\ Places' = Places \cup {new}
              /\ \A p \in Places : p < new /\ LineAt(p)' = LineAt(p)
<1>0. wire \in Seq(Line) /\ \A p \in Places : p \in Nat  BY Typed, PlaceFacts
<1>a. PICK new \in Nat : new = Len(wire) + 1  BY <1>0
<1>1. new \in Nat /\ new # 0 /\ wire'[new] = x /\ DOMAIN wire' = DOMAIN wire \cup {new}
      /\ \A i \in DOMAIN wire : i < new /\ i # 0 /\ wire'[i] = wire[i]
  <2>1. Len(wire) \in Nat /\ DOMAIN wire = 1..Len(wire)  BY <1>0
  <2>2. wire' \in Seq(Line) /\ Len(wire') = new /\ wire'[new] = x
        /\ \A i \in 1..Len(wire) : wire'[i] = wire[i]
    BY <1>0, <1>a, AppendProperties
  <2>3. DOMAIN wire' = 1..new  BY <2>2
  <2> QED  BY <1>a, <2>1, <2>2, <2>3
<1>2. Places' = Places \cup {new}  BY <1>1 DEF Places
<1>3. LineAt(new)' = x  BY <1>1 DEF LineAt
<1>4. \A p \in Places : p < new /\ LineAt(p)' = LineAt(p)
  <2> TAKE p \in Places
  <2>1. CASE p = 0  BY <1>1, <2>1 DEF LineAt
  <2>2. CASE p # 0
    <3>1. p \in DOMAIN wire  BY <2>2 DEF Places
    <3> QED  BY <1>1, <2>2, <3>1 DEF LineAt
  <2> QED  BY <2>1, <2>2
<1> QED  BY <1>1, <1>2, <1>3, <1>4

\* One more intermediate line of the pending command.
LEMMA InfoKeeps ==
    ASSUME IndInv, NumberInv, PendingInv,
           NEW x \in Line, wire' = Append(wire, x), 1 \in DOMAIN modem, Mine(modem[1]),
           x.id = modem[1].id, x.n = modem[1].infos + 1, x.prefix = modem[1].cmd.prefix,
           x.kind = (IF modem[1].cmd.type = "NUMERIC" THEN "digits" ELSE "info"),
           DOMAIN modem' = DOMAIN modem, \A i \in DOMAIN modem : modem'[i].id = modem[i].id,
           modem'[1].cmd = modem[1].cmd, modem'[1].infos = modem[1].infos + 1,
           UNCHANGED <<reader, sp_response, s_type, s_responsePrefix>>
    PROVE  PendingInv'
<1>a. PICK new \in Nat \ {0} :
         /\ LineAt(new)' = x /\ Places' = Places \cup {new}
         /\ \A p \in Places : p < new /\ LineAt(p)' = LineAt(p)
  BY AppendedPlace
<1>b. PICK c \in Nat : c = modem[1].infos  BY Typed
<1>0. /\ new \in Nat /\ new # 0 /\ LineAt(new)' = x
      /\ Places' = Places \cup {new} /\ c = modem[1].infos
      /\ \A p \in Places : p < new /\ LineAt(p)' = LineAt(p)
  BY <1>a, <1>b
<1>1. \A line : Mine(line)' <=> Mine(line)  BY DEF Mine
<1>2. c \in Nat /\ \A p \in Places : p \in Nat /\ LineAt(p).n \in Nat  BY Typed, PlaceFacts
<1>3. /\ Mine(x) /\ Info(x) /\ ~Final(x) /\ x.n = c + 1 /\ x.prefix = s_responsePrefix
      /\ x.kind = IF s_type = "NUMERIC" THEN "digits" ELSE "info"
  <2>0. x.n = c + 1  BY <1>0
  <2>1. modem[1].cmd.type = s_type /\ modem[1].cmd.prefix = s_responsePrefix
    BY DEF PendingInv, EntryInv, Mine
  <2>2. Info(x)  BY DEF Info
  <2> QED  BY <2>0, <2>1, <2>2, InfoNotFinal DEF Mine
<1>4. /\ ~Mine(sp_response.finalResponse)
      /\ \A p \in Places : Mine(LineAt(p)) =>
            ~Final(LineAt(p)) /\ (Info(LineAt(p)) => LineAt(p).n <= c)
  BY <1>0 DEF PendingInv, EntryInv, Mine
<1>5. \A i \in DOMAIN modem' : modem'[i].id = sp_response.id => i = 1
  BY DEF NumberInv, Mine
<1>6. EntryInv'
  <2> SUFFICES ASSUME NEW i \in DOMAIN modem', modem'[i].id = sp_response.id
               PROVE  /\ modem'[i].cmd.type = s_type /\ modem'[i].cmd.prefix = s_responsePrefix
                      /\ ~Mine(sp_response.finalResponse)
                      /\ \A p \in Places' : Mine(LineAt(p)') =>
                            ~Final(LineAt(p)') /\ (Info(LineAt(p)') => LineAt(p)'.n <= modem'[i].infos)
    BY <1>1 DEF EntryInv
  <2>1. i = 1 /\ modem'[i].infos = c + 1 /\ modem'[i].cmd = modem[1].cmd  BY <1>0, <1>5
  <2>2. modem'[i].cmd.type = s_type /\ modem'[i].cmd.prefix = s_responsePrefix
    BY <2>1 DEF PendingInv, EntryInv, Mine
  <2>3. ASSUME NEW p \in Places', Mine(LineAt(p)')
        PROVE  ~Final(LineAt(p)') /\ (Info(LineAt(p)') => LineAt(p)'.n <= c + 1)
    <3>1. CASE p = new  BY <1>0, <1>2, <1>3, <3>1
    <3>2. CASE p \in Places  BY <1>0, <1>2, <1>4, <2>3, <3>2
    <3> QED  BY <1>0, <3>1, <3>2
  <2> QED  BY <1>4, <2>1, <2>2, <2>3
<1>7. ArrivalInv'
  <2> SUFFICES ASSUME NEW p \in Places', Mine(LineAt(p)')
               PROVE  /\ ~Mine(sp_response.finalResponse)
                      /\ Info(LineAt(p)') =>
                            /\ LineAt(p)'.kind = IF s_type = "NUMERIC" THEN "digits" ELSE "info"
                            /\ LineAt(p)'.prefix = s_responsePrefix
                      /\ \A q \in Places' : p < q /\ Mine(LineAt(q)') =>
                            /\ ~Final(LineAt(p)')
                            /\ Info(LineAt(p)') /\ Info(LineAt(q)') => LineAt(p)'.n < LineAt(q)'.n
    BY <1>1 DEF ArrivalInv
  <2>1. CASE p = new
    <3>1. \A q \in Places' : ~(p < q)  BY <1>0, <1>2, <2>1
    <3> QED  BY <1>0, <1>3, <1>4, <2>1, <3>1
  <2>2. CASE p \in Places
    <3>1. LineAt(p)' = LineAt(p) /\ Mine(LineAt(p))  BY <1>0, <2>2
    <3>2. ASSUME NEW q \in Places', p < q, Mine(LineAt(q)')
          PROVE  /\ ~Final(LineAt(p)')
                 /\ Info(LineAt(p)') /\ Info(LineAt(q)') => LineAt(p)'.n < LineAt(q)'.n
      <4>1. CASE q = new
        <5>1. ~Final(LineAt(p)) /\ (Info(LineAt(p)) => LineAt(p).n < c + 1)
          BY <1>2, <1>4, <2>2, <3>1
        <5> QED  BY <1>0, <1>3, <3>1, <4>1, <5>1
      <4>2. CASE q \in Places
        BY <1>0, <2>2, <3>1, <3>2, <4>2 DEF PendingInv, ArrivalInv
      <4> QED  BY <1>0, <4>1, <4>2
    <3> QED  BY <2>2, <3>1, <3>2 DEF PendingInv, ArrivalInv
  <2> QED  BY <1>0, <2>1, <2>2
<1>8. WholeInv'
  <2> SUFFICES ASSUME NEW n \in Nat, Said(n)' PROVE Whole(n)'  BY DEF WholeInv
  <2>1. n = c + 1
    <3>1. CASE \E i \in DOMAIN modem' : modem'[i].id = sp_response.id /\ modem'[i].infos = n
      BY <1>0, <1>5, <3>1
    <3>2. CASE \E p \in Places' : Mine(LineAt(p)') /\ Final(LineAt(p)')
      <4>1. PICK p \in Places' : Mine(LineAt(p)') /\ Final(LineAt(p)')  BY <3>2
      <4> QED  BY <1>0, <1>3, <1>4, <4>1
    <3> QED  BY <1>1, <1>4, <3>1, <3>2 DEF Said
  <2>2. Whole(c)
    <3>1. Said(c)  BY <1>0 DEF Said, Mine
    <3> QED  BY <1>2, <3>1 DEF PendingInv, WholeInv
  <2>3. Kept' = Kept /\ KeptNumbers' = KeptNumbers  BY <1>1 DEF Kept, KeptNumbers
  <2>4. Coming' = Coming \cup {new} /\ \A p \in Coming : LineAt(p)' = LineAt(p)
    BY <1>0, <1>1, <1>3 DEF Coming
  <2>5. ComingNumbers' = ComingNumbers \cup {c + 1}
    BY <1>0, <1>3, <2>4 DEF ComingNumbers
  <2>6. 1..(c + 1) = 1..c \cup {c + 1}  BY <1>2
  <2>7. AllLines(c) => AllLines(c + 1)'
    <3> SUFFICES ASSUME AllLines(c) PROVE AllLines(c + 1)'  OBVIOUS
    <3>1. KeptNumbers' \cup ComingNumbers' = 1..(c + 1)  BY <2>3, <2>5, <2>6 DEF AllLines
    <3>2. ASSUME NEW i \in Kept', NEW p \in Coming'
          PROVE  sp_response'.p_intermediates[i].n < LineAt(p)'.n
      <4>1. CASE p = new
        <5>1. sp_response.p_intermediates[i].n \in KeptNumbers  BY <2>3 DEF KeptNumbers
        <5>2. sp_response.p_intermediates[i].n \in 1..c  BY <5>1 DEF AllLines
        <5>3. sp_response.p_intermediates[i].n < c + 1  BY <1>2, <5>2
        <5> QED  BY <1>0, <1>3, <4>1, <5>3
      <4>2. CASE p \in Coming  BY <2>3, <2>4, <4>2 DEF AllLines
      <4> QED  BY <2>4, <4>1, <4>2
    <3> QED  BY <2>3, <3>1, <3>2 DEF AllLines
  <2>8. FirstLine(c) => FirstLine(c + 1)'
    BY <2>3, <2>5, <2>6 DEF FirstLine
  <2> QED  BY <2>1, <2>2, <2>7, <2>8 DEF Whole
<1> QED  BY <1>6, <1>7, <1>8 DEF PendingInv

\* The final line of the pending command, which carries the number of lines.
LEMMA LastKeeps ==
    ASSUME IndInv, NumberInv, PendingInv,
           NEW x \in Line, wire' = Append(wire, x), 1 \in DOMAIN modem, Mine(modem[1]),
           x.id = modem[1].id, x.n = modem[1].infos, Final(x),
           \A i \in DOMAIN modem' : i + 1 \in DOMAIN modem /\ i + 1 # 1 /\ modem'[i] = modem[i + 1],
           UNCHANGED <<reader, sp_response, s_type, s_responsePrefix>>
    PROVE  PendingInv'
<1>0. PICK new \in Nat \ {0} :
         /\ LineAt(new)' = x /\ Places' = Places \cup {new}
         /\ \A p \in Places : p < new /\ LineAt(p)' = LineAt(p)
  BY AppendedPlace
<1>1. \A line : Mine(line)' <=> Mine(line)  BY DEF Mine
<1>2. modem[1].infos \in Nat /\ \A p \in Places : p \in Nat  BY Typed, PlaceFacts
<1>3. Mine(x) /\ ~Info(x)  BY InfoNotFinal DEF Mine
<1>4. /\ ~Mine(sp_response.finalResponse)
      /\ \A p \in Places : Mine(LineAt(p)) => ~Final(LineAt(p))
  BY DEF PendingInv, EntryInv, Mine
<1>5. \A i \in DOMAIN modem' : modem'[i].id # sp_response.id
  BY DEF NumberInv, Mine
<1>6. EntryInv'  BY <1>5 DEF EntryInv
<1>7. ArrivalInv'
  <2> SUFFICES ASSUME NEW p \in Places', Mine(LineAt(p)')
               PROVE  /\ ~Mine(sp_response.finalResponse)
                      /\ Info(LineAt(p)') =>
                            /\ LineAt(p)'.kind = IF s_type = "NUMERIC" THEN "digits" ELSE "info"
                            /\ LineAt(p)'.prefix = s_responsePrefix
                      /\ \A q \in Places' : p < q /\ Mine(LineAt(q)') =>
                            /\ ~Final(LineAt(p)')
                            /\ Info(LineAt(p)') /\ Info(LineAt(q)') => LineAt(p)'.n < LineAt(q)'.n
    BY <1>1 DEF ArrivalInv
  <2>1. CASE p = new
    <3>1. \A q \in Places' : ~(p < q)  BY <1>0, <1>2, <2>1
    <3> QED  BY <1>0, <1>3, <1>4, <2>1, <3>1
  <2>2. CASE p \in Places
    <3>1. LineAt(p)' = LineAt(p) /\ Mine(LineAt(p))  BY <1>0, <2>2
    <3>2. ASSUME NEW q \in Places', p < q, Mine(LineAt(q)')
          PROVE  /\ ~Final(LineAt(p)')
                 /\ Info(LineAt(p)') /\ Info(LineAt(q)') => LineAt(p)'.n < LineAt(q)'.n
      <4>1. CASE q = new  BY <1>0, <1>3, <1>4, <2>2, <3>1, <4>1
      <4>2. CASE q \in Places
        BY <1>0, <2>2, <3>1, <3>2, <4>2 DEF PendingInv, ArrivalInv
      <4> QED  BY <1>0, <4>1, <4>2
    <3> QED  BY <2>2, <3>1, <3>2 DEF PendingInv, ArrivalInv
  <2> QED  BY <1>0, <2>1, <2>2
<1>8. WholeInv'
  <2> SUFFICES ASSUME NEW n \in Nat, Said(n)' PROVE Whole(n)'  BY DEF WholeInv
  <2>1. n = modem[1].infos
    <3>1. PICK p \in Places' : Mine(LineAt(p)') /\ Final(LineAt(p)') /\ LineAt(p)'.n = n
      BY <1>1, <1>4, <1>5 DEF Said
    <3> QED  BY <1>0, <1>4, <3>1
  <2>2. Whole(n)
    <3>1. Said(n)  BY <2>1 DEF Said, Mine
    <3> QED  BY <1>2, <3>1 DEF PendingInv, WholeInv
  <2>3. Kept' = Kept /\ KeptNumbers' = KeptNumbers  BY <1>1 DEF Kept, KeptNumbers
  <2>4. Coming' = Coming /\ \A p \in Coming : LineAt(p)' = LineAt(p)
    BY <1>0, <1>1, <1>3 DEF Coming
  <2>5. ComingNumbers' = ComingNumbers  BY <2>4 DEF ComingNumbers
  <2>6. AllLines(n) => AllLines(n)'  BY <2>3, <2>4, <2>5 DEF AllLines
  <2>7. FirstLine(n) => FirstLine(n)'  BY <2>3, <2>5 DEF FirstLine
  <2> QED  BY <2>2, <2>6, <2>7 DEF Whole
<1> QED  BY <1>6, <1>7, <1>8 DEF PendingInv

\* A new command: nothing has been said, and nothing is on its way.
LEMMA FreshKeeps ==
    ASSUME IndInv, NumberInv, NEW t \in Threads, SendWaits(t)
    PROVE  PendingInv'
<1> DEFINE e == [id |-> sent + 1, cmd |-> call[t], infos |-> 0,
                 stage |-> IF call[t].pdu THEN "prompt" ELSE "run"]
<1>0. /\ sent \in Nat /\ modem \in Seq(ModemEntry) /\ e \in ModemEntry
      /\ \A p \in Places : LineAt(p).id \in Nat
      /\ \A i \in DOMAIN modem : modem[i].id \in Nat
  <2>1. sent \in Nat /\ call[t] \in Command  BY DEF IndInv, TypeOK, HistoryTypes, CallTypes
  <2>2. e \in ModemEntry  BY <2>1 DEF ModemEntry
  <2> QED  BY <2>1, <2>2, Typed, PlaceFacts
<1>1. /\ sp_response'.id = sent + 1 /\ sp_response'.finalResponse = NoLine
      /\ sp_response'.p_intermediates = <<>>
      /\ s_type' = call[t].type /\ s_responsePrefix' = call[t].prefix
      /\ modem' = Append(modem, e)
      /\ UNCHANGED <<wire, reader>>
  BY DEF SendWaits, NULL
<1>2. Places' = Places /\ \A p \in Places : LineAt(p)' = LineAt(p)
  BY <1>1 DEF Places, LineAt
<1>3. \A p \in Places : ~Mine(LineAt(p))'
  <2>1. \A p \in Places : LineAt(p).id # sent + 1  BY <1>0 DEF NumberInv
  <2> QED  BY <1>1, <1>2, <2>1 DEF Mine
<1>4. \A i \in DOMAIN modem' : modem'[i].id = sent + 1 => modem'[i] = e
  <2> HIDE DEF e
  <2>1. \A i \in DOMAIN modem' : modem'[i] = e \/ (i \in DOMAIN modem /\ modem'[i] = modem[i])
    BY <1>0, <1>1
  <2>2. \A i \in DOMAIN modem : modem[i].id # sent + 1  BY <1>0 DEF NumberInv
  <2> QED  BY <2>1, <2>2
<1>5. ~Mine(sp_response.finalResponse)'  BY <1>0, <1>1 DEF Mine, NoLine
<1>6. EntryInv' /\ ArrivalInv'  BY <1>1, <1>2, <1>3, <1>4, <1>5 DEF EntryInv, ArrivalInv
<1>7. WholeInv'
  <2> SUFFICES ASSUME NEW n \in Nat, Said(n)' PROVE Whole(n)'  BY DEF WholeInv
  <2>1. n = 0  BY <1>1, <1>2, <1>3, <1>4, <1>5 DEF Said
  <2>2. Kept' = {} /\ Coming' = {}  BY <1>1, <1>2, <1>3 DEF Kept, Coming
  <2>3. KeptNumbers' = {} /\ ComingNumbers' = {}  BY <2>2 DEF KeptNumbers, ComingNumbers
  <2>4. Len(sp_response'.p_intermediates) = 0 /\ 1..0 = {}  BY <1>1, EmptySeq
  <2> QED  BY <1>1, <2>1, <2>2, <2>3, <2>4 DEF Whole, AllLines, FirstLine
<1> QED  BY <1>6, <1>7 DEF PendingInv

\* A prompt for the message of the pending command.
LEMMA PromptKeeps ==
    ASSUME IndInv, PendingInv,
           NEW x \in Line, wire' = Append(wire, x), 1 \in DOMAIN modem, Mine(modem[1]),
           ~Info(x), ~Final(x), DOMAIN modem' = DOMAIN modem,
           \A i \in DOMAIN modem : /\ modem'[i].id = modem[i].id /\ modem'[i].cmd = modem[i].cmd
                                   /\ modem'[i].infos = modem[i].infos,
           UNCHANGED <<reader, sp_response, s_type, s_responsePrefix>>
    PROVE  PendingInv'
<1>0. PICK new \in Nat \ {0} :
         /\ LineAt(new)' = x /\ Places' = Places \cup {new}
         /\ \A p \in Places : p < new /\ LineAt(p)' = LineAt(p)
  BY AppendedPlace
<1>1. \A line : Mine(line)' <=> Mine(line)  BY DEF Mine
<1>2. \A p \in Places : p \in Nat  BY PlaceFacts
<1>3. /\ ~Mine(sp_response.finalResponse)
      /\ \A p \in Places : Mine(LineAt(p)) => ~Final(LineAt(p))
  BY DEF PendingInv, EntryInv, Mine
<1>4. EntryInv'
  <2> SUFFICES ASSUME NEW i \in DOMAIN modem', modem'[i].id = sp_response.id
               PROVE  /\ modem'[i].cmd.type = s_type /\ modem'[i].cmd.prefix = s_responsePrefix
                      /\ ~Mine(sp_response.finalResponse)
                      /\ \A p \in Places' : Mine(LineAt(p)') =>
                            ~Final(LineAt(p)') /\ (Info(LineAt(p)') => LineAt(p)'.n <= modem'[i].infos)
    BY <1>1 DEF EntryInv
  <2> QED  BY <1>0 DEF PendingInv, EntryInv
<1>5. ArrivalInv'
  <2> SUFFICES ASSUME NEW p \in Places', Mine(LineAt(p)')
               PROVE  /\ ~Mine(sp_response.finalResponse)
                      /\ Info(LineAt(p)') =>
                            /\ LineAt(p)'.kind = IF s_type = "NUMERIC" THEN "digits" ELSE "info"
                            /\ LineAt(p)'.prefix = s_responsePrefix
                      /\ \A q \in Places' : p < q /\ Mine(LineAt(q)') =>
                            /\ ~Final(LineAt(p)')
                            /\ Info(LineAt(p)') /\ Info(LineAt(q)') => LineAt(p)'.n < LineAt(q)'.n
    BY <1>1 DEF ArrivalInv
  <2>1. CASE p = new
    <3>1. \A q \in Places' : ~(p < q)  BY <1>0, <1>2, <2>1
    <3> QED  BY <1>0, <1>3, <2>1, <3>1
  <2>2. CASE p \in Places
    <3>1. LineAt(p)' = LineAt(p) /\ Mine(LineAt(p))  BY <1>0, <2>2
    <3>2. ASSUME NEW q \in Places', p < q, Mine(LineAt(q)')
          PROVE  /\ ~Final(LineAt(p)')
                 /\ Info(LineAt(p)') /\ Info(LineAt(q)') => LineAt(p)'.n < LineAt(q)'.n
      <4>1. CASE q = new  BY <1>0, <1>3, <2>2, <3>1, <4>1
      <4>2. CASE q \in Places
        BY <1>0, <2>2, <3>1, <3>2, <4>2 DEF PendingInv, ArrivalInv
      <4> QED  BY <1>0, <4>1, <4>2
    <3> QED  BY <2>2, <3>1, <3>2 DEF PendingInv, ArrivalInv
  <2> QED  BY <1>0, <2>1, <2>2
<1>6. WholeInv'
  <2> SUFFICES ASSUME NEW n \in Nat, Said(n)' PROVE Whole(n)'  BY DEF WholeInv
  <2>1. Said(n)  BY <1>0, <1>1 DEF Said
  <2>2. Whole(n)  BY <2>1 DEF PendingInv, WholeInv
  <2>3. Kept' = Kept /\ KeptNumbers' = KeptNumbers  BY <1>1 DEF Kept, KeptNumbers
  <2>4. Coming' = Coming /\ \A p \in Coming : LineAt(p)' = LineAt(p)
    BY <1>0, <1>1 DEF Coming
  <2>5. ComingNumbers' = ComingNumbers  BY <2>4 DEF ComingNumbers
  <2>6. AllLines(n) => AllLines(n)'  BY <2>3, <2>4, <2>5 DEF AllLines
  <2>7. FirstLine(n) => FirstLine(n)'  BY <2>3, <2>5 DEF FirstLine
  <2> QED  BY <2>2, <2>6, <2>7 DEF Whole
<1> QED  BY <1>4, <1>5, <1>6 DEF PendingInv

-----------------------------------------------------------------------------
(* The steps.                                                                *)

\* Steps that leave the channel alone.
LEMMA StillTraffic ==
    ASSUME IndInv, IndInv', Traffic,
           UNCHANGED <<wire, reader, modem, sp_response, s_type, s_responsePrefix, sent>>
    PROVE  Traffic'
<1>1. Places' = Places /\ \A p : LineAt(p)' = LineAt(p)  BY DEF Places, LineAt
<1>2. NumberInv' /\ PairInv'  BY <1>1 DEF Traffic, NumberInv, PairInv
<1>3. ASSUME sp_response.id # 0 PROVE PendingInv'
  <2>1. \A p \in Places : p \in Nat  BY PlaceFacts
  <2>2. \A p \in Places : p + 0 = p /\ p - 0 = p  BY <2>1
  <2>3. PendingInv  BY <1>3 DEF Traffic
  <2> QED  BY <1>1, <2>2, <2>3, MovesKeep DEF Coming
<1> QED  BY <1>2, <1>3 DEF Traffic

\* The pending command is given up.
LEMMA ClearedTraffic ==
    ASSUME IndInv, Traffic, clearPendingCommand, UNCHANGED <<wire, reader, modem, sent>>
    PROVE  Traffic'
<1>1. Places' = Places /\ \A p : LineAt(p)' = LineAt(p)  BY DEF Places, LineAt
<1>2. NumberInv' /\ PairInv'  BY <1>1 DEF Traffic, NumberInv, PairInv
<1>3. sp_response' = NULL /\ NULL.id = 0 /\ sent \in Nat  BY Typed DEF clearPendingCommand, NULL
<1> QED  BY <1>2, <1>3 DEF Traffic

\* A command is sent.
LEMMA SentTraffic ==
    ASSUME IndInv, Traffic, NEW t \in Threads, SendWaits(t)
    PROVE  Traffic'
<1> DEFINE e == [id |-> sent + 1, cmd |-> call[t], infos |-> 0,
                 stage |-> IF call[t].pdu THEN "prompt" ELSE "run"]
<1>0. sent \in Nat /\ modem \in Seq(ModemEntry) /\ (\A i \in DOMAIN modem : modem[i].id \in Nat)
      /\ \A p \in Places : LineAt(p).id \in Nat
  BY Typed, PlaceFacts
<1>1. /\ UNCHANGED <<wire, reader>> /\ sent' = sent + 1 /\ modem' = Append(modem, e)
      /\ sp_response'.id = sent + 1 /\ e.id = sent + 1
  BY DEF SendWaits, NULL
<1>2. Places' = Places /\ \A p : LineAt(p)' = LineAt(p)  BY <1>1 DEF Places, LineAt
<1>3. e \in ModemEntry
  <2>1. call[t] \in Command  BY DEF IndInv, TypeOK, CallTypes
  <2> QED  BY <1>0, <2>1 DEF ModemEntry
<1> HIDE DEF e
<1>4. \A i \in DOMAIN modem' : \/ i \in DOMAIN modem /\ modem'[i] = modem[i]
                               \/ i = Len(modem) + 1 /\ modem'[i] = e
  BY <1>0, <1>1, <1>3
<1>5. NumberInv'
  <2>1. \A p \in Places' : LineAt(p)'.id <= sent'  BY <1>0, <1>1, <1>2 DEF Traffic, NumberInv
  <2>2. \A i \in DOMAIN modem' : modem'[i].id # 0 /\ modem'[i].id <= sent'
    BY <1>0, <1>1, <1>4 DEF Traffic, NumberInv
  <2>3. \A i, j \in DOMAIN modem' : modem'[i].id = modem'[j].id => i = j
    <3>1. \A i \in DOMAIN modem : modem[i].id # e.id  BY <1>0, <1>1 DEF Traffic, NumberInv
    <3> QED  BY <1>4, <3>1 DEF Traffic, NumberInv
  <2> QED  BY <1>2, <2>1, <2>2, <2>3 DEF Traffic, NumberInv
<1>6. PairInv'  BY <1>1 DEF Traffic, PairInv
<1>7. PendingInv'  BY FreshKeeps DEF Traffic
<1> QED  BY <1>0, <1>1, <1>5, <1>6, <1>7 DEF Traffic

\* readline takes the first line of the wire: for processLine, or as one of the
\* two lines of a short message, which are no answer.
LEMMA ReadTraffic ==
    ASSUME IndInv, IndInv', Traffic, ReadLine
    PROVE  Traffic'
<1>0. wire \in Seq(Line) /\ wire # <<>>  BY Typed DEF ReadLine
<1>1. /\ 1 \in DOMAIN wire /\ Head(wire) = wire[1]
      /\ \A i \in DOMAIN wire' : i \in Nat /\ i >= 1 /\ i + 1 \in DOMAIN wire /\ wire'[i] = wire[i + 1]
      /\ \A i \in DOMAIN wire : i \in Nat /\ i >= 1
      /\ \A i \in DOMAIN wire : i # 1 => i - 1 \in DOMAIN wire' /\ wire'[i - 1] = wire[i]
  <2>1. wire' = Tail(wire)  BY DEF ReadLine
  <2> QED  BY <1>0, <2>1
<1>2. /\ UNCHANGED <<modem, sp_response, s_type, s_responsePrefix, sent>>
      /\ reader.at \in {"read", "read2"} /\ reader'.line = wire[1]
      /\ reader'.at = IF reader.at = "read2" THEN "read"
                      ELSE IF wire[1].kind = "+CMT" THEN "read2" ELSE "process"
  BY <1>1 DEF ReadLine, pendingVars, history, isSMSUnsolicited
<1>3. Places = DOMAIN wire /\ \A p \in Places : LineAt(p) = wire[p]
  <2>1. reader.at # "process"  BY <1>2
  <2>2. Places = DOMAIN wire  BY <2>1 DEF Places
  <2>3. \A p \in Places : p # 0  BY <1>1, <2>2
  <2> QED  BY <2>2, <2>3 DEF LineAt
<1>4. \A p \in Places' : p + 1 \in Places /\ LineAt(p)' = LineAt(p + 1)
  <2> TAKE p \in Places'
  <2>1. CASE p = 0  BY <1>1, <1>2, <1>3, <2>1 DEF LineAt
  <2>2. CASE p # 0
    <3>1. p \in DOMAIN wire'  BY <2>2 DEF Places
    <3> QED  BY <1>1, <1>3, <2>2, <3>1 DEF LineAt
  <2> QED  BY <2>1, <2>2
<1>5. \A p \in Places : LineAt(p).id # 0 => p - 1 \in Places' /\ LineAt(p - 1)' = LineAt(p)
  <2> TAKE p \in Places
  <2> SUFFICES ASSUME LineAt(p).id # 0 PROVE p - 1 \in Places' /\ LineAt(p - 1)' = LineAt(p)
    OBVIOUS
  <2>1. CASE p = 1
    <3>1. Solicited(wire[1])  BY <1>3, <2>1 DEF Traffic, NumberInv
    <3>2. wire[1].kind \notin {"+CMT", "PDU"}  BY <3>1, Zenon DEF Solicited
    <3>3. reader.at # "read2"  BY <3>2 DEF Traffic, PairInv
    <3>4. reader'.at = "process"  BY <1>2, <3>2, <3>3
    <3> QED  BY <1>2, <1>3, <2>1, <3>4 DEF Places, LineAt
  <2>2. CASE p # 1
    <3>1. p - 1 \in DOMAIN wire' /\ wire'[p - 1] = wire[p] /\ p - 1 # 0  BY <1>1, <1>3, <2>2
    <3> QED  BY <1>3, <3>1 DEF Places, LineAt
  <2> QED  BY <2>1, <2>2
<1>6. NumberInv'  BY <1>2, <1>4 DEF Traffic, NumberInv
<1>7. PairInv'
  <2>1. \A i \in DOMAIN wire' :
           wire'[i].kind = "+CMT" => i + 1 \in DOMAIN wire' /\ wire'[i + 1].kind = "PDU"
    <3> SUFFICES ASSUME NEW i \in DOMAIN wire', wire'[i].kind = "+CMT"
                 PROVE  i + 1 \in DOMAIN wire' /\ wire'[i + 1].kind = "PDU"
      OBVIOUS
    <3>1. (i + 1) + 1 \in DOMAIN wire /\ wire[(i + 1) + 1].kind = "PDU"
      BY <1>1 DEF Traffic, PairInv
    <3>2. (i + 1) + 1 # 1 /\ ((i + 1) + 1) - 1 = i + 1  BY <1>1
    <3> QED  BY <1>1, <3>1, <3>2
  <2>2. reader'.at = "read2" => 1 \in DOMAIN wire' /\ wire'[1].kind = "PDU"
    <3> SUFFICES ASSUME reader'.at = "read2" PROVE 1 \in DOMAIN wire' /\ wire'[1].kind = "PDU"
      OBVIOUS
    <3>1. wire[1].kind = "+CMT"  BY <1>2
    <3>2. 1 + 1 \in DOMAIN wire /\ wire[1 + 1].kind = "PDU"
      BY <1>1, <3>1 DEF Traffic, PairInv
    <3>3. 1 + 1 # 1 /\ (1 + 1) - 1 = 1  OBVIOUS
    <3> QED  BY <1>1, <3>2, <3>3
  <2> QED  BY <2>1, <2>2 DEF PairInv
<1>8. ASSUME sp_response.id # 0 PROVE PendingInv'
  <2>1. PendingInv  BY <1>8 DEF Traffic
  <2>2. \A p \in Coming : p - 1 \in Places' /\ LineAt(p - 1)' = LineAt(p)
    BY <1>5, <1>8 DEF Coming, Mine
  <2> QED  BY <1>2, <1>4, <2>1, <2>2, MovesKeep
<1> QED  BY <1>2, <1>6, <1>7, <1>8 DEF Traffic

\* The reader's end.
LEMMA EndTraffic ==
    ASSUME IndInv, IndInv', Traffic,
           ReadFails \/ onReaderClosed \/ ReaderCloses \/ CallbackCloses \/ onATReaderClosed
    PROVE  Traffic'
<1>0. reader \in [at: ReaderStates, line: Line]  BY DEF IndInv, TypeOK, ChannelTypes
<1>1. /\ UNCHANGED <<wire, modem, sp_response, s_type, s_responsePrefix, sent>>
      /\ reader.at # "process" /\ reader'.at \notin {"process", "read2"}
  BY <1>0 DEF ReadFails, onReaderClosed, ReaderCloses, CallbackCloses, onATReaderClosed,
     pendingVars, history
<1>2. Places' = Places /\ \A p \in Places : LineAt(p)' = LineAt(p)
  <2>1. Places' = Places /\ Places = DOMAIN wire  BY <1>1 DEF Places
  <2>2. wire \in Seq(Line)  BY Typed
  <2>3. \A p \in Places : p # 0  BY <2>1, <2>2
  <2> QED  BY <1>1, <2>1, <2>3 DEF LineAt
<1>3. NumberInv' /\ PairInv'  BY <1>1, <1>2 DEF Traffic, NumberInv, PairInv
<1>4. ASSUME sp_response.id # 0 PROVE PendingInv'
  <2>1. \A p \in Places : p \in Nat  BY PlaceFacts
  <2>2. \A p \in Places : p + 0 = p /\ p - 0 = p  BY <2>1
  <2>3. PendingInv  BY <1>4 DEF Traffic
  <2> QED  BY <1>1, <1>2, <2>2, <2>3, MovesKeep DEF Coming
<1> QED  BY <1>1, <1>3, <1>4 DEF Traffic

\* The prompt is no intermediate line.
LEMMA PromptNotInfo == \A line : IsPrompt(line) => ~Info(line)
  BY Zenon DEF IsPrompt, Info

\* writeCtrlZ lets the modem go on, and changes no command.
LEMMA CtrlZFacts ==
    ASSUME IndInv, NEW line, writeCtrlZ(line)
    PROVE  /\ DOMAIN modem' = DOMAIN modem
           /\ \A i \in DOMAIN modem : /\ modem'[i].id = modem[i].id /\ modem'[i].cmd = modem[i].cmd
                                      /\ modem'[i].infos = modem[i].infos
<1>1. CASE UNCHANGED modem  BY <1>1
<1>2. CASE ~UNCHANGED modem
  <2> DEFINE M(i) == IF i = 1 /\ modem[i].stage = "prompted"
                       THEN [modem[i] EXCEPT !.stage = "run"] ELSE modem[i]
  <2>1. modem' = [i \in DOMAIN modem |-> M(i)]  BY <1>2 DEF writeCtrlZ
  <2>2. \A i \in DOMAIN modem : M(i).id = modem[i].id /\ M(i).cmd = modem[i].cmd
                                /\ M(i).infos = modem[i].infos
    <3> TAKE i \in DOMAIN modem
    <3>1. modem[i] \in ModemEntry  BY Typed
    <3> QED  BY <3>1 DEF ModemEntry
  <2> HIDE DEF M
  <2> QED  BY <2>1, <2>2
<1> QED  BY <1>1, <1>2

\* processLine deals with the line in its hands.
LEMMA ProcessTraffic ==
    ASSUME IndInv, IndInv', Traffic, processLine
    PROVE  Traffic'
<1> DEFINE line == reader.line
<1>0. sp_response \in Response /\ (\A p \in Places : p \in Nat) /\ wire \in Seq(Line)
      /\ reader \in [at: ReaderStates, line: Line]
  BY Typed, PlaceFacts DEF IndInv, TypeOK, ChannelTypes
<1>1. /\ UNCHANGED <<wire, s_type, s_responsePrefix, sent>>
      /\ reader.at = "process" /\ reader'.at = "read"
  BY DEF processLine
<1>2. /\ LineGone /\ LineAt(0) = line /\ 0 \in Places
      /\ \A p \in Places' : p \in Places /\ LineAt(p)' = LineAt(p)
      /\ \A p \in Places : p # 0 => p \in Places' /\ LineAt(p)' = LineAt(p)
  <2>1. Places = {0} \cup DOMAIN wire /\ Places' = DOMAIN wire  BY <1>1 DEF Places
  <2>2. 0 \notin DOMAIN wire  BY <1>0
  <2>3. \A p \in DOMAIN wire : LineAt(p)' = LineAt(p)  BY <1>1, <2>2 DEF LineAt
  <2>4. LineAt(0) = line  BY DEF LineAt
  <2> QED  BY <2>1, <2>2, <2>3, <2>4 DEF LineGone
<1>3. PairInv'  BY <1>1 DEF Traffic, PairInv
<1>4. line.id # 0 => Solicited(line)  BY <1>2 DEF Traffic, NumberInv
<1>5. \A p \in Places : p + 0 = p /\ p - 0 = p  BY <1>0
<1>6. ASSUME DOMAIN modem' = DOMAIN modem,
             \A i \in DOMAIN modem : /\ modem'[i].id = modem[i].id /\ modem'[i].cmd = modem[i].cmd
                                     /\ modem'[i].infos = modem[i].infos,
             UNCHANGED sp_response, sp_response.id # 0 /\ Mine(line) /\ Info(line) => Satisfied
      PROVE  Traffic'
  <2>1. NumberInv'  BY <1>1, <1>2, <1>6 DEF Traffic, NumberInv
  <2>2. ASSUME sp_response.id # 0 PROVE PendingInv'
    <3>1. PendingInv  BY <2>2 DEF Traffic
    <3>2. Satisfied \/ \A p \in Coming : p # 0  BY <1>2, <1>6, <2>2 DEF Coming
    <3>3. Satisfied \/ \A p \in Coming : p - 0 \in Places' /\ LineAt(p - 0)' = LineAt(p)
      BY <1>2, <1>5, <3>2 DEF Coming
    <3>4. \A p \in Places' : p + 0 \in Places /\ LineAt(p)' = LineAt(p + 0)  BY <1>2, <1>5
    <3> QED  BY <1>1, <1>6, <3>1, <3>3, <3>4, MovesKeep
  <2> QED  BY <1>1, <1>3, <1>6, <2>1, <2>2 DEF Traffic
<1>7. ASSUME UNCHANGED modem, sp_response # NULL, sp_response' # NULL,
             sp_response'.id = sp_response.id, PendingInv => PendingInv'
      PROVE  Traffic'
  <2>1. NumberInv'  BY <1>1, <1>2, <1>7 DEF Traffic, NumberInv
  <2> QED  BY <1>1, <1>3, <1>7, <2>1 DEF Traffic
<1>8. CASE (sp_response = NULL \/ isUnsolicited(line)) /\ UNCHANGED <<sp_response, modem>>
  <2>1. ~(sp_response.id # 0 /\ Mine(line))
    <3>1. NULL.id = 0  BY DEF NULL
    <3> QED  BY <1>4, <1>8, <3>1 DEF Mine, Solicited
  <2> QED  BY <1>6, <1>8, <2>1
<1>9. CASE /\ sp_response # NULL /\ UNCHANGED modem
           /\ isFinalResponseSuccess(line) \/ isFinalResponseError(line)
           /\ handleFinalResponse(line, isFinalResponseSuccess(line))
  <2>1. /\ sp_response'.id = sp_response.id /\ sp_response'.finalResponse = line
        /\ sp_response'.p_intermediates = sp_response.p_intermediates
    BY <1>0, <1>9 DEF handleFinalResponse, Response
  <2>2. sp_response.id # 0 /\ sp_response' # NULL
    <3>1. sp_response.id # 0  BY <1>9 DEF Traffic
    <3> QED  BY <2>1, <3>1 DEF NULL
  <2>3. Final(line)  BY <1>9 DEF Final
  <2>4. PendingInv => PendingInv'  BY <1>1, <1>2, <1>9, <2>1, <2>3, FinalKeeps
  <2> QED  BY <1>7, <1>9, <2>1, <2>2, <2>4
<1>10. CASE IsPrompt(line) /\ writeCtrlZ(line) /\ UNCHANGED sp_response
  <2>1. ~Info(line)  BY <1>10, PromptNotInfo
  <2> QED  BY <1>6, <1>10, <2>1, CtrlZFacts
<1>11. CASE sp_response # NULL /\ IsIntermediate(line) /\ addIntermediate(line) /\ UNCHANGED modem
  <2>1. /\ sp_response'.id = sp_response.id /\ sp_response'.finalResponse = sp_response.finalResponse
        /\ sp_response'.p_intermediates = <<line>> \o sp_response.p_intermediates
    BY <1>0, <1>11 DEF addIntermediate, Response
  <2>2. sp_response.id # 0 /\ sp_response' # NULL
    <3>1. sp_response.id # 0  BY <1>11 DEF Traffic
    <3> QED  BY <2>1, <3>1 DEF NULL
  <2>3. PendingInv => PendingInv'  BY <1>1, <1>2, <1>11, <2>1, <2>2, IntermediateKeeps
  <2> QED  BY <1>7, <1>11, <2>1, <2>2, <2>3
<1>12. CASE ~IsIntermediate(line) /\ UNCHANGED <<sp_response, modem>>
  <2>1. ASSUME sp_response.id # 0, Mine(line), Info(line) PROVE Satisfied
    <3>1. /\ line.kind = IF s_type = "NUMERIC" THEN "digits" ELSE "info"
          /\ line.prefix = s_responsePrefix
      BY <1>2, <2>1 DEF Traffic, PendingInv, ArrivalInv
    <3>2. s_type \in {"NO_RESULT", "NUMERIC", "SINGLELINE", "MULTILINE"}  BY Typed DEF Types
    <3> QED  BY <1>12, <3>1, <3>2 DEF IsIntermediate, Satisfied
  <2> QED  BY <1>6, <1>12, <2>1
<1> QED  BY <1>8, <1>9, <1>10, <1>11, <1>12 DEF processLine

\* A new session starts with nothing on the wire.
LEMMA OpenTraffic ==
    ASSUME IndInv, Traffic, at_open
    PROVE  Traffic'
<1>1. /\ wire' = <<>> /\ modem' = <<>> /\ reader'.at = "read" /\ sent' = sent
      /\ sp_response' = NULL /\ NULL.id = 0 /\ sent \in Nat
  BY Typed DEF at_open, clearPendingCommand, NULL
<1>2. DOMAIN wire' = {} /\ DOMAIN modem' = {}  BY <1>1
<1>3. Places' = {}  BY <1>1, <1>2 DEF Places
<1> QED  BY <1>1, <1>2, <1>3 DEF Traffic, NumberInv, PairInv

\* One more line of a command on the wire keeps the numbers and the pairs.
LEMMA AppendedNumbers ==
    ASSUME IndInv, Traffic, NEW x \in Line, wire' = Append(wire, x), UNCHANGED <<reader, sent>>,
           1 \in DOMAIN modem, x.id = modem[1].id, Solicited(x),
           \/ /\ DOMAIN modem' = DOMAIN modem
              /\ \A i \in DOMAIN modem : modem'[i].id = modem[i].id
           \/ \A i \in DOMAIN modem' : i \in Nat /\ i + 1 \in DOMAIN modem /\ modem'[i] = modem[i + 1]
    PROVE  NumberInv' /\ PairInv'
<1>1. PICK new \in Nat \ {0} :
         /\ LineAt(new)' = x /\ Places' = Places \cup {new}
         /\ \A p \in Places : p < new /\ LineAt(p)' = LineAt(p)
  BY AppendedPlace
<1>2. wire \in Seq(Line)  BY Typed
<1>3. NumberInv'
  <2>1. \A p \in Places' : LineAt(p)'.id <= sent' /\ (LineAt(p)'.id # 0 => Solicited(LineAt(p)'))
    BY <1>1 DEF Traffic, NumberInv
  <2>2. \A i \in DOMAIN modem' : modem'[i].id # 0 /\ modem'[i].id <= sent'
    BY DEF Traffic, NumberInv
  <2>3. \A i, j \in DOMAIN modem' : modem'[i].id = modem'[j].id => i = j
    <3>1. CASE /\ DOMAIN modem' = DOMAIN modem
               /\ \A i \in DOMAIN modem : modem'[i].id = modem[i].id
      BY <3>1 DEF Traffic, NumberInv
    <3>2. CASE \A i \in DOMAIN modem' : i \in Nat /\ i + 1 \in DOMAIN modem /\ modem'[i] = modem[i + 1]
      <4> TAKE i, j \in DOMAIN modem'
      <4>1. modem'[i].id = modem'[j].id => i + 1 = j + 1  BY <3>2 DEF Traffic, NumberInv
      <4> QED  BY <3>2, <4>1
    <3> QED  BY <3>1, <3>2
  <2> QED  BY <2>1, <2>2, <2>3 DEF NumberInv
<1>4. PairInv'
  <2>1. \A i \in DOMAIN wire' : \/ i \in DOMAIN wire /\ wire'[i] = wire[i]
                                \/ wire'[i] = x
    BY <1>2
  <2>2. \A i \in DOMAIN wire : i \in DOMAIN wire' /\ wire'[i] = wire[i]  BY <1>2
  <2>3. x.kind # "+CMT"  BY DEF Solicited
  <2> QED  BY <2>1, <2>2, <2>3 DEF Traffic, PairInv
<1> QED  BY <1>3, <1>4

\* A line of a command that is not pending, or that keeps what is pending.
LEMMA AppendedTraffic ==
    ASSUME IndInv, IndInv', Traffic, NEW x \in Line, wire' = Append(wire, x),
           UNCHANGED <<reader, sent, sp_response, s_type, s_responsePrefix>>,
           1 \in DOMAIN modem, x.id = modem[1].id, Solicited(x),
           \/ /\ DOMAIN modem' = DOMAIN modem
              /\ \A i \in DOMAIN modem : modem'[i].id = modem[i].id
              /\ \A i \in DOMAIN modem : i # 1 => modem'[i] = modem[i]
           \/ \A i \in DOMAIN modem' : /\ i \in Nat /\ i + 1 \in DOMAIN modem
                                       /\ modem'[i] = modem[i + 1],
           sp_response.id # 0 /\ Mine(modem[1]) /\ PendingInv => PendingInv'
    PROVE  Traffic'
<1>1. NumberInv' /\ PairInv'  BY AppendedNumbers
<1>2. ASSUME sp_response.id # 0, ~Mine(modem[1]) PROVE PendingInv'
  <2>1. PICK new \in Nat \ {0} :
           /\ LineAt(new)' = x /\ Places' = Places \cup {new}
           /\ \A p \in Places : p < new /\ LineAt(p)' = LineAt(p)
    BY AppendedPlace
  <2>2. \A p \in Places : p + 0 = p /\ p - 0 = p  BY PlaceFacts
  <2>3. \A p \in Places' : Mine(LineAt(p)') => p + 0 \in Places /\ LineAt(p)' = LineAt(p + 0)
    <3>1. ~Mine(x)  BY <1>2 DEF Mine
    <3> QED  BY <2>1, <2>2, <3>1
  <2>4. \A p \in Coming : p - 0 \in Places' /\ LineAt(p - 0)' = LineAt(p)
    BY <2>1, <2>2 DEF Coming
  <2>5. \A i \in DOMAIN modem' : modem'[i].id = sp_response.id =>
           \E j \in DOMAIN modem : modem[j] = modem'[i]
    <3>1. modem[1].id # sp_response.id  BY <1>2 DEF Mine
    <3> QED  BY <3>1
  <2>6. PendingInv  BY <1>2 DEF Traffic
  <2> QED  BY <2>3, <2>4, <2>5, <2>6, MovesKeep
<1> QED  BY <1>1, <1>2 DEF Traffic

\* What the modem says of its own accord.
LEMMA UrcFacts ==
    ASSUME NEW kind \in UrcKinds, NEW lines \in UrcLines(kind)
    PROVE  /\ lines \in Seq(Line) /\ \A i \in DOMAIN lines : lines[i].id = 0
           /\ \A i \in DOMAIN lines :
                 lines[i].kind = "+CMT" => i + 1 \in DOMAIN lines /\ lines[i + 1].kind = "PDU"
<1>1. ASSUME NEW k \in LineKinds, NEW p \in Prefixes \cup {NoPrefix}
      PROVE  Urc(k, p) \in Line /\ Urc(k, p).id = 0 /\ Urc(k, p).kind = k
  BY DEF Urc, Line
<1>2. CASE kind = "+CMT"
  <2> DEFINE x == Urc("+CMT", NoPrefix)
             y == Urc("PDU", NoPrefix)
  <2>1. lines = <<x, y>>  BY <1>2 DEF UrcLines
  <2>2. x \in Line /\ x.id = 0 /\ y \in Line /\ y.id = 0 /\ y.kind = "PDU" /\ y.kind # "+CMT"
    <3>1. "+CMT" \in LineKinds /\ "PDU" \in LineKinds  BY Zenon DEF LineKinds
    <3> QED  BY <1>1, <3>1
  <2> HIDE DEF x, y
  <2>3. DOMAIN lines = {1, 2} /\ lines[1] = x /\ lines[2] = y /\ lines \in Seq(Line)
    BY <2>1, <2>2
  <2>4. ASSUME NEW i \in DOMAIN lines, lines[i].kind = "+CMT"
        PROVE  i + 1 \in DOMAIN lines /\ lines[i + 1].kind = "PDU"
    BY <2>2, <2>3, <2>4
  <2> QED  BY <2>2, <2>3, <2>4
<1>3. ASSUME NEW x \in Line, x.id = 0, x.kind # "+CMT", lines = <<x>>
      PROVE  /\ lines \in Seq(Line) /\ \A i \in DOMAIN lines : lines[i].id = 0
             /\ \A i \in DOMAIN lines : lines[i].kind # "+CMT"
  <2>1. DOMAIN lines = {1} /\ lines[1] = x /\ lines \in Seq(Line)  BY <1>3
  <2> QED  BY <1>3, <2>1
<1>4. CASE kind = "+CREG"
  <2>1. PICK p \in Prefixes : lines = <<Urc("info", p)>>  BY <1>4 DEF UrcLines
  <2>2. Urc("info", p) \in Line /\ Urc("info", p).id = 0 /\ Urc("info", p).kind # "+CMT"
    <3>1. "info" \in LineKinds  BY Zenon DEF LineKinds
    <3> QED  BY <1>1, <3>1
  <2> QED  BY <1>3, <2>1, <2>2
<1>5. CASE kind # "+CMT" /\ kind # "+CREG"
  <2>1. lines = <<Urc(kind, NoPrefix)>>  BY <1>5 DEF UrcLines
  <2>2. kind \in LineKinds  BY <1>5, UrcAssumption, Zenon DEF LineKinds
  <2>3. Urc(kind, NoPrefix) \in Line /\ Urc(kind, NoPrefix).id = 0
        /\ Urc(kind, NoPrefix).kind # "+CMT"
    BY <1>1, <1>5, <2>2
  <2> QED  BY <1>3, <2>1, <2>3
<1> QED  BY <1>2, <1>4, <1>5

\* Such lines keep the invariant.
LEMMA UrcTraffic ==
    ASSUME IndInv, IndInv', Traffic, NEW kind \in UrcKinds, ModemUrc(kind)
    PROVE  Traffic'
<1>0. /\ UNCHANGED <<reader, modem, sp_response, s_type, s_responsePrefix, sent>>
      /\ wire \in Seq(Line) /\ \A p \in Places : p \in Nat
  BY Typed, PlaceFacts DEF ModemUrc, modemFrame, pendingVars, history
<1>1. PICK lines \in UrcLines(kind) : wire' = wire \o lines  BY DEF ModemUrc
<1>2. /\ lines \in Seq(Line) /\ \A i \in DOMAIN lines : lines[i].id = 0
      /\ \A i \in DOMAIN lines :
            lines[i].kind = "+CMT" => i + 1 \in DOMAIN lines /\ lines[i + 1].kind = "PDU"
  BY UrcFacts
<1>3. PICK L \in Nat : L = Len(wire)  BY <1>0
<1>4. /\ \A i \in DOMAIN wire : i \in DOMAIN wire' /\ wire'[i] = wire[i] /\ i # 0
      /\ \A i \in DOMAIN wire' :
            \/ i \in DOMAIN wire
            \/ i - L \in DOMAIN lines /\ wire'[i] = lines[i - L] /\ i \in Nat /\ i # 0
      /\ \A i \in DOMAIN lines : L + i \in DOMAIN wire' /\ wire'[L + i] = lines[i]
  <2>1. PICK N \in Nat : N = Len(lines)  BY <1>2
  <2>2. /\ DOMAIN wire = 1..L /\ DOMAIN lines = 1..N /\ DOMAIN wire' = 1..(L + N)
        /\ \A i \in 1..(L + N) : wire'[i] = IF i <= L THEN wire[i] ELSE lines[i - L]
    BY <1>0, <1>1, <1>2, <1>3, <2>1, ConcatProperties
  <2>3. ASSUME NEW i \in 1..(L + N), i \notin 1..L
        PROVE  i - L \in 1..N /\ ~(i <= L) /\ i \in Nat /\ i # 0
    BY <2>3
  <2>4. ASSUME NEW i \in 1..N PROVE L + i \in 1..(L + N) /\ ~(L + i <= L) /\ (L + i) - L = i
    OBVIOUS
  <2>5. ASSUME NEW i \in 1..L PROVE i \in 1..(L + N) /\ i <= L /\ i # 0
    OBVIOUS
  <2>6. \A i \in DOMAIN lines : L + i \in DOMAIN wire' /\ wire'[L + i] = lines[i]
    BY <2>2, <2>4
  <2> QED  BY <2>2, <2>3, <2>5, <2>6
<1>5. /\ \A p \in Places : p \in Places' /\ LineAt(p)' = LineAt(p)
      /\ \A p \in Places' : LineAt(p)'.id # 0 => p \in Places
  <2>1. \A p \in Places : p \in Places' /\ LineAt(p)' = LineAt(p)
    BY <1>0, <1>4 DEF Places, LineAt
  <2>2. ASSUME NEW p \in Places', p \notin Places PROVE LineAt(p)'.id = 0
    <3>1. p \in DOMAIN wire' /\ p \notin DOMAIN wire  BY <1>0, <2>2 DEF Places
    <3> QED  BY <1>2, <1>4, <3>1 DEF LineAt
  <2> QED  BY <2>1, <2>2
<1>6. NumberInv'
  <2>1. sent \in Nat  BY Typed
  <2>2. \A p \in Places' : LineAt(p)'.id <= sent
    BY <1>5, <2>1 DEF Traffic, NumberInv
  <2> QED  BY <1>0, <1>5, <2>2 DEF Traffic, NumberInv
<1>7. PairInv'
  <2>1. ASSUME NEW i \in DOMAIN wire', wire'[i].kind = "+CMT"
        PROVE  i + 1 \in DOMAIN wire' /\ wire'[i + 1].kind = "PDU"
    <3>1. CASE i \in DOMAIN wire  BY <1>4, <2>1, <3>1 DEF Traffic, PairInv
    <3>2. CASE i \notin DOMAIN wire
      <4>1. (i - L) + 1 \in DOMAIN lines /\ lines[(i - L) + 1].kind = "PDU"
        BY <1>2, <1>4, <2>1, <3>2
      <4>2. L + ((i - L) + 1) = i + 1  BY <1>4, <3>2
      <4> QED  BY <1>4, <4>1, <4>2
    <3> QED  BY <3>1, <3>2
  <2> QED  BY <1>0, <1>4, <2>1 DEF Traffic, PairInv
<1>8. ASSUME sp_response.id # 0 PROVE PendingInv'
  <2>1. \A p \in Places : p + 0 = p /\ p - 0 = p  BY <1>0
  <2>2. \A p \in Places' : Mine(LineAt(p)') => p + 0 \in Places /\ LineAt(p)' = LineAt(p + 0)
    BY <1>5, <1>8, <2>1 DEF Mine
  <2>3. \A p \in Coming : p - 0 \in Places' /\ LineAt(p - 0)' = LineAt(p)
    BY <1>5, <2>1 DEF Coming
  <2>4. PendingInv  BY <1>8 DEF Traffic
  <2> QED  BY <1>0, <2>2, <2>3, <2>4, MovesKeep
<1> QED  BY <1>0, <1>6, <1>7, <1>8 DEF Traffic

\* What the modem says about its command.
LEMMA ModemTraffic ==
    ASSUME IndInv, IndInv', Traffic, ModemInfo \/ ModemPrompt \/ ModemFinal \/ ModemHangup
    PROVE  Traffic'
<1>0. /\ UNCHANGED <<reader, sp_response, s_type, s_responsePrefix, sent>>
      /\ wire \in Seq(Line) /\ modem \in Seq(ModemEntry)
  BY Typed DEF ModemInfo, ModemPrompt, ModemFinal, ModemHangup, modemFrame, pendingVars, history
<1>1. CASE ModemHangup
  <2>1. modem' = <<>> /\ wire' = wire /\ DOMAIN modem' = {}  BY <1>1 DEF ModemHangup
  <2>2. Places' = Places /\ \A p : LineAt(p)' = LineAt(p)  BY <1>0, <2>1 DEF Places, LineAt
  <2>3. NumberInv' /\ PairInv'  BY <1>0, <2>1, <2>2 DEF Traffic, NumberInv, PairInv
  <2>4. ASSUME sp_response.id # 0 PROVE PendingInv'
    <3>1. \A p \in Places : p + 0 = p /\ p - 0 = p  BY PlaceFacts
    <3>2. PendingInv  BY <2>4 DEF Traffic
    <3> QED  BY <1>0, <2>1, <2>2, <3>1, <3>2, MovesKeep DEF Coming
  <2> QED  BY <1>0, <2>3, <2>4 DEF Traffic
<1>2. ASSUME ~ModemHangup
      PROVE  /\ 1 \in DOMAIN modem /\ Head(modem) = modem[1] /\ modem[1] \in ModemEntry
             /\ modem # <<>>
  <2>1. modem # <<>>  BY <1>2 DEF ModemInfo, ModemPrompt, ModemFinal
  <2> QED  BY <1>0, <2>1
<1>3. CASE ModemInfo
  <2> DEFINE kind == IF modem[1].cmd.type = "NUMERIC" THEN "digits" ELSE "info"
             c == modem[1]
             x == Answer(kind, c, c.infos + 1)
             e == [c EXCEPT !.infos = c.infos + 1]
  <2>0. 1 \in DOMAIN modem /\ Head(modem) = c /\ c \in ModemEntry
    <3>1. modem # <<>>  BY <1>3 DEF ModemInfo
    <3> QED  BY <1>0, <3>1
  <2>1. wire' = Append(wire, x) /\ modem' = [modem EXCEPT ![1] = e]
    BY <1>3, <2>0 DEF ModemInfo
  <2>2. /\ x \in Line /\ x.id = c.id /\ x.n = c.infos + 1 /\ x.prefix = c.cmd.prefix
        /\ x.kind = kind
    <3>1. kind \in LineKinds  BY Zenon DEF LineKinds
    <3> HIDE DEF kind
    <3> QED  BY <2>0, <3>1 DEF Answer, Line, ModemEntry, Command
  <2>3. Info(x) /\ Solicited(x)
    <3>1. Info(x)  BY <2>2 DEF Info
    <3> QED  BY <3>1, InfoNotFinal
  <2>4. e.id = c.id /\ e.cmd = c.cmd /\ e.infos = c.infos + 1
    BY <2>0 DEF ModemEntry
  <2>5. /\ DOMAIN modem' = DOMAIN modem /\ modem'[1] = e
        /\ \A i \in DOMAIN modem : i # 1 => modem'[i] = modem[i]
    <3> HIDE DEF e
    <3> QED  BY <2>0, <2>1
  <2>6. \A i \in DOMAIN modem : modem'[i].id = modem[i].id
    <3> HIDE DEF e
    <3> QED  BY <2>4, <2>5
  <2>7. sp_response.id # 0 /\ Mine(c) /\ PendingInv => PendingInv'
    <3> HIDE DEF x, e
    <3> QED  BY <1>0, <2>0, <2>1, <2>2, <2>4, <2>5, <2>6, InfoKeeps DEF Traffic
  <2> HIDE DEF x, e
  <2> QED  BY <1>0, <2>0, <2>1, <2>2, <2>3, <2>5, <2>6, <2>7, AppendedTraffic
<1>4. CASE ModemPrompt
  <2> DEFINE c == modem[1]
             x == Answer("> ", c, 0)
             e == [c EXCEPT !.stage = "prompted"]
  <2>0. 1 \in DOMAIN modem /\ Head(modem) = c /\ c \in ModemEntry
    <3>1. modem # <<>>  BY <1>4 DEF ModemPrompt
    <3> QED  BY <1>0, <3>1
  <2>1. wire' = Append(wire, x) /\ modem' = [modem EXCEPT ![1] = e]
    BY <1>4, <2>0 DEF ModemPrompt
  <2>2. x \in Line /\ x.id = c.id
    <3>1. "> " \in LineKinds  BY Zenon DEF LineKinds
    <3>2. \A k \in LineKinds : Answer(k, c, 0) \in Line /\ Answer(k, c, 0).id = c.id
      BY <2>0 DEF Answer, Line, ModemEntry, Command
    <3> QED  BY <3>1, <3>2, Zenon
  <2>3. ~Info(x) /\ ~Final(x) /\ Solicited(x)
    <3>1. x.kind = "> "  BY Zenon DEF Answer
    <3> QED
      BY <3>1, Zenon DEF Info, Final, isFinalResponseSuccess, isFinalResponseError, Solicited,
         isUnsolicited
  <2>4. e.id = c.id /\ e.cmd = c.cmd /\ e.infos = c.infos
    BY <2>0 DEF ModemEntry
  <2>5. /\ DOMAIN modem' = DOMAIN modem /\ modem'[1] = e
        /\ \A i \in DOMAIN modem : i # 1 => modem'[i] = modem[i]
    <3> HIDE DEF x, e
    <3> QED  BY <2>0, <2>1
  <2>6. \A i \in DOMAIN modem : /\ modem'[i].id = modem[i].id /\ modem'[i].cmd = modem[i].cmd
                                /\ modem'[i].infos = modem[i].infos
    <3> HIDE DEF x, e
    <3> QED  BY <2>4, <2>5
  <2> HIDE DEF x, e
  <2>7. sp_response.id # 0 /\ Mine(c) /\ PendingInv => PendingInv'
    BY <1>0, <2>0, <2>1, <2>2, <2>3, <2>5, <2>6, PromptKeeps
  <2> QED  BY <1>0, <2>0, <2>1, <2>2, <2>3, <2>5, <2>6, <2>7, AppendedTraffic
<1>5. CASE ModemFinal
  <2> DEFINE c == modem[1]
  <2>0. 1 \in DOMAIN modem /\ Head(modem) = c /\ c \in ModemEntry /\ modem # <<>>
    <3>1. modem # <<>>  BY <1>5 DEF ModemFinal
    <3> QED  BY <1>0, <3>1
  <2>1. PICK kind \in {"OK", "ERROR"} : wire' = Append(wire, Answer(kind, c, c.infos))
    BY <1>5, <2>0 DEF ModemFinal
  <2> DEFINE x == Answer(kind, c, c.infos)
  <2>2. x \in Line /\ x.id = c.id /\ x.n = c.infos /\ x.kind = kind
    <3>1. kind \in LineKinds  BY Zenon DEF LineKinds
    <3> QED  BY <2>0, <3>1 DEF Answer, Line, ModemEntry, Command
  <2>3. Final(x) /\ Solicited(x)
    BY <2>2, Zenon DEF Final, isFinalResponseSuccess, isFinalResponseError, Solicited, isUnsolicited
  <2>4. \A i \in DOMAIN modem' : /\ i \in Nat /\ i + 1 \in DOMAIN modem /\ i + 1 # 1
                                 /\ modem'[i] = modem[i + 1]
    <3>1. modem' = Tail(modem)  BY <1>5 DEF ModemFinal
    <3> QED  BY <1>0, <2>0, <3>1
  <2> HIDE DEF x
  <2>5. wire' = Append(wire, x)  BY <2>1 DEF x
  <2>6. sp_response.id # 0 /\ Mine(c) /\ PendingInv => PendingInv'
    BY <1>0, <2>0, <2>2, <2>3, <2>4, <2>5, LastKeeps DEF Traffic
  <2> QED  BY <1>0, <2>0, <2>2, <2>3, <2>4, <2>5, <2>6, AppendedTraffic
<1> QED  BY <1>1, <1>3, <1>4, <1>5

\* Every step keeps the invariant of the lines on their way.
LEMMA TrafficStep ==
    ASSUME IndInv, IndInv', Traffic, [Next]_vars
    PROVE  Traffic'
<1>1. ASSUME NEW t \in Threads,
             \/ \E c \in Commands : Call(t, c)
             \/ CallHandshake(t) \/ LockCommandMutex(t) \/ TimeoutFires(t) \/ SpuriousWakeup(t)
             \/ WakeCrashes(t) \/ WakeAgain(t) \/ HandshakePauseEnds(t)
             \/ OnTimeoutCloses(t) \/ at_close(t) \/ OnTimeoutExits(t)
      PROVE  Traffic'
  <2>1. UNCHANGED <<wire, reader, modem, sp_response, s_type, s_responsePrefix, sent>>
    <3>1. CASE \/ \E c \in Commands : Call(t, c)
               \/ CallHandshake(t) \/ LockCommandMutex(t) \/ TimeoutFires(t) \/ SpuriousWakeup(t)
      BY <3>1 DEF Call, CallHandshake, LockCommandMutex, TimeoutFires, SpuriousWakeup,
         pendingVars, modemVars, history
    <3>2. CASE WakeCrashes(t) \/ WakeAgain(t) \/ HandshakePauseEnds(t)
      BY <3>2 DEF WakeCrashes, WakeAgain, HandshakePauseEnds, pendingVars, modemVars, history
    <3>3. CASE OnTimeoutCloses(t) \/ at_close(t) \/ OnTimeoutExits(t)
      BY <3>3 DEF OnTimeoutCloses, at_close, OnTimeoutExits, pendingVars, modemVars, history
    <3> QED  BY <1>1, <3>1, <3>2, <3>3
  <2> QED  BY <2>1, StillTraffic
<1>2. ASSUME NEW t \in Threads, SendPending(t) \/ SendFails(t) \/ TimedOut(t) \/ WakeReturns(t)
      PROVE  Traffic'
  <2>1. clearPendingCommand /\ UNCHANGED <<wire, reader, modem, sent>>
    BY <1>2 DEF SendPending, SendFails, TimedOut, WakeReturns, modemVars, history
  <2> QED  BY <2>1, ClearedTraffic
<1>3. ASSUME NEW t \in Threads, SendWaits(t) PROVE Traffic'
  BY <1>3, SentTraffic
<1>4. CASE Reader
  BY <1>4, ReadTraffic, ProcessTraffic, EndTraffic DEF Reader
<1>5. CASE at_open  BY <1>5, OpenTraffic
<1>6. CASE Modem  BY <1>6, ModemTraffic, UrcTraffic DEF Modem
<1>7. CASE UNCHANGED vars
  BY <1>7, StillTraffic DEF vars, pendingVars, modemVars, history
<1> QED
  BY <1>1, <1>2, <1>3, <1>4, <1>5, <1>6, <1>7 DEF Next, Step, Terminating, Thread

-----------------------------------------------------------------------------
(* What the caller gets.                                                     *)

\* With the final line in, all the pending command asked for has been kept, and
\* reverseIntermediates turns it round.
LEMMA CompleteOutcome ==
    ASSUME IndInv, Traffic, sp_response # NULL, Mine(sp_response.finalResponse),
           NEW g, g.type = s_type, g.id = sp_response.id,
           g.response = reverseIntermediates(sp_response)
    PROVE  Complete(g)
<1>1. PICK s \in Seq(Line) : s = sp_response.p_intermediates  BY Typed
<1>2. PICK L \in Nat : L = Len(s) /\ DOMAIN s = 1..L  BY <1>1
<1>3. PICK r : r = g.response.p_intermediates  OBVIOUS
<1>4. PICK n \in Nat : n = g.response.finalResponse.n /\ n = sp_response.finalResponse.n
  <2>1. sp_response \in Response  BY Typed
  <2>2. g.response.finalResponse = sp_response.finalResponse
    BY <2>1 DEF reverseIntermediates, Response
  <2>3. sp_response.finalResponse.n \in Nat  BY <2>1 DEF Response, Line
  <2> QED  BY <2>2, <2>3
<1>5. r = [i \in 1..L |-> s[L + 1 - i]]
  BY <1>1, <1>2, <1>3, Typed DEF reverseIntermediates, Response
<1>6. /\ DOMAIN r = 1..L /\ \A i \in 1..L : L + 1 - i \in 1..L /\ r[i] = s[L + 1 - i]
      /\ r \in Seq(Line) /\ Len(r) = L
  <2>1. \A i \in 1..L : L + 1 - i \in 1..L  BY <1>2
  <2>2. \A i \in 1..L : s[L + 1 - i] \in Line  BY <1>1, <1>2, <2>1
  <2> QED  BY <1>5, <2>1, <2>2
<1> DEFINE own == {i \in DOMAIN r : r[i].id = sp_response.id}
<1>7. PendingInv /\ Said(n) /\ Whole(n)
  <2>1. PendingInv  BY DEF Traffic
  <2>2. Said(n)  BY <1>4 DEF Said
  <2> QED  BY <2>1, <2>2 DEF PendingInv, WholeInv
<1>8. Coming = {} /\ ComingNumbers = {}
  <2>1. Coming = {}  BY <1>7 DEF PendingInv, ArrivalInv, Coming
  <2> QED  BY <2>1 DEF ComingNumbers
<1>9. /\ \A i \in own : L + 1 - i \in Kept /\ r[i] = s[L + 1 - i] /\ i \in 1..L
      /\ \A j \in Kept : L + 1 - j \in own /\ r[L + 1 - j] = s[j]
  <2>1. Kept = {i \in 1..L : s[i].id = sp_response.id}  BY <1>1, <1>2 DEF Kept, Mine
  <2>2. \A j \in 1..L : L + 1 - j \in 1..L /\ L + 1 - (L + 1 - j) = j  OBVIOUS
  <2>3. \A j \in 1..L : r[L + 1 - j] = s[j]  BY <1>6, <2>2
  <2> QED  BY <1>6, <2>1, <2>2, <2>3
<1>10. s_type \in {"NO_RESULT", "NUMERIC", "SINGLELINE", "MULTILINE"}  BY Typed DEF Types
<1>11. /\ \A i, j \in own : i < j => r[i].n < r[j].n
       /\ s_type = "MULTILINE" => {r[i].n : i \in own} = 1..n
       /\ s_type = "NO_RESULT" => r = <<>>
       /\ s_type \in {"SINGLELINE", "NUMERIC"} =>
             /\ Len(r) <= 1 /\ (n > 0 => Len(r) = 1) /\ \A i \in own : r[i].n = 1
  <2>1. CASE s_type = "MULTILINE"
    <3>1. AllLines(n)  BY <1>7, <2>1 DEF Whole
    <3>2. \A i, j \in own : i < j => r[i].n < r[j].n
      <4> SUFFICES ASSUME NEW i \in own, NEW j \in own, i < j PROVE r[i].n < r[j].n  OBVIOUS
      <4> HIDE DEF own
      <4>1. L + 1 - j < L + 1 - i  BY <1>9
      <4> QED  BY <1>1, <1>9, <3>1, <4>1 DEF AllLines
    <3>3. {r[i].n : i \in own} = 1..n
      <4> HIDE DEF own
      <4>1. KeptNumbers = 1..n  BY <1>8, <3>1 DEF AllLines
      <4>2. KeptNumbers = {s[j].n : j \in Kept}  BY <1>1 DEF KeptNumbers
      <4>3. ASSUME NEW m \in {s[j].n : j \in Kept} PROVE m \in {r[i].n : i \in own}
        <5>1. PICK j \in Kept : m = s[j].n  BY <4>3
        <5> QED  BY <1>9, <5>1
      <4>4. ASSUME NEW m \in {r[i].n : i \in own} PROVE m \in {s[j].n : j \in Kept}
        <5>1. PICK i \in own : m = r[i].n  BY <4>4
        <5> QED  BY <1>9, <5>1
      <4> QED  BY <4>1, <4>2, <4>3, <4>4
    <3> QED  BY <2>1, <3>2, <3>3
  <2>2. CASE s_type = "NO_RESULT"
    <3>1. s = <<>>  BY <1>1, <1>7, <2>2 DEF Whole
    <3>2. Len(r) = 0  BY <1>2, <1>6, <3>1, EmptySeq
    <3>3. r = <<>>  BY <1>6, <3>2, EmptySeq
    <3>4. own = {}  BY <1>6, <3>2
    <3> QED  BY <2>2, <3>3, <3>4
  <2>3. CASE s_type \in {"SINGLELINE", "NUMERIC"}
    <3>1. FirstLine(n)  BY <1>7, <2>3 DEF Whole
    <3>2. L <= 1  BY <1>1, <1>2, <3>1 DEF FirstLine
    <3>3. n > 0 => L = 1
      <4>1. CASE s = <<>>
        <5>1. 1..n = {}  BY <1>1, <1>8, <3>1, <4>1 DEF FirstLine
        <5>2. n > 0 => 1 \in 1..n  OBVIOUS
        <5> QED  BY <5>1, <5>2
      <4>2. CASE s # <<>>
        <5>1. L # 0  BY <1>1, <1>2, <4>2, EmptySeq
        <5> QED  BY <3>2, <5>1
      <4> QED  BY <4>1, <4>2
    <3>4. \A i \in own : r[i].n = 1  BY <1>1, <1>9, <3>1 DEF FirstLine
    <3>5. \A i, j \in own : ~(i < j)
      <4>1. \A i \in own : i \in 1..1  BY <1>6, <3>2
      <4> QED  BY <4>1
    <3> QED  BY <1>6, <2>3, <3>2, <3>3, <3>4, <3>5
  <2> QED  BY <1>10, <2>1, <2>2, <2>3
<1>12. {i \in DOMAIN r : r[i].id = g.id} = own  OBVIOUS
<1> HIDE DEF own
<1> QED  BY <1>3, <1>4, <1>10, <1>11, <1>12 DEF Complete

\* The waiter's own type of command is the one the reader goes by.
LEMMA WaiterStep ==
    ASSUME IndInv, ~intruded, WaiterInv, [Next]_vars
    PROVE  WaiterInv'
<1>0. /\ OwnerInv /\ TypeOK /\ Nobody \notin Threads /\ sp_response \in Response
      /\ call \in [Threads -> Command]
  BY ThreadsAssumption DEF IndInv, TypeOK, PendingTypes, CallTypes
<1>1. ASSUME UNCHANGED <<sp_response, s_type, call>> PROVE WaiterInv'
  BY <1>1 DEF WaiterInv
<1>2. ASSUME NEW t \in Threads, (\E c \in Commands : Call(t, c)) \/ CallHandshake(t)
      PROVE  WaiterInv'
  <2>1. /\ UNCHANGED <<sp_response, s_type>> /\ pc[t] = "idle"
        /\ \A u \in Threads \ {t} : call'[u] = call[u]
    BY <1>0, <1>2 DEF Call, CallHandshake, pendingVars
  <2>2. sp_response.owner # t  BY <1>0, <2>1 DEF OwnerInv, Blocked
  <2> QED  BY <2>1, <2>2 DEF WaiterInv
<1>3. ASSUME NEW t \in Threads,
             \/ LockCommandMutex(t) \/ TimeoutFires(t) \/ SpuriousWakeup(t)
             \/ WakeCrashes(t) \/ WakeAgain(t) \/ HandshakePauseEnds(t)
             \/ OnTimeoutCloses(t) \/ at_close(t) \/ OnTimeoutExits(t)
      PROVE  WaiterInv'
  <2>1. CASE LockCommandMutex(t) \/ TimeoutFires(t) \/ SpuriousWakeup(t) \/ WakeCrashes(t)
    BY <1>1, <2>1
    DEF LockCommandMutex, TimeoutFires, SpuriousWakeup, WakeCrashes, pendingVars, callVars
  <2>2. CASE WakeAgain(t) \/ HandshakePauseEnds(t) \/ OnTimeoutCloses(t) \/ at_close(t)
             \/ OnTimeoutExits(t)
    BY <1>1, <2>2
    DEF WakeAgain, HandshakePauseEnds, OnTimeoutCloses, at_close, OnTimeoutExits, pendingVars, callVars
  <2> QED  BY <1>3, <2>1, <2>2
<1>4. ASSUME NEW t \in Threads, SendPending(t) \/ SendFails(t) \/ TimedOut(t) \/ WakeReturns(t)
      PROVE  WaiterInv'
  <2>1. sp_response' = NULL
    BY <1>4 DEF SendPending, SendFails, TimedOut, WakeReturns, clearPendingCommand
  <2> QED  BY <1>0, <2>1, NullFacts DEF WaiterInv
<1>5. ASSUME NEW t \in Threads, SendWaits(t) PROVE WaiterInv'
  <2>1. sp_response'.owner = t /\ s_type' = call[t].type /\ call' = call
    BY <1>5 DEF SendWaits, NULL, callVars
  <2> QED  BY <2>1 DEF WaiterInv
<1>6. CASE Reader
  <2>1. UNCHANGED <<s_type, call>> /\ sp_response'.owner = sp_response.owner
    <3>1. CASE processLine
      BY <1>0, <3>1
      DEF processLine, readerFrame, callVars, handleFinalResponse, addIntermediate, Response
    <3>2. CASE ~processLine
      BY <1>6, <3>2 DEF Reader, ReadLine, ReadFails, onReaderClosed, ReaderCloses, CallbackCloses,
         onATReaderClosed, readerFrame, callVars, pendingVars
    <3> QED  BY <3>1, <3>2
  <2> QED  BY <2>1 DEF WaiterInv
<1>7. CASE at_open
  <2>1. sp_response' = NULL  BY <1>7 DEF at_open, clearPendingCommand
  <2> QED  BY <1>0, <2>1, NullFacts DEF WaiterInv
<1>8. CASE Modem \/ UNCHANGED vars
  BY <1>1, <1>8 DEF Modem, ModemInfo, ModemPrompt, ModemFinal, ModemHangup, ModemUrc, modemFrame,
     vars, callVars, pendingVars
<1> QED
  BY <1>2, <1>3, <1>4, <1>5, <1>6, <1>7, <1>8 DEF Next, Step, Terminating, Thread

\* An answer that is handed to its caller is complete.
LEMMA CompleteStep ==
    ASSUME IndInv, Traffic, ~intruded, WaiterInv, CompleteAnswer, [Next]_vars
    PROVE  CompleteAnswer'
<1>0. got \in [Threads -> [err: Errors, type: Types, id: Nat, response: Response]]
  BY DEF IndInv, TypeOK, CallTypes
<1> DEFINE Good(g) == g.err = "NONE" /\ g.response # NULL /\ g.response.finalResponse.id = g.id
                         => Complete(g)
<1>1. CompleteAnswer <=> \A t \in Threads : Good(got[t])  BY DEF CompleteAnswer
<1>2. CompleteAnswer' <=> \A t \in Threads : Good(got'[t])
  BY DEF CompleteAnswer, Complete, NULL, NoLine
<1> HIDE DEF Good
<1>3. ASSUME UNCHANGED got PROVE CompleteAnswer'  BY <1>1, <1>2, <1>3
<1>4. ASSUME NEW t \in Threads, NEW g, got' = [got EXCEPT ![t] = g], Good(g) PROVE CompleteAnswer'
  <2>1. \A u \in Threads : got'[u] = IF u = t THEN g ELSE got[u]  BY <1>0, <1>4
  <2> QED  BY <1>1, <1>2, <1>4, <2>1
<1>5. \A c, err, id : Good(Outcome(c, err, id, NULL))
  <2> TAKE c, err, id
  <2>1. Outcome(c, err, id, NULL).response = NULL  BY DEF Outcome
  <2> QED  BY <2>1 DEF Good
<1>6. ASSUME NEW t \in Threads, NEW err, NEW id, NEW r, NolockReturns(t, err, id, r),
             Good(Outcome(call[t], err, id, r))
      PROVE  CompleteAnswer'
  <2>1. CASE HandshakeReturns(t, err, id)
    <3>1. got' = got \/ got' = [got EXCEPT ![t] = Outcome(call[t], err, id, NULL)]
      BY <2>1 DEF HandshakeReturns
    <3> QED  BY <1>3, <1>4, <1>5, <3>1
  <2>2. CASE FullReturns(t, err, id, r)
    <3>1. got' = [got EXCEPT ![t] = Outcome(call[t], err, id, r)]  BY <2>2 DEF FullReturns
    <3> QED  BY <1>4, <1>6, <3>1
  <2> QED  BY <1>6, <2>1, <2>2 DEF NolockReturns
<1>7. ASSUME NEW t \in Threads, SendPending(t) \/ SendFails(t) \/ TimedOut(t) PROVE CompleteAnswer'
  <2>1. PICK err : NolockReturns(t, err, 0, NULL)
    BY <1>7 DEF SendPending, SendFails, TimedOut
  <2> QED  BY <1>5, <1>6, <2>1
<1>8. ASSUME NEW t \in Threads, WakeReturns(t) PROVE CompleteAnswer'
  <2> DEFINE r == reverseIntermediates(sp_response)
  <2>1. PICK err : NolockReturns(t, err, sp_response.id, r)  BY <1>8 DEF WakeReturns
  <2>2. sp_response # NULL /\ s_type = call[t].type
    <3>1. Blocked(t) /\ sp_response # NULL  BY <1>8 DEF WakeReturns, Blocked
    <3> QED  BY <3>1 DEF IndInv, OwnerInv, WaiterInv
  <2> DEFINE g == Outcome(call[t], err, sp_response.id, r)
  <2>3. g.id = sp_response.id /\ g.type = call[t].type /\ g.response \in {NULL, r}
    BY DEF Outcome
  <2>4. Good(g)
    <3> SUFFICES ASSUME g.response # NULL, g.response.finalResponse.id = g.id PROVE Complete(g)
      BY DEF Good
    <3> HIDE DEF g
    <3>1. g.response = r  BY <2>3
    <3>2. r.finalResponse = sp_response.finalResponse
      <4>1. sp_response \in Response  BY Typed
      <4> QED  BY <4>1 DEF reverseIntermediates, Response
    <3>3. Mine(sp_response.finalResponse)
      <4> HIDE DEF r
      <4> QED  BY <2>3, <3>1, <3>2 DEF Mine
    <3> QED  BY <2>2, <2>3, <3>1, <3>3, CompleteOutcome
  <2> QED  BY <1>6, <2>1, <2>4
<1>9. ASSUME NEW t \in Threads,
             \/ \E c \in Commands : Call(t, c)
             \/ CallHandshake(t) \/ LockCommandMutex(t) \/ TimeoutFires(t) \/ SpuriousWakeup(t)
             \/ SendWaits(t) \/ WakeCrashes(t) \/ WakeAgain(t) \/ HandshakePauseEnds(t)
             \/ OnTimeoutCloses(t) \/ at_close(t) \/ OnTimeoutExits(t)
      PROVE  CompleteAnswer'
  <2>1. UNCHANGED got
    <3>1. CASE \/ \E c \in Commands : Call(t, c)
               \/ CallHandshake(t) \/ LockCommandMutex(t) \/ TimeoutFires(t) \/ SpuriousWakeup(t)
               \/ SendWaits(t)
      BY <3>1 DEF Call, CallHandshake, LockCommandMutex, TimeoutFires, SpuriousWakeup, SendWaits,
         callVars
    <3>2. CASE \/ WakeCrashes(t) \/ WakeAgain(t) \/ HandshakePauseEnds(t) \/ OnTimeoutCloses(t)
               \/ at_close(t) \/ OnTimeoutExits(t)
      BY <3>2 DEF WakeCrashes, WakeAgain, HandshakePauseEnds, OnTimeoutCloses, at_close,
         OnTimeoutExits, callVars
    <3> QED  BY <1>9, <3>1, <3>2
  <2> QED  BY <1>3, <2>1
<1>10. CASE Reader \/ at_open
  <2>1. UNCHANGED got
    BY <1>10 DEF Reader, ReadLine, ReadFails, processLine, onReaderClosed, ReaderCloses,
       CallbackCloses, onATReaderClosed, readerFrame, callVars, at_open
  <2> QED  BY <1>3, <2>1
<1>11. CASE Modem \/ UNCHANGED vars
  <2>1. UNCHANGED got
    BY <1>11 DEF Modem, ModemInfo, ModemPrompt, ModemFinal, ModemHangup, ModemUrc, modemFrame,
       vars, callVars
  <2> QED  BY <1>3, <2>1
<1> QED
  BY <1>7, <1>8, <1>9, <1>10, <1>11 DEF Next, Step, Terminating, Thread

-----------------------------------------------------------------------------
(* The theorems.                                                             *)

\* The invariant holds of the initial states ...
LEMMA AnswerInit == ASSUME Init PROVE AnswerInv
<1>1. IndInv  BY InitInv
<1>2. Places = {} /\ modem = <<>> /\ wire = <<>> /\ reader.at = "read"
  <2>1. wire = <<>> /\ reader.at = "read"  BY DEF Init
  <2> QED  BY <2>1 DEF Init, Places
<1>3. sp_response = NULL /\ NULL.id = 0 /\ sent = 0  BY DEF Init, NULL
<1>4. Traffic  BY <1>2, <1>3 DEF Traffic, NumberInv, PairInv
<1>5. WaiterInv  BY <1>3, NullFacts, ThreadsAssumption DEF WaiterInv
<1>6. CompleteAnswer  BY DEF Init, CompleteAnswer, NoCall
<1> QED  BY <1>1, <1>4, <1>5, <1>6 DEF AnswerInv

\* ... and every step keeps it.
LEMMA AnswerStep == ASSUME AnswerInv, [Next]_vars PROVE AnswerInv'
<1>1. IndInv /\ IndInv' /\ Traffic  BY NextInv DEF AnswerInv
<1>2. Traffic'  BY <1>1, TrafficStep
<1>3. ~intruded' => ~intruded
  <2>1. intruded' = intruded \/ intruded'
    <3>1. ASSUME NEW t \in Threads, Thread(t) PROVE intruded' = intruded \/ intruded'
      BY <3>1 DEF Thread, LockCommandMutex, SendPending, SendFails, SendWaits, TimedOut, WakeCrashes,
         WakeAgain, WakeReturns, HandshakePauseEnds, OnTimeoutCloses, at_close, OnTimeoutExits, history
    <3>2. ASSUME NEW t \in Threads,
                 \/ \E c \in Commands : Call(t, c)
                 \/ CallHandshake(t) \/ TimeoutFires(t) \/ SpuriousWakeup(t)
          PROVE  intruded' = intruded
      BY <3>2 DEF Call, CallHandshake, TimeoutFires, SpuriousWakeup, history
    <3>3. CASE Reader
      BY <3>3 DEF Reader, ReadLine, ReadFails, processLine, onReaderClosed, ReaderCloses,
         CallbackCloses, onATReaderClosed, history
    <3>4. CASE Modem \/ UNCHANGED vars
      BY <3>4 DEF Modem, ModemInfo, ModemPrompt, ModemFinal, ModemHangup, ModemUrc, modemFrame,
         vars, history
    <3>5. CASE at_open
      <4>1. intruded' = (intruded \/ sp_response # NULL)  BY <3>5 DEF at_open
      <4>2. CASE sp_response # NULL  BY <4>1, <4>2
      <4>3. CASE sp_response = NULL
        <5>1. intruded \in BOOLEAN  BY <1>1 DEF IndInv, TypeOK, HistoryTypes
        <5> QED  BY <4>1, <4>3, <5>1
      <4> QED  BY <4>2, <4>3
    <3> QED  BY <3>1, <3>2, <3>3, <3>4, <3>5 DEF Next, Step, Terminating
  <2> QED  BY <2>1
<1>4. ASSUME ~intruded' PROVE WaiterInv' /\ CompleteAnswer'
  <2>1. ~intruded /\ WaiterInv /\ CompleteAnswer  BY <1>3, <1>4 DEF AnswerInv
  <2> QED  BY <1>1, <2>1, WaiterStep, CompleteStep
<1> QED  BY <1>1, <1>2, <1>4 DEF AnswerInv

\* For any threads, commands, handshakes and sessions, whatever is said of its own
\* accord, times out or hangs up: as long as no pending command has been cleared
\* under its waiter, a caller that gets the final line of its command gets, in
\* order, all the lines that its type of command asks for.
THEOREM CompleteTheorem == Spec => [](~intruded => CompleteAnswer)
<1>1. AnswerInv => (~intruded => CompleteAnswer)  BY DEF AnswerInv
<1>2. AnswerInv /\ [Next]_vars => AnswerInv'  BY AnswerStep
<1>3. Init => AnswerInv  BY AnswerInit
<1> QED  BY <1>1, <1>2, <1>3, PTL DEF Spec

\* So it is always, without at_handshake and in one session.
THEOREM CompleteOneSession ==
    ASSUME Handshakers = {}, MaxSessions = 1
    PROVE  Spec => []CompleteAnswer
<1>1. Init => ~intruded  BY DEF Init
<1>2. IndInv /\ ~intruded /\ [Next]_vars => ~intruded'  BY NoIntrusionStep
<1> QED  BY <1>1, <1>2, Inductive, CompleteTheorem, PTL DEF Spec

=============================================================================

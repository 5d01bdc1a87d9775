------------------------------ MODULE Phonebook ------------------------------
(* sxx-ril-phonebook.c: the phonebook of the modem is shown to the framework *)
(* as the records of a SIM file.  An entry that the modem lists is taken     *)
(* apart by the tokenizer of at_tok.c and packed into a record; a record     *)
(* that is written is unpacked, in two static buffers, into an entry.        *)
(*                                                                           *)
(* A record is a sequence of bytes; in the code each is two characters, and  *)
(* every write and read of bits is of whole characters.  A name is the bytes *)
(* of its UCS2 characters.  A character of a line is a digit of a number, a  *)
(* byte of a name, or one of the negative numbers below.                     *)
EXTENDS Integers, Sequences

CONSTANTS
    Entries,  \* what a slot of the phonebook may hold
    MaxWrites \* bound: records written

VARIABLES
    buffers,  \* g_alpha_buf and g_number_buf
    listed,   \* the last entry that the framework has read and written back
    stored,   \* ... and what the modem has been given in its place
    stale,    \* something was left in the buffers behind it
    overrun,  \* read_alpha has written behind its copy of the name on the stack
    writes

phonebookVars == <<buffers, listed, stored, stale, overrun, writes>>

NUL   == -1
PLUS  == -2
COMMA == -3
QUOTE == -4
COLON == -5
SPACE == -6

\* An entry: the name, the kind of number, and the number.  Buffers of 64
\* characters take what the modem lists.
Entry(alpha, code, number) == [alpha |-> alpha, code |-> code, number |-> number]

ASSUME MaxWritesAssumption == MaxWrites \in Nat
ASSUME EntriesAssumption ==
    \A e \in Entries :
       /\ e \in [alpha: Seq(0..255), code: 0..255, number: Seq((0..9) \cup {PLUS})]
       /\ Len(e.alpha) % 2 = 0 /\ Len(e.alpha) <= 30 /\ Len(e.number) <= 62
       /\ \E i \in DOMAIN e.number : e.number[i] # PLUS
       /\ \A i \in DOMAIN e.number : e.number[i] = PLUS => i = 1
-----------------------------------------------------------------------------
(* at_tok.c.  A cursor points to the rest of a line, or is NULL.             *)

Cursor(rest)  == [null |-> FALSE, rest |-> rest]
NullCursor    == [null |-> TRUE, rest |-> << >>]

\* The place of the first c in s, or behind the end.
IndexOf(s, c) ==
    CHOOSE i \in 1..(Len(s) + 1) : /\ i <= Len(s) => s[i] = c
                                  /\ \A j \in 1..(i - 1) : s[j] # c

From(s, i) == SubSeq(s, i, Len(s))

at_tok_start(line) ==
    IF IndexOf(line, COLON) > Len(line) THEN NullCursor
    ELSE Cursor(From(line, IndexOf(line, COLON) + 1))

\* strsep: the token up to c, and the cursor behind c.
strsep(s, c) ==
    [token |-> SubSeq(s, 1, IndexOf(s, c) - 1),
     cur   |-> IF IndexOf(s, c) > Len(s) THEN NullCursor ELSE Cursor(From(s, IndexOf(s, c) + 1))]

skipWhiteSpace(s) ==
    From(s, CHOOSE i \in 1..(Len(s) + 1) : /\ i <= Len(s) => s[i] # SPACE
                                          /\ \A j \in 1..(i - 1) : s[j] = SPACE)

skipNextComma(cur) ==
    IF cur.null THEN cur ELSE Cursor(From(cur.rest, IndexOf(cur.rest, COMMA) + 1))

\* Mutant: a quoted token ends at the next comma as well.
nextTok_Unquoted(cur) == strsep(skipWhiteSpace(cur.rest), COMMA)

\* The next token of a cursor that is not NULL.
nextTok(cur) ==
    LET s == skipWhiteSpace(cur.rest)
        quoted == strsep(Tail(s), QUOTE)
    IN  IF s # << >> /\ Head(s) = QUOTE
          THEN [quoted EXCEPT !.cur = skipNextComma(quoted.cur)]
          ELSE strsep(s, COMMA)
-----------------------------------------------------------------------------
(* An entry in the answer to AT+CPBR, and get_phone_book, which reads it.    *)

CPBRLine(e) ==
    <<COLON, SPACE, 1, COMMA, QUOTE>> \o e.number \o <<QUOTE, COMMA, e.code, COMMA, QUOTE>>
    \o e.alpha \o <<QUOTE>>

phone_book_of(line) ==
    LET index  == nextTok(at_tok_start(line))
        number == nextTok(index.cur)
        code   == nextTok(number.cur)
        alpha  == nextTok(code.cur)
    IN  Entry(alpha.token, code.token[1], number.token)
-----------------------------------------------------------------------------
(* convert_phone_book.                                                       *)

AlphaBytes  == 14
RecordBytes == 28
F == 15

Byte2(hi, lo) == 16 * hi + lo

is_empty_alpha(alpha) ==
    \A i \in 1..(Len(alpha) \div 2) : alpha[2 * i - 1] = 0 /\ alpha[2 * i] = 32

HasPlus(number)  == number[1] = PLUS
DigitsOf(number) == IF HasPlus(number) THEN Tail(number) ELSE number

\* The ASCII codes of the first digits, for a name.  A plus is left out, but
\* counts for two of them.
copy_number_to_alpha(number, len) ==
    [i \in 1..(IF HasPlus(number) THEN len - 2 ELSE len) |-> 48 + DigitsOf(number)[i]]

\* A name that starts with a Latin character loses all its high bytes.
retrive_alpha(alpha) ==
    IF alpha[1] = 0 THEN [i \in 1..(Len(alpha) \div 2) |-> alpha[2 * i]] ELSE <<128>> \o alpha

\* The digits, two by two and swapped.  A plus is left out, but counts for three
\* of them.
retrive_number(number) ==
    LET digits == DigitsOf(number)
        count  == IF HasPlus(number) THEN Len(number) - 3 ELSE Len(number)
    IN  [i \in 1..((count + 1) \div 2) |->
           Byte2(IF 2 * i <= count THEN digits[2 * i] ELSE F, digits[2 * i - 1])]

Put(record, pos, bytes) ==
    [i \in DOMAIN record |-> IF i - pos \in DOMAIN bytes THEN bytes[i - pos] ELSE record[i]]

\* Mutant: the length does not count the half of a last byte.
NumberLength_Floor(number) == Len(number) \div 2 + 1

NumberLength(number) == (Len(number) + 1) \div 2 + 1

convert_phone_book(pb) ==
    LET name   == IF is_empty_alpha(pb.alpha)
                    THEN copy_number_to_alpha(pb.number, IF Len(pb.number) > 13 THEN 13 ELSE Len(pb.number))
                    ELSE retrive_alpha(pb.alpha)
        erased == [i \in 1..RecordBytes |-> Byte2(F, F)]
        named  == Put(erased, 0, name)
    IN  Put(named, AlphaBytes, <<NumberLength(pb.number), pb.code>>
                               \o retrive_number(pb.number))
-----------------------------------------------------------------------------
(* extract_phone_book.  The buffers keep what was there before: what is read *)
(* into them gets no terminator.                                             *)

PHONE_BUF_LEN == 128

CleanBuffers ==
    [alpha |-> [i \in 1..(PHONE_BUF_LEN \div 2) |-> NUL], number |-> [i \in 1..PHONE_BUF_LEN |-> NUL]]

String(buf) == SubSeq(buf, 1, IndexOf(buf, NUL) - 1)

strcpy(buf, s) == Put(buf, 0, Append(s, NUL))

\* The name in a buffer: up to the first FF, in UCS2.
read_alpha(buf) ==
    LET s    == String(buf)
        ucs2 == s[1] = 128
        name == IF ucs2 THEN Tail(s) ELSE s
        kept == SubSeq(name, 1, IndexOf(name, Byte2(F, F)) - 1)
    IN  IF ucs2 THEN kept
        ELSE [i \in 1..(2 * Len(kept)) |-> IF i % 2 = 1 THEN 0 ELSE kept[i \div 2]]

Digits(bytes) ==
    [i \in 1..(2 * Len(bytes)) |->
       IF i % 2 = 1 THEN bytes[(i + 1) \div 2] \div 16 ELSE bytes[i \div 2] % 16]

\* The number in a buffer: its pairs swapped, without an F behind the last.
read_number(buf) ==
    LET s       == String(buf)
        len     == 2 * (Len(s) \div 2)
        swapped == [i \in 1..len |-> s[IF i % 2 = 1 THEN i + 1 ELSE i - 1]]
    IN  IF len > 0 /\ swapped[len] = F THEN SubSeq(swapped, 1, len - 1) ELSE swapped

\* read_alpha puts the name together in 64 characters on the stack.
TmpBytes == 31

\* The entry of a record, and the buffers after it.  A number that is said to be
\* longer than the record is not read.
extract_phone_book(record) ==
    LET last   == AlphaBytes + 1 + record[AlphaBytes + 1]
        field  == IF last > RecordBytes THEN << >> ELSE SubSeq(record, AlphaBytes + 3, last)
        name   == Put(buffers.alpha, 0, SubSeq(record, 1, AlphaBytes))
        digits == Put(buffers.number, 0, Digits(field))
        entry  == Entry(read_alpha(name), record[AlphaBytes + 2], read_number(digits))
    IN  [entry   |-> entry,
         buffers |-> [alpha |-> strcpy(name, entry.alpha), number |-> strcpy(digits, entry.number)]]
-----------------------------------------------------------------------------
(* sim_io_hook: the framework reads the record of an entry e and writes it   *)
(* back as it is.  Nothing else uses the buffers.                            *)

Record == [e \in Entries |-> convert_phone_book(phone_book_of(CPBRLine(e)))]

NoEntry == Entry(<< >>, 0, << >>)

\* What follows the characters that e is read into: a longer number, or the rest
\* of a long name when that of e fills its field to the end.  (One digit too many
\* is dropped with the pair that it does not make.)
LeftBehind(e) ==
    LET digits == 2 * ((Len(e.number) + 1) \div 2)
    IN  \/ buffers.number[digits + 1] # NUL /\ buffers.number[digits + 2] # NUL
        \/ Record[e][AlphaBytes] # Byte2(F, F) /\ buffers.alpha[AlphaBytes + 1] # NUL

PhonebookInit ==
    /\ buffers = CleanBuffers /\ listed = NoEntry /\ stored = NoEntry
    /\ stale = FALSE /\ overrun = FALSE /\ writes = 0

\* Behind an overrun nothing is known.
WriteBack(e) ==
    /\ ~overrun
    /\ writes < MaxWrites /\ writes' = writes + 1
    /\ LET written == extract_phone_book(Record[e])
       IN  /\ stored' = written.entry /\ buffers' = written.buffers
           /\ overrun' = (Len(written.entry.alpha) > TmpBytes)
    /\ listed' = e
    /\ stale' = LeftBehind(e)

PhonebookNext == \E e \in Entries : WriteBack(e)

PhonebookSpec == PhonebookInit /\ [][PhonebookNext]_phonebookVars
-----------------------------------------------------------------------------
(* Properties.                                                               *)

Names(e) == Len(e.alpha) \div 2
Latin(e) == \A i \in 1..Names(e) : e.alpha[2 * i - 1] = 0

\* A record can hold the entry: a name in Latin characters of one byte each or, if
\* the first is none, of two; no byte of it looks like the end of the name or like
\* the mark of UCS2; and a number of at most 24 digits without a plus, which costs two.
Fits(e) ==
    /\ ~is_empty_alpha(e.alpha)
    /\ IF e.alpha[1] = 0 THEN Latin(e) /\ Names(e) <= AlphaBytes /\ e.alpha[2] # 128
       ELSE Len(e.alpha) < AlphaBytes
    /\ \A i \in DOMAIN e.alpha : e.alpha[i] # 255
    /\ ~HasPlus(e.number)
    /\ Len(e.number) <= 2 * (RecordBytes - AlphaBytes - 2)

\* An entry that the framework writes back as it has read it comes to the modem
\* unchanged, exactly if it fits into a record, and the copy of its name on the stack
\* is not overrun; but only while the static buffers have nothing left of the entries
\* written before, into which a name could go on behind its field.
RecordRoundTrip == writes > 0 /\ ~stale => ~overrun /\ (stored = listed <=> Fits(listed))
===============================================================================

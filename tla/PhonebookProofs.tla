---------------------------- MODULE PhonebookProofs ----------------------------
(* Theorems about Phonebook, for every phonebook: the entry that the modem   *)
(* lists is read as it is; and, written back, it comes to the modem          *)
(* unchanged exactly if it fits into a record, however many were written     *)
(* before, as long as nothing of them is left behind it.                     *)
EXTENDS Phonebook, SequenceTheorems, WellFoundedInduction, TLAPS

-----------------------------------------------------------------------------
(* The tokenizer.                                                            *)

\* The first place of c, if it is known.
LEMMA IndexOfAt ==
    ASSUME NEW s \in Seq(Int), NEW c, NEW k \in 1..(Len(s) + 1),
           k <= Len(s) => s[k] = c, \A j \in 1..(k - 1) : s[j] # c
    PROVE  IndexOf(s, c) = k
<1> DEFINE First(i) == /\ i <= Len(s) => s[i] = c
                       /\ \A j \in 1..(i - 1) : s[j] # c
<1>1. First(k)  OBVIOUS
<1>2. ASSUME NEW i \in 1..(Len(s) + 1), First(i)  PROVE i = k
  <2>1. CASE i < k  BY <1>2, <2>1
  <2>2. CASE i > k  BY <1>2, <2>2
  <2> QED  BY <2>1, <2>2
<1>3. IndexOf(s, c) = CHOOSE i \in 1..(Len(s) + 1) : First(i)  BY DEF IndexOf
<1> HIDE DEF First
<1> QED  BY <1>1, <1>2, <1>3

\* There is always one, or the end.
LEMMA IndexOfFacts ==
    ASSUME NEW s \in Seq(Int), NEW c
    PROVE  /\ IndexOf(s, c) \in 1..(Len(s) + 1)
           /\ IndexOf(s, c) <= Len(s) => s[IndexOf(s, c)] = c
           /\ \A j \in 1..(IndexOf(s, c) - 1) : s[j] # c
<1> DEFINE S == {i \in 1..(Len(s) + 1) : i <= Len(s) => s[i] = c}
<1>1. IsWellFoundedOn(OpToRel(<, Nat), Nat)  BY NatLessThanWellFounded
<1>2. S \subseteq Nat /\ Len(s) + 1 \in S  OBVIOUS
<1>3. PICK k \in S : \A j \in S : <<j, k>> \notin OpToRel(<, Nat)
  <2> HIDE DEF S
  <2> QED  BY <1>1, <1>2, WFMin
<1>4. \A j \in S : ~(j < k)  BY <1>2, <1>3 DEF OpToRel
<1>5. \A j \in 1..(k - 1) : s[j] # c  BY <1>4
<1>6. IndexOf(s, c) = k  BY <1>5, IndexOfAt
<1> QED  BY <1>5, <1>6

\* What two sequences make when they are joined.
LEMMA Joined ==
    ASSUME NEW s \in Seq(Int), NEW t \in Seq(Int)
    PROVE  /\ s \o t \in Seq(Int)
           /\ Len(s \o t) = Len(s) + Len(t) /\ Len(s) \in Nat /\ Len(t) \in Nat
           /\ \A i \in 1..Len(s) : (s \o t)[i] = s[i]
           /\ \A i \in 1..Len(t) : (s \o t)[Len(s) + i] = t[i]
  BY ConcatProperties

\* The rest of a line behind its first part.
LEMMA FromJoined ==
    ASSUME NEW s \in Seq(Int), NEW t \in Seq(Int)
    PROVE  From(s \o t, Len(s) + 1) = t
<1> DEFINE u == s \o t
<1>1. /\ u \in Seq(Int) /\ Len(u) = Len(s) + Len(t) /\ Len(s) \in Nat /\ Len(t) \in Nat
      /\ \A i \in 1..Len(t) : u[Len(s) + i] = t[i]
  BY Joined
<1> HIDE DEF u
<1> DEFINE r == SubSeq(u, Len(s) + 1, Len(u))
<1>2. \A i \in (Len(s) + 1)..Len(u) : u[i] \in Int  BY <1>1
<1>3. /\ r \in Seq(Int) /\ Len(r) = Len(t)
      /\ \A i \in 1..Len(t) : r[i] = u[Len(s) + i]
  BY <1>1, <1>2, SubSeqProperties
<1>4. r = t  BY <1>1, <1>3, SeqEqual
<1> QED  BY <1>4 DEF From, u

\* strsep cuts at the first c.
LEMMA StrsepCuts ==
    ASSUME NEW s \in Seq(Int), NEW t \in Seq(Int), NEW c \in Int,
           \A i \in 1..Len(s) : s[i] # c
    PROVE  strsep(s \o (<<c>> \o t), c) = [token |-> s, cur |-> Cursor(t)]
<1> DEFINE u == <<c>> \o t
           v == s \o u
<1>1. <<c>> \in Seq(Int) /\ Len(<<c>>) = 1 /\ <<c>>[1] = c  OBVIOUS
<1>2. u \in Seq(Int) /\ Len(u) = 1 + Len(t) /\ u[1] = c /\ Len(t) \in Nat
  BY <1>1, Joined
<1> HIDE DEF u
<1>3. /\ v \in Seq(Int) /\ Len(v) = Len(s) + Len(u) /\ Len(s) \in Nat
      /\ \A i \in 1..Len(s) : v[i] = s[i]
      /\ \A i \in 1..Len(u) : v[Len(s) + i] = u[i]
  BY <1>2, Joined
<1>4. From(v, Len(s) + 2) = t
  <2>1. /\ <<c>> \in Seq(Int) /\ s \o <<c>> \in Seq(Int) /\ Len(s \o <<c>>) = Len(s) + 1
    BY <1>1, Joined
  <2>2. v = (s \o <<c>>) \o t  BY <1>1, ConcatAssociative, SMTT(30) DEF u
  <2>3. From((s \o <<c>>) \o t, Len(s \o <<c>>) + 1) = t  BY <2>1, FromJoined
  <2>4. Len(s \o <<c>>) + 1 = Len(s) + 2  BY <1>3, <2>1
  <2> QED  BY <2>2, <2>3, <2>4
<1>5. SubSeq(v, 1, Len(s)) = s
  <2> DEFINE r == SubSeq(v, 1, Len(s))
  <2>1. \A i \in 1..Len(s) : v[i] \in Int  BY <1>3
  <2>2. r \in Seq(Int) /\ Len(r) = Len(s) /\ \A i \in 1..Len(s) : r[i] = v[i]
    BY <1>3, <2>1, SubSeqProperties
  <2> HIDE DEF r
  <2>3. r = s  BY <1>3, <2>2, SeqEqual
  <2> QED  BY <2>3 DEF r
<1> HIDE DEF v
<1> DEFINE k == Len(s) + 1
<1>6. k \in 1..(Len(v) + 1) /\ k <= Len(v) /\ k - 1 = Len(s) /\ k + 1 = Len(s) + 2
  BY <1>2, <1>3
<1>7. v[k] = c  BY <1>2, <1>3
<1> HIDE DEF k
<1>8. IndexOf(v, c) = k
  <2>1. \A j \in 1..(k - 1) : v[j] # c  BY <1>3, <1>6
  <2>2. v \in Seq(Int) /\ k \in 1..(Len(v) + 1) /\ (k <= Len(v) => v[k] = c)
    BY <1>3, <1>6, <1>7
  <2> QED  BY <2>1, <2>2, IndexOfAt
<1>9. strsep(v, c) = [token |-> s, cur |-> Cursor(t)]
  <2>1. ~(k > Len(v))  BY <1>3, <1>6
  <2>2. strsep(v, c) = [token |-> SubSeq(v, 1, k - 1), cur |-> Cursor(From(v, k + 1))]
    BY <1>8, <2>1 DEF strsep
  <2> QED  BY <1>4, <1>5, <1>6, <2>2
<1> QED  BY <1>9 DEF u, v

\* No space to skip.
LEMMA NothingSkipped ==
    ASSUME NEW s \in Seq(Int), Len(s) > 0, s[1] # SPACE
    PROVE  skipWhiteSpace(s) = s
<1> DEFINE First(i) == /\ i <= Len(s) => s[i] # SPACE
                       /\ \A j \in 1..(i - 1) : s[j] = SPACE
<1>1. First(1) /\ 1 \in 1..(Len(s) + 1)  OBVIOUS
<1>2. ASSUME NEW i \in 1..(Len(s) + 1), First(i)  PROVE i = 1  BY <1>2
<1>3. skipWhiteSpace(s) = From(s, CHOOSE i \in 1..(Len(s) + 1) : First(i))  BY DEF skipWhiteSpace
<1> HIDE DEF First
<1>4. skipWhiteSpace(s) = From(s, 1)  BY <1>1, <1>2, <1>3
<1> QED  BY <1>4, SubSeqFull DEF From

\* One space to skip.
LEMMA OneSkipped ==
    ASSUME NEW s \in Seq(Int), Len(s) > 0, s[1] # SPACE
    PROVE  skipWhiteSpace(<<SPACE>> \o s) = s
<1> DEFINE u == <<SPACE>> \o s
           First(i) == /\ i <= Len(u) => u[i] # SPACE
                       /\ \A j \in 1..(i - 1) : u[j] = SPACE
<1>1. <<SPACE>> \in Seq(Int) /\ Len(<<SPACE>>) = 1 /\ <<SPACE>>[1] = SPACE  BY DEF SPACE
<1>2. u \in Seq(Int) /\ Len(u) = 1 + Len(s) /\ u[1] = SPACE /\ u[2] = s[1] /\ From(u, 2) = s
  <2>1. /\ u \in Seq(Int) /\ Len(u) = Len(<<SPACE>>) + Len(s) /\ From(u, Len(<<SPACE>>) + 1) = s
        /\ \A i \in 1..Len(<<SPACE>>) : u[i] = <<SPACE>>[i]
        /\ \A i \in 1..Len(s) : u[Len(<<SPACE>>) + i] = s[i]
    BY <1>1, Joined, FromJoined
  <2> HIDE DEF u
  <2>2. Len(<<SPACE>>) + 1 = 2  BY <1>1
  <2> QED  BY <1>1, <2>1, <2>2
<1> HIDE DEF u
<1>3. First(2) /\ 2 \in 1..(Len(u) + 1)  BY <1>2
<1>4. ASSUME NEW i \in 1..(Len(u) + 1), First(i)  PROVE i = 2  BY <1>2, <1>4
<1>5. skipWhiteSpace(u) = From(u, CHOOSE i \in 1..(Len(u) + 1) : First(i))  BY DEF skipWhiteSpace
<1> HIDE DEF First
<1>6. skipWhiteSpace(u) = From(u, 2)  BY <1>3, <1>4, <1>5
<1> QED  BY <1>2, <1>6 DEF u

\* A token without quotes, up to a comma.
LEMMA PlainToken ==
    ASSUME NEW x \in Int, NEW t \in Seq(Int), x \notin {SPACE, QUOTE, COMMA},
           NEW rest \in {<<x>> \o (<<COMMA>> \o t), <<SPACE>> \o (<<x>> \o (<<COMMA>> \o t))}
    PROVE  nextTok(Cursor(rest)) = [token |-> <<x>>, cur |-> Cursor(t)]
<1> DEFINE u == <<x>> \o (<<COMMA>> \o t)
<1>1. /\ <<x>> \in Seq(Int) /\ Len(<<x>>) = 1 /\ <<x>>[1] = x
      /\ <<COMMA>> \in Seq(Int) /\ COMMA \in Int
  BY DEF COMMA
<1>2. u \in Seq(Int) /\ Len(u) > 0 /\ u[1] = x
  <2>1. <<COMMA>> \o t \in Seq(Int) /\ Len(<<COMMA>> \o t) \in Nat  BY <1>1, Joined
  <2> QED  BY <1>1, <2>1, Joined
<1>3. strsep(u, COMMA) = [token |-> <<x>>, cur |-> Cursor(t)]
  <2> DEFINE s == <<x>>
  <2>1. s \in Seq(Int) /\ \A i \in 1..Len(s) : s[i] # COMMA  BY <1>1
  <2> HIDE DEF s
  <2>2. strsep(s \o (<<COMMA>> \o t), COMMA) = [token |-> s, cur |-> Cursor(t)]
    BY <1>1, <2>1, StrsepCuts
  <2> QED  BY <2>2 DEF s
<1> HIDE DEF u
<1>4. skipWhiteSpace(rest) = u  BY <1>2, NothingSkipped, OneSkipped DEF u
<1>5. u # << >> /\ Head(u) = x  BY <1>2
<1>6. Cursor(rest).rest = rest  BY DEF Cursor
<1> QED  BY <1>3, <1>4, <1>5, <1>6 DEF nextTok

\* A token in quotes, with a comma behind it.
LEMMA QuotedToken ==
    ASSUME NEW s \in Seq(Int), NEW t \in Seq(Int), \A i \in 1..Len(s) : s[i] # QUOTE
    PROVE  nextTok(Cursor(<<QUOTE>> \o (s \o (<<QUOTE>> \o (<<COMMA>> \o t)))))
             = [token |-> s, cur |-> Cursor(t)]
<1> DEFINE w == <<COMMA>> \o t
           v == s \o (<<QUOTE>> \o w)
           u == <<QUOTE>> \o v
<1>1. /\ <<QUOTE>> \in Seq(Int) /\ Len(<<QUOTE>>) = 1 /\ <<QUOTE>>[1] = QUOTE /\ QUOTE \in Int
      /\ <<COMMA>> \in Seq(Int) /\ Len(<<COMMA>>) = 1 /\ <<COMMA>>[1] = COMMA /\ COMMA \in Int
      /\ QUOTE # SPACE
  BY DEF QUOTE, COMMA, SPACE
<1>2. w \in Seq(Int) /\ Len(w) \in Nat /\ Len(w) > 0 /\ w[1] = COMMA  BY <1>1, Joined
<1>3. From(w, 2) = t
  <2>1. From(w, Len(<<COMMA>>) + 1) = t  BY <1>1, FromJoined
  <2>2. Len(<<COMMA>>) + 1 = 2  BY <1>1
  <2> QED  BY <2>1, <2>2
<1> HIDE DEF w
<1>4. strsep(v, QUOTE) = [token |-> s, cur |-> Cursor(w)]  BY <1>1, <1>2, StrsepCuts
<1>5. v \in Seq(Int) /\ Len(v) \in Nat
  <2>1. <<QUOTE>> \o w \in Seq(Int)  BY <1>1, <1>2, Joined
  <2> QED  BY <2>1, Joined
<1> HIDE DEF v
<1>6. u \in Seq(Int) /\ Len(u) = 1 + Len(v) /\ u[1] = QUOTE  BY <1>1, <1>5, Joined
<1>7. From(u, 2) = v
  <2>1. From(u, Len(<<QUOTE>>) + 1) = v  BY <1>1, <1>5, FromJoined
  <2>2. Len(<<QUOTE>>) + 1 = 2  BY <1>1
  <2> QED  BY <2>1, <2>2
<1> HIDE DEF u
<1>8. u # << >> /\ Head(u) = QUOTE /\ Tail(u) = v
  BY <1>5, <1>6, <1>7, TailIsSubSeq DEF From
<1>9. skipWhiteSpace(u) = u
  <2>1. Len(u) > 0 /\ u[1] # SPACE  BY <1>1, <1>5, <1>6
  <2> QED  BY <1>6, <2>1, NothingSkipped
<1>10. IndexOf(w, COMMA) = 1
  <2>1. 1 \in 1..(Len(w) + 1) /\ \A j \in 1..(1 - 1) : w[j] # COMMA  BY <1>2
  <2> QED  BY <1>2, <2>1, IndexOfAt
<1>11. skipNextComma(Cursor(w)) = Cursor(t)
  <2>1. IndexOf(w, COMMA) + 1 = 2  BY <1>10
  <2>2. ~Cursor(w).null /\ Cursor(w).rest = w  BY DEF Cursor
  <2> QED  BY <1>3, <2>1, <2>2 DEF skipNextComma
<1>12. nextTok(Cursor(u)) = [strsep(v, QUOTE) EXCEPT !.cur = skipNextComma(strsep(v, QUOTE).cur)]
  BY <1>8, <1>9 DEF nextTok, Cursor
<1>13. nextTok(Cursor(u)) = [token |-> s, cur |-> Cursor(t)]
  BY <1>4, <1>11, <1>12
<1> QED  BY <1>13 DEF u, v, w

\* ... and at the end of the line.
LEMMA LastToken ==
    ASSUME NEW s \in Seq(Int), \A i \in 1..Len(s) : s[i] # QUOTE
    PROVE  nextTok(Cursor(<<QUOTE>> \o (s \o <<QUOTE>>))).token = s
<1> DEFINE v == s \o <<QUOTE>>
           u == <<QUOTE>> \o v
<1>1. /\ <<QUOTE>> \in Seq(Int) /\ Len(<<QUOTE>>) = 1 /\ <<QUOTE>>[1] = QUOTE /\ QUOTE \in Int
      /\ QUOTE # SPACE /\ << >> \in Seq(Int)
  BY DEF QUOTE, SPACE
<1>2. <<QUOTE>> \o << >> = <<QUOTE>>  BY <1>1, ConcatEmptySeq
<1>3. strsep(s \o (<<QUOTE>> \o << >>), QUOTE) = [token |-> s, cur |-> Cursor(<< >>)]
  BY <1>1, StrsepCuts
<1>4. strsep(v, QUOTE) = [token |-> s, cur |-> Cursor(<< >>)]  BY <1>2, <1>3
<1>5. v \in Seq(Int) /\ Len(v) \in Nat  BY <1>1, Joined
<1> HIDE DEF v
<1>6. u \in Seq(Int) /\ Len(u) = 1 + Len(v) /\ u[1] = QUOTE  BY <1>1, <1>5, Joined
<1>7. From(u, 2) = v
  <2>1. From(u, Len(<<QUOTE>>) + 1) = v  BY <1>1, <1>5, FromJoined
  <2>2. Len(<<QUOTE>>) + 1 = 2  BY <1>1
  <2> QED  BY <2>1, <2>2
<1> HIDE DEF u
<1>8. u # << >> /\ Head(u) = QUOTE /\ Tail(u) = v
  <2>1. u # << >>  BY <1>5, <1>6
  <2>2. Head(u) = QUOTE  BY <1>6
  <2>3. Tail(u) = SubSeq(u, 2, Len(u))  BY <1>6, <2>1, TailIsSubSeq
  <2> QED  BY <1>7, <2>1, <2>2, <2>3 DEF From
<1>9. skipWhiteSpace(u) = u  BY <1>1, <1>5, <1>6, NothingSkipped
<1>10. nextTok(Cursor(u)) = [strsep(v, QUOTE) EXCEPT !.cur = skipNextComma(strsep(v, QUOTE).cur)]
  BY <1>8, <1>9 DEF nextTok, Cursor
<1>11. nextTok(Cursor(u)).token = s  BY <1>4, <1>10
<1> QED  BY <1>11 DEF u, v

\* Joining is associative.
LEMMA Associative ==
    ASSUME NEW s \in Seq(Int), NEW t \in Seq(Int), NEW u \in Seq(Int)
    PROVE  (s \o t) \o u = s \o (t \o u)
  BY ConcatAssociative

\* Two characters are joined.
LEMMA TwoCharacters == ASSUME NEW v \in Int, NEW w \in Int PROVE <<v, w>> = <<v>> \o <<w>>
<1> DEFINE s == <<v>>
           t == <<w>>
           u == <<v, w>>
           r == s \o t
<1>1. /\ s \in Seq(Int) /\ t \in Seq(Int) /\ u \in Seq(Int)
      /\ Len(s) = 1 /\ Len(t) = 1 /\ Len(u) = 2 /\ u[1] = s[1] /\ u[2] = t[1]
  OBVIOUS
<1> HIDE DEF s, t, u
<1>2. /\ r \in Seq(Int) /\ Len(r) = Len(s) + Len(t)
      /\ \A i \in 1..Len(s) : r[i] = s[i]
      /\ \A i \in 1..Len(t) : r[Len(s) + i] = t[i]
  BY <1>1, Joined
<1> HIDE DEF r
<1>3. Len(r) = 2 /\ r[1] = s[1] /\ r[1 + 1] = t[1]  BY <1>1, <1>2
<1>4. \A i \in 1..2 : r[i] = u[i]  BY <1>1, <1>3
<1>5. r = u  BY <1>1, <1>2, <1>3, <1>4, SeqEqual
<1> QED  BY <1>5 DEF r, s, t, u

\* Five characters are joined one by one.
LEMMA FiveCharacters ==
    ASSUME NEW v \in Int, NEW w \in Int, NEW x \in Int, NEW y \in Int, NEW z \in Int,
           NEW t \in Seq(Int)
    PROVE  /\ <<v, w, x, y, z>> \in Seq(Int)
           /\ <<v, w, x, y, z>> \o t
                = <<v>> \o (<<w>> \o (<<x>> \o (<<y>> \o (<<z>> \o t))))
<1>1. /\ <<v>> \in Seq(Int) /\ <<w>> \in Seq(Int) /\ <<x>> \in Seq(Int) /\ <<y>> \in Seq(Int)
      /\ <<z>> \in Seq(Int)
  OBVIOUS
<1>2. <<v, w>> = <<v>> \o <<w>>  BY TwoCharacters
<1>3. <<v, w, x>> = <<v, w>> \o <<x>>  OBVIOUS
<1>4. <<v, w, x, y>> = <<v, w, x>> \o <<y>>  OBVIOUS
<1>5. <<v, w, x, y, z>> = <<v, w, x, y>> \o <<z>>  OBVIOUS
<1>6. <<v, w>> \in Seq(Int)  BY <1>1, <1>2, Joined
<1>7. <<v, w, x>> \in Seq(Int)  BY <1>1, <1>3, <1>6, Joined
<1>8. <<v, w, x, y>> \in Seq(Int)  BY <1>1, <1>4, <1>7, Joined
<1>9. <<v, w, x, y, z>> \in Seq(Int)  BY <1>1, <1>5, <1>8, Joined
<1> DEFINE v4 == <<v, w, x, y>>
           v3 == <<v, w, x>>
           v2 == <<v, w>>
           v1 == <<v>>
           u1 == <<z>> \o t
           u2 == <<y>> \o u1
           u3 == <<x>> \o u2
           u4 == <<w>> \o u3
<1>10. u1 \in Seq(Int)  BY <1>1, Joined
<1>11. u2 \in Seq(Int)  BY <1>1, <1>10, Joined
<1>12. u3 \in Seq(Int)  BY <1>1, <1>11, Joined
<1>13. <<v, w, x, y, z>> \o t = v4 \o u1
  BY <1>1, <1>5, <1>8, Associative
<1>14. v4 \o u1 = v3 \o u2
  <2>1. v3 \in Seq(Int) /\ <<y>> \in Seq(Int) /\ u1 \in Seq(Int) /\ v4 = v3 \o <<y>>
    BY <1>1, <1>4, <1>7, <1>10
  <2> HIDE DEF v3, u1, v4
  <2> QED  BY <2>1, Associative
<1>15. v3 \o u2 = v2 \o u3
  <2>1. v2 \in Seq(Int) /\ <<x>> \in Seq(Int) /\ u2 \in Seq(Int) /\ v3 = v2 \o <<x>>
    BY <1>1, <1>3, <1>6, <1>11
  <2> HIDE DEF v2, u2, v3
  <2> QED  BY <2>1, Associative
<1>16. v2 \o u3 = v1 \o u4
  <2>1. v1 \in Seq(Int) /\ <<w>> \in Seq(Int) /\ u3 \in Seq(Int) /\ v2 = v1 \o <<w>>
    BY <1>1, <1>2, <1>12
  <2> HIDE DEF v1, u3, v2
  <2> QED  BY <2>1, Associative
<1> HIDE DEF v4, v3, v2
<1> QED  BY <1>9, <1>13, <1>14, <1>15, <1>16

\* Five parts are joined from the left as they are from the right.
LEMMA FiveParts ==
    ASSUME NEW h \in Seq(Int), NEW n \in Seq(Int), NEW m \in Seq(Int), NEW a \in Seq(Int),
           NEW q \in Seq(Int)
    PROVE  (((h \o n) \o m) \o a) \o q = h \o (n \o (m \o (a \o q)))
<1>1. ASSUME NEW l \in Seq(Int)  PROVE (l \o a) \o q = l \o (a \o q)
  BY Associative
<1>2. ASSUME NEW l \in Seq(Int), NEW r \in Seq(Int)  PROVE (l \o m) \o r = l \o (m \o r)
  BY Associative, ZenonT(30)
<1>3. ASSUME NEW r \in Seq(Int)  PROVE (h \o n) \o r = h \o (n \o r)
  BY Associative, ZenonT(30)
<1>4. h \o n \in Seq(Int) /\ a \o q \in Seq(Int)
  BY Joined
<1>5. (h \o n) \o m \in Seq(Int) /\ m \o (a \o q) \in Seq(Int)
  BY <1>4, Joined
<1>6. (((h \o n) \o m) \o a) \o q = ((h \o n) \o m) \o (a \o q)
  BY <1>1, <1>5
<1>7. ((h \o n) \o m) \o (a \o q) = (h \o n) \o (m \o (a \o q))
  BY <1>2, <1>4
<1>8. (h \o n) \o (m \o (a \o q)) = h \o (n \o (m \o (a \o q)))
  BY <1>3, <1>5
<1> QED  BY <1>6, <1>7, <1>8

\* The characters of a line before the number, and between the number and the name.
LEMMA FixedParts ==
    ASSUME NEW c \in Int, NEW t \in Seq(Int)
    PROVE  /\ <<COLON, SPACE, 1, COMMA, QUOTE>> \in Seq(Int)
           /\ <<COLON, SPACE, 1, COMMA, QUOTE>> \o t
                = <<COLON>> \o (<<SPACE>> \o (<<1>> \o (<<COMMA>> \o (<<QUOTE>> \o t))))
           /\ <<QUOTE, COMMA, c, COMMA, QUOTE>> \in Seq(Int)
           /\ <<QUOTE, COMMA, c, COMMA, QUOTE>> \o t
                = <<QUOTE>> \o (<<COMMA>> \o (<<c>> \o (<<COMMA>> \o (<<QUOTE>> \o t))))
<1>1. COLON \in Int /\ SPACE \in Int /\ 1 \in Int /\ COMMA \in Int /\ QUOTE \in Int
  BY DEF COLON, SPACE, COMMA, QUOTE
<1> DEFINE Good(v, w, x, y, z, u) ==
             /\ <<v, w, x, y, z>> \in Seq(Int)
             /\ <<v, w, x, y, z>> \o u
                  = <<v>> \o (<<w>> \o (<<x>> \o (<<y>> \o (<<z>> \o u))))
<1>2. \A v, w, x, y, z \in Int : \A u \in Seq(Int) : Good(v, w, x, y, z, u)  BY FiveCharacters
<1> HIDE DEF Good
<1>3. Good(COLON, SPACE, 1, COMMA, QUOTE, t) /\ Good(QUOTE, COMMA, c, COMMA, QUOTE, t)
  BY <1>1, <1>2
<1> QED  BY <1>3 DEF Good

\* The members of a sequence, and what it is over a larger set.
LEMMA SeqFacts ==
    ASSUME NEW S, NEW T, S \subseteq T, NEW s \in Seq(S)
    PROVE  s \in Seq(T) /\ Len(s) \in Nat /\ DOMAIN s = 1..Len(s) /\ \A i \in 1..Len(s) : s[i] \in S
<1>1. s \in Seq(T)  BY SeqMonotonic
<1>2. Len(s) \in Nat /\ DOMAIN s = 1..Len(s) /\ \A i \in 1..Len(s) : s[i] \in S  OBVIOUS
<1> QED  BY <1>1, <1>2

\* What the modem lists.
LEMMA Listed ==
    ASSUME NEW e \in Entries
    PROVE  /\ e \in [alpha: Seq(0..255), code: 0..255, number: Seq((0..9) \cup {PLUS})]
           /\ e.alpha \in Seq(0..255) /\ e.code \in 0..255 /\ e.number \in Seq((0..9) \cup {PLUS})
           /\ Len(e.alpha) \in Nat /\ Len(e.alpha) % 2 = 0 /\ Len(e.alpha) <= 30
           /\ Len(e.number) \in Nat /\ Len(e.number) > 0 /\ Len(e.number) <= 62
           /\ HasPlus(e.number) => Len(e.number) > 1
           /\ \A i \in 1..Len(e.alpha) : e.alpha[i] \in 0..255
           /\ \A i \in 2..Len(e.number) : e.number[i] \in 0..9
           /\ ~HasPlus(e.number) => e.number[1] \in 0..9
           /\ e.alpha \in Seq(Int) /\ e.number \in Seq(Int)
<1>1. /\ e \in [alpha: Seq(0..255), code: 0..255, number: Seq((0..9) \cup {PLUS})]
      /\ Len(e.alpha) % 2 = 0 /\ Len(e.alpha) <= 30 /\ Len(e.number) <= 62
      /\ \E i \in DOMAIN e.number : e.number[i] # PLUS
      /\ \A i \in DOMAIN e.number : e.number[i] = PLUS => i = 1
  BY EntriesAssumption
<1> DEFINE a == e.alpha
           n == e.number
<1>2. a \in Seq(0..255) /\ e.code \in 0..255 /\ n \in Seq((0..9) \cup {PLUS})  BY <1>1
<1>3. 0..255 \subseteq Int /\ (0..9) \cup {PLUS} \subseteq Int  BY DEF PLUS
<1>4. /\ a \in Seq(Int) /\ Len(a) \in Nat /\ \A i \in 1..Len(a) : a[i] \in 0..255
      /\ n \in Seq(Int) /\ Len(n) \in Nat /\ DOMAIN n = 1..Len(n)
      /\ \A i \in 1..Len(n) : n[i] \in (0..9) \cup {PLUS}
  <2>1. a \in Seq(Int) /\ Len(a) \in Nat /\ \A i \in 1..Len(a) : a[i] \in 0..255
    BY <1>2, <1>3, SeqFacts, SMTT(30)
  <2>2. /\ n \in Seq(Int) /\ Len(n) \in Nat /\ DOMAIN n = 1..Len(n)
        /\ \A i \in 1..Len(n) : n[i] \in (0..9) \cup {PLUS}
    BY <1>2, <1>3, SeqFacts
  <2> QED  BY <2>1, <2>2
<1>5. PICK k \in 1..Len(n) : n[k] # PLUS  BY <1>1, <1>4
<1>6. \A i \in 1..Len(n) : n[i] = PLUS => i = 1  BY <1>1, <1>4
<1> HIDE DEF a, n
<1>7. Len(n) > 0 /\ (n[1] = PLUS => Len(n) > 1)  BY <1>4, <1>5
<1>8. (\A i \in 2..Len(n) : n[i] \in 0..9) /\ (n[1] # PLUS => n[1] \in 0..9)
  BY <1>4, <1>6, <1>7
<1> QED  BY <1>1, <1>2, <1>4, <1>7, <1>8 DEF a, n, HasPlus

\* get_phone_book reads what the modem lists.
LEMMA ReadAsWritten ==
    ASSUME NEW a \in Seq(Int), NEW n \in Seq(Int), NEW c \in 0..255,
           \A i \in 1..Len(a) : a[i] # QUOTE,
           \A i \in 1..Len(n) : n[i] # QUOTE
    PROVE  phone_book_of(<<COLON, SPACE, 1, COMMA, QUOTE>> \o n
                         \o <<QUOTE, COMMA, c, COMMA, QUOTE>> \o a \o <<QUOTE>>)
             = Entry(a, c, n)
<1> DEFINE q  == <<QUOTE>> \o (a \o <<QUOTE>>)
           s3 == <<c>> \o (<<COMMA>> \o q)
           s2 == <<QUOTE>> \o (n \o (<<QUOTE>> \o (<<COMMA>> \o s3)))
           s1 == <<SPACE>> \o (<<1>> \o (<<COMMA>> \o s2))
           line == <<COLON>> \o s1
<1>1. /\ <<QUOTE>> \in Seq(Int) /\ <<COMMA>> \in Seq(Int) /\ <<SPACE>> \in Seq(Int)
      /\ <<COLON>> \in Seq(Int) /\ <<c>> \in Seq(Int) /\ <<1>> \in Seq(Int)
  BY DEF QUOTE, COMMA, SPACE, COLON
<1>2. /\ QUOTE \in Int /\ COMMA \in Int /\ SPACE \in Int /\ COLON \in Int /\ c \in Int /\ 1 \in Int
      /\ c \notin {SPACE, QUOTE, COMMA} /\ 1 \notin {SPACE, QUOTE, COMMA}
  BY SMTT(30) DEF QUOTE, COMMA, SPACE, COLON
<1>3. /\ <<QUOTE>> \in Seq(Int) /\ <<COMMA>> \in Seq(Int) /\ <<SPACE>> \in Seq(Int)
      /\ <<COLON>> \in Seq(Int) /\ <<c>> \in Seq(Int) /\ <<1>> \in Seq(Int)
      /\ QUOTE \in Int /\ COMMA \in Int /\ SPACE \in Int /\ COLON \in Int /\ c \in Int /\ 1 \in Int
      /\ c \notin {SPACE, QUOTE, COMMA} /\ 1 \notin {SPACE, QUOTE, COMMA}
      /\ Len(<<COLON>>) = 1 /\ <<COLON>>[1] = COLON
  BY <1>1, <1>2
<1>4. q \in Seq(Int)
  <2>1. a \o <<QUOTE>> \in Seq(Int)  BY <1>3, Joined
  <2> QED  BY <1>3, <2>1, Joined
<1>5. nextTok(Cursor(q)).token = a  BY LastToken
<1> HIDE DEF q
<1>6. s3 \in Seq(Int)
  <2>1. <<COMMA>> \o q \in Seq(Int)  BY <1>3, <1>4, Joined
  <2> QED  BY <1>3, <2>1, Joined
<1>7. nextTok(Cursor(s3)) = [token |-> <<c>>, cur |-> Cursor(q)]
  BY <1>3, <1>4, PlainToken
<1> HIDE DEF s3
<1>8. s2 \in Seq(Int)
  <2>1. <<COMMA>> \o s3 \in Seq(Int)  BY <1>3, <1>6, Joined
  <2>2. <<QUOTE>> \o (<<COMMA>> \o s3) \in Seq(Int)  BY <1>3, <2>1, Joined
  <2>3. n \o (<<QUOTE>> \o (<<COMMA>> \o s3)) \in Seq(Int)  BY <2>2, Joined
  <2> QED  BY <1>3, <2>3, Joined
<1>9. nextTok(Cursor(s2)) = [token |-> n, cur |-> Cursor(s3)]
  BY <1>6, QuotedToken
<1> HIDE DEF s2
<1>10. s1 \in Seq(Int)
  <2>1. <<COMMA>> \o s2 \in Seq(Int)  BY <1>3, <1>8, Joined
  <2>2. <<1>> \o (<<COMMA>> \o s2) \in Seq(Int)  BY <1>3, <2>1, Joined
  <2> QED  BY <1>3, <2>2, Joined
<1>11. nextTok(Cursor(s1)) = [token |-> <<1>>, cur |-> Cursor(s2)]
  BY <1>3, <1>8, PlainToken
<1>12. <<COLON, SPACE, 1, COMMA, QUOTE>> \o n \o <<QUOTE, COMMA, c, COMMA, QUOTE>>
         \o a \o <<QUOTE>> = line
  <2>1. a \o <<QUOTE>> \in Seq(Int)  BY <1>3, Joined
  <2>2. /\ <<QUOTE, COMMA, c, COMMA, QUOTE>> \in Seq(Int)
        /\ <<QUOTE, COMMA, c, COMMA, QUOTE>> \o (a \o <<QUOTE>>)
             = <<QUOTE>> \o (<<COMMA>> \o s3)
    <3> DEFINE end == a \o <<QUOTE>>
    <3>1. <<QUOTE>> \o (<<COMMA>> \o (<<c>> \o (<<COMMA>> \o (<<QUOTE>> \o end))))
            = <<QUOTE>> \o (<<COMMA>> \o s3)
      BY DEF s3, q
    <3>2. end \in Seq(Int)  BY <2>1
    <3> HIDE DEF end
    <3>3. /\ <<QUOTE, COMMA, c, COMMA, QUOTE>> \in Seq(Int)
          /\ <<QUOTE, COMMA, c, COMMA, QUOTE>> \o end
               = <<QUOTE>> \o (<<COMMA>> \o (<<c>> \o (<<COMMA>> \o (<<QUOTE>> \o end))))
      BY <1>3, <3>2, FixedParts
    <3> QED  BY <3>1, <3>3 DEF end
  <2>3. n \o (<<QUOTE>> \o (<<COMMA>> \o s3)) \in Seq(Int)
    <3>1. <<COMMA>> \o s3 \in Seq(Int)  BY <1>3, <1>6, Joined
    <3>2. <<QUOTE>> \o (<<COMMA>> \o s3) \in Seq(Int)  BY <1>3, <3>1, Joined
    <3> QED  BY <3>2, Joined
  <2>4. /\ <<COLON, SPACE, 1, COMMA, QUOTE>> \in Seq(Int)
        /\ <<COLON, SPACE, 1, COMMA, QUOTE>> \o (n \o (<<QUOTE>> \o (<<COMMA>> \o s3))) = line
    <3> DEFINE end == n \o (<<QUOTE>> \o (<<COMMA>> \o s3))
    <3>1. <<COLON>> \o (<<SPACE>> \o (<<1>> \o (<<COMMA>> \o (<<QUOTE>> \o end)))) = line
      BY DEF line, s1, s2
    <3>2. end \in Seq(Int)  BY <2>3
    <3> HIDE DEF end
    <3>3. /\ <<COLON, SPACE, 1, COMMA, QUOTE>> \in Seq(Int)
          /\ <<COLON, SPACE, 1, COMMA, QUOTE>> \o end
               = <<COLON>> \o (<<SPACE>> \o (<<1>> \o (<<COMMA>> \o (<<QUOTE>> \o end))))
      BY <1>3, <3>2, FixedParts
    <3> QED  BY <3>1, <3>3 DEF end
  <2>5. <<COLON, SPACE, 1, COMMA, QUOTE>> \o n \o <<QUOTE, COMMA, c, COMMA, QUOTE>>
          \o a \o <<QUOTE>>
          = <<COLON, SPACE, 1, COMMA, QUOTE>>
              \o (n \o (<<QUOTE, COMMA, c, COMMA, QUOTE>> \o (a \o <<QUOTE>>)))
    <3> DEFINE h == <<COLON, SPACE, 1, COMMA, QUOTE>>
               m == <<QUOTE, COMMA, c, COMMA, QUOTE>>
               p == <<QUOTE>>
    <3>1. h \in Seq(Int) /\ m \in Seq(Int) /\ p \in Seq(Int)  BY <1>3, <2>2, <2>4
    <3> HIDE DEF h, m, p
    <3> DEFINE Good(v, w, x, y, z) == (((v \o w) \o x) \o y) \o z = v \o (w \o (x \o (y \o z)))
    <3>2. \A v, w, x, y, z \in Seq(Int) : Good(v, w, x, y, z)  BY FiveParts
    <3> HIDE DEF Good
    <3>3. Good(h, n, m, a, p)  BY <3>1, <3>2
    <3> QED  BY <3>3 DEF h, m, p, Good
  <2> QED  BY <2>2, <2>4, <2>5
<1> HIDE DEF s1
<1>13. line \in Seq(Int) /\ Len(line) = 1 + Len(s1) /\ Len(s1) \in Nat /\ line[1] = COLON
  BY <1>3, <1>10, Joined
<1>14. From(line, 2) = s1
  <2>1. From(line, Len(<<COLON>>) + 1) = s1  BY <1>3, <1>10, FromJoined
  <2>2. Len(<<COLON>>) + 1 = 2  BY <1>3
  <2> QED  BY <2>1, <2>2
<1> HIDE DEF line
<1>15. IndexOf(line, COLON) = 1
  <2>1. 1 \in 1..(Len(line) + 1) /\ \A j \in 1..(1 - 1) : line[j] # COLON  BY <1>13
  <2>2. line \in Seq(Int) /\ (1 <= Len(line) => line[1] = COLON)  BY <1>13
  <2> QED  BY <2>1, <2>2, IndexOfAt
<1>16. at_tok_start(line) = Cursor(s1)
  <2>1. ~(IndexOf(line, COLON) > Len(line)) /\ IndexOf(line, COLON) + 1 = 2  BY <1>13, <1>15
  <2> QED  BY <1>14, <2>1 DEF at_tok_start
<1>17. phone_book_of(line) = Entry(a, <<c>>[1], n)
  BY <1>5, <1>7, <1>9, <1>11, <1>16 DEF phone_book_of
<1> QED  BY <1>12, <1>17

\* get_phone_book reads the entry that the modem lists.
THEOREM ReadAsListed == ASSUME NEW e \in Entries PROVE phone_book_of(CPBRLine(e)) = e
<1>1. \A i \in 1..Len(e.alpha) : e.alpha[i] # QUOTE
  <2> DEFINE a == e.alpha
  <2>1. \A i \in 1..Len(a) : a[i] \in 0..255  BY Listed
  <2>2. \A x \in 0..255 : x # QUOTE  BY DEF QUOTE
  <2> HIDE DEF a
  <2>3. \A i \in 1..Len(a) : a[i] # QUOTE  BY <2>1, <2>2
  <2> QED  BY <2>3 DEF a
<1>2. \A i \in 1..Len(e.number) : e.number[i] # QUOTE
  <2> DEFINE n == e.number
  <2>1. n[1] \in (0..9) \cup {PLUS}  BY Listed DEF HasPlus
  <2>2. \A i \in 2..Len(n) : n[i] \in 0..9  BY Listed
  <2>3. Len(n) \in Nat  BY Listed
  <2> HIDE DEF n
  <2>4. \A i \in 1..Len(n) : n[i] # QUOTE  BY <2>1, <2>2, <2>3 DEF QUOTE, PLUS
  <2> QED  BY <2>4 DEF n
<1>3. phone_book_of(CPBRLine(e)) = Entry(e.alpha, e.code, e.number)
  BY <1>1, <1>2, Listed, ReadAsWritten DEF CPBRLine
<1> QED  BY <1>3, Listed DEF Entry

-----------------------------------------------------------------------------
(* The buffers.                                                              *)

\* A function on the first numbers is a sequence.
LEMMA FunctionIsSeq ==
    ASSUME NEW S, NEW n \in Nat, NEW f \in [1..n -> S]
    PROVE  f \in Seq(S) /\ Len(f) = n
  OBVIOUS

\* The first characters of a sequence.
IsFront(r, s, m) == r \in Seq(Int) /\ Len(r) = m /\ m \in Nat /\ \A i \in 1..m : r[i] = s[i]

\* The first characters of a sequence.
LEMMA FirstPart ==
    ASSUME NEW s \in Seq(Int), NEW m \in 0..Len(s)
    PROVE  IsFront(SubSeq(s, 1, m), s, m)
<1> DEFINE r == SubSeq(s, 1, m)
<1>1. Len(s) \in Nat /\ m \in Nat /\ m <= Len(s)  OBVIOUS
<1>2. \A i \in 1..m : s[i] \in Int  BY <1>1, ElementOfSeq
<1>3. r \in Seq(Int) /\ Len(r) = m /\ \A i \in 1..m : r[i] = s[i]
  BY <1>1, <1>2, SubSeqProperties
<1> QED  BY <1>1, <1>3 DEF IsFront

\* What is put into a sequence.
PutInto(r, m, pos, b, n) ==
    /\ DOMAIN Put(r, pos, b) = 1..m
    /\ \A i \in 1..m : (1 <= i - pos /\ i - pos <= n) => Put(r, pos, b)[i] = b[i - pos]
    /\ \A i \in 1..m : ~(1 <= i - pos /\ i - pos <= n) => Put(r, pos, b)[i] = r[i]

\* Bytes that are put into a sequence leave its length and the rest of it.
LEMMA Putting ==
    ASSUME NEW r, NEW m \in Nat, DOMAIN r = 1..m, NEW pos \in Nat, NEW b, NEW n \in Nat, DOMAIN b = 1..n
    PROVE  PutInto(r, m, pos, b, n)
<1> DEFINE f == [i \in 1..m |-> IF i - pos \in 1..n THEN b[i - pos] ELSE r[i]]
<1>1. Put(r, pos, b) = f  BY DEF Put
<1>2. /\ DOMAIN f = 1..m
      /\ \A i \in 1..m : (1 <= i - pos /\ i - pos <= n) => f[i] = b[i - pos]
      /\ \A i \in 1..m : ~(1 <= i - pos /\ i - pos <= n) => f[i] = r[i]
  OBVIOUS
<1> HIDE DEF f
<1> QED  BY <1>1, <1>2 DEF PutInto

\* What is before the first c.
UpTo(s, c) == SubSeq(s, 1, IndexOf(s, c) - 1)

\* What comes before the first c is all of it up to there.
LEMMA UpToIs ==
    ASSUME NEW s \in Seq(Int), NEW c, NEW k \in 0..Len(s),
           \A i \in 1..k : s[i] # c, k < Len(s) => s[k + 1] = c
    PROVE  /\ UpTo(s, c) \in Seq(Int) /\ Len(UpTo(s, c)) = k
           /\ \A i \in 1..k : UpTo(s, c)[i] = s[i]
<1> DEFINE m == k + 1
<1>1. m \in 1..(Len(s) + 1) /\ m - 1 = k /\ (m <= Len(s) => s[m] = c)  OBVIOUS
<1> HIDE DEF m
<1>2. IndexOf(s, c) = m
  <2>1. \A j \in 1..(m - 1) : s[j] # c  BY <1>1
  <2> QED  BY <1>1, <2>1, IndexOfAt
<1>3. UpTo(s, c) = SubSeq(s, 1, k)  BY <1>1, <1>2 DEF UpTo
<1> QED  BY <1>3, FirstPart DEF IsFront

\* A string goes to the first NUL of its buffer.
LEMMA StringIs ==
    ASSUME NEW b \in Seq(Int), NEW k \in 0..Len(b),
           \A i \in 1..k : b[i] # NUL, k < Len(b) => b[k + 1] = NUL
    PROVE  /\ String(b) \in Seq(Int) /\ Len(String(b)) = k
           /\ \A i \in 1..k : String(b)[i] = b[i]
<1>1. String(b) = UpTo(b, NUL)  BY DEF String, UpTo
<1> QED  BY <1>1, UpToIs

\* Every buffer has one.
LEMMA StringFacts ==
    ASSUME NEW b \in Seq(Int)
    PROVE  /\ String(b) \in Seq(Int) /\ Len(String(b)) \in 0..Len(b)
           /\ \A i \in 1..Len(String(b)) : String(b)[i] = b[i] /\ b[i] # NUL
           /\ Len(String(b)) < Len(b) => b[Len(String(b)) + 1] = NUL
<1> DEFINE k == IndexOf(b, NUL) - 1
<1>1. Len(b) \in Nat  OBVIOUS
<1>2. /\ k \in 0..Len(b) /\ (k < Len(b) => b[k + 1] = NUL)
      /\ \A i \in 1..k : b[i] # NUL
  BY <1>1, IndexOfFacts
<1> HIDE DEF k
<1>3. /\ String(b) \in Seq(Int) /\ Len(String(b)) = k
      /\ \A i \in 1..k : String(b)[i] = b[i]
  BY <1>2, StringIs
<1> QED  BY <1>2, <1>3

\* A sequence without its first member.
LEMMA TailIs ==
    ASSUME NEW s \in Seq(Int), Len(s) > 0
    PROVE  /\ Tail(s) \in Seq(Int) /\ Len(Tail(s)) = Len(s) - 1
           /\ \A i \in 1..(Len(s) - 1) : Tail(s)[i] = s[i + 1]
<1>1. s # << >> /\ Len(s) \in Nat  OBVIOUS
<1> QED  BY <1>1, HeadTailProperties

\* Bytes as UCS2 characters without a high byte.
Widened(s) == [i \in 1..(2 * Len(s)) |-> IF i % 2 = 1 THEN 0 ELSE s[i \div 2]]

\* A name in bytes is made UCS2: a zero before each of them.
LEMMA WidenedIs ==
    ASSUME NEW s \in Seq(Int)
    PROVE  /\ Widened(s) \in Seq(Int) /\ Len(Widened(s)) = 2 * Len(s)
           /\ \A i \in 1..Len(s) : Widened(s)[2 * i - 1] = 0 /\ Widened(s)[2 * i] = s[i]
<1> DEFINE n == 2 * Len(s)
           f == [i \in 1..n |-> IF i % 2 = 1 THEN 0 ELSE s[i \div 2]]
<1>1. Len(s) \in Nat /\ n \in Nat /\ n = 2 * Len(s)  OBVIOUS
<1>2. \A i \in 1..Len(s) : s[i] \in Int  BY ElementOfSeq
<1> HIDE DEF n
<1>3. ASSUME NEW i \in 1..n  PROVE (IF i % 2 = 1 THEN 0 ELSE s[i \div 2]) \in Int
  <2>1. CASE i % 2 = 1  BY <2>1
  <2>2. CASE i % 2 # 1
    <3>1. i \div 2 \in 1..Len(s)  BY <1>1, <2>2
    <3> QED  BY <1>2, <2>2, <3>1
  <2> QED  BY <2>1, <2>2
<1>4. f \in [1..n -> Int]  BY <1>3
<1>5. \A i \in 1..Len(s) : f[2 * i - 1] = 0 /\ f[2 * i] = s[i]
  <2> SUFFICES ASSUME NEW i \in 1..Len(s)  PROVE f[2 * i - 1] = 0 /\ f[2 * i] = s[i]
    OBVIOUS
  <2>1. 2 * i - 1 \in 1..n /\ 2 * i \in 1..n  BY <1>1
  <2>2. (2 * i - 1) % 2 = 1 /\ (2 * i) % 2 = 0 /\ (2 * i) \div 2 = i  BY <1>1
  <2> QED  BY <2>1, <2>2
<1> HIDE DEF f
<1>6. f \in Seq(Int) /\ Len(f) = n  BY <1>1, <1>4, FunctionIsSeq
<1> QED  BY <1>1, <1>5, <1>6 DEF Widened, f, n

\* The name a is that of the first k places of a field.
IsNameTo(a, b, k) ==
    /\ a \in Seq(Int)
    /\ b[1] # 128 => /\ Len(a) = 2 * k
                     /\ \A i \in 1..k : a[2 * i - 1] = 0 /\ a[2 * i] = b[i]
    /\ b[1] = 128 => /\ k > 0 /\ Len(a) = k - 1
                     /\ \A i \in 1..(k - 1) : a[i] = b[i + 1]

\* The name is read up to the first FF or NUL.
LEMMA AlphaRead ==
    ASSUME NEW b \in Seq(Int), NEW k \in 0..(Len(b) - 1), b[1] # NUL,
           \A i \in 1..k : b[i] # NUL /\ b[i] # 255, b[k + 1] = NUL \/ b[k + 1] = 255
    PROVE  IsNameTo(read_alpha(b), b, k)
<1> DEFINE s == String(b)
<1>1. /\ s \in Seq(Int) /\ Len(s) \in 0..Len(b) /\ Len(b) \in Nat
      /\ \A i \in 1..Len(s) : s[i] = b[i] /\ b[i] # NUL
      /\ Len(s) < Len(b) => b[Len(s) + 1] = NUL
  BY StringFacts
<1>2. String(b) = s /\ Byte2(F, F) = 255  BY DEF Byte2, F
<1> HIDE DEF s
<1>3. k <= Len(s) /\ (k < Len(s) => s[k + 1] = 255)
  <2>1. CASE Len(s) < k
    <3>1. Len(s) + 1 \in 1..k /\ b[Len(s) + 1] = NUL  BY <1>1, <2>1
    <3> QED  BY <3>1
  <2>2. CASE k < Len(s)
    <3>1. k + 1 \in 1..Len(s)  BY <1>1, <2>2
    <3> QED  BY <1>1, <2>2, <3>1
  <2>3. CASE k = Len(s)  BY <2>3
  <2> QED  BY <1>1, <2>1, <2>2, <2>3
<1>4. Len(s) > 0 /\ s[1] = b[1] /\ Len(s) \in Nat
  <2>1. ~(Len(s) = 0)  BY <1>1
  <2> QED  BY <1>1, <2>1
<1>5. \A i \in 1..k : s[i] = b[i] /\ s[i] # 255  BY <1>1, <1>3, SMTT(30)
<1>6. CASE b[1] # 128
  <2>1. k \in 0..Len(s)  BY <1>3, <1>4
  <2>2. UpTo(s, 255) \in Seq(Int) /\ Len(UpTo(s, 255)) = k /\ \A i \in 1..k : UpTo(s, 255)[i] = s[i]
    BY <1>1, <1>3, <1>5, <2>1, UpToIs
  <2>3. read_alpha(b) = Widened(UpTo(s, 255))  BY <1>2, <1>4, <1>6, ZenonT(30) DEF read_alpha, Widened, UpTo
  <2> DEFINE kept == UpTo(s, 255)
  <2> HIDE DEF kept
  <2>4. /\ kept \in Seq(Int) /\ Len(kept) = k /\ read_alpha(b) = Widened(kept)
        /\ \A i \in 1..k : kept[i] = b[i]
    BY <1>5, <2>2, <2>3 DEF kept
  <2>5. /\ Widened(kept) \in Seq(Int) /\ Len(Widened(kept)) = 2 * Len(kept)
        /\ \A i \in 1..Len(kept) : Widened(kept)[2 * i - 1] = 0 /\ Widened(kept)[2 * i] = kept[i]
    <3>1. kept \in Seq(Int)  BY <2>4
    <3> QED  BY <3>1, WidenedIs
  <2>6. /\ read_alpha(b) \in Seq(Int) /\ Len(read_alpha(b)) = 2 * k
        /\ \A i \in 1..k : read_alpha(b)[2 * i - 1] = 0 /\ read_alpha(b)[2 * i] = b[i]
    <3> DEFINE w == Widened(kept)
    <3>1. /\ w \in Seq(Int) /\ Len(w) = 2 * k
          /\ \A i \in 1..k : w[2 * i - 1] = 0 /\ w[2 * i] = kept[i]
      BY <2>4, <2>5
    <3>2. read_alpha(b) = w /\ \A i \in 1..k : kept[i] = b[i]  BY <2>4
    <3> HIDE DEF w
    <3> QED  BY <3>1, <3>2
  <2> QED  BY <1>6, <2>6 DEF IsNameTo
<1>7. CASE b[1] = 128
  <2> DEFINE t == Tail(s)
  <2>1. t \in Seq(Int) /\ Len(t) = Len(s) - 1 /\ \A i \in 1..(Len(s) - 1) : t[i] = s[i + 1]
    BY <1>1, <1>4, TailIs
  <2>2. read_alpha(b) = UpTo(t, 255)  BY <1>2, <1>4, <1>7 DEF read_alpha, UpTo
  <2> HIDE DEF t
  <2>3. k > 0 /\ k \in Nat
    <3>1. k # 0  BY <1>7 DEF NUL
    <3> QED  BY <3>1
  <2> DEFINE m == k - 1
  <2>4. m \in 0..Len(t) /\ m + 1 = k /\ (m < Len(t) => t[m + 1] = 255)
    <3>1. m \in 0..Len(t) /\ m + 1 = k  BY <1>3, <1>4, <2>1, <2>3
    <3>2. ASSUME m < Len(t)  PROVE t[k] = 255
      <4>1. k \in 1..(Len(s) - 1) /\ k < Len(s)  BY <1>4, <2>1, <2>3, <3>1, <3>2, SMTT(30)
      <4> QED  BY <1>3, <2>1, <4>1
    <3> QED  BY <3>1, <3>2
  <2>5. \A j \in 1..m : t[j] # 255 /\ t[j] = b[j + 1]
    <3> SUFFICES ASSUME NEW j \in 1..m  PROVE t[j] # 255 /\ t[j] = b[j + 1]
      OBVIOUS
    <3>1. j \in 1..(Len(s) - 1) /\ j + 1 \in 1..k  BY <1>3, <1>4, <2>3
    <3> QED  BY <1>5, <2>1, <3>1
  <2>6. m = k - 1  OBVIOUS
  <2> HIDE DEF m
  <2>7. /\ UpTo(t, 255) \in Seq(Int) /\ Len(UpTo(t, 255)) = m
        /\ \A i \in 1..m : UpTo(t, 255)[i] = t[i]
    <3>1. t \in Seq(Int) /\ \A i \in 1..m : t[i] # 255  BY <2>1, <2>5
    <3> QED  BY <2>4, <3>1, UpToIs
  <2> QED  BY <1>7, <2>2, <2>3, <2>5, <2>6, <2>7 DEF IsNameTo
<1> QED  BY <1>6, <1>7

\* Whatever is in the buffer, a name of bytes is read.
LEMMA AlphaReadType ==
    ASSUME NEW b \in Seq(Int), Len(b) > 0, b[1] # NUL
    PROVE  read_alpha(b) \in Seq(Int)
<1> DEFINE s == String(b)
           t == Tail(s)
<1>1. /\ s \in Seq(Int) /\ Len(s) \in 0..Len(b) /\ Len(b) \in Nat
      /\ Len(s) < Len(b) => b[Len(s) + 1] = NUL
  BY StringFacts
<1>2. String(b) = s /\ Byte2(F, F) = 255  BY DEF Byte2, F
<1> HIDE DEF s
<1>3. Len(s) > 0  BY <1>1
<1>4. t \in Seq(Int)  BY <1>1, <1>3, TailIs
<1> HIDE DEF t
<1>5. ASSUME NEW x \in Seq(Int)  PROVE UpTo(x, 255) \in Seq(Int)
  <2> DEFINE k == IndexOf(x, 255) - 1
  <2>1. k \in 0..Len(x)
    <3>1. Len(x) \in Nat  OBVIOUS
    <3> QED  BY <3>1, IndexOfFacts
  <2> HIDE DEF k
  <2>2. SubSeq(x, 1, k) \in Seq(Int)  BY <2>1, FirstPart DEF IsFront
  <2> QED  BY <2>2 DEF k, UpTo
<1>6. UpTo(s, 255) \in Seq(Int) /\ UpTo(t, 255) \in Seq(Int)  BY <1>1, <1>4, <1>5
<1>7. Widened(UpTo(s, 255)) \in Seq(Int)  BY <1>6, WidenedIs
<1>8. read_alpha(b) = IF s[1] = 128 THEN UpTo(t, 255)
                      ELSE Widened(UpTo(s, 255))
  <2>1. CASE s[1] = 128  BY <1>2, <2>1 DEF read_alpha, UpTo, t
  <2>2. CASE s[1] # 128
    <3> DEFINE name == IF s[1] = 128 THEN t ELSE s
    <3>1. read_alpha(b) = IF s[1] = 128 THEN UpTo(name, 255) ELSE Widened(UpTo(name, 255))
      BY <1>2 DEF read_alpha, Widened, UpTo, t
    <3>2. name = s  BY <2>2
    <3> HIDE DEF name
    <3>3. read_alpha(b) = Widened(UpTo(name, 255))  BY <2>2, <3>1
    <3> QED  BY <2>2, <3>2, <3>3
  <2> QED  BY <2>1, <2>2
<1> QED  BY <1>6, <1>7, <1>8

-----------------------------------------------------------------------------
(* The record of an entry.                                                   *)

NameOf(e) ==
    IF is_empty_alpha(e.alpha)
      THEN copy_number_to_alpha(e.number, IF Len(e.number) > 13 THEN 13 ELSE Len(e.number))
      ELSE retrive_alpha(e.alpha)

\* The digits of a number: all of it, or all but the plus.
LEMMA DigitsAre ==
    ASSUME NEW e \in Entries
    PROVE  /\ ~HasPlus(e.number) => DigitsOf(e.number) = e.number
           /\ \A i \in 1..(Len(e.number) - 1) : DigitsOf(e.number)[i] \in 0..9
           /\ ~HasPlus(e.number) => \A i \in 1..Len(e.number) : e.number[i] \in 0..9
<1> DEFINE n == e.number
<1>1. /\ n \in Seq(Int) /\ Len(n) \in Nat /\ Len(n) > 0
      /\ \A i \in 2..Len(n) : n[i] \in 0..9
      /\ ~HasPlus(n) => n[1] \in 0..9
  BY Listed, ZenonT(30)
<1> HIDE DEF n
<1>2. ~HasPlus(n) => \A i \in 1..Len(n) : n[i] \in 0..9  BY <1>1
<1>3. CASE HasPlus(n)
  <2>1. Len(Tail(n)) = Len(n) - 1 /\ \A i \in 1..(Len(n) - 1) : Tail(n)[i] = n[i + 1]
    BY <1>1, TailIs
  <2>2. \A i \in 1..(Len(n) - 1) : i + 1 \in 2..Len(n)  BY <1>1
  <2>3. \A i \in 1..(Len(n) - 1) : Tail(n)[i] \in 0..9  BY <1>1, <2>1, <2>2
  <2> QED  BY <1>2, <1>3, <2>3 DEF DigitsOf, n
<1>4. CASE ~HasPlus(n)
  <2>1. \A i \in 1..(Len(n) - 1) : n[i] \in 0..9  BY <1>1, <1>2, <1>4
  <2> QED  BY <1>2, <1>4, <2>1 DEF DigitsOf, n
<1> QED  BY <1>3, <1>4

\* The name in a record: bytes, after the kind of name that the entry has.
LEMMA NameIs ==
    ASSUME NEW e \in Entries
    PROVE  \E n \in Nat :
             /\ DOMAIN NameOf(e) = 1..n
             /\ \A i \in 1..n : NameOf(e)[i] \in 0..255
             /\ is_empty_alpha(e.alpha) /\ ~HasPlus(e.number)
                  => n > 0 /\ NameOf(e)[1] = 48 + e.number[1]
             /\ ~is_empty_alpha(e.alpha) /\ e.alpha[1] = 0
                  => /\ n = Len(e.alpha) \div 2
                     /\ \A i \in 1..n : NameOf(e)[i] = e.alpha[2 * i]
             /\ ~is_empty_alpha(e.alpha) /\ e.alpha[1] # 0
                  => /\ n = Len(e.alpha) + 1 /\ NameOf(e)[1] = 128
                     /\ \A i \in 1..Len(e.alpha) : NameOf(e)[i + 1] = e.alpha[i]
<1> DEFINE a == e.alpha
           d == e.number
           x == DigitsOf(d)
<1>1. /\ a \in Seq(Int) /\ Len(a) \in Nat /\ \A i \in 1..Len(a) : a[i] \in 0..255
      /\ Len(d) \in Nat /\ Len(d) > 0 /\ (HasPlus(d) => Len(d) > 1)
      /\ Len(a) % 2 = 0
  BY Listed, ZenonT(30)
<1>2. /\ ~HasPlus(d) => x = d
      /\ \A i \in 1..(Len(d) - 1) : x[i] \in 0..9
      /\ ~HasPlus(d) => \A i \in 1..Len(d) : d[i] \in 0..9
  BY DigitsAre
<1>3. CASE is_empty_alpha(a)
  <2> DEFINE m == IF Len(d) > 13 THEN 13 ELSE Len(d)
             n == IF HasPlus(d) THEN m - 2 ELSE m
             f == [i \in 1..n |-> 48 + x[i]]
  <2>1. NameOf(e) = f  BY <1>3 DEF NameOf, copy_number_to_alpha
  <2> HIDE DEF a, d, x
  <2>2. /\ n \in Nat /\ (HasPlus(d) => n <= Len(d) - 1)
        /\ ~HasPlus(d) => n > 0 /\ n <= Len(d)
    BY <1>1
  <2> HIDE DEF n
  <2>3. \A i \in 1..n : x[i] \in 0..9
    <3>1. CASE HasPlus(d)
      <4>1. \A i \in 1..n : i \in 1..(Len(d) - 1)  BY <1>1, <2>2, <3>1
      <4> QED  BY <1>2, <4>1
    <3>2. CASE ~HasPlus(d)
      <4>1. \A i \in 1..n : i \in 1..Len(d)  BY <1>1, <2>2, <3>2
      <4> QED  BY <1>2, <3>2, <4>1
    <3> QED  BY <3>1, <3>2
  <2>4. DOMAIN f = 1..n /\ (\A i \in 1..n : f[i] = 48 + x[i])  OBVIOUS
  <2>5. ~HasPlus(d) => 1 \in 1..n /\ x[1] = d[1]  BY <1>2, <2>2
  <2> HIDE DEF f
  <2>6. \A i \in 1..n : f[i] \in 0..255
    <3> SUFFICES ASSUME NEW i \in 1..n  PROVE f[i] \in 0..255
      OBVIOUS
    <3>1. x[i] \in 0..9 /\ f[i] = 48 + x[i]  BY <2>3, <2>4
    <3> QED  BY <3>1
  <2>7. ~HasPlus(d) => n > 0 /\ f[1] = 48 + d[1]  BY <2>2, <2>4, <2>5
  <2> QED  BY <1>3, <2>1, <2>2, <2>4, <2>6, <2>7 DEF a, d
<1>4. CASE ~is_empty_alpha(a) /\ a[1] = 0
  <2> DEFINE n == Len(a) \div 2
             f == [i \in 1..n |-> a[2 * i]]
  <2>1. NameOf(e) = f  BY <1>4 DEF NameOf, retrive_alpha
  <2> HIDE DEF a, d, x
  <2>2. n \in Nat /\ 2 * n = Len(a) /\ n = Len(a) \div 2
    <3>1. Len(a) \in Nat /\ Len(a) % 2 = 0  BY <1>1
    <3> QED  BY <3>1
  <2> HIDE DEF n
  <2>3. \A i \in 1..n : 2 * i \in 1..Len(a)  BY <1>1, <2>2
  <2>4. DOMAIN f = 1..n /\ \A i \in 1..n : f[i] = a[2 * i]  OBVIOUS
  <2> HIDE DEF f
  <2>5. \A i \in 1..n : f[i] \in 0..255  BY <1>1, <2>3, <2>4
  <2> QED  BY <1>4, <2>1, <2>2, <2>4, <2>5 DEF a
<1>5. CASE ~is_empty_alpha(a) /\ a[1] # 0
  <2> DEFINE f == <<128>> \o a
             n == Len(a) + 1
  <2>1. NameOf(e) = f  BY <1>5 DEF NameOf, retrive_alpha
  <2> HIDE DEF a, d, x
  <2>2. <<128>> \in Seq(Int) /\ Len(<<128>>) = 1 /\ <<128>>[1] = 128  OBVIOUS
  <2>3. /\ f \in Seq(Int) /\ Len(f) = Len(<<128>>) + Len(a)
        /\ \A i \in 1..Len(<<128>>) : f[i] = <<128>>[i]
        /\ \A i \in 1..Len(a) : f[Len(<<128>>) + i] = a[i]
    BY <1>1, <2>2, Joined
  <2> HIDE DEF f
  <2>4. n \in Nat /\ DOMAIN f = 1..n /\ f[1] = 128 /\ \A i \in 1..Len(a) : f[i + 1] = a[i]
    BY <1>1, <2>2, <2>3
  <2>5. \A i \in 1..n : f[i] \in 0..255
    <3> SUFFICES ASSUME NEW i \in 1..n  PROVE f[i] \in 0..255
      OBVIOUS
    <3>1. CASE i = 1  BY <2>4, <3>1
    <3>2. CASE i # 1
      <4> DEFINE j == i - 1
      <4>1. j \in 1..Len(a) /\ j + 1 = i  BY <1>1, <3>2
      <4> HIDE DEF j
      <4> QED  BY <1>1, <2>4, <4>1
    <3> QED  BY <3>1, <3>2
  <2>6. n = Len(a) + 1  OBVIOUS
  <2> HIDE DEF n
  <2> QED  BY <1>5, <2>1, <2>4, <2>5, <2>6 DEF a
<1> QED  BY <1>3, <1>4, <1>5

\* The number in a record: bytes, of two digits each.
LEMMA NumberIs ==
    ASSUME NEW e \in Entries
    PROVE  \E h \in Nat :
             /\ retrive_number(e.number) \in [1..h -> 0..255]
             /\ ~HasPlus(e.number)
                  => /\ h = (Len(e.number) + 1) \div 2
                     /\ \A i \in 1..h :
                          /\ retrive_number(e.number)[i] % 16 = e.number[2 * i - 1]
                          /\ retrive_number(e.number)[i] \div 16
                               = IF 2 * i <= Len(e.number) THEN e.number[2 * i] ELSE F
<1> DEFINE d == e.number
           x == DigitsOf(d)
           count == IF HasPlus(d) THEN Len(d) - 3 ELSE Len(d)
           h == (count + 1) \div 2
           f == [i \in 1..h |-> Byte2(IF 2 * i <= count THEN x[2 * i] ELSE F, x[2 * i - 1])]
<1>1. Len(d) \in Nat /\ Len(d) > 0 /\ (HasPlus(d) => Len(d) > 1)  BY Listed
<1>2. /\ ~HasPlus(d) => x = d
      /\ \A i \in 1..(Len(d) - 1) : x[i] \in 0..9
      /\ ~HasPlus(d) => \A i \in 1..Len(d) : d[i] \in 0..9
  BY DigitsAre
<1>3. retrive_number(d) = f  BY DEF retrive_number
<1> HIDE DEF d, x
<1>4. /\ count \in Int /\ (HasPlus(d) => count <= Len(d) - 3 /\ count >= -1)
      /\ ~HasPlus(d) => count = Len(d)
  BY <1>1
<1> HIDE DEF count
<1>5. h \in Nat /\ h = (count + 1) \div 2  BY <1>1, <1>4
<1>6. \A i \in 1..count : x[i] \in 0..9
  <2>1. CASE HasPlus(d)
    <3>1. \A i \in 1..count : i \in 1..(Len(d) - 1)  BY <1>1, <1>4, <2>1
    <3> QED  BY <1>2, <3>1
  <2>2. CASE ~HasPlus(d)  BY <1>2, <1>4, <2>2
  <2> QED  BY <2>1, <2>2
<1> DEFINE hi(i) == IF 2 * i <= count THEN x[2 * i] ELSE F
           lo(i) == x[2 * i - 1]
<1>7. ASSUME NEW i \in 1..h  PROVE hi(i) \in 0..15 /\ lo(i) \in 0..9
  <2>1. 2 * i - 1 \in 1..count  BY <1>4, <1>5
  <2>2. CASE 2 * i <= count
    <3>1. 2 * i \in 1..count  BY <1>4, <1>5, <2>2
    <3>2. x[2 * i] \in 0..9 /\ x[2 * i - 1] \in 0..9  BY <1>6, <2>1, <3>1
    <3> QED  BY <2>2, <3>2
  <2>3. CASE ~(2 * i <= count)
    <3>1. x[2 * i - 1] \in 0..9  BY <1>6, <2>1
    <3> QED  BY <2>3, <3>1 DEF F
  <2> QED  BY <2>2, <2>3
<1>8. \A i \in 1..h : f[i] = 16 * hi(i) + lo(i)  BY DEF Byte2
<1>9. f = [i \in 1..h |-> f[i]]  OBVIOUS
<1> HIDE DEF f, h, hi, lo
<1>10. \A i \in 1..h : f[i] \in 0..255 /\ f[i] % 16 = lo(i) /\ f[i] \div 16 = hi(i)
  BY <1>7, <1>8
<1>11. f \in [1..h -> 0..255]  BY <1>9, <1>10
<1>12. ~HasPlus(d) => /\ h = (Len(d) + 1) \div 2
                      /\ \A i \in 1..h : /\ lo(i) = d[2 * i - 1]
                                         /\ hi(i) = IF 2 * i <= Len(d) THEN d[2 * i] ELSE F
  BY <1>2, <1>4, <1>5 DEF hi, lo
<1>13. ~HasPlus(d) => /\ h = (Len(d) + 1) \div 2
                      /\ \A i \in 1..h : /\ f[i] % 16 = d[2 * i - 1]
                                         /\ f[i] \div 16 = IF 2 * i <= Len(d) THEN d[2 * i] ELSE F
  BY <1>10, <1>12
<1> QED  BY <1>3, <1>5, <1>11, <1>13 DEF d

\* The record: the name and FFs, the length, the code, the number and FFs.
LEMMA RecordIs ==
    ASSUME NEW e \in Entries
    PROVE  /\ Record[e] \in Seq(Int) /\ Len(Record[e]) = RecordBytes
           /\ \A i \in 1..RecordBytes : Record[e][i] \in 0..255
           /\ Record[e][15] = NumberLength(e.number) /\ Record[e][16] = e.code
           /\ \A i \in 1..AlphaBytes :
                Record[e][i] = IF i \in DOMAIN NameOf(e) THEN NameOf(e)[i] ELSE 255
           /\ \A i \in 1..(RecordBytes - AlphaBytes - 2) :
                i \in DOMAIN retrive_number(e.number)
                  => Record[e][16 + i] = retrive_number(e.number)[i]
<1> DEFINE name   == NameOf(e)
           N      == retrive_number(e.number)
           L      == NumberLength(e.number)
           c      == e.code
           front  == <<L, c>>
           bytes  == front \o N
           erased == [i \in 1..28 |-> 255]
           named  == Put(erased, 0, name)
           R      == Put(named, 14, bytes)
<1>1. PICK n \in Nat : DOMAIN name = 1..n /\ \A i \in 1..n : name[i] \in 0..255  BY NameIs
<1>2. PICK h \in Nat : N \in [1..h -> 0..255]  BY NumberIs
<1>3. c \in 0..255 /\ L \in 0..255
  <2> DEFINE l == Len(e.number)
  <2>1. l \in Nat /\ l <= 62 /\ c \in 0..255  BY Listed
  <2>2. L = (l + 1) \div 2 + 1  BY DEF NumberLength
  <2> HIDE DEF l, L, c
  <2> QED  BY <2>1, <2>2
<1>4. Record[e] = R
  <2>1. Record[e] = convert_phone_book(e)  BY ReadAsListed DEF Record
  <2> QED  BY <2>1 DEF convert_phone_book, NameOf, RecordBytes, AlphaBytes, Byte2, F
<1> HIDE DEF name, N, L, c
<1>5. front \in Seq(Int) /\ Len(front) = 2 /\ front[1] = L /\ front[2] = c  BY <1>3
<1>6. N \in Seq(Int) /\ Len(N) = h /\ DOMAIN N = 1..h /\ \A i \in 1..h : N[i] \in 0..255
  <2>1. N \in Seq(0..255) /\ Len(N) = h  BY <1>2, FunctionIsSeq
  <2>2. 0..255 \subseteq Int  OBVIOUS
  <2>3. N \in Seq(Int)  BY <2>1, <2>2, SeqFacts
  <2> QED  BY <1>2, <2>1, <2>3
<1> HIDE DEF front
<1>7. /\ bytes \in Seq(Int) /\ Len(bytes) = Len(front) + Len(N)
      /\ \A i \in 1..Len(front) : bytes[i] = front[i]
      /\ \A i \in 1..Len(N) : bytes[Len(front) + i] = N[i]
  BY <1>5, <1>6, Joined
<1> HIDE DEF bytes
<1>8. /\ h + 2 \in Nat /\ DOMAIN bytes = 1..(h + 2) /\ bytes[1] = L /\ bytes[2] = c
      /\ \A i \in 1..h : bytes[2 + i] = N[i]
  BY <1>5, <1>6, <1>7
<1>9. \A i \in 1..(h + 2) : bytes[i] \in 0..255
  <2> SUFFICES ASSUME NEW i \in 1..(h + 2)  PROVE bytes[i] \in 0..255
    OBVIOUS
  <2>1. CASE i = 1  BY <1>3, <1>8, <2>1
  <2>2. CASE i = 2  BY <1>3, <1>8, <2>2
  <2>3. CASE i > 2
    <3> DEFINE j == i - 2
    <3>1. j \in 1..h /\ 2 + j = i  BY <2>3
    <3> HIDE DEF j
    <3> QED  BY <1>6, <1>8, <3>1
  <2> QED  BY <2>1, <2>2, <2>3
<1>10. DOMAIN erased = 1..28 /\ \A i \in 1..28 : erased[i] = 255  OBVIOUS
<1> HIDE DEF erased
<1>11. /\ DOMAIN named = 1..28
       /\ \A i \in 1..28 : i \in 1..n => named[i] = name[i]
       /\ \A i \in 1..28 : i \notin 1..n => named[i] = 255
  <2>1. /\ DOMAIN named = 1..28
        /\ \A i \in 1..28 : (1 <= i - 0 /\ i - 0 <= n) => named[i] = name[i - 0]
        /\ \A i \in 1..28 : ~(1 <= i - 0 /\ i - 0 <= n) => named[i] = erased[i]
    <3>1. 0 \in Nat /\ 28 \in Nat /\ DOMAIN name = 1..n /\ DOMAIN erased = 1..28
      BY <1>1, <1>10
    <3>2. PutInto(erased, 28, 0, name, n)  BY <3>1, Putting
    <3> QED  BY <3>2 DEF PutInto
  <2> HIDE DEF named
  <2> QED  BY <1>10, <2>1
<1> HIDE DEF named
<1>12. /\ DOMAIN R = 1..28
       /\ \A i \in 1..28 : (1 <= i - 14 /\ i - 14 <= h + 2) => R[i] = bytes[i - 14]
       /\ \A i \in 1..28 : ~(1 <= i - 14 /\ i - 14 <= h + 2) => R[i] = named[i]
  <2> DEFINE m == h + 2
  <2>1. /\ m \in Nat /\ 14 \in Nat /\ 28 \in Nat /\ DOMAIN bytes = 1..m /\ DOMAIN named = 1..28
    BY <1>8, <1>11
  <2> HIDE DEF m
  <2>2. /\ DOMAIN R = 1..28
        /\ \A i \in 1..28 : (1 <= i - 14 /\ i - 14 <= m) => R[i] = bytes[i - 14]
        /\ \A i \in 1..28 : ~(1 <= i - 14 /\ i - 14 <= m) => R[i] = named[i]
    <3>1. PutInto(named, 28, 14, bytes, m)  BY <2>1, Putting
    <3> QED  BY <3>1 DEF PutInto
  <2> QED  BY <2>2 DEF m
<1>13. R = [i \in 1..28 |-> R[i]]
  <2>1. R = [i \in DOMAIN named |-> IF i - 14 \in DOMAIN bytes THEN bytes[i - 14] ELSE named[i]]
    BY DEF Put
  <2> QED  BY <1>12, <2>1
<1> HIDE DEF R
<1>14. \A i \in 1..28 : R[i] \in 0..255
  <2> SUFFICES ASSUME NEW i \in 1..28  PROVE R[i] \in 0..255
    OBVIOUS
  <2>1. CASE 1 <= i - 14 /\ i - 14 <= h + 2
    <3> DEFINE j == i - 14
    <3>1. j \in 1..(h + 2) /\ R[i] = bytes[j]  BY <1>12, <2>1
    <3> HIDE DEF j
    <3> QED  BY <1>9, <3>1
  <2>2. CASE ~(1 <= i - 14 /\ i - 14 <= h + 2)
    <3>1. R[i] = named[i]  BY <1>12, <2>2
    <3>2. CASE i \in 1..n
      <4>1. named[i] = name[i] /\ name[i] \in 0..255  BY <1>1, <1>11, <3>2
      <4> QED  BY <3>1, <4>1
    <3>3. CASE i \notin 1..n
      <4>1. named[i] = 255  BY <1>11, <3>3
      <4> QED  BY <3>1, <4>1
    <3> QED  BY <3>2, <3>3
  <2> QED  BY <2>1, <2>2
<1>15. R \in Seq(Int) /\ Len(R) = 28
  <2>1. \A i \in 1..28 : R[i] \in Int  BY <1>14, SMTT(30)
  <2>2. R \in [1..28 -> Int]  BY <1>13, <2>1
  <2> QED  BY <2>2, FunctionIsSeq
<1>16. R[15] = L /\ R[16] = c
  <2>1. R[15] = bytes[15 - 14] /\ R[16] = bytes[16 - 14]  BY <1>8, <1>12
  <2> QED  BY <1>8, <2>1
<1>17. \A i \in 1..14 : R[i] = IF i \in 1..n THEN name[i] ELSE 255
  BY <1>11, <1>12
<1>18. \A i \in 1..12 : i \in 1..h => R[16 + i] = N[i]
  <2> SUFFICES ASSUME NEW i \in 1..12, i \in 1..h  PROVE R[16 + i] = N[i]
    OBVIOUS
  <2> DEFINE j == 16 + i
  <2>1. j \in 1..28 /\ 1 <= j - 14 /\ j - 14 <= h + 2 /\ j - 14 = 2 + i  OBVIOUS
  <2> HIDE DEF j
  <2>2. R[j] = bytes[j - 14]  BY <1>12, <2>1
  <2> QED  BY <1>8, <2>1, <2>2 DEF j
<1>19. /\ R \in Seq(Int) /\ Len(R) = 28 /\ \A i \in 1..28 : R[i] \in 0..255
       /\ R[15] = L /\ R[16] = c
       /\ \A i \in 1..14 : R[i] = IF i \in DOMAIN name THEN name[i] ELSE 255
       /\ \A i \in 1..12 : i \in DOMAIN N => R[16 + i] = N[i]
  BY <1>1, <1>6, <1>14, <1>15, <1>16, <1>17, <1>18
<1>20. RecordBytes = 28 /\ AlphaBytes = 14 /\ RecordBytes - AlphaBytes - 2 = 12
  BY DEF RecordBytes, AlphaBytes
<1> QED  BY <1>4, <1>19, <1>20 DEF name, N, L, c

-----------------------------------------------------------------------------
(* The name comes back.                                                      *)

FitsName(e) ==
    /\ ~is_empty_alpha(e.alpha)
    /\ IF e.alpha[1] = 0 THEN Latin(e) /\ Names(e) <= AlphaBytes /\ e.alpha[2] # 128
       ELSE Len(e.alpha) < AlphaBytes
    /\ \A i \in DOMAIN e.alpha : e.alpha[i] # 255

\* A byte is not the end of a string.
LEMMA BytesAreNoNul == \A x \in 0..255 : x # NUL /\ x \in Int  BY DEF NUL

\* A name field that ends within the record, or at a NUL behind it: it starts with
\* the name of e, and is read as far as k.
NameField(e, b, k) ==
    /\ b \in Seq(Int) /\ Len(b) = 64 /\ k \in 0..14
    /\ \A i \in 1..14 : b[i] \in 0..255
    /\ \A i \in 1..14 : b[i] = IF i \in DOMAIN NameOf(e) THEN NameOf(e)[i] ELSE 255
    /\ \A i \in 1..k : b[i] # NUL /\ b[i] # 255
    /\ b[k + 1] = NUL \/ b[k + 1] = 255

\* The name field of the record of e ends somewhere.
LEMMA NameFieldEnds ==
    ASSUME NEW e \in Entries, NEW b \in Seq(Int), Len(b) = 64,
           \A i \in 1..AlphaBytes : b[i] = Record[e][i],
           Record[e][AlphaBytes] = 255 \/ b[AlphaBytes + 1] = NUL
    PROVE  \E k \in 0..14 : NameField(e, b, k)
<1> DEFINE R == Record[e]
           Is(x, i) == x = IF i \in DOMAIN NameOf(e) THEN NameOf(e)[i] ELSE 255
<1>1. AlphaBytes = 14 /\ RecordBytes = 28  BY DEF AlphaBytes, RecordBytes
<1>2. (\A i \in 1..28 : R[i] \in 0..255) /\ (\A i \in 1..14 : Is(R[i], i))
  <2>1. (\A i \in 1..RecordBytes : R[i] \in 0..255) /\ (\A i \in 1..AlphaBytes : Is(R[i], i))
    BY RecordIs
  <2> HIDE DEF R, Is
  <2> QED  BY <1>1, <2>1
<1>3. \A i \in 1..14 : b[i] = R[i]  BY <1>1
<1>4. R[14] = 255 \/ b[15] = NUL  BY <1>1
<1> HIDE DEF R, Is
<1>5. \A i \in 1..14 : b[i] \in 0..255 /\ Is(b[i], i)
  <2> SUFFICES ASSUME NEW i \in 1..14  PROVE b[i] \in 0..255 /\ Is(b[i], i)
    OBVIOUS
  <2>1. i \in 1..28 /\ b[i] = R[i]  BY <1>3
  <2> QED  BY <1>2, <2>1, ZenonT(30)
<1>6. PICK k \in 0..14 : (k < 14 => b[k + 1] = 255) /\ \A i \in 1..k : b[i] # 255
  <2> DEFINE S == {i \in 0..14 : i < 14 => b[i + 1] = 255}
  <2>1. IsWellFoundedOn(OpToRel(<, Nat), Nat)  BY NatLessThanWellFounded
  <2>2. S \subseteq Nat /\ 14 \in S  OBVIOUS
  <2>3. PICK k \in S : \A j \in S : <<j, k>> \notin OpToRel(<, Nat)
    <3> HIDE DEF S
    <3> QED  BY <2>1, <2>2, WFMin
  <2>4. \A j \in S : ~(j < k)  BY <2>2, <2>3 DEF OpToRel
  <2>5. ASSUME NEW i \in 1..k  PROVE b[i] # 255
    <3> DEFINE j == i - 1
    <3>1. j \in 0..14 /\ j < k /\ j + 1 = i  OBVIOUS
    <3> HIDE DEF j
    <3> QED  BY <2>4, <3>1
  <2> QED  BY <2>5
<1>7. \A i \in 1..k : b[i] # NUL /\ b[i] # 255
  <2> SUFFICES ASSUME NEW i \in 1..k  PROVE b[i] # NUL /\ b[i] # 255
    OBVIOUS
  <2>1. i \in 1..14  BY <1>6
  <2>2. b[i] # 255  BY <1>6
  <2>3. b[i] \in 0..255  BY <1>5, <2>1
  <2> QED  BY <2>2, <2>3, BytesAreNoNul
<1>8. b[k + 1] = NUL \/ b[k + 1] = 255
  <2>1. CASE k < 14  BY <1>6, <2>1
  <2>2. CASE k = 14
    <3>1. b[14] # 255 /\ b[14] = R[14]
      <4>1. 14 \in 1..k  BY <2>2
      <4>2. b[14] # 255  BY <1>7, <4>1
      <4> QED  BY <1>3, <4>2
    <3> QED  BY <1>4, <2>2, <3>1
  <2> QED  BY <2>1, <2>2
<1>9. NameField(e, b, k)  BY <1>5, <1>7, <1>8 DEF NameField, Is
<1> QED  BY <1>9

\* What is read from such a field.
LEMMA NameFieldRead ==
    ASSUME NEW e \in Entries, NEW b, NEW k, NameField(e, b, k)
    PROVE  IsNameTo(read_alpha(b), b, k) /\ Len(read_alpha(b)) <= 28
<1> DEFINE r == read_alpha(b)
<1>1. b \in Seq(Int) /\ k \in 0..(Len(b) - 1) /\ k \in 0..14 /\ b[1] \in 0..255  BY DEF NameField
<1>2. b[1] # NUL  BY <1>1, BytesAreNoNul
<1>3. (\A i \in 1..k : b[i] # NUL /\ b[i] # 255) /\ (b[k + 1] = NUL \/ b[k + 1] = 255)
  BY DEF NameField
<1>4. IsNameTo(r, b, k)  BY <1>1, <1>2, <1>3, AlphaRead
<1> HIDE DEF r
<1>5. Len(r) <= 28
  <2>1. Len(r) = 2 * k \/ Len(r) = k - 1  BY <1>4 DEF IsNameTo
  <2> QED  BY <1>1, <2>1
<1> QED  BY <1>4, <1>5 DEF r

\* It does not go on behind the name of e.
LEMMA NameFieldWithin ==
    ASSUME NEW e \in Entries, NEW b, NEW k, NameField(e, b, k),
           NEW n \in Nat, DOMAIN NameOf(e) = 1..n
    PROVE  k <= n /\ \A i \in 1..k : b[i] = NameOf(e)[i]
<1>1. /\ k \in 0..14 /\ \A i \in 1..14 : b[i] = IF i \in 1..n THEN NameOf(e)[i] ELSE 255
      /\ \A i \in 1..k : b[i] # 255
  BY DEF NameField
<1>2. k <= n
  <2> SUFFICES ASSUME k > n  PROVE FALSE
    BY <1>1
  <2> DEFINE i == n + 1
  <2>1. i \in 1..k /\ i \in 1..14 /\ i \notin 1..n  BY <1>1
  <2> HIDE DEF i
  <2> QED  BY <1>1, <2>1
<1>3. \A i \in 1..k : b[i] = NameOf(e)[i]
  <2> SUFFICES ASSUME NEW i \in 1..k  PROVE b[i] = NameOf(e)[i]
    OBVIOUS
  <2>1. i \in 1..14 /\ i \in 1..n  BY <1>1, <1>2
  <2> QED  BY <1>1, <2>1
<1> QED  BY <1>2, <1>3

\* An entry without a name is given its digits for one.
LEMMA BlankName ==
    ASSUME NEW e \in Entries, NEW b, NEW k, NameField(e, b, k),
           is_empty_alpha(e.alpha), ~HasPlus(e.number)
    PROVE  read_alpha(b) # e.alpha
<1> DEFINE a == e.alpha
           r == read_alpha(b)
           d == e.number[1]
<1>1. PICK n \in Nat : DOMAIN NameOf(e) = 1..n /\ n > 0 /\ NameOf(e)[1] = 48 + d  BY NameIs
<1>2. d \in 0..9
  <2>1. Len(e.number) \in Nat /\ Len(e.number) > 0  BY Listed
  <2> QED  BY <2>1, DigitsAre
<1>3. /\ k \in 0..14 /\ (b[k + 1] = NUL \/ b[k + 1] = 255)
      /\ b[1] = IF 1 \in 1..n THEN NameOf(e)[1] ELSE 255
  BY <1>1 DEF NameField
<1>4. b[1] = 48 + d  BY <1>1, <1>3
<1> HIDE DEF d
<1>5. b[1] \in 48..57  BY <1>2, <1>4
<1>6. k > 0
  <2>1. k # 0  BY <1>3, <1>5 DEF NUL
  <2> QED  BY <1>3, <2>1
<1>7. r \in Seq(Int) /\ Len(r) = 2 * k /\ r[2 * 1] = b[1]
  <2>1. IsNameTo(r, b, k)  BY NameFieldRead
  <2>2. b[1] # 128 /\ 1 \in 1..k  BY <1>3, <1>5, <1>6
  <2> HIDE DEF r
  <2>3. r \in Seq(Int) /\ Len(r) = 2 * k /\ \A i \in 1..k : r[2 * i] = b[i]
    BY <2>1, <2>2 DEF IsNameTo
  <2> QED  BY <2>2, <2>3
<1>8. a \in Seq(Int) /\ Len(a) \in Nat  BY Listed
<1>9. Len(a) >= 2 => a[2 * 1] = 32
  <2>1. \A i \in 1..(Len(a) \div 2) : a[2 * i] = 32  BY DEF is_empty_alpha
  <2> HIDE DEF a
  <2>2. Len(a) >= 2 => 1 \in 1..(Len(a) \div 2)  BY <1>8
  <2> QED  BY <2>1, <2>2
<1> HIDE DEF a, r
<1>10. r # a  BY <1>3, <1>5, <1>6, <1>7, <1>8, <1>9, SMTT(30)
<1> QED  BY <1>10 DEF a, r

\* A place in a name is that of a high or of a low byte.
LEMMA InPairs ==
    ASSUME NEW n \in Nat, NEW i \in 1..(2 * n)
    PROVE  \E j \in 1..n : i = 2 * j - 1 \/ i = 2 * j
<1>1. CASE i % 2 = 0
  <2>1. i \div 2 \in 1..n /\ i = 2 * (i \div 2)  BY <1>1
  <2> QED  BY <2>1
<1>2. CASE i % 2 # 0
  <2>1. (i + 1) \div 2 \in 1..n /\ i = 2 * ((i + 1) \div 2) - 1  BY <1>2
  <2> QED  BY <2>1
<1> QED  BY <1>1, <1>2

\* A name that starts with a Latin character comes back exactly if it fits.
LEMMA LatinName ==
    ASSUME NEW e \in Entries, NEW b, NEW k, NameField(e, b, k),
           ~is_empty_alpha(e.alpha), e.alpha[1] = 0
    PROVE  read_alpha(b) = e.alpha <=> FitsName(e)
<1> DEFINE a == e.alpha
           r == read_alpha(b)
<1>1. PICK n \in Nat : /\ DOMAIN NameOf(e) = 1..n /\ n = Len(a) \div 2
                       /\ \A i \in 1..n : NameOf(e)[i] = a[2 * i]
  BY NameIs
<1>2. /\ a \in Seq(Int) /\ Len(a) \in Nat /\ Len(a) % 2 = 0 /\ DOMAIN a = 1..Len(a)
  <2>1. a \in Seq(Int) /\ Len(a) \in Nat /\ Len(a) % 2 = 0  BY Listed
  <2> HIDE DEF a
  <2> QED  BY <2>1
<1>3. ~is_empty_alpha(a) /\ a[1] = 0  OBVIOUS
<1>4. IsNameTo(r, b, k)  BY NameFieldRead
<1>5. FitsName(e) <=> /\ Latin(e) /\ Names(e) <= AlphaBytes /\ a[2] # 128
                      /\ \A i \in DOMAIN a : a[i] # 255
  BY DEF FitsName
<1>6. Latin(e) <=> \A i \in 1..n : a[2 * i - 1] = 0  BY <1>1 DEF Latin, Names
<1>7. Names(e) = n /\ AlphaBytes = 14  BY <1>1 DEF Names, AlphaBytes
<1> HIDE DEF a, r
<1>8. Len(a) = 2 * n /\ n > 0
  <2>1. ~(n = 0)
    <3> SUFFICES ASSUME n = 0  PROVE is_empty_alpha(a)
      BY <1>3
    <3>1. \A i \in 1..n : a[2 * i - 1] = 0 /\ a[2 * i] = 32  OBVIOUS
    <3> QED  BY <1>1, <3>1 DEF is_empty_alpha
  <2> DEFINE l == Len(a)
  <2>2. l \in Nat /\ l % 2 = 0 /\ n = l \div 2 /\ ~(n = 0)  BY <1>1, <1>2, <2>1
  <2> HIDE DEF l
  <2>3. l = 2 * n /\ n > 0  BY <2>2
  <2> QED  BY <2>3 DEF l
<1>11. FitsName(e) <=> /\ \A i \in 1..n : a[2 * i - 1] = 0
                       /\ n <= 14 /\ a[2] # 128
                       /\ \A i \in 1..(2 * n) : a[i] # 255
  <2>1. (\A i \in DOMAIN a : a[i] # 255) <=> (\A i \in 1..(2 * n) : a[i] # 255)
    <3>1. DOMAIN a = 1..(2 * n)  BY <1>2, <1>8
    <3> QED  BY <3>1
  <2>2. Names(e) <= AlphaBytes <=> n <= 14  BY <1>7
  <2> QED  BY <1>5, <1>6, <2>1, <2>2
<1>12. /\ k \in 0..14 /\ k <= n /\ (k < 14 => b[k + 1] = NUL \/ b[k + 1] = 255)
       /\ \A i \in 1..k : b[i] = NameOf(e)[i] /\ b[i] # 255
  <2>1. k <= n /\ \A i \in 1..k : b[i] = NameOf(e)[i]  BY <1>1, NameFieldWithin
  <2>2. k \in 0..14 /\ (b[k + 1] = NUL \/ b[k + 1] = 255) /\ \A i \in 1..k : b[i] # 255
    BY DEF NameField
  <2> QED  BY <2>1, <2>2
<1>13. \A i \in 1..k : b[i] = a[2 * i] /\ b[i] # 255
  <2> SUFFICES ASSUME NEW i \in 1..k  PROVE b[i] = a[2 * i] /\ b[i] # 255
    OBVIOUS
  <2>1. i \in 1..n  BY <1>12
  <2> QED  BY <1>1, <1>12, <2>1
<1>14. \A i \in 1..14 : i \in 1..n => b[i] = a[2 * i] /\ b[i] \in 0..255
  <2>1. \A i \in 1..14 : i \in DOMAIN NameOf(e) => b[i] = NameOf(e)[i] /\ b[i] \in 0..255
    BY ZenonT(30) DEF NameField
  <2> QED  BY <1>1, <2>1
<1>9. ASSUME r = a
      PROVE  /\ \A i \in 1..n : a[2 * i - 1] = 0
             /\ n <= 14 /\ a[2] # 128
             /\ \A i \in 1..(2 * n) : a[i] # 255
  <2>1. b[1] # 128
    <3> SUFFICES ASSUME b[1] = 128  PROVE FALSE
      OBVIOUS
    <3>1. Len(a) = k - 1  BY <1>4, <1>9 DEF IsNameTo
    <3> QED  BY <1>8, <1>12, <3>1
  <2>2. /\ Len(a) = 2 * k
        /\ \A i \in 1..k : a[2 * i - 1] = 0 /\ a[2 * i] = b[i]
    BY <1>4, <1>9, <2>1 DEF IsNameTo
  <2>3. k = n  BY <1>8, <1>12, <2>2
  <2>4. a[2 * 1] = b[1]  BY <1>8, <2>2, <2>3
  <2>5. \A i \in 1..(2 * n) : a[i] # 255
    <3> SUFFICES ASSUME NEW i \in 1..(2 * n)  PROVE a[i] # 255
      OBVIOUS
    <3>1. PICK j \in 1..n : i = 2 * j - 1 \/ i = 2 * j  BY InPairs
    <3>2. a[2 * j - 1] = 0 /\ a[2 * j] = b[j] /\ b[j] # 255  BY <1>13, <2>2, <2>3
    <3> QED  BY <3>1, <3>2
  <2>6. \A i \in 1..n : a[2 * i - 1] = 0  BY <2>2, <2>3
  <2>7. n <= 14 /\ a[2] # 128  BY <1>12, <2>1, <2>3, <2>4
  <2> QED  BY <2>5, <2>6, <2>7
<1>10. ASSUME \A i \in 1..n : a[2 * i - 1] = 0, n <= 14, a[2] # 128,
              \A i \in 1..(2 * n) : a[i] # 255
       PROVE  r = a
  <2>1. k = n
    <3> SUFFICES ASSUME k < n  PROVE FALSE
      BY <1>12
    <3> DEFINE m == k + 1
    <3>1. m \in 1..14 /\ m \in 1..n /\ 2 * m \in 1..(2 * n)  BY <1>12, <1>10
    <3>2. b[m] = NUL \/ b[m] = 255  BY <1>12, <1>10
    <3> HIDE DEF m
    <3>3. b[m] = a[2 * m] /\ b[m] \in 0..255  BY <1>14, <3>1
    <3>4. a[2 * m] # 255  BY <1>10, <3>1
    <3> QED  BY <3>2, <3>3, <3>4, BytesAreNoNul
  <2>2. b[1] # 128
    <3>1. b[1] = a[2 * 1]  BY <1>8, <1>13, <2>1
    <3> QED  BY <1>10, <3>1
  <2>3. /\ r \in Seq(Int) /\ Len(r) = 2 * n
        /\ \A i \in 1..n : r[2 * i - 1] = 0 /\ r[2 * i] = b[i]
    BY <1>4, <2>1, <2>2 DEF IsNameTo
  <2>4. \A i \in 1..(2 * n) : r[i] = a[i]
    <3> SUFFICES ASSUME NEW i \in 1..(2 * n)  PROVE r[i] = a[i]
      OBVIOUS
    <3>1. PICK j \in 1..n : i = 2 * j - 1 \/ i = 2 * j  BY InPairs
    <3>2. /\ r[2 * j - 1] = 0 /\ r[2 * j] = b[j] /\ a[2 * j - 1] = 0 /\ b[j] = a[2 * j]
      BY <1>13, <1>10, <2>1, <2>3
    <3> QED  BY <3>1, <3>2
  <2> QED  BY <1>2, <1>8, <2>3, <2>4, SeqEqual
<1> QED  BY <1>11, <1>9, <1>10 DEF a, r

\* ... and so does any other.
LEMMA OtherName ==
    ASSUME NEW e \in Entries, NEW b, NEW k, NameField(e, b, k),
           ~is_empty_alpha(e.alpha), e.alpha[1] # 0
    PROVE  read_alpha(b) = e.alpha <=> FitsName(e)
<1> DEFINE a == e.alpha
           r == read_alpha(b)
<1>1. PICK n \in Nat : /\ DOMAIN NameOf(e) = 1..n /\ n = Len(a) + 1
                       /\ NameOf(e)[1] = 128
                       /\ \A i \in 1..Len(a) : NameOf(e)[i + 1] = a[i]
  BY NameIs, ZenonT(30)
<1>2. a \in Seq(Int) /\ Len(a) \in Nat /\ DOMAIN a = 1..Len(a)
  <2>1. a \in Seq(Int) /\ Len(a) \in Nat  BY Listed
  <2> HIDE DEF a
  <2> QED  BY <2>1
<1>3. /\ k \in 0..14 /\ k <= n /\ (k < 14 => b[k + 1] = NUL \/ b[k + 1] = 255)
      /\ \A i \in 1..k : b[i] # 255
  <2>1. k <= n  BY <1>1, NameFieldWithin
  <2>2. k \in 0..14 /\ (b[k + 1] = NUL \/ b[k + 1] = 255) /\ \A i \in 1..k : b[i] # 255
    BY DEF NameField
  <2> QED  BY <2>1, <2>2
<1>4. \A i \in 1..14 : i \in 1..n => b[i] = NameOf(e)[i] /\ b[i] \in 0..255
  <2>1. \A i \in 1..14 : i \in DOMAIN NameOf(e) => b[i] = NameOf(e)[i] /\ b[i] \in 0..255
    BY ZenonT(30) DEF NameField
  <2> QED  BY <1>1, <2>1
<1>5. IsNameTo(r, b, k)  BY NameFieldRead
<1>6. FitsName(e) <=> Len(a) < 14 /\ \A i \in 1..Len(a) : a[i] # 255
  BY <1>2 DEF FitsName, AlphaBytes
<1> HIDE DEF a, r
<1>7. b[1] = 128
  <2>1. 1 \in 1..14 /\ 1 \in 1..n  BY <1>1, <1>2
  <2> QED  BY <1>1, <1>4, <2>1
<1>8. r \in Seq(Int) /\ k > 0 /\ Len(r) = k - 1 /\ \A i \in 1..(k - 1) : r[i] = b[i + 1]
  BY <1>5, <1>7 DEF IsNameTo
<1>9. ASSUME r = a  PROVE Len(a) < 14 /\ \A i \in 1..Len(a) : a[i] # 255
  <2>1. Len(a) = k - 1  BY <1>8, <1>9
  <2>2. ASSUME NEW i \in 1..Len(a)  PROVE a[i] # 255
    <3>1. a[i] = b[i + 1] /\ i + 1 \in 1..k  BY <1>3, <1>8, <1>9, <2>1
    <3> QED  BY <1>3, <3>1
  <2> QED  BY <1>3, <2>1, <2>2
<1>10. ASSUME Len(a) < 14, \A i \in 1..Len(a) : a[i] # 255  PROVE r = a
  <2>1. k = n
    <3> SUFFICES ASSUME k < n  PROVE FALSE
      BY <1>3
    <3> DEFINE m == k + 1
    <3>1. m \in 1..14 /\ m \in 1..n /\ k \in 1..Len(a) /\ k < 14 /\ m = k + 1
      BY <1>1, <1>2, <1>3, <1>8, <1>10
    <3> HIDE DEF m
    <3>2. b[m] = NUL \/ b[m] = 255  BY <1>3, <3>1
    <3>3. b[m] = a[k] /\ b[m] \in 0..255
      <4>1. b[m] = NameOf(e)[m] /\ b[m] \in 0..255  BY <1>4, <3>1
      <4>2. NameOf(e)[m] = a[k]  BY <1>1, <3>1
      <4> QED  BY <4>1, <4>2
    <3>4. a[k] # 255  BY <1>10, <3>1
    <3> QED  BY <3>2, <3>3, <3>4, BytesAreNoNul
  <2>2. Len(r) = Len(a)  BY <1>1, <1>2, <1>8, <2>1
  <2>3. ASSUME NEW i \in 1..Len(a)  PROVE r[i] = a[i]
    <3> DEFINE m == i + 1
    <3>1. m \in 1..14 /\ m \in 1..n /\ i \in 1..(k - 1) /\ m = i + 1
      BY <1>1, <1>2, <1>10, <2>1
    <3> HIDE DEF m
    <3>2. r[i] = b[m] /\ b[m] = NameOf(e)[m] /\ NameOf(e)[m] = a[i]  BY <1>1, <1>4, <1>8, <3>1
    <3> QED  BY <3>2
  <2> QED  BY <1>2, <1>8, <2>2, <2>3, SeqEqual
<1> QED  BY <1>6, <1>9, <1>10 DEF a, r

-----------------------------------------------------------------------------
(* The number comes back.                                                    *)

FitsNumber(e) == ~HasPlus(e.number) /\ Len(e.number) <= 24

\* The characters of a buffer of digits, which has a NUL before the 25th.
DigitBuffer(b) ==
    /\ b \in Seq(Int) /\ Len(b) = 128
    /\ \A i \in 1..128 : b[i] \in 0..15 \/ b[i] = NUL
    /\ \A i \in 25..128 : b[i] = NUL

\* What read_number returns.
Swapped(s) == [i \in 1..(2 * (Len(s) \div 2)) |-> s[IF i % 2 = 1 THEN i + 1 ELSE i - 1]]

\* Swapping the digits of each pair.
LEMMA SwappedIs ==
    ASSUME NEW s \in Seq(Int), NEW m \in Nat, 2 * m <= Len(s), Len(s) <= 2 * m + 1
    PROVE  /\ Swapped(s) \in Seq(Int) /\ Len(Swapped(s)) = 2 * m
           /\ \A i \in 1..m : Swapped(s)[2 * i - 1] = s[2 * i] /\ Swapped(s)[2 * i] = s[2 * i - 1]
<1> DEFINE l == Len(s)
           n == 2 * m
           f == [i \in 1..n |-> s[IF i % 2 = 1 THEN i + 1 ELSE i - 1]]
<1>1. l \in Nat /\ n \in Nat /\ n = 2 * m /\ n <= l /\ l <= n + 1  OBVIOUS
<1>2. \A i \in 1..l : s[i] \in Int  BY ElementOfSeq
<1>3. Swapped(s) = f
  <2>1. 2 * (l \div 2) = n
    <3> HIDE DEF l, n
    <3> QED  BY <1>1
  <2> QED  BY <2>1 DEF Swapped
<1> HIDE DEF l, n
<1>4. \A i \in 1..n : (IF i % 2 = 1 THEN i + 1 ELSE i - 1) \in 1..l
  <2> SUFFICES ASSUME NEW i \in 1..n  PROVE (IF i % 2 = 1 THEN i + 1 ELSE i - 1) \in 1..l
    OBVIOUS
  <2>1. CASE i % 2 = 1
    <3>1. i + 1 \in 1..l  BY <1>1, <2>1
    <3> QED  BY <2>1, <3>1
  <2>2. CASE i % 2 # 1
    <3>1. i - 1 \in 1..l  BY <1>1, <2>2
    <3> QED  BY <2>2, <3>1
  <2> QED  BY <2>1, <2>2
<1>5. f \in [1..n -> Int]  BY <1>2, <1>4
<1>6. \A i \in 1..m : f[2 * i - 1] = s[2 * i] /\ f[2 * i] = s[2 * i - 1]
  <2> SUFFICES ASSUME NEW i \in 1..m  PROVE f[2 * i - 1] = s[2 * i] /\ f[2 * i] = s[2 * i - 1]
    OBVIOUS
  <2>1. 2 * i - 1 \in 1..n /\ 2 * i \in 1..n  BY <1>1
  <2>2. (2 * i - 1) % 2 = 1 /\ (2 * i) % 2 # 1 /\ (2 * i - 1) + 1 = 2 * i  OBVIOUS
  <2> QED  BY <2>1, <2>2
<1> HIDE DEF f
<1>7. f \in Seq(Int) /\ Len(f) = n  BY <1>1, <1>5, FunctionIsSeq
<1> QED  BY <1>1, <1>3, <1>6, <1>7

\* A number r of the first m pairs of a buffer.
IsNumberOf(r, b, m) ==
    /\ r \in Seq(Int)
    /\ (m > 0 /\ b[2 * m - 1] = F) => Len(r) = 2 * m - 1
    /\ ~(m > 0 /\ b[2 * m - 1] = F) => Len(r) = 2 * m
    /\ \A i \in 1..m : r[2 * i - 1] = b[2 * i]
    /\ \A i \in 1..m : 2 * i <= Len(r) => r[2 * i] = b[2 * i - 1]

\* What is read as a number from a buffer with m pairs of digits in it.
LEMMA NumberRead ==
    ASSUME NEW b \in Seq(Int), NEW m \in Nat, 2 * m <= Len(String(b)), Len(String(b)) <= 2 * m + 1
    PROVE  IsNumberOf(read_number(b), b, m)
<1> DEFINE s == String(b)
           w == Swapped(s)
           n == 2 * m
<1>1. /\ s \in Seq(Int) /\ Len(s) \in Nat /\ n <= Len(s) /\ Len(s) <= n + 1
      /\ n \in Nat /\ n = 2 * m
      /\ \A i \in 1..Len(s) : s[i] = b[i]
  BY StringFacts
<1>2. /\ w \in Seq(Int) /\ Len(w) = n
      /\ \A i \in 1..m : w[2 * i - 1] = s[2 * i] /\ w[2 * i] = s[2 * i - 1]
  <2> HIDE DEF s, n
  <2>1. 2 * m <= Len(s) /\ Len(s) <= 2 * m + 1  BY <1>1
  <2> QED  BY <1>1, <2>1, SwappedIs
<1>3. 2 * (Len(s) \div 2) = n
  <2> DEFINE l == Len(s)
  <2>1. l \in Nat /\ n <= l /\ l <= n + 1 /\ n = 2 * m  BY <1>1
  <2> HIDE DEF l, n
  <2>2. 2 * (l \div 2) = n  BY <2>1
  <2> QED  BY <2>2 DEF l
<1>4. read_number(b) = IF n > 0 /\ w[n] = F THEN SubSeq(w, 1, n - 1) ELSE w
  BY <1>3 DEF read_number, Swapped
<1> HIDE DEF s, w, n
<1>5. \A i \in 1..m : w[2 * i - 1] = b[2 * i] /\ w[2 * i] = b[2 * i - 1]
  <2> SUFFICES ASSUME NEW i \in 1..m  PROVE w[2 * i - 1] = b[2 * i] /\ w[2 * i] = b[2 * i - 1]
    OBVIOUS
  <2>1. 2 * i \in 1..Len(s) /\ 2 * i - 1 \in 1..Len(s)  BY <1>1
  <2>2. w[2 * i - 1] = s[2 * i] /\ w[2 * i] = s[2 * i - 1]  BY <1>2
  <2>3. s[2 * i] = b[2 * i] /\ s[2 * i - 1] = b[2 * i - 1]  BY <1>1, <2>1
  <2> QED  BY <2>2, <2>3
<1>6. m > 0 => w[n] = b[2 * m - 1]
  <2>1. m > 0 => m \in 1..m  OBVIOUS
  <2> QED  BY <1>1, <1>5, <2>1
<1>7. CASE n > 0 /\ w[n] = F
  <2>1. n - 1 \in 0..Len(w)  BY <1>1, <1>2, <1>7
  <2> DEFINE r == SubSeq(w, 1, n - 1)
             k == n - 1
  <2>2. k \in 0..Len(w) /\ k = 2 * m - 1  BY <1>1, <2>1
  <2>3. SubSeq(w, 1, k) \in Seq(Int) /\ Len(SubSeq(w, 1, k)) = k /\ \A i \in 1..k : SubSeq(w, 1, k)[i] = w[i]
    <3> HIDE DEF k
    <3>1. IsFront(SubSeq(w, 1, k), w, k)  BY <1>2, <2>2, FirstPart
    <3> QED  BY <3>1 DEF IsFront
  <2>4. r \in Seq(Int) /\ Len(r) = 2 * m - 1 /\ \A i \in 1..(2 * m - 1) : r[i] = w[i]
    BY <2>2, <2>3
  <2>5. read_number(b) = r  BY <1>4, <1>7
  <2> HIDE DEF r
  <2>6. m > 0 /\ b[2 * m - 1] = F  BY <1>1, <1>6, <1>7
  <2>7. \A i \in 1..m : r[2 * i - 1] = b[2 * i]
    <3> SUFFICES ASSUME NEW i \in 1..m  PROVE r[2 * i - 1] = b[2 * i]
      OBVIOUS
    <3>1. 2 * i - 1 \in 1..(2 * m - 1)  OBVIOUS
    <3> QED  BY <1>5, <2>4, <3>1
  <2>8. \A i \in 1..m : 2 * i <= Len(r) => r[2 * i] = b[2 * i - 1]
    <3> SUFFICES ASSUME NEW i \in 1..m, 2 * i <= Len(r)  PROVE r[2 * i] = b[2 * i - 1]
      OBVIOUS
    <3>1. 2 * i \in 1..(2 * m - 1)  BY <2>4
    <3> QED  BY <1>5, <2>4, <3>1
  <2> QED  BY <2>4, <2>5, <2>6, <2>7, <2>8 DEF IsNumberOf
<1>8. CASE ~(n > 0 /\ w[n] = F)
  <2>1. read_number(b) = w  BY <1>4, <1>8
  <2>2. ~(m > 0 /\ b[2 * m - 1] = F)
    <3> SUFFICES ASSUME m > 0, b[2 * m - 1] = F  PROVE FALSE
      OBVIOUS
    <3>1. n > 0  BY <1>1
    <3>2. w[n] = F  BY <1>6
    <3> QED  BY <1>8, <3>1, <3>2
  <2>3. Len(w) = 2 * m  BY <1>1, <1>2
  <2> QED  BY <1>2, <1>5, <2>1, <2>2, <2>3 DEF IsNumberOf
<1> QED  BY <1>7, <1>8

\* A number has at most 24 characters, and they are none that is a plus.
LEMMA NumberReadType ==
    ASSUME NEW b, DigitBuffer(b)
    PROVE  /\ read_number(b) \in Seq(Int) /\ Len(read_number(b)) <= 24
           /\ \A i \in 1..Len(read_number(b)) : read_number(b)[i] \in 0..15
<1> DEFINE l == Len(String(b))
           m == l \div 2
           r == read_number(b)
<1>1. /\ b \in Seq(Int) /\ Len(b) = 128 /\ (\A i \in 1..128 : b[i] \in 0..15 \/ b[i] = NUL)
      /\ b[25] = NUL
  BY DEF DigitBuffer
<1>2. l \in 0..128 /\ \A i \in 1..l : b[i] # NUL
  <2>1. /\ Len(String(b)) \in 0..Len(b)
        /\ \A i \in 1..Len(String(b)) : String(b)[i] = b[i] /\ b[i] # NUL
    BY <1>1, StringFacts
  <2> QED  BY <1>1, <2>1
<1> HIDE DEF l
<1>3. l <= 24
  <2>1. 25 \notin 1..l  BY <1>1, <1>2
  <2> QED  BY <1>2, <2>1
<1>4. m \in 0..12 /\ 2 * m <= l /\ l <= 2 * m + 1  BY <1>2, <1>3
<1> HIDE DEF m
<1>5. IsNumberOf(r, b, m)
  <2>1. m \in Nat /\ 2 * m <= Len(String(b)) /\ Len(String(b)) <= 2 * m + 1  BY <1>4 DEF l
  <2> QED  BY <1>1, <2>1, NumberRead
<1> HIDE DEF r
<1>6. r \in Seq(Int) /\ Len(r) \in Nat /\ (Len(r) = 2 * m \/ Len(r) = 2 * m - 1)
  BY <1>5 DEF IsNumberOf
<1>7. \A i \in 1..Len(r) : r[i] \in 0..15
  <2> SUFFICES ASSUME NEW i \in 1..Len(r)  PROVE r[i] \in 0..15
    OBVIOUS
  <2>1. m \in Nat /\ i \in 1..(2 * m)  BY <1>4, <1>6
  <2>2. PICK j \in 1..m : i = 2 * j - 1 \/ i = 2 * j  BY <2>1, InPairs
  <2>3. 2 * j - 1 \in 1..l /\ 2 * j \in 1..l /\ 2 * j - 1 \in 1..128 /\ 2 * j \in 1..128
    BY <1>2, <1>4
  <2>4. b[2 * j - 1] \in 0..15 /\ b[2 * j] \in 0..15
    <3>1. \A q \in 1..128 : q \in 1..l => b[q] \in 0..15  BY <1>1, <1>2, ZenonT(30)
    <3> QED  BY <2>3, <3>1
  <2>5. r[2 * j - 1] = b[2 * j] /\ (2 * j <= Len(r) => r[2 * j] = b[2 * j - 1])
    BY <1>5 DEF IsNumberOf
  <2>6. CASE i = 2 * j - 1  BY <2>4, <2>5, <2>6
  <2>7. CASE i = 2 * j
    <3>1. 2 * j <= Len(r)  BY <1>6, <2>7
    <3> QED  BY <2>4, <2>5, <2>7, <3>1
  <2> QED  BY <2>2, <2>6, <2>7
<1> QED  BY <1>4, <1>6, <1>7 DEF r

-----------------------------------------------------------------------------
(* The buffers while a record is taken apart, and after it.                  *)

\* What is put at the front of a buffer.
IsWithFront(p, r, b) ==
    /\ p \in Seq(Int) /\ Len(p) = Len(r)
    /\ \A i \in 1..Len(r) : i <= Len(b) => p[i] = b[i]
    /\ \A i \in 1..Len(r) : i > Len(b) => p[i] = r[i]

\* Bytes that are put at the front of a sequence.
LEMMA PutFront ==
    ASSUME NEW r \in Seq(Int), NEW b \in Seq(Int)
    PROVE  IsWithFront(Put(r, 0, b), r, b)
<1> DEFINE p == Put(r, 0, b)
           m == Len(r)
           n == Len(b)
<1>1. m \in Nat /\ DOMAIN r = 1..m /\ \A i \in 1..m : r[i] \in Int  OBVIOUS
<1>2. n \in Nat /\ DOMAIN b = 1..n /\ \A i \in 1..n : b[i] \in Int  OBVIOUS
<1>3. p = [i \in DOMAIN p |-> p[i]]  BY DEF Put
<1> HIDE DEF m, n
<1>4. PutInto(r, m, 0, b, n)
  <2>1. 0 \in Nat  OBVIOUS
  <2> QED  BY <1>1, <1>2, <2>1, Putting
<1>5. /\ DOMAIN p = 1..m
      /\ \A i \in 1..m : (1 <= i - 0 /\ i - 0 <= n) => p[i] = b[i - 0]
      /\ \A i \in 1..m : ~(1 <= i - 0 /\ i - 0 <= n) => p[i] = r[i]
  BY <1>4 DEF PutInto
<1> HIDE DEF p
<1>6. (\A i \in 1..m : i <= n => p[i] = b[i]) /\ (\A i \in 1..m : i > n => p[i] = r[i])
  BY <1>1, <1>2, <1>5
<1>7. \A i \in 1..m : p[i] \in Int
  <2> SUFFICES ASSUME NEW i \in 1..m  PROVE p[i] \in Int
    OBVIOUS
  <2>1. CASE i <= n
    <3>1. i \in 1..n  BY <1>1, <1>2, <2>1
    <3> QED  BY <1>2, <1>6, <2>1, <3>1
  <2>2. CASE i > n  BY <1>1, <1>6, <2>2
  <2> QED  BY <1>1, <1>2, <2>1, <2>2
<1>8. p \in Seq(Int) /\ Len(p) = m
  <2>1. p \in [1..m -> Int]  BY <1>3, <1>5, <1>7
  <2> QED  BY <1>1, <2>1, FunctionIsSeq
<1> QED  BY <1>6, <1>8 DEF m, n, p, IsWithFront

NameBuf(e) == Put(buffers.alpha, 0, SubSeq(Record[e], 1, AlphaBytes))

FieldOf(e) ==
    LET last == AlphaBytes + 1 + Record[e][AlphaBytes + 1]
    IN  IF last > RecordBytes THEN << >> ELSE SubSeq(Record[e], AlphaBytes + 3, last)

DigitBuf(e) == Put(buffers.number, 0, Digits(FieldOf(e)))

\* The buffer of the name, while the record of e is taken apart.
LEMMA NameBufIs ==
    ASSUME NEW e \in Entries, buffers.alpha \in Seq(Int), Len(buffers.alpha) = 64
    PROVE  /\ NameBuf(e) \in Seq(Int) /\ Len(NameBuf(e)) = 64
           /\ \A i \in 1..AlphaBytes : NameBuf(e)[i] = Record[e][i]
           /\ NameBuf(e)[1] # NUL
           /\ NameBuf(e)[AlphaBytes + 1] = buffers.alpha[AlphaBytes + 1]
<1> DEFINE R == Record[e]
           b == buffers.alpha
           u == SubSeq(R, 1, 14)
<1>1. AlphaBytes = 14 /\ RecordBytes = 28  BY DEF AlphaBytes, RecordBytes
<1>2. R \in Seq(Int) /\ Len(R) = 28 /\ R[1] \in 0..255
  <2>1. R \in Seq(Int) /\ Len(R) = RecordBytes /\ \A i \in 1..RecordBytes : R[i] \in 0..255
    BY RecordIs
  <2> HIDE DEF R
  <2> QED  BY <1>1, <2>1
<1>3. b \in Seq(Int) /\ Len(b) = 64  OBVIOUS
<1>4. NameBuf(e) = Put(b, 0, u)  BY <1>1 DEF NameBuf
<1> HIDE DEF R, b
<1>5. u \in Seq(Int) /\ Len(u) = 14 /\ \A i \in 1..14 : u[i] = R[i]
  <2>1. \A m \in 0..Len(R) : IsFront(SubSeq(R, 1, m), R, m)  BY <1>2, FirstPart
  <2>2. 14 \in 0..Len(R)  BY <1>2
  <2>3. IsFront(u, R, 14)  BY <2>1, <2>2
  <2> QED  BY <2>3 DEF IsFront
<1> HIDE DEF u
<1> DEFINE p == Put(b, 0, u)
<1>6. IsWithFront(p, b, u)  BY <1>3, <1>5, PutFront
<1> HIDE DEF p
<1>7. /\ p \in Seq(Int) /\ Len(p) = 64 /\ (\A i \in 1..14 : p[i] = R[i]) /\ p[15] = b[15]
  <2>1. /\ p \in Seq(Int) /\ Len(p) = 64
        /\ \A i \in 1..64 : i <= 14 => p[i] = u[i]
        /\ \A i \in 1..64 : i > 14 => p[i] = b[i]
    BY <1>3, <1>5, <1>6 DEF IsWithFront
  <2> QED  BY <1>5, <2>1
<1>8. p[1] # NUL
  <2>1. p[1] = R[1]  BY <1>7
  <2> QED  BY <1>2, <2>1, BytesAreNoNul
<1> QED  BY <1>1, <1>4, <1>7, <1>8 DEF p, R, b

\* The part of the record that is read for the number.
LEMMA FieldIs ==
    ASSUME NEW e \in Entries
    PROVE  /\ FieldOf(e) \in Seq(Int) /\ Len(FieldOf(e)) <= 12
           /\ \A i \in 1..Len(FieldOf(e)) : FieldOf(e)[i] \in 0..255
           /\ Len(e.number) > 24 => Len(FieldOf(e)) = 0
           /\ Len(e.number) <= 24 =>
                /\ Len(FieldOf(e)) = (Len(e.number) + 1) \div 2
                /\ \A i \in 1..Len(FieldOf(e)) : FieldOf(e)[i] = Record[e][16 + i]
<1> DEFINE R == Record[e]
           l == Len(e.number)
           h == (l + 1) \div 2
           last == 15 + R[15]
           f == FieldOf(e)
<1>1. R \in Seq(Int) /\ Len(R) = 28 /\ (\A i \in 1..28 : R[i] \in 0..255) /\ R[15] = h + 1
  <2>1. /\ R \in Seq(Int) /\ Len(R) = RecordBytes /\ (\A i \in 1..RecordBytes : R[i] \in 0..255)
        /\ R[15] = NumberLength(e.number)
    BY RecordIs
  <2>2. RecordBytes = 28 /\ NumberLength(e.number) = h + 1  BY DEF RecordBytes, NumberLength
  <2> HIDE DEF R
  <2> QED  BY <2>1, <2>2
<1>2. l \in Nat /\ l > 0  BY Listed
<1>3. f = IF last > 28 THEN << >> ELSE SubSeq(R, 17, last)
  BY DEF FieldOf, AlphaBytes, RecordBytes
<1> HIDE DEF R, l, f
<1>4. last = 16 + h /\ h \in Nat /\ h > 0  BY <1>1, <1>2
<1>5. h <= 12 <=> l <= 24  BY <1>2
<1> HIDE DEF h, last
<1>6. CASE l > 24
  <2>1. f = << >>  BY <1>2, <1>3, <1>4, <1>5, <1>6
  <2>2. f \in Seq(Int) /\ Len(f) = 0  BY <2>1
  <2>3. (\A i \in 1..Len(f) : f[i] \in 0..255) /\ ~(l <= 24)  BY <1>2, <1>6, <2>2
  <2>4. f \in Seq(Int) /\ Len(f) <= 12 /\ (l > 24 => Len(f) = 0)  BY <2>2
  <2>5. (\A i \in 1..Len(f) : f[i] \in 0..255) /\ ~(l <= 24)  BY <2>3
  <2> HIDE <2>2, <2>3, <1>6
  <2> QED  BY <2>4, <2>5 DEF f, l
<1>7. CASE l <= 24
  <2>1. h <= 12  BY <1>5, <1>7
  <2>2. f = SubSeq(R, 17, last)  BY <1>3, <1>4, <2>1
  <2>3. \A i \in 17..last : R[i] \in Int
    <3> SUFFICES ASSUME NEW i \in 17..last  PROVE R[i] \in Int
      OBVIOUS
    <3>1. i \in 1..28  BY <1>4, <2>1
    <3>2. R[i] \in 0..255  BY <1>1, <3>1
    <3> QED  BY <3>2
  <2>4. f \in Seq(Int) /\ Len(f) = h /\ \A i \in 1..h : f[i] = R[16 + i]
    <3>1. ASSUME NEW m \in Nat, NEW n \in Nat, m <= n + 1, \A i \in m..n : R[i] \in Int
          PROVE  /\ SubSeq(R, m, n) \in Seq(Int) /\ Len(SubSeq(R, m, n)) = n - m + 1
                 /\ \A i \in 1..(n - m + 1) : SubSeq(R, m, n)[i] = R[m + i - 1]
      BY <3>1, SubSeqProperties
    <3>2. 17 \in Nat /\ last \in Nat /\ 17 <= last + 1  BY <1>4
    <3>3. /\ f \in Seq(Int) /\ Len(f) = last - 17 + 1
          /\ \A i \in 1..(last - 17 + 1) : f[i] = R[17 + i - 1]
      BY <2>2, <2>3, <3>1, <3>2
    <3> QED  BY <1>4, <3>3
  <2>5. \A i \in 1..h : f[i] \in 0..255
    <3> SUFFICES ASSUME NEW i \in 1..h  PROVE f[i] \in 0..255
      OBVIOUS
    <3>1. 16 + i \in 1..28  BY <1>4, <2>1
    <3> QED  BY <1>1, <2>4, <3>1
  <2>6. Len(f) <= 12 /\ ~(l > 24)  BY <1>2, <1>4, <1>7, <2>1, <2>4
  <2>7. /\ f \in Seq(Int) /\ Len(f) = h /\ (\A i \in 1..Len(f) : f[i] = R[16 + i])
        /\ \A i \in 1..Len(f) : f[i] \in 0..255
    BY <2>4, <2>5
  <2> QED  BY <1>7, <2>6, <2>7 DEF f, l, h, R
<1>8. l > 24 \/ l <= 24  BY <1>2
<1> QED  BY <1>6, <1>7, <1>8 DEF l

\* The digits of bytes.
AreDigits(d, s) ==
    /\ d \in Seq(Int) /\ Len(d) = 2 * Len(s)
    /\ \A i \in 1..Len(s) : d[2 * i - 1] = s[i] \div 16 /\ d[2 * i] = s[i] % 16
    /\ \A i \in 1..Len(d) : d[i] \in 0..15

\* A byte is two hexadecimal digits.
LEMMA Halves == \A x \in 0..255 : x \div 16 \in 0..15 /\ x % 16 \in 0..15
  OBVIOUS

\* The digits of a sequence of bytes, two of each.
LEMMA DigitsOfBytes ==
    ASSUME NEW s \in Seq(Int), \A i \in 1..Len(s) : s[i] \in 0..255
    PROVE  AreDigits(Digits(s), s)
<1> DEFINE m == Len(s)
           n == 2 * m
           f == [i \in 1..n |-> IF i % 2 = 1 THEN s[(i + 1) \div 2] \div 16 ELSE s[i \div 2] % 16]
<1>1. m \in Nat /\ n \in Nat /\ n = 2 * m /\ \A i \in 1..m : s[i] \in 0..255  OBVIOUS
<1>2. Digits(s) = f  BY DEF Digits
<1> HIDE DEF m, n
<1>3. \A i \in 1..m : f[2 * i - 1] = s[i] \div 16 /\ f[2 * i] = s[i] % 16
  <2> SUFFICES ASSUME NEW i \in 1..m  PROVE f[2 * i - 1] = s[i] \div 16 /\ f[2 * i] = s[i] % 16
    OBVIOUS
  <2>1. 2 * i - 1 \in 1..n /\ 2 * i \in 1..n  BY <1>1
  <2>2. /\ (2 * i - 1) % 2 = 1 /\ (2 * i) % 2 # 1
        /\ ((2 * i - 1) + 1) \div 2 = i /\ (2 * i) \div 2 = i
    BY <1>1
  <2> QED  BY <2>1, <2>2
<1>4. f = [i \in 1..n |-> f[i]] /\ DOMAIN f = 1..n  OBVIOUS
<1> HIDE DEF f
<1>5. \A i \in 1..n : f[i] \in 0..15
  <2> SUFFICES ASSUME NEW i \in 1..n  PROVE f[i] \in 0..15
    OBVIOUS
  <2>1. PICK j \in 1..m : i = 2 * j - 1 \/ i = 2 * j  BY <1>1, InPairs
  <2>2. s[j] \in 0..255  BY <1>1
  <2>3. s[j] \div 16 \in 0..15 /\ s[j] % 16 \in 0..15  BY <2>2, Halves
  <2>4. f[2 * j - 1] = s[j] \div 16 /\ f[2 * j] = s[j] % 16  BY <1>3
  <2>5. f[2 * j - 1] \in 0..15 /\ f[2 * j] \in 0..15  BY <2>3, <2>4
  <2> QED  BY <2>1, <2>5
<1>6. f \in Seq(Int) /\ Len(f) = n
  <2>1. \A i \in 1..n : f[i] \in Int  BY <1>5
  <2>2. f \in [1..n -> Int]  BY <1>4, <2>1
  <2> QED  BY <1>1, <2>2, FunctionIsSeq
<1>7. /\ f \in Seq(Int) /\ Len(f) = 2 * m
      /\ \A i \in 1..m : f[2 * i - 1] = s[i] \div 16 /\ f[2 * i] = s[i] % 16
      /\ \A i \in 1..Len(f) : f[i] \in 0..15
  BY <1>1, <1>3, <1>5, <1>6
<1> QED  BY <1>2, <1>7 DEF AreDigits, m

\* The buffer of the number, while the record of e is taken apart.
LEMMA DigitBufIs ==
    ASSUME NEW e \in Entries, DigitBuffer(buffers.number)
    PROVE  /\ DigitBuffer(DigitBuf(e))
           /\ \A i \in 1..Len(FieldOf(e)) : /\ DigitBuf(e)[2 * i - 1] = FieldOf(e)[i] \div 16
                                            /\ DigitBuf(e)[2 * i] = FieldOf(e)[i] % 16
           /\ \A i \in 1..128 : i > 2 * Len(FieldOf(e)) => DigitBuf(e)[i] = buffers.number[i]
<1> DEFINE s == FieldOf(e)
           b == buffers.number
           d == Digits(s)
           p == Put(b, 0, d)
<1>1. DigitBuf(e) = p  BY DEF DigitBuf
<1>2. s \in Seq(Int) /\ Len(s) \in Nat /\ Len(s) <= 12 /\ \A i \in 1..Len(s) : s[i] \in 0..255
  <2>1. s \in Seq(Int) /\ Len(s) <= 12 /\ \A i \in 1..Len(s) : s[i] \in 0..255  BY FieldIs
  <2> HIDE DEF s
  <2> QED  BY <2>1
<1>3. /\ b \in Seq(Int) /\ Len(b) = 128 /\ (\A i \in 1..128 : b[i] \in 0..15 \/ b[i] = NUL)
      /\ \A i \in 25..128 : b[i] = NUL
  BY DEF DigitBuffer
<1> HIDE DEF s, b
<1>4. AreDigits(d, s)  BY <1>2, DigitsOfBytes
<1> HIDE DEF d
<1>5. /\ d \in Seq(Int) /\ Len(d) = 2 * Len(s)
      /\ \A i \in 1..Len(s) : d[2 * i - 1] = s[i] \div 16 /\ d[2 * i] = s[i] % 16
      /\ \A i \in 1..Len(d) : d[i] \in 0..15
  BY <1>4 DEF AreDigits
<1>6. IsWithFront(p, b, d)  BY <1>3, <1>5, PutFront
<1> HIDE DEF p
<1>7. /\ p \in Seq(Int) /\ Len(p) = 128
      /\ \A i \in 1..128 : i <= 2 * Len(s) => p[i] = d[i]
      /\ \A i \in 1..128 : i > 2 * Len(s) => p[i] = b[i]
  BY <1>3, <1>5, <1>6 DEF IsWithFront
<1>8. DigitBuffer(p)
  <2>1. ASSUME NEW i \in 1..128  PROVE p[i] \in 0..15 \/ p[i] = NUL
    <3>1. CASE i <= 2 * Len(s)
      <4>1. i \in 1..Len(d)  BY <1>2, <1>5, <3>1
      <4>2. d[i] \in 0..15 /\ p[i] = d[i]  BY <1>5, <1>7, <3>1, <4>1
      <4> QED  BY <4>2
    <3>2. CASE i > 2 * Len(s)
      <4>1. p[i] = b[i]  BY <1>7, <3>2
      <4> QED  BY <1>3, <4>1
    <3> QED  BY <1>2, <3>1, <3>2
  <2>2. ASSUME NEW i \in 25..128  PROVE p[i] = NUL
    <3>1. i \in 1..128 /\ i > 2 * Len(s)  BY <1>2
    <3> QED  BY <1>3, <1>7, <3>1
  <2> QED  BY <1>7, <2>1, <2>2 DEF DigitBuffer
<1>9. \A i \in 1..Len(s) : p[2 * i - 1] = s[i] \div 16 /\ p[2 * i] = s[i] % 16
  <2> SUFFICES ASSUME NEW i \in 1..Len(s)  PROVE p[2 * i - 1] = s[i] \div 16 /\ p[2 * i] = s[i] % 16
    OBVIOUS
  <2>1. 2 * i - 1 \in 1..128 /\ 2 * i \in 1..128 /\ 2 * i <= 2 * Len(s) /\ 2 * i - 1 <= 2 * Len(s)
    <3> DEFINE l == Len(s)
    <3>1. l \in Nat /\ l <= 12 /\ i \in 1..l  BY <1>2
    <3> HIDE DEF l
    <3>2. 2 * i - 1 \in 1..128 /\ 2 * i \in 1..128 /\ 2 * i <= 2 * l /\ 2 * i - 1 <= 2 * l  BY <3>1
    <3> QED  BY <3>2 DEF l
  <2>2. p[2 * i - 1] = d[2 * i - 1] /\ p[2 * i] = d[2 * i]  BY <1>7, <2>1
  <2>3. d[2 * i - 1] = s[i] \div 16 /\ d[2 * i] = s[i] % 16  BY <1>5
  <2> QED  BY <2>2, <2>3
<1> QED  BY <1>1, <1>7, <1>8, <1>9 DEF p, s, b

\* Nothing is left in the buffer behind the number of e.
NumberEnds(e) ==
    LET h == (Len(e.number) + 1) \div 2
    IN  buffers.number[2 * h + 1] = NUL \/ buffers.number[2 * h + 2] = NUL

\* A number without a plus that the record can hold is read as it was.
LEMMA PlainNumber ==
    ASSUME NEW e \in Entries, DigitBuffer(buffers.number), FitsNumber(e),
           NumberEnds(e)
    PROVE  read_number(DigitBuf(e)) = e.number
<1> DEFINE d == e.number
           n == Len(d)
           h == (n + 1) \div 2
           N == retrive_number(d)
           s == FieldOf(e)
           D == DigitBuf(e)
           b == buffers.number
           r == read_number(D)
<1>1. d \in Seq(Int) /\ n \in Nat /\ n > 0 /\ n <= 24 /\ ~HasPlus(d)  BY Listed DEF FitsNumber
<1>2. \A i \in 1..n : d[i] \in 0..9  BY <1>1, DigitsAre
<1>3. h \in 1..12 /\ (2 * h = n \/ 2 * h = n + 1)
  <2> HIDE DEF n
  <2> QED  BY <1>1
<1>4. \A i \in 1..h : N[i] % 16 = d[2 * i - 1] /\ N[i] \div 16 = IF 2 * i <= n THEN d[2 * i] ELSE F
  <2>1. PICK k \in Nat : /\ N \in [1..k -> 0..255]
                         /\ ~HasPlus(d) => /\ k = (n + 1) \div 2
                                           /\ \A i \in 1..k : /\ N[i] % 16 = d[2 * i - 1]
                                                              /\ N[i] \div 16 = IF 2 * i <= n THEN d[2 * i] ELSE F
    BY NumberIs
  <2>2. k = h  BY <1>1, <2>1
  <2> QED  BY <1>1, <2>1, <2>2
<1>5. DOMAIN N = 1..h
  <2>1. PICK k \in Nat : N \in [1..k -> 0..255] /\ (~HasPlus(d) => k = (n + 1) \div 2)
    BY NumberIs
  <2>2. k = h  BY <1>1, <2>1
  <2> QED  BY <2>1, <2>2
<1>6. Len(s) = h /\ \A i \in 1..h : s[i] = N[i]
  <2>1. Len(s) = h /\ \A i \in 1..Len(s) : s[i] = Record[e][16 + i]  BY <1>1, FieldIs
  <2>2. \A i \in 1..12 : i \in DOMAIN N => Record[e][16 + i] = N[i]
    <3>1. RecordBytes - AlphaBytes - 2 = 12  BY DEF RecordBytes, AlphaBytes
    <3>2. \A i \in 1..(RecordBytes - AlphaBytes - 2) : i \in DOMAIN N => Record[e][16 + i] = N[i]
      BY RecordIs
    <3> HIDE DEF N
    <3> QED  BY <3>1, <3>2
  <2> HIDE DEF s, N, h
  <2>3. \A i \in 1..h : i \in 1..12  BY <1>3
  <2> QED  BY <1>5, <2>1, <2>2, <2>3
<1>7. /\ DigitBuffer(D)
      /\ \A i \in 1..h : D[2 * i - 1] = N[i] \div 16 /\ D[2 * i] = N[i] % 16
      /\ \A i \in 1..128 : i > 2 * h => D[i] = b[i]
  <2>1. /\ DigitBuffer(D)
        /\ \A i \in 1..Len(s) : D[2 * i - 1] = s[i] \div 16 /\ D[2 * i] = s[i] % 16
        /\ \A i \in 1..128 : i > 2 * Len(s) => D[i] = b[i]
    BY DigitBufIs
  <2> HIDE DEF D, s, N, b, h
  <2> QED  BY <1>6, <2>1
<1>8. b[2 * h + 1] = NUL \/ b[2 * h + 2] = NUL  BY DEF NumberEnds
<1> HIDE DEF d, n, h, N, s, D, b
<1>9. \A i \in 1..h : /\ D[2 * i] = d[2 * i - 1] /\ D[2 * i] \in 0..15
                      /\ D[2 * i - 1] = IF 2 * i <= n THEN d[2 * i] ELSE F
                      /\ D[2 * i - 1] \in 0..15
  <2> SUFFICES ASSUME NEW i \in 1..h
               PROVE  /\ D[2 * i] = d[2 * i - 1] /\ D[2 * i] \in 0..15
                      /\ D[2 * i - 1] = IF 2 * i <= n THEN d[2 * i] ELSE F
                      /\ D[2 * i - 1] \in 0..15
    OBVIOUS
  <2>1. D[2 * i] = d[2 * i - 1] /\ D[2 * i - 1] = IF 2 * i <= n THEN d[2 * i] ELSE F
    BY <1>4, <1>7
  <2>2. 2 * i - 1 \in 1..n  BY <1>1, <1>3
  <2>3. d[2 * i - 1] \in 0..9  BY <1>2, <2>2
  <2>4. CASE 2 * i <= n
    <3>1. 2 * i \in 1..n  BY <1>1, <1>3, <2>4
    <3>2. d[2 * i] \in 0..9  BY <1>2, <3>1
    <3>3. D[2 * i - 1] = d[2 * i]  BY <2>1, <2>4
    <3> QED  BY <2>1, <2>3, <3>2, <3>3
  <2>5. CASE ~(2 * i <= n)
    <3>1. D[2 * i - 1] = 15  BY <2>1, <2>5 DEF F
    <3> QED  BY <2>1, <2>3, <3>1
  <2> QED  BY <2>4, <2>5
<1>10. D \in Seq(Int) /\ Len(D) = 128  BY <1>7 DEF DigitBuffer
<1>11. 2 * h <= Len(String(D)) /\ Len(String(D)) <= 2 * h + 1
  <2> DEFINE l == Len(String(D))
  <2>1. /\ l \in 0..128 /\ (l < 128 => D[l + 1] = NUL)
        /\ \A i \in 1..l : D[i] # NUL
    <3>1. /\ Len(String(D)) \in 0..Len(D)
          /\ \A i \in 1..Len(String(D)) : String(D)[i] = D[i] /\ D[i] # NUL
          /\ Len(String(D)) < Len(D) => D[Len(String(D)) + 1] = NUL
      BY <1>10, StringFacts
    <3> HIDE DEF l
    <3> QED  BY <1>10, <3>1 DEF l
  <2> HIDE DEF l
  <2>2. 2 * h <= l
    <3> SUFFICES ASSUME l < 2 * h  PROVE FALSE
      BY <1>3, <2>1
    <3> DEFINE i == l + 1
    <3>1. h \in Nat /\ i \in 1..(2 * h) /\ l < 128  BY <1>3, <2>1
    <3>2. D[i] = NUL  BY <2>1, <3>1
    <3> HIDE DEF i
    <3>3. PICK j \in 1..h : i = 2 * j - 1 \/ i = 2 * j  BY <3>1, InPairs
    <3>4. D[2 * j] \in 0..15 /\ D[2 * j - 1] \in 0..15  BY <1>9
    <3>5. D[i] \in 0..15  BY <3>3, <3>4
    <3>6. D[i] \in 0..255  BY <3>5
    <3> QED  BY <3>2, <3>6, BytesAreNoNul
  <2>3. l <= 2 * h + 1
    <3> SUFFICES ASSUME l >= 2 * h + 2  PROVE FALSE
      BY <1>3, <2>1
    <3>1. /\ 2 * h + 1 \in 1..l /\ 2 * h + 2 \in 1..l /\ 2 * h + 1 \in 1..128 /\ 2 * h + 2 \in 1..128
          /\ 2 * h + 1 > 2 * h /\ 2 * h + 2 > 2 * h
      BY <1>3, <2>1
    <3>2. D[2 * h + 1] = b[2 * h + 1] /\ D[2 * h + 2] = b[2 * h + 2]  BY <1>7, <3>1
    <3> QED  BY <1>8, <2>1, <3>1, <3>2
  <2> QED  BY <2>2, <2>3 DEF l
<1>12. IsNumberOf(r, D, h)
  <2>1. h \in Nat  BY <1>3
  <2> QED  BY <1>10, <1>11, <2>1, NumberRead
<1> HIDE DEF r
<1>13. h \in 1..h /\ h > 0  BY <1>3
<1>14. Len(r) = n
  <2>1. CASE 2 * h = n
    <3>1. D[2 * h - 1] = d[2 * h] /\ 2 * h \in 1..n  BY <1>1, <1>3, <1>9, <1>13, <2>1
    <3>2. d[2 * h] \in 0..9  BY <1>2, <3>1
    <3>3. D[2 * h - 1] # F  BY <3>1, <3>2 DEF F
    <3> QED  BY <1>12, <2>1, <3>3 DEF IsNumberOf
  <2>2. CASE 2 * h = n + 1
    <3>1. ~(2 * h <= n)  BY <1>1, <2>2
    <3>2. D[2 * h - 1] = F  BY <1>9, <1>13, <3>1
    <3>3. Len(r) = 2 * h - 1  BY <1>12, <1>13, <3>2 DEF IsNumberOf
    <3> QED  BY <1>1, <2>2, <3>3
  <2> QED  BY <1>3, <2>1, <2>2
<1>15. r \in Seq(Int) /\ (\A i \in 1..h : r[2 * i - 1] = D[2 * i])
       /\ \A i \in 1..h : 2 * i <= n => r[2 * i] = D[2 * i - 1]
  BY <1>12, <1>14 DEF IsNumberOf
<1>16. \A i \in 1..n : r[i] = d[i]
  <2> SUFFICES ASSUME NEW i \in 1..n  PROVE r[i] = d[i]
    OBVIOUS
  <2>1. h \in Nat /\ i \in 1..(2 * h)  BY <1>1, <1>3
  <2>2. PICK j \in 1..h : i = 2 * j - 1 \/ i = 2 * j  BY <2>1, InPairs
  <2>3. CASE i = 2 * j - 1
    <3>1. r[2 * j - 1] = D[2 * j] /\ D[2 * j] = d[2 * j - 1]  BY <1>9, <1>15
    <3> QED  BY <2>3, <3>1
  <2>4. CASE i = 2 * j
    <3>1. 2 * j <= n  BY <1>1, <2>4
    <3>2. r[2 * j] = D[2 * j - 1] /\ D[2 * j - 1] = d[2 * j]  BY <1>9, <1>15, <3>1
    <3> QED  BY <2>4, <3>2
  <2> QED  BY <2>2, <2>3, <2>4
<1>17. r = d
  <2>1. Len(d) = n  BY DEF n
  <2> QED  BY <1>1, <1>14, <1>15, <1>16, <2>1, SeqEqual
<1> QED  BY <1>17 DEF r, d, D

\* A number comes back exactly if it fits.
LEMMA NumberBack ==
    ASSUME NEW e \in Entries, DigitBuffer(buffers.number), NumberEnds(e)
    PROVE  read_number(DigitBuf(e)) = e.number <=> FitsNumber(e)
<1> DEFINE d == e.number
           r == read_number(DigitBuf(e))
<1>1. FitsNumber(e) => r = d  BY PlainNumber
<1>2. Len(r) <= 24 /\ \A i \in 1..Len(r) : r[i] \in 0..15
  <2>1. DigitBuffer(DigitBuf(e))  BY DigitBufIs
  <2> QED  BY <2>1, NumberReadType
<1>3. Len(d) \in Nat /\ Len(d) > 0  BY Listed
<1>4. FitsNumber(e) <=> ~HasPlus(d) /\ Len(d) <= 24  BY DEF FitsNumber
<1> HIDE DEF d, r
<1>5. ASSUME r = d  PROVE ~HasPlus(d) /\ Len(d) <= 24
  <2>1. d[1] \in 0..15 /\ Len(d) <= 24  BY <1>2, <1>3, <1>5
  <2> QED  BY <2>1 DEF HasPlus, PLUS
<1> QED  BY <1>1, <1>4, <1>5 DEF r, d

\* Nothing is left in the buffer behind the name of e.
NameEnds(e) == Record[e][AlphaBytes] = 255 \/ buffers.alpha[AlphaBytes + 1] = NUL

\* A name comes back exactly if it fits, or there is none and a plus in the number.
LEMMA NameBack ==
    ASSUME NEW e \in Entries, buffers.alpha \in Seq(Int), Len(buffers.alpha) = 64, NameEnds(e)
    PROVE  /\ Len(read_alpha(NameBuf(e))) <= 28
           /\ ~HasPlus(e.number) => (read_alpha(NameBuf(e)) = e.alpha <=> FitsName(e))
<1> DEFINE b == NameBuf(e)
<1>1. /\ b \in Seq(Int) /\ Len(b) = 64 /\ (\A i \in 1..AlphaBytes : b[i] = Record[e][i])
      /\ Record[e][AlphaBytes] = 255 \/ b[AlphaBytes + 1] = NUL
  <2>1. /\ b \in Seq(Int) /\ Len(b) = 64 /\ (\A i \in 1..AlphaBytes : b[i] = Record[e][i])
        /\ b[AlphaBytes + 1] = buffers.alpha[AlphaBytes + 1]
    BY NameBufIs
  <2> QED  BY <2>1 DEF NameEnds
<1> HIDE DEF b
<1>2. PICK k \in 0..14 : NameField(e, b, k)  BY <1>1, NameFieldEnds
<1>3. Len(read_alpha(b)) <= 28  BY <1>2, NameFieldRead
<1>4. ASSUME ~HasPlus(e.number)  PROVE read_alpha(b) = e.alpha <=> FitsName(e)
  <2>1. CASE is_empty_alpha(e.alpha)
    <3>1. read_alpha(b) # e.alpha  BY <1>2, <1>4, <2>1, BlankName
    <3>2. ~FitsName(e)  BY <2>1 DEF FitsName
    <3> QED  BY <3>1, <3>2
  <2>2. CASE ~is_empty_alpha(e.alpha) /\ e.alpha[1] = 0  BY <1>2, <2>2, LatinName
  <2>3. CASE ~is_empty_alpha(e.alpha) /\ e.alpha[1] # 0  BY <1>2, <2>3, OtherName
  <2> QED  BY <2>1, <2>2, <2>3
<1> QED  BY <1>3, <1>4 DEF b

-----------------------------------------------------------------------------
(* The theorems.                                                             *)

\* Whatever was written, the buffers hold characters, and that of the numbers no
\* more than 24 digits.
BuffersInv ==
    /\ buffers.alpha \in Seq(Int) /\ Len(buffers.alpha) = 64
    /\ DigitBuffer(buffers.number)

PhonebookInv == BuffersInv /\ RecordRoundTrip

\* What is read back from the record of e, and what that leaves in the buffers.
ReadBack(e) == Entry(read_alpha(NameBuf(e)), Record[e][AlphaBytes + 2], read_number(DigitBuf(e)))

\* What extract_phone_book makes of the record of e.
LEMMA Extracted ==
    ASSUME NEW e \in Entries
    PROVE  extract_phone_book(Record[e])
             = [entry   |-> ReadBack(e),
                buffers |-> [alpha  |-> strcpy(NameBuf(e), read_alpha(NameBuf(e))),
                             number |-> strcpy(DigitBuf(e), read_number(DigitBuf(e)))]]
  BY DEF extract_phone_book, ReadBack, NameBuf, DigitBuf, FieldOf, Entry

\* A record is read back as its entry exactly if that fits into it.
LEMMA RoundTrip ==
    ASSUME NEW e \in Entries, BuffersInv, ~LeftBehind(e)
    PROVE  (ReadBack(e) = e <=> Fits(e)) /\ Len(ReadBack(e).alpha) <= TmpBytes
<1>1. NumberEnds(e) /\ NameEnds(e)
  <2>1. Byte2(F, F) = 255  BY DEF Byte2, F
  <2> QED  BY <2>1 DEF LeftBehind, NumberEnds, NameEnds
<1>2. read_number(DigitBuf(e)) = e.number <=> FitsNumber(e)  BY <1>1, NumberBack DEF BuffersInv
<1>3. /\ Len(read_alpha(NameBuf(e))) <= 28
      /\ ~HasPlus(e.number) => (read_alpha(NameBuf(e)) = e.alpha <=> FitsName(e))
  BY <1>1, NameBack DEF BuffersInv
<1>4. Fits(e) <=> FitsName(e) /\ FitsNumber(e)
  BY DEF Fits, FitsName, FitsNumber, RecordBytes, AlphaBytes
<1>5. FitsNumber(e) => ~HasPlus(e.number)  BY DEF FitsNumber
<1>6. ReadBack(e) = e <=> /\ read_alpha(NameBuf(e)) = e.alpha
                          /\ read_number(DigitBuf(e)) = e.number
  <2>1. e = [alpha |-> e.alpha, code |-> e.code, number |-> e.number]  BY Listed
  <2>2. Record[e][AlphaBytes + 2] = e.code  BY RecordIs DEF AlphaBytes
  <2> QED  BY <2>1, <2>2 DEF ReadBack, Entry
<1>7. Len(ReadBack(e).alpha) <= TmpBytes  BY <1>3 DEF ReadBack, Entry, TmpBytes
<1> QED  BY <1>2, <1>3, <1>4, <1>5, <1>6, <1>7

\* The buffers stay what they are.
LEMMA BuffersKept ==
    ASSUME NEW e \in Entries, BuffersInv
    PROVE  LET a == strcpy(NameBuf(e), read_alpha(NameBuf(e)))
               d == strcpy(DigitBuf(e), read_number(DigitBuf(e)))
           IN  a \in Seq(Int) /\ Len(a) = 64 /\ DigitBuffer(d)
<1> DEFINE b == NameBuf(e)
           a == read_alpha(b)
           c == DigitBuf(e)
           r == read_number(c)
           p == Put(c, 0, Append(r, NUL))
<1>1. b \in Seq(Int) /\ Len(b) = 64 /\ b[1] # NUL  BY NameBufIs DEF BuffersInv
<1>2. DigitBuffer(c)  BY DigitBufIs DEF BuffersInv
<1> HIDE DEF b, c
<1>3. a \in Seq(Int)
  <2>1. Len(b) > 0  BY <1>1
  <2> QED  BY <1>1, <2>1, AlphaReadType
<1>4. r \in Seq(Int) /\ Len(r) <= 24 /\ \A i \in 1..Len(r) : r[i] \in 0..15
  BY <1>2, NumberReadType
<1> HIDE DEF a, r
<1>5. strcpy(b, a) \in Seq(Int) /\ Len(strcpy(b, a)) = 64
  <2>1. Append(a, NUL) \in Seq(Int)  BY <1>3 DEF NUL
  <2>2. IsWithFront(Put(b, 0, Append(a, NUL)), b, Append(a, NUL))  BY <1>1, <2>1, PutFront
  <2> QED  BY <1>1, <2>2 DEF strcpy, IsWithFront
<1>6. DigitBuffer(p)
  <2> DEFINE s == Append(r, NUL)
             l == Len(r)
  <2>1. /\ c \in Seq(Int) /\ Len(c) = 128 /\ (\A i \in 1..128 : c[i] \in 0..15 \/ c[i] = NUL)
        /\ \A i \in 25..128 : c[i] = NUL
    BY <1>2 DEF DigitBuffer
  <2>2. /\ s \in Seq(Int) /\ Len(s) = l + 1 /\ s[l + 1] = NUL /\ l \in 0..24
        /\ \A i \in 1..l : s[i] = r[i]
    <3>1. NUL \in Int  BY DEF NUL
    <3>2. l \in Nat /\ l <= 24  BY <1>4
    <3>3. s \in Seq(Int) /\ Len(s) = l + 1 /\ s[l + 1] = NUL /\ \A i \in 1..l : s[i] = r[i]
      BY <1>4, <3>1, AppendProperties
    <3> HIDE DEF l, s
    <3>4. l \in 0..24  BY <3>2
    <3> QED  BY <3>3, <3>4
  <2>3. \A i \in 1..l : s[i] \in 0..15  BY <1>4, <2>2
  <2> HIDE DEF s, l
  <2>4. IsWithFront(p, c, s)
    <3>1. IsWithFront(Put(c, 0, s), c, s)  BY <2>1, <2>2, PutFront
    <3> QED  BY <3>1 DEF s
  <2> HIDE DEF p
  <2>5. /\ p \in Seq(Int) /\ Len(p) = 128
        /\ \A i \in 1..128 : i <= l + 1 => p[i] = s[i]
        /\ \A i \in 1..128 : i > l + 1 => p[i] = c[i]
    BY <2>1, <2>2, <2>4 DEF IsWithFront
  <2>6. ASSUME NEW i \in 1..128
        PROVE  (p[i] \in 0..15 \/ p[i] = NUL) /\ (i \in 25..128 => p[i] = NUL)
    <3>1. CASE i <= l
      <4>0. l \in 0..24 /\ i \in Nat /\ 1 <= i
        <5>1. l \in 0..24  BY <2>2
        <5>2. i \in Nat /\ 1 <= i  OBVIOUS
        <5> QED  BY <5>1, <5>2
      <4>1. i \in 1..l /\ i <= l + 1 /\ i \notin 25..128  BY <3>1, <4>0
      <4>2. p[i] = s[i] /\ s[i] \in 0..15
        <5>1. p[i] = s[i]  BY <2>5, <4>1
        <5>2. s[i] \in 0..15  BY <2>3, <4>1
        <5> QED  BY <5>1, <5>2
      <4> QED  BY <4>1, <4>2
    <3>2. CASE i = l + 1
      <4>1. i <= l + 1  BY <2>2, <3>2
      <4>2. p[i] = s[i]  BY <2>5, <4>1
      <4>3. s[i] = NUL  BY <2>2, <3>2
      <4> QED  BY <4>2, <4>3
    <3>3. CASE i > l + 1
      <4>1. p[i] = c[i]  BY <2>5, <3>3
      <4> QED  BY <2>1, <4>1
    <3> QED  BY <2>2, <3>1, <3>2, <3>3
  <2>7. \A i \in 25..128 : p[i] = NUL
    <3>1. \A i \in 25..128 : i \in 1..128  OBVIOUS
    <3> QED  BY <2>6, <3>1
  <2> QED  BY <2>5, <2>6, <2>7 DEF DigitBuffer
<1> QED  BY <1>5, <1>6 DEF strcpy, a, b, c, r, p

\* At the start the buffers are empty.
LEMMA PhonebookInvInit == ASSUME PhonebookInit PROVE PhonebookInv
<1> DEFINE a == [i \in 1..64 |-> -1]
           d == [i \in 1..128 |-> -1]
<1>1. buffers.alpha = a /\ buffers.number = d
  BY DEF PhonebookInit, CleanBuffers, PHONE_BUF_LEN, NUL
<1>2. a \in [1..64 -> Int] /\ d \in [1..128 -> Int] /\ 64 \in Nat /\ 128 \in Nat  OBVIOUS
<1>3. \A i \in 1..128 : d[i] = NUL  BY DEF NUL
<1> HIDE DEF a, d
<1>s. ASSUME NEW n \in Nat, NEW f \in [1..n -> Int]  PROVE f \in Seq(Int) /\ Len(f) = n
  BY FunctionIsSeq
<1>4. a \in Seq(Int) /\ Len(a) = 64  BY <1>2, <1>s
<1>5. d \in Seq(Int) /\ Len(d) = 128  BY <1>2, <1>s
<1>6. DigitBuffer(d)  BY <1>3, <1>5 DEF DigitBuffer
<1>7. RecordRoundTrip  BY DEF PhonebookInit, RecordRoundTrip
<1> QED  BY <1>1, <1>4, <1>6, <1>7 DEF PhonebookInv, BuffersInv

\* Every record written keeps the invariant.
LEMMA PhonebookInvNext == ASSUME PhonebookInv, [PhonebookNext]_phonebookVars PROVE PhonebookInv'
<1>1. CASE UNCHANGED phonebookVars
  BY <1>1 DEF PhonebookInv, BuffersInv, RecordRoundTrip, DigitBuffer, phonebookVars
<1>2. CASE PhonebookNext
  <2>1. PICK e \in Entries : WriteBack(e)  BY <1>2 DEF PhonebookNext
  <2> DEFINE w == extract_phone_book(Record[e])
  <2>w. w = [entry   |-> ReadBack(e),
             buffers |-> [alpha  |-> strcpy(NameBuf(e), read_alpha(NameBuf(e))),
                          number |-> strcpy(DigitBuf(e), read_number(DigitBuf(e)))]]
    BY Extracted
  <2>x. /\ stored' = w.entry /\ buffers' = w.buffers
        /\ overrun' = (Len(w.entry.alpha) > TmpBytes)
        /\ listed' = e /\ stale' = LeftBehind(e)
    BY <2>1 DEF WriteBack
  <2> HIDE DEF w
  <2>y. /\ w.entry = ReadBack(e)
        /\ w.buffers = [alpha  |-> strcpy(NameBuf(e), read_alpha(NameBuf(e))),
                        number |-> strcpy(DigitBuf(e), read_number(DigitBuf(e)))]
    BY <2>w
  <2>2. /\ stored' = ReadBack(e)
        /\ buffers' = [alpha  |-> strcpy(NameBuf(e), read_alpha(NameBuf(e))),
                       number |-> strcpy(DigitBuf(e), read_number(DigitBuf(e)))]
        /\ overrun' = (Len(ReadBack(e).alpha) > TmpBytes)
        /\ listed' = e /\ stale' = LeftBehind(e)
    BY <2>x, <2>y
  <2>3. BuffersInv  BY DEF PhonebookInv
  <2>4. BuffersInv'
    <3>1. /\ buffers'.alpha = strcpy(NameBuf(e), read_alpha(NameBuf(e)))
          /\ buffers'.number = strcpy(DigitBuf(e), read_number(DigitBuf(e)))
      BY <2>2
    <3>2. buffers'.alpha \in Seq(Int) /\ Len(buffers'.alpha) = 64 /\ DigitBuffer(buffers'.number)
      BY <2>3, <3>1, BuffersKept
    <3> QED  BY <3>2 DEF BuffersInv, DigitBuffer
  <2>5. ~LeftBehind(e) => (ReadBack(e) = e <=> Fits(e)) /\ Len(ReadBack(e).alpha) <= TmpBytes
    BY <2>3, RoundTrip
  <2>6. ~LeftBehind(e) => ~overrun'
    <3> DEFINE l == Len(ReadBack(e).alpha)
    <3>1. l <= TmpBytes => ~(l > TmpBytes)
      <4>1. l \in Nat
        <5>1. read_alpha(NameBuf(e)) \in Seq(Int)
          <6>1. NameBuf(e) \in Seq(Int) /\ Len(NameBuf(e)) = 64 /\ NameBuf(e)[1] # NUL
            BY <2>3, NameBufIs DEF BuffersInv
          <6>2. Len(NameBuf(e)) > 0  BY <6>1
          <6> QED  BY <6>1, <6>2, AlphaReadType
        <5>2. ReadBack(e).alpha = read_alpha(NameBuf(e))  BY DEF ReadBack, Entry
        <5> QED  BY <5>1, <5>2
      <4> HIDE DEF l
      <4> QED  BY <4>1 DEF TmpBytes
    <3> HIDE DEF l
    <3> QED  BY <2>2, <2>5, <3>1 DEF l
  <2>7. RecordRoundTrip'  BY <2>2, <2>5, <2>6 DEF RecordRoundTrip
  <2> QED  BY <2>4, <2>7 DEF PhonebookInv
<1> QED  BY <1>1, <1>2

\* The inductive invariant, of every state that is reached.
LEMMA PhonebookInvariant == PhonebookSpec => []PhonebookInv
<1>1. PhonebookInit => PhonebookInv  BY PhonebookInvInit
<1>2. PhonebookInv /\ [PhonebookNext]_phonebookVars => PhonebookInv'  BY PhonebookInvNext
<1> QED  BY <1>1, <1>2, PTL DEF PhonebookSpec

\* Whatever the modem lists, and however many entries were written before: an entry
\* that is written back as it was read comes to the modem unchanged exactly if it
\* fits into a record, and the copy of its name is not overrun, unless the static
\* buffers still hold something behind it.
THEOREM RoundTripTheorem == PhonebookSpec => []RecordRoundTrip
<1>1. PhonebookInv => RecordRoundTrip  BY DEF PhonebookInv
<1> QED  BY <1>1, PhonebookInvariant, PTL

=============================================================================

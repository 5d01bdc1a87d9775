---------------------------- MODULE MCRequests ----------------------------
(* Instance of Requests and of Phonebook for TLC.  The two share no state, *)
(* and TLC explores one or the other: part tells which.  The phonebook is  *)
(* the same with every modem.                                              *)
EXTENDS Requests, Phonebook

VARIABLE part

mcVars == <<vars, phonebookVars, part>>

MCInit ==
    /\ Init /\ PhonebookInit
    /\ part \in {"requests", "phonebook"}
    /\ part = "phonebook" => modem = CHOOSE m \in Modems : TRUE

MCNext ==
    \/ part = "requests" /\ Next /\ UNCHANGED <<phonebookVars, part>>
    \/ part = "phonebook" /\ PhonebookNext /\ UNCHANGED <<vars, part>>

MCSpec == MCInit /\ [][MCNext]_mcVars /\ WF_mcVars(part = "requests" /\ Run /\ UNCHANGED <<phonebookVars, part>>)

\* Names of up to 15 characters (Latin, with an FF, with an 80, Chinese, mixed,
\* blank), and numbers of odd and even length, with and without a plus, and one of 25 digits.
A == <<0, 65>>
Zhong == <<78, 45>>

RECURSIVE Times(_, _)
Times(n, unit) == IF n = 0 THEN << >> ELSE unit \o Times(n - 1, unit)

SomeNames ==
    {Times(n, A) : n \in {1, 8, 14, 15}} \cup {Times(n, Zhong) : n \in {6, 7}}
    \cup {A \o Zhong, Zhong \o A, <<79, 255>>, A \o <<0, 255>>, <<0, 128>>, << >>, <<0, 32>>}

SomeNumbers ==
    {<<1>>, <<1, 2>>, <<1, 1, 2, 3, 5, 8, 1>>, <<PLUS, 1, 2, 3, 4>>, Times(25, <<7>>)}

SomeEntries == {Entry(n, 129, d) : n \in SomeNames, d \in SomeNumbers}
===========================================================================

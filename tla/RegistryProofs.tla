---------------------------- MODULE RegistryProofs ----------------------------
(* Theorems about Registry: whatever handlers are registered, for whichever  *)
(* modem, in whatever order the files are linked and whatever the size of    *)
(* the tables, the lookup finds the handler that is meant.                   *)
EXTENDS Registry, WellFoundedInduction, TLAPS

\* A non-empty set of natural numbers has a least element.
LEMMA LeastElement ==
    ASSUME NEW S \in SUBSET Nat, S # {}
    PROVE  \E x \in S : \A y \in S : ~(y < x)
<1>1. IsWellFoundedOn(OpToRel(<, Nat), Nat)
  BY NatLessThanWellFounded
<1>2. PICK x \in S : \A y \in S : <<y, x>> \notin OpToRel(<, Nat)
  BY <1>1, WFMin
<1>3. \A y \in S : ~(y < x)
  BY <1>2 DEF OpToRel
<1> QED
  BY <1>3

-----------------------------------------------------------------------------
(* What holds of a table and the registrations that have been done.          *)

\* Filled slots come first.
Contiguous(items) ==
    \A i, j \in DOMAIN items : j < i /\ items[i].key # NoKey => items[j].key # NoKey

\* A key has one slot.
Unique(items) ==
    \A i, j \in DOMAIN items : items[i].key # NoKey /\ items[i].key = items[j].key => i = j

\* A slot holds a registration that was done, for any modem or for this one.
FromDone(items, done) ==
    \A i \in DOMAIN items : items[i].key # NoKey =>
       items[i] \in done /\ items[i].vid_pid \in {VID_PID_GENERIC, g_modem}

\* A key with a registration for this modem has it in its slot.
OwnKept(items, done) ==
    \A item \in done, i \in DOMAIN items :
       item.vid_pid = g_modem /\ items[i].key = item.key => items[i].vid_pid = g_modem

\* A registration that counts has a slot, or there is none left.
HasSlot(items, done) ==
    \A item \in done :
       item.vid_pid \in {VID_PID_GENERIC, g_modem} =>
          (\E i \in DOMAIN items : items[i].key = item.key) \/ Full(items)

TableInv(items, done) ==
    /\ Contiguous(items) /\ Unique(items)
    /\ FromDone(items, done) /\ OwnKept(items, done) /\ HasSlot(items, done)

\* The first slot that is empty or has the key.
LEMMA SlotFacts ==
    ASSUME NEW N \in Nat, NEW keys, NEW items \in Table(N, keys), NEW key
    PROVE  /\ \A k \in Slot(items, key) :
                /\ k \in 1..N
                /\ items[k].key \in {NoKey, key}
                /\ \A j \in 1..N : j < k => items[j].key \notin {NoKey, key}
           /\ Slot(items, key) = {} => \A i \in 1..N : items[i].key \notin {NoKey, key}
<1>1. DOMAIN items = 1..N
  BY DEF Table
<1>2. \A k \in Slot(items, key) :
         /\ k \in 1..N
         /\ items[k].key \in {NoKey, key}
         /\ \A j \in 1..N : j < k => items[j].key \notin {NoKey, key}
  BY <1>1 DEF Slot
<1>3. ASSUME Slot(items, key) = {}, NEW i \in 1..N, items[i].key \in {NoKey, key}
      PROVE  FALSE
  <2> DEFINE S == {j \in 1..N : items[j].key \in {NoKey, key}}
  <2>1. S \in SUBSET Nat /\ S # {}
    BY <1>3
  <2>2. PICK x \in S : \A y \in S : ~(y < x)
    BY <2>1, LeastElement
  <2>3. x \in Slot(items, key)
    BY <1>1, <2>2 DEF Slot
  <2> QED
    BY <1>3, <2>3
<1> QED
  BY <1>2, <1>3

\* Two first slots are the same.
LEMMA SlotUnique ==
    ASSUME NEW N \in Nat, NEW keys, NEW items \in Table(N, keys), NEW key,
           NEW k \in Slot(items, key), NEW l \in Slot(items, key)
    PROVE  k = l
<1>1. k \in 1..N /\ l \in 1..N /\ ~(k < l) /\ ~(l < k)
  BY SlotFacts
<1> QED
  BY <1>1

-----------------------------------------------------------------------------
(* A registration preserves the invariant of its table.                      *)

LEMMA RegisterType ==
    ASSUME NEW N \in Nat, NEW keys, NEW items \in Table(N, keys), NEW item \in Item(keys)
    PROVE  Register(items, item) \in Table(N, keys)
<1>1. DOMAIN items = 1..N
  BY DEF Table
<1> QED
  BY <1>1 DEF Register, Table

\* What Register does when the registration counts and k is the slot.
LEMMA RegisterAt ==
    ASSUME NEW N \in Nat, NEW keys, NEW items \in Table(N, keys), NEW item \in Item(keys),
           item.vid_pid \in {VID_PID_GENERIC, g_modem}, NEW k \in Slot(items, item.key)
    PROVE  /\ DOMAIN Register(items, item) = 1..N
           /\ Register(items, item)[k] = IF MayReplace(items[k]) THEN item ELSE items[k]
           /\ \A i \in 1..N : i # k => Register(items, item)[i] = items[i]
<1>1. DOMAIN items = 1..N /\ k \in 1..N
  BY SlotFacts DEF Table
<1>2. \A i \in 1..N : i \in Slot(items, item.key) <=> i = k
  BY SlotUnique
<1> QED
  BY <1>1, <1>2 DEF Register

LEMMA RegisterInv ==
    ASSUME NEW N \in Nat, NEW keys, NoKey \notin keys, NEW items \in Table(N, keys),
           NEW done, done \subseteq Item(keys), NEW item \in Item(keys), g_modem \in Modems,
           TableInv(items, done)
    PROVE  TableInv(Register(items, item), done \cup {item})
<1> DEFINE new  == Register(items, item)
           done2 == done \cup {item}
<1>1. DOMAIN items = 1..N /\ g_modem # VID_PID_GENERIC /\ item.key # NoKey
  BY ModemAssumption DEF Table, Item
<1>2. CASE item.vid_pid \notin {VID_PID_GENERIC, g_modem}
  <2>1. new = items
    BY <1>2 DEF Register
  <2> QED
    BY <1>2, <2>1 DEF TableInv, FromDone, OwnKept, HasSlot
<1>3. CASE item.vid_pid \in {VID_PID_GENERIC, g_modem} /\ Slot(items, item.key) = {}
  <2>1. new = items
    BY <1>1, <1>3 DEF Register, Table
  <2>2. \A i \in 1..N : items[i].key \notin {NoKey, item.key}
    BY <1>3, SlotFacts
  <2>3. Full(items)
    BY <1>1, <2>2 DEF Full
  <2>4. OwnKept(items, done2)
    BY <1>1, <2>2 DEF TableInv, OwnKept
  <2> QED
    BY <2>1, <2>3, <2>4 DEF TableInv, FromDone, HasSlot
<1>4. ASSUME item.vid_pid \in {VID_PID_GENERIC, g_modem}, NEW k \in Slot(items, item.key)
      PROVE  TableInv(new, done2)
  <2>1. /\ DOMAIN new = 1..N /\ k \in 1..N
        /\ new[k] = IF MayReplace(items[k]) THEN item ELSE items[k]
        /\ \A i \in 1..N : i # k => new[i] = items[i]
    BY <1>4, RegisterAt, SlotFacts
  <2>2. /\ items[k].key \in {NoKey, item.key}
        /\ \A j \in 1..N : j < k => items[j].key \notin {NoKey, item.key}
    BY SlotFacts
  <2>3. CASE items[k].key = NoKey
    <3>1. new[k] = item
      BY <2>1, <2>3 DEF MayReplace
    <3>2. \A i \in 1..N : i > k => items[i].key = NoKey
      BY <1>1, <2>1, <2>3 DEF TableInv, Contiguous
    <3>3. \A i \in 1..N : items[i].key # item.key
      BY <1>1, <2>1, <2>2, <2>3, <3>2
    <3>4. ~Full(items)
      BY <1>1, <2>1, <2>3 DEF Full
    <3>5. Contiguous(new)
      BY <1>1, <2>1, <2>2, <3>1, <3>2 DEF Contiguous
    <3>6. Unique(new)
      BY <1>1, <2>1, <3>1, <3>3 DEF TableInv, Unique
    <3>7. FromDone(new, done2)
      BY <1>1, <1>4, <2>1, <3>1 DEF TableInv, FromDone
    <3>8. \A d \in done : d.vid_pid = g_modem => d.key # item.key
      BY <1>1, <3>3, <3>4 DEF TableInv, HasSlot
    <3>9. OwnKept(new, done2)
      BY <1>1, <2>1, <3>1, <3>3, <3>8 DEF TableInv, OwnKept
    <3>10. HasSlot(new, done2)
      <4>1. ASSUME NEW d \in done, d.vid_pid \in {VID_PID_GENERIC, g_modem}
            PROVE  \E i \in 1..N : new[i].key = d.key
        <5>1. PICK i \in 1..N : items[i].key = d.key
          BY <1>1, <3>4, <4>1 DEF TableInv, HasSlot
        <5>2. d.key # NoKey
          BY <4>1 DEF Item
        <5> QED
          BY <2>1, <2>3, <5>1, <5>2
      <4> QED
        BY <2>1, <3>1, <4>1 DEF HasSlot
    <3> QED
      BY <3>5, <3>6, <3>7, <3>9, <3>10 DEF TableInv
  <2>4. CASE items[k].key = item.key
    <3>1. \A i \in 1..N : new[i].key = items[i].key
      BY <2>1, <2>4
    <3>2. Contiguous(new) /\ Unique(new)
      BY <1>1, <2>1, <3>1 DEF TableInv, Contiguous, Unique
    <3>3. HasSlot(new, done2)
      BY <1>1, <2>1, <2>4, <3>1 DEF TableInv, HasSlot, Full
    <3>4. items[k].vid_pid \in {VID_PID_GENERIC, g_modem}
      BY <1>1, <2>1, <2>4 DEF TableInv, FromDone
    <3>5. CASE items[k].vid_pid = VID_PID_GENERIC
      <4>1. new[k] = item
        BY <2>1, <3>5 DEF MayReplace
      <4>2. \A d \in done : d.vid_pid = g_modem => d.key # item.key
        BY <1>1, <2>1, <2>4, <3>5 DEF TableInv, OwnKept
      <4>3. FromDone(new, done2)
        BY <1>1, <1>4, <2>1, <4>1 DEF TableInv, FromDone
      <4>4. OwnKept(new, done2)
        <5> SUFFICES ASSUME NEW d \in done2, NEW i \in 1..N,
                            d.vid_pid = g_modem, new[i].key = d.key
                     PROVE  new[i].vid_pid = g_modem
          BY <2>1 DEF OwnKept
        <5>1. CASE i # k
          <6>1. items[i].key # item.key
            BY <1>1, <2>1, <2>4, <5>1 DEF TableInv, Unique
          <6> QED
            BY <1>1, <2>1, <5>1, <6>1 DEF TableInv, OwnKept
        <5>2. CASE i = k
          BY <4>1, <4>2, <5>2
        <5> QED
          BY <5>1, <5>2
      <4> QED
        BY <3>2, <3>3, <4>3, <4>4 DEF TableInv
    <3>6. CASE items[k].vid_pid = g_modem
      <4>1. new[k] = items[k]
        BY <1>1, <2>1, <2>4, <3>6 DEF MayReplace
      <4>2. \A i \in 1..N : new[i] = items[i]
        BY <2>1, <4>1
      <4>3. FromDone(new, done2)
        BY <1>1, <2>1, <4>2 DEF TableInv, FromDone
      <4>4. \A i \in 1..N : items[i].key = item.key => i = k
        BY <1>1, <2>1, <2>4 DEF TableInv, Unique
      <4>5. OwnKept(new, done2)
        BY <1>1, <2>1, <3>6, <4>2, <4>4 DEF TableInv, OwnKept
      <4> QED
        BY <3>2, <3>3, <4>3, <4>5 DEF TableInv
    <3> QED
      BY <3>4, <3>5, <3>6
  <2> QED
    BY <2>2, <2>3, <2>4
<1> QED
  BY <1>2, <1>3, <1>4

-----------------------------------------------------------------------------
(* The inductive invariant of the boot.                                      *)

BootInv ==
    /\ BootTypeOK
    /\ level \in {"MODEM_REG", "MODEM_DETECT"} => toRun = RequestItems \cup UnsolicitedItems
    /\ level \in {"REQUEST_REG", "main"} => g_modem \in Modems
    /\ TableInv(request_items, RequestItems \ toRun)
    /\ TableInv(unsolicited_items, UnsolicitedItems \ toRun)

\* A table with every slot empty satisfies it when nothing has been done.
LEMMA EmptyInv ==
    ASSUME NEW N \in Nat, NEW keys
    PROVE  /\ [i \in 1..N |-> Empty] \in Table(N, keys)
           /\ TableInv([i \in 1..N |-> Empty], {})
BY DEF Table, TableInv, Contiguous, Unique, FromDone, OwnKept, HasSlot, Empty

\* With nothing done a table is empty.
LEMMA NothingDone ==
    ASSUME NEW items, TableInv(items, {})
    PROVE  \A i \in DOMAIN items : items[i].key = NoKey
BY DEF TableInv, FromDone

LEMMA InitInv == BootInit => BootInv
<1> SUFFICES ASSUME BootInit
             PROVE  BootInv
  OBVIOUS
<1>1. RequestItems \ toRun = {} /\ UnsolicitedItems \ toRun = {}
  BY DEF BootInit
<1>2. BootTypeOK
  BY EmptyInv, CapacityAssumption DEF BootInit, BootTypeOK, Levels
<1>3. TableInv(request_items, {}) /\ TableInv(unsolicited_items, {})
  BY EmptyInv, CapacityAssumption DEF BootInit
<1> QED
  BY <1>1, <1>2, <1>3 DEF BootInv, BootInit

\* The two kinds of registrations have different keys.
LEMMA Disjoint == RequestItems \cap UnsolicitedItems = {}
BY KeyAssumption, ItemAssumption DEF Item

LEMMA StepInv == BootInv /\ [Boot]_bootVars => BootInv'
<1> SUFFICES ASSUME BootInv, [Boot]_bootVars
             PROVE  BootInv'
  OBVIOUS
<1> USE DEF BootInv
<1>1. ASSUME NEW m \in Modems, register_modem(m)
      PROVE  BootInv'
  <2>1. UNCHANGED <<toRun, g_modem, request_items, unsolicited_items>>
    BY <1>1 DEF register_modem
  <2>2. /\ level = "MODEM_REG" /\ level' \in {"MODEM_REG", "MODEM_DETECT", "exit"}
        /\ modems' \subseteq Modems /\ plugged' = plugged
    BY <1>1 DEF register_modem, BootTypeOK
  <2>3. BootTypeOK'
    BY <2>1, <2>2 DEF BootTypeOK, Levels, Table
  <2> QED
    BY <2>1, <2>2, <2>3
         DEF TableInv, Contiguous, Unique, FromDone, OwnKept, HasSlot, Full
<1>2. ASSUME NEW d \in Devices, Plug(d)
      PROVE  BootInv'
  <2>1. UNCHANGED <<level, toRun, modems, g_modem, request_items, unsolicited_items>>
    BY <1>2 DEF Plug
  <2>2. BootTypeOK'
    BY <1>2, <2>1 DEF Plug, BootTypeOK, Table
  <2> QED
    BY <2>1, <2>2 DEF TableInv, Contiguous, Unique, FromDone, OwnKept, HasSlot, Full
<1>3. ASSUME ril_detect
      PROVE  BootInv'
  <2>1. /\ UNCHANGED <<toRun, modems, plugged, request_items, unsolicited_items>>
        /\ level = "MODEM_DETECT" /\ level' \in {"REQUEST_REG", "main"}
        /\ g_modem' \in Modems
    BY <1>3 DEF ril_detect, BootTypeOK
  <2>2. BootTypeOK'
    BY <2>1 DEF BootTypeOK, Levels, Table
  <2>3. RequestItems \ toRun = {} /\ UnsolicitedItems \ toRun = {}
    BY <2>1
  <2>4. /\ \A i \in DOMAIN request_items : request_items[i].key = NoKey
        /\ \A i \in DOMAIN unsolicited_items : unsolicited_items[i].key = NoKey
    BY <2>3, NothingDone
  <2>5. (RequestItems \ toRun)' = {} /\ (UnsolicitedItems \ toRun)' = {}
    BY <2>1, <2>3
  <2>6. /\ TableInv(request_items, RequestItems \ toRun)'
        /\ TableInv(unsolicited_items, UnsolicitedItems \ toRun)'
    BY <2>1, <2>4, <2>5
         DEF TableInv, Contiguous, Unique, FromDone, OwnKept, HasSlot, Full
  <2> QED
    BY <2>1, <2>2, <2>6
<1>4. ASSUME NEW item \in toRun, register_request(item)
      PROVE  BootInv'
  <2>1. /\ level = "REQUEST_REG" /\ level' \in {"REQUEST_REG", "main"}
        /\ item \in RequestItems /\ toRun' = toRun \ {item}
        /\ request_items' = Register(request_items, item)
        /\ UNCHANGED <<modems, plugged, g_modem, unsolicited_items>>
    BY <1>4 DEF register_request, RunConstructor
  <2>2. item \in Item(Requests) /\ NoKey \notin Requests /\ g_modem \in Modems
    BY <2>1, ItemAssumption, KeyAssumption
  <2>3. request_items' \in Table(RIL_MAX_REQUEST, Requests)
    BY <2>1, <2>2, RegisterType, CapacityAssumption DEF BootTypeOK
  <2>4. BootTypeOK'
    BY <2>1, <2>3 DEF BootTypeOK, Levels, Table
  <2>5. RequestItems \ toRun \subseteq Item(Requests)
    BY ItemAssumption
  <2>6. TableInv(Register(request_items, item), (RequestItems \ toRun) \cup {item})
    BY <2>2, <2>5, RegisterInv, CapacityAssumption DEF BootTypeOK
  <2>7. /\ (RequestItems \ toRun)' = (RequestItems \ toRun) \cup {item}
        /\ (UnsolicitedItems \ toRun)' = UnsolicitedItems \ toRun
    BY <2>1, Disjoint
  <2>8. TableInv(request_items, RequestItems \ toRun)'
    BY <2>1, <2>6, <2>7 DEF TableInv, Contiguous, Unique, FromDone, OwnKept, HasSlot, Full
  <2>9. TableInv(unsolicited_items, UnsolicitedItems \ toRun)'
    BY <2>1, <2>7 DEF TableInv, Contiguous, Unique, FromDone, OwnKept, HasSlot, Full
  <2> QED
    BY <2>1, <2>2, <2>4, <2>8, <2>9
<1>5. ASSUME NEW item \in toRun, register_unsolicited(item)
      PROVE  BootInv'
  <2>1. /\ level = "REQUEST_REG" /\ level' \in {"REQUEST_REG", "main"}
        /\ item \in UnsolicitedItems /\ toRun' = toRun \ {item}
        /\ unsolicited_items' = Register(unsolicited_items, item)
        /\ UNCHANGED <<modems, plugged, g_modem, request_items>>
    BY <1>5 DEF register_unsolicited, RunConstructor
  <2>2. item \in Item(Prefixes) /\ NoKey \notin Prefixes /\ g_modem \in Modems
    BY <2>1, ItemAssumption, KeyAssumption
  <2>3. unsolicited_items' \in Table(RIL_MAX_UNSOLICITED, Prefixes)
    BY <2>1, <2>2, RegisterType, CapacityAssumption DEF BootTypeOK
  <2>4. BootTypeOK'
    BY <2>1, <2>3 DEF BootTypeOK, Levels, Table
  <2>5. UnsolicitedItems \ toRun \subseteq Item(Prefixes)
    BY ItemAssumption
  <2>6. TableInv(Register(unsolicited_items, item), (UnsolicitedItems \ toRun) \cup {item})
    BY <2>2, <2>5, RegisterInv, CapacityAssumption DEF BootTypeOK
  <2>7. /\ (UnsolicitedItems \ toRun)' = (UnsolicitedItems \ toRun) \cup {item}
        /\ (RequestItems \ toRun)' = RequestItems \ toRun
    BY <2>1, Disjoint
  <2>8. TableInv(unsolicited_items, UnsolicitedItems \ toRun)'
    BY <2>1, <2>6, <2>7 DEF TableInv, Contiguous, Unique, FromDone, OwnKept, HasSlot, Full
  <2>9. TableInv(request_items, RequestItems \ toRun)'
    BY <2>1, <2>7 DEF TableInv, Contiguous, Unique, FromDone, OwnKept, HasSlot, Full
  <2> QED
    BY <2>1, <2>2, <2>4, <2>8, <2>9
<1>6. CASE UNCHANGED bootVars
  BY <1>6 DEF bootVars, BootTypeOK, Table, TableInv, Contiguous, Unique, FromDone,
              OwnKept, HasSlot, Full
<1> QED
  BY <1>1, <1>2, <1>3, <1>4, <1>5, <1>6 DEF Boot

\* The invariant of a table says what the lookup finds in it.
LEMMA ChosenHolds ==
    ASSUME NEW N \in Nat, NEW keys, NoKey \notin keys, NEW items \in Table(N, keys),
           NEW all \in SUBSET Item(keys), NEW key \in keys,
           VID_PID_GENERIC # g_modem,
           TableInv(items, all \ toRun)
    PROVE  Chosen(all, items, key)
<1> DEFINE own   == Registered(all, key, g_modem)
           any   == Registered(all, key, VID_PID_GENERIC)
           found == {i \in Slot(items, key) : items[i].key = key}
<1>1. DOMAIN items = 1..N
  BY DEF Table
<1>2. CASE found = {}
  <2>1. Handler(items, key) = NoHandler
    BY <1>2 DEF Handler
  <2>2. own \cup any = {} \/ Full(items)
    <3> SUFFICES ASSUME NEW item \in all \ toRun, item.key = key,
                        item.vid_pid \in {VID_PID_GENERIC, g_modem}, ~Full(items)
                 PROVE  FALSE
      BY DEF Registered
    <3>1. PICK i \in 1..N : items[i].key = key
      BY <1>1 DEF TableInv, HasSlot
    <3>2. Slot(items, key) # {}
      BY <3>1, SlotFacts
    <3>3. PICK k \in Slot(items, key) : TRUE
      BY <3>2
    <3>4. /\ k \in 1..N /\ items[k].key \in {NoKey, key}
          /\ \A j \in 1..N : j < k => items[j].key \notin {NoKey, key}
      BY SlotFacts
    <3>5. items[k].key = NoKey
      BY <1>2, <3>3, <3>4
    <3>6. k < i
      BY <3>1, <3>4, <3>5
    <3> QED
      BY <1>1, <3>1, <3>4, <3>5, <3>6 DEF TableInv, Contiguous
  <2> QED
    BY <2>1, <2>2 DEF Chosen
<1>3. CASE found # {}
  <2> DEFINE i == CHOOSE x \in found : TRUE
  <2>1. i \in found
    BY <1>3
  <2>2. i \in 1..N /\ items[i].key = key /\ key # NoKey
    BY <1>1, <2>1 DEF Slot
  <2>3. Handler(items, key) = items[i].handler
    BY <1>3 DEF Handler
  <2>4. /\ items[i] \in all \ toRun
        /\ items[i].vid_pid \in {VID_PID_GENERIC, g_modem}
    BY <1>1, <2>2 DEF TableInv, FromDone
  <2>5. items[i].handler # NoHandler
    BY <2>4, ItemAssumption DEF Item
  <2>6. own # {} => items[i].vid_pid = g_modem
    <3> SUFFICES ASSUME NEW item \in all \ toRun, item.key = key, item.vid_pid = g_modem
                 PROVE  items[i].vid_pid = g_modem
      BY DEF Registered
    <3> QED
      BY <1>1, <2>2 DEF TableInv, OwnKept
  <2>7. items[i].handler \in IF own # {} THEN own ELSE any
    BY <2>2, <2>4, <2>6 DEF Registered
  <2> QED
    BY <2>3, <2>5, <2>7 DEF Chosen
<1> QED
  BY <1>2, <1>3

LEMMA InvOverride == BootInv => OverrideWins
<1> SUFFICES ASSUME BootInv
             PROVE  OverrideWins
  OBVIOUS
<1>1. VID_PID_GENERIC # g_modem
  BY ModemAssumption DEF BootInv, BootTypeOK
<1>2. ASSUME NEW r \in Requests
      PROVE  Chosen(RequestItems, request_items, r)
  BY <1>1, ChosenHolds, KeyAssumption, ItemAssumption, CapacityAssumption
       DEF BootInv, BootTypeOK
<1>3. ASSUME NEW p \in Prefixes
      PROVE  Chosen(UnsolicitedItems, unsolicited_items, p)
  BY <1>1, ChosenHolds, KeyAssumption, ItemAssumption, CapacityAssumption
       DEF BootInv, BootTypeOK
<1> QED
  BY <1>2, <1>3 DEF OverrideWins

-----------------------------------------------------------------------------
LEMMA BootInvariant == BootSpec => []BootInv
BY InitInv, StepInv, PTL DEF BootSpec

\* The constructors keep the state of the boot well-typed: at most one of the
\* modems is found, and a table holds registrations of its own kind only.
THEOREM BootTypeTheorem == BootSpec => []BootTypeOK
<1>1. BootInv => BootTypeOK
  BY DEF BootInv
<1> QED
  BY <1>1, BootInvariant, PTL

\* Whatever the files register and in whatever order they are linked, the
\* lookup of process_request and of process_unsolicited finds the handler of
\* the modem that was found before a generic one, and finds one while the table
\* has room.
THEOREM OverrideTheorem == BootSpec => []OverrideWins
BY BootInvariant, InvOverride, PTL
===============================================================================

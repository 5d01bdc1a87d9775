------------------------------- MODULE Registry -------------------------------
(* sxx-ril-manager.c: what the constructors do before main: the supported    *)
(* modems are registered, then one of them is waited for on the USB, then    *)
(* every file registers its handlers, each for any modem or for one.  The    *)
(* constructors of one level run in the order in which the files are linked, *)
(* which the source leaves open.  Two tables are the result, the one that    *)
(* process_request looks requests up in and the one that process_unsolicited *)
(* looks lines up in.                                                        *)
EXTENDS Integers, FiniteSets

CONSTANTS
    Requests,     \* request numbers
    Prefixes,     \* prefixes of unsolicited lines
    NoKey,        \* an empty slot: request 0, or a prefix that is NULL
    NoHandler,    \* a handler that is NULL
    HandlerNames,
    Modems,       \* the modems REGISTER_MODEM names, by their vid_pid
    Devices,      \* the devices that may be plugged in, by their vid_pid
    NoModem,      \* g_modem == NULL
    VID_PID_GENERIC,
    RequestItems,     \* the REGISTER_REQUEST_ITEMs and ..._DEFAULT_ITEMs
    UnsolicitedItems, \* the REGISTER_DEFAULT_UNSOLICITEDs
    RIL_MAX_REQUEST, RIL_MAX_UNSOLICITED, MAX_SUPPORT_MODEM

\* A registration: key is the request or the prefix.
Item(keys) == [key : keys, handler : HandlerNames, vid_pid : Modems \cup {VID_PID_GENERIC}]

Empty == [key |-> NoKey, handler |-> NoHandler, vid_pid |-> NoModem]

ASSUME KeyAssumption     == NoKey \notin Requests \cup Prefixes /\ Requests \cap Prefixes = {}
ASSUME ItemAssumption    ==
    /\ RequestItems \subseteq Item(Requests)
    /\ UnsolicitedItems \subseteq Item(Prefixes)
    /\ NoHandler \notin HandlerNames
ASSUME ModemAssumption   ==
    /\ NoModem \notin Modems
    /\ VID_PID_GENERIC \notin Modems \cup {NoModem}
ASSUME CapacityAssumption ==
    /\ RIL_MAX_REQUEST \in Nat \ {0}
    /\ RIL_MAX_UNSOLICITED \in Nat \ {0}
    /\ MAX_SUPPORT_MODEM \in Nat

VARIABLES
    level,             \* of the constructors that are run
    toRun,             \* the handlers that are still to be registered
    modems,            \* the modems registered so far
    plugged,           \* the devices that can be found on the USB
    g_modem,           \* the vid_pid of the modem that was found
    request_items,
    unsolicited_items

bootVars == <<level, toRun, modems, plugged, g_modem, request_items, unsolicited_items>>

Levels == {"MODEM_REG", "MODEM_DETECT", "REQUEST_REG", "main", "exit"}
-----------------------------------------------------------------------------
(* register_request and register_unsolicited: the first slot that is empty   *)
(* or has the key.                                                           *)

Slot(items, key) ==
    {i \in DOMAIN items :
       /\ items[i].key \in {NoKey, key}
       /\ \A j \in DOMAIN items : j < i => items[j].key \notin {NoKey, key}}

\* Mutant: a specific handler is replaced like any other.
MayReplace_Always(old) == TRUE

MayReplace(old) == old.key = NoKey \/ old.vid_pid = VID_PID_GENERIC

\* A registration for another modem, one that a specific handler has been
\* registered for already, and one that finds no slot, are dropped.
Register(items, item) ==
    IF item.vid_pid \notin {VID_PID_GENERIC, g_modem} THEN items
    ELSE [i \in DOMAIN items |->
            IF i \in Slot(items, item.key) /\ MayReplace(items[i]) THEN item ELSE items[i]]

\* process_request and process_unsolicited stop at the first empty slot or at
\* the first match.
Handler(items, key) ==
    LET found == {i \in Slot(items, key) : items[i].key = key}
    IN  IF found = {} THEN NoHandler ELSE items[CHOOSE i \in found : TRUE].handler
-----------------------------------------------------------------------------
(* LEVEL_MANAGER_INIT has cleared the tables.                                *)

BootInit ==
    /\ level = "MODEM_REG"
    /\ toRun = RequestItems \cup UnsolicitedItems
    /\ modems = {} /\ g_modem = NoModem
    /\ plugged \in SUBSET Devices
    /\ request_items = [i \in 1..RIL_MAX_REQUEST |-> Empty]
    /\ unsolicited_items = [i \in 1..RIL_MAX_UNSOLICITED |-> Empty]

\* No room for a modem ends the process.
register_modem(m) ==
    /\ level = "MODEM_REG" /\ m \notin modems
    /\ IF Cardinality(modems) < MAX_SUPPORT_MODEM
         THEN /\ modems' = modems \cup {m}
              /\ level' = IF modems' = Modems THEN "MODEM_DETECT" ELSE level
         ELSE level' = "exit" /\ UNCHANGED modems
    /\ UNCHANGED <<toRun, plugged, g_modem, request_items, unsolicited_items>>

Plug(d) ==
    /\ level = "MODEM_DETECT" /\ d \notin plugged
    /\ plugged' = plugged \cup {d}
    /\ UNCHANGED <<level, toRun, modems, g_modem, request_items, unsolicited_items>>

\* usb_detect takes the first supported device in the order of the directory.
ril_detect ==
    /\ level = "MODEM_DETECT"
    /\ g_modem' \in plugged \cap modems
    /\ level' = IF toRun = {} THEN "main" ELSE "REQUEST_REG"
    /\ UNCHANGED <<toRun, modems, plugged, request_items, unsolicited_items>>

RunConstructor(item) ==
    /\ level = "REQUEST_REG" /\ item \in toRun
    /\ toRun' = toRun \ {item}
    /\ level' = IF toRun' = {} THEN "main" ELSE level
    /\ UNCHANGED <<modems, plugged, g_modem>>

register_request(item) ==
    /\ item \in RequestItems /\ RunConstructor(item)
    /\ request_items' = Register(request_items, item)
    /\ UNCHANGED unsolicited_items

register_unsolicited(item) ==
    /\ item \in UnsolicitedItems /\ RunConstructor(item)
    /\ unsolicited_items' = Register(unsolicited_items, item)
    /\ UNCHANGED request_items

Boot ==
    \/ \E m \in Modems : register_modem(m)
    \/ \E d \in Devices : Plug(d)
    \/ ril_detect
    \/ \E item \in toRun : register_request(item) \/ register_unsolicited(item)

process_request(request) == Handler(request_items, request)

process_unsolicited(prefix) == Handler(unsolicited_items, prefix)

BootSpec == BootInit /\ [][Boot]_bootVars
-----------------------------------------------------------------------------
(* Properties.                                                               *)

Table(max, keys) ==
    [1..max -> Item(keys) \cup {Empty}]

BootTypeOK ==
    /\ level \in Levels
    /\ toRun \subseteq RequestItems \cup UnsolicitedItems
    /\ modems \subseteq Modems /\ plugged \subseteq Devices
    /\ g_modem \in Modems \cup {NoModem}
    /\ request_items \in Table(RIL_MAX_REQUEST, Requests)
    /\ unsolicited_items \in Table(RIL_MAX_UNSOLICITED, Prefixes)

\* What has been registered for a key, for any modem or for this one.
Registered(all, key, vid_pid) ==
    {item.handler : item \in {i \in all \ toRun : i.key = key /\ i.vid_pid = vid_pid}}

Full(items) == \A i \in DOMAIN items : items[i].key # NoKey

\* In whatever order the files are linked, the lookup finds a handler of the
\* modem's own if one has been registered for the request, else one that is for
\* any modem; and it finds one, unless the table has run out of slots.
Chosen(all, items, key) ==
    LET own == Registered(all, key, g_modem)
        any == Registered(all, key, VID_PID_GENERIC)
        h   == Handler(items, key)
    IN  IF h = NoHandler THEN own \cup any = {} \/ Full(items)
        ELSE h \in IF own # {} THEN own ELSE any

OverrideWins ==
    /\ \A r \in Requests : Chosen(RequestItems, request_items, r)
    /\ \A p \in Prefixes : Chosen(UnsolicitedItems, unsolicited_items, p)
===============================================================================

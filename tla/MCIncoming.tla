------------------------------ MODULE MCIncoming ------------------------------
(* Instance of Incoming for TLC: the modem of one file is plugged in, the    *)
(* other's is not; both files, and one for any modem, register for           *)
(* RADIO_POWER.                                                              *)
EXTENDS Incoming

CONSTANTS MH400B, MG3732, Stick

Generic(key, handler) == [key |-> key, handler |-> handler, vid_pid |-> VID_PID_GENERIC]

SomeRequests ==
    {Generic("RADIO_POWER", "requestRadioPower"),
     [key |-> "RADIO_POWER", handler |-> "requestRadioPower_MH400B", vid_pid |-> MH400B],
     [key |-> "RADIO_POWER", handler |-> "requestRadioPower_MG3732", vid_pid |-> MG3732]}

SomeUnsolicited ==
    {Generic("+CMT:", "onNewMessageOrStatus"), Generic("+CUSD:", "onUSSDReceived")}

SomeHandlers == {item.handler : item \in SomeRequests \cup SomeUnsolicited}
===============================================================================

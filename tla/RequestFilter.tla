--------------------------- MODULE RequestFilter ---------------------------
(***************************************************************************)
(* requestStateFilter of sxx-ril.c: which requests of the framework are    *)
(* answered at once, and with what, because of the radio state.  The code  *)
(* makes five tests one after the other, and each reads sState anew; the   *)
(* table below is kept apart from the order of the reads, which is the     *)
(* business of the modules that use it.                                    *)
(***************************************************************************)
EXTENDS Naturals

\* RIL_RadioState, as far as the code sets it.
RadioStates == {"OFF", "UNAVAILABLE", "SIM_NOT_READY", "SIM_LOCKED_OR_ABSENT", "SIM_READY"}

\* RIL_Errno, as far as the filter and the handlers use it.
Errors == {"SUCCESS", "RADIO_NOT_AVAILABLE", "GENERIC_FAILURE", "PASSWORD_INCORRECT",
           "MODE_NOT_SUPPORTED", "REQUEST_NOT_SUPPORTED"}

\* What a request needs of the SIM even when the radio is on.
NeedsReadySim == {"WRITE_SMS_TO_SIM", "DELETE_SMS_ON_SIM"}

AllowedNotReady == {"RADIO_POWER", "REPORT_STK_SERVICE_IS_RUNNING", "GET_SIM_STATUS",
                    "GET_IMEISV", "GET_IMEI", "DEVICE_IDENTITY", "BASEBAND_VERSION",
                    "SCREEN_STATE"}

AllowedOff == AllowedNotReady \union {"STK_GET_PROFILE", "STK_SET_PROFILE"}

\* DEVICE_IDENTITY and REPORT_STK_SERVICE_IS_RUNNING are not in the code's list.
AllowedLocked == {"ENTER_SIM_PIN", "ENTER_SIM_PUK", "ENTER_SIM_PIN2", "ENTER_SIM_PUK2",
                  "ENTER_NETWORK_DEPERSONALIZATION", "GET_SIM_STATUS", "RADIO_POWER",
                  "GET_IMEISV", "GET_IMEI", "BASEBAND_VERSION", "DIAL", "GET_CURRENT_CALLS",
                  "HANGUP", "HANGUP_FOREGROUND_RESUME_BACKGROUND", "SET_TTY_MODE",
                  "QUERY_TTY_MODE", "DTMF", "DTMF_START", "DTMF_STOP",
                  "LAST_CALL_FAIL_CAUSE", "SCREEN_STATE"}

Tests == 1..5

\* Mutant: the last test is missing.
LastTest_Missing == 4

\* The test after which a request is let through.
LastTest == 5

\* The i-th test refuses request r when it reads state s.
Refuses(i, s, r) ==
    \/ i = 1 /\ s # "SIM_READY" /\ r \in NeedsReadySim
    \/ i = 2 /\ s = "UNAVAILABLE"
    \/ i = 3 /\ s = "OFF" /\ r \notin AllowedOff
    \/ i = 4 /\ s \in {"OFF", "SIM_NOT_READY"} /\ r \notin AllowedNotReady
    \/ i = 5 /\ s = "SIM_LOCKED_OR_ABSENT" /\ r \notin AllowedLocked

\* The result the i-th test completes r with.  GET_SIM_STATUS is completed with
\* the number of the request, 1, in place of a result: RADIO_NOT_AVAILABLE.
FilterError(i, r) ==
    IF i = 3 \/ (i = 2 /\ r # "SCREEN_STATE") THEN "RADIO_NOT_AVAILABLE"
    ELSE "GENERIC_FAILURE"

\* Some test refuses r in state s: what the filter does if the state stands still.
Refused(s, r) == \E i \in Tests : Refuses(i, s, r)
=============================================================================

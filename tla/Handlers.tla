----------------------------- MODULE Handlers -----------------------------
(***************************************************************************)
(* The handlers of requests and of unsolicited lines, the callbacks they   *)
(* leave to the main thread, and the functions they call, as programs:     *)
(* sequences of instructions that keep what a handler does with its        *)
(* ATResponse (the local p_response or atresponse), the commands it sends, *)
(* its tests and error paths, its completions, its callbacks and its       *)
(* return value.  What the instructions do is said in Requests.            *)
(*                                                                         *)
(* Not kept: the text of the commands, the data passed back with a result, *)
(* and what the handlers do to the radio state and to pppd (RadioState and *)
(* PppdManager).  A test that depends on these is a Maybe.                 *)
(***************************************************************************)
EXTENDS Naturals, Sequences

Ins(op, arg, to) == [op |-> op, arg |-> arg, to |-> to]

\* Effects.
Null         == Ins("null", "none", "none")       \* p_response = NULL
Send(type)   == Ins("send", type, "none")     \* err = at_send_command...(..., &p_response)
Fire         == Ins("fire", "none", "none")       \* err = at_send_command(..., NULL)
Complete(e)  == Ins("complete", e, "none")    \* RIL_onRequestComplete(t, e, ...)
Free         == Ins("free", "none", "none")       \* at_response_free(p_response)
Call(fn)     == Ins("call", fn, "none")
Return(v)    == Ins("return", v, "none")
Set(n)       == Ins("set", n, "none")         \* wait = n
Later(fn)    == Ins("later", fn, "none")      \* RIL_requestTimedCallback(fn, ...)
Report       == Ins("report", "none", "none")     \* RIL_onUnsolicitedResponse(...)
\* Jumps: to label l when the test holds, else on.
Label(l)     == Ins("label", "none", l)
Goto(l)      == Ins("goto", "none", l)
OnError(l)   == Ins("error", "none", l)       \* err < 0
OnFailure(l) == Ins("failure", "none", l)     \* err < 0 || p_response->success == 0
OnRefusal(l) == Ins("refusal", "none", l)     \* p_response->success == 0
OnFinal(f,l) == Ins("final", f, l)        \* the class of at_get_cme_error(p_response)
OnNull(l)    == Ins("isnull", "none", l)      \* !p_response
OnNoLines(l) == Ins("nolines", "none", l)     \* p_response->p_intermediates == NULL
OnReturn(v,l)== Ins("returned", v, l)     \* the last call returned v
Maybe(l)     == Ins("maybe", "none", l)       \* a test of something that is not modelled
Countdown(l) == Ins("countdown", "none", l)   \* leave for l when wait-- is 0
Parse(l)     == Ins("parse", "none", l)       \* p_intermediates->line, which may not parse
ReadLine     == Ins("line", "none", "none")       \* the same, used as it is
\* Undefined behaviour that is not about p_response, and a write through NULL.
Wild         == Ins("wild", "none", "none")
Crash        == Ins("crash", "none", "none")

(***************************************************************************)
(* Shapes the handlers share.                                              *)
(***************************************************************************)
Ends(e) == <<Complete(e), Return("none")>>

Finish == <<Complete("SUCCESS"), Free, Return("none"),
            Label("error"), Complete("GENERIC_FAILURE"), Free, Return("none")>>

\* The same with the response freed first on the error path.
FinishFreed == <<Complete("SUCCESS"), Free, Return("none"),
                 Label("error"), Free, Complete("GENERIC_FAILURE"), Return("none")>>

Command(type) == <<Null, Send(type), OnFailure("error")>>

Query == Command("singleline") \o <<Parse("error")>>

Fires(n) == [i \in 1..n |-> Fire]

\* Send without asking for the response, and report an error of the channel only.
FireChecked == <<Fire, OnError("error")>> \o Ends("SUCCESS")
               \o <<Label("error")>> \o Ends("GENERIC_FAILURE")

(***************************************************************************)
(* sxx-ril-call.c                                                          *)
(***************************************************************************)
\* The three hangups fall back on AT+CHUP, whose result they look for in the
\* response to the command before; they never free it.
Hangup == <<OnFailure("chup"), Label("done")>> \o Ends("SUCCESS")
          \o <<Label("chup"), Fire, OnFailure("failed"), Goto("done"), Label("failed")>>
          \o Ends("GENERIC_FAILURE")

requestHangupWaitingOrBackground == <<Null, Send("plain")>> \o Hangup
requestHangupForegroundResumeBackground == <<Null, Send("plain")>> \o Hangup
requestHangup == <<Null, Send("plain"), Send("plain")>> \o Hangup
requestSwitchWaitingOrHoldingAndActive == <<Fire>> \o Ends("SUCCESS")
requestConference == <<Fire>> \o Ends("SUCCESS")
requestSeparateConnection == <<Fire>> \o Ends("SUCCESS")
requestExplicitCallTransfer == <<Fire>> \o Ends("SUCCESS")
requestUDUB == <<Fire>> \o Ends("SUCCESS")
requestSetMute == FireChecked
requestGetMute == Ends("REQUEST_NOT_SUPPORTED")
requestLastCallFailCause == Ends("REQUEST_NOT_SUPPORTED")
requestGetCurrentCalls ==
    <<Send("multiline"), OnFailure("failed"), Complete("SUCCESS"), Free, Maybe("end"),
      Later("sendCallStateChanged"), Label("end"), Return("none"), Label("failed")>> \o Ends("SUCCESS")
sendCallStateChanged == <<Report, Return("none")>>
requestDial == <<Fire>> \o Ends("SUCCESS")
requestAnswer == Command("plain") \o Finish
requestDTMF == <<Fire>> \o Ends("SUCCESS")
requestDTMFStart == <<Fire>> \o Ends("SUCCESS")
requestDTMFStop == Ends("REQUEST_NOT_SUPPORTED")
onCallStateChanged == <<Report, Return("none")>>
callConnectedJob == Fires(3) \o <<Return("none")>>
onCallConnected == <<Later("callConnectedJob"), Return("none")>>

(***************************************************************************)
(* sxx-ril-device.c                                                        *)
(***************************************************************************)
requestGetIMSI == Query \o FinishFreed
requestDeviceIdentity == Command("numeric") \o <<ReadLine>> \o Finish
requestGetIMEI == Command("numeric") \o <<ReadLine>> \o Finish
requestGetIMEISV == Ends("SUCCESS")
requestReportStkServiceIsRunning == Ends("GENERIC_FAILURE")
requestBasebandVersion ==
    Command("singleline") \o <<OnNoLines("error"), Parse("error")>> \o Finish

(***************************************************************************)
(* sxx-ril-message.c                                                       *)
(***************************************************************************)
\* memset(&configInfo, ...) clears the pointer, and the stack after it; every
\* path from there writes through it, and the path before frees it unset.
requestGSMGetBroadcastSMSConfig ==
    <<Null, Send("singleline"), OnFailure("unset"), Wild, Parse("error"), Crash,
      Label("error"), Complete("GENERIC_FAILURE"), Free, Return("none"),
      Label("unset"), Complete("GENERIC_FAILURE"), Wild, Free, Return("none")>>

\* Mutant: a configuration that is not selected is not answered.
requestGSMSetBroadcastSMSConfig_Silent ==
    <<Null, Maybe("ignored"), Send("plain"), OnFailure("error")>> \o Finish
    \o <<Label("ignored"), Return("none")>>

requestGSMSetBroadcastSMSConfig ==
    <<Null, Maybe("error"), Send("plain"), OnFailure("error")>> \o Finish
requestGSMSMSBroadcastActivation == Command("plain") \o Finish
requestSendSMS == Command("sms") \o Finish
requestSendSMSExpectMore == <<Fire, Call("requestSendSMS"), Return("none")>>
\* Falls through from the success to the error.
requestSMSAcknowledge ==
    <<Maybe("error"), Fire, Complete("SUCCESS"), Label("error")>> \o Ends("GENERIC_FAILURE")
requestWriteSmsToSim == Command("sms") \o Finish

\* Mutant: the refusal of the modem is not looked at.
requestDeleteSmsOnSim_Sent == <<Null, Send("plain"), OnError("error")>> \o Finish

requestDeleteSmsOnSim == Command("plain") \o Finish

\* Mutant: a return in place of goto error when the answer does not parse.
requestGetSMSCAddress_Leak ==
    Command("singleline") \o <<Parse("bad")>> \o Finish
    \o <<Label("bad")>> \o Ends("GENERIC_FAILURE")

requestGetSMSCAddress == Query \o Finish
requestSetSMSCAddress == Command("plain") \o Finish
readMessageByIndex == <<Fire, Return("none")>>
deleteMessageByIndex == <<Fire, Return("none")>>
\* A line that does not parse, or is about another memory than the SIM, leaves the
\* index unset, and the callback is requested all the same.
onNewMesssageByIndex ==
    <<Maybe("unset"), Label("out"), Later("readMessageByIndex"), Return("none"),
      Label("unset"), Wild, Goto("out")>>
onNewMessageOrStatus == <<Report, Return("none")>>
\* The same with the index of the message to delete.
onMessageListing ==
    <<Maybe("unset"), Label("out"), Later("deleteMessageByIndex"), Maybe("end"), Report,
      Label("end"), Return("none"), Label("unset"), Wild, Goto("out")>>

(***************************************************************************)
(* sxx-ril-service.c                                                       *)
(***************************************************************************)
requestQueryClip == Ends("REQUEST_NOT_SUPPORTED")
requestCancelUSSD ==
    <<Null, Send("numeric"), OnFailure("failed"), ReadLine, Complete("SUCCESS"), Goto("done"),
      Label("failed"), Complete("GENERIC_FAILURE"), Label("done"), Fire, Free, Return("none")>>
requestSendUSSD == <<Null, Fire, Send("plain"), OnFailure("error")>> \o FinishFreed
requestGetCLIR ==
    <<Null, Send("singleline"), OnFailure("done"), Parse("done"),
      Label("done"), Complete("SUCCESS"), Free, Return("none")>>
requestSetCLIR == Ends("REQUEST_NOT_SUPPORTED")
\* CME_SUCCESS and CME_ERROR_NON_CME go on.
requestCallForward ==
    <<Null, Maybe("error"), Send("multiline"), OnError("error"), OnFinal("CME", "error")>> \o Finish
requestQueryCallForwardStatus == <<Call("requestCallForward"), Return("none")>>
requestSetCallForward == <<Call("requestCallForward"), Return("none")>>
requestQueryCallWaiting ==
    <<Null, Send("singleline"), OnFailure("done"), Parse("done"),
      Label("done"), Complete("SUCCESS"), Free, Return("none")>>
\* p_response is not initialised.
requestSetCallWaiting == <<Send("plain"), OnFailure("error")>> \o Finish
requestSetSuppSvcNotification == FireChecked
\* What sscanf does not find in the line is used unset.
onUSSDReceived ==
    <<Maybe("out"), Maybe("report"), Maybe("report"), Wild,
      Label("report"), Report, Label("out"), Return("none")>>
onCmeError == <<Maybe("out"), Report, Label("out"), Return("none")>>

(***************************************************************************)
(* sxx-ril-network.c                                                       *)
(***************************************************************************)
requestSetNetworkSelectionAutomatic == FireChecked
requestSetNetworkSelectionManual ==
    <<Null, Maybe("error"), Send("plain"), OnFailure("error")>> \o Finish
requestSetPreferredNetworkType ==
    <<Null, Maybe("off"), Maybe("mode"), Call("getZmdsValue"), Maybe("same"),
      Send("plain"), OnFailure("error"), Fire>> \o Finish
    \o <<Label("off")>> \o Ends("RADIO_NOT_AVAILABLE")
    \o <<Label("mode")>> \o Ends("MODE_NOT_SUPPORTED")
    \o <<Label("same")>> \o Ends("SUCCESS")
reportSignalStrength ==
    Query \o <<Free, Null, Report, Return("none"), Label("error"), Free, Return("none")>>
\* A failure of the command is completed here and once more at the error label.
requestSignalStrength ==
    <<Null, Send("singleline"), OnFailure("failed"), Parse("error"),
      Complete("SUCCESS"), Free, Return("none"),
      Label("failed"), Complete("GENERIC_FAILURE"),
      Label("error"), Complete("GENERIC_FAILURE"), Free, Return("none")>>
requestQueryAvailableNetworks ==
    Command("multiline") \o <<OnNoLines("error"), Parse("error")>> \o Finish

\* Mutant: tests whether the command was sent, not whether it was accepted.
requestQueryNetworkSelectionMode_ErrOnly ==
    <<Null, Send("singleline"), OnError("error"), Parse("error")>> \o FinishFreed

requestQueryNetworkSelectionMode == Query \o FinishFreed
\* The response is not freed when the query fails.
getNetworkType ==
    <<Null, Send("singleline"), OnFailure("failed"), Parse("out"),
      Label("out"), Free, Return("none"), Label("failed"), Return("none")>>
requestRegistrationStateSub ==
    Query \o <<Maybe("error"), Call("getNetworkType"), Complete("SUCCESS"), Free, Return("0"),
      Label("error"), Complete("GENERIC_FAILURE"), Free, Return("-1")>>

\* Mutant: the tries are not counted.
registrationTries_Endless ==
    <<Call("getSIMStatus"), OnReturn("PIN", "locked"), OnReturn("PUK", "locked"), Label("loop"),
      Call("requestRegistrationStateSub"), OnReturn("0", "end"), Goto("loop"),
      Label("locked"), Call("requestRegistrationStateSub"), Label("end"), Return("none")>>

\* Up to 20 tries, 2 without a SIM and one with a locked SIM, each of which
\* completes the request.
registrationTries ==
    <<Call("getSIMStatus"), OnReturn("PIN", "locked"), OnReturn("PUK", "locked"),
      Set(20), OnReturn("ABSENT", "absent"),
      Label("loop"), Countdown("end"), Call("requestRegistrationStateSub"),
      OnReturn("0", "end"), Goto("loop"),
      Label("absent"), Set(2), Goto("loop"),
      Label("locked"), Call("requestRegistrationStateSub"), Label("end"), Return("none")>>
requestVoiceRegistrationState == registrationTries
requestDataRegistrationState == registrationTries
\* Goes on after a refusal, with the lines there are: three are expected.
requestOperator ==
    <<Null, Send("multiline"), OnError("error"), OnNoLines("error"), Parse("error")>> \o Finish
\* 4, automatic, when the query fails.
getZmdsValue ==
    <<Null, Send("singleline"), OnError("error"), OnNoLines("error"), Parse("error"),
      Label("error"), Free, Return("none")>>
requestGetPreferredNetworkType == <<Call("getZmdsValue")>> \o Ends("SUCCESS")

\* Mutant: the return after the success is forgotten.
requestSetFacilityLock_FallsThrough ==
    Command("plain") \o <<Complete("SUCCESS"), Label("error"), Free,
                          Complete("GENERIC_FAILURE"), Return("none")>>

requestSetFacilityLock == Command("plain") \o FinishFreed
requestQueryFacilityLock == Query \o Finish
requestCDMASubScription == Ends("SUCCESS")
\* 1 on, 7 a state of the MH400B, -1 on error or any other value.
getRadioPower ==
    Query \o <<Maybe("seven"), Maybe("error"), Free, Return("1"),
      Label("seven"), Free, Return("7"), Label("error"), Free, Return("-1")>>
\* setRadioState as the handlers call it: what it starts in the new state.
setRadioState ==
    <<Maybe("ready"), Maybe("poll"), Return("none"), Label("ready"), Call("onSIMReady"), Return("none"),
      Label("poll"), Call("pollSIMState"), Return("none")>>
\* off and on are the parts that differ between the modems.
RadioPower(off, on) ==
    <<Null, Maybe("off"), Maybe("on"), Label("done"), Free>> \o Ends("SUCCESS")
    \o <<Label("off")>> \o off \o <<Label("set"), Call("setRadioState"), Goto("done"),
         Label("on"), Send("plain"), OnFailure("check"), Goto("set"), Label("check")>>
    \o on \o <<Label("error"), Free>> \o Ends("GENERIC_FAILURE")
onNetworkStateChanged == <<Maybe("end"), Report, Label("end"), Return("none")>>
requestRadioPower ==
    RadioPower(<<Maybe("set"), Send("plain"), OnError("error")>>,
               <<Call("getRadioPower"), OnReturn("1", "set")>>)

(***************************************************************************)
(* sxx-ril-sim.c                                                           *)
(***************************************************************************)
onSIMReady == <<Fire, Fire, Return("none")>>
\* A failed answer +CME ERROR: 0 is taken for a success and read; the response
\* is not freed when the SIM is personalised to a network.
SimStatus(test) ==
    <<Null>> \o test \o <<Send("singleline"), OnError("absent"), OnFinal("CME", "cme"),
      OnFinal("ERROR", "absent"), Parse("not_ready"), Maybe("pin"), Maybe("puk"),
      Maybe("network"), Maybe("absent"), Free, Null, Free, Return("READY"),
      Label("cme"), Maybe("not_ready"), Label("absent"), Free, Return("ABSENT"),
      Label("not_ready"), Free, Return("NOT_READY"), Label("pin"), Free, Return("PIN"),
      Label("puk"), Free, Return("PUK"), Label("network"), Return("NETWORK")>>
\* getSIMStatus(0) tests sState first, getSIMStatus(2) does not.
getSIMStatus == SimStatus(<<Maybe("not_ready")>>)
getSIMStatus2 == SimStatus(<<>>)
\* In the state SIM_READY setRadioState does no more than onSIMReady.
pollSIMState ==
    <<Maybe("return"), Call("getSIMStatus"), OnReturn("READY", "ready"),
      OnReturn("NOT_READY", "again"), Label("return"), Return("none"),
      Label("ready"), Call("onSIMReady"), Return("none"),
      Label("again"), Later("pollSIMState"), Return("none")>>
requestGetSimStatus == <<Call("getSIMStatus")>> \o Ends("SUCCESS")
\* requestStateFilter in UNAVAILABLE: the number of the request is passed as the
\* result, which makes it RADIO_NOT_AVAILABLE.
filterSimStatus == <<Call("getSIMStatus2")>> \o Ends("RADIO_NOT_AVAILABLE")
requestSimIo ==
    <<Null, Call("sim_io_hook"), OnReturn("0", "hooked"), Send("singleline"), OnFailure("error"),
      Parse("error"), Label("hooked")>> \o Finish
requestEnterSimPin ==
    <<Null, Call("getSIMStatus"), Maybe("error"), Send("plain"), OnFailure("error"),
      Complete("SUCCESS"), Maybe("end"), Call("setRadioState"), Call("setRadioState"), Goto("end"),
      Label("error"), Complete("PASSWORD_INCORRECT"), Label("end"), Free, Return("none")>>

(***************************************************************************)
(* sxx-ril-phonebook.c: SIM_IO requests for the phonebook file are         *)
(* answered with AT+CPBR and AT+CPBW.                                      *)
(***************************************************************************)
PhoneBook(type, lines) ==
    <<Null, Fire, Send(type), OnError("error"), OnNull("error"), OnRefusal("error")>> \o lines
    \o <<Label("done"), Free, Return("0"), Label("error"), Free, Return("-1")>>
get_phone_book == PhoneBook("singleline", <<OnNoLines("done"), Parse("error")>>)
set_phone_book == PhoneBook("plain", <<>>)
\* The size of the file is answered at once, a record that cannot be read as empty.
sim_io_hook ==
    <<Maybe("size"), Maybe("read"), Maybe("write"), Label("other"), Return("-1"),
      Label("read"), Call("get_phone_book"), Label("size"), Return("0"),
      Label("write"), Call("set_phone_book"), OnReturn("-1", "other"), Return("0")>>

(***************************************************************************)
(* sxx-ril-pdp.c                                                           *)
(***************************************************************************)
\* p_response is not initialised.  n is set to 0 when there is no connection,
\* and every +CGACT line then writes behind an empty array.  A failed command
\* returns without freeing the response.
reportDataCallList ==
    <<Send("multiline"), OnFailure("failed"), OnNoLines("listed"), Maybe("connected"), Wild,
      Label("connected"), Parse("error"), Label("listed"), Free,
      Send("multiline"), OnFailure("failed"), OnNoLines("reported"), Parse("error"),
      Label("reported"), Free>> \o Ends("SUCCESS")
    \o <<Label("failed")>> \o Ends("GENERIC_FAILURE")
    \o <<Label("error"), Complete("GENERIC_FAILURE"), Free, Return("none")>>
onDataCallListChanged == <<Call("reportDataCallList"), Return("none")>>

\* Mutant: the list is asked for at once.
onDataCallStageChanged_Now == <<Call("onDataCallListChanged"), Return("none")>>

onDataCallStageChanged == <<Later("onDataCallListChanged"), Return("none")>>
requestDataCallList == <<Call("reportDataCallList"), Return("none")>>
\* The thread of a data call: it completes the request, and nothing waits for it.
dc_thread ==
    <<Fire, Fire, Maybe("timeout"), Maybe("report"), Call("getZmdsValue"), Maybe("report"), Fire,
      Label("report"), Call("reportDataCallList"), Fire, Return("none"), Label("timeout")>>
    \o Ends("SUCCESS")
requestSetupDataCall == <<Call("dc_thread"), Return("none")>>
requestDeactivateDataCall ==
    <<Complete("SUCCESS"), Later("onDataCallListChanged"), Return("none")>>
requestLastDataCallFailCause == Ends("SUCCESS")
requestScreenState == <<Complete("SUCCESS"), Maybe("off"), Report, Fire, Label("off"), Return("none")>>

(***************************************************************************)
(* The handlers of the modems: sxx-ril-mg3732.c, -fr900.c, -mh400b.c and   *)
(* -dm6200.c.  Handlers that have the name of a generic one get the name   *)
(* of the modem.                                                           *)
(***************************************************************************)
requestGetIMEI_MG3732 == Command("singleline") \o <<ReadLine>> \o Finish
requestSetNetworkSelectionAutomaticW218 ==
    <<Call("getZmdsValue"), Fire, OnError("error"), Fire>> \o Ends("SUCCESS")
    \o <<Label("error")>> \o Ends("GENERIC_FAILURE")
\* Returns a variable that was not set when the query fails.
getClvlValue ==
    <<Null, Send("singleline"), OnError("unset"), OnNull("unset"), OnNoLines("unset"),
      Parse("unset"), Free, Return("none"), Label("unset"), Free, Wild, Return("none")>>
requestSetAudioPath_MG3732 == <<Call("getClvlValue")>> \o Fires(5) \o Ends("SUCCESS")
requestSetVoiceVolume_MG3732 == <<Fire>> \o Ends("SUCCESS")
requestSendSMS_FR900 == <<Null, Fire, Send("sms"), OnFailure("error")>> \o Finish
requestGetSimStatus_DM6200 == <<Call("getSIMStatus")>> \o Ends("SUCCESS")
requestSetAudioPath_MH400B == <<Fire>> \o Ends("SUCCESS")
requestSetVoiceVolume_MH400B == <<Fire>> \o Ends("SUCCESS")
\* first_cfun is never cleared here: AT+CFUN=0 is not sent.
requestRadioPower_MH400B ==
    RadioPower(<<>>, <<Call("getRadioPower"), OnReturn("1", "set"),
                       Call("getRadioPower"), OnReturn("7", "set")>>)
requestSetPreferredNetworkType_MH400B ==
    <<Null, Maybe("off"), Maybe("set"), Fire, Label("set"), Call("getNetworkType_MH400B"),
      Send("plain"), OnFailure("error")>> \o Finish
    \o <<Label("off")>> \o Ends("RADIO_NOT_AVAILABLE")
requestSetNetworkSelectionManual_MH400B ==
    <<Null, Maybe("error"), Send("plain"), OnFailure("error")>> \o Finish
getNetworkTypeOld ==
    <<Null, Send("singleline"), OnFailure("failed"), Parse("out"),
      Label("out"), Free, Return("none"), Label("failed"), Return("none")>>
getNetworkType_MH400B ==
    <<Null, Send("singleline"), OnFailure("failed"), Parse("out"), Maybe("out"),
      Call("getNetworkTypeOld"), Label("out"), Free, Return("none"), Label("failed"), Return("none")>>
requestRegistrationStateSub_MH400B ==
    Query \o <<Call("getNetworkType_MH400B"), Complete("SUCCESS"), Call("reportSignalStrength"),
      Call("reportSignalStrength"), Free, Return("0"),
      Label("error"), Complete("GENERIC_FAILURE"), Free, Return("-1")>>
\* One try, unlike the generic handlers.
requestRegistrationState_MH400B == <<Call("requestRegistrationStateSub_MH400B"), Return("none")>>
requestQueryAvailableNetworks_MH400B ==
    Command("multiline") \o <<OnNoLines("error"), Parse("error")>> \o Finish

(***************************************************************************)
(* Which handler serves a request: register_request lets a handler for the *)
(* detected modem beat a generic one, whichever is registered first, and   *)
(* ignores the handlers of other modems.  Of two generic handlers the last *)
(* registered wins, which is up to the linker: both are listed.            *)
(***************************************************************************)
Modems == {"MG3732", "DM6200", "DM6600", "MW100", "FR900", "MH400B"}

Default ==
  [HANGUP_WAITING_OR_BACKGROUND |-> {"requestHangupWaitingOrBackground"},
   HANGUP_FOREGROUND_RESUME_BACKGROUND |-> {"requestHangupForegroundResumeBackground"},
   SWITCH_WAITING_OR_HOLDING_AND_ACTIVE |-> {"requestSwitchWaitingOrHoldingAndActive"},
   CONFERENCE |-> {"requestConference"}, SEPARATE_CONNECTION |-> {"requestSeparateConnection"},
   EXPLICIT_CALL_TRANSFER |-> {"requestExplicitCallTransfer"}, UDUB |-> {"requestUDUB"},
   SET_MUTE |-> {"requestSetMute"}, GET_MUTE |-> {"requestGetMute"},
   LAST_CALL_FAIL_CAUSE |-> {"requestLastCallFailCause"},
   GET_CURRENT_CALLS |-> {"requestGetCurrentCalls"}, DIAL |-> {"requestDial"},
   ANSWER |-> {"requestAnswer"}, HANGUP |-> {"requestHangup"}, DTMF |-> {"requestDTMF"},
   DTMF_START |-> {"requestDTMFStart"}, DTMF_STOP |-> {"requestDTMFStop"},
   GET_IMSI |-> {"requestGetIMSI"}, DEVICE_IDENTITY |-> {"requestDeviceIdentity"},
   GET_IMEI |-> {"requestGetIMEI"}, GET_IMEISV |-> {"requestGetIMEISV"},
   REPORT_STK_SERVICE_IS_RUNNING |-> {"requestReportStkServiceIsRunning"},
   BASEBAND_VERSION |-> {"requestBasebandVersion"},
   GSM_GET_BROADCAST_SMS_CONFIG |-> {"requestGSMGetBroadcastSMSConfig"},
   GSM_SET_BROADCAST_SMS_CONFIG |-> {"requestGSMSetBroadcastSMSConfig"},
   GSM_SMS_BROADCAST_ACTIVATION |-> {"requestGSMSMSBroadcastActivation"},
   SEND_SMS |-> {"requestSendSMS"}, SEND_SMS_EXPECT_MORE |-> {"requestSendSMSExpectMore"},
   SMS_ACKNOWLEDGE |-> {"requestSMSAcknowledge"},
   WRITE_SMS_TO_SIM |-> {"requestWriteSmsToSim"},
   DELETE_SMS_ON_SIM |-> {"requestDeleteSmsOnSim"},
   GET_SMSC_ADDRESS |-> {"requestGetSMSCAddress"},
   SET_SMSC_ADDRESS |-> {"requestSetSMSCAddress"}, QUERY_CLIP |-> {"requestQueryClip"},
   CANCEL_USSD |-> {"requestCancelUSSD"}, SEND_USSD |-> {"requestSendUSSD"},
   GET_CLIR |-> {"requestGetCLIR"}, SET_CLIR |-> {"requestSetCLIR"},
   QUERY_CALL_FORWARD_STATUS |-> {"requestQueryCallForwardStatus"},
   SET_CALL_FORWARD |-> {"requestSetCallForward"},
   QUERY_CALL_WAITING |-> {"requestQueryCallWaiting"},
   SET_CALL_WAITING |-> {"requestSetCallWaiting"},
   SET_SUPP_SVC_NOTIFICATION |-> {"requestSetSuppSvcNotification"},
   SET_NETWORK_SELECTION_AUTOMATIC |-> {"requestSetNetworkSelectionAutomatic"},
   SET_NETWORK_SELECTION_MANUAL |-> {"requestSetNetworkSelectionManual"},
   SET_PREFERRED_NETWORK_TYPE |-> {"requestSetPreferredNetworkType"},
   GET_PREFERRED_NETWORK_TYPE |-> {"requestGetPreferredNetworkType"},
   SIGNAL_STRENGTH |-> {"requestSignalStrength"},
   QUERY_AVAILABLE_NETWORKS |-> {"requestQueryAvailableNetworks"},
   QUERY_NETWORK_SELECTION_MODE |-> {"requestQueryNetworkSelectionMode"},
   VOICE_REGISTRATION_STATE |-> {"requestVoiceRegistrationState"},
   DATA_REGISTRATION_STATE |-> {"requestDataRegistrationState"},
   OPERATOR |-> {"requestOperator"}, SET_FACILITY_LOCK |-> {"requestSetFacilityLock"},
   QUERY_FACILITY_LOCK |-> {"requestQueryFacilityLock"},
   CDMA_SUBSCRIPTION |-> {"requestCDMASubScription"}, RADIO_POWER |-> {"requestRadioPower"},
   GET_SIM_STATUS |-> {"requestGetSimStatus"}, SIM_IO |-> {"requestSimIo"},
   ENTER_SIM_PIN |-> {"requestEnterSimPin"}, ENTER_SIM_PUK |-> {"requestEnterSimPin"},
   ENTER_SIM_PIN2 |-> {"requestEnterSimPin"}, ENTER_SIM_PUK2 |-> {"requestEnterSimPin"},
   CHANGE_SIM_PIN |-> {"requestEnterSimPin"}, CHANGE_SIM_PIN2 |-> {"requestEnterSimPin"},
   DATA_CALL_LIST |-> {"requestDataCallList"}, SETUP_DATA_CALL |-> {"requestSetupDataCall"},
   DEACTIVATE_DATA_CALL |-> {"requestDeactivateDataCall"},
   LAST_DATA_CALL_FAIL_CAUSE |-> {"requestLastDataCallFailCause"},
   SCREEN_STATE |-> {"requestScreenState"},
   SET_VOICE_PATH |-> {"requestSetAudioPath_MG3732", "requestSetAudioPath_MH400B"},
   SET_VOICE_VOLUME |-> {"requestSetVoiceVolume_MG3732", "requestSetVoiceVolume_MH400B"}]

Specific ==
  [m \in Modems |->
   CASE m = "MG3732" ->
         [GET_IMEI |-> "requestGetIMEI_MG3732",
          SET_NETWORK_SELECTION_AUTOMATIC |-> "requestSetNetworkSelectionAutomaticW218"]
     [] m = "DM6200" -> [GET_SIM_STATUS |-> "requestGetSimStatus_DM6200"]
     [] m = "FR900" -> [SEND_SMS |-> "requestSendSMS_FR900"]
     [] m = "MH400B" ->
         [RADIO_POWER |-> "requestRadioPower_MH400B",
          SET_PREFERRED_NETWORK_TYPE |-> "requestSetPreferredNetworkType_MH400B",
          GET_PREFERRED_NETWORK_TYPE |-> "requestGetPreferredNetworkType",
          SET_NETWORK_SELECTION_AUTOMATIC |-> "requestSetNetworkSelectionAutomatic",
          SET_NETWORK_SELECTION_MANUAL |-> "requestSetNetworkSelectionManual_MH400B",
          VOICE_REGISTRATION_STATE |-> "requestRegistrationState_MH400B",
          DATA_REGISTRATION_STATE |-> "requestRegistrationState_MH400B",
          QUERY_AVAILABLE_NETWORKS |-> "requestQueryAvailableNetworks_MH400B"]
     [] OTHER -> << >>]

\* The handlers of unsolicited lines, by the prefix of the line; onTimeChanged is
\* in sxx-ril.c.
onTimeChanged == <<Maybe("end"), Report, Label("end"), Return("none")>>

Unsolicited == {"onTimeChanged", "onNewMesssageByIndex", "onNewMessageOrStatus",
                "onMessageListing", "onUSSDReceived", "onCmeError", "onCallStateChanged",
                "onCallConnected", "onNetworkStateChanged", "onDataCallStageChanged"}

Handlers(request, m) ==
    IF request \in DOMAIN Specific[m] THEN {Specific[m][request]}
    ELSE IF request \in DOMAIN Default THEN Default[request] ELSE {}

\* The program of every function that is called by name.
Code ==
  [sendCallStateChanged |-> sendCallStateChanged, onCallStateChanged |-> onCallStateChanged,
   callConnectedJob |-> callConnectedJob, onCallConnected |-> onCallConnected,
   readMessageByIndex |-> readMessageByIndex, deleteMessageByIndex |-> deleteMessageByIndex,
   onNewMesssageByIndex |-> onNewMesssageByIndex,
   onNewMessageOrStatus |-> onNewMessageOrStatus, onMessageListing |-> onMessageListing,
   onUSSDReceived |-> onUSSDReceived, onCmeError |-> onCmeError,
   onNetworkStateChanged |-> onNetworkStateChanged,
   onDataCallListChanged |-> onDataCallListChanged,
   onDataCallStageChanged |-> onDataCallStageChanged, onTimeChanged |-> onTimeChanged,
   requestHangupWaitingOrBackground |-> requestHangupWaitingOrBackground,
   requestHangupForegroundResumeBackground |-> requestHangupForegroundResumeBackground,
   requestHangup |-> requestHangup,
   requestSwitchWaitingOrHoldingAndActive |-> requestSwitchWaitingOrHoldingAndActive,
   requestConference |-> requestConference,
   requestSeparateConnection |-> requestSeparateConnection,
   requestExplicitCallTransfer |-> requestExplicitCallTransfer, requestUDUB |-> requestUDUB,
   requestSetMute |-> requestSetMute, requestGetMute |-> requestGetMute,
   requestLastCallFailCause |-> requestLastCallFailCause,
   requestGetCurrentCalls |-> requestGetCurrentCalls, requestDial |-> requestDial,
   requestAnswer |-> requestAnswer, requestDTMF |-> requestDTMF,
   requestDTMFStart |-> requestDTMFStart, requestDTMFStop |-> requestDTMFStop,
   requestGetIMSI |-> requestGetIMSI, requestDeviceIdentity |-> requestDeviceIdentity,
   requestGetIMEI |-> requestGetIMEI, requestGetIMEISV |-> requestGetIMEISV,
   requestReportStkServiceIsRunning |-> requestReportStkServiceIsRunning,
   requestBasebandVersion |-> requestBasebandVersion,
   requestGSMGetBroadcastSMSConfig |-> requestGSMGetBroadcastSMSConfig,
   requestGSMSetBroadcastSMSConfig |-> requestGSMSetBroadcastSMSConfig,
   requestGSMSMSBroadcastActivation |-> requestGSMSMSBroadcastActivation,
   requestSendSMS |-> requestSendSMS, requestSendSMSExpectMore |-> requestSendSMSExpectMore,
   requestSMSAcknowledge |-> requestSMSAcknowledge,
   requestWriteSmsToSim |-> requestWriteSmsToSim,
   requestDeleteSmsOnSim |-> requestDeleteSmsOnSim,
   requestGetSMSCAddress |-> requestGetSMSCAddress,
   requestSetSMSCAddress |-> requestSetSMSCAddress, requestQueryClip |-> requestQueryClip,
   requestCancelUSSD |-> requestCancelUSSD, requestSendUSSD |-> requestSendUSSD,
   requestGetCLIR |-> requestGetCLIR, requestSetCLIR |-> requestSetCLIR,
   requestCallForward |-> requestCallForward,
   requestQueryCallForwardStatus |-> requestQueryCallForwardStatus,
   requestSetCallForward |-> requestSetCallForward,
   requestQueryCallWaiting |-> requestQueryCallWaiting,
   requestSetCallWaiting |-> requestSetCallWaiting,
   requestSetSuppSvcNotification |-> requestSetSuppSvcNotification,
   requestSetNetworkSelectionAutomatic |-> requestSetNetworkSelectionAutomatic,
   requestSetNetworkSelectionManual |-> requestSetNetworkSelectionManual,
   requestSetPreferredNetworkType |-> requestSetPreferredNetworkType,
   reportSignalStrength |-> reportSignalStrength,
   requestSignalStrength |-> requestSignalStrength,
   requestQueryAvailableNetworks |-> requestQueryAvailableNetworks,
   requestQueryNetworkSelectionMode |-> requestQueryNetworkSelectionMode,
   getNetworkType |-> getNetworkType,
   requestRegistrationStateSub |-> requestRegistrationStateSub,
   requestVoiceRegistrationState |-> requestVoiceRegistrationState,
   requestDataRegistrationState |-> requestDataRegistrationState,
   requestOperator |-> requestOperator, getZmdsValue |-> getZmdsValue,
   requestGetPreferredNetworkType |-> requestGetPreferredNetworkType,
   requestSetFacilityLock |-> requestSetFacilityLock,
   requestQueryFacilityLock |-> requestQueryFacilityLock,
   requestCDMASubScription |-> requestCDMASubScription, getRadioPower |-> getRadioPower,
   setRadioState |-> setRadioState, requestRadioPower |-> requestRadioPower,
   onSIMReady |-> onSIMReady, getSIMStatus |-> getSIMStatus, getSIMStatus2 |-> getSIMStatus2,
   pollSIMState |-> pollSIMState, requestGetSimStatus |-> requestGetSimStatus,
   filterSimStatus |-> filterSimStatus,
   requestSimIo |-> requestSimIo, requestEnterSimPin |-> requestEnterSimPin,
   get_phone_book |-> get_phone_book, set_phone_book |-> set_phone_book,
   sim_io_hook |-> sim_io_hook, reportDataCallList |-> reportDataCallList,
   requestDataCallList |-> requestDataCallList, dc_thread |-> dc_thread,
   requestSetupDataCall |-> requestSetupDataCall,
   requestDeactivateDataCall |-> requestDeactivateDataCall,
   requestLastDataCallFailCause |-> requestLastDataCallFailCause,
   requestScreenState |-> requestScreenState, requestGetIMEI_MG3732 |-> requestGetIMEI_MG3732,
   requestSetNetworkSelectionAutomaticW218 |-> requestSetNetworkSelectionAutomaticW218,
   getClvlValue |-> getClvlValue, requestSetAudioPath_MG3732 |-> requestSetAudioPath_MG3732,
   requestSetVoiceVolume_MG3732 |-> requestSetVoiceVolume_MG3732,
   requestSendSMS_FR900 |-> requestSendSMS_FR900,
   requestGetSimStatus_DM6200 |-> requestGetSimStatus_DM6200,
   requestSetAudioPath_MH400B |-> requestSetAudioPath_MH400B,
   requestSetVoiceVolume_MH400B |-> requestSetVoiceVolume_MH400B,
   requestRadioPower_MH400B |-> requestRadioPower_MH400B,
   requestSetPreferredNetworkType_MH400B |-> requestSetPreferredNetworkType_MH400B,
   requestSetNetworkSelectionManual_MH400B |-> requestSetNetworkSelectionManual_MH400B,
   getNetworkTypeOld |-> getNetworkTypeOld, getNetworkType_MH400B |-> getNetworkType_MH400B,
   requestRegistrationStateSub_MH400B |-> requestRegistrationStateSub_MH400B,
   requestRegistrationState_MH400B |-> requestRegistrationState_MH400B,
   requestQueryAvailableNetworks_MH400B |-> requestQueryAvailableNetworks_MH400B]
=============================================================================

SPECIFICATION Spec
CONSTANTS
  MAX_AT_RESPONSE = 7
  Sendable = {"OK", "sms", "notice", "prompt", "ussd", "long"}
  MaxMessages = 3
  MaxOpens = 2
  Requests = {"RADIO_POWER"}
  Prefixes = {"+CMT:", "+CUSD:"}
  NoKey = NoKey
  NoHandler = NoHandler
  HandlerNames <- SomeHandlers
  MH400B = MH400B
  MG3732 = MG3732
  Stick = Stick
  NoModem = NoModem
  VID_PID_GENERIC = VID_PID_GENERIC
  Modems = {MH400B, MG3732}
  Devices = {MH400B, Stick}
  RequestItems <- SomeRequests
  UnsolicitedItems <- SomeUnsolicited
  RIL_MAX_REQUEST = 2
  RIL_MAX_UNSOLICITED = 2
  MAX_SUPPORT_MODEM = 2
INVARIANTS
  TypeOK
  OverrideWins
  
  LinesAsSent
  OnceInOrder
  PduOfItsHeader
CHECK_DEADLOCK FALSE

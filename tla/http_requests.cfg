\* Every request of AllRequests, alone on its connection, cut anywhere.
SPECIFICATION FairSpec
CONSTANTS
  HTTP_MAX_HEADER_SIZE = 45
  ULLONG_MAX = 127
  Requests <- AllRequests
  MaxRequests = 1
  BufSize = 80
  Refused = Refused
  Unspecified = Unspecified
INVARIANTS ParserAssertsHold CutsDoNotMatter DeliveredAsSent
PROPERTY RequestHandled
CHECK_DEADLOCK FALSE

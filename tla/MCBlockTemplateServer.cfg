\* Long polls, the cache and proposals.
SPECIFICATION Spec
CONSTANTS
  a = a
  b = b
  coinbasevalue = coinbasevalue
  client1 = client1
  client2 = client2
  None = None
  Clients = {client1, client2}
  Tips = {a, b}
  FirstTip = a
  Target <- SameTarget
  HasCache = TRUE
  CacheLifetime = 1
  LongPollTimeout = 2
  MaxNow = 3
  MaxTips = 2
  MaxTxChanges = 1
  MaxRequests = 2
  Kinds = {coinbasevalue}
  Blocks <- Proposals
INVARIANTS
  ServedOnTip
  ServedFresh
  PollRefreshes
  AcceptedByBoth
PROPERTIES
  RequestsEnd
CHECK_DEADLOCK FALSE

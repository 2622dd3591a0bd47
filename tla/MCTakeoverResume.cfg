\* A client resumes its session while its previous connection is still open.
CONSTANTS
  MaxSessions = 2
  MaxInflight = 0
  GenMax = 1
  PidMax = 1
  RefMax = 2
  MaxRetries = 0
  Msgs = {m1}
  NoMsg = NoMsg
  t1 = t1
  Conns = {c1, c2}
  Clients = {A}
  Topics = {t1}
  CommandTopics = {}
  QoSLevels = {0}
  Wills = {}
  Sizes = {"small"}
  Retains = {"none"}
  Storables = {TRUE}
  MaxSubs = 1
  OutboxDepth = 1
  MaxOutboxDrops = 1
  DropsCap = 1
  MaxRetained = 1
  InboundN = 1
  Takeover = TRUE
  OneExecutor = TRUE
  NoConn = NoConn
  NoClient = NoClient
  NoLwt = NoLwt
SPECIFICATION BrokerSpec
INVARIANT OwnerKeepsSession

\* The TLS build's shape (no inflight tracking): connections, wills, wake-ups.
CONSTANTS
  MaxSessions = 2
  MaxInflight = 0
  GenMax = 1
  PidMax = 1
  RefMax = 2
  MaxRetries = 0
  Msgs = {m1}
  NoMsg = NoMsg
  t1 = t1
  Conns = {c1, c2}
  Clients = {A, B}
  Topics = {t1}
  CommandTopics = {}
  QoSLevels = {0}
  Wills <- PlainWills
  Sizes = {"small"}
  Retains = {"none"}
  Storables = {TRUE}
  MaxSubs = 1
  OutboxDepth = 2
  MaxOutboxDrops = 2
  DropsCap = 2
  MaxRetained = 1
  InboundN = 1
  Takeover = FALSE
  OneExecutor = FALSE
  NoConn = NoConn
  NoClient = NoClient
  NoLwt = NoLwt
SYMMETRY ConnSymmetry
SPECIFICATION BrokerSpec
INVARIANT BrokerTypeOK
INVARIANT OwnerKeepsSession
INVARIANT NoLostWakeup
PROPERTY OthersOnlyAdd

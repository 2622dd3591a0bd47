\* QoS 1 with retries, one inflight entry per session: the mutex is held
\* across retry writes, and clients dial again while still connected.
CONSTANTS
  MaxSessions = 2
  MaxInflight = 1
  GenMax = 1
  PidMax = 1
  RefMax = 2
  MaxRetries = 1
  Msgs = {m1}
  NoMsg = NoMsg
  t1 = t1
  Conns = {c1, c2}
  Clients = {A, B}
  Topics = {t1}
  CommandTopics = {}
  QoSLevels = {1}
  Wills = {}
  Sizes = {"small"}
  Retains = {"none"}
  Storables = {TRUE, FALSE}
  MaxSubs = 1
  OutboxDepth = 1
  MaxOutboxDrops = 0
  DropsCap = 0
  MaxRetained = 0
  InboundN = 1
  Takeover = TRUE
  OneExecutor = FALSE
  NoConn = NoConn
  NoClient = NoClient
  NoLwt = NoLwt
SYMMETRY ConnSymmetry
VIEW NoHistory
SPECIFICATION BrokerSpec
INVARIANT OneSessionPerClient
INVARIANT RetryHoldsEntry
PROPERTY PsSpec

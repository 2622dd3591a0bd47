\* Progress of the connection loops under the executor's fairness.  Publishes
\* meet every limit: full retained store, frames that do not fit, full command
\* channel.
CONSTANTS
  MaxSessions = 2
  MaxInflight = 0
  GenMax = 1
  PidMax = 1
  RefMax = 2
  MaxRetries = 0
  Msgs = {m1}
  NoMsg = NoMsg
  t1 = t1
  Conns = {c1, c2}
  Clients = {A, B}
  Topics = {t1}
  CommandTopics = {t1}
  QoSLevels = {0}
  Wills = {}
  Sizes = {"small", "large"}
  Retains = {"none", "set", "clear"}
  Storables = {TRUE}
  MaxSubs = 1
  OutboxDepth = 1
  MaxOutboxDrops = 1
  DropsCap = 1
  MaxRetained = 0
  InboundN = 1
  Takeover = FALSE
  OneExecutor = FALSE
  NoConn = NoConn
  NoClient = NoClient
  NoLwt = NoLwt
SPECIFICATION FairBrokerSpec
PROPERTY OutboxServed
PROPERTY QuarantineActsWhenDrained

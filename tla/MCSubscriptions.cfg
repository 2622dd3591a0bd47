SPECIFICATION SubsSpec
CONSTANTS
  v = v
  w = w
  x = x
  Topics <- MCTopics
  ProbeTopics <- MCProbeTopics
  Requests <- MCRequests
  LongFilters = {}
  PlusLevels <- MCPlusLevels
  HashLevels <- MCHashLevels
  DollarLevels = {"$s"}
  Payloads <- MCPayloads
  MaxPacket = 2
  MaxSubs = 2
  MaxRetained = 2
  Depth = 1
  Publishes <- MCPublishes
  Dying = {d}
  Wills <- MCWills
  OneExecutor = FALSE
SYMMETRY MCSymmetry
INVARIANT SubscriberCurrent
INVARIANT AnswerMatchesTable
INVARIANT TableMatchesExactly

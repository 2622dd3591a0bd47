\* Half-second ticks: keepalive 2 s with 1 s of grace, retries after 1.5 s.
CONSTANTS
  TicksPerSec = 2
  KeepAlives = {0, 2}
  Roles = {{"publish"}, {"subscribe"}}
  RetryTicks = 3
  MaxRetries = 1
  MaxInflight = 2
  Depth = 1
  MaxWait = 9
  Capacity = 1
  Rate = 1
  MaxViolations = 2
  U8Max = 3
  MaxBusy = 2
  Horizon = 7
CHECK_DEADLOCK FALSE
SPECIFICATION FairTimers
INVARIANT NeverOversleeps
INVARIANT PoliteClientStays
INVARIANT AdmissionBound
PROPERTY SilentClientEnds

\* Two sessions with two slots: publishes are shared or not, slots are reused,
\* generations wrap while handles of the previous round are still held, and
\* with one packet id all entries of a session collide.
CONSTANTS
  MaxSessions = 2
  MaxInflight = 2
  GenMax = 3
  PidMax = 1
  RefMax = 2
  MaxRetries = 2
  Msgs = {m1, m2}
  NoMsg = NoMsg
SYMMETRY MsgSymmetry
SPECIFICATION PsSpec
INVARIANT RetryResendsOriginal
INVARIANT RefcountExact
INVARIANT StoreFillsFirst
PROPERTY PrivateCopies

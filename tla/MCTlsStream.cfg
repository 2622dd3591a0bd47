\* Packets of two bytes in records of none to three; wake-ups drop reads at any
\* point.
CONSTANTS
  PacketLen = 2
  MaxRecords = 5
  Payloads = {0, 1, 2, 3}
CHECK_DEADLOCK FALSE
SPECIFICATION FairStreamSpec
INVARIANT PacketsIntact
INVARIANT OrderKept
INVARIANT EofIsReal
PROPERTY PacketsDelivered

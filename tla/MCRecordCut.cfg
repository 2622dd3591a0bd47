\* A wake-up drops a read that has consumed a record header.
CONSTANTS
  PacketLen = 2
  MaxRecords = 6
  Payloads = {1}
CHECK_DEADLOCK FALSE
SPECIFICATION StreamSpec
INVARIANT RecordWhole

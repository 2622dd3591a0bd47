\* Three frames of one to four bytes, in records of up to two, through a buffer
\* that is as large as a full record.
CONSTANTS
  FrameLens = {1, 3, 4}
  MaxFrames = 3
  MaxChunk = 2
  SendBuf = 3
CHECK_DEADLOCK FALSE
SPECIFICATION FairSendSpec
INVARIANT PeerReadsPrefix
INVARIANT OkMeansSent
INVARIANT NotifiedMeansComplete
INVARIANT EndsClosed
PROPERTY WorkerReturns

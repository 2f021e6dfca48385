SPECIFICATION Spec
CONSTANTS
  Uploads <- MCUploads
  Digests <- MCDigests
  Content <- MCContent
  Requests <- MCRequests
  Session <- MCSession
  Keys <- MCKeys
  NoKey = "nokey"
  KeyOf <- MCKeyOf
  None = "none"
  Overlap = FALSE
  Retried <- MCRetried
  MaxCrashes = 1
INVARIANTS
  TypeOK
  BytesBehindRecords
  CommittedIsKept
  AcknowledgedBytesAreKept
  NothingHalfDone
PROPERTIES
  EveryRequestIsAnswered
CHECK_DEADLOCK FALSE

SPECIFICATION Spec
CONSTANTS
  Uploads <- MCUploads
  Digests <- MCDigests
  Content <- MCContent
  Requests <- MCRequests
  Session <- MCSession
  Keys <- MCKeys
  NoKey = "nokey"
  KeyOf <- MCKeyOf
  None = "none"
  Overlap = TRUE
  Retried <- MCRetried
  MaxCrashes = 0
INVARIANTS
  CommittedIsKept
CHECK_DEADLOCK FALSE

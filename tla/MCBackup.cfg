SPECIFICATION BackupSpec
CONSTANTS
  Uploads <- MCUploads
  Digests <- MCDigests
  Content <- MCContent
  Requests <- MCRequests
  Session <- MCSession
  Keys = {}
  NoKey = "nokey"
  KeyOf <- MCKeyOf
  None = "none"
  Overlap = FALSE
  Retried = {}
  MaxCrashes = 1
INVARIANTS
  BackupTypeOK
  BackupIsConsistent
  VerifiedIsWhole
CHECK_DEADLOCK FALSE

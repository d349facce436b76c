SPECIFICATION Spec
CONSTANTS
  n1 = n1
  n2 = n2
  u1 = u1
  s1 = s1
  NoHandle = NoHandle
  NetHandle = {n1, n2}
  UriHandle = {}
  SyncHandle = {}
  Kinds = {"http", "file"}
  Challenge = {n1}
  Answers = {"ok"}
  Removable = TRUE
  Finalizable = TRUE
  MaxConcurrent = 2
  MaxWaits = 1
  MaxChallenged = 1
CHECK_DEADLOCK FALSE
INVARIANT NoRemovedHandlerUsed
INVARIANT ShutdownPromise
INVARIANT CondemnedSeen

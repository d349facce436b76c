SPECIFICATION Spec
CONSTANTS
  n1 = n1
  n2 = n2
  u1 = u1
  s1 = s1
  NoHandle = NoHandle
  NetHandle = {n1}
  UriHandle = {}
  SyncHandle = {}
  Kinds = {"http", "cache"}
  Challenge = {}
  Answers = {"ok"}
  Removable = TRUE
  Finalizable = FALSE
  MaxConcurrent = 1
  MaxWaits = 0
  MaxChallenged = 0
CHECK_DEADLOCK FALSE
INVARIANT NoRemovedHandlerUsed

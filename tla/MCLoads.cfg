SPECIFICATION Spec
CONSTANTS
  n1 = n1
  n2 = n2
  u1 = u1
  s1 = s1
  NoHandle = NoHandle
  NetHandle = {n1, n2}
  UriHandle = {u1}
  SyncHandle = {}
  Kinds = {"http", "file"}
  Challenge = {n1, n2}
  Answers = {"ok", "cancel"}
  Removable = FALSE
  Finalizable = FALSE
  MaxConcurrent = 1
  MaxWaits = 0
  MaxChallenged = 2
CHECK_DEADLOCK FALSE
INVARIANT AsyncLimit
INVARIANT RefsMatchOwners
INVARIANT TimerArmed
INVARIANT NoOrphanedLoader
PROPERTY ImplementsService

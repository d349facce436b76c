SPECIFICATION Spec
CONSTANTS
  n1 = n1
  n2 = n2
  u1 = u1
  s1 = s1
  NoHandle = NoHandle
  NetHandle = {n1}
  UriHandle = {u1}
  SyncHandle = {}
  Kinds = {"file"}
  Challenge = {}
  Answers = {"ok"}
  Removable = FALSE
  Finalizable = FALSE
  MaxConcurrent = 1
  MaxWaits = 0
  MaxChallenged = 0
CHECK_DEADLOCK FALSE
PROPERTY NoCallAfterRelease

SPECIFICATION FairSpec
CONSTANTS
  t1 = t1
  t2 = t2
  Timer = {t1, t2}
  NoTimer = NoTimer
  Waits = {0, 2}
  Repeats = {0, 1}
  Span = 16
  Capacity = 2
  Cap = 1
  Rate = 2
  Safety = 2
  MaxTime = 4
  MaxCalls = 3
INVARIANT TypeOK
INVARIANT FirstTimerCovered
PROPERTY FiresInOrder
PROPERTY ImplementsTimers
PROPERTY TimersFire

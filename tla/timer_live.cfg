\* Two timers, so that one can hide the other, and the shortest times.
SPECIFICATION FairSpec
CONSTANTS
  Owners = {o1}
  SharedOwner = shared
  Clients = {c1}
  MinId = 0
  MaxId = 2
  StartId = 1
  Intervals = {1}
  Counts <- OneOrForever
  CountMod = 3
  IdleWait = 2
  MaxLate = 1
  Quiesced = TRUE
PROPERTIES
  DueTimerFires
  ReleasedTimersGo
  DestroyTerminates

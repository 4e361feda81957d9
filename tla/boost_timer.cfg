\* Two timers, so that one can hide the other, callbacks that outlast a period,
\* and timers that are due again at once.
SPECIFICATION FairBoostSpec
CONSTANTS
  Owners = {o1}
  SharedOwner = shared
  Clients = {c1}
  MinId = 0
  MaxId = 2
  StartId = 1
  Intervals = {0, 1}
  Counts <- TwiceOrForever
  CountMod = 2
  IdleWait = 2
  MaxLate = 2
  Quiesced = TRUE
INVARIANTS
  BoostTypeOK
  NoLostWakeup
PROPERTIES
  NoBacklog
  KeepsFiring

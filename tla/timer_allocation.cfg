\* Two automatic ids: all of them are taken, then one is given back.
SPECIFICATION Spec
CONSTANTS
  Owners = {o1}
  SharedOwner = shared
  Clients = {c1}
  MinId = 0
  MaxId = 2
  StartId = 1
  Intervals = {1}
  Counts <- OneOrForever
  CountMod = 3
  IdleWait = 2
  MaxLate = 1
  Quiesced = TRUE
INVARIANT
  RefusesOnlyWhenFull

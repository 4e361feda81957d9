\* A call is in progress when the timer is destroyed.
SPECIFICATION FairSpec
CONSTANTS
  Owners = {o1}
  SharedOwner = shared
  Clients = {c1}
  MinId = 0
  MaxId = 1
  StartId = 1
  Intervals = {1}
  Counts <- OneOrForever
  CountMod = 3
  IdleWait = 2
  MaxLate = 1
  Quiesced = FALSE
PROPERTY
  DestroyTerminates

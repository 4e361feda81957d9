\* One owner, one client, one user id, two automatic ids, and callbacks that
\* outlast two periods.
SPECIFICATION Spec
CONSTANTS
  Owners = {o1}
  SharedOwner = shared
  Clients = {c1}
  MinId = 0
  MaxId = 3
  StartId = 2
  Intervals = {1}
  Counts <- OneOrForever
  CountMod = 3
  IdleWait = 2
  MaxLate = 2
  Quiesced = TRUE
INVARIANTS
  TypeOK
  SafeDeref
  CalledOwnerWasAlive
  NoLostWakeup
PROPERTY
  NoDueTimerSkipped

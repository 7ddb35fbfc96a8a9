SPECIFICATION FairSpec
CONSTANTS
  Tasks = {t1, t2, t3}
  Catchers = {t2}
  Owner = Owner
  null = null
  noop = noop
  MaxAwaits = 2
INVARIANTS
  TypeOK
  LoopTargetReady
  NoLostWakeup
  ContinuationsFollowAwaits
  NoOrphans
PROPERTIES
  AwaitIsACall
  ControlReturns
  StartedEnds

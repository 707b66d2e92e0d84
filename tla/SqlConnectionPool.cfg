SPECIFICATION FairPoolSpec
CONSTANTS
  Threads = {c, t1, t2, t3}
  Items = {x, y, z}
  Nothing = nothing
  Sizes = {1, 2}
  Closer = c
  MaxUses = 4
CHECK_DEADLOCK FALSE
INVARIANTS
  QueueIsExact
  NoWaiterIsForgotten
PROPERTIES
  PoolIsLive

\* Three callers on two connections: the third waits for the pool, the second for
\* the lock, and a backend whose client is gone may hold either.
CONSTANTS
  Clients = {c1, c2, c3}
  Backends = {b1, b2}
  NoBackend = NoBackend
  PoolSize = 2
  Bodies = {m1}
  MaxEvents = 3
SPECIFICATION FairSpec
PROPERTY EveryCallEnds
\* When the ids are used up and no call is in progress the callers stop.
CHECK_DEADLOCK FALSE

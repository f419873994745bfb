\* Three concurrent callers on a pool of two connections and
\* three backends, orphans included; four events.
CONSTANTS
  Clients = {c1, c2, c3}
  Backends = {b1, b2, b3}
  NoBackend = NoBackend
  PoolSize = 2
  Bodies = {m1}
  MaxEvents = 4
SPECIFICATION Spec
SYMMETRY Symmetry
INVARIANTS IInv ChainIntact AckedIsRecorded OneWriter
PROPERTY ImplementsLedger
\* When the ids are used up and no call is in progress the callers stop.
CHECK_DEADLOCK FALSE

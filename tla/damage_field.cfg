\* The claim of docs/adr/0004 on changed fields: two events, one damage.
CONSTANTS
  Bodies = {m1}
  Texts = {}
  MaxEvents = 2
  MaxDamage = 1
  MaxSequence = 3
SPECIFICATION Spec
INVARIANT TamperingDetected
\* The appends and the damages are used up.
CHECK_DEADLOCK FALSE

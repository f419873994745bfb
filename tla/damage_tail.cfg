\* The claim of docs/adr/0004 on deleted rows: three events, one damage.
CONSTANTS
  Bodies = {m1}
  Texts = {}
  MaxEvents = 3
  MaxSequence = 3
  MaxDamage = 1
SPECIFICATION Spec
INVARIANT DeletionDetected
\* The appends and the damages are used up.
CHECK_DEADLOCK FALSE

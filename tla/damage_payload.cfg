\* Appends only, one of the payloads a string: two events, no damage.
CONSTANTS
  Bodies = {m1, t1}
  Texts = {t1}
  MaxEvents = 2
  MaxSequence = 3
  MaxDamage = 0
SPECIFICATION Spec
INVARIANT AppendedIsValid
\* The appends are used up.
CHECK_DEADLOCK FALSE

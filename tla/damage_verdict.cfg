\* Up to three events of two kinds under the sequence numbers 0 to 3, and up to three
\* damages, in every order.
CONSTANTS
  Bodies = {m1, m2}
  Texts = {}
  MaxEvents = 3
  MaxDamage = 3
  MaxSequence = 3
SPECIFICATION Spec
INVARIANTS TypeOK ValidMeansGenuine InvalidMeansDamaged
\* The appends and the damages are used up.
CHECK_DEADLOCK FALSE

\* One caller against a ledger of two rows that may be damaged once, with one
\* transaction and every mismatch of request, sidecar and ledger event; and two
\* callers that race for the same digest with three transactions, foreign ones
\* included.
CONSTANTS
  Callers = {w1, w2}
  EvidenceIds = {e1, e2}
  Digests = {d0, d1}
  ZeroDigest = d0
  Keys = {k1, k2}
  TrustedKeys = {k1}
  MaxEvents = 2
  MaxDamage = 1
  MaxSequence = 2
  MaxTxs = 3
SPECIFICATION MCSpec
SYMMETRY Symmetry
INVARIANTS TypeOK SentIsBacked OneResultPerDigest
PROPERTY ImplementsWriteOnce
\* The transactions and ledger rows are used up.
CHECK_DEADLOCK FALSE

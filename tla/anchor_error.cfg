\* The claim of AnchorTransactionError's message: one caller, two transactions.
CONSTANTS
  Callers = {w1}
  EvidenceIds = {e1}
  Digests = {d0, d1}
  ZeroDigest = d0
  Keys = {k1}
  TrustedKeys = {k1}
  MaxEvents = 1
  MaxDamage = 0
  MaxSequence = 1
  MaxTxs = 2
SPECIFICATION Spec
INVARIANT AnchorErrorMeansNotAnchored
\* The transactions and ledger rows are used up.
CHECK_DEADLOCK FALSE

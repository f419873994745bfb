\* Components of two bytes below 32.
CONSTANTS
  Base = 32
  Width = 2
  SeqTag = 12
  IntTag = 2
  Contents <- ContentsOf
  Error = Error
SPECIFICATION DerSpec
INVARIANTS StoredAreTheNumbers VerifySendsTheSignature
\* The signature has been used.
CHECK_DEADLOCK FALSE

\* Either provider, two calls at a time, three in all, keys of two curves.
CONSTANTS
  None = None
  Malformed = Malformed
  Alias = Alias
  p1 = p1
  p2 = p2
  k1 = k1
  k2 = k2
  n1 = n1
  e1 = e1
  big = big
  Procs = {p1, p2}
  Providers = {"kms", "local"}
  Keys = {k1, k2, n1}
  Secp256k1 = {k1, k2}
  Evidences = {e1, big}
  TooLarge = {big}
  MaxCalls = 3
SPECIFICATION Spec
SYMMETRY Symmetry
INVARIANTS TypeOK SignerIsOnRecord VerdictIsRecorded

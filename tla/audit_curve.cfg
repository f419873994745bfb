\* One call, the alias moves to a key of another curve.
CONSTANTS
  None = None
  Malformed = Malformed
  Alias = Alias
  p1 = p1
  p2 = p2
  k1 = k1
  k2 = k2
  n1 = n1
  e1 = e1
  big = big
  Procs = {p1}
  Providers = {"kms"}
  Keys = {k1, k2, n1}
  Secp256k1 = {k1, k2}
  Evidences = {e1, big}
  TooLarge = {big}
  MaxCalls = 2
SPECIFICATION Spec
INVARIANT SignedOnTheCurve

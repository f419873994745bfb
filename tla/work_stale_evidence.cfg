\* Bootstrap, work, one gate, a failed verification.
CONSTANTS
  None = None
  Absent = Absent
  Torn = Torn
  c1 = c1
  p1 = p1
  p2 = p2
  plain = plain
  kms = kms
  plainEntry = plainEntry
  kmsEntry = kmsEntry
  libEntry = libEntry
  Packs = {c1}
  Paths = {plain, kms}
  Entries = {plainEntry, kmsEntry, libEntry}
  Matches <- MatchesOf
  Sensitive = {kms, kmsEntry}
  Governed = {}
  Procs = {p1}
  Settings <- Retries
  Identities = {"r"}
  MaxRetries = 1
SPECIFICATION Spec
INVARIANT RecordedResultIsCurrent

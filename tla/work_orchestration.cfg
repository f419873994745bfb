\* Two bootstraps and the commands that overwrite, disk errors and crashes; or one
\* gate at a time while what it reads is replaced and committed to.
CONSTANTS
  None = None
  Absent = Absent
  Torn = Torn
  c1 = c1
  p1 = p1
  p2 = p2
  plain = plain
  kms = kms
  plainEntry = plainEntry
  kmsEntry = kmsEntry
  libEntry = libEntry
  Packs = {c1}
  Paths = {plain, kms}
  Entries = {plainEntry, kmsEntry, libEntry}
  Matches <- MatchesOf
  Sensitive = {kms, kmsEntry}
  Governed = {}
  Procs = {p1, p2}
  Settings <- Both
  Identities = {"b", "r"}
  MaxRetries = 0
SPECIFICATION Spec
SYMMETRY Symmetry
INVARIANTS TypeOK BootstrappedIsWhole StatusMatchesCommands EvidenceIsIndependent

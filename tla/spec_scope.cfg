\* One scaffold command, one Context Pack, three files to change.
CONSTANTS
  Absent = Absent
  c1 = c1
  c2 = c2
  p1 = p1
  p2 = p2
  plain = plain
  kms = kms
  learning = learning
  plainEntry = plainEntry
  libEntry = libEntry
  Packs = {c1}
  Scaffolders = {p1}
  Paths = {plain, kms, learning}
  Entries = {plainEntry, libEntry}
  Matches <- MatchesOf
  Sensitive = {kms}
  Governed = {learning}
  Revisions <- RevisionsOf
SPECIFICATION FlowSpec
INVARIANTS EveryChangeIsInScope ScopeIsTheReviewedOne

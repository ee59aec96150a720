SPECIFICATION Spec
CONSTANTS
  KeyCount = 3
  Reports = {p, q}
  Readers = {r}
INVARIANTS
  OnlyUnscannedMissed
  EvidenceKept
PROPERTIES
  ActsAtomically

SPECIFICATION Spec
CONSTANTS
  a = a
  b = b
  Terms = {1, 2}
  Candidates = {a, b}
  NotFound = NotFound
  TxnLimit = 2
  Trailing = 1
  LongSuffixes = FALSE
  Start = 253
  MaxIndex = 257
CHECK_DEADLOCK FALSE
SYMMETRY Symmetry
INVARIANTS TypeOK Restartable AckedKept OneVotePerTerm

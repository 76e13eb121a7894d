CONSTANTS
  h1 = h1
  h2 = h2
  None = None
  Handles <- MCHandles
  MaxWrites = 3
  MaxTransactions = 4
SPECIFICATION Spec
SYMMETRY HandleSymmetry
INVARIANTS WritesBuildOnTheRow UnpinnedReadsAreCommitted
\* Reading and leasing always remain possible: deadlock is checked.

CONSTANTS
  h1 = h1
  h2 = h2
  None = None
  Handles <- MCHandles
  MaxWrites = 2
  MaxTransactions = 2
SPECIFICATION Spec
INVARIANTS PinnedReadsAreOfTheSnapshot

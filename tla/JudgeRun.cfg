\* Two processes, two items with two attempts each, one retryable error.
CONSTANTS
  Process = {p1, p2}
  ItemCount = 2
  MaxAttempts = 2
  Code = {"parse_error"}
  Retryable = {"parse_error"}
  MaxFaults = 1
  MaxIntents = 2
  None = None
SYMMETRY Symmetry
SPECIFICATION Spec
INVARIANTS NoRequestSentTwice ItemsInOrder EvidenceAgrees OpensUnlessTorn
PROPERTIES ImplementsLedger
\* A run that is over stops, and so does one whose directory cannot be opened.
CHECK_DEADLOCK FALSE

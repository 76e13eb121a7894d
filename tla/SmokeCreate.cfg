\* Two processes, one prompt on each side of the stop, one removal of an archive.
CONSTANTS
  Operator = {p1, p2}
  Early = 1
  Prompts = 2
  Diagnostics = 1
  Stops = {"s"}
  MaxRemovals = 1
  Nothing = Nothing
SPECIFICATION SmokeSpec
INVARIANT PromptsSentOnce
CHECK_DEADLOCK FALSE

SPECIFICATION Spec
CONSTANTS
  Outlines <- MCOutlines
  Matches <- MCMatches
  MaxAND = 3
  MaxNOT = 1
INVARIANTS ResultsMatch SignsRight CountsWithoutStar
\* A search has a last pattern.
CHECK_DEADLOCK FALSE

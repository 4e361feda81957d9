\* Two AND patterns, the second of which may be inherited.
SPECIFICATION Spec
CONSTANTS
  Outlines <- MCOutlines
  Matches <- MCMatches
  MaxAND = 2
  MaxNOT = 0
INVARIANT CountsAllMatches
\* A search has a last pattern.
CHECK_DEADLOCK FALSE

SPECIFICATION MCSpec
CONSTANTS
  Outlines <- MCOutlines
  Chars <- MCChars
  Tails <- MCTails
  MaxSteps = 1
INVARIANTS MarksTypeOK MarksTellSaved
PROPERTIES OneStartupNode SaveKeepsFolds SavedFoldsReturn
\* The bound on steps ends a behaviour.
CHECK_DEADLOCK FALSE

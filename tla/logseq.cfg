\* Words of four bits, two of them or (count_bits too large) none for the
\* count: with two, three labels find a place, the fourth does not, and a count
\* is exhausted at 3.
SPECIFICATION Spec
CONSTANTS
  Names = {aa, bb, cc, dd}
  HistorySize = 3
  CountBits = {2, 4}
  WordBits = 4
  NoValue = none
  MaxMarks = 7
INVARIANTS
  TypeOK
  EntriesHaveLabels
  HistoryTellsTrace

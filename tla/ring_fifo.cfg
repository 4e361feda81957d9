\* Two rings of two slots; undefined behaviour ends the model, hence no
\* deadlock check.
SPECIFICATION Spec
CONSTANTS
  Values = {a, b}
  Default = a
  BufferLength = 2
  BufferCount = 2
  DefaultStrategy = "ERROR"
  Indices <- AllIndices
  NoValue = none
INVARIANTS
  TypeOK
  EndsAgree
PROPERTY
  RefinesQueue
CHECK_DEADLOCK FALSE

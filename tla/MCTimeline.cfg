SPECIFICATION Spec
CONSTANTS
  Graphs <- MCGraphs
INVARIANTS
  Canonical
  TipsAreLast
  ViewFollows

CONSTANTS
  Byte <- MCByte
  Topic <- MCTopic
  Data <- MCData
  MaxRefs = 2
SPECIFICATION Spec
INVARIANT TableExact
PROPERTY ResultReportsEdge

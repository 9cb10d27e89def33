CONSTANTS
  p1 = p1
  p2 = p2
  q1 = q1
  q2 = q2
  q3 = q3
  Push = {p1, p2}
  Pull = {q1, q2, q3}
  NoFrame = NoFrame
  Setups <- Working
  MaxParts = 3
  MaxQueue = 2
  Tags = 2
  Wrap = 6
SPECIFICATION FairSpec
INVARIANTS
  PlainlyBalanced
  BelowHwm
  WholeBetweenTwo
PROPERTY SendGetsThrough

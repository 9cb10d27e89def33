CONSTANTS
  Req = {r1, r2}
  Rep = Rep
  NoReq = NoReq
  Relaxed = FALSE
  Leaves = TRUE
  Hwm = 2
  MaxParts = 2
  Tags = 2
SPECIFICATION FairSpec
INVARIANTS
  OneOutstanding
  LatestAnswered
  TracedBack
PROPERTY EveryRequestAnswered

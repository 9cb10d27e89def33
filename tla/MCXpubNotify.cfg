CONSTANTS
  x1 = x1
  x2 = x2
  t1 = t1
  t2 = t2
  Xsub = {x1, x2}
  Topic = {t1, t2}
  Xpub = Xpub
  Nobody = Nobody
  Setups <- Working
  MaxSubs = 2
SPECIFICATION Spec
INVARIANTS
  TopicMapExact
  EdgesToldOnce
  HeardFromOne

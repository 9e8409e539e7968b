SPECIFICATION Spec
CONSTANTS
  p1 = p1
  p2 = p2
  loop = loop
  func = func
  ret = ret
  t1 = t1
  t2 = t2
  t3 = t3
  Loop = {loop}
  Func = {}
  Ret = {}
  Proto = {p1, p2}
  protoOf <- TwoProtos
  Tr <- Tr3
  Nil = Nil
  Free = Free
  Ops = {"stitch", "throw"}
  maxtrace = 3
  maxside = 1
  minvec = 2
  hotexit = 1
  tryside = 1
  SNAPCOUNT_DONE = 3
  PENALTY_SLOTS = 1
  PENALTY_MAX = 1
  maxmcode = 1
  maxunroll = 1
CHECK_DEADLOCK FALSE
VIEW View
PROPERTY StartsIdle

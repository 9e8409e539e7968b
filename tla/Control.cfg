SPECIFICATION ControlSpec
CONSTANTS
  p1 = p1
  p2 = p2
  loop = loop
  func = func
  ret = ret
  t1 = t1
  t2 = t2
  t3 = t3
  Loop = {loop}
  Func = {}
  Ret = {ret}
  Proto = {p1, p2}
  protoOf <- TwoProtos
  Tr <- Tr2
  Nil = Nil
  Free = Free
  Ops = {"stitch", "downrec"}
  maxtrace = 2
  maxside = 1
  minvec = 2
  hotexit = 1
  tryside = 1
  SNAPCOUNT_DONE = 3
  PENALTY_SLOTS = 1
  PENALTY_MAX = 1
  maxmcode = 1
  maxunroll = 1
  HookEvents = {"call","ret","line"}
  DispOps = {"profile","gc","vmevent","pcall"}
  MaxFrames = 3
  MCSizes = {7,9}
  MaxMCode = 16
  REDZONE = 2
  StubGroups = {0}
  MaxPieces = 2
  MCOps = {"oom","realign"}
  LUA_MINSTACK = 3
  LJ_STACK_MAX = 24
  LJ_STACK_EXTRA = 3
  FrameSizes = {1, 5}
  MaxMarks = 3
  CatchTop = 22
  NARROW_MAX_BACKPROP = 4
  MaxPow = 4
  Families = {"arith","cancel","bits","long","ulong","float","power","check","any","index","bounds"}
CHECK_DEADLOCK FALSE
INVARIANT TableFollowsState
INVARIANT BitsFollowFrames
INVARIANT CodeProtected
INVARIANT CodeInPlace
INVARIANT MCodeAccounted
INVARIANT StackLimits
PROPERTY RecordsWhenOn
PROPERTY RecordingEnds
PROPERTY FoldSound

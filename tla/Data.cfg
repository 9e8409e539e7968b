SPECIFICATION DataSpec
CONSTANTS
  w1 = w1
  w2 = w2
  w3 = w3
  INT_MAX = 7
  IntKeys = {1, 2, 4}
  StrKeys = {w1, w2}
  Reborn = {w1}
  IntHash <- IntHashes
  StrHash <- StrHashes1
  StrHashes = {2}
  TabVals = {1, 2}
  TabNil = nil
  MMName = w1
  NewSizes <- EmptyTab
  LJ_MAX_ABITS = 4
  TabOps = {"next", "clear", "rehash", "tsetm", "dup"}
  Texts = {w1, w2, w3}
  TextHash <- Hashes
  LJ_MIN_STRTAB = 1
  LJ_MAX_STRTAB = 16
  StrSizes = {1, 8}
  StrOOM = TRUE
  MaxStack = 60
  MaxSteps = 300
  MaxLoops = 8
CHECK_DEADLOCK FALSE
INVARIANT TabSound
INVARIANT NoMMSound
INVARIANT LenIsBoundary
INVARIANT TraversalOnce
INVARIANT StrChains
PROPERTY TabImplementsMap
PROPERTY StrTabImplementsSet
PROPERTY CompiledBehaves

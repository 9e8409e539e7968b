SPECIFICATION TabSpec
CONSTANTS
  s1 = s1
  s2 = s2
  s3 = s3
  s4 = s4
  s5 = s5
  INT_MAX = 0
  IntKeys = {}
  StrKeys = {s1, s2, s3, s4, s5}
  Reborn = {s2, s3}
  IntHash <- NoInts
  StrHash <- Colliding
  StrHashes = {5, 6}
  TabVals = {1, 2}
  TabNil = nil
  MMName = s1
  NewSizes <- EightNodes
  LJ_MAX_ABITS = 4
  TabOps = {}
CHECK_DEADLOCK FALSE
INVARIANT ChainsSound

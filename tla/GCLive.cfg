SPECIFICATION FairSpec
CONSTANTS
  m = m
  a = a
  b = b
  c = c
  Obj <- Obj2
  Main = m
  Nil = Nil
  NewKinds <- KLive
  Metas <- MGC
  Ops = {"array", "meta"}
  NSlots = 1
  Base = 1
  MaxEnt = 1
  GCSWEEPMAX = 1
  MaxDepth = 1
PROPERTY CycleEnds
PROPERTY GarbageFreed

SPECIFICATION ApiSpec
CONSTANTS
  m = m
  a = a
  b = b
  c = c
  Obj <- Obj3
  Main = m
  Nil = Nil
  NewKinds <- KFunc
  Metas <- MPlain
  Ops = {"frame"}
  NSlots = 2
  Base = 1
  MaxEnt = 1
  GCSWEEPMAX = 3
  MaxDepth = 0
SYMMETRY Sym3
VIEW View
INVARIANT TriColor

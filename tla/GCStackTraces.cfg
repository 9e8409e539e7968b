SPECIFICATION Spec
CONSTANTS
  m = m
  a = a
  b = b
  c = c
  Obj <- Obj3
  Main = m
  Nil = Nil
  NewKinds <- KFuncTrace
  Metas <- MPlain
  Ops = {"array","frame","base"}
  NSlots = 2
  Base = 1
  MaxEnt = 1
  GCSWEEPMAX = 1
  MaxDepth = 0
SYMMETRY Sym3
VIEW View
INVARIANT TriColor
PROPERTY FreeUnreachable

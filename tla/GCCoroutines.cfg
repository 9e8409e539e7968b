SPECIFICATION Spec
CONSTANTS
  m = m
  a = a
  b = b
  c = c
  Obj <- Obj3
  Main = m
  Nil = Nil
  NewKinds <- KThread
  Metas <- MWeak
  Ops = {"key","array","meta","env","full","stop"}
  NSlots = 1
  Base = 1
  MaxEnt = 1
  GCSWEEPMAX = 3
  MaxDepth = 2
SYMMETRY Sym3
CONSTRAINT ThreadsOrTables
VIEW View
INVARIANT NoDangling
INVARIANT TypeOK
INVARIANT ListsGray
INVARIANT AllWhite
INVARIANT FullIsComplete

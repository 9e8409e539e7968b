SPECIFICATION Spec
CONSTANTS
  m = m
  a = a
  b = b
  c = c
  Obj <- Obj2
  Main = m
  Nil = Nil
  NewKinds <- KTab
  Metas <- MWeakKey
  Ops = {"key", "meta"}
  NSlots = 2
  Base = 2
  MaxEnt = 1
  GCSWEEPMAX = 3
  MaxDepth = 0
SYMMETRY Sym2
VIEW ViewSlots
INVARIANT NoDangling
PROPERTY WeakCleared

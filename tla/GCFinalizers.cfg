SPECIFICATION Spec
CONSTANTS
  m = m
  a = a
  b = b
  c = c
  Obj <- Obj2
  Main = m
  Nil = Nil
  NewKinds <- KWeakVal
  Metas <- MWeakVal
  Ops = {"array", "meta", "full", "intern"}
  NSlots = 2
  Base = 2
  MaxEnt = 1
  GCSWEEPMAX = 3
  MaxDepth = 4
SYMMETRY Sym2
VIEW View
INVARIANT NoDangling
INVARIANT FinalizersDue
PROPERTY FinalizeOnce

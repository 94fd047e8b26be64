SPECIFICATION Spec
CONSTANTS
  Tasks = {p1, p2, p3, p4}
  Free = Free
  Programs <- Catalog
  Capacity <- Machine
SYMMETRY Symmetry
INVARIANTS LayoutIsSound LedgerMatchesLayout
PROPERTY ImplementsMemoryMap

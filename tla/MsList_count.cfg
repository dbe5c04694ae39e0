SPECIFICATION ListSpecification
CONSTANTS
  n1 = n1
  n2 = n2
  n3 = n3
  e1 = e1
  Node <- Nodes
  Root = Root
  NULL = NULL
  Elem <- Elems
  Positions <- Indices
  RemoveDisplaced = TRUE
INVARIANT NbEltCounts
CHECK_DEADLOCK FALSE

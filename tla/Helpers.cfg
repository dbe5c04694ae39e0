SPECIFICATION Spec
CONSTANTS
  n1 = n1
  n2 = n2
  n3 = n3
  e1 = e1
  e2 = e2
  u1 = u1
  u2 = u2
  a1 = a1
  a2 = a2
  a3 = a3
  l1 = l1
  l2 = l2
  l3 = l3
  c1 = c1
  c2 = c2
  s1 = s1
  s2 = s2
  Node <- Nodes
  Root = Root
  NULL = NULL
  Elem <- Elems
  Positions <- Indices
  RemoveDisplaced = FALSE
  User <- Users
  Addr <- Addrs
  Leak <- Leaks
  NoLeak = NoLeak
  Client <- Clients
  Stream <- Streams
  Fd = {1, 2}
  Parent = Parent
  NoChild = NoChild
INVARIANTS
  ListIntact
  RecordsExact
PROPERTIES
  SequenceSpec
  ChildrenReaped
CHECK_DEADLOCK FALSE

CONSTANTS
  n1 = n1
  n2 = n2
  n3 = n3
  n4 = n4
  la = la
  lb = lb
  NULL = NULL
  Nodes <- MCNodes
  Roots <- MCRoots
  LenMod = 5
SPECIFICATION Spec
INVARIANTS TypeOK ListsWellFormed
PROPERTY ImplementsLists

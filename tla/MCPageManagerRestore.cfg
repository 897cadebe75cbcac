\* A client that pushes a page which is in the backstage.
CONSTANTS
  p1 = p1
  p2 = p2
  p3 = p3
  NULL = NULL
  Pool = Pool
  Stack = Stack
  Backstage = Backstage
  Nodes <- MCPair
  Roots <- MCRoots
  LenMod = 4
  HasAppearing <- MCNone
  HasDisappearing <- MCNone
  HasRelease <- MCPair
  Styles <- MCOver
  PushRestores = TRUE
  LoopKeepsUp = TRUE
SPECIFICATION Spec
INVARIANT NeverStops
CHECK_DEADLOCK FALSE

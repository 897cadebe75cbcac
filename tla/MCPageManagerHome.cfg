\* Going home from a second page.
CONSTANTS
  p1 = p1
  p2 = p2
  p3 = p3
  NULL = NULL
  Pool = Pool
  Stack = Stack
  Backstage = Backstage
  Nodes <- MCPair
  Roots <- MCRoots
  LenMod = 4
  HasAppearing <- MCNone
  HasDisappearing <- MCNone
  HasRelease <- MCPair
  Styles <- MCPlain
  PushRestores = FALSE
  LoopKeepsUp = TRUE
SPECIFICATION Spec
PROPERTY HomeShown
CHECK_DEADLOCK FALSE

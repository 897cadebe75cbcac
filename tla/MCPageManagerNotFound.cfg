\* Pushing a page that may not have been registered.
CONSTANTS
  p1 = p1
  p2 = p2
  p3 = p3
  NULL = NULL
  Pool = Pool
  Stack = Stack
  Backstage = Backstage
  Nodes <- MCPair
  Roots <- MCRoots
  LenMod = 4
  HasAppearing <- MCNone
  HasDisappearing <- MCNone
  HasRelease <- MCPair
  Styles <- MCOver
  PushRestores = FALSE
  LoopKeepsUp = TRUE
SPECIFICATION Spec
PROPERTY PushedWhenOk
CHECK_DEADLOCK FALSE

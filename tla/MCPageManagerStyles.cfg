\* Every style, with a page that has both transition callbacks and no onRelease
\* beside one that has onRelease alone, and a screen that may lag behind.  The
\* thread really stops here: where it may is what StopsAsKnown says.
CONSTANTS
  p1 = p1
  p2 = p2
  p3 = p3
  NULL = NULL
  Pool = Pool
  Stack = Stack
  Backstage = Backstage
  Nodes <- MCPair
  Roots <- MCRoots
  LenMod = 4
  HasAppearing <- MCFirst
  HasDisappearing <- MCFirst
  HasRelease <- MCSecond
  Styles <- AllStyles
  PushRestores = FALSE
  LoopKeepsUp = FALSE
SPECIFICATION Spec
INVARIANT OnlyTopShows
PROPERTY StopsAsKnown
CHECK_DEADLOCK FALSE

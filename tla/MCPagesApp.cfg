\* The client as it is; eight values of "len" and four of "count" so that
\* both wrap.
CONSTANTS
  page1 = page1
  page2 = page2
  page3 = page3
  NULL = NULL
  Pool = Pool
  Stack = Stack
  Backstage = Backstage
  Nodes <- MCNodes
  Roots <- MCRoots
  LenMod = 8
  CountMod = 4
  HasAppearing <- MCAppearing
  HasDisappearing <- MCNone
  HasRelease <- MCNodes
  Styles <- MCStyles
  PushRestores = TRUE
  LoopKeepsUp = TRUE
SPECIFICATION AppSpec
INVARIANTS AppTypeOK NeverStops OneClock
PROPERTY Alternates

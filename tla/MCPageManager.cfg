\* Three pages with different callbacks; the styles a page keeps no trace of.
CONSTANTS
  p1 = p1
  p2 = p2
  p3 = p3
  NULL = NULL
  Pool = Pool
  Stack = Stack
  Backstage = Backstage
  Nodes <- MCNodes
  Roots <- MCRoots
  LenMod = 4
  HasAppearing <- MCAppearing
  HasDisappearing <- MCDisappearing
  HasRelease <- MCNodes
  Styles <- MCTraceless
  PushRestores = FALSE
  LoopKeepsUp = TRUE
SPECIFICATION FairSpec
INVARIANTS TypeOK NeverStops ListsWellFormed ObjectsFollowLists TopIsTail AnimatedObjectsLive OnlyTopShows
PROPERTIES EnteredPageShown HomeReached HomeAdvances TransitionsEnd HomeReturns ImplementsNavigation

CONSTANTS
  Right = Right
  Wrong = Wrong
  NoCfg = NoCfg
  Creds <- MCCreds
SPECIFICATION Spec
INVARIANTS TypeOK StateTracksLink OnlineIsSaved OneServer
PROPERTIES Reconnects ServerFollows FailedStartHeals

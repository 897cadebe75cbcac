\* A station that has a pair, right or wrong.
CONSTANTS
  Right = Right
  Wrong = Wrong
  NoCfg = NoCfg
  Creds <- MCCreds
SPECIFICATION Spec
PROPERTY SmartconfigActivated

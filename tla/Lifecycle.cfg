SPECIFICATION FairSpec
CONSTANTS
  Handler = {h1, h2}
  ApiKey = {k1, k2}
  Blank = Blank
  None = None
  NoConfig = NoConfig
  Unset = Unset
  Unreadable = Unreadable
  NaN = NaN
  Environment <- MCEnvironment
INVARIANT ReadyTellsKeys
PROPERTY SignalStops

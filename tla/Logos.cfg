SPECIFICATION LogosSpec
CONSTANTS
  Proc = {p1, p2}
  shop = shop
  bull = bull
  cup = cup
  LogKey = {shop}
  Path = {bull, cup}
  Logo <- MCLogo
  Config <- MCConfig
  None = None
  Missing = Missing
  MaxBytes = 3
  ConfigInterval = 2
  DefaultInterval = 10
  MaxDelay = 1
  MaxTime = 3
SYMMETRY MCSymmetry
INVARIANTS
  BooksAgree
  LinesApart
  MissingLogoIsLogged
PROPERTY ImplementsLogoMap

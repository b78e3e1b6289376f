SPECIFICATION Spec
CONSTANTS
  k1 = k1
  k2 = k2
  blank = blank
  slash = slash
  dot = dot
  Char = {slash, dot, Bar}
  Bar = Bar
  PaymentText <- MCPaymentText
  AngleGrain = 5
  RadiusGrain = 2
  None = None
  Public = public
  ApiKey = {k1, k2}
  Rgb = {"red", "blue"}
  Readable <- MCReadable
  MinSize = 18
  MaxSize = 31
  MaxQuiet = 2
  RadiusUnit = 20
  File <- MCNearRadii
  QRSize = 20
  Symbol <- MCSymbol
  Modules <- MCModules
  Border = 1
  DefaultQuiet = 1
  RatioPercent = 22
  MinLogo = 4
  MinPad = 1
  LogoSides <- MCLogoSides
INVARIANT OneImagePerCacheKey
\* Nobody asks any more once everybody has an image.
CHECK_DEADLOCK FALSE

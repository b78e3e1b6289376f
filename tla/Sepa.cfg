SPECIFICATION Spec
CONSTANTS
  Proc = {p1, p2}
  Request <- MCRequest
  branded = branded
  plain = plain
  stranger = stranger
  logoFile = logoFile
  blue = blue
  red = red
  ApiKey = {branded, plain}
  StyleOf <- MCStyleOf
  LogoOf <- MCLogoOf
  PublicStyle = black
  Path = {logoFile}
  Logo = {v1}
  Char <- MCChar
  Bar = bar
  KeyText <- MCKeyText
  SizeText <- MCSizeText
  None = None
  RequireAPIKey = TRUE
  AllowQueryAPIKey = TRUE
  TTL = 0
  MaxTime = 1
SYMMETRY MCSymmetry
INVARIANT LogoMissingOnlyAfterFailure
PROPERTY ImplementsContract

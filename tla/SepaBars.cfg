SPECIFICATION Spec
CONSTANTS
  Proc = {p1, p2}
  Request <- MCBars
  branded = branded
  plain = plain
  stranger = stranger
  logoFile = logoFile
  blue = blue
  red = red
  ApiKey = {branded, plain}
  StyleOf <- MCStyleOf
  LogoOf <- MCLogoOf
  PublicStyle = black
  Path = {logoFile}
  Logo = {v1}
  Char <- MCChar
  Bar = bar
  KeyText <- MCKeyText
  SizeText <- MCSizeText
  None = None
  RequireAPIKey = FALSE
  AllowQueryAPIKey = FALSE
  TTL = 0
  MaxTime = 0
INVARIANT Deterministic

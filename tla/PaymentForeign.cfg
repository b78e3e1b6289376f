SPECIFICATION Spec
CONSTANTS
  Input <- MCForeign
  Good <- MCGood
  Payee <- MCPayee
  Symbol <- MCSymbol
  Limit <- MCLimit
  MaxWhole = 5
  MaxCents = 999999
  None = None
INVARIANT ForeignRejected
CHECK_DEADLOCK FALSE

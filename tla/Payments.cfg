SPECIFICATION Spec
CONSTANTS
  Input <- MCInput
  Good <- MCGood
  Payee <- MCPayee
  Symbol <- MCSymbol
  Limit <- MCLimit
  MaxWhole = 5
  MaxCents = 999999
  None = None
INVARIANTS
  FieldAtFault
  FormatsAgree
  AmountReadsBack
  ForeignRefusedStrictly
  NoMistypedPayee
  PayloadNeverFails
CHECK_DEADLOCK FALSE

SPECIFICATION Spec
CONSTANTS
  Payment = {m1, m2}
  None = None
  Torn = Torn
  Directory = Directory
  MaxInputs = 2
  Batches <- MCBatches
INVARIANTS
  ReportIsTrue
  SuccessIsComplete

SPECIFICATION TlsFairSpec
CONSTANTS
  Operator = Operator
  Torn = Torn
  Absent = Absent
  MaxDeaths = 3
INVARIANTS
  BadPairOnlyAfterDeath
  SpoiledOnlyThroughKey
PROPERTY ServesOrSpoiled

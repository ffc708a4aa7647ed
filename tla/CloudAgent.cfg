CONSTANTS
  Agents = {a1, a2}
  ApiKeys = {k1, k2}
  None = None
  InitialBackoff = 1
  MaxBackoff = 3
  MaxLives = 2
  StoreMayFail = TRUE
SPECIFICATION FairCloudSpec
INVARIANTS CloudTypeOK OneAgent 
PROPERTY StopsWhenTold

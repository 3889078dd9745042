SPECIFICATION CallSpec
CONSTANTS
  CallShapesUsed <- Setter
  PassedHandles = {h1, h2}
  CallTokens = {t1, t2}
  NoToken = NoToken
  MaxLost = 1
INVARIANT NativePanicSpoils
CHECK_DEADLOCK FALSE

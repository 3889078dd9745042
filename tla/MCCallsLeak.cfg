SPECIFICATION CallSpec
CONSTANTS
  CallShapesUsed <- Constructor
  PassedHandles = {h1, h2}
  CallTokens = {t1, t2}
  NoToken = NoToken
  MaxLost = 1
INVARIANT NothingIsLost
CHECK_DEADLOCK FALSE

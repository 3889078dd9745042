SPECIFICATION Spec
CONSTANTS
  Clients = {g1}
  Natives = {}
  MaxToken = 2
  MaxCalls = 1
  Operations <- SetAndRun
  Reentry <- None
INVARIANT NativeHoldsLiveToken

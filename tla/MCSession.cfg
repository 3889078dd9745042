SPECIFICATION FairSessionSpec
CONSTANTS
  hPrimary = hPrimary
  hStream = hStream
  hView = hView
  hCursor = hCursor
  t1 = t1
  t2 = t2
  gc = gc
  NoHandle = NoHandle
  Handles <- MCHandles
  Threads <- MCThreads
  Collector = gc
  Views <- MCViews
  Borrowable <- MCViews
  Creator <- MCCreator
  RetainsCallbacks = {}
  Calls <- MCCalls
  Primary = hPrimary
  Kinds <- MCKinds
  KindOf <- MCKindOf
  AddArgs <- MCAddArgs
  MaxAdds = 2
INVARIANTS
  MembersClosedOrReported
  AnswersAgree
PROPERTIES
  RefusedForOthersOnly
  SessionReturns

SPECIFICATION FairSpec
CONSTANTS
  hParent = hParent
  hView = hView
  hChild = hChild
  hSibling = hSibling
  t1 = t1
  t2 = t2
  t3 = t3
  gc = gc
  NoHandle = NoHandle
  Handles <- FamilyHandles
  Threads <- TwoThreads
  Collector = gc
  Depth <- MCDepth
  Makers <- MCMakers
  Views = {}
  Borrowable <- FamilyBorrowable
  Creator <- FamilyCreator
  RetainsCallbacks <- FamilyRetains
  Calls <- FamilyCalls
INVARIANTS
  TypeOK
  ParentOutlivesChild
  DestroyedOnce
  IdleHoldsNothing
  TokensOutliveObject
PROPERTY
  ClosedEventuallyReleased

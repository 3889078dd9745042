SPECIFICATION Spec
CONSTANTS
  hParent = hParent
  hView = hView
  hChild = hChild
  hSibling = hSibling
  t1 = t1
  t2 = t2
  t3 = t3
  gc = gc
  NoHandle = NoHandle
  Handles <- ViewHandles
  Threads <- ThreeThreads
  Collector = gc
  Depth <- MCDepth
  Makers <- MCMakers
  Views <- ViewViews
  Borrowable <- ViewBorrowable
  Creator <- ViewCreator
  RetainsCallbacks <- ViewRetains
  Calls <- ViewCalls
SYMMETRY ThreeSymmetry
INVARIANTS
  NoUseAfterFree
  ViewPinsOwner
  ParentOpenDuringCall
  ActiveCountsPins
  ChildrenCountReservations
  PoisonReachesParent
PROPERTIES
  ImplementsContract
  PoisonedNeverDestroyed

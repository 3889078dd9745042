SPECIFICATION Spec
CONSTANTS
  hParent = hParent
  hChild = hChild
  hGrandchild = hGrandchild
  t1 = t1
  t2 = t2
  gc = gc
  NoHandle = NoHandle
  Handles <- NestedHandles
  Threads <- NestedThreads
  Collector = gc
  Views = {}
  Borrowable = {}
  Creator <- NestedCreator
  RetainsCallbacks = {}
  Calls <- NestedCalls
SYMMETRY NestedSymmetry
INVARIANTS
  NoUseAfterFree

CONSTANTS
  Callers = {g1, g2}
  NoCaller = NoCaller
  Paths = {p1, p2}
  NoPath = NoPath
  DefaultLibraryName = p1
  SearchPaths <- OneSearchPath
  AutomaticLoad = TRUE
  LoadOrder <- FirstOfOrder
  CallShapesUsed <- GeneratedShapes
  PassedHandles = {h1, h2}
  CallTokens = {t1, t2}
  NoToken = NoToken
  MaxLost = 1
  FrameGoroutines = {g1, g2}
  CallFrame = {f1, f2, f3}
  WrappersCalled <- WidestWrappers
  MaxNested = 2
  FrameArgs = 3
  FrameOuts = 2
  StreamUses <- ReaderOrWriterOrBoth
  ReaderBytes = 3
  WrittenBytes = 4
  ReadRoom = 2
  StageSize = 2
  MaxEmptyReads = 2
  ScratchCalls = {e1, e2}
  ScratchSlices = {s1, s2, s3}
  NoSlice = NoSlice
  MaxRows = 1
  ErrorNames = {n1, n2, n3}
  MaxCode = 3
  GoFiles = {a, b}
  Artifacts = {c, d}
  MaxBindings = 3
SPECIFICATION BoundarySpec
SYMMETRY AnyHandle
INVARIANTS
  PublishedComplete NoHandleLeaks
  PassedStayPinned CallGivesBack PanicSpoilsUnlessMasked FailuresSurface
  NativeSeesItsFrame ResultsAreOwn BuffersAreFreed
  BytesArriveInOrder StreamFailuresSurface
  RowsAreOwn
  CodesAppendOnly PublishedPassesCheck
PROPERTIES LoadsOnce KeptUntilAnswered
CHECK_DEADLOCK FALSE

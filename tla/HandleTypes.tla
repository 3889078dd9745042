------------------------------ MODULE HandleTypes ------------------------------
(***************************************************************************)
(* The handle types the example packages generate, one definition for      *)
(* each section of a *_handles_gen.go: what sets its zigoAcquire,          *)
(* zigoRelease, zigoPoison, zigoAcquireChild, Close and cleanup apart from *)
(* those of the other types.  HandleLifecycle has the actions; its         *)
(* constants are read off these records.                                   *)
(***************************************************************************)
EXTENDS Integers, FiniteSets, TLC

\* A type whose Close releases a native object, and which a collector's cleanup
\* backs up.
Owned(destructor) ==
  [destroys   |-> destructor,  \* what its cleanup calls
   owns       |-> TRUE,        \* has a cleanup
   borrowable |-> FALSE,     \* has an `owner`: zigoAcquire walks to it
   dependent  |-> FALSE,     \* has a `parent`: pins it, and its place goes after the destructor
   counts     |-> FALSE,     \* has `children`: zigoAcquireChild, zigoDropChild
   makes      |-> {},        \* types its methods construct as dependent children
   lends      |-> {},        \* types its methods hand out as views of it
   slots      |-> 0,         \* retained callbacks, deleted after the destructor
   scratch    |-> 0,         \* scratch buffers
   refs       |-> FALSE]     \* a Ref stands for one inside a parent and pins the parent

\* A type that is only ever borrowed: Close detaches it.
BorrowedOnly == [Owned("none") EXCEPT !.owns = FALSE, !.borrowable = TRUE]

\* The opaque package.
ContextHandle == [Owned("ContextDeinit") EXCEPT !.lends = {"ContextView"}]
ContextViewHandle == BorrowedOnly

\* The callback package.
CallbackContextHandle ==
  [Owned("CallbackContextDeinit") EXCEPT !.borrowable = TRUE, !.slots = 1]
FloatBufferHandle == Owned("FloatBufferDeinit")
IntBufferHandle == Owned("IntBufferDeinit")

\* The pipeline package.
PipelineHandle == [Owned("PipelineDeinit") EXCEPT !.slots = 1]
IntBatchHandle == Owned("IntBatchDeinit")
FloatBatchHandle == Owned("FloatBatchDeinit")

\* The event queue package.
EventQueueHandle ==
  [Owned("EventQueueDeinit") EXCEPT !.counts = TRUE, !.makes = {"Stream"}, !.slots = 3, !.scratch = 1]
StreamHandle == [Owned("StreamFreeStream") EXCEPT !.dependent = TRUE]
BorrowBoxHandle ==
  [Owned("BorrowBoxDeinit") EXCEPT !.counts = TRUE, !.lends = {"BorrowView"}]
BorrowViewHandle ==
  [BorrowedOnly EXCEPT !.counts = TRUE, !.lends = {"BorrowView"}, !.makes = {"BorrowChild"}]
BorrowChildHandle == [Owned("BorrowChildDeinit") EXCEPT !.dependent = TRUE]
TerminalHandle == Owned("TerminalDeinit")
TickerHandle == Owned("TickerFreeTicker")

\* The telemetry hub package.
TelemetryHubHandle == [Owned("TelemetryHubDeinit") EXCEPT !.slots = 1]

\* The type relations package.
CounterHandle == Owned("CounterDeinit")
AccumulatorHandle == Owned("AccumulatorDeinit")

\* The tagged union package.
ChildHandle == [Owned("ChildDeinit") EXCEPT !.refs = TRUE]
ValueHandle == [Owned("ValueDeinit") EXCEPT !.refs = TRUE]
SignalHandle == Owned("SignalDeinit")
PaletteHandle == Owned("PaletteDeinit")

\* The streams package.
DocumentHandle == Owned("DocumentDeinit")
SinkHandle == Owned("SinkDeinit")
SourceHandle == Owned("SourceDeinit")

\* The materialized package.
LegacyLeafHandle == BorrowedOnly
LegacyProbeHandle == [Owned("LegacyProbeDeinit") EXCEPT !.lends = {"LegacyLeaf"}]
CursorHandle == Owned("CursorDeinit")

-----------------------------------------------------------------------------
HandleTypes ==
  ("Context" :> ContextHandle) @@ ("ContextView" :> ContextViewHandle)
  @@ ("CallbackContext" :> CallbackContextHandle)
  @@ ("FloatBuffer" :> FloatBufferHandle) @@ ("IntBuffer" :> IntBufferHandle)
  @@ ("Pipeline" :> PipelineHandle) @@ ("IntBatch" :> IntBatchHandle)
  @@ ("FloatBatch" :> FloatBatchHandle) @@ ("EventQueue" :> EventQueueHandle)
  @@ ("Stream" :> StreamHandle) @@ ("BorrowBox" :> BorrowBoxHandle)
  @@ ("BorrowView" :> BorrowViewHandle) @@ ("BorrowChild" :> BorrowChildHandle)
  @@ ("Terminal" :> TerminalHandle) @@ ("Ticker" :> TickerHandle)
  @@ ("TelemetryHub" :> TelemetryHubHandle) @@ ("Counter" :> CounterHandle)
  @@ ("Accumulator" :> AccumulatorHandle) @@ ("Child" :> ChildHandle)
  @@ ("Value" :> ValueHandle) @@ ("Signal" :> SignalHandle)
  @@ ("Palette" :> PaletteHandle) @@ ("Document" :> DocumentHandle)
  @@ ("Sink" :> SinkHandle) @@ ("Source" :> SourceHandle)
  @@ ("LegacyLeaf" :> LegacyLeafHandle) @@ ("LegacyProbe" :> LegacyProbeHandle)
  @@ ("Cursor" :> CursorHandle)

HandleTypeNames == DOMAIN HandleTypes

\* The code of a type follows from what the others do with it: a type has a parent
\* when another makes it, an owner when another lends it or when a callback is
\* handed one, and only a type that can be reserved, itself or through the views it
\* lends, counts children.
ASSUME HandleTypesAssumption ==
  \A n \in HandleTypeNames :
    LET t == HandleTypes[n]  others == {HandleTypes[m] : m \in HandleTypeNames} IN
    /\ t.dependent = (\E o \in others : n \in o.makes)
    /\ ~t.owns = (\E o \in others : n \in o.lends)
    /\ t.owns = (t.destroys # "none")
    /\ ~t.owns => t.borrowable /\ t.slots = 0 /\ ~t.dependent
    /\ t.makes # {} => t.counts
    /\ t.counts => t.makes # {} \/ \E v \in t.lends : HandleTypes[v].makes # {}

-----------------------------------------------------------------------------
(* The constants of HandleLifecycle for handles of given types.            *)

ViewsAmong(typeOf)      == {h \in DOMAIN typeOf : ~typeOf[h].owns}
BorrowableAmong(typeOf) == {h \in DOMAIN typeOf : typeOf[h].borrowable}
RetainingAmong(typeOf)  == {h \in DOMAIN typeOf : typeOf[h].slots > 0}

\* A handle comes from a method of its creator's type, or from a constructor.
ForestOf(creator, typeOf, none) ==
  \A h \in DOMAIN typeOf :
    IF creator[h] = none THEN ~typeOf[h].dependent
    ELSE \E n \in typeOf[creator[h]].makes \union typeOf[creator[h]].lends :
           HandleTypes[n] = typeOf[h]
=============================================================================

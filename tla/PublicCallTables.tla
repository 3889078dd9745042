---------------------------- MODULE PublicCallTables ----------------------------
(***************************************************************************)
(* The shape of every public operation of the example packages, in the     *)
(* order of their files.  A method is Receiver_Name; a Must variant calls  *)
(* the function it is named for and panics on its error, so that it has    *)
(* the same shape and is not listed.  One definition covers one stretch of *)
(* a file; the cgo and the purego copy of a package have the same table.   *)
(***************************************************************************)
EXTENDS PublicCalls, TLC

-----------------------------------------------------------------------------
(* 07-event-queue: event_queue_gen.go.                                     *)

EventQueueCalls1 ==
     Like({"NewEventQueue"}, Checked(<<NonNil, Keep>>, "handle"))
  @@ Like({"EventQueue_Clone"}, Checked(<<PinKeeping, NonNil, Keep>>, "handle"))
  @@ Like({"EventQueue_NewStream"}, Checked(<<ChildKeeping>>, "child"))
  @@ Like({"EventQueue_Enqueue"}, Checked(<<PinKeeping>>, "value"))
  @@ Like({"EventQueue_MergeFrom"}, Checked(<<PinKeeping, OptKeeping>>, "value"))

EventQueueCalls2 ==
     Like({"EventQueue_Process", "EventQueue_Name", "EventQueue_SampleValues",
         "EventQueue_SampleValuesChecked", "EventQueue_SelectionString"},
        Checked(<<PinKeeping>>, "value"))
  @@ Like({"EventQueue_SetObserver"},
        Checked(<<PinKeeping, NonNil, Offer>>, "value"))

EventQueueCalls3 ==
     Like({"EchoCString", "SampleCString", "ExtractPaths",
         "ExtractSentinelSlices", "ExtractSentinelPointers"},
        Plain(<<>>, "value"))
  @@ Like({"EventQueue_ExtractSamples", "EventQueue_ExtractSamplesChecked",
         "EventQueue_ExtractLimits", "EventQueue_AcceptStats",
         "EventQueue_ExtractSamplesInto"}, Checked(<<PinKeeping>>, "value"))

EventQueueCalls4 ==
     Like({"EventQueue_LimitsInto", "EventQueue_SampleStats",
         "EventQueue_SampleLimits", "EventQueue_Len", "EventQueue_Capacity"},
        Checked(<<PinKeeping>>, "value"))
  @@ Like({"EventQueue_Estimate"}, Checked(<<PinKeeping, Scratch>>, "value"))

EventQueueCalls5 ==
     Like({"EventQueue_Policy", "EventQueue_Dropped", "EventQueue_Processed",
         "EventQueue_Stats", "EventQueue_Limits", "EventQueue_ApplyLimits"},
        Checked(<<PinKeeping>>, "value"))

EventQueueCalls6 ==
     Like({"EventQueue_Clear"}, Checked(<<PinKeeping>>, "value"))
  @@ Like({"Stream_Capacity", "BorrowView_Get", "BorrowView_Explode"},
        Checked(<<Pin>>, "value"))
  @@ Like({"NewBorrowBox"}, Checked(<<>>, "handle"))
  @@ Like({"BorrowBox_View", "BorrowView_View"}, Checked(<<Pin>>, "view"))
  @@ Like({"BorrowView_NewBorrowChild"}, Checked(<<Child>>, "child"))

EventQueueCalls7 ==
     Like({"BorrowChild_Get", "Terminal_BlinkIntervalMs", "Terminal_Cols",
         "Terminal_Rows", "Terminal_MaxScrollbackBytes"},
        Checked(<<Pin>>, "value"))
  @@ Like({"NewTerminal"}, Checked(<<>>, "handle"))
  @@ Like({"EchoQueueSignal"}, Plain(<<>>, "value"))

EventQueueCalls8 ==
     Like({"LiveBorrowChildren", "LiveStreams", "LiveQueues", "LiveSamples",
         "LiveLimits", "LiveSelectionStrings"}, Plain(<<>>, "value"))
  @@ Like({"InspectTicker"}, Checked(<<Pin>>, "value"))

EventQueueCalls ==
     EventQueueCalls1 @@ EventQueueCalls2 @@ EventQueueCalls3
  @@ EventQueueCalls4 @@ EventQueueCalls5 @@ EventQueueCalls6
  @@ EventQueueCalls7 @@ EventQueueCalls8

-----------------------------------------------------------------------------
(* 08-telemetry-hub: telemetry_hub_gen.go.                                 *)

TelemetryCalls1 ==
     Like({"NewTelemetryHub"}, Checked(<<NonNil, Keep>>, "handle"))
  @@ Like({"TelemetryHub_Rename", "TelemetryHub_Name", "TelemetryHub_Capacity",
         "TelemetryHub_Len"}, Checked(<<PinKeeping>>, "value"))
  @@ Like({"TelemetryHub_Reduce"}, Checked(<<Cancellable, PinKeeping>>, "value"))

TelemetryCalls2 ==
     Like({"TelemetryHub_IsEmpty", "TelemetryHub_IsFull", "TelemetryHub_Mode",
         "TelemetryHub_SetMode", "TelemetryHub_OverflowPolicy",
         "TelemetryHub_SetOverflowPolicy", "TelemetryHub_Enabled"},
        Checked(<<PinKeeping>>, "value"))

TelemetryCalls3 ==
     Like({"TelemetryHub_SetEnabled", "TelemetryHub_Threshold",
         "TelemetryHub_SetThreshold", "TelemetryHub_ScaleFactor",
         "TelemetryHub_SetScaleFactor", "TelemetryHub_Offset",
         "TelemetryHub_SetOffset"}, Checked(<<PinKeeping>>, "value"))

TelemetryCalls4 ==
     Like({"TelemetryHub_Push", "TelemetryHub_PushWithSeverity",
         "TelemetryHub_PushBatch", "TelemetryHub_Process",
         "TelemetryHub_ProcessAll", "TelemetryHub_Clear",
         "TelemetryHub_ResetStatistics"}, Checked(<<PinKeeping>>, "value"))

TelemetryCalls5 ==
     Like({"TelemetryHub_Accepted", "TelemetryHub_Rejected",
         "TelemetryHub_Dropped", "TelemetryHub_Processed",
         "TelemetryHub_Filtered", "TelemetryHub_Sum", "TelemetryHub_Minimum"},
        Checked(<<PinKeeping>>, "value"))

TelemetryCalls6 ==
     Like({"TelemetryHub_Maximum", "TelemetryHub_Average",
         "TelemetryHub_FirstID", "TelemetryHub_FirstValue",
         "TelemetryHub_LastID", "TelemetryHub_LastValue",
         "TelemetryHub_LastSeverity"}, Checked(<<PinKeeping>>, "value"))

TelemetryCalls7 ==
     Like({"TelemetryHub_CountAbove", "TelemetryHub_CountBelow",
         "TelemetryHub_ContainsAbove", "TelemetryHub_ContainsBelow",
         "TelemetryHub_ScaleValues", "TelemetryHub_OffsetValues",
         "TelemetryHub_ClampValues"}, Checked(<<PinKeeping>>, "value"))

TelemetryCalls8 ==
     Like({"TelemetryHub_AbsoluteValues", "TelemetryHub_NegateValues"},
        Checked(<<PinKeeping>>, "value"))
  @@ Like({"LiveHubs"}, Plain(<<>>, "value"))

TelemetryCalls ==
     TelemetryCalls1 @@ TelemetryCalls2 @@ TelemetryCalls3 @@ TelemetryCalls4
  @@ TelemetryCalls5 @@ TelemetryCalls6 @@ TelemetryCalls7 @@ TelemetryCalls8

-----------------------------------------------------------------------------
(* 04-callback: callback_gen.go.                                           *)

CallbackCalls1 ==
     Like({"CallbackContext_RunCount", "CallbackContext_SetRunCount",
         "CallbackContext_Run"}, Checked(<<PinFallible>>, "value"))
  @@ Like({"NewCallbackContext"}, Checked(<<NonNil, KeepFallible>>, "handle"))
  @@ Like({"NewFloatBuffer", "NewIntBuffer"}, Checked(<<>>, "handle"))
  @@ Like({"FloatBuffer_Push", "FloatBuffer_Len"}, Checked(<<Pin>>, "value"))

CallbackCalls2 ==
     Like({"IntBuffer_Push", "IntBuffer_Len"}, Checked(<<Pin>>, "value"))
  @@ Like({"PanicNow"}, Checked(<<>>, "value"))
  @@ Like({"CompressionBound", "IncrementShared", "ReadShared"},
        Plain(<<>>, "value"))
  @@ Like({"Apply"}, Plain(<<NonNil, LendFallible>>, "value"))
  @@ Like({"ApplyUntilCancelled"},
        Checked(<<Cancellable, NonNil, LendFallible, Trip>>, "value"))
  @@ Like({"Notify", "Filter"}, Plain(<<NonNil, Lend>>, "value"))

CallbackCalls3 ==
     Like({"Reduce", "LogMessage", "EmitChunks", "VisitCodepoints"},
        Plain(<<NonNil, Lend>>, "value"))
  @@ Like({"Inspect"}, Checked(<<OptFallible, NonNil, Lend>>, "value"))

CallbackCalls == CallbackCalls1 @@ CallbackCalls2 @@ CallbackCalls3

-----------------------------------------------------------------------------
(* 11-io-streams: streams_gen.go.  WriteTo, ReadFrom and Write call these. *)

StreamsCalls1 ==
     Like({"NewDocument"}, Checked(<<>>, "handle"))
  @@ Like({"Document_Append", "Document_AppendString", "Document_Count"},
        Checked(<<Pin>>, "value"))
  @@ Like({"Document_Dump", "Document_Load"},
        Checked(<<NonNil, Pin, LendFallible>>, "value"))

StreamsCalls2 ==
     Like({"Document_ReadInto", "Sink_Write", "Sink_Flush", "Sink_Count",
         "Sink_Push", "Source_Read"}, Checked(<<Pin>>, "value"))
  @@ Like({"NewSink", "NewSource"}, Checked(<<>>, "handle"))

StreamsCalls3 ==
     Like({"Banner"}, Checked(<<NonNil, LendFallible>>, "value"))
  @@ Like({"Tee"}, Checked(<<NonNil, NonNil, LendFallible, LendFallible>>, "value"))
  @@ Like({"SumCodepoints"}, Plain(<<InRange>>, "value"))
  @@ Like({"FillCodepoints", "TakeCodepoints"}, Plain(<<>>, "value"))

StreamsCalls == StreamsCalls1 @@ StreamsCalls2 @@ StreamsCalls3

-----------------------------------------------------------------------------
(* 10-tagged-union: tagged_union_gen.go.                                   *)

TaggedUnionCalls1 ==
     Like({"Palette_Flags", "Palette_SetFlags", "Palette_PinnedMode",
         "Palette_SetPinnedMode", "Palette_Name", "Child_Get",
         "Value_SetNone"}, Checked(<<Pin>>, "value"))
  @@ Like({"NewChild", "NewValue"}, Checked(<<>>, "handle"))

TaggedUnionCalls2 ==
     Like({"Value_SetFlag", "Value_SetMode", "Value_UsePresetSamples",
         "Value_UseEmptySamples", "Value_UseMutableSamples", "Signal_SetIdle"},
        Checked(<<Pin>>, "value"))
  @@ Like({"Value_SetChild"}, Checked(<<Pin, Pin>>, "value"))
  @@ Like({"Value_Borrow"}, Checked(<<Pin>>, "view"))
  @@ Like({"NewSignal"}, Checked(<<>>, "handle"))

TaggedUnionCalls3 ==
     Like({"Signal_SetTicks", "Signal_SetLevel", "Signal_SetOffset",
         "Signal_SetMode", "Signal_SetActive"}, Checked(<<Pin>>, "value"))
  @@ Like({"NewPalette"}, Checked(<<>>, "handle"))
  @@ Like({"LiveValues", "Sum", "ScrollAmount", "EchoRgb", "MaybeRgb"},
        Plain(<<>>, "value"))
  @@ Like({"Divide", "CurrentViewport", "CheckedRgb"}, Checked(<<>>, "value"))

TaggedUnionCalls4 ==
     Like({"EchoColorRecord", "FlattenFlags"}, Plain(<<>>, "value"))
  @@ Like({"VisitFlags"}, Plain(<<NonNil, Lend>>, "value"))
  @@ Like({"PanicError"}, Checked(<<>>, "value"))

TaggedUnionCalls ==
     TaggedUnionCalls1 @@ TaggedUnionCalls2 @@ TaggedUnionCalls3
  @@ TaggedUnionCalls4

-----------------------------------------------------------------------------
(* 03-opaque: opaque_gen.go.                                               *)

OpaqueCalls1 ==
     Like({"NewContext"}, Checked(<<>>, "handle"))
  @@ Like({"Context_Add", "Context_MaybeTotal", "Context_SetTotal",
         "Context_Next", "Context_NextChecked", "Context_Rewind"},
        Checked(<<Pin>>, "value"))

OpaqueCalls2 ==
     Like({"Context_AddCopy", "Context_Crash", "Context_CrashInfallible",
         "ContextView_Total"}, Checked(<<Pin>>, "value"))
  @@ Like({"Context_BorrowView"}, Checked(<<Pin>>, "view"))
  @@ Like({"CrashFatal", "LiveBytes", "Echo", "Fallback"}, Plain(<<>>, "value"))
  @@ Like({"SumCopies"}, Checked(<<Pin, Pin>>, "value"))

OpaqueCalls == OpaqueCalls1 @@ OpaqueCalls2

-----------------------------------------------------------------------------
(* 05-pipeline: pipeline_gen.go.                                           *)

PipelineCalls1 ==
     Like({"NewPipeline"}, Checked(<<NonNil, Keep>>, "handle"))
  @@ Like({"Pipeline_Process", "Pipeline_Name", "Pipeline_Mode",
         "Pipeline_SetEnabled", "Pipeline_Processed", "Pipeline_Total"},
        Checked(<<PinKeeping>>, "value"))
  @@ Like({"NewIntBatch"}, Checked(<<>>, "handle"))

PipelineCalls2 ==
     Like({"IntBatch_Push", "IntBatch_Len", "FloatBatch_Push", "FloatBatch_Len"},
        Checked(<<Pin>>, "value"))
  @@ Like({"NewFloatBatch"}, Checked(<<>>, "handle"))
  @@ Like({"LiveBytes", "CompressionBound"}, Plain(<<>>, "value"))

PipelineCalls == PipelineCalls1 @@ PipelineCalls2

-----------------------------------------------------------------------------
(* 09-type-relations: type_relations_gen.go.                               *)

TypeRelationsCalls1 ==
     Like({"NewCounter", "NewAccumulator"}, Checked(<<>>, "handle"))
  @@ Like({"Counter_Get", "Counter_Add", "Accumulator_Total"},
        Checked(<<Pin>>, "value"))
  @@ Like({"Accumulator_Absorb"}, Checked(<<Pin, Pin>>, "value"))
  @@ Like({"DeccolmMode_Columns", "LiveObjects", "DefaultCursorStyle",
         "ConfigureStyles", "IsWideColumns", "EchoEraseDisplay"},
        Plain(<<>>, "value"))
  @@ Like({"RunWidth"}, Checked(<<InRange, InRange>>, "value"))
  @@ Like({"CodepointWidth"}, Checked(<<InRange>>, "value"))

TypeRelationsCalls2 ==
     Like({"DoubleWidth", "Invert", "StyleOrDefault", "BlinkingStyle",
         "ShiftPoint", "DescribeText", "SumOrZero", "LeadingDigits",
         "StyleName", "CursorStyle_Blinks"}, Plain(<<>>, "value"))
  @@ Like({"CheckedShift"}, Checked(<<>>, "value"))

TypeRelationsCalls == TypeRelationsCalls1 @@ TypeRelationsCalls2

-----------------------------------------------------------------------------
(* 12-materialized: materialized_gen.go.                                   *)

MaterializedCalls1 ==
     Like({"LegacyLeaf_Value", "LegacyProbe_ID", "LegacyProbe_Active"},
        Checked(<<Pin>>, "value"))
  @@ Like({"NewLegacyProbe", "NewCursor"}, Checked(<<>>, "handle"))
  @@ Like({"LegacyProbe_Child"}, Checked(<<Pin>>, "view"))
  @@ Like({"Cursor_Next", "Cursor_NextChecked"}, Checked(<<Pin>>, "buffer"))

MaterializedCalls2 ==
     Like({"Cursor_Count"}, Checked(<<Pin>>, "value"))
  @@ Like({"OptionalSnapshot", "OptionalBatch", "Snapshot", "Fill"},
        Plain(<<>>, "buffer"))
  @@ Like({"OptionalBatchChecked", "ProbeMany"}, Checked(<<>>, "buffer"))
  @@ Like({"ReleasedBuffers"}, Plain(<<>>, "value"))

MaterializedCalls == MaterializedCalls1 @@ MaterializedCalls2

-----------------------------------------------------------------------------
(* 07-event-queue/types: types_gen.go.                                     *)

TypesCalls ==
     Like({"NewTicker"}, Checked(<<>>, "handle"))
  @@ Like({"Ticker_Advance", "Ticker_Elapsed"}, Checked(<<Pin>>, "value"))
  @@ Like({"LiveTickers"}, Plain(<<>>, "value"))

-----------------------------------------------------------------------------
(* 02-errors: failures_gen.go.                                             *)

FailuresCalls ==
     Like({"Divide"}, Checked(<<>>, "value"))
  @@ Like({"Sum", "NormalizeFormat"}, Plain(<<>>, "value"))
  @@ Like({"CodepointWidth"}, Checked(<<InRange>>, "value"))

-----------------------------------------------------------------------------
(* All of them.                                                            *)

CallTables ==
  {EventQueueCalls, TelemetryCalls, CallbackCalls, StreamsCalls, TaggedUnionCalls,
   OpaqueCalls, PipelineCalls, TypeRelationsCalls, MaterializedCalls, TypesCalls,
   FailuresCalls}

GeneratedShapes == UNION {{table[n] : n \in DOMAIN table} : table \in CallTables}

\* No token is made for a callback that has not been found to be there.
ASSUME ShapesAssumption ==
  \A s \in GeneratedShapes :
    LET UpTo(p, kinds) == Cardinality({q \in PositionsIn(s, kinds) : q <= p})
    IN \A p \in DOMAIN s.steps : UpTo(p, TokenSteps) <= UpTo(p, {"nonnil"})
=============================================================================

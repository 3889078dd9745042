------------------------------ MODULE NativeTables ------------------------------
(***************************************************************************)
(* The native functions of the purego example packages: for each package   *)
(* the signatures of its fn* methods, what its wrappers do with the        *)
(* results, and the order in which loadCandidate resolves its symbols, in  *)
(* the order of the file.  A function with a floating-point argument goes  *)
(* through purego.RegisterFunc and has no fn* method.                      *)
(***************************************************************************)
EXTENDS CallFrames

-----------------------------------------------------------------------------
(* 07-event-queue: native_gen.go.                                          *)

EventQueueFns1 ==
     Takes({"EventQueueCreate"}, 7, 1)
  @@ Takes({"EventQueueClone"}, 4, 1)
  @@ Takes({"EventQueueNewStream"}, 2, 1)
  @@ Takes({"EventQueueEnqueue", "EventQueueSetObserver"}, 3, 0)
  @@ Takes({"EventQueueMergeFrom", "EventQueueProcess"}, 3, 1)
  @@ Takes({"EventQueueName", "EventQueueSampleValues"}, 3, 2)

EventQueueFns2 ==
     Takes({"EventQueueSampleValuesChecked", "EventQueueSelectionString",
         "EventQueueExtractSamples", "EventQueueExtractSamplesChecked"}, 3, 2)
  @@ Takes({"EventQueueFreeSelectionString"}, 3, 0)
  @@ Takes({"EventQueueEchoCString"}, 1, 0)
  @@ Takes({"EventQueueSampleCString"}, 0, 0)
  @@ Takes({"EventQueueExtractPaths", "EventQueueExtractSentinelSlices",
         "EventQueueExtractSentinelPointers"}, 4, 0)

EventQueueFns3 ==
     Takes({"EventQueueFreeSamples", "EventQueueFreeLimits"}, 3, 0)
  @@ Takes({"EventQueueExtractLimits", "EventQueueSampleStats",
         "EventQueueSampleLimits"}, 3, 2)
  @@ Takes({"EventQueueAcceptStats", "EventQueueExtractSamplesInto",
         "EventQueueLimitsInto", "EventQueueEstimate"}, 4, 1)

EventQueueFns4 ==
     Takes({"EventQueueLen", "EventQueueCapacity", "EventQueuePolicy",
         "EventQueueDropped", "EventQueueProcessed", "EventQueueClear",
         "StreamCapacity"}, 2, 1)
  @@ Takes({"EventQueueStats", "EventQueueLimits", "EventQueueApplyLimits"}, 2, 0)
  @@ Takes({"EventQueueDeinit"}, 1, 0)

EventQueueFns5 ==
     Takes({"StreamFreeStream", "BorrowBoxDeinit", "BorrowViewExplode",
         "BorrowChildDeinit"}, 1, 0)
  @@ Takes({"BorrowBoxCreate", "BorrowBoxView", "BorrowViewView",
         "BorrowViewNewChild", "BorrowViewGet", "BorrowChildGet"}, 2, 1)
  @@ Takes({"TerminalInit"}, 5, 1)

EventQueueFns6 ==
     Takes({"TerminalBlinkIntervalMs", "TerminalCols", "TerminalRows",
         "TerminalMaxScrollbackBytes"}, 2, 1)
  @@ Takes({"TerminalDeinit", "EchoQueueSignal"}, 1, 0)
  @@ Takes({"LiveBorrowChildren", "LiveStreams", "LiveQueues", "LiveSamples",
         "LiveLimits", "LiveSelectionStrings"}, 0, 0)
  @@ Takes({"InspectTicker"}, 3, 0)

EventQueueFns7 ==
     Takes({"NewTicker", "TickerElapsed"}, 2, 1)
  @@ Takes({"TickerFreeTicker"}, 1, 0)
  @@ Takes({"TickerAdvance"}, 3, 1)
  @@ Takes({"LiveTickers"}, 0, 0)

EventQueueFns ==
     EventQueueFns1 @@ EventQueueFns2 @@ EventQueueFns3 @@ EventQueueFns4
  @@ EventQueueFns5 @@ EventQueueFns6 @@ EventQueueFns7

EventQueueRaw1 ==
     Raw({"EventQueueCreate", "EventQueueClone", "EventQueueNewStream",
         "EventQueueMergeFrom", "EventQueueProcess"}, "scalar")
  @@ Raw({"EventQueueEnqueue", "EventQueueSetObserver",
         "EventQueueFreeSelectionString"}, "status")
  @@ Raw({"EventQueueName", "EventQueueSampleValues",
         "EventQueueSampleValuesChecked"}, "copied")
  @@ Freeing({"EventQueueSelectionString"}, "owned", "EventQueueFreeSelectionString")
  @@ Raw({"EventQueueEchoCString", "EventQueueSampleCString"}, "value")

EventQueueRaw2 ==
     Raw({"EventQueueExtractPaths", "EventQueueExtractSentinelSlices",
         "EventQueueExtractSentinelPointers"}, "value")
  @@ Freeing({"EventQueueExtractSamples", "EventQueueExtractSamplesChecked"},
        "owned", "EventQueueFreeSamples")
  @@ Raw({"EventQueueFreeSamples", "EventQueueFreeLimits"}, "status")
  @@ Freeing({"EventQueueExtractLimits"}, "owned", "EventQueueFreeLimits")
  @@ Raw({"EventQueueAcceptStats", "EventQueueExtractSamplesInto",
         "EventQueueLimitsInto", "EventQueueEstimate"}, "scalar")

EventQueueRaw3 ==
     Raw({"EventQueueSampleStats", "EventQueueSampleLimits"}, "copied")
  @@ Raw({"EventQueueLen", "EventQueueCapacity", "EventQueuePolicy",
         "EventQueueDropped", "EventQueueProcessed", "EventQueueClear",
         "StreamCapacity", "BorrowBoxCreate", "BorrowBoxView",
         "BorrowViewView", "BorrowViewNewChild"}, "scalar")
  @@ Raw({"EventQueueStats", "EventQueueLimits", "EventQueueApplyLimits",
         "EventQueueDeinit", "StreamFreeStream", "BorrowBoxDeinit"}, "status")

EventQueueRaw4 ==
     Raw({"BorrowViewGet", "BorrowChildGet", "TerminalInit",
         "TerminalBlinkIntervalMs", "TerminalCols", "TerminalRows",
         "TerminalMaxScrollbackBytes", "NewTicker", "TickerAdvance",
         "TickerElapsed"}, "scalar")
  @@ Raw({"BorrowViewExplode", "BorrowChildDeinit", "TerminalDeinit",
         "InspectTicker", "TickerFreeTicker"}, "status")
  @@ Raw({"EchoQueueSignal", "LiveBorrowChildren", "LiveStreams", "LiveQueues",
         "LiveSamples", "LiveLimits", "LiveSelectionStrings", "LiveTickers"},
        "value")

EventQueueRaw ==
     EventQueueRaw1 @@ EventQueueRaw2 @@ EventQueueRaw3 @@ EventQueueRaw4

EventQueueOrder1 ==
  <<"LastError", "PanicMessage", "EventQueueCreate", "EventQueueClone",
    "EventQueueNewStream", "EventQueueEnqueue", "EventQueueMergeFrom",
    "EventQueueProcess", "EventQueueSetObserver", "EventQueueName",
    "EventQueueSampleValues", "EventQueueSampleValuesChecked",
    "EventQueueSelectionString", "EventQueueFreeSelectionString",
    "EventQueueEchoCString", "EventQueueSampleCString",
    "EventQueueExtractPaths", "EventQueueExtractSentinelSlices",
    "EventQueueExtractSentinelPointers", "EventQueueExtractSamples",
    "EventQueueExtractSamplesChecked", "EventQueueFreeSamples",
    "EventQueueExtractLimits", "EventQueueFreeLimits", "EventQueueAcceptStats",
    "EventQueueExtractSamplesInto", "EventQueueLimitsInto",
    "EventQueueEstimate", "EventQueueSampleStats", "EventQueueSampleLimits",
    "EventQueueLen", "EventQueueCapacity", "EventQueuePolicy",
    "EventQueueDropped", "EventQueueProcessed", "EventQueueStats",
    "EventQueueLimits">>

EventQueueOrder2 ==
  <<"EventQueueApplyLimits", "EventQueueClear", "EventQueueDeinit",
    "StreamCapacity", "StreamFreeStream", "BorrowBoxCreate", "BorrowBoxView",
    "BorrowBoxDeinit", "BorrowViewView", "BorrowViewNewChild", "BorrowViewGet",
    "BorrowViewExplode", "BorrowChildGet", "BorrowChildDeinit", "TerminalInit",
    "TerminalBlinkIntervalMs", "TerminalCols", "TerminalRows",
    "TerminalMaxScrollbackBytes", "TerminalDeinit", "EchoQueueSignal",
    "LiveBorrowChildren", "InspectTicker", "LiveStreams", "LiveQueues",
    "LiveSamples", "LiveLimits", "LiveSelectionStrings", "NewTicker",
    "TickerFreeTicker", "TickerAdvance", "TickerElapsed", "LiveTickers">>

EventQueueOrder == EventQueueOrder1 \o EventQueueOrder2

EventQueueLibrary ==
  [fns |-> EventQueueFns, raw |-> EventQueueRaw, order |-> EventQueueOrder, outs |-> 5]

-----------------------------------------------------------------------------
(* 08-telemetry-hub: native_gen.go.                                        *)

TelemetryFns1 ==
     Takes({"TelemetryHubCreate"}, 8, 1)
  @@ Takes({"TelemetryHubRename"}, 3, 0)
  @@ Takes({"TelemetryHubName"}, 3, 2)
  @@ Takes({"TelemetryHubReduce"}, 4, 1)
  @@ Takes({"TelemetryHubCapacity", "TelemetryHubLen", "TelemetryHubIsEmpty",
         "TelemetryHubIsFull", "TelemetryHubMode"}, 2, 1)

TelemetryFns2 ==
     Takes({"TelemetryHubSetMode", "TelemetryHubSetOverflowPolicy",
         "TelemetryHubSetEnabled", "TelemetryHubProcess"}, 3, 1)
  @@ Takes({"TelemetryHubOverflowPolicy", "TelemetryHubEnabled",
         "TelemetryHubThreshold", "TelemetryHubScaleFactor",
         "TelemetryHubOffset"}, 2, 1)
  @@ Takes({"TelemetryHubPushBatch"}, 3, 0)

TelemetryFns3 ==
     Takes({"TelemetryHubProcessAll", "TelemetryHubClear", "TelemetryHubAccepted",
         "TelemetryHubRejected", "TelemetryHubDropped",
         "TelemetryHubProcessed", "TelemetryHubFiltered", "TelemetryHubSum",
         "TelemetryHubMinimum", "TelemetryHubMaximum"}, 2, 1)
  @@ Takes({"TelemetryHubResetStatistics"}, 1, 0)

TelemetryFns4 ==
     Takes({"TelemetryHubAverage", "TelemetryHubFirstID",
         "TelemetryHubFirstValue", "TelemetryHubLastID",
         "TelemetryHubLastValue", "TelemetryHubLastSeverity"}, 2, 1)
  @@ Takes({"TelemetryHubAbsoluteValues", "TelemetryHubNegateValues",
         "TelemetryHubDeinit"}, 1, 0)
  @@ Takes({"LiveHubs"}, 0, 0)

TelemetryFns == TelemetryFns1 @@ TelemetryFns2 @@ TelemetryFns3 @@ TelemetryFns4

TelemetryRaw1 ==
     Raw({"TelemetryHubCreate", "TelemetryHubReduce", "TelemetryHubCapacity",
         "TelemetryHubLen", "TelemetryHubIsEmpty", "TelemetryHubIsFull",
         "TelemetryHubMode", "TelemetryHubSetMode",
         "TelemetryHubOverflowPolicy", "TelemetryHubSetOverflowPolicy",
         "TelemetryHubEnabled", "TelemetryHubSetEnabled",
         "TelemetryHubThreshold", "TelemetryHubScaleFactor",
         "TelemetryHubOffset"}, "scalar")
  @@ Raw({"TelemetryHubRename", "TelemetryHubSetThreshold",
         "TelemetryHubSetScaleFactor"}, "status")
  @@ Raw({"TelemetryHubName"}, "copied")

TelemetryRaw2 ==
     Raw({"TelemetryHubSetOffset", "TelemetryHubPush",
         "TelemetryHubPushWithSeverity", "TelemetryHubPushBatch",
         "TelemetryHubResetStatistics"}, "status")
  @@ Raw({"TelemetryHubProcess", "TelemetryHubProcessAll", "TelemetryHubClear",
         "TelemetryHubAccepted", "TelemetryHubRejected", "TelemetryHubDropped",
         "TelemetryHubProcessed", "TelemetryHubFiltered", "TelemetryHubSum",
         "TelemetryHubMinimum", "TelemetryHubMaximum", "TelemetryHubAverage",
         "TelemetryHubFirstID", "TelemetryHubFirstValue", "TelemetryHubLastID",
         "TelemetryHubLastValue"}, "scalar")

TelemetryRaw3 ==
     Raw({"TelemetryHubLastSeverity"}, "scalar")
  @@ Raw({"TelemetryHubCountAbove", "TelemetryHubCountBelow",
         "TelemetryHubContainsAbove", "TelemetryHubContainsBelow",
         "TelemetryHubScaleValues", "TelemetryHubOffsetValues",
         "TelemetryHubClampValues", "TelemetryHubAbsoluteValues",
         "TelemetryHubNegateValues", "TelemetryHubDeinit"}, "status")
  @@ Raw({"LiveHubs"}, "value")

TelemetryRaw == TelemetryRaw1 @@ TelemetryRaw2 @@ TelemetryRaw3

TelemetryOrder1 ==
  <<"LastError", "PanicMessage", "TelemetryHubCreate", "TelemetryHubRename",
    "TelemetryHubName", "TelemetryHubReduce", "TelemetryHubCapacity",
    "TelemetryHubLen", "TelemetryHubIsEmpty", "TelemetryHubIsFull",
    "TelemetryHubMode", "TelemetryHubSetMode", "TelemetryHubOverflowPolicy",
    "TelemetryHubSetOverflowPolicy", "TelemetryHubEnabled",
    "TelemetryHubSetEnabled", "TelemetryHubThreshold",
    "TelemetryHubSetThreshold", "TelemetryHubScaleFactor",
    "TelemetryHubSetScaleFactor", "TelemetryHubOffset", "TelemetryHubSetOffset",
    "TelemetryHubPush", "TelemetryHubPushWithSeverity", "TelemetryHubPushBatch",
    "TelemetryHubProcess", "TelemetryHubProcessAll", "TelemetryHubClear",
    "TelemetryHubResetStatistics", "TelemetryHubAccepted",
    "TelemetryHubRejected", "TelemetryHubDropped", "TelemetryHubProcessed",
    "TelemetryHubFiltered", "TelemetryHubSum", "TelemetryHubMinimum",
    "TelemetryHubMaximum">>

TelemetryOrder2 ==
  <<"TelemetryHubAverage", "TelemetryHubFirstID", "TelemetryHubFirstValue",
    "TelemetryHubLastID", "TelemetryHubLastValue", "TelemetryHubLastSeverity",
    "TelemetryHubCountAbove", "TelemetryHubCountBelow",
    "TelemetryHubContainsAbove", "TelemetryHubContainsBelow",
    "TelemetryHubScaleValues", "TelemetryHubOffsetValues",
    "TelemetryHubClampValues", "TelemetryHubAbsoluteValues",
    "TelemetryHubNegateValues", "TelemetryHubDeinit", "LiveHubs">>

TelemetryOrder == TelemetryOrder1 \o TelemetryOrder2

TelemetryLibrary ==
  [fns |-> TelemetryFns, raw |-> TelemetryRaw, order |-> TelemetryOrder, outs |-> 2]

-----------------------------------------------------------------------------
(* 10-tagged-union: raw_gen.go.                                            *)

TaggedUnionFns1 ==
     Takes({"PaletteFlags", "ChildCreate", "ChildGet", "ValueCreate"}, 2, 1)
  @@ Takes({"PaletteSetFlags", "PaletteSetPinnedMode", "ValueSetFlag"}, 2, 0)
  @@ Takes({"PalettePinnedMode", "PaletteName"}, 3, 2)
  @@ Takes({"ChildDeinit", "ValueSetNone"}, 1, 0)

TaggedUnionFns2 ==
     Takes({"ValueSetMode", "ValueSetChild", "SignalSetTicks", "SignalSetOffset",
         "SignalSetMode", "SignalSetActive"}, 2, 0)
  @@ Takes({"ValueUsePresetSamples", "ValueUseEmptySamples",
         "ValueUseMutableSamples", "ValueDeinit", "SignalSetIdle"}, 1, 0)
  @@ Takes({"ValueBorrow", "SignalCreate"}, 2, 1)

TaggedUnionFns3 ==
     Takes({"SignalDeinit", "PaletteDeinit", "EchoRgb", "FlattenFlags"}, 1, 0)
  @@ Takes({"PaletteCreate", "MaybeRgb", "CheckedRgb"}, 2, 1)
  @@ Takes({"LiveValues", "PanicError"}, 0, 0)
  @@ Takes({"ScrollAmount"}, 7, 0)
  @@ Takes({"CurrentViewport", "EchoColorRecord", "VisitFlags"}, 2, 0)

TaggedUnionFns == TaggedUnionFns1 @@ TaggedUnionFns2 @@ TaggedUnionFns3

TaggedUnionRaw1 ==
     Raw({"PaletteFlags", "PalettePinnedMode", "ChildCreate", "ChildGet",
         "ValueCreate", "ValueBorrow", "SignalCreate"}, "scalar")
  @@ Raw({"PaletteSetFlags", "PaletteSetPinnedMode", "ChildDeinit",
         "ValueSetNone", "ValueSetFlag", "ValueSetMode",
         "ValueUsePresetSamples", "ValueUseEmptySamples",
         "ValueUseMutableSamples", "ValueSetChild", "ValueDeinit",
         "SignalSetIdle", "SignalSetTicks", "SignalSetLevel"}, "status")
  @@ Raw({"PaletteName"}, "copied")

TaggedUnionRaw2 ==
     Raw({"SignalSetOffset", "SignalSetMode", "SignalSetActive", "SignalDeinit",
         "PaletteDeinit", "Divide", "CurrentViewport", "PanicError",
         "ValueProjectTag", "ValueProjectInteger", "ValueProjectFlag",
         "ValueProjectMode"}, "status")
  @@ Raw({"PaletteCreate", "MaybeRgb", "CheckedRgb"}, "scalar")
  @@ Raw({"LiveValues", "Sum", "ScrollAmount", "EchoRgb", "EchoColorRecord",
         "FlattenFlags", "VisitFlags"}, "value")

TaggedUnionRaw3 ==
     Raw({"ValueProjectSamples", "ValueProjectMutableSamples"}, "copied")
  @@ Raw({"ValueProjectChild", "SignalProjectTag", "SignalProjectTicks",
         "SignalProjectLevel", "SignalProjectOffset", "SignalProjectMode",
         "SignalProjectActive", "SignalReadSnapshot"}, "status")

TaggedUnionRaw == TaggedUnionRaw1 @@ TaggedUnionRaw2 @@ TaggedUnionRaw3

TaggedUnionOrder1 ==
  <<"LastError", "PanicMessage", "PaletteFlags", "PaletteSetFlags",
    "PalettePinnedMode", "PaletteSetPinnedMode", "PaletteName", "ChildCreate",
    "ChildGet", "ChildDeinit", "ValueCreate", "ValueSetNone", "ValueSetFlag",
    "ValueSetMode", "ValueUsePresetSamples", "ValueUseEmptySamples",
    "ValueUseMutableSamples", "ValueSetChild", "ValueBorrow", "ValueDeinit",
    "SignalCreate", "SignalSetIdle", "SignalSetTicks", "SignalSetLevel",
    "SignalSetOffset", "SignalSetMode", "SignalSetActive", "SignalDeinit",
    "PaletteCreate", "PaletteDeinit", "LiveValues", "Divide", "Sum",
    "ScrollAmount", "CurrentViewport", "EchoRgb", "MaybeRgb">>

TaggedUnionOrder2 ==
  <<"CheckedRgb", "EchoColorRecord", "FlattenFlags", "VisitFlags", "PanicError",
    "Projection0", "Projection1", "Projection2", "Projection3", "Projection4",
    "Projection5", "Projection6", "Projection7", "Projection8", "Projection9",
    "Projection10", "Projection11", "Projection12", "Snapshot0">>

TaggedUnionOrder == TaggedUnionOrder1 \o TaggedUnionOrder2

TaggedUnionLibrary ==
  [fns |-> TaggedUnionFns, raw |-> TaggedUnionRaw, order |-> TaggedUnionOrder, outs |-> 2]

-----------------------------------------------------------------------------
(* 04-callback: raw_gen.go.                                                *)

CallbackFns1 ==
     Takes({"CallbackContextRunCount", "FloatBufferLen", "IntBufferLen"}, 2, 1)
  @@ Takes({"CallbackContextSetRunCount", "IntBufferPush"}, 2, 0)
  @@ Takes({"CallbackContextCreate", "CallbackContextRun"}, 3, 1)
  @@ Takes({"CallbackContextDeinit", "FloatBufferDeinit", "IntBufferDeinit"}, 1, 0)
  @@ Takes({"FloatBufferCreate", "IntBufferCreate"}, 1, 1)

CallbackFns2 ==
     Takes({"PanicNow"}, 0, 0)
  @@ Takes({"CompressionBound", "ReadShared"}, 1, 0)
  @@ Takes({"IncrementShared"}, 2, 0)
  @@ Takes({"Apply", "Notify"}, 3, 0)
  @@ Takes({"ApplyUntilCancelled"}, 5, 1)
  @@ Takes({"Filter", "Reduce", "LogMessage"}, 4, 0)
  @@ Takes({"EmitChunks"}, 5, 0)
  @@ Takes({"Inspect"}, 6, 1)

CallbackFns3 ==
     Takes({"VisitCodepoints"}, 4, 0)

CallbackFns == CallbackFns1 @@ CallbackFns2 @@ CallbackFns3

CallbackRaw1 ==
     Raw({"CallbackContextRunCount", "CallbackContextCreate",
         "CallbackContextRun", "FloatBufferCreate", "FloatBufferLen",
         "IntBufferCreate", "IntBufferLen", "ApplyUntilCancelled"}, "scalar")
  @@ Raw({"CallbackContextSetRunCount", "CallbackContextDeinit",
         "FloatBufferPush", "FloatBufferDeinit", "IntBufferPush",
         "IntBufferDeinit", "PanicNow"}, "status")
  @@ Raw({"CompressionBound", "IncrementShared", "ReadShared", "Apply",
         "Notify", "Filter", "Reduce"}, "value")

CallbackRaw2 ==
     Raw({"LogMessage", "EmitChunks", "VisitCodepoints"}, "value")
  @@ Raw({"Inspect"}, "scalar")

CallbackRaw == CallbackRaw1 @@ CallbackRaw2

CallbackOrder ==
  <<"LastError", "PanicMessage", "CallbackContextRunCount",
    "CallbackContextSetRunCount", "CallbackContextCreate", "CallbackContextRun",
    "CallbackContextDeinit", "FloatBufferCreate", "FloatBufferPush",
    "FloatBufferLen", "FloatBufferDeinit", "IntBufferCreate", "IntBufferPush",
    "IntBufferLen", "IntBufferDeinit", "PanicNow", "CompressionBound",
    "IncrementShared", "ReadShared", "Apply", "ApplyUntilCancelled", "Notify",
    "Filter", "Reduce", "LogMessage", "EmitChunks", "Inspect",
    "VisitCodepoints">>

CallbackLibrary ==
  [fns |-> CallbackFns, raw |-> CallbackRaw, order |-> CallbackOrder, outs |-> 1]

-----------------------------------------------------------------------------
(* 11-io-streams: raw_gen.go.                                              *)

StreamsFns1 ==
     Takes({"DocumentCreate", "SinkCreate"}, 1, 1)
  @@ Takes({"DocumentDeinit", "SinkFlush"}, 1, 0)
  @@ Takes({"DocumentAppend", "DocumentAppendString", "DocumentDump"}, 3, 0)
  @@ Takes({"DocumentCount"}, 2, 1)
  @@ Takes({"DocumentLoad"}, 6, 1)
  @@ Takes({"DocumentReadInto", "SinkWrite"}, 4, 1)

StreamsFns2 ==
     Takes({"SinkCount"}, 2, 1)
  @@ Takes({"SinkDeinit", "SourceDeinit"}, 1, 0)
  @@ Takes({"SinkPush", "Banner"}, 3, 0)
  @@ Takes({"SourceCreate", "FillCodepoints"}, 3, 1)
  @@ Takes({"SourceRead"}, 4, 1)
  @@ Takes({"Tee"}, 7, 1)
  @@ Takes({"SumCodepoints"}, 2, 0)
  @@ Takes({"TakeCodepoints"}, 2, 2)

StreamsFns3 ==
     Takes({"FreeCodepoints"}, 2, 0)

StreamsFns == StreamsFns1 @@ StreamsFns2 @@ StreamsFns3

StreamsRaw1 ==
     Raw({"DocumentCreate", "DocumentCount", "DocumentLoad", "DocumentReadInto",
         "SinkCreate", "SinkWrite", "SinkCount", "SourceCreate", "SourceRead"},
        "scalar")
  @@ Raw({"DocumentDeinit", "DocumentAppend", "DocumentAppendString",
         "DocumentDump", "SinkFlush", "SinkDeinit", "SinkPush", "SourceDeinit"},
        "status")

StreamsRaw2 ==
     Raw({"Banner"}, "status")
  @@ Raw({"Tee", "FillCodepoints"}, "scalar")
  @@ Raw({"SumCodepoints", "FreeCodepoints"}, "value")
  @@ Freeing({"TakeCodepoints"}, "owned", "FreeCodepoints")

StreamsRaw == StreamsRaw1 @@ StreamsRaw2

StreamsOrder ==
  <<"LastError", "PanicMessage", "DocumentCreate", "DocumentDeinit",
    "DocumentAppend", "DocumentAppendString", "DocumentCount", "DocumentDump",
    "DocumentLoad", "DocumentReadInto", "SinkCreate", "SinkWrite", "SinkFlush",
    "SinkCount", "SinkDeinit", "SinkPush", "SourceCreate", "SourceRead",
    "SourceDeinit", "Banner", "Tee", "SumCodepoints", "FillCodepoints",
    "TakeCodepoints", "FreeCodepoints">>

StreamsLibrary ==
  [fns |-> StreamsFns, raw |-> StreamsRaw, order |-> StreamsOrder, outs |-> 2]

-----------------------------------------------------------------------------
(* 12-materialized: raw_gen.go.                                            *)

MaterializedFns1 ==
     Takes({"LegacyLeafValue", "LegacyProbeCreate", "LegacyProbeID",
         "LegacyProbeActive", "LegacyProbeChild", "CursorCount"}, 2, 1)
  @@ Takes({"LegacyProbeDeinit"}, 1, 0)
  @@ Takes({"CursorCreate"}, 3, 1)
  @@ Takes({"CursorNext", "CursorNextChecked"}, 3, 2)

MaterializedFns2 ==
     Takes({"CursorDeinit"}, 1, 0)
  @@ Takes({"OptionalSnapshot", "Fill"}, 3, 2)
  @@ Takes({"OptionalBatch"}, 4, 2)
  @@ Takes({"OptionalBatchChecked"}, 5, 2)
  @@ Takes({"ReleasedBuffers", "WireVersion"}, 0, 0)
  @@ Takes({"Snapshot", "ProbeMany"}, 2, 2)
  @@ Takes({"Release"}, 2, 0)

MaterializedFns == MaterializedFns1 @@ MaterializedFns2

MaterializedRaw1 ==
     Raw({"LegacyLeafValue", "LegacyProbeCreate", "LegacyProbeID",
         "LegacyProbeActive", "LegacyProbeChild", "CursorCreate",
         "CursorCount"}, "scalar")
  @@ Raw({"LegacyProbeDeinit", "CursorDeinit"}, "status")
  @@ Freeing({"CursorNext", "CursorNextChecked", "OptionalSnapshot",
         "OptionalBatch", "OptionalBatchChecked"}, "view", "Release")
  @@ Raw({"ReleasedBuffers"}, "value")

MaterializedRaw2 ==
     Freeing({"Snapshot", "ProbeMany", "Fill"}, "view", "Release")
  @@ Raw({"WireVersion", "Release"}, "value")

MaterializedRaw == MaterializedRaw1 @@ MaterializedRaw2

MaterializedOrder ==
  <<"LastError", "PanicMessage", "LegacyLeafValue", "LegacyProbeCreate",
    "LegacyProbeID", "LegacyProbeActive", "LegacyProbeChild",
    "LegacyProbeDeinit", "CursorCreate", "CursorNext", "CursorNextChecked",
    "CursorCount", "CursorDeinit", "OptionalSnapshot", "OptionalBatch",
    "OptionalBatchChecked", "ReleasedBuffers", "Snapshot", "ProbeMany", "Fill",
    "WireVersion", "Release">>

MaterializedLibrary ==
  [fns |-> MaterializedFns, raw |-> MaterializedRaw, order |-> MaterializedOrder, outs |-> 2]

-----------------------------------------------------------------------------
(* 03-opaque: raw_gen.go.                                                  *)

OpaqueFns1 ==
     Takes({"ContextCreate"}, 1, 1)
  @@ Takes({"ContextAdd", "ContextAddCopy"}, 3, 1)
  @@ Takes({"ContextMaybeTotal"}, 4, 2)
  @@ Takes({"ContextSetTotal"}, 2, 0)
  @@ Takes({"ContextNext", "ContextNextChecked"}, 3, 2)
  @@ Takes({"ContextRewind", "ContextCrash"}, 1, 0)
  @@ Takes({"ContextBorrowView"}, 2, 1)

OpaqueFns2 ==
     Takes({"ContextCrashInfallible", "ContextViewTotal"}, 2, 1)
  @@ Takes({"ContextDeinit", "Fallback"}, 1, 0)
  @@ Takes({"CrashFatal", "LiveBytes"}, 0, 0)
  @@ Takes({"SumCopies"}, 4, 1)
  @@ Takes({"Echo"}, 4, 2)

OpaqueFns == OpaqueFns1 @@ OpaqueFns2

OpaqueRaw ==
     Raw({"ContextCreate", "ContextAdd", "ContextMaybeTotal", "ContextNext",
         "ContextNextChecked", "ContextAddCopy", "ContextBorrowView",
         "ContextCrashInfallible", "ContextViewTotal", "SumCopies"}, "scalar")
  @@ Raw({"ContextSetTotal", "ContextRewind", "ContextCrash", "ContextDeinit"},
        "status")
  @@ Raw({"CrashFatal", "LiveBytes", "Fallback"}, "value")
  @@ Raw({"Echo"}, "copied")

OpaqueOrder ==
  <<"LastError", "PanicMessage", "ContextCreate", "ContextAdd",
    "ContextMaybeTotal", "ContextSetTotal", "ContextNext", "ContextNextChecked",
    "ContextRewind", "ContextAddCopy", "ContextBorrowView", "ContextCrash",
    "ContextCrashInfallible", "ContextDeinit", "ContextViewTotal", "CrashFatal",
    "LiveBytes", "SumCopies", "Echo", "Fallback">>

OpaqueLibrary ==
  [fns |-> OpaqueFns, raw |-> OpaqueRaw, order |-> OpaqueOrder, outs |-> 2]

-----------------------------------------------------------------------------
(* What the packages have in common.                                       *)

Libraries ==
  {EventQueueLibrary, TelemetryLibrary, TaggedUnionLibrary, CallbackLibrary,
   StreamsLibrary, MaterializedLibrary, OpaqueLibrary}

\* The wrappers of a library that go through a frame.
FramedCalls(library) ==
  {WrapperCall(library.fns[n], library.raw[n].how,
               IF library.raw[n].frees = "none" THEN 0
               ELSE library.fns[library.raw[n].frees].args) :
     n \in DOMAIN library.fns \intersect DOMAIN library.raw}

\* The arguments of every function fit its package's frame, every function is
\* among the symbols that are resolved, once each, and what a wrapper frees its
\* result with takes the address and the length.
ASSUME TablesAssumption ==
  \A library \in Libraries :
    LET symbols == {library.order[i] : i \in DOMAIN library.order} IN
    /\ Cardinality(symbols) = Len(library.order)
    /\ DOMAIN library.fns \subseteq symbols
    /\ \A n \in DOMAIN library.fns :
         library.fns[n].args <= 8 /\ library.fns[n].outs <= library.outs
    /\ \A call \in FramedCalls(library) :
         call.how \in {"owned", "view"} => call.outs = 2 /\ call.freeArgs \in {2, 3}
=============================================================================

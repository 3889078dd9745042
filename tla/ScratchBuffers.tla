---------------------------- MODULE ScratchBuffers -----------------------------
(***************************************************************************)
(* zigoScratch of the generated *_handles_gen.go: the raw buffer a handle  *)
(* lends its own calls that convert through one, as Estimate of an event   *)
(* queue does.  take swaps the buffer out, give puts it back unless        *)
(* another call already has, release drops it; all three are one atomic    *)
(* operation on the pointer and calls make them from any goroutine.        *)
(***************************************************************************)
EXTENDS Naturals

CONSTANTS
  ScratchCalls,   \* calls of Estimate, one after another per element
  ScratchSlices,  \* the slices `new` can make, reused when nothing refers to them
  NoSlice,        \* nil
  MaxRows         \* bound on len(output)

ASSUME ScratchAssumption ==
  /\ NoSlice \notin ScratchSlices
  /\ MaxRows \in Nat

VARIABLES
  keptSlice,  \* the atomic pointer
  holds,      \* per call, the slice it took
  callStage,  \* per call, where it is
  sliceCap,   \* per slice, its capacity
  rows,       \* per slice, the call whose rows it holds
  wants,      \* per call, len(output)
  copiedRows  \* per call, whose rows it copied to its output

scratchVars == <<keptSlice, holds, callStage, sliceCap, rows, wants, copiedRows>>

Nobody == NoSlice  \* no rows yet

ScratchInit ==
  /\ keptSlice = NoSlice
  /\ holds = [c \in ScratchCalls |-> NoSlice]
  /\ callStage = [c \in ScratchCalls |-> "out"]
  /\ sliceCap = [s \in ScratchSlices |-> 0]
  /\ rows = [s \in ScratchSlices |-> Nobody]
  /\ wants = [c \in ScratchCalls |-> 0]
  /\ copiedRows = [c \in ScratchCalls |-> Nobody]

Unreferenced(s) == s # keptSlice /\ \A c \in ScratchCalls : holds[c] # s

\* Mutant: the buffer is lent and stays where the next call finds it.
SwapOutByLoading(s) ==
  /\ IF keptSlice # NoSlice THEN s = keptSlice ELSE Unreferenced(s)
  /\ UNCHANGED keptSlice

\* s.buffer.Swap(nil), and new([]T) if nothing was there.
SwapOut(s) ==
  /\ IF keptSlice # NoSlice THEN s = keptSlice ELSE Unreferenced(s)
  /\ keptSlice' = NoSlice

\* take: the slice has room for n rows, made afresh if it was too small.
take(c, s, n) ==
  /\ callStage[c] = "out"
  /\ SwapOut(s)
  /\ holds' = [holds EXCEPT ![c] = s]
  /\ callStage' = [callStage EXCEPT ![c] = "taken"]
  /\ wants' = [wants EXCEPT ![c] = n]
  /\ sliceCap' = [sliceCap EXCEPT ![s] = IF sliceCap[s] < n THEN n ELSE sliceCap[s]]
  /\ rows' = [rows EXCEPT ![s] = IF sliceCap[s] < n THEN Nobody ELSE rows[s]]
  /\ copiedRows' = [copiedRows EXCEPT ![c] = Nobody]

\* Native code fills the rows.
FillRows(c) ==
  /\ callStage[c] = "taken"
  /\ rows' = [rows EXCEPT ![holds[c]] = c]
  /\ callStage' = [callStage EXCEPT ![c] = "filled"]
  /\ UNCHANGED <<keptSlice, holds, sliceCap, wants, copiedRows>>

\* The rows native code filled are copied to the caller's slice.
CopyRows(c) ==
  /\ callStage[c] = "filled"
  /\ copiedRows' = [copiedRows EXCEPT ![c] = rows[holds[c]]]
  /\ callStage' = [callStage EXCEPT ![c] = "copied"]
  /\ UNCHANGED <<keptSlice, holds, sliceCap, rows, wants>>

\* give, deferred: it runs however the call ended.
give(c) ==
  /\ callStage[c] # "out"
  /\ keptSlice' = IF keptSlice = NoSlice THEN holds[c] ELSE keptSlice
  /\ holds' = [holds EXCEPT ![c] = NoSlice]
  /\ callStage' = [callStage EXCEPT ![c] = "out"]
  /\ UNCHANGED <<sliceCap, rows, wants, copiedRows>>

\* ReleaseScratch, at any time.
ReleaseScratch ==
  /\ keptSlice' = NoSlice
  /\ UNCHANGED <<holds, callStage, sliceCap, rows, wants, copiedRows>>

ScratchNext ==
  \/ \E c \in ScratchCalls, s \in ScratchSlices, n \in 0..MaxRows : take(c, s, n)
  \/ \E c \in ScratchCalls : FillRows(c) \/ CopyRows(c) \/ give(c)
  \/ ReleaseScratch

ScratchSpec == ScratchInit /\ [][ScratchNext]_scratchVars

-----------------------------------------------------------------------------
\* Calls that run together on one handle never see each other's rows, whatever
\* the order of their take and give and of ReleaseScratch: a call copies out the
\* rows of its own native call, from a slice that had room for all of them.
RowsAreOwn ==
  \A c \in ScratchCalls :
    /\ copiedRows[c] \in {Nobody, c}
    /\ callStage[c] \in {"taken", "filled"} => wants[c] <= sliceCap[holds[c]]
=============================================================================

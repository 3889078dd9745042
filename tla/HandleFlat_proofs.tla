--------------------------- MODULE HandleFlat_proofs ---------------------------
(***************************************************************************)
(* Safety of the handle lifecycle on every flat forest: the inductive      *)
(* invariant of HandleFlat and the properties that follow from it. The     *)
(* invariant is established in layers, each one using those before it:     *)
(* the fields of the handles with the frames of the goroutines, then the   *)
(* pins, then what the collector and the destructors may do.               *)
(***************************************************************************)
EXTENDS HandleFlat, HandleLifecycle_proofs, FiniteSetTheorems

-----------------------------------------------------------------------------
(* What a step of one goroutine leaves alone.                              *)

\* The locals of actor b and its pins.
Untouched(b) ==
  /\ pc'[b] = pc[b] /\ op'[b] = op[b] /\ args'[b] = args[b] /\ k'[b] = k[b]
  /\ at'[b] = at[b] /\ caller'[b] = caller[b] /\ last'[b] = last[b]
  /\ child'[b] = child[b] /\ reservation'[b] = reservation[b]
  /\ orphan'[b] = orphan[b] /\ next'[b] = next[b]
  /\ \A i, h : <<b, i, h>> \in pins' <=> <<b, i, h>> \in pins

StepOf(a) ==
  \/ a \in Threads /\ (Start(a) \/ Proceed(a) \/ Close(a) \/ CloseView(a))
  \/ a = Collector /\ (CleanupStep(a) \/ \E h \in Handles : Collect(h))

\* No goroutine writes the locals of another.
LEMMA FootprintReleaseNext ==
  ASSUME TypeInv, NEW a \in Actors, NEW b \in Actors, a # b, NEW h, ReleaseNext(a, h),
         UNCHANGED pins, UNCHANGED orphan \/ orphan' = [orphan EXCEPT ![a] = NoHandle],
         UNCHANGED next \/ next' = [next EXCEPT ![a] = NoHandle]
  PROVE  Untouched(b)
BY DEF ReleaseNext, Unwind, Return, Goto, Untouched, call, TypeInv, TypeOK

LEMMA FootprintTake ==
  ASSUME TypeInv, NEW a \in Actors, NEW b \in Actors, a # b, NEW h, NEW then,
         Take(a, h, then), UNCHANGED <<k, caller, last, call, reservation>>,
         \A i, g : <<b, i, g>> \in pins' <=> <<b, i, g>> \in pins
  PROVE  Untouched(b)
BY DEF Take, Goto, Untouched, call, TypeInv, TypeOK

LEMMA FootprintCleanup ==
  ASSUME TypeInv, NEW a \in Actors, NEW b \in Actors, a # b, CleanupStep(a)
  PROVE  Untouched(b)
<1>1. ASSUME DropOrReturn(a), UNCHANGED pins PROVE Untouched(b)
  <2>1. CASE orphan[a] # NoHandle
    BY <1>1, <2>1 DEF DropOrReturn, Goto, Untouched, call, teardown, TypeInv, TypeOK
  <2>2. CASE orphan[a] = NoHandle
    BY <1>1, <2>2, FootprintReleaseNext DEF DropOrReturn
  <2>. QED  BY <2>1, <2>2
<1>2. CASE Deinit(a) /\ at[a] \in RetainsCallbacks
  BY <1>2 DEF Deinit, Goto, Untouched, call, teardown, TypeInv, TypeOK
<1>3. CASE Deinit(a) /\ at[a] \notin RetainsCallbacks
  BY <1>1, <1>3 DEF Deinit
<1>4. CASE DeleteCallbackHandles(a)
  BY <1>1, <1>4 DEF DeleteCallbackHandles
<1>5. CASE DropChild(a)
  BY <1>5, FootprintReleaseNext DEF DropChild
<1>. QED  BY <1>2, <1>3, <1>4, <1>5 DEF CleanupStep

LEMMA FootprintPin ==
  ASSUME TypeInv, NEW t \in Actors, NEW b \in Actors, t # b, Pin(t)
  PROVE  Untouched(b)
<1>1. /\ reservation'[b] = reservation[b] /\ UNCHANGED <<call, teardown>>
      /\ pins' = pins \union {<<t, k[t], at[t]>>} /\ Pinned(t, at[t])
  BY DEF Pin, TypeInv, TypeOK
<1>2. \A i, h : <<b, i, h>> \in pins' <=> <<b, i, h>> \in pins
  BY <1>1
<1>3. /\ pc'[b] = pc[b] /\ k'[b] = k[b] /\ at'[b] = at[b] /\ caller'[b] = caller[b]
      /\ last'[b] = last[b]
  BY <1>1 DEF Pinned, BeginAcquire, Goto, TypeInv, TypeOK
<1>. QED  BY <1>1, <1>2, <1>3 DEF Untouched, call, teardown

LEMMA FootprintRelease ==
  ASSUME TypeInv, NEW t \in Actors, NEW b \in Actors, t # b, Release(t)
  PROVE  Untouched(b)
<1>1. \A i, h : <<b, i, h>> \in pins' <=> <<b, i, h>> \in pins
  BY DEF Release
<1>2. CASE Take(t, at[t], up[at[t]]) /\ UNCHANGED <<k, caller, last, call, reservation>>
  BY <1>1, <1>2, FootprintTake
<1>3. CASE ReleaseNext(t, up[at[t]]) /\ UNCHANGED <<ptr, up, teardown>>
  BY <1>1, <1>3 DEF ReleaseNext, Unwind, Return, Goto, Untouched, call, teardown, TypeInv, TypeOK
<1>. QED  BY <1>2, <1>3 DEF Release

LEMMA FootprintOther ==
  ASSUME TypeInv, NEW t \in Actors, NEW b \in Actors, t # b,
         \/ Start(t) \/ Lookup(t) \/ PinRefused(t) \/ NativeEnds(t) \/ Poison(t)
         \/ DropReservation(t) \/ Close(t) \/ CloseView(t)
  PROVE  Untouched(b)
<1>1. CASE Start(t)
  <2>1. PICK o, s, c : Begin(t, o, s, c)
    BY <1>1 DEF Start, StartCall, StartNew, StartView
  <2>. QED
    BY <2>1 DEF Begin, BeginAcquire, Goto, Untouched, teardown, TypeInv, TypeOK
<1>2. CASE Lookup(t)
  BY <1>2 DEF Lookup, Goto, Untouched, call, teardown, TypeInv, TypeOK
<1>3. CASE PinRefused(t)
  BY <1>3, FootprintReleaseNext DEF PinRefused, teardown
<1>4. CASE NativeEnds(t)
  BY <1>4
  DEF NativeEnds, NativeReturns, NativeMakesChild, NativeMakesView, NativePanics, Leave,
      Goto, Untouched, call, teardown, TypeInv, TypeOK
<1>5. CASE Poison(t)
  BY <1>5 DEF Poison, Leave, Goto, Untouched, call, teardown, TypeInv, TypeOK
<1>6. CASE DropReservation(t)
  BY <1>6 DEF DropReservation, Return, Goto, Untouched, teardown, TypeInv, TypeOK
<1>7. CASE Close(t)
  BY <1>7, FootprintTake DEF Close, Untouched, call, teardown
<1>8. CASE CloseView(t)
  BY <1>8 DEF CloseView, Untouched, walk, call, teardown
<1>. QED  BY <1>1, <1>2, <1>3, <1>4, <1>5, <1>6, <1>7, <1>8

LEMMA Footprint ==
  ASSUME TypeInv, NEW a \in Actors, NEW b \in Actors, a # b, StepOf(a)
  PROVE  Untouched(b)
<1>1. CASE a = Collector /\ \E h \in Handles : Collect(h)
  BY <1>1 DEF Collect, Goto, Untouched, call, TypeInv, TypeOK
<1>2. CASE CleanupStep(a)
  BY <1>2, FootprintCleanup
<1>3. CASE Start(a) \/ Close(a) \/ CloseView(a)
  BY <1>3, FootprintOther
<1>4. CASE Proceed(a)
  BY <1>4, FootprintCleanup, FootprintPin, FootprintRelease, FootprintOther DEF Proceed
<1>. QED
  BY <1>1, <1>2, <1>3, <1>4 DEF StepOf

LEMMA Steps == Next => \/ \E a \in Actors : StepOf(a)
                       \/ \E h \in Handles : Forget(h)
                       \/ UNCHANGED vars
<1>1. ASSUME NEW t \in Threads, Start(t) \/ Proceed(t) \/ Close(t) \/ CloseView(t)
      PROVE  t \in Actors /\ StepOf(t)
  BY <1>1, ActorsType DEF StepOf
<1>2. ASSUME CleanupStep(Collector) PROVE Collector \in Actors /\ StepOf(Collector)
  BY <1>2, ActorsType DEF StepOf
<1>3. ASSUME NEW h \in Handles, Collect(h) PROVE Collector \in Actors /\ StepOf(Collector)
  BY <1>3, ActorsType DEF StepOf
<1>4. CASE \E t \in Threads : Start(t) \/ Proceed(t) \/ Close(t) \/ CloseView(t)
  BY <1>1, <1>4
<1>5. CASE CleanupStep(Collector)
  BY <1>2, <1>5
<1>6. CASE \E h \in Handles : Forget(h) \/ Collect(h)
  BY <1>3, <1>6
<1>7. Rest => UNCHANGED vars
  BY DEF Rest
<1>. QED  BY <1>4, <1>5, <1>6, <1>7 DEF Next

-----------------------------------------------------------------------------
(* First layer: the fields of the handles, the operations and the frames.  *)

Layer1 == TypeInv /\ FieldsInv /\ OpInv /\ WalkInv

\* Every handle that points above itself lies right below what it points to.
LEMMA UpIsAbove ==
  ASSUME TypeInv, FieldsInv, NEW h \in Handles, up[h] # NoHandle
  PROVE  /\ up[h] \in Handles /\ up[h] \in made /\ ptr[h] /\ h \in made
         /\ Depth[h] = Depth[up[h]] + 1
         /\ h \in Views => up[h] = Creator[h]
         /\ h \notin Views => h \in Dependents /\ up[h] \in Roots
<1>1. up[h] \in Handles /\ up[h] \in made /\ ptr[h] /\ h \in made /\ h \notin Roots
  BY DEF TypeInv, TypeOK, FieldsInv
<1>2. CASE h \in Views
  BY <1>1, <1>2, FlatAssumption DEF FieldsInv
<1>3. CASE h \notin Views
  <2>1. h \in Dependents
    BY <1>1, <1>3 DEF Roots, Dependents
  <2>2. up[h] \in Roots
    BY <1>1, <2>1 DEF FieldsInv
  <2>3. Depth[h] = 1 /\ Depth[up[h]] = 0
    BY <2>1, <2>2, FlatAssumption
  <2>. QED  BY <1>1, <1>3, <2>1, <2>2, <2>3
<1>. QED  BY <1>2, <1>3

\* Nothing lies above a handle in use that points nowhere.
LEMMA TopIsRoot ==
  ASSUME FieldsInv, NEW h \in Handles, ptr[h], up[h] = NoHandle
  PROVE  h \in Roots /\ Depth[h] = 0
<1>1. h \notin Views
  <2>1. SUFFICES ASSUME h \in Views PROVE FALSE
    OBVIOUS
  <2>2. Creator[h] = NoHandle
    BY <2>1 DEF FieldsInv
  <2>. QED  BY <2>1, <2>2, ShapeAssumption DEF Roots
<1>2. h \notin Dependents
  BY ShapeAssumption, HandlesAssumption DEF FieldsInv, Roots
<1>3. h \in Roots
  BY <1>1, <1>2 DEF Roots, Dependents
<1>. QED  BY <1>3, FlatAssumption

\* What a handle made once can still lose: its pointer, and its parent with it.
Stable ==
  /\ made \subseteq made'
  /\ \A h \in made : ptr'[h] => ptr[h] /\ up'[h] = up[h]

\* The steps that write the fields the layers below rest on.
LEMMA WritersOfFields ==
  ASSUME NEW a \in Actors, StepOf(a)
  PROVE  \/ UNCHANGED <<ptr, up, made, closed>>
         \/ /\ a \in Threads
            /\ \/ NativeMakesChild(a) \/ NativeMakesView(a) \/ Release(a)
               \/ Close(a) \/ CloseView(a)
<1>1. ASSUME Start(a) PROVE UNCHANGED <<ptr, up, made, closed>>
  BY <1>1 DEF Start, StartCall, StartNew, StartView, Begin, fields, program
<1>2. ASSUME CleanupStep(a) PROVE UNCHANGED <<ptr, up, made, closed>>
  BY <1>2 DEF CleanupStep, Deinit, DeleteCallbackHandles, DropChild, fields, program
<1>3. ASSUME Proceed(a), ~NativeMakesChild(a), ~NativeMakesView(a), ~Release(a)
      PROVE  UNCHANGED <<ptr, up, made, closed>>
  BY <1>2, <1>3
  DEF Proceed, Lookup, Pin, PinRefused, NativeEnds, NativeReturns, NativePanics, Poison,
      DropReservation, fields, program
<1>4. ASSUME NEW h \in Handles, Collect(h) PROVE UNCHANGED <<ptr, up, made, closed>>
  BY <1>4 DEF Collect
<1>. QED  BY <1>1, <1>2, <1>3, <1>4 DEF StepOf

LEMMA FieldsStep ==
  ASSUME Layer1, [Next]_vars
  PROVE  FieldsInv' /\ Stable
<1>1. CASE UNCHANGED <<ptr, up, made, closed>>
  BY <1>1 DEF Layer1, FieldsInv, Stable
<1>2. ASSUME NEW t \in Threads, NativeMakesChild(t) PROVE FieldsInv' /\ Stable
  <2>1. /\ made' = made \union {child[t]} /\ ptr' = [ptr EXCEPT ![child[t]] = TRUE]
        /\ up' = [up EXCEPT ![child[t]] = reservation[t]] /\ closed' = closed
        /\ pc[t] = "native" /\ op[t] = "new"
    BY <1>2 DEF NativeMakesChild
  <2>2. /\ child[t] \in Dependents /\ child[t] \notin made
        /\ reservation[t] \in Roots /\ reservation[t] \in made
    BY <2>1, ActorsType DEF Layer1, OpInv, OpOf
  <2>3. child[t] \in Handles \ Views /\ child[t] \notin Roots
    BY <2>2 DEF Dependents, Roots
  <2>4. FieldsInv'
    BY <2>1, <2>2, <2>3 DEF Layer1, TypeInv, TypeOK, FieldsInv
  <2>. QED  BY <2>1, <2>2, <2>3, <2>4 DEF Layer1, TypeInv, TypeOK, Stable
<1>3. ASSUME NEW t \in Threads, NativeMakesView(t) PROVE FieldsInv' /\ Stable
  <2>1. /\ made' = made \union {child[t]} /\ ptr' = [ptr EXCEPT ![child[t]] = TRUE]
        /\ up' = [up EXCEPT ![child[t]] = Creator[child[t]]] /\ closed' = closed
        /\ pc[t] = "native" /\ op[t] = "view"
    BY <1>3 DEF NativeMakesView
  <2>2. /\ child[t] \in Views /\ child[t] \notin made /\ args[t] = <<Creator[child[t]]>>
        /\ \A i \in 1..Len(args[t]) : args[t][i] \in made
    BY <2>1, ActorsType DEF Layer1, OpInv, OpOf
  <2>3. /\ child[t] \in Handles /\ child[t] \notin Dependents /\ child[t] \notin Roots
        /\ Creator[child[t]] \in made
    BY <2>2, ShapeAssumption DEF Dependents, Roots
  <2>4. FieldsInv'
    BY <2>1, <2>2, <2>3 DEF Layer1, TypeInv, TypeOK, FieldsInv
  <2>. QED  BY <2>1, <2>2, <2>3, <2>4 DEF Layer1, TypeInv, TypeOK, Stable
<1>4. ASSUME NEW h \in Handles, closed'[h], made' = made,
             ptr' = [ptr EXCEPT ![h] = FALSE], up' = [up EXCEPT ![h] = NoHandle],
             \A g \in Handles : closed[g] => closed'[g]
      PROVE  FieldsInv' /\ Stable
  BY <1>4 DEF Layer1, TypeInv, TypeOK, FieldsInv, Stable
<1>5. ASSUME UNCHANGED <<ptr, up, made>>, \A g \in Handles : closed[g] => closed'[g]
      PROVE  FieldsInv' /\ Stable
  BY <1>5 DEF Layer1, FieldsInv, Stable
<1>6. ASSUME NEW t \in Threads, Release(t) PROVE FieldsInv' /\ Stable
  <2>1. at[t] \in Handles
    BY <1>6, ActorsType DEF Release, Layer1, TypeInv, TypeOK, FrameInv
  <2>. QED
    BY <1>4, <1>5, <1>6, <2>1 DEF Release, Take, program
<1>7. ASSUME NEW t \in Threads, Close(t) \/ CloseView(t) PROVE FieldsInv' /\ Stable
  <2>1. PICK h \in Handles :
          /\ closed' = [closed EXCEPT ![h] = TRUE] /\ made' = made
          /\ \/ ptr' = [ptr EXCEPT ![h] = FALSE] /\ up' = [up EXCEPT ![h] = NoHandle]
             \/ UNCHANGED <<ptr, up>>
    BY <1>7, ShapeAssumption DEF Close, CloseView, Take, program
  <2>2. closed'[h] /\ \A g \in Handles : closed[g] => closed'[g]
    BY <2>1 DEF Layer1, TypeInv, TypeOK
  <2>. QED  BY <1>4, <1>5, <2>1, <2>2
<1>8. CASE UNCHANGED vars
  BY <1>1, <1>8 DEF vars, fields, program
<1>9. ASSUME NEW h \in Handles, Forget(h) PROVE FieldsInv' /\ Stable
  BY <1>1, <1>9 DEF Forget, fields
<1>10. ASSUME NEW a \in Actors, StepOf(a) PROVE FieldsInv' /\ Stable
  BY <1>1, <1>2, <1>3, <1>6, <1>7, <1>10, WritersOfFields
<1>. QED  BY <1>8, <1>9, <1>10, Steps

LEMMA MadeGrows == ASSUME NEW a \in Actors, StepOf(a) PROVE made' \subseteq made \union {child[a]}
BY WritersOfFields DEF NativeMakesChild, NativeMakesView, Release, Close, CloseView, program

\* What a goroutine knows of its own operation survives the steps of the others.
LEMMA OthersKeepOp ==
  ASSUME Layer1, Stable, NEW a \in Actors, NEW b \in Actors, a # b, Untouched(b),
         made' \subseteq made \union {child[a]}
  PROVE  OpOf(b)'
<1>1. OpOf(b) /\ (child[b] # NoHandle => child[b] # child[a])
  BY DEF Layer1, OpInv
<1>2. ASSUME child[b] \in Handles, child[b] \notin made PROVE child[b] \notin made'
  BY <1>1, <1>2, HandlesAssumption
<1>3. Dependents \subseteq Handles /\ Views \subseteq Handles
  BY ShapeAssumption DEF Dependents
<1>. QED  BY <1>1, <1>2, <1>3 DEF OpOf, Untouched, Stable

LEMMA OthersKeepWalk ==
  ASSUME Layer1, Stable, NEW b \in Threads, Untouched(b)
  PROVE  WalkOf(b)'
BY DEF Layer1, WalkInv, WalkOf, FrameOf, Untouched, Stable

\* The operation of a goroutine and the handles its acquire walks through.
OwnOf(a) == OpOf(a) /\ (a \in Threads => WalkOf(a))

LEMMA OwnReleaseNext ==
  ASSUME Layer1, NEW a \in Actors, NEW h \in Handles \union {NoHandle}, pc[a] # "idle",
         ReleaseNext(a, h), op[a] = "none" => h = NoHandle,
         next'[a] = NoHandle, orphan'[a] = NoHandle, made' = made
  PROVE  OwnOf(a)' /\ child'[a] \in {child[a], NoHandle}
<1>1. /\ OpOf(a) /\ k[a] \in Nat \ {0}
      /\ pc \in [Actors -> PCs] /\ op \in [Actors -> {"none", "call", "new", "view"}]
      /\ args \in [Actors -> Seq(Handles)] /\ k \in [Actors -> Nat \ {0}]
      /\ child \in [Actors -> Handles \union {NoHandle}]
  BY DEF Layer1, OpInv, TypeInv, TypeOK
<1>2. CASE h # NoHandle
  <2>1. /\ pc'[a] = "release" /\ UNCHANGED <<k, op, args, child, reservation>>
        /\ op[a] # "none"
    BY <1>1, <1>2 DEF ReleaseNext, Goto, call
  <2>. QED  BY <1>1, <2>1 DEF OwnOf, OpOf, WalkOf, Tearing, Acquiring
<1>3. CASE h = NoHandle /\ k[a] > 1
  <2>1. /\ pc'[a] = "release" /\ UNCHANGED <<op, args, child, reservation>>
        /\ k'[a] = k[a] - 1
    BY <1>1, <1>3 DEF ReleaseNext, Unwind, Goto, call
  <2>2. op[a] # "none" /\ Len(args[a]) \in Nat /\ k[a] \in 1..Len(args[a])
    BY <1>1, <1>3 DEF OpOf
  <2>3. k'[a] \in 1..Len(args'[a])
    BY <1>3, <2>1, <2>2
  <2>. QED  BY <1>1, <2>1, <2>2, <2>3 DEF OwnOf, OpOf, WalkOf, Tearing, Acquiring
<1>4. CASE h = NoHandle /\ ~(k[a] > 1) /\ reservation[a] # NoHandle
  <2>1. /\ pc'[a] = "unreserve" /\ UNCHANGED <<k, op, args, child, reservation>>
    BY <1>1, <1>4 DEF ReleaseNext, Unwind, Goto, call
  <2>2. op[a] # "none"
    BY <1>1, <1>4 DEF OpOf
  <2>. QED  BY <1>1, <2>1, <2>2 DEF OwnOf, OpOf, WalkOf, Tearing, Acquiring
<1>5. CASE h = NoHandle /\ ~(k[a] > 1) /\ reservation[a] = NoHandle
  <2>1. k[a] = 1
    BY <1>1, <1>5
  <2>2. /\ pc'[a] = "idle" /\ op'[a] = "none" /\ args'[a] = <<>> /\ child'[a] = NoHandle
        /\ UNCHANGED <<k, reservation>>
    BY <1>1, <1>5 DEF ReleaseNext, Unwind, Return, Goto
  <2>. QED  BY <1>5, <2>1, <2>2 DEF OwnOf, OpOf, WalkOf, Tearing, Acquiring
<1>. QED  BY <1>2, <1>3, <1>4, <1>5

LEMMA OwnStart ==
  ASSUME Layer1, NEW t \in Threads, Start(t)
  PROVE  /\ OwnOf(t)'
         /\ \A b \in Actors \ {t} : child'[t] # NoHandle => child'[t] # child[b]
<1>0. t \in Actors
  BY ActorsType
<1>1. ASSUME NEW o \in {"call", "new", "view"}, NEW s \in Seq(Handles), s # <<>>,
             NEW c \in Handles \union {NoHandle}, Begin(t, o, s, c),
             \A i \in 1..Len(s) : s[i] \in made,
             o = "call" => c = NoHandle,
             o = "new" => Len(s) = 1 /\ s[1] \in Makers /\ c \in Dependents \ made,
             o = "view" => c \in Views \ made /\ s = <<Creator[c]>>
      PROVE  OwnOf(t)' /\ child'[t] = c
  <2>1. /\ pc[t] = "idle" /\ op'[t] = o /\ args'[t] = s /\ child'[t] = c /\ at'[t] = s[1]
        /\ caller'[t] = [g \in Handles |-> NoHandle]
        /\ UNCHANGED <<k, reservation, next, orphan, made, ptr>>
        /\ pc'[t] = FirstStep(o, s[1])
    BY <1>0, <1>1
    DEF Begin, BeginAcquire, Goto, Idle, teardown, program, fields, Layer1, TypeInv, TypeOK
  <2>2. /\ op[t] = "none" /\ k[t] = 1 /\ reservation[t] = NoHandle
        /\ next[t] = NoHandle /\ orphan[t] = NoHandle
    BY <1>0, <2>1 DEF Layer1, OpInv, OpOf, Tearing
  <2>3. s[1] \in Handles /\ s[1] \in made /\ Len(s) \in Nat /\ Len(s) >= 1
    BY <1>1
  <2>4. pc'[t] \in Acquiring /\ (pc'[t] = "pin" => s[1] \notin Views)
    BY <2>1, ShapeAssumption DEF FirstStep, Acquiring
  <2>5. OpOf(t)'
    BY <1>1, <2>1, <2>2, <2>3, <2>4, HandlesAssumption DEF OpOf, Tearing, Acquiring
  <2>6. WalkOf(t)'
    BY <1>1, <2>1, <2>2, <2>3, <2>4 DEF WalkOf
  <2>. QED  BY <2>1, <2>5, <2>6 DEF OwnOf
<1>2. ASSUME NEW c \in Handles, NotBeingMade(c), NEW b \in Actors PROVE c # child[b]
  BY <1>2, HandlesAssumption DEF NotBeingMade, Actors, Layer1, OpInv, OpOf
<1>3. CASE StartCall(t)
  <2>1. PICK s \in Calls : (\A i \in DOMAIN s : Usable(s[i])) /\ Begin(t, "call", s, NoHandle)
    BY <1>3 DEF StartCall
  <2>2. s \in Seq(Handles) /\ s # <<>>
    BY ShapeAssumption
  <2>3. \A i \in 1..Len(s) : s[i] \in made
    BY <2>1, <2>2 DEF Usable
  <2>. QED  BY <1>1, <2>1, <2>2, <2>3
<1>4. CASE StartNew(t)
  <2>1. PICK c \in Dependents : /\ NotBeingMade(c) /\ Usable(Creator[c])
                                /\ Begin(t, "new", <<Creator[c]>>, c)
    BY <1>4 DEF StartNew
  <2>2. /\ c \in Handles /\ c \notin made /\ Creator[c] \in Handles /\ Creator[c] \in made
        /\ Creator[c] \in Makers
    BY <2>1, ShapeAssumption, FlatAssumption DEF Dependents, NotBeingMade, Usable
  <2>3. <<Creator[c]>> \in Seq(Handles) /\ Len(<<Creator[c]>>) = 1 /\ <<Creator[c]>> # <<>>
        /\ \A i \in 1..Len(<<Creator[c]>>) : <<Creator[c]>>[i] \in made
    BY <2>2
  <2>4. OwnOf(t)' /\ child'[t] = c
    BY <1>1, <2>1, <2>2, <2>3
  <2>. QED  BY <1>2, <2>1, <2>2, <2>4
<1>5. CASE StartView(t)
  <2>1. PICK v \in Views : /\ NotBeingMade(v) /\ Usable(Creator[v])
                           /\ Begin(t, "view", <<Creator[v]>>, v)
    BY <1>5 DEF StartView
  <2>2. /\ v \in Handles /\ v \notin made /\ Creator[v] \in Handles /\ Creator[v] \in made
    BY <2>1, ShapeAssumption DEF Roots, NotBeingMade, Usable
  <2>3. <<Creator[v]>> \in Seq(Handles) /\ <<Creator[v]>> # <<>>
        /\ \A i \in 1..Len(<<Creator[v]>>) : <<Creator[v]>>[i] \in made
    BY <2>2
  <2>4. OwnOf(t)' /\ child'[t] = v
    BY <1>1, <2>1, <2>2, <2>3
  <2>. QED  BY <1>2, <2>1, <2>2, <2>4
<1>. QED  BY <1>3, <1>4, <1>5 DEF Start

LEMMA OwnLookup == ASSUME Layer1, NEW t \in Threads, Lookup(t) PROVE OwnOf(t)' /\ child'[t] = child[t]
<1>0. /\ t \in Actors /\ pc[t] = "lookup" /\ OpOf(t) /\ WalkOf(t) /\ at[t] \in Handles
      /\ UNCHANGED <<ptr, up, made, k, op, args, child, reservation, next, orphan>>
  <2>1. t \in Actors /\ pc[t] = "lookup"
    BY ActorsType DEF Lookup
  <2>. QED
    BY <2>1
    DEF Lookup, Layer1, OpInv, WalkInv, TypeInv, TypeOK, FrameInv, fields, program, call, teardown
<1>1. CASE \E u \in Handles :
             /\ u = up[at[t]] /\ (op[t] = "new" => at[t] \in Views)
             /\ pc'[t] = FirstStep(op[t], u) /\ at'[t] = u
             /\ caller' = [caller EXCEPT ![t][u] = at[t]]
  <2>1. PICK u \in Handles :
          /\ u = up[at[t]] /\ (op[t] = "new" => at[t] \in Views)
          /\ pc'[t] = FirstStep(op[t], u) /\ at'[t] = u
          /\ caller' = [caller EXCEPT ![t][u] = at[t]]
    BY <1>1
  <2>2. /\ u \in made /\ Depth[at[t]] = Depth[u] + 1 /\ up[at[t]] # NoHandle /\ at[t] \in made
        /\ at[t] \in Views => u = Creator[at[t]]
    BY <1>0, <2>1, UpIsAbove, HandlesAssumption DEF Layer1
  <2>3. pc'[t] \in Acquiring /\ (pc'[t] = "pin" => u \notin Views)
    BY <2>1, ShapeAssumption DEF FirstStep, Acquiring
  <2>4. op[t] = "new" => at[t] \in Makers /\ u \in Makers
    BY <1>0, <2>1, <2>2, FlatAssumption DEF WalkOf, Acquiring
  <2>5. /\ caller'[t] = [caller[t] EXCEPT ![u] = at[t]]
        /\ caller[t] \in [Handles -> Handles \union {NoHandle}]
    BY <1>0, <2>1 DEF Layer1, TypeInv, TypeOK
  <2>6. at[t] # u
    <3>1. Depth[u] \in Nat /\ Depth[at[t]] \in Nat
      BY <1>0, FlatAssumption
    <3>. QED  BY <2>2, <3>1
  <2>7. WalkOf(t)'
    <3>0. PICK x \in Handles : x = at[t]
      BY <1>0
    <3>1. FrameOf(t, u, x)' /\ caller'[t][u] = x
      BY <1>0, <2>1, <2>2, <2>4, <2>5, <2>6, <3>0 DEF FrameOf, WalkOf, Acquiring
    <3>2. ASSUME NEW y \in Handles, y # u, caller[t][y] # NoHandle
          PROVE  FrameOf(t, y, caller[t][y])'
      BY <1>0, <2>5, <3>2, HandlesAssumption DEF FrameOf, WalkOf, Acquiring
    <3>. QED
      BY <1>0, <2>1, <2>2, <2>3, <2>4, <2>5, <3>1, <3>2, HandlesAssumption DEF WalkOf
  <2>8. OpOf(t)'
    BY <1>0, <2>3 DEF OpOf, Tearing, Acquiring
  <2>. QED  BY <1>0, <2>7, <2>8 DEF OwnOf
<1>2. CASE /\ pc'[t] = "pin" /\ UNCHANGED <<at, caller>>
           /\ up[at[t]] = NoHandle \/ at[t] \notin Views
  <2>1. at[t] \in Views => ~ptr[at[t]]
    BY <1>0, <1>2, TopIsRoot, ShapeAssumption DEF Layer1
  <2>2. WalkOf(t)'
    BY <1>0, <1>2, <2>1 DEF WalkOf, FrameOf, Acquiring
  <2>3. OpOf(t)'
    BY <1>0, <1>2 DEF OpOf, Tearing, Acquiring
  <2>. QED  BY <1>0, <2>2, <2>3 DEF OwnOf
<1>3. pc \in [Actors -> PCs] /\ at \in [Actors -> Handles \union {NoHandle}]
      /\ up[at[t]] \in Handles \union {NoHandle}
  BY <1>0 DEF Layer1, TypeInv, TypeOK
<1>4. CASE up[at[t]] # NoHandle /\ ~(op[t] = "new" /\ at[t] \notin Views)
  BY <1>0, <1>1, <1>3, <1>4 DEF Lookup, Goto
<1>5. CASE up[at[t]] = NoHandle \/ (op[t] = "new" /\ at[t] \notin Views)
  BY <1>0, <1>2, <1>3, <1>5 DEF Lookup, Goto
<1>. QED  BY <1>4, <1>5

LEMMA OwnPin == ASSUME Layer1, NEW t \in Threads, Pin(t) PROVE OwnOf(t)' /\ child'[t] = child[t]
<1>. DEFINE h == at[t]
<1>0. /\ t \in Actors /\ pc[t] = "pin" /\ OpOf(t) /\ WalkOf(t) /\ h \in Handles
      /\ k[t] \in Nat \ {0} /\ args[t] \in Seq(Handles) /\ Len(args[t]) \in Nat
      /\ pc \in [Actors -> PCs] /\ k \in [Actors -> Nat \ {0}]
      /\ at \in [Actors -> Handles \union {NoHandle}]
      /\ caller \in [Actors -> [Handles -> Handles \union {NoHandle}]]
      /\ reservation \in [Actors -> Handles \union {NoHandle}]
  <2>1. t \in Actors /\ pc[t] = "pin"
    BY ActorsType DEF Pin
  <2>. QED
    BY <2>1 DEF Layer1, OpInv, WalkInv, TypeInv, TypeOK, FrameInv
<1>1. /\ UNCHANGED <<ptr, up, made, op, args, child, next, orphan>>
      /\ Pinned(t, h) /\ ptr[h]
      /\ IF op[t] = "new" /\ reservation[t] = NoHandle
         THEN reservation'[t] = h ELSE reservation'[t] = reservation[t]
  BY <1>0 DEF Pin, Rejects, program, call, teardown
<1>2. /\ op[t] = "new" => reservation'[t] # NoHandle
      /\ reservation'[t] # NoHandle => op[t] = "new" /\ reservation'[t] \in Roots \intersect made
  <2>1. CASE op[t] = "new" /\ reservation[t] = NoHandle
    <3>1. h \in Makers /\ h \notin Views /\ h \in made
      BY <1>0, <1>1, <2>1 DEF WalkOf, Acquiring
    <3>2. h \in Roots
      BY <1>0, <3>1, FlatAssumption DEF Roots, Dependents
    <3>. QED  BY <1>0, <1>1, <2>1, <3>1, <3>2, HandlesAssumption
  <2>2. CASE ~(op[t] = "new" /\ reservation[t] = NoHandle)
    BY <1>0, <1>1, <2>2 DEF OpOf
  <2>. QED  BY <2>1, <2>2
<1>3. CASE caller[t][h] # NoHandle
  <2>1. pc'[t] = "pin" /\ at'[t] = caller[t][h] /\ UNCHANGED <<caller, k>>
    BY <1>0, <1>1, <1>3 DEF Pinned, Goto
  <2>2. FrameOf(t, h, caller[t][h])
    BY <1>0, <1>3 DEF WalkOf, Acquiring
  <2>3. WalkOf(t)'
    BY <1>0, <1>1, <1>2, <2>1, <2>2 DEF WalkOf, FrameOf, Acquiring
  <2>4. OpOf(t)'
    BY <1>0, <1>1, <1>2, <2>1 DEF OpOf, Acquiring, Tearing
  <2>. QED  BY <1>1, <2>3, <2>4 DEF OwnOf
<1>4. CASE caller[t][h] = NoHandle /\ k[t] < Len(args[t])
  <2>1. /\ pc'[t] = FirstStep(op[t], args[t][k[t] + 1]) /\ at'[t] = args[t][k[t] + 1]
        /\ k'[t] = k[t] + 1 /\ caller'[t] = [g \in Handles |-> NoHandle]
    BY <1>0, <1>1, <1>4 DEF Pinned, BeginAcquire, Goto
  <2>2. k'[t] \in 1..Len(args[t]) /\ k[t] + 1 = k'[t]
    BY <1>0, <1>4, <2>1
  <2>3. /\ op[t] # "none" /\ op[t] # "new" /\ at'[t] \in made /\ at'[t] = args'[t][k'[t]]
        /\ pc'[t] \in Acquiring
    <3>1. op[t] # "none"
      BY <1>0 DEF OpOf, Tearing
    <3>2. op[t] # "new"
      <4>1. op[t] = "new" => Len(args[t]) = 1
        BY <1>0 DEF OpOf
      <4>2. k[t] \in Nat \ {0} /\ Len(args[t]) \in Nat /\ k[t] < Len(args[t])
        BY <1>0, <1>4
      <4>3. Len(args[t]) # 1
        BY <4>2
      <4>. QED  BY <4>1, <4>3
    <3>. QED  BY <1>0, <1>1, <2>1, <2>2, <3>1, <3>2, FirstStepType DEF OpOf, Acquiring
  <2>4. at'[t] \in Handles
    BY <2>3 DEF Layer1, TypeInv, TypeOK
  <2>5. WalkOf(t)'
    BY <1>1, <2>1, <2>3, <2>4 DEF WalkOf
  <2>6. OpOf(t)'
    BY <1>0, <1>1, <1>2, <2>2, <2>3 DEF OpOf, Acquiring, Tearing
  <2>. QED  BY <1>1, <2>5, <2>6 DEF OwnOf
<1>5. CASE caller[t][h] = NoHandle /\ ~(k[t] < Len(args[t]))
  <2>1. pc'[t] = "native" /\ UNCHANGED <<at, k>>
    BY <1>0, <1>1, <1>5 DEF Pinned, Goto
  <2>2. OpOf(t)'
    BY <1>0, <1>1, <1>2, <2>1 DEF OpOf, Acquiring, Tearing
  <2>. QED  BY <1>1, <2>1, <2>2 DEF OwnOf, WalkOf, Acquiring
<1>. QED  BY <1>3, <1>4, <1>5

LEMMA OwnNativeEnds ==
  ASSUME Layer1, NEW t \in Threads, NativeEnds(t)
  PROVE  OwnOf(t)' /\ child'[t] \in {child[t], NoHandle}
<1>0. /\ t \in Actors /\ pc[t] = "native" /\ OpOf(t)
      /\ args[t] \in Seq(Handles) /\ Len(args[t]) \in Nat /\ Len(args[t]) > 0
      /\ pc \in [Actors -> PCs] /\ k \in [Actors -> Nat \ {0}]
      /\ child \in [Actors -> Handles \union {NoHandle}]
      /\ reservation \in [Actors -> Handles \union {NoHandle}]
  <2>1. t \in Actors /\ pc[t] = "native"
    BY ActorsType
    DEF NativeEnds, NativeReturns, NativeMakesChild, NativeMakesView, NativePanics
  <2>. QED
    BY <2>1 DEF Layer1, OpInv, TypeInv, TypeOK, FrameInv
<1>1. op[t] # "none"
  BY <1>0 DEF OpOf, Tearing
<1>2. made \subseteq made' /\ op' = op /\ args' = args /\ next' = next /\ orphan' = orphan
  BY DEF NativeEnds, NativeReturns, NativeMakesChild, NativeMakesView, NativePanics,
         program, call, teardown
<1>3. CASE NativePanics(t)
  <2>1. pc'[t] = "poison" /\ k'[t] = 1 /\ UNCHANGED <<child, reservation>>
    BY <1>0, <1>3 DEF NativePanics, Goto, call
  <2>2. k'[t] \in 1..Len(args[t])
    BY <1>0, <2>1
  <2>. QED
    BY <1>0, <1>1, <1>2, <2>1, <2>2 DEF OwnOf, OpOf, WalkOf, Tearing, Acquiring
<1>4. CASE ~NativePanics(t)
  <2>1. /\ pc'[t] = "release" /\ k' = k /\ child'[t] \in {child[t], NoHandle}
        /\ reservation'[t] \in {reservation[t], NoHandle}
    BY <1>0, <1>4
    DEF NativeEnds, NativeReturns, NativeMakesChild, NativeMakesView, Leave, Goto, call
  <2>. QED
    BY <1>0, <1>1, <1>2, <2>1 DEF OwnOf, OpOf, WalkOf, Tearing, Acquiring
<1>. QED  BY <1>3, <1>4

LEMMA OwnPoison ==
  ASSUME Layer1, NEW t \in Threads, Poison(t)
  PROVE  OwnOf(t)' /\ child'[t] = child[t]
<1>0. /\ t \in Actors /\ pc[t] = "poison" /\ OpOf(t)
      /\ args[t] \in Seq(Handles) /\ Len(args[t]) \in Nat /\ k[t] \in Nat \ {0}
      /\ pc \in [Actors -> PCs] /\ k \in [Actors -> Nat \ {0}]
      /\ UNCHANGED <<made, op, args, child, reservation, next, orphan>>
  <2>1. t \in Actors /\ pc[t] = "poison"
    BY ActorsType DEF Poison
  <2>. QED
    BY <2>1 DEF Poison, Layer1, OpInv, TypeInv, TypeOK, program, call, teardown
<1>1. op[t] # "none"
  BY <1>0 DEF OpOf, Tearing
<1>2. pc'[t] \in {"poison", "release"}
  BY <1>0 DEF Poison, Leave, Goto
<1>3. k'[t] = k[t] \/ (k[t] < Len(args[t]) /\ k'[t] = k[t] + 1)
  BY <1>0 DEF Poison
<1>4. k'[t] \in 1..Len(args[t])
  <2>1. k[t] \in 1..Len(args[t])
    BY <1>0, <1>1 DEF OpOf
  <2>. QED  BY <1>0, <1>3, <2>1
<1>. QED
  BY <1>0, <1>1, <1>2, <1>4 DEF OwnOf, OpOf, WalkOf, Tearing, Acquiring

LEMMA OwnTake ==
  ASSUME Layer1, NEW a \in Actors, NEW h, NEW then, Take(a, h, then),
         op[a] = "none" => then = NoHandle,
         UNCHANGED <<made, k, call, reservation>>
  PROVE  OwnOf(a)' /\ child'[a] = child[a]
<1>1. /\ OpOf(a) /\ pc'[a] = "deinit" /\ next'[a] = then
      /\ UNCHANGED <<made, k, op, args, child, reservation>>
  BY DEF Take, Goto, call, Layer1, OpInv, TypeInv, TypeOK
<1>. QED
  BY <1>1 DEF OwnOf, OpOf, WalkOf, Tearing, Acquiring

LEMMA OwnRelease ==
  ASSUME Layer1, NEW t \in Threads, Release(t)
  PROVE  OwnOf(t)' /\ child'[t] \in {child[t], NoHandle}
<1>0. /\ t \in Actors /\ pc[t] = "release" /\ OpOf(t) /\ made' = made /\ pc[t] # "idle"
      /\ at[t] \in Handles
  <2>1. t \in Actors /\ pc[t] = "release"
    BY ActorsType DEF Release
  <2>. QED
    BY <2>1 DEF Release, Layer1, OpInv, TypeInv, TypeOK, FrameInv, program
<1>1. op[t] # "none" /\ next[t] = NoHandle /\ orphan[t] = NoHandle
  BY <1>0 DEF OpOf, Tearing
<1>2. CASE Take(t, at[t], up[at[t]]) /\ UNCHANGED <<k, caller, last, call, reservation>>
  BY <1>0, <1>1, <1>2, OwnTake
<1>3. CASE ReleaseNext(t, up[at[t]]) /\ UNCHANGED <<ptr, up, teardown>>
  <2>1. up[at[t]] \in Handles \union {NoHandle}
    BY <1>0 DEF Layer1, TypeInv, TypeOK
  <2>2. next'[t] = NoHandle /\ orphan'[t] = NoHandle
    BY <1>1, <1>3 DEF teardown
  <2>. QED  BY <1>0, <1>1, <1>3, <2>1, <2>2, OwnReleaseNext
<1>. QED  BY <1>2, <1>3 DEF Release

LEMMA OwnCleanup ==
  ASSUME Layer1, NEW a \in Actors, CleanupStep(a)
  PROVE  OwnOf(a)' /\ child'[a] \in {child[a], NoHandle}
<1>0. /\ pc[a] \in Tearing /\ pc[a] # "idle" /\ OpOf(a) /\ made' = made
      /\ next[a] \in Handles \union {NoHandle}
      /\ op[a] = "none" => next[a] = NoHandle
      /\ pc \in [Actors -> PCs] /\ next \in [Actors -> Handles \union {NoHandle}]
      /\ orphan \in [Actors -> Handles \union {NoHandle}]
  <2>1. pc[a] \in Tearing /\ pc[a] # "idle" /\ made' = made
    BY DEF CleanupStep, Deinit, DeleteCallbackHandles, DropChild, program, Tearing
  <2>2. OpOf(a)
    BY DEF Layer1, OpInv
  <2>. QED
    BY <2>1, <2>2 DEF OpOf, Layer1, TypeInv, TypeOK
<1>1. ASSUME pc'[a] \in Tearing, UNCHANGED <<k, call, reservation, teardown>>
      PROVE  OwnOf(a)' /\ child'[a] = child[a]
  BY <1>0, <1>1 DEF OwnOf, OpOf, WalkOf, Tearing, Acquiring, call, teardown
<1>2. ASSUME DropOrReturn(a) PROVE OwnOf(a)' /\ child'[a] \in {child[a], NoHandle}
  <2>1. CASE orphan[a] # NoHandle
    BY <1>0, <1>1, <1>2, <2>1 DEF DropOrReturn, Goto, Tearing
  <2>2. CASE orphan[a] = NoHandle
    <3>1. ReleaseNext(a, next[a]) /\ next'[a] = NoHandle /\ orphan'[a] = NoHandle
      BY <1>0, <1>2, <2>2 DEF DropOrReturn
    <3>. QED  BY <1>0, <3>1, OwnReleaseNext
  <2>. QED  BY <2>1, <2>2
<1>3. CASE Deinit(a) /\ at[a] \in RetainsCallbacks
  BY <1>0, <1>1, <1>3 DEF Deinit, Goto, Tearing
<1>4. CASE Deinit(a) /\ at[a] \notin RetainsCallbacks
  BY <1>2, <1>4 DEF Deinit
<1>5. CASE DeleteCallbackHandles(a)
  BY <1>2, <1>5 DEF DeleteCallbackHandles
<1>6. CASE DropChild(a)
  <2>1. ReleaseNext(a, next[a]) /\ next'[a] = NoHandle /\ orphan'[a] = NoHandle
    BY <1>0, <1>6 DEF DropChild
  <2>. QED  BY <1>0, <2>1, OwnReleaseNext
<1>. QED  BY <1>3, <1>4, <1>5, <1>6 DEF CleanupStep

LEMMA OwnRest ==
  ASSUME Layer1, NEW a \in Actors,
         \/ a \in Threads /\ (PinRefused(a) \/ DropReservation(a) \/ Close(a) \/ CloseView(a))
         \/ a = Collector /\ \E h \in Handles : Collect(h)
  PROVE  OwnOf(a)' /\ child'[a] \in {child[a], NoHandle}
<1>0. /\ OpOf(a) /\ pc \in [Actors -> PCs] /\ last[a] \in Handles \union {NoHandle}
      /\ reservation \in [Actors -> Handles \union {NoHandle}]
      /\ next \in [Actors -> Handles \union {NoHandle}]
  BY DEF Layer1, OpInv, TypeInv, TypeOK
<1>1. CASE PinRefused(a)
  <2>1. pc[a] = "pin" /\ ReleaseNext(a, last[a]) /\ UNCHANGED <<made, next, orphan>>
    BY <1>1 DEF PinRefused, program, teardown
  <2>2. op[a] # "none" /\ next'[a] = NoHandle /\ orphan'[a] = NoHandle
    BY <1>0, <2>1 DEF OpOf, Tearing
  <2>. QED  BY <1>0, <2>1, <2>2, OwnReleaseNext
<1>2. CASE DropReservation(a)
  <2>1. /\ pc[a] = "unreserve" /\ pc'[a] = "idle" /\ op'[a] = "none" /\ args'[a] = <<>>
        /\ child'[a] = NoHandle /\ reservation'[a] = NoHandle
        /\ UNCHANGED <<made, k, next, orphan>>
    BY <1>0, <1>2
    DEF DropReservation, Return, Goto, Layer1, TypeInv, TypeOK, program, teardown
  <2>2. k[a] = 1 /\ next[a] = NoHandle /\ orphan[a] = NoHandle
    BY <1>0, <2>1 DEF OpOf, Tearing, Layer1, TypeInv, FrameInv
  <2>. QED  BY <2>1, <2>2 DEF OwnOf, OpOf, WalkOf, Tearing, Acquiring
<1>3. CASE Close(a)
  <2>1. PICK h \in Handles :
          /\ pc[a] = "idle" /\ UNCHANGED <<made, k, caller, last, call, reservation>>
          /\ \/ Take(a, h, NoHandle)
             \/ UNCHANGED <<ptr, up, teardown, at, pc>>
    BY <1>3 DEF Close, Idle, program
  <2>2. CASE Take(a, h, NoHandle)
    BY <2>1, <2>2, OwnTake
  <2>3. CASE UNCHANGED <<ptr, up, teardown, at, pc>>
    BY <1>0, <2>1, <2>3 DEF OwnOf, OpOf, WalkOf, Acquiring, call, teardown
  <2>. QED  BY <2>1, <2>2, <2>3
<1>4. CASE CloseView(a)
  BY <1>0, <1>4 DEF CloseView, Idle, OwnOf, OpOf, WalkOf, Acquiring, program, call, teardown
<1>5. CASE a = Collector /\ \E h \in Handles : Collect(h)
  <2>1. /\ pc[a] = "idle" /\ pc'[a] \in {"idle", "deinit"}
        /\ UNCHANGED <<made, k, call, reservation, next>>
        /\ pc'[a] = "idle" => orphan' = orphan
    BY <1>0, <1>5 DEF Collect, Goto, Idle
  <2>. QED
    BY <1>0, <2>1 DEF OwnOf, OpOf, WalkOf, Tearing, Acquiring, call
<1>. QED  BY <1>1, <1>2, <1>3, <1>4, <1>5

LEMMA OwnStep ==
  ASSUME Layer1, NEW a \in Actors, StepOf(a)
  PROVE  /\ OwnOf(a)'
         /\ \A b \in Actors \ {a} :
              child'[a] \in {child[a], NoHandle} \/ child'[a] # child[b]
<1>1. CASE a \in Threads /\ Start(a)
  BY <1>1, OwnStart
<1>2. CASE CleanupStep(a)
  BY <1>2, OwnCleanup
<1>3. CASE a \in Threads /\ Proceed(a)
  BY <1>2, <1>3, OwnLookup, OwnPin, OwnNativeEnds, OwnPoison, OwnRelease, OwnRest DEF Proceed
<1>4. CASE a \in Threads /\ (Close(a) \/ CloseView(a))
  BY <1>4, OwnRest
<1>5. CASE a = Collector /\ \E h \in Handles : Collect(h)
  BY <1>5, OwnRest
<1>. QED  BY <1>1, <1>2, <1>3, <1>4, <1>5 DEF StepOf

LEMMA Layer1Init == Init => Layer1
<1> SUFFICES ASSUME Init PROVE Layer1
  OBVIOUS
<1>1. FieldsInv
  BY HandlesAssumption, ShapeAssumption DEF Init, FieldsInv, Dependents, Roots
<1>2. OpInv
  BY HandlesAssumption, ActorsType DEF Init, OpInv, OpOf, Acquiring, Tearing
<1>3. WalkInv
  BY ActorsType DEF Init, WalkInv, WalkOf, Acquiring
<1>. QED  BY <1>1, <1>2, <1>3, TypeInvInit DEF Layer1

LEMMA Layer1Next == Layer1 /\ [Next]_vars => Layer1'
<1> SUFFICES ASSUME Layer1, [Next]_vars PROVE Layer1'
  OBVIOUS
<1>1. TypeInv' /\ FieldsInv' /\ Stable
  BY TypeInvNext, FieldsStep DEF Layer1
<1>2. CASE UNCHANGED vars
  BY <1>1, <1>2
  DEF vars, walk, call, teardown, program, fields, Layer1, OpInv, OpOf, WalkInv, WalkOf, FrameOf
<1>3. ASSUME NEW h \in Handles, Forget(h) PROVE OpInv' /\ WalkInv'
  BY <1>3
  DEF Forget, walk, call, teardown, program, fields, Layer1, OpInv, OpOf, WalkInv, WalkOf,
      FrameOf
<1>4. ASSUME NEW a \in Actors, StepOf(a) PROVE OpInv' /\ WalkInv'
  <2>1. \A b \in Actors \ {a} : Untouched(b)
    BY <1>4, Footprint DEF Layer1
  <2>2. made' \subseteq made \union {child[a]}
    BY <1>4, MadeGrows
  <2>3. OwnOf(a)' /\ \A b \in Actors \ {a} :
                       child'[a] \in {child[a], NoHandle} \/ child'[a] # child[b]
    BY <1>4, OwnStep
  <2>4. \A b \in Actors : OpOf(b)'
    BY <1>1, <2>1, <2>2, <2>3, OthersKeepOp DEF OwnOf
  <2>5. \A b \in Threads : WalkOf(b)'
    BY <1>1, <2>1, <2>3, OthersKeepWalk, ActorsType DEF OwnOf
  <2>6. \A b, c \in Actors : b # c /\ child'[b] # NoHandle => child'[b] # child'[c]
    BY <2>1, <2>3 DEF Untouched, Layer1, OpInv
  <2>7. op'[Collector] = "none"
    <3>1. CASE a # Collector
      BY <2>1, <3>1, ActorsType DEF Untouched, Layer1, OpInv
    <3>2. CASE a = Collector
      BY <1>4, <3>2, HandlesAssumption
      DEF StepOf, Collect, CleanupStep, Deinit, DeleteCallbackHandles, DropChild, DropOrReturn,
          ReleaseNext, Unwind, Return, call, Layer1, OpInv, TypeInv, TypeOK
    <3>. QED  BY <3>1, <3>2
  <2>. QED  BY <2>4, <2>5, <2>6, <2>7 DEF OpInv, WalkInv
<1>. QED  BY <1>1, <1>2, <1>3, <1>4, Steps DEF Layer1

-----------------------------------------------------------------------------
(* Second layer: the pins, and where each goroutine is, said in pins.      *)

Layer2 == Layer1 /\ PinsInv /\ PhaseInv

\* Everything PinsInv says of the pins of one goroutine.
PinsOf(t) ==
  \A i, h : <<t, i, h>> \in pins =>
    /\ i \in 1..Len(args[t]) /\ h \in Handles /\ ptr[h]
    /\ pc[t] \notin {"native", "poison"} => i <= k[t]
    /\ up[h] # NoHandle => <<t, i, up[h]>> \in pins
    /\ \A g \in Handles : <<t, i, g>> \in pins /\ Depth[g] = Depth[h] => g = h

LEMMA PinsByThread ==
  PinsInv <=> /\ pins \subseteq Threads \X Nat \X Handles /\ IsFiniteSet(pins)
              /\ ActiveCountsPins
              /\ \A t \in Threads : PinsOf(t)
<1>1. ASSUME PinsInv, NEW t \in Threads PROVE PinsOf(t)
  <2> SUFFICES ASSUME NEW i, NEW h, <<t, i, h>> \in pins PROVE PinsOf(t)!(i, h)
    BY DEF PinsOf
  <2>1. h \in Handles /\ i \in 1..Len(args[t])
    BY <1>1 DEF PinsInv
  <2>2. Chain(t, i)
    BY <1>1, <2>1 DEF PinsInv
  <2>. QED  BY <2>1, <2>2 DEF Chain
<1>2. ASSUME pins \subseteq Threads \X Nat \X Handles, \A t \in Threads : PinsOf(t)
      PROVE  /\ \A x \in pins : x[2] \in 1..Len(args[x[1]])
             /\ \A t \in Threads : \A i \in 1..Len(args[t]) : Chain(t, i)
  <2>1. ASSUME NEW x \in pins PROVE x[2] \in 1..Len(args[x[1]])
    <3>1. PICK t \in Threads, i \in Nat, h \in Handles : x = <<t, i, h>>
      BY <1>2, <2>1
    <3>2. i \in 1..Len(args[t])
      BY <1>2, <2>1, <3>1 DEF PinsOf
    <3>. QED  BY <3>1, <3>2
  <2>2. ASSUME NEW t \in Threads, NEW i \in 1..Len(args[t]) PROVE Chain(t, i)
    BY <1>2, <2>2 DEF PinsOf, Chain
  <2>. QED  BY <2>1, <2>2
<1>. QED  BY <1>1, <1>2 DEF PinsInv

\* Counting one pin in adds one to the count of its handle.
LEMMA CountPin ==
  ASSUME NEW P, NEW h, IsFiniteSet(P), NEW x, x \notin P, x[3] = h
  PROVE  /\ Cardinality({y \in P : y[3] = h}) \in Nat
         /\ Cardinality({y \in P \union {x} : y[3] = h}) = Cardinality({y \in P : y[3] = h}) + 1
<1>. DEFINE On == {y \in P : y[3] = h}
<1>1. IsFiniteSet(On) /\ Cardinality(On) \in Nat
  BY FS_Subset, FS_CardinalityType
<1>2. {y \in P \union {x} : y[3] = h} = On \union {x} /\ x \notin On
  OBVIOUS
<1>3. Cardinality(On \union {x}) = Cardinality(On) + 1
  BY <1>1, <1>2, FS_AddElement
<1>. QED  BY <1>1, <1>2, <1>3

LEMMA NobodyInside ==
  ASSUME PinsInv, NEW h \in Handles, active[h] = 0
  PROVE  \A t, i : <<t, i, h>> \notin pins
<1>1. IsFiniteSet(PinsOn(h)) /\ Cardinality(PinsOn(h)) = 0
  BY FS_Subset DEF PinsInv, ActiveCountsPins, PinsOn
<1>2. PinsOn(h) = {}
  BY <1>1, FS_EmptySet
<1>. QED  BY <1>2 DEF PinsOn

\* A handle somebody has pinned keeps its pointer.
KeepsPtr == \A h \in Handles : ptr[h] /\ (\E t, i : <<t, i, h>> \in pins') => ptr'[h]

LEMMA PinnedKeepPtr ==
  ASSUME Layer2, NEW a \in Actors, StepOf(a),
         \A h \in Handles : a \in Threads /\ Release(a) /\ Take(a, h, up[h]) =>
           \A t, i : <<t, i, h>> \notin pins'
  PROVE  KeepsPtr
<1>1. CASE UNCHANGED <<ptr, up, made, closed>>
  BY <1>1 DEF KeepsPtr
<1>2. CASE NativeMakesChild(a) \/ NativeMakesView(a)
  BY <1>2 DEF NativeMakesChild, NativeMakesView, KeepsPtr, Layer2, Layer1, TypeInv, TypeOK
<1>3. CASE a \in Threads /\ Release(a)
  <2>1. CASE Take(a, at[a], up[at[a]])
    <3>1. at[a] \in Handles /\ ptr' = [ptr EXCEPT ![at[a]] = FALSE]
      BY <1>3, <2>1 DEF Take, Release, Layer2, Layer1, TypeInv, TypeOK, FrameInv
    <3>2. \A t, i : <<t, i, at[a]>> \notin pins'
      BY <1>3, <2>1, <3>1
    <3>. QED  BY <3>1, <3>2 DEF KeepsPtr, Layer2, Layer1, TypeInv, TypeOK
  <2>2. CASE UNCHANGED ptr
    BY <2>2 DEF KeepsPtr
  <2>. QED  BY <1>3, <2>1, <2>2 DEF Release
<1>4. CASE Close(a) \/ CloseView(a)
  <2>1. PICK h \in Handles :
          /\ pins' = pins
          /\ ptr' = ptr \/ (active[h] = 0 /\ ptr' = [ptr EXCEPT ![h] = FALSE])
    BY <1>4, ShapeAssumption DEF Close, CloseView, Take
  <2>. QED
    BY <2>1, NobodyInside DEF KeepsPtr, Layer2, Layer1, TypeInv, TypeOK
<1>. QED  BY <1>1, <1>2, <1>3, <1>4, WritersOfFields

\* What a goroutine knows of its own pins survives the steps of the others.
LEMMA OthersKeepPins ==
  ASSUME Layer2, Stable, KeepsPtr, NEW t \in Threads, Untouched(t)
  PROVE  PinsOf(t)' /\ PhaseOf(t)'
<1>1. PinsOf(t) /\ PhaseOf(t) /\ WalkOf(t)
  BY PinsByThread DEF Layer2, PhaseInv, Layer1, WalkInv
<1>2. PinsOf(t)'
  <2> SUFFICES ASSUME NEW i, NEW h, <<t, i, h>> \in pins'
               PROVE  PinsOf(t)!(i, h)'
    BY DEF PinsOf
  <2>1. <<t, i, h>> \in pins
    BY DEF Untouched
  <2>2. PinsOf(t)!(i, h)
    BY <1>1, <2>1 DEF PinsOf
  <2>3. ptr'[h] /\ up'[h] = up[h]
    <3>1. h \in Handles /\ ptr[h] /\ h \in made
      BY <2>1, <2>2 DEF Layer2, Layer1, FieldsInv
    <3>2. ptr'[h]
      BY <3>1 DEF KeepsPtr
    <3>. QED  BY <3>1, <3>2 DEF Stable
  <2>. QED  BY <2>2, <2>3 DEF Untouched
<1>3. \A i, h : /\ Lowest(t, i, h)' <=> Lowest(t, i, h)
                /\ NonePinned(t, i)' <=> NonePinned(t, i)
                /\ LowestOrNone(t, i, h)' <=> LowestOrNone(t, i, h)
  BY DEF Lowest, NonePinned, LowestOrNone, Untouched
<1>4. PhaseOf(t)'
  BY <1>1, <1>3 DEF PhaseOf, Untouched, Stable, WalkOf, Acquiring
<1>. QED  BY <1>2, <1>4

\* Unwinding lets go of the arguments below, which are pinned still.
LEMMA PinsReleaseNext ==
  ASSUME Layer2, Layer1', NEW t \in Threads, NEW h \in Handles \union {NoHandle},
         ReleaseNext(t, h), pc[t] \notin {"idle", "native", "poison", "lookup"},
         NEW n, n = k[t], NEW s, s = args[t],
         \A i, g : <<t, i, g>> \in pins' => <<t, i, g>> \in pins,
         \A i, g : <<t, i, g>> \in pins' =>
           /\ ptr'[g] /\ up'[g] = up[g]
           /\ up[g] # NoHandle => <<t, i, up[g]>> \in pins',
         LowestOrNone(t, n, h)', \A j \in 1..(n - 1) : Lowest(t, j, s[j])'
  PROVE  PinsOf(t)' /\ PhaseOf(t)'
<1>0. /\ t \in Actors /\ PinsOf(t) /\ n \in Nat \ {0} /\ OpOf(t)
      /\ pc \in [Actors -> PCs] /\ k \in [Actors -> Nat \ {0}]
      /\ at \in [Actors -> Handles \union {NoHandle}]
  BY ActorsType, PinsByThread DEF Layer2, Layer1, OpInv, TypeInv, TypeOK
<1>1. \A i, g : <<t, i, g>> \in pins' =>
        /\ i \in 1..Len(s) /\ i <= n /\ i \in Nat /\ g \in Handles /\ ptr'[g]
        /\ up'[g] # NoHandle => <<t, i, up'[g]>> \in pins'
        /\ \A f \in Handles : <<t, i, f>> \in pins' /\ Depth[f] = Depth[g] => f = g
  <2> SUFFICES ASSUME NEW i, NEW g, <<t, i, g>> \in pins'
               PROVE  /\ i \in 1..Len(s) /\ i <= n /\ i \in Nat /\ g \in Handles /\ ptr'[g]
                      /\ up'[g] # NoHandle => <<t, i, up'[g]>> \in pins'
                      /\ \A f \in Handles : <<t, i, f>> \in pins' /\ Depth[f] = Depth[g] =>
                           f = g
    OBVIOUS
  <2>1. PinsOf(t)!(i, g)
    BY <1>0 DEF PinsOf
  <2>2. i \in 1..Len(s) /\ i <= n /\ i \in Nat
    BY <2>1
  <2>. QED  BY <2>1, <2>2
<1>2. CASE h # NoHandle
  <2>1. pc'[t] = "release" /\ at'[t] = h /\ k'[t] = n /\ args'[t] = s
    BY <1>0, <1>2 DEF ReleaseNext, Goto, call
  <2>2. Lowest(t, n, h)'
    BY <1>2 DEF LowestOrNone
  <2>3. PhaseOf(t)'
    BY <2>1, <2>2 DEF PhaseOf, Tearing
  <2>. QED  BY <1>1, <2>1, <2>3 DEF PinsOf
<1>3. CASE h = NoHandle /\ n > 1
  <2>1. pc'[t] = "release" /\ at'[t] = s[n - 1] /\ k'[t] = n - 1 /\ args'[t] = s
    BY <1>0, <1>3 DEF ReleaseNext, Unwind, Goto, call
  <2>2. PICK m \in Nat : m = n - 1
    BY <1>0
  <2>3. m \in 1..(n - 1) /\ \A j \in 1..(m - 1) : j \in 1..(n - 1)
    BY <1>0, <1>3, <2>2
  <2>4. \A i, g : <<t, i, g>> \in pins' => i <= m
    <3>1. \A g : <<t, n, g>> \notin pins'
      BY <1>1, <1>3 DEF LowestOrNone, NonePinned
    <3> SUFFICES ASSUME NEW i, NEW g, <<t, i, g>> \in pins' PROVE i <= m
      OBVIOUS
    <3>2. i \in Nat /\ i <= n /\ i # n
      BY <1>1, <3>1
    <3>. QED  BY <1>0, <2>2, <3>2
  <2>5. PhaseOf(t)'
    BY <2>1, <2>2, <2>3 DEF PhaseOf, Tearing
  <2>. QED  BY <1>1, <2>1, <2>2, <2>4, <2>5 DEF PinsOf
<1>4. CASE h = NoHandle /\ ~(n > 1)
  <2>1. n = 1
    BY <1>0, <1>4
  <2>2. \A i, g : <<t, i, g>> \notin pins'
    <3>1. \A g : <<t, n, g>> \notin pins'
      BY <1>1, <1>4 DEF LowestOrNone, NonePinned
    <3> SUFFICES ASSUME NEW i, NEW g, <<t, i, g>> \in pins' PROVE FALSE
      OBVIOUS
    <3>2. i \in 1..Len(s) /\ i \in Nat /\ i <= n /\ i # n
      BY <1>1, <3>1
    <3>. QED  BY <2>1, <3>2
  <2>3. pc'[t] \in {"unreserve", "idle"} /\ k'[t] = 1
    BY <1>0, <1>4, <2>1 DEF ReleaseNext, Unwind, Return, Goto
  <2>4. PhaseOf(t)'
    BY <2>1, <2>2, <2>3 DEF PhaseOf, NonePinned, Tearing
  <2>. QED  BY <2>2, <2>4 DEF PinsOf
<1>. QED  BY <1>2, <1>3, <1>4

-----------------------------------------------------------------------------
(* The pins of the goroutine that takes the step.                          *)

OwnPins(t) == PinsOf(t)' /\ PhaseOf(t)'

LEMMA NoPinsWithoutOperation ==
  ASSUME Layer2, NEW t \in Threads, op[t] = "none"
  PROVE  \A i, h : <<t, i, h>> \notin pins
<1>1. args[t] = <<>> /\ PinsOf(t)
  BY PinsByThread, ActorsType DEF Layer2, Layer1, OpInv, OpOf
<1>2. 1..Len(args[t]) = {}
  BY <1>1
<1>. QED  BY <1>1, <1>2 DEF PinsOf

LEMMA PinsStart == ASSUME Layer2, NEW t \in Threads, Start(t) PROVE OwnPins(t)
<1>1. PICK o, s, c :
        /\ o \in {"call", "new", "view"}
        /\ Begin(t, o, s, c)
        /\ s[1] \in Handles /\ s[1] \in made
        /\ o = "new" => s[1] \in Makers
  <2>1. CASE StartCall(t)
    <3>1. PICK s \in Calls : (\A i \in DOMAIN s : Usable(s[i])) /\ Begin(t, "call", s, NoHandle)
      BY <2>1 DEF StartCall
    <3>2. s \in Seq(Handles) /\ s # <<>>
      BY ShapeAssumption
    <3>3. s[1] \in Handles /\ Usable(s[1])
      BY <3>1, <3>2
    <3>. QED  BY <3>1, <3>3 DEF Usable
  <2>2. CASE StartNew(t)
    <3>1. PICK c \in Dependents : Usable(Creator[c]) /\ Begin(t, "new", <<Creator[c]>>, c)
      BY <2>2 DEF StartNew
    <3>2. Creator[c] \in Handles /\ Creator[c] \in Makers /\ Creator[c] \in made
      BY <3>1, ShapeAssumption, FlatAssumption DEF Dependents, Usable
    <3>. QED  BY <3>1, <3>2
  <2>3. CASE StartView(t)
    <3>1. PICK v \in Views : Usable(Creator[v]) /\ Begin(t, "view", <<Creator[v]>>, v)
      BY <2>3 DEF StartView
    <3>2. Creator[v] \in Handles /\ Creator[v] \in made
      BY <3>1, ShapeAssumption DEF Roots, Usable
    <3>. QED  BY <3>1, <3>2
  <2>. QED  BY <2>1, <2>2, <2>3 DEF Start
<1>2. /\ t \in Actors /\ pc[t] = "idle" /\ op[t] = "none" /\ k[t] = 1
  BY <1>1, ActorsType
  DEF Begin, Idle, Layer2, Layer1, OpInv, OpOf, TypeInv, FrameInv
<1>3. /\ pc'[t] = FirstStep(o, s[1]) /\ at'[t] = s[1] /\ last'[t] = NoHandle /\ k'[t] = 1
      /\ UNCHANGED <<pins, ptr, up>>
  BY <1>1, <1>2 DEF Begin, BeginAcquire, Goto, fields, Layer2, Layer1, TypeInv, TypeOK
<1>4. \A i, h : <<t, i, h>> \notin pins'
  BY <1>2, <1>3, NoPinsWithoutOperation
<1>5. pc'[t] = "pin" => s[1] \in Roots
  BY <1>1, <1>3, ShapeAssumption, FlatAssumption DEF FirstStep, Roots, Dependents
<1>6. pc'[t] = "pin" => up[s[1]] = NoHandle
  BY <1>5 DEF Layer2, Layer1, FieldsInv, Roots
<1>7. pc'[t] \in {"lookup", "pin"}
  BY <1>3, FirstStepType
<1>8. PhaseOf(t)'
  BY <1>3, <1>4, <1>6, <1>7 DEF PhaseOf, NonePinned, LowestOrNone, Tearing
<1>. QED  BY <1>4, <1>8 DEF OwnPins, PinsOf

LEMMA PinsLookup == ASSUME Layer2, NEW t \in Threads, Lookup(t) PROVE OwnPins(t)
<1>0. /\ t \in Actors /\ pc[t] = "lookup" /\ PinsOf(t) /\ PhaseOf(t) /\ WalkOf(t)
      /\ at[t] \in Handles /\ op[t] # "none"
      /\ pc \in [Actors -> PCs] /\ at \in [Actors -> Handles \union {NoHandle}]
      /\ UNCHANGED <<pins, ptr, up, k, args, op, last>>
  <2>1. t \in Actors /\ pc[t] = "lookup"
    BY ActorsType DEF Lookup
  <2>2. OpOf(t)
    BY <2>1 DEF Layer2, Layer1, OpInv
  <2>. QED
    BY <2>1, <2>2, PinsByThread, SMTT(30)
    DEF Lookup, OpOf, Tearing, Layer2, Layer1, OpInv, WalkInv, PhaseInv, TypeInv, TypeOK,
        FrameInv, fields, call
<1>1. last[t] = NoHandle /\ NonePinned(t, k[t])
  BY <1>0 DEF PhaseOf
<1>2. pc'[t] \in {"lookup", "pin"} /\ (pc'[t] = "pin" => up[at'[t]] = NoHandle)
  <2>1. CASE up[at[t]] # NoHandle /\ ~(op[t] = "new" /\ at[t] \notin Views)
    <3>1. PICK u \in Handles : /\ u = up[at[t]] /\ u \in made /\ at'[t] = u
                               /\ pc'[t] = FirstStep(op[t], u)
      BY <1>0, <2>1, UpIsAbove DEF Lookup, Goto, Layer2, Layer1
    <3>2. op[t] = "new" => u \in Makers
      <4>1. op[t] = "new" => at[t] \in Makers /\ u = Creator[at[t]]
        BY <1>0, <2>1, <3>1, UpIsAbove DEF WalkOf, Acquiring, Layer2, Layer1
      <4>. QED  BY <2>1, <4>1, FlatAssumption
    <3>3. pc'[t] = "pin" => u \in Roots
      BY <3>1, <3>2, ShapeAssumption, FlatAssumption DEF FirstStep, Roots, Dependents
    <3>. QED
      BY <3>1, <3>3, FirstStepType DEF Layer2, Layer1, FieldsInv, Roots
  <2>2. CASE up[at[t]] = NoHandle \/ (op[t] = "new" /\ at[t] \notin Views)
    <3>1. pc'[t] = "pin" /\ at'[t] = at[t]
      BY <1>0, <2>2 DEF Lookup, Goto
    <3>2. CASE op[t] = "new" /\ at[t] \notin Views
      <4>1. at[t] \in Makers
        BY <1>0, <3>2 DEF WalkOf, Acquiring
      <4>2. at[t] \in Roots
        BY <1>0, <3>2, <4>1, FlatAssumption DEF Roots, Dependents
      <4>. QED  BY <3>1, <4>2 DEF Layer2, Layer1, FieldsInv, Roots
    <3>. QED  BY <2>2, <3>1, <3>2
  <2>. QED  BY <2>1, <2>2
<1>3. PhaseOf(t)'
  BY <1>0, <1>1, <1>2 DEF PhaseOf, NonePinned, LowestOrNone, Lowest, Tearing
<1>4. PinsOf(t)'
  BY <1>0, <1>2 DEF PinsOf
<1>. QED  BY <1>3, <1>4 DEF OwnPins

LEMMA MoreThanOne == ASSUME NEW m \in Nat, NEW n \in Nat, m # 0, m < n PROVE n # 1
OBVIOUS

LEMMA PinsPin ==
  ASSUME Layer2, NEW t \in Threads, Pin(t), NEW h, h = at[t], NEW i, i = k[t],
         NEW s, s = args[t]
  PROVE  /\ OwnPins(t)
         /\ h \in Handles /\ <<t, i, h>> \notin pins
         /\ pins' = pins \union {<<t, i, h>>}
         /\ active' = [active EXCEPT ![h] = active[h] + 1]
<1>0. /\ t \in Actors /\ pc[t] = "pin" /\ PinsOf(t) /\ PhaseOf(t) /\ WalkOf(t) /\ OpOf(t)
      /\ h \in Handles /\ i \in Nat \ {0} /\ i \in 1..Len(args[t]) /\ Len(args[t]) \in Nat
      /\ \A g \in Handles : Depth[g] \in Nat
  <2>1. t \in Actors /\ pc[t] = "pin"
    BY ActorsType DEF Pin
  <2>2. OpOf(t) /\ args[t] \in Seq(Handles)
    BY <2>1 DEF Layer2, Layer1, OpInv, TypeInv, TypeOK
  <2>. QED
    BY <2>1, <2>2, PinsByThread, FlatAssumption, SMTT(30)
    DEF OpOf, Tearing, Layer2, Layer1, WalkInv, PhaseInv, TypeInv, TypeOK, FrameInv
<1>1. /\ pc \in [Actors -> PCs] /\ k \in [Actors -> Nat \ {0}]
      /\ at \in [Actors -> Handles \union {NoHandle}]
      /\ last \in [Actors -> Handles \union {NoHandle}]
      /\ last[t] \in Handles \union {NoHandle}
  BY <1>0 DEF Layer2, Layer1, TypeInv, TypeOK
<1>2. /\ ptr[h] /\ Pinned(t, h) /\ pins' = pins \union {<<t, i, h>>}
      /\ active' = [active EXCEPT ![h] = active[h] + 1]
      /\ UNCHANGED <<ptr, up, args, op>>
  BY DEF Pin, Rejects, call
<1>3. /\ LowestOrNone(t, i, last[t]) /\ up[h] = last[t]
      /\ last[t] # NoHandle => Depth[h] = Depth[last[t]] + 1
  BY <1>0, <1>2 DEF PhaseOf
\* Every handle this argument has pinned so far lies above h.
<1>4. \A g \in Handles : <<t, i, g>> \in pins => Depth[g] < Depth[h]
  <2> SUFFICES ASSUME NEW g \in Handles, <<t, i, g>> \in pins PROVE Depth[g] < Depth[h]
    OBVIOUS
  <2>1. last[t] # NoHandle /\ Depth[g] <= Depth[last[t]] /\ last[t] \in Handles
    BY <1>1, <1>3 DEF LowestOrNone, NonePinned, Lowest
  <2>. QED  BY <1>0, <1>3, <2>1
<1>5. <<t, i, h>> \notin pins
  BY <1>0, <1>4
<1>6. Lowest(t, i, h)'
  BY <1>0, <1>2, <1>4 DEF Lowest
<1>7. ASSUME NEW j, j # i, NEW g PROVE Lowest(t, j, g)' <=> Lowest(t, j, g)
  <2>1. \A f : <<t, j, f>> \in pins' <=> <<t, j, f>> \in pins
    BY <1>2, <1>7
  <2>. QED  BY <2>1 DEF Lowest
\* The arguments before this one are as they were.
<1>10. \A j \in 1..(i - 1) : Lowest(t, j, s[j])'
  <2>1. \A j \in 1..(i - 1) : j # i /\ Lowest(t, j, s[j])
    BY <1>0 DEF PhaseOf
  <2>. QED  BY <1>7, <2>1
\* The pins as before and the new one are a chain again.
<1>8. \A j, g : <<t, j, g>> \in pins' =>
        /\ j \in 1..Len(args[t]) /\ g \in Handles /\ ptr'[g] /\ j <= i
        /\ up'[g] # NoHandle => <<t, j, up'[g]>> \in pins'
        /\ \A f \in Handles : <<t, j, f>> \in pins' /\ Depth[f] = Depth[g] => f = g
  <2>1. ASSUME NEW j, NEW g, <<t, j, g>> \in pins
        PROVE  /\ j \in 1..Len(args[t]) /\ g \in Handles /\ ptr'[g] /\ j <= i
               /\ up'[g] # NoHandle => <<t, j, up'[g]>> \in pins'
               /\ \A f \in Handles : <<t, j, f>> \in pins' /\ Depth[f] = Depth[g] => f = g
    <3>1. PinsOf(t)!(j, g)
      BY <1>0 DEF PinsOf
    <3>2. j = i => Depth[g] < Depth[h] /\ Depth[g] \in Nat /\ Depth[h] \in Nat
      BY <1>0, <1>4, <2>1, <3>1
    <3>. QED  BY <1>0, <1>2, <2>1, <3>1, <3>2
  <2>2. /\ i \in 1..Len(args[t]) /\ ptr'[h] /\ i <= i
        /\ up'[h] # NoHandle => <<t, i, up'[h]>> \in pins'
    BY <1>0, <1>2, <1>3 DEF LowestOrNone, Lowest
  <2>3. \A f \in Handles : <<t, i, f>> \in pins' /\ Depth[f] = Depth[h] => f = h
    BY <1>0, <1>2, <1>4
  <2>. QED  BY <1>0, <1>2, <2>1, <2>2, <2>3
<1>9. CASE caller[t][h] # NoHandle
  <2>1. PICK d : d = caller[t][h]
    OBVIOUS
  <2>2. FrameOf(t, h, d)
    BY <1>0, <1>9, <2>1 DEF WalkOf, Acquiring
  <2>3. pc'[t] = "pin" /\ at'[t] = d /\ last'[t] = h /\ k'[t] = i /\ args'[t] = s
    BY <1>0, <1>1, <1>2, <1>9, <2>1 DEF Pinned, Goto
  <2>4. LowestOrNone(t, i, h)' /\ h # NoHandle
    BY <1>0, <1>6, HandlesAssumption DEF LowestOrNone
  <2>5. ptr'[d] => up'[d] = h
    BY <1>2, <2>2 DEF FrameOf
  <2>6. Depth[d] = Depth[h] + 1
    BY <2>2 DEF FrameOf
  <2>7. PhaseOf(t)'
    BY <1>10, <2>3, <2>4, <2>5, <2>6 DEF PhaseOf, Tearing
  <2>8. PinsOf(t)'
    BY <1>8, <2>3 DEF PinsOf
  <2>. QED  BY <1>0, <1>2, <1>5, <2>7, <2>8 DEF OwnPins
<1>11. CASE caller[t][h] = NoHandle /\ i < Len(s)
  <2>1. PICK n \in Nat, x \in Handles : n = i + 1 /\ x = s[n]
    <3>1. i + 1 \in 1..Len(s) /\ i + 1 \in Nat
      BY <1>0, <1>11
    <3>2. s \in Seq(Handles)
      BY <1>0 DEF Layer2, Layer1, TypeInv, TypeOK
    <3>. QED  BY <3>1, <3>2
  <2>2. /\ pc'[t] = FirstStep(op[t], x) /\ at'[t] = x /\ last'[t] = NoHandle /\ k'[t] = n
        /\ args'[t] = s
    BY <1>0, <1>1, <1>2, <1>11, <2>1 DEF Pinned, BeginAcquire, Goto
  <2>3. h = s[i]
    BY <1>0, <1>11 DEF WalkOf, Acquiring
  <2>4. \A j \in 1..(n - 1) : Lowest(t, j, s[j])'
    <3>1. \A j \in 1..(n - 1) : j = i \/ j \in 1..(i - 1)
      BY <1>0, <2>1
    <3>. QED  BY <1>6, <1>10, <2>3, <3>1
  <2>5. NonePinned(t, n)' /\ LowestOrNone(t, n, NoHandle)'
    <3>1. ~(n <= i)
      BY <1>0, <2>1
    <3>. QED  BY <1>8, <3>1 DEF NonePinned, LowestOrNone
  <2>6. pc'[t] = "pin" => up'[x] = NoHandle
    <3>1. op[t] # "new"
      <4>1. i \in Nat /\ Len(s) \in Nat /\ i # 0 /\ i < Len(s)
        BY <1>0, <1>11
      <4>2. Len(s) # 1
        BY ONLY <4>1, MoreThanOne
      <4>. QED  BY <1>0, <4>2 DEF OpOf
    <3>2. pc'[t] = "pin" => x \in Roots
      BY <2>1, <2>2, <3>1, ShapeAssumption DEF FirstStep, Roots, Dependents
    <3>. QED  BY <1>2, <3>2 DEF Layer2, Layer1, FieldsInv, Roots
  <2>7. pc'[t] \in {"lookup", "pin"}
    BY <2>2, FirstStepType
  <2>8. PhaseOf(t)'
    BY <2>2, <2>4, <2>5, <2>6, <2>7 DEF PhaseOf, Tearing
  <2>9. PinsOf(t)'
    <3>1. \A j, g : <<t, j, g>> \in pins' => j <= n
      <4> SUFFICES ASSUME NEW j, NEW g, <<t, j, g>> \in pins' PROVE j <= n
        OBVIOUS
      <4>1. j \in 1..Len(s) /\ j <= i
        BY <1>8
      <4>. QED  BY <1>0, <2>1, <4>1
    <3>. QED  BY <1>8, <2>2, <3>1 DEF PinsOf
  <2>. QED  BY <1>0, <1>2, <1>5, <2>8, <2>9 DEF OwnPins
<1>12. CASE caller[t][h] = NoHandle /\ ~(i < Len(s))
  <2>1. pc'[t] = "native" /\ k'[t] = i /\ args'[t] = s
    BY <1>0, <1>1, <1>2, <1>12 DEF Pinned, Goto
  <2>2. h = s[i] /\ i = Len(s)
    BY <1>0, <1>12 DEF WalkOf, Acquiring
  <2>3. \A j \in 1..Len(s) : Lowest(t, j, s[j])'
    <3>1. \A j \in 1..Len(s) : j = i \/ j \in 1..(i - 1)
      BY <1>0, <2>2
    <3>. QED  BY <1>6, <1>10, <2>2, <3>1
  <2>4. PhaseOf(t)'
    BY <1>10, <2>1, <2>2, <2>3 DEF PhaseOf, Tearing
  <2>5. PinsOf(t)'
    BY <1>8, <2>1 DEF PinsOf
  <2>. QED  BY <1>0, <1>2, <1>5, <2>4, <2>5 DEF OwnPins
<1>. QED  BY <1>9, <1>11, <1>12

LEMMA PinsRefused == ASSUME Layer2, Layer1', NEW t \in Threads, PinRefused(t) PROVE OwnPins(t)
<1>1. /\ pc[t] = "pin" /\ ReleaseNext(t, last[t]) /\ UNCHANGED <<pins, ptr, up>>
      /\ last[t] \in Handles \union {NoHandle}
  BY ActorsType DEF PinRefused, fields, Layer2, Layer1, TypeInv, TypeOK
<1>2. PICK n, s : n = k[t] /\ s = args[t]
  OBVIOUS
<1>3. PICK h \in Handles \union {NoHandle} : h = last[t]
  BY <1>1
<1>4. PinsOf(t) /\ PhaseOf(t)
  BY PinsByThread DEF Layer2, PhaseInv
<1>5. LowestOrNone(t, n, h) /\ \A j \in 1..(n - 1) : Lowest(t, j, s[j])
  BY <1>1, <1>2, <1>3, <1>4 DEF PhaseOf
<1>6. LowestOrNone(t, n, h)' /\ \A j \in 1..(n - 1) : Lowest(t, j, s[j])'
  BY <1>1, <1>5 DEF Lowest, LowestOrNone, NonePinned
<1>. QED  BY <1>1, <1>2, <1>3, <1>4, <1>6, PinsReleaseNext DEF PinsOf, OwnPins

\* A step within the call, pins and fields of the pinned handles as they were.
LEMMA PinsInCall ==
  ASSUME Layer2, NEW t \in Threads, NativeEnds(t) \/ Poison(t)
  PROVE  OwnPins(t)
<1>0. /\ t \in Actors /\ PinsOf(t) /\ PhaseOf(t) /\ pc[t] \in {"native", "poison"} /\ OpOf(t)
      /\ args[t] \in Seq(Handles) /\ Len(args[t]) \in Nat /\ Len(args[t]) > 0
      /\ k[t] \in Nat \ {0} /\ k[t] <= Len(args[t])
      /\ pc \in [Actors -> PCs] /\ at \in [Actors -> Handles \union {NoHandle}]
      /\ k \in [Actors -> Nat \ {0}]
  <2>1. t \in Actors /\ pc[t] \in {"native", "poison"}
    BY ActorsType
    DEF NativeEnds, NativeReturns, NativeMakesChild, NativeMakesView, NativePanics, Poison
  <2>2. PinsOf(t) /\ PhaseOf(t) /\ OpOf(t)
    BY <2>1, PinsByThread DEF Layer2, Layer1, OpInv, PhaseInv
  <2>3. k[t] \in 1..Len(args[t])
    BY <2>1, <2>2 DEF OpOf, Tearing
  <2>. QED
    BY <2>1, <2>2, <2>3 DEF Layer2, Layer1, TypeInv, TypeOK, FrameInv
<1>1. PICK s : s = args[t]
  OBVIOUS
<1>2. /\ pins' = pins /\ args' = args
      /\ \A g \in Handles : ptr[g] => ptr'[g] /\ up'[g] = up[g]
  <2>1. CASE NativeMakesChild(t) \/ NativeMakesView(t)
    <3>1. /\ pins' = pins /\ args' = args /\ ptr' = [ptr EXCEPT ![child[t]] = TRUE]
          /\ \E u : up' = [up EXCEPT ![child[t]] = u]
          /\ op[t] \in {"new", "view"} /\ pc[t] = "native"
      BY <2>1 DEF NativeMakesChild, NativeMakesView
    <3>2. child[t] \notin made
      BY <1>0, <3>1 DEF OpOf
    <3>. QED  BY <3>1, <3>2 DEF Layer2, Layer1, FieldsInv, TypeInv, TypeOK
  <2>2. CASE ~(NativeMakesChild(t) \/ NativeMakesView(t))
    BY <2>2 DEF NativeEnds, NativeReturns, NativePanics, Poison, fields, call
  <2>. QED  BY <2>1, <2>2
<1>3. /\ \A j \in 1..Len(s) : Lowest(t, j, s[j])'
      /\ \A i, g : <<t, i, g>> \in pins' =>
           /\ i \in 1..Len(s) /\ g \in Handles /\ ptr'[g]
           /\ up'[g] # NoHandle => <<t, i, up'[g]>> \in pins'
           /\ \A f \in Handles : <<t, i, f>> \in pins' /\ Depth[f] = Depth[g] => f = g
  <2>1. \A j \in 1..Len(s) : Lowest(t, j, s[j])
    BY <1>0, <1>1 DEF PhaseOf
  <2>2. \A j \in 1..Len(s) : Lowest(t, j, s[j])'
    BY <1>2, <2>1 DEF Lowest
  <2>. QED  BY <1>0, <1>1, <1>2, <2>2 DEF PinsOf
<1>4. CASE pc'[t] = "poison"
  <2>1. PhaseOf(t)'
    BY <1>1, <1>2, <1>3, <1>4 DEF PhaseOf, Tearing
  <2>2. PinsOf(t)'
    BY <1>1, <1>2, <1>3, <1>4 DEF PinsOf
  <2>. QED  BY <2>1, <2>2 DEF OwnPins
<1>5. CASE pc'[t] # "poison"
  <2>1. PICK n \in Nat : n = Len(s) /\ n = k[t]
    <3>1. pc[t] = "poison" => ~(k[t] < Len(args[t]))
      BY <1>0, <1>5 DEF NativeEnds, NativeReturns, NativeMakesChild, NativeMakesView,
                        NativePanics, Poison, Leave, Goto
    <3>2. pc[t] = "native" => k[t] = Len(args[t])
      BY <1>0 DEF PhaseOf
    <3>. QED  BY <1>0, <1>1, <3>1, <3>2
  <2>2. pc'[t] = "release" /\ at'[t] = s[n] /\ k'[t] = n /\ args'[t] = s
    <3>1. Leave(t) /\ k' = k
      BY <1>0, <1>5 DEF NativeEnds, NativeReturns, NativeMakesChild, NativeMakesView,
                        NativePanics, Poison, Leave, Goto
    <3>. QED  BY <1>0, <1>1, <1>2, <2>1, <3>1 DEF Leave, Goto
  <2>3. n \in 1..Len(s) /\ \A j \in 1..(n - 1) : j \in 1..Len(s)
    BY <1>0, <1>1, <2>1
  <2>4. PhaseOf(t)'
    BY <1>3, <2>2, <2>3 DEF PhaseOf, Tearing
  <2>5. \A i, g : <<t, i, g>> \in pins' => i <= n
    <3> SUFFICES ASSUME NEW i, NEW g, <<t, i, g>> \in pins' PROVE i <= n
      OBVIOUS
    <3>1. i \in 1..Len(s)
      BY <1>3
    <3>. QED  BY <2>1, <3>1
  <2>6. PinsOf(t)'
    BY <1>3, <2>2, <2>5 DEF PinsOf
  <2>. QED  BY <2>4, <2>6 DEF OwnPins
<1>. QED  BY <1>4, <1>5

\* A cleanup that goes on leaves the pins of its goroutine alone.
LEMMA PinsCleanup ==
  ASSUME Layer2, Layer1', NEW t \in Threads, CleanupStep(t)
  PROVE  OwnPins(t)
<1>0. /\ t \in Actors /\ PinsOf(t) /\ PhaseOf(t) /\ pc[t] \in Tearing
      /\ UNCHANGED <<pins, ptr, up>> /\ next[t] \in Handles \union {NoHandle}
      /\ pc \in [Actors -> PCs] /\ next \in [Actors -> Handles \union {NoHandle}]
  <2>1. pc[t] \in Tearing /\ UNCHANGED <<pins, ptr, up>>
    BY DEF CleanupStep, Deinit, DeleteCallbackHandles, DropChild, Tearing, fields
  <2>. QED
    BY <2>1, ActorsType, PinsByThread DEF Layer2, PhaseInv, Layer1, TypeInv, TypeOK
<1>1. PICK n, s : n = k[t] /\ s = args[t]
  OBVIOUS
<1>2. PICK h \in Handles \union {NoHandle} : h = next[t]
  BY <1>0
<1>3. LowestOrNone(t, n, h)' /\ \A j \in 1..(n - 1) : Lowest(t, j, s[j])'
  <2>1. LowestOrNone(t, n, h) /\ \A j \in 1..(n - 1) : Lowest(t, j, s[j])
    BY <1>0, <1>1, <1>2 DEF PhaseOf, Tearing
  <2>. QED  BY <1>0, <2>1 DEF Lowest, LowestOrNone, NonePinned
<1>4. ASSUME ReleaseNext(t, next[t]) PROVE OwnPins(t)
  BY <1>0, <1>1, <1>2, <1>3, <1>4, PinsReleaseNext DEF PinsOf, OwnPins, Tearing
<1>5. ASSUME pc'[t] \in Tearing, UNCHANGED <<k, call, teardown>> PROVE OwnPins(t)
  <2>1. k'[t] = n /\ args'[t] = s /\ next'[t] = h
    BY <1>1, <1>2, <1>5 DEF call, teardown
  <2>2. PhaseOf(t)'
    BY <1>3, <1>5, <2>1 DEF PhaseOf, Tearing
  <2>3. PinsOf(t)'
    BY <1>0, <1>1, <1>5, <2>1 DEF PinsOf, Tearing
  <2>. QED  BY <2>2, <2>3 DEF OwnPins
<1>6. ASSUME DropOrReturn(t) PROVE OwnPins(t)
  <2>1. CASE orphan[t] # NoHandle
    BY <1>0, <1>5, <1>6, <2>1 DEF DropOrReturn, Goto, Tearing
  <2>2. CASE orphan[t] = NoHandle
    BY <1>4, <1>6, <2>2 DEF DropOrReturn
  <2>. QED  BY <2>1, <2>2
<1>7. CASE Deinit(t) /\ at[t] \in RetainsCallbacks
  BY <1>0, <1>5, <1>7 DEF Deinit, Goto, Tearing
<1>8. CASE Deinit(t) /\ at[t] \notin RetainsCallbacks
  BY <1>6, <1>8 DEF Deinit
<1>9. CASE DeleteCallbackHandles(t)
  BY <1>6, <1>9 DEF DeleteCallbackHandles
<1>10. CASE DropChild(t)
  BY <1>4, <1>10 DEF DropChild
<1>. QED  BY <1>7, <1>8, <1>9, <1>10 DEF CleanupStep

LEMMA PinsBetween ==
  ASSUME Layer2, NEW t \in Threads, DropReservation(t) \/ Close(t) \/ CloseView(t)
  PROVE  OwnPins(t)
<1>0. /\ t \in Actors /\ PinsOf(t) /\ PhaseOf(t) /\ pins' = pins /\ OpOf(t)
      /\ pc \in [Actors -> PCs] /\ next \in [Actors -> Handles \union {NoHandle}]
  BY ActorsType, PinsByThread
  DEF DropReservation, Close, CloseView, Layer2, PhaseInv, Layer1, OpInv, TypeInv, TypeOK
<1>1. k[t] = 1 /\ k' = k
  BY <1>0 DEF DropReservation, Close, CloseView, Idle, Layer2, Layer1, TypeInv, FrameInv
<1>2. \A i, h : <<t, i, h>> \notin pins
  <2>1. CASE pc[t] = "unreserve"
    <3>1. NonePinned(t, 1) /\ \A i, h : <<t, i, h>> \in pins => i \in 1..Len(args[t]) /\ i <= 1
      BY <1>0, <1>1, <2>1 DEF PinsOf, PhaseOf
    <3> SUFFICES ASSUME NEW i, NEW h, <<t, i, h>> \in pins PROVE FALSE
      OBVIOUS
    <3>2. h \in Handles /\ i \in 1..Len(args[t]) /\ i <= 1
      BY <1>0, <3>1 DEF PinsOf
    <3>3. i = 1
      BY <3>2
    <3>. QED  BY <3>1, <3>2, <3>3 DEF NonePinned
  <2>2. CASE pc[t] # "unreserve"
    <3>1. op[t] = "none"
      BY <1>0, <2>2 DEF DropReservation, Close, CloseView, Idle, OpOf
    <3>. QED  BY <3>1, NoPinsWithoutOperation
  <2>. QED  BY <2>1, <2>2
<1>3. pc'[t] \in {"idle", "deinit"} /\ (pc'[t] = "deinit" => next'[t] = NoHandle)
  BY <1>0 DEF DropReservation, Return, Close, CloseView, Take, Idle, Goto
<1>4. PhaseOf(t)'
  BY <1>0, <1>1, <1>2, <1>3 DEF PhaseOf, LowestOrNone, NonePinned, Tearing
<1>. QED  BY <1>0, <1>2, <1>4 DEF OwnPins, PinsOf

\* The last pin on a handle is let go: nobody is inside any more.
LEMMA LastPin ==
  ASSUME PinsInv, NEW x \in pins, NEW h \in Handles, x[3] = h, active[h] = 1
  PROVE  \A y \in pins \ {x} : y[3] # h
<1>1. PICK P : P = pins \ {x}
  OBVIOUS
<1>2. IsFiniteSet(P) /\ x \notin P /\ P \union {x} = pins
  BY <1>1, FS_Subset DEF PinsInv
<1>3. /\ Cardinality({y \in P : y[3] = h}) \in Nat
      /\ Cardinality({y \in pins : y[3] = h}) = Cardinality({y \in P : y[3] = h}) + 1
  BY <1>2, CountPin
<1>4. Cardinality({y \in pins : y[3] = h}) = 1
  BY DEF PinsInv, ActiveCountsPins, PinsOn
<1>5. Cardinality({y \in P : y[3] = h}) = 0
  BY <1>3, <1>4
<1>6. {y \in P : y[3] = h} = {}
  BY <1>2, <1>5, FS_EmptySet, FS_Subset
<1>. QED  BY <1>1, <1>6

LEMMA PinsRelease ==
  ASSUME Layer2, Layer1', NEW t \in Threads, Release(t), NEW h, h = at[t], NEW n, n = k[t],
         NEW s, s = args[t], NEW u, u = up[h]
  PROVE  /\ OwnPins(t)
         /\ h \in Handles /\ <<t, n, h>> \in pins
         /\ pins' = pins \ {<<t, n, h>>}
         /\ active' = [active EXCEPT ![h] = active[h] - 1]
         /\ Take(t, h, u) => \A r, i : <<r, i, h>> \notin pins'
<1>0. /\ t \in Actors /\ pc[t] = "release" /\ PinsOf(t) /\ PhaseOf(t)
      /\ h \in Handles /\ n \in Nat \ {0} /\ u \in Handles \union {NoHandle}
      /\ \A g \in Handles : Depth[g] \in Nat
      /\ pc \in [Actors -> PCs] /\ next \in [Actors -> Handles \union {NoHandle}]
      /\ ptr \in [Handles -> BOOLEAN] /\ up \in [Handles -> Handles \union {NoHandle}]
  <2>1. t \in Actors /\ pc[t] = "release"
    BY ActorsType DEF Release
  <2>2. PinsOf(t) /\ PhaseOf(t)
    BY PinsByThread DEF Layer2, PhaseInv
  <2>. QED
    BY <2>1, <2>2, FlatAssumption DEF Layer2, Layer1, TypeInv, TypeOK, FrameInv
<1>1. /\ pins' = pins \ {<<t, n, h>>}
      /\ active' = [active EXCEPT ![h] = active[h] - 1]
  BY DEF Release
<1>2. Lowest(t, n, h) /\ \A j \in 1..(n - 1) : Lowest(t, j, s[j])
  BY <1>0 DEF PhaseOf
<1>3. /\ <<t, n, h>> \in pins /\ ptr[h] /\ (u # NoHandle => <<t, n, u>> \in pins)
      /\ \A g \in Handles : <<t, n, g>> \in pins /\ Depth[g] = Depth[h] => g = h
  BY <1>0, <1>2 DEF Lowest, PinsOf
<1>4. /\ u # NoHandle => Depth[h] = Depth[u] + 1
      /\ u = NoHandle => Depth[h] = 0
  BY <1>0, <1>3, UpIsAbove, TopIsRoot DEF Layer2, Layer1
\* What this argument has pinned still lies above h.
<1>5. \A g \in Handles : <<t, n, g>> \in pins' => Depth[g] < Depth[h]
  <2> SUFFICES ASSUME NEW g \in Handles, <<t, n, g>> \in pins' PROVE Depth[g] < Depth[h]
    OBVIOUS
  <2>1. <<t, n, g>> \in pins /\ g # h
    BY <1>1
  <2>2. Depth[g] <= Depth[h] /\ Depth[g] # Depth[h]
    BY <1>2, <1>3, <2>1 DEF Lowest
  <2>3. Depth[g] \in Nat /\ Depth[h] \in Nat
    BY <1>0
  <2>. QED  BY <2>2, <2>3
<1>6. LowestOrNone(t, n, u)'
  <2>1. CASE u = NoHandle
    <3>1. \A g \in Handles : <<t, n, g>> \notin pins'
      BY <1>0, <1>4, <1>5, <2>1
    <3>. QED  BY <2>1, <3>1 DEF LowestOrNone, NonePinned
  <2>2. CASE u # NoHandle
    <3>1. u \in Handles /\ Depth[u] \in Nat /\ Depth[h] = Depth[u] + 1
      BY <1>0, <1>4, <2>2
    <3>2. u # h
      BY <3>1
    <3>3. <<t, n, u>> \in pins'
      BY <1>1, <1>3, <2>2, <3>2
    <3>4. \A g \in Handles : <<t, n, g>> \in pins' => Depth[g] <= Depth[u]
      BY <1>0, <1>5, <3>1
    <3>. QED  BY <2>2, <3>3, <3>4 DEF LowestOrNone, Lowest
  <2>. QED  BY <2>1, <2>2
<1>7. \A j \in 1..(n - 1) : Lowest(t, j, s[j])'
  <2> SUFFICES ASSUME NEW j \in 1..(n - 1) PROVE Lowest(t, j, s[j])'
    OBVIOUS
  <2>1. j # n
    BY <1>0
  <2>2. \A g : <<t, j, g>> \in pins' <=> <<t, j, g>> \in pins
    BY <1>1, <2>1
  <2>. QED  BY <1>2, <2>2 DEF Lowest
<1>8. \A i, g : <<t, i, g>> \in pins' =>
        /\ <<t, i, g>> \in pins
        /\ up[g] # NoHandle => <<t, i, up[g]>> \in pins'
  <2> SUFFICES ASSUME NEW i, NEW g, <<t, i, g>> \in pins'
               PROVE  /\ <<t, i, g>> \in pins
                      /\ up[g] # NoHandle => <<t, i, up[g]>> \in pins'
    OBVIOUS
  <2>1. <<t, i, g>> \in pins /\ g \in Handles /\ (up[g] # NoHandle => <<t, i, up[g]>> \in pins)
    BY <1>0, <1>1 DEF PinsOf
  <2>2. up[g] # NoHandle => Depth[g] = Depth[up[g]] + 1
    BY <2>1, UpIsAbove DEF Layer2, Layer1
  <2>3. ASSUME up[g] # NoHandle PROVE <<t, i, up[g]>> # <<t, n, h>>
    <3>1. SUFFICES ASSUME i = n, up[g] = h PROVE FALSE
      OBVIOUS
    <3>2. Depth[g] < Depth[h] /\ Depth[g] = Depth[h] + 1
      BY <1>5, <2>1, <2>2, <2>3, <3>1
    <3>3. Depth[g] \in Nat /\ Depth[h] \in Nat
      BY <1>0, <2>1
    <3>. QED  BY <3>2, <3>3
  <2>. QED  BY <1>1, <2>1, <2>3
<1>9. CASE Take(t, h, u) /\ active[h] = 1 /\ UNCHANGED <<k, call>>
  <2>1. \A r, i : <<r, i, h>> \notin pins'
    <3>1. \A y \in pins \ {<<t, n, h>>} : y[3] # h
      BY <1>0, <1>3, <1>9, LastPin DEF Layer2
    <3>. QED  BY <1>1, <3>1
  <2>2. /\ pc'[t] = "deinit" /\ next'[t] = u /\ k'[t] = n /\ args'[t] = s
        /\ \A g \in Handles : g # h => ptr'[g] = ptr[g] /\ up'[g] = up[g]
    BY <1>0, <1>9 DEF Take, Goto, call
  <2>3. PhaseOf(t)'
    BY <1>6, <1>7, <2>2 DEF PhaseOf, Tearing
  <2>4. PinsOf(t)'
    BY <1>0, <1>8, <2>1, <2>2 DEF PinsOf
  <2>. QED  BY <1>0, <1>1, <1>3, <2>1, <2>3, <2>4 DEF OwnPins
<1>10. CASE ReleaseNext(t, u) /\ UNCHANGED <<ptr, up, teardown>>
  <2>1. \A i, g : <<t, i, g>> \in pins' => ptr'[g] /\ up'[g] = up[g]
    BY <1>0, <1>8, <1>10 DEF PinsOf
  <2>2. PinsOf(t)' /\ PhaseOf(t)'
    BY <1>0, <1>6, <1>7, <1>8, <1>10, <2>1, PinsReleaseNext
  <2>3. ~Take(t, h, u)
    BY <1>0, <1>3, <1>10 DEF Take
  <2>. QED  BY <1>0, <1>1, <1>3, <2>2, <2>3 DEF OwnPins
<1>. QED  BY <1>9, <1>10 DEF Release

LEMMA WritersOfPins ==
  ASSUME NEW a \in Actors, StepOf(a)
  PROVE  UNCHANGED <<active, pins>> \/ (a \in Threads /\ (Pin(a) \/ Release(a)))
<1>1. ASSUME Start(a) \/ Close(a) \/ CloseView(a) PROVE UNCHANGED <<active, pins>>
  BY <1>1 DEF Start, StartCall, StartNew, StartView, Begin, Close, CloseView, fields
<1>2. ASSUME CleanupStep(a) PROVE UNCHANGED <<active, pins>>
  BY <1>2 DEF CleanupStep, Deinit, DeleteCallbackHandles, DropChild, fields
<1>3. ASSUME Proceed(a), ~Pin(a), ~Release(a) PROVE UNCHANGED <<active, pins>>
  BY <1>2, <1>3
  DEF Proceed, Lookup, PinRefused, NativeEnds, NativeReturns, NativeMakesChild,
      NativeMakesView, NativePanics, Poison, DropReservation, fields
<1>4. ASSUME NEW h \in Handles, Collect(h) PROVE UNCHANGED <<active, pins>>
  BY <1>4 DEF Collect
<1>. QED  BY <1>1, <1>2, <1>3, <1>4 DEF StepOf

\* Every step keeps the count of a handle equal to the pins on it.
LEMMA PinsCounted ==
  ASSUME Layer2, Layer1', NEW a \in Actors, StepOf(a)
  PROVE  pins' \subseteq Threads \X Nat \X Handles /\ IsFiniteSet(pins') /\ ActiveCountsPins'
<1>0. /\ pins \subseteq Threads \X Nat \X Handles /\ IsFiniteSet(pins)
      /\ active \in [Handles -> Int]
      /\ \A h \in Handles : active[h] = Cardinality({y \in pins : y[3] = h})
  BY DEF Layer2, Layer1, TypeInv, TypeOK, PinsInv, ActiveCountsPins, PinsOn
<1>1. CASE UNCHANGED <<active, pins>>
  BY <1>1 DEF Layer2, PinsInv, ActiveCountsPins, PinsOn
<1>2. CASE a \in Threads /\ Pin(a)
  <2>1. PICK h, i : h = at[a] /\ i = k[a]
    OBVIOUS
  <2>2. /\ h \in Handles /\ <<a, i, h>> \notin pins /\ pins' = pins \union {<<a, i, h>>}
        /\ active' = [active EXCEPT ![h] = active[h] + 1] /\ i \in Nat
    BY <1>2, <2>1, PinsPin DEF Layer2, Layer1, TypeInv, TypeOK
  <2>3. PICK x : x = <<a, i, h>>
    OBVIOUS
  <2>4. x \notin pins /\ x[3] = h /\ pins' = pins \union {x}
    BY <2>2, <2>3
  <2>5. ASSUME NEW g \in Handles PROVE active'[g] = Cardinality({y \in pins' : y[3] = g})
    <3>1. CASE g = h
      <4>1. Cardinality({y \in pins \union {x} : y[3] = g}) =
              Cardinality({y \in pins : y[3] = g}) + 1
        BY <1>0, <2>4, <3>1, CountPin
      <4>. QED  BY <1>0, <2>2, <2>4, <3>1, <4>1
    <3>2. CASE g # h
      <4>1. {y \in pins \union {x} : y[3] = g} = {y \in pins : y[3] = g}
        BY <2>4, <3>2
      <4>. QED  BY <1>0, <2>2, <2>4, <3>2, <4>1
    <3>. QED  BY <3>1, <3>2
  <2>6. IsFiniteSet(pins')
    BY <1>0, <2>4, FS_AddElement
  <2>7. pins' \subseteq Threads \X Nat \X Handles
    BY <1>0, <1>2, <2>2
  <2>. QED  BY <2>5, <2>6, <2>7 DEF ActiveCountsPins, PinsOn
<1>3. CASE a \in Threads /\ Release(a)
  <2>1. PICK h, i, s, u : h = at[a] /\ i = k[a] /\ s = args[a] /\ u = up[h]
    OBVIOUS
  <2>2. /\ h \in Handles /\ <<a, i, h>> \in pins /\ pins' = pins \ {<<a, i, h>>}
        /\ active' = [active EXCEPT ![h] = active[h] - 1]
    BY <1>3, <2>1, PinsRelease
  <2>3. PICK x : x = <<a, i, h>>
    OBVIOUS
  <2>4. x \notin pins' /\ x[3] = h /\ pins = pins' \union {x} /\ pins' \subseteq pins
    BY <2>2, <2>3
  <2>5. IsFiniteSet(pins')
    BY <1>0, <2>4, FS_Subset
  <2>6. ASSUME NEW g \in Handles PROVE active'[g] = Cardinality({y \in pins' : y[3] = g})
    <3>1. CASE g = h
      <4>1. /\ Cardinality({y \in pins' \union {x} : y[3] = g}) =
                 Cardinality({y \in pins' : y[3] = g}) + 1
            /\ Cardinality({y \in pins' : y[3] = g}) \in Nat
        <5>1. PICK Q : Q = pins'
          OBVIOUS
        <5>2. IsFiniteSet(Q) /\ x \notin Q /\ x[3] = g
          BY <2>4, <2>5, <3>1, <5>1
        <5>3. /\ Cardinality({y \in Q \union {x} : y[3] = g}) =
                   Cardinality({y \in Q : y[3] = g}) + 1
              /\ Cardinality({y \in Q : y[3] = g}) \in Nat
          BY <5>2, CountPin
        <5>. QED  BY <5>1, <5>3
      <4>2. active[g] = Cardinality({y \in pins' \union {x} : y[3] = g})
        BY <1>0, <2>4
      <4>3. active'[g] = active[g] - 1
        BY <1>0, <2>2, <3>1
      <4>. QED  BY <4>1, <4>2, <4>3
    <3>2. CASE g # h
      <4>1. {y \in pins' \union {x} : y[3] = g} = {y \in pins' : y[3] = g}
        BY <2>4, <3>2
      <4>2. active'[g] = active[g]
        BY <1>0, <2>2, <3>2
      <4>. QED  BY <1>0, <2>4, <4>1, <4>2
    <3>. QED  BY <3>1, <3>2
  <2>7. pins' \subseteq Threads \X Nat \X Handles
    BY <1>0, <2>4
  <2>. QED  BY <2>5, <2>6, <2>7 DEF ActiveCountsPins, PinsOn
<1>. QED  BY <1>1, <1>2, <1>3, WritersOfPins

\* The pins of the goroutine that takes a step.
LEMMA OwnPinsStep ==
  ASSUME Layer2, Layer1', NEW t \in Threads, StepOf(t)
  PROVE  OwnPins(t)
<1>1. Collector \notin Threads
  BY HandlesAssumption
<1>2. CASE Release(t)
  BY <1>2, PinsRelease
<1>3. CASE Pin(t)
  BY <1>3, PinsPin
<1>4. CASE Start(t) \/ Lookup(t) \/ PinRefused(t) \/ NativeEnds(t) \/ Poison(t)
  BY <1>4, PinsStart, PinsLookup, PinsRefused, PinsInCall
<1>5. CASE CleanupStep(t) \/ DropReservation(t) \/ Close(t) \/ CloseView(t)
  BY <1>5, PinsCleanup, PinsBetween
<1>. QED  BY <1>1, <1>2, <1>3, <1>4, <1>5 DEF StepOf, Proceed

LEMMA Layer2Init == Init => Layer2
<1> SUFFICES ASSUME Init PROVE Layer2
  OBVIOUS
<1>1. Layer1
  BY Layer1Init
<1>2. pins = {} /\ active = [h \in Handles |-> 0] /\ \A t \in Threads : pc[t] = "idle" /\ k[t] = 1
  BY ActorsType DEF Init
<1>3. IsFiniteSet({}) /\ Cardinality({}) = 0
  BY FS_EmptySet
<1>4. ActiveCountsPins
  <2>1. \A h \in Handles : PinsOn(h) = {}
    BY <1>2 DEF PinsOn
  <2>. QED  BY <1>2, <1>3, <2>1 DEF ActiveCountsPins
<1>5. PinsInv
  BY <1>2, <1>3, <1>4, PinsByThread DEF PinsOf
<1>6. PhaseInv
  BY <1>2 DEF PhaseInv, PhaseOf, Tearing
<1>. QED  BY <1>1, <1>5, <1>6 DEF Layer2

LEMMA Layer2Next == Layer2 /\ [Next]_vars => Layer2'
<1> SUFFICES ASSUME Layer2, [Next]_vars PROVE Layer2'
  OBVIOUS
<1>1. Layer1' /\ Stable
  BY Layer1Next, FieldsStep DEF Layer2
<1>2. ASSUME UNCHANGED <<pins, active, ptr, up, pc, k, args, at, last, next>>
      PROVE  PinsInv' /\ PhaseInv'
  BY <1>2
  DEF Layer2, PinsInv, ActiveCountsPins, PinsOn, Chain, PhaseInv, PhaseOf, Lowest, NonePinned,
      LowestOrNone
<1>3. ASSUME NEW a \in Actors, StepOf(a) PROVE PinsInv' /\ PhaseInv'
  <2>1. \A b \in Actors \ {a} : Untouched(b)
    BY <1>3, Footprint DEF Layer2, Layer1
  <2>2. a \in Threads => OwnPins(a)
    BY <1>1, <1>3, OwnPinsStep
  <2>3. KeepsPtr
    <3>1. ASSUME NEW h \in Handles, a \in Threads, Release(a), Take(a, h, up[h])
          PROVE  \A t, i : <<t, i, h>> \notin pins'
      <4>1. PICK n, s, g, u : n = k[a] /\ s = args[a] /\ g = at[a] /\ u = up[g]
        OBVIOUS
      <4>2. g \in Handles /\ (Take(a, g, u) => \A t, i : <<t, i, g>> \notin pins')
        BY <1>1, <3>1, <4>1, PinsRelease
      <4>3. g = h
        <5>1. a \in Actors /\ pc'[a] = "deinit" /\ at'[a] = h
          BY <3>1, ActorsType DEF Take, Goto, Layer2, Layer1, TypeInv, TypeOK
        <5>2. ~ReleaseNext(a, u)
          BY <5>1 DEF ReleaseNext, Unwind, Return, Goto, Layer2, Layer1, TypeInv, TypeOK
        <5>3. Take(a, g, u)
          BY <3>1, <4>1, <5>2 DEF Release
        <5>. QED  BY <5>1, <5>3 DEF Take, Layer2, Layer1, TypeInv, TypeOK
      <4>. QED  BY <3>1, <4>1, <4>2, <4>3
    <3>. QED  BY <1>3, <3>1, PinnedKeepPtr
  <2>4. \A t \in Threads : PinsOf(t)' /\ PhaseOf(t)'
    BY <1>1, <2>1, <2>2, <2>3, OthersKeepPins, ActorsType DEF OwnPins
  <2>5. pins' \subseteq Threads \X Nat \X Handles /\ IsFiniteSet(pins') /\ ActiveCountsPins'
    BY <1>1, <1>3, PinsCounted
  <2>6. (PinsInv <=> /\ pins \subseteq Threads \X Nat \X Handles /\ IsFiniteSet(pins)
                     /\ ActiveCountsPins
                     /\ \A t \in Threads : PinsOf(t))'
    BY PinsByThread, PTL
  <2>. QED  BY <2>4, <2>5, <2>6 DEF PhaseInv
<1>4. ASSUME NEW h \in Handles, Forget(h) PROVE PinsInv' /\ PhaseInv'
  BY <1>2, <1>4 DEF Forget, fields, walk, call, teardown
<1>5. CASE UNCHANGED vars
  BY <1>1, <1>2, <1>5 DEF vars, fields, walk, call, teardown, Layer2
<1>. QED  BY <1>1, <1>3, <1>4, <1>5, Steps DEF Layer2

-----------------------------------------------------------------------------
(* Third layer: the collector sweeps only what nothing can reach, and a    *)
(* destructor runs only on a handle nobody can pin any more.               *)

Layer3 == Layer2 /\ SweptInv /\ NativeInv

\* Goroutine t refers to no swept handle.
ReachesOf(t) ==
  /\ at[t] \notin swept /\ last[t] \notin swept /\ reservation[t] \notin swept
  /\ orphan[t] \notin swept /\ next[t] \notin swept
  /\ \A i \in DOMAIN args[t] : args[t][i] \notin swept
  /\ \A g \in Handles : caller[t][g] \notin swept
  /\ \A i, h : <<t, i, h>> \in pins => h \notin swept

LEMMA SweptByThread ==
  Layer2 => (SweptInv <=> /\ \A t \in Threads : ReachesOf(t)
                          /\ \A c \in made : up[c] \in swept => c \in swept)
<1> SUFFICES ASSUME Layer2
             PROVE  SweptInv <=> /\ \A t \in Threads : ReachesOf(t)
                                 /\ \A c \in made : up[c] \in swept => c \in swept
  OBVIOUS
<1>1. \A t \in Threads : \A i, h : <<t, i, h>> \in pins => i \in 1..Len(args[t])
  BY PinsByThread DEF Layer2, PinsOf
<1>2. ASSUME NEW t \in Threads
      PROVE  (\A h \in swept : ~Refers(t, h)) <=> ReachesOf(t)
  BY <1>1 DEF Refers, ReachesOf
<1>. QED  BY <1>2 DEF SweptInv

\* Letting go reaches nothing new.
LEMMA ReachReleaseNext ==
  ASSUME Layer2, Layer2', NEW t \in Threads, ReachesOf(t), NEW h, h \notin swept, ReleaseNext(t, h),
         swept' = swept, \A i, g : <<t, i, g>> \in pins' => <<t, i, g>> \in pins,
         orphan'[t] \notin swept, next'[t] \notin swept
  PROVE  ReachesOf(t)'
<1>0. /\ t \in Actors /\ NoHandle \notin swept /\ k[t] \in Nat \ {0} /\ args[t] \in Seq(Handles)
      /\ Len(args[t]) \in Nat /\ (k[t] > 1 => k[t] <= Len(args[t]))
      /\ at \in [Actors -> Handles \union {NoHandle}]
      /\ last \in [Actors -> Handles \union {NoHandle}]
      /\ caller \in [Actors -> [Handles -> Handles \union {NoHandle}]]
      /\ args \in [Actors -> Seq(Handles)]
  BY ActorsType, HandlesAssumption DEF Layer2, Layer1, TypeInv, TypeOK, FrameInv
<1>1. \A i, g : <<t, i, g>> \in pins' => g \notin swept
  BY DEF ReachesOf
<1>2. CASE UNCHANGED <<caller, last, call, reservation>> /\ at'[t] \notin swept
  BY <1>1, <1>2 DEF ReachesOf, call
<1>3. CASE h # NoHandle
  BY <1>0, <1>2, <1>3 DEF ReleaseNext, Goto
<1>4. CASE h = NoHandle /\ k[t] > 1
  <2>1. k[t] - 1 \in DOMAIN args[t]
    <3>1. k[t] - 1 \in 1..Len(args[t])
      BY <1>0, <1>4
    <3>. QED  BY <1>0, <3>1
  <2>2. args[t][k[t] - 1] \notin swept
    BY <2>1 DEF ReachesOf
  <2>3. at'[t] = args[t][k[t] - 1]
    BY <1>0, <1>4 DEF ReleaseNext, Unwind
  <2>. QED  BY <1>2, <1>4, <2>2, <2>3 DEF ReleaseNext, Unwind
<1>5. CASE h = NoHandle /\ ~(k[t] > 1) /\ reservation[t] # NoHandle
  <2>1. at' = at
    BY <1>5 DEF ReleaseNext, Unwind
  <2>2. at'[t] \notin swept
    BY <2>1 DEF ReachesOf
  <2>. QED  BY <1>2, <1>5, <2>2 DEF ReleaseNext, Unwind
<1>6. CASE Return(t) /\ UNCHANGED <<k, reservation>>
  BY <1>0, <1>1, <1>6 DEF Return, ReachesOf
<1>. QED  BY <1>3, <1>4, <1>5, <1>6 DEF ReleaseNext, Unwind

\* Starting, walking up and pinning reach what the arguments reach.
LEMMA ReachAcquire ==
  ASSUME Layer3, Layer2', NEW t \in Threads, Start(t) \/ Lookup(t) \/ Pin(t)
  PROVE  ReachesOf(t)'
<1>0. /\ t \in Actors /\ NoHandle \notin swept /\ ReachesOf(t)
      /\ \A c \in Handles : up[c] \in swept => c \in swept
      /\ at[t] \in Handles \union {NoHandle}
      /\ \A h \in made \ dropped : h \notin swept
      /\ args[t] \in Seq(Handles) /\ Len(args[t]) \in Nat /\ k[t] \in Nat \ {0}
  <2>1. \A c \in Handles : up[c] \in swept => c \in swept
    <3> SUFFICES ASSUME NEW c \in Handles, up[c] \in swept PROVE c \in swept
      OBVIOUS
    <3>1. up[c] # NoHandle
      BY HandlesAssumption DEF Layer3, Layer2, Layer1, TypeInv, TypeOK
    <3>2. c \in made
      BY <3>1, UpIsAbove DEF Layer3, Layer2, Layer1
    <3>. QED  BY <3>2 DEF Layer3, SweptInv
  <2>2. t \in Actors /\ ReachesOf(t)
    BY ActorsType, SweptByThread DEF Layer3
  <2>3. /\ swept \subseteq dropped /\ dropped \subseteq made /\ made \subseteq Handles
        /\ at[t] \in Handles \union {NoHandle} /\ args[t] \in Seq(Handles)
        /\ k[t] \in Nat \ {0}
    BY <2>2 DEF Layer3, Layer2, Layer1, TypeInv, TypeOK
  <2>. QED  BY <2>1, <2>2, <2>3, HandlesAssumption
<1>1. /\ pc \in [Actors -> PCs] /\ args \in [Actors -> Seq(Handles)]
      /\ at \in [Actors -> Handles \union {NoHandle}]
      /\ last \in [Actors -> Handles \union {NoHandle}]
      /\ reservation \in [Actors -> Handles \union {NoHandle}]
      /\ caller \in [Actors -> [Handles -> Handles \union {NoHandle}]]
  BY DEF Layer3, Layer2, Layer1, TypeInv, TypeOK
<1>2. CASE Start(t)
  <2>1. PICK o, s, c :
          /\ Begin(t, o, s, c)
          /\ \A i \in DOMAIN s : s[i] \notin swept
          /\ s[1] \notin swept
    <3>1. CASE StartCall(t)
      <4>1. PICK s \in Calls :
              (\A i \in DOMAIN s : Usable(s[i])) /\ Begin(t, "call", s, NoHandle)
        BY <3>1 DEF StartCall
      <4>2. s \in Seq(Handles) /\ s # <<>>
        BY ShapeAssumption
      <4>3. 1 \in DOMAIN s
        BY <4>2
      <4>. QED  BY <1>0, <4>1, <4>3 DEF Usable
    <3>2. CASE StartNew(t) \/ StartView(t)
      <4>1. PICK c \in Handles, o \in {"new", "view"} :
              Usable(Creator[c]) /\ Begin(t, o, <<Creator[c]>>, c)
        BY <3>2, ShapeAssumption DEF StartNew, StartView, Dependents
      <4>. QED  BY <1>0, <4>1 DEF Usable
    <3>. QED  BY <1>2, <3>1, <3>2 DEF Start
  <2>2. op[t] = "none"
    BY <1>0, <2>1 DEF Begin, Idle, Layer3, Layer2, Layer1, OpInv, OpOf
  <2>3. \A i, h : <<t, i, h>> \notin pins
    BY <2>2, NoPinsWithoutOperation DEF Layer3
  <2>4. /\ args'[t] = s /\ at'[t] = s[1] /\ last'[t] = NoHandle
        /\ \A g \in Handles : caller'[t][g] = NoHandle
        /\ UNCHANGED <<pins, swept, reservation, orphan, next>>
    BY <1>0, <1>1, <2>1 DEF Begin, BeginAcquire, program, teardown
  <2>. QED  BY <1>0, <2>1, <2>3, <2>4 DEF ReachesOf
<1>3. CASE Lookup(t)
  <2>1. /\ UNCHANGED <<pins, swept, reservation, orphan, next, args, last>>
        /\ \/ at'[t] = up[at[t]] /\ at[t] \in Handles
           \/ at' = at
        /\ \A g \in Handles : caller'[t][g] \in {caller[t][g], at[t]}
    <3>1. at[t] \in Handles
      BY <1>0, <1>3 DEF Lookup, Layer3, Layer2, Layer1, TypeInv, FrameInv
    <3>. QED  BY <1>0, <1>1, <1>3, <3>1 DEF Lookup, program, teardown, call
  <2>. QED  BY <1>0, <2>1 DEF ReachesOf
<1>4. CASE Pin(t)
  <2>1. PICK h \in Handles : h = at[t] /\ h \notin swept
    BY <1>0, <1>4 DEF Pin, ReachesOf, Layer3, Layer2, Layer1, TypeInv, FrameInv
  <2>2. /\ UNCHANGED <<swept, orphan, next, args>> /\ Pinned(t, h)
        /\ pins' = pins \union {<<t, k[t], h>>}
        /\ reservation'[t] \in {reservation[t], h}
    BY <1>0, <1>1, <1>4, <2>1 DEF Pin, program, call, teardown
  <2>3. \A i, g : <<t, i, g>> \in pins' => g \notin swept
    BY <1>0, <2>1, <2>2 DEF ReachesOf
  <2>4. /\ at'[t] \notin swept /\ last'[t] \notin swept
        /\ \A g \in Handles : caller'[t][g] \notin swept
    <3>1. CASE caller[t][h] # NoHandle
      BY <1>0, <1>1, <2>1, <2>2, <3>1 DEF Pinned, ReachesOf
    <3>2. CASE caller[t][h] = NoHandle /\ k[t] < Len(args[t])
      <4>1. k[t] + 1 \in DOMAIN args[t]
        <5>1. k[t] + 1 \in 1..Len(args[t])
          BY <1>0, <3>2
        <5>. QED  BY <1>0, <5>1
      <4>2. args[t][k[t] + 1] \notin swept
        BY <1>0, <4>1 DEF ReachesOf
      <4>. QED  BY <1>0, <1>1, <2>1, <2>2, <3>2, <4>2 DEF Pinned, BeginAcquire
    <3>3. CASE caller[t][h] = NoHandle /\ ~(k[t] < Len(args[t]))
      BY <1>0, <1>1, <2>1, <2>2, <3>3 DEF Pinned, ReachesOf
    <3>. QED  BY <3>1, <3>2, <3>3
  <2>. QED  BY <1>0, <2>1, <2>2, <2>3, <2>4 DEF ReachesOf
<1>. QED  BY <1>2, <1>3, <1>4

\* So do the rest of an operation and what the program does between two.
LEMMA ReachRest ==
  ASSUME Layer3, Layer2', NEW t \in Threads,
         \/ PinRefused(t) \/ NativeEnds(t) \/ Poison(t) \/ Release(t) \/ CleanupStep(t)
         \/ DropReservation(t) \/ Close(t) \/ CloseView(t)
  PROVE  ReachesOf(t)'
<1>0. /\ t \in Actors /\ NoHandle \notin swept /\ ReachesOf(t)
      /\ \A c \in Handles : c \notin swept => up[c] \notin swept
      /\ args[t] \in Seq(Handles) /\ Len(args[t]) \in Nat /\ k[t] \in Nat \ {0}
      /\ \A h \in made \ dropped : h \notin swept
  <2>1. \A c \in Handles : up[c] \in swept => c \in swept
    <3> SUFFICES ASSUME NEW c \in Handles, up[c] \in swept PROVE c \in swept
      OBVIOUS
    <3>1. up[c] # NoHandle
      BY HandlesAssumption DEF Layer3, Layer2, Layer1, TypeInv, TypeOK
    <3>2. c \in made
      BY <3>1, UpIsAbove DEF Layer3, Layer2, Layer1
    <3>. QED  BY <3>2 DEF Layer3, SweptInv
  <2>2. t \in Actors /\ ReachesOf(t)
    BY ActorsType, SweptByThread DEF Layer3
  <2>3. /\ swept \subseteq dropped /\ dropped \subseteq made /\ made \subseteq Handles
        /\ args[t] \in Seq(Handles) /\ k[t] \in Nat \ {0}
    BY <2>2 DEF Layer3, Layer2, Layer1, TypeInv, TypeOK
  <2>. QED  BY <2>1, <2>2, <2>3, HandlesAssumption
<1>1. /\ pc \in [Actors -> PCs] /\ args \in [Actors -> Seq(Handles)]
      /\ at \in [Actors -> Handles \union {NoHandle}]
      /\ last \in [Actors -> Handles \union {NoHandle}]
      /\ next \in [Actors -> Handles \union {NoHandle}]
      /\ orphan \in [Actors -> Handles \union {NoHandle}]
      /\ reservation \in [Actors -> Handles \union {NoHandle}]
      /\ caller \in [Actors -> [Handles -> Handles \union {NoHandle}]]
  BY DEF Layer3, Layer2, Layer1, TypeInv, TypeOK
\* All but `at` as before.
<1>2. ASSUME UNCHANGED <<pins, swept, last, caller, orphan, next, args>>,
             reservation'[t] \in {reservation[t], NoHandle}, at'[t] \notin swept
      PROVE  ReachesOf(t)'
  BY <1>0, <1>2 DEF ReachesOf
<1>3. CASE PinRefused(t)
  BY <1>0, <1>3, ReachReleaseNext DEF PinRefused, Layer3, program, teardown, ReachesOf
<1>4. ASSUME NEW i \in 1..Len(args[t]) PROVE args[t][i] \notin swept
  BY <1>0 DEF ReachesOf
<1>5. CASE NativeEnds(t) \/ Poison(t)
  <2>1. /\ UNCHANGED <<pins, swept, last, caller, orphan, next, args>>
        /\ reservation'[t] \in {reservation[t], NoHandle}
    BY <1>0, <1>1, <1>5
    DEF NativeEnds, NativeReturns, NativeMakesChild, NativeMakesView, NativePanics, Poison,
        program, call, teardown
  <2>2. /\ pc[t] \in {"native", "poison"} /\ 1 \in 1..Len(args[t]) /\ k[t] \in 1..Len(args[t])
        /\ Len(args[t]) \in 1..Len(args[t])
    <3>1. pc[t] \in {"native", "poison"}
      BY <1>5
      DEF NativeEnds, NativeReturns, NativeMakesChild, NativeMakesView, NativePanics, Poison
    <3>2. k[t] \in 1..Len(args[t])
      BY <1>0, <3>1 DEF Layer3, Layer2, Layer1, OpInv, OpOf, Tearing
    <3>. QED  BY <1>0, <3>1, <3>2
  <2>3. ASSUME Leave(t) PROVE at'[t] \notin swept
    BY <1>0, <1>1, <1>4, <2>2, <2>3 DEF Leave
  <2>4. CASE NativeEnds(t)
    BY <1>0, <1>1, <1>2, <1>4, <2>1, <2>2, <2>3, <2>4
    DEF NativeEnds, NativeReturns, NativeMakesChild, NativeMakesView, NativePanics
  <2>5. CASE Poison(t)
    <3>1. at[t] \in Handles /\ up[at[t]] \notin swept
      BY <1>0, <2>5 DEF Poison, ReachesOf, Layer3, Layer2, Layer1, TypeInv, FrameInv, TypeOK
    <3>2. k[t] < Len(args[t]) => k[t] + 1 \in 1..Len(args[t])
      BY <1>0
    <3>3. at'[t] \notin swept
      BY <1>0, <1>1, <1>4, <2>3, <2>5, <3>1, <3>2 DEF Poison
    <3>. QED  BY <1>2, <2>1, <3>3
  <2>. QED  BY <1>5, <2>4, <2>5
\* What a handle is taken apart for lies above it.
<1>6. ASSUME NEW h \in Handles, h \notin swept, NEW u, u \notin swept, Take(t, h, u),
             UNCHANGED <<k, caller, last, call, reservation, swept>>,
             \A i, g : <<t, i, g>> \in pins' => <<t, i, g>> \in pins
      PROVE  ReachesOf(t)'
  BY <1>0, <1>1, <1>6 DEF Take, ReachesOf, call
<1>7. CASE Release(t)
  <2>1. PICK h, u : h \in Handles /\ h = at[t] /\ u = up[h] /\ h \notin swept /\ u \notin swept
    BY <1>0, <1>7 DEF Release, ReachesOf, Layer3, Layer2, Layer1, TypeInv, FrameInv, TypeOK
  <2>2. CASE Take(t, h, u) /\ UNCHANGED <<k, caller, last, call, reservation>>
    BY <1>6, <1>7, <2>1, <2>2 DEF Release, program
  <2>3. CASE ReleaseNext(t, u) /\ UNCHANGED <<ptr, up, teardown>>
    BY <1>0, <1>7, <2>1, <2>3, ReachReleaseNext DEF Release, Layer3, program, teardown, ReachesOf
  <2>. QED  BY <1>7, <2>1, <2>2, <2>3 DEF Release
<1>8. CASE CleanupStep(t)
  <2>1. UNCHANGED <<pins, swept>>
    BY <1>8 DEF CleanupStep, Deinit, DeleteCallbackHandles, DropChild, program
  <2>2. ASSUME ReleaseNext(t, next[t]), orphan'[t] \in {orphan[t], NoHandle}, next'[t] = NoHandle
        PROVE  ReachesOf(t)'
    BY <1>0, <2>1, <2>2, ReachReleaseNext DEF Layer3, ReachesOf
  <2>3. ASSUME DropOrReturn(t) PROVE ReachesOf(t)'
    <3>1. CASE orphan[t] # NoHandle
      BY <1>0, <1>1, <1>2, <2>1, <2>3, <3>1 DEF DropOrReturn, call, teardown, ReachesOf
    <3>2. CASE orphan[t] = NoHandle
      BY <1>0, <1>1, <2>2, <2>3, <3>2 DEF DropOrReturn
    <3>. QED  BY <3>1, <3>2
  <2>4. CASE Deinit(t) /\ at[t] \in RetainsCallbacks
    BY <1>0, <1>2, <2>1, <2>4 DEF Deinit, call, teardown, ReachesOf
  <2>5. CASE DropChild(t)
    BY <1>0, <1>1, <2>2, <2>5 DEF DropChild
  <2>. QED
    BY <1>8, <2>3, <2>4, <2>5 DEF CleanupStep, Deinit, DeleteCallbackHandles
<1>9. CASE DropReservation(t)
  BY <1>0, <1>1, <1>9 DEF DropReservation, Return, ReachesOf, program, teardown
<1>10. CASE Close(t)
  <2>1. PICK h \in Handles :
          /\ Usable(h) /\ UNCHANGED <<pins, swept, k, caller, last, call, reservation>>
          /\ Take(t, h, NoHandle) \/ UNCHANGED <<teardown, at>>
    BY <1>10 DEF Close, program
  <2>2. h \notin swept
    BY <1>0, <2>1 DEF Usable
  <2>. QED  BY <1>0, <1>2, <1>6, <2>1, <2>2 DEF call, teardown, ReachesOf
<1>11. CASE CloseView(t)
  BY <1>0, <1>2, <1>11 DEF CloseView, walk, call, teardown, program, ReachesOf
<1>. QED  BY <1>3, <1>5, <1>7, <1>8, <1>9, <1>10, <1>11

LEMMA SweptNext ==
  ASSUME Layer3, Layer2', [Next]_vars
  PROVE  SweptInv'
<1>0. /\ \A t \in Threads : ReachesOf(t)
      /\ \A c \in made : up[c] \in swept => c \in swept
      /\ NoHandle \notin swept
      /\ up \in [Handles -> Handles \union {NoHandle}] /\ made \subseteq Handles
  BY SweptByThread, HandlesAssumption DEF Layer3, Layer2, Layer1, TypeInv, TypeOK
<1>1. (Layer2 => (SweptInv <=> /\ \A t \in Threads : ReachesOf(t)
                               /\ \A c \in made : up[c] \in swept => c \in swept))'
  BY SweptByThread, PTL
<1>2. SUFFICES /\ \A t \in Threads : ReachesOf(t)'
               /\ \A c \in made' : up'[c] \in swept' => c \in swept'
  BY <1>1
<1>3. ASSUME UNCHANGED <<made, up, swept, pins, args, walk, reservation, teardown>>
      PROVE  /\ \A t \in Threads : ReachesOf(t)'
             /\ \A c \in made' : up'[c] \in swept' => c \in swept'
  BY <1>0, <1>3 DEF ReachesOf, walk, teardown
<1>4. ASSUME NEW a \in Threads, StepOf(a)
      PROVE  /\ \A t \in Threads : ReachesOf(t)'
             /\ \A c \in made' : up'[c] \in swept' => c \in swept'
  <2>0. a \in Actors /\ a # Collector /\ (Start(a) \/ Proceed(a) \/ Close(a) \/ CloseView(a))
    BY <1>4, ActorsType, HandlesAssumption DEF StepOf
  <2>1. swept' = swept
    BY <2>0
    DEF Start, StartCall, StartNew, StartView, Begin, Proceed, Lookup, Pin, PinRefused,
        NativeEnds, NativeReturns, NativeMakesChild, NativeMakesView, NativePanics, Poison,
        Release, CleanupStep, Deinit, DeleteCallbackHandles, DropChild, DropReservation, Close,
        CloseView, program
  <2>2. ReachesOf(a)'
    BY <2>0, ReachAcquire, ReachRest DEF Proceed
  <2>3. ASSUME NEW t \in Threads \ {a} PROVE ReachesOf(t)'
    <3>1. Untouched(t)
      BY <1>4, <2>0, Footprint, ActorsType DEF Layer3, Layer2, Layer1
    <3>. QED  BY <1>0, <2>1, <3>1 DEF ReachesOf, Untouched
  <2>4. \A c \in made' : up'[c] \in swept' => c \in swept'
    <3>1. CASE NativeMakesChild(a)
      <4>1. reservation[a] \notin swept
        BY <1>0 DEF ReachesOf
      <4>2. child[a] \in Handles
        BY <2>0, <3>1 DEF NativeMakesChild, Layer3, Layer2, Layer1, OpInv, OpOf, Dependents
      <4>. QED  BY <1>0, <2>1, <3>1, <4>1, <4>2 DEF NativeMakesChild
    <3>2. CASE NativeMakesView(a)
      <4>1. args[a] = <<Creator[child[a]]>>
        BY <2>0, <3>2 DEF NativeMakesView, Layer3, Layer2, Layer1, OpInv, OpOf
      <4>2. Creator[child[a]] \notin swept
        BY <1>0, <4>1 DEF ReachesOf
      <4>3. child[a] \in Handles
        BY <2>0, <3>2, ShapeAssumption DEF NativeMakesView, Layer3, Layer2, Layer1, OpInv, OpOf
      <4>. QED  BY <1>0, <2>1, <3>2, <4>2, <4>3 DEF NativeMakesView
    <3>3. CASE ~NativeMakesChild(a) /\ ~NativeMakesView(a)
      <4>1. made' = made /\ \A c \in made : up'[c] \in {up[c], NoHandle}
        <5>1. CASE UNCHANGED <<ptr, up, made, closed>>
          BY <5>1
        <5>2. CASE Release(a) \/ Close(a) \/ CloseView(a)
          BY <1>0, <5>2 DEF Release, Close, CloseView, Take, program
        <5>. QED  BY <1>4, <2>0, <3>3, <5>1, <5>2, WritersOfFields
      <4>. QED  BY <1>0, <2>1, <4>1
    <3>. QED  BY <3>1, <3>2, <3>3
  <2>. QED  BY <2>2, <2>3, <2>4
<1>5. ASSUME CleanupStep(Collector) \/ \E h \in Handles : Collect(h)
      PROVE  /\ \A t \in Threads : ReachesOf(t)'
             /\ \A c \in made' : up'[c] \in swept' => c \in swept'
  <2>0. Collector \in Actors /\ StepOf(Collector) /\ Collector \notin Threads
    BY <1>5, ActorsType, HandlesAssumption DEF StepOf
  <2>1. \A t \in Threads : Untouched(t)
    BY <2>0, Footprint, ActorsType DEF Layer3, Layer2, Layer1
  <2>2. UNCHANGED <<made, up>>
    BY <1>5
    DEF CleanupStep, Deinit, DeleteCallbackHandles, DropChild, Collect, fields, program
  <2>3. CASE CleanupStep(Collector)
    <3>1. swept' = swept
      BY <2>3 DEF CleanupStep, Deinit, DeleteCallbackHandles, DropChild, program
    <3>. QED  BY <1>0, <2>1, <2>2, <3>1 DEF ReachesOf, Untouched
  <2>4. ASSUME NEW h \in Handles, Collect(h)
        PROVE  /\ \A t \in Threads : ReachesOf(t)'
               /\ \A c \in made' : up'[c] \in swept' => c \in swept'
    <3>1. /\ swept' = swept \union {h} /\ \A t \in Threads : ~Refers(t, h)
          /\ \A c \in made : up[c] = h => c \in swept
      BY <2>4, ActorsType DEF Collect
    <3>2. \A t \in Threads : \A i, g : <<t, i, g>> \in pins => i \in 1..Len(args[t])
      BY PinsByThread DEF Layer3, Layer2, PinsOf
    <3>. QED  BY <1>0, <2>1, <2>2, <3>1, <3>2, SMTT(30) DEF Refers, ReachesOf, Untouched
  <2>. QED  BY <1>5, <2>3, <2>4
<1>6. CASE UNCHANGED vars
  BY <1>3, <1>6 DEF vars, fields, program, call
<1>7. ASSUME NEW h \in Handles, Forget(h)
      PROVE  /\ \A t \in Threads : ReachesOf(t)'
             /\ \A c \in made' : up'[c] \in swept' => c \in swept'
  BY <1>3, <1>7 DEF Forget, fields, call
<1>8. ASSUME NEW a \in Actors, StepOf(a)
      PROVE  /\ \A t \in Threads : ReachesOf(t)'
             /\ \A c \in made' : up'[c] \in swept' => c \in swept'
  BY <1>4, <1>5, <1>8 DEF StepOf
<1>. QED  BY <1>6, <1>7, <1>8, Steps

\* The steps that write what is behind a handle, or start a destructor.
LEMMA WritersOfNative ==
  ASSUME NEW a \in Actors, StepOf(a)
  PROVE  \/ native' = native \/ Deinit(a)
         \/ a \in Threads /\ NativeMakesChild(a)
<1>1. ASSUME Start(a) \/ Close(a) \/ CloseView(a) PROVE native' = native
  BY <1>1 DEF Start, StartCall, StartNew, StartView, Begin, Close, CloseView, backing
<1>2. ASSUME CleanupStep(a), ~Deinit(a) PROVE native' = native
  BY <1>2 DEF CleanupStep, DeleteCallbackHandles, DropChild, backing
<1>3. ASSUME Proceed(a), ~Deinit(a), ~NativeMakesChild(a) PROVE native' = native
  BY <1>2, <1>3
  DEF Proceed, Lookup, Pin, PinRefused, NativeEnds, NativeReturns, NativeMakesView,
      NativePanics, Poison, Release, DropReservation, backing
<1>4. ASSUME NEW h \in Handles, Collect(h) PROVE native' = native
  BY <1>4 DEF Collect, backing
<1>. QED  BY <1>1, <1>2, <1>3, <1>4 DEF StepOf

\* A destructor starts on a handle nobody can pin any more.
LEMMA DeinitStarts ==
  ASSUME Layer3, NEW a \in Actors, StepOf(a), pc'[a] = "deinit"
  PROVE  /\ a \in Threads => at'[a] \in made' /\ ~ptr'[at'[a]]
         /\ a = Collector => at'[a] \in swept'
<1>0. /\ pc \in [Actors -> PCs] /\ at \in [Actors -> Handles \union {NoHandle}]
      /\ ptr \in [Handles -> BOOLEAN] /\ at[a] \in Handles \union {NoHandle}
      /\ Collector \notin Threads
  BY HandlesAssumption DEF Layer3, Layer2, Layer1, TypeInv, TypeOK
<1>1. ASSUME ReleaseNext(a, next[a]) PROVE FALSE
  BY <1>0, <1>1 DEF ReleaseNext, Unwind, Return, Goto
<1>2. CASE CleanupStep(a)
  BY <1>0, <1>1, <1>2
  DEF CleanupStep, Deinit, DeleteCallbackHandles, DropChild, DropOrReturn, Goto
<1>3. CASE a \in Threads /\ (Start(a) \/ Lookup(a) \/ Pin(a))
  <2>1. \A o, h : FirstStep(o, h) \in {"lookup", "pin"}
    BY FirstStepType
  <2>. QED
    BY <1>0, <1>3, <2>1
    DEF Start, StartCall, StartNew, StartView, Begin, BeginAcquire, Lookup, Pin, Pinned, Goto
<1>4. CASE a \in Threads /\ (PinRefused(a) \/ DropReservation(a))
  BY <1>0, <1>4 DEF PinRefused, DropReservation, ReleaseNext, Unwind, Return, Goto
<1>5. CASE a \in Threads /\ (NativeEnds(a) \/ Poison(a))
  BY <1>0, <1>5
  DEF NativeEnds, NativeReturns, NativeMakesChild, NativeMakesView, NativePanics, Poison,
      Leave, Goto
<1>6. ASSUME a \in Threads, NEW h \in Handles, NEW u, h \in made, Take(a, h, u), made' = made
      PROVE  at'[a] \in made' /\ ~ptr'[at'[a]]
  BY <1>0, <1>6 DEF Take
<1>7. CASE a \in Threads /\ Release(a)
  <2>1. at[a] \in Handles /\ made' = made
    BY <1>0, <1>7 DEF Release, program, Layer3, Layer2, Layer1, TypeInv, FrameInv
  <2>2. Take(a, at[a], up[at[a]]) /\ ptr[at[a]]
    BY <1>0, <1>7 DEF Release, ReleaseNext, Unwind, Return, Goto
  <2>3. at[a] \in made
    BY <2>1, <2>2 DEF Layer3, Layer2, Layer1, FieldsInv
  <2>. QED  BY <1>0, <1>6, <1>7, <2>1, <2>2, <2>3
<1>8. CASE a \in Threads /\ Close(a)
  <2>1. PICK h \in Handles : /\ h \in made /\ made' = made /\ pc[a] = "idle"
                             /\ Take(a, h, NoHandle) \/ UNCHANGED pc
    BY <1>8 DEF Close, Usable, Idle, program
  <2>. QED  BY <1>0, <1>6, <1>8, <2>1
<1>9. CASE a \in Threads /\ CloseView(a)
  BY <1>0, <1>9 DEF CloseView, Idle
<1>10. CASE a = Collector /\ \E h \in Handles : Collect(h)
  BY <1>0, <1>10 DEF Collect, Idle, Goto
<1>. QED  BY <1>0, <1>2, <1>3, <1>4, <1>5, <1>7, <1>8, <1>9, <1>10 DEF StepOf, Proceed

LEMMA NativeNext ==
  ASSUME Layer3, Layer2', [Next]_vars
  PROVE  NativeInv'
<1>0. /\ Stable /\ Collector \in Actors /\ Threads \subseteq Actors
      /\ Collector \notin Threads
      /\ native \in [Handles -> {"none", "live", "freed"}]
      /\ ptr \in [Handles -> BOOLEAN] /\ \A h \in Handles : ptr[h] => h \in made
  BY FieldsStep, ActorsType, HandlesAssumption
  DEF Layer3, Layer2, Layer1, TypeInv, TypeOK, FieldsInv
<1>1. ASSUME UNCHANGED <<ptr, made, swept, native, pc, at>> PROVE NativeInv'
  BY <1>1 DEF Layer3, NativeInv
<1>2. ASSUME NEW a \in Actors, StepOf(a) PROVE NativeInv'
  <2>1. \A b \in Actors \ {a} : pc'[b] = pc[b] /\ at'[b] = at[b]
    BY <1>2, Footprint DEF Untouched, Layer3, Layer2, Layer1
  <2>2. swept \subseteq swept'
    BY <1>2
    DEF StepOf, Start, StartCall, StartNew, StartView, Begin, Proceed, Lookup, Pin, PinRefused,
        NativeEnds, NativeReturns, NativeMakesChild, NativeMakesView, NativePanics, Poison,
        Release, CleanupStep, Deinit, DeleteCallbackHandles, DropChild, DropReservation, Close,
        CloseView, Collect, program
  <2>3. \A t \in Threads : pc'[t] = "deinit" => at'[t] \in made' /\ ~ptr'[at'[t]]
    <3>1. ASSUME NEW t \in Threads \ {a}, pc'[t] = "deinit" PROVE at'[t] \in made' /\ ~ptr'[at'[t]]
      <4>1. at[t] \in made /\ ~ptr[at[t]]
        BY <1>0, <2>1, <3>1 DEF Layer3, NativeInv
      <4>. QED  BY <1>0, <2>1, <3>1, <4>1 DEF Stable
    <3>. QED  BY <1>2, <3>1, DeinitStarts
  <2>4. pc'[Collector] = "deinit" => at'[Collector] \in swept'
    <3>1. CASE a = Collector
      BY <1>2, <3>1, DeinitStarts
    <3>2. CASE a # Collector
      BY <1>0, <2>1, <2>2, <3>2 DEF Layer3, NativeInv
    <3>. QED  BY <3>1, <3>2
  <2>5. ASSUME NEW h \in Handles \ Views, ptr'[h], h \notin swept' PROVE native'[h] = "live"
    <3>1. CASE Deinit(a)
      <4>1. ptr' = ptr /\ native' \in {native, [native EXCEPT ![at[a]] = "freed"]}
        BY <3>1 DEF Deinit, fields
      <4>2. at[a] # h
        BY <2>2, <2>5, <3>1, <4>1 DEF Deinit, Actors, Layer3, NativeInv
      <4>. QED  BY <1>0, <2>2, <2>5, <4>1, <4>2 DEF Layer3, NativeInv
    <3>2. CASE a \in Threads /\ NativeMakesChild(a)
      <4>1. /\ ptr' = [ptr EXCEPT ![child[a]] = TRUE]
            /\ native' = [native EXCEPT ![child[a]] = "live"]
        BY <3>2 DEF NativeMakesChild
      <4>. QED  BY <1>0, <2>2, <2>5, <4>1 DEF Layer3, NativeInv
    <3>3. CASE native' = native /\ ~(a \in Threads /\ NativeMakesChild(a))
      <4>1. ptr[h]
        <5>1. CASE NativeMakesView(a) /\ a \in Threads
          <6>1. child[a] \in Views
            BY <1>0, <5>1 DEF NativeMakesView, Layer3, Layer2, Layer1, OpInv, OpOf
          <6>. QED  BY <1>0, <2>5, <5>1, <6>1 DEF NativeMakesView
        <5>2. CASE made' = made
          <6>1. h \in made
            BY <2>5, <5>2 DEF Layer2, Layer1, FieldsInv
          <6>. QED  BY <1>0, <2>5, <6>1 DEF Stable
        <5>. QED
          BY <1>2, <3>3, <5>1, <5>2, WritersOfFields DEF Release, Close, CloseView, program
      <4>. QED  BY <2>2, <2>5, <3>3, <4>1 DEF Layer3, NativeInv
    <3>. QED  BY <1>2, <3>1, <3>2, <3>3, WritersOfNative
  <2>. QED  BY <2>3, <2>4, <2>5 DEF NativeInv
<1>3. CASE UNCHANGED vars
  BY <1>1, <1>3 DEF vars, fields, program, backing, walk
<1>4. ASSUME NEW h \in Handles, Forget(h) PROVE NativeInv'
  BY <1>1, <1>4 DEF Forget, fields, backing, walk
<1>. QED  BY <1>2, <1>3, <1>4, Steps

LEMMA Layer3Init == Init => Layer3
<1> SUFFICES ASSUME Init PROVE Layer3
  OBVIOUS
<1>1. SweptInv
  BY DEF Init, SweptInv
<1>2. NativeInv
  BY ActorsType DEF Init, NativeInv
<1>. QED  BY <1>1, <1>2, Layer2Init DEF Layer3

LEMMA Layer3Next == Layer3 /\ [Next]_vars => Layer3'
<1> SUFFICES ASSUME Layer3, [Next]_vars PROVE Layer3'
  OBVIOUS
<1>1. Layer2'
  BY Layer2Next DEF Layer3
<1>. QED  BY <1>1, SweptNext, NativeNext DEF Layer3

-----------------------------------------------------------------------------
(* What every flat forest has, whatever its size and whatever the calls.   *)

\* IInv, the invariant the layers add up to, is inductive.
LEMMA LayersAreIInv == Layer3 <=> IInv
BY DEF Layer3, Layer2, Layer1, TypeInv, IInv

THEOREM InvariantHolds == Spec => []IInv
<1>1. Init => Layer3
  BY Layer3Init
<1>2. Layer3 /\ [Next]_vars => Layer3'
  BY Layer3Next
<1>. QED  BY <1>1, <1>2, LayersAreIInv, PTL DEF Spec

\* `active` counts exactly the pins not let go, so that the last call out of a
\* closed handle is recognised: zigoAcquire, zigoRelease and every error path
\* between them balance, over every chain of owners and parents.
THEOREM PinsBalance == Spec => []ActiveCountsPins
<1>1. IInv => ActiveCountsPins
  BY DEF IInv, PinsInv
<1>. QED  BY <1>1, InvariantHolds, PTL

\* Whoever is inside native through a borrowed view has pinned its owner too:
\* zigoAcquire of a view walks to the owner before it counts itself in.
THEOREM ViewsPinTheirOwner == Spec => []ViewPinsOwner
<1>1. ASSUME IInv, NEW t \in Threads, NEW v \in Views, Inside(t, v)
      PROVE  Inside(t, Creator[v])
  <2>1. PinsOf(t)
    BY <1>1, PinsByThread DEF IInv
  <2>2. PICK i : <<t, i, v>> \in pins
    <3>1. PICK p \in pins : p[1] = t /\ p[3] = v
      BY <1>1 DEF Inside
    <3>2. p = <<t, p[2], v>>
      BY <1>1, <3>1 DEF IInv, PinsInv
    <3>. QED  BY <3>1, <3>2
  <2>3. up[v] = Creator[v] /\ up[v] # NoHandle
    BY <1>1, <2>1, <2>2, ShapeAssumption DEF PinsOf, IInv, FieldsInv, Roots
  <2>4. <<t, i, Creator[v]>> \in pins
    BY <2>1, <2>2, <2>3 DEF PinsOf
  <2>. QED  BY <1>1, <2>4 DEF Inside
<1>2. IInv => ViewPinsOwner
  BY <1>1 DEF ViewPinsOwner
<1>. QED  BY <1>2, InvariantHolds, PTL

\* A goroutine between two operations holds no pin and no reservation: no
\* error path of an acquire, a constructor or a panic leaves one behind.
THEOREM NothingLeftBehind == Spec => []IdleHoldsNothing
<1>1. ASSUME IInv, NEW a \in Actors, pc[a] = "idle"
      PROVE  (~\E p \in pins : p[1] = a) /\ reservation[a] = NoHandle /\ orphan[a] = NoHandle
  <2>1. /\ OpOf(a) /\ reservation[a] = NoHandle /\ orphan[a] = NoHandle
        /\ 1..Len(args[a]) = {}
    BY <1>1 DEF IInv, OpInv, OpOf, Tearing
  <2>. QED  BY <1>1, <2>1 DEF IInv, PinsInv
<1>2. IInv => IdleHoldsNothing
  BY <1>1 DEF IdleHoldsNothing
<1>. QED  BY <1>2, InvariantHolds, PTL

\* "A call still inside native keeps the resources until it returns": on a
\* flat forest no Close, no last call out and no collection destroys the
\* native object under a call, however calls and closes interleave.
THEOREM NoUseAfterFreeWhenFlat == Spec => []NoUseAfterFree
<1>1. ASSUME IInv, NEW t \in Threads, NEW h \in Handles \ Views, Inside(t, h)
      PROVE  native[h] = "live"
  <2>1. PICK i : <<t, i, h>> \in pins
    <3>1. PICK p \in pins : p[1] = t /\ p[3] = h
      BY <1>1 DEF Inside
    <3>2. p = <<t, p[2], h>>
      BY <1>1, <3>1 DEF IInv, PinsInv
    <3>. QED  BY <3>1, <3>2
  <2>2. ptr[h] /\ i \in 1..Len(args[t])
    BY <1>1, <2>1, PinsByThread DEF IInv, PinsOf
  <2>3. h \notin swept
    BY <1>1, <2>1, <2>2 DEF IInv, SweptInv, Refers
  <2>. QED  BY <1>1, <2>2, <2>3 DEF IInv, NativeInv
<1>2. IInv => NoUseAfterFree
  BY <1>1 DEF NoUseAfterFree
<1>. QED  BY <1>2, InvariantHolds, PTL
=============================================================================

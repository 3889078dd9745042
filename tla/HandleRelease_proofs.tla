-------------------------- MODULE HandleRelease_proofs --------------------------
(***************************************************************************)
(* Who destroys what and when a handle closes, on every flat forest.       *)
(*                                                                         *)
(* First: every object is destroyed by one actor at most, never while a    *)
(* panic has marked it, and before its callback tokens go; and a panic     *)
(* reaches the handles above.  On top of IInv this takes an invariant of   *)
(* its own, about the actors inside a destructor, the marks a handle       *)
(* carries and the walk of a poisoning.                                    *)
(*                                                                         *)
(* Then: why a parent stays open.  Its count of children is the number of  *)
(* places taken in it, by children, by constructors and by cleanups, so    *)
(* that Close refuses while one is left.  From this follows that a         *)
(* parent's object outlives the objects inside it.                         *)
(*                                                                         *)
(* Last: the lifecycle implements HandleContract.                          *)
(***************************************************************************)
EXTENDS HandleFlat_proofs, WellFoundedInduction

\* An actor about to run a destructor: it will destroy the object unless it is
\* poisoned, and the object is still there.
DeinitOf(a) ==
  pc[a] = "deinit" =>
    /\ at[a] \in made \ Views /\ native[at[a]] = "live"
    /\ doomed[a] <=> ~poison[at[a]]

\* After the destructor the tokens go.
UntokenOf(a) ==
  pc[a] = "untoken" => at[a] \in made /\ (native[at[a]] = "freed" \/ poison[at[a]])

\* Whoever poisons a handle has it pinned.
PoisonOf(a) == pc[a] = "poison" => \E i : <<a, i, at[a]>> \in pins

\* What the marks of a handle exclude.
MarksInv ==
  /\ \A h \in Handles : closed[h] \/ poison[h] \/ cleanup[h] => h \in made
  /\ \A h \in Handles : cleanup[h] => ~closed[h] /\ ~poison[h] /\ h \notin Views
  /\ \A v \in Views : closed[v] => ~ptr[v]

OneDestroyer ==
  \A a, b \in Actors : a # b /\ pc[a] = "deinit" /\ pc[b] = "deinit" => at[a] # at[b]

\* A handle above a poisoned one is poisoned, or about to be.
ClimbOf(h) ==
  poison[h] /\ up[h] # NoHandle =>
    poison[up[h]] \/ \E t \in Threads : pc[t] = "poison" /\ at[t] = up[h]

PoisonClimbs == \A h \in Handles : ClimbOf(h)

ReleaseInv ==
  /\ MarksInv /\ OneDestroyer /\ PoisonClimbs /\ TokensOutliveObject
  /\ \A a \in Actors : DeinitOf(a) /\ UntokenOf(a) /\ PoisonOf(a)

Both == Layer3 /\ ReleaseInv

\* What the layers say of types, in one place.
LEMMA Types ==
  ASSUME Layer3
  PROVE  /\ pc \in [Actors -> PCs] /\ at \in [Actors -> Handles \union {NoHandle}]
         /\ doomed \in [Actors -> BOOLEAN] /\ ptr \in [Handles -> BOOLEAN]
         /\ closed \in [Handles -> BOOLEAN] /\ poison \in [Handles -> BOOLEAN]
         /\ cleanup \in [Handles -> BOOLEAN] /\ tokens \in [Handles -> BOOLEAN]
         /\ native \in [Handles -> {"none", "live", "freed"}]
         /\ made \subseteq Handles /\ dropped \subseteq made /\ swept \subseteq dropped
         /\ Collector \in Actors /\ Threads \subseteq Actors /\ Collector \notin Threads
         /\ \A h \in Handles : ptr[h] => h \in made
         /\ \A h \in Handles : ~ptr[h] => up[h] = NoHandle
BY ActorsType, HandlesAssumption DEF Layer3, Layer2, Layer1, TypeInv, TypeOK, FieldsInv

-----------------------------------------------------------------------------
(* Who writes what.                                                        *)

LEMMA OthersKeepDoomed ==
  ASSUME Layer3, NEW a \in Actors, StepOf(a), NEW b \in Actors, a # b
  PROVE  doomed'[b] = doomed[b]
<1>0. doomed \in [Actors -> BOOLEAN]
  BY Types
<1>1. CASE Start(a) \/ Lookup(a) \/ Pin(a) \/ PinRefused(a) \/ NativeEnds(a) \/ Poison(a)
           \/ DropReservation(a) \/ CloseView(a)
  BY <1>1
  DEF Start, StartCall, StartNew, StartView, Begin, Lookup, Pin, PinRefused, NativeEnds,
      NativeReturns, NativeMakesChild, NativeMakesView, NativePanics, Poison, DropReservation,
      CloseView, teardown
<1>2. CASE Release(a) \/ Close(a)
  BY <1>0, <1>2 DEF Release, Close, Take, teardown
<1>3. CASE CleanupStep(a)
  BY <1>0, <1>3 DEF CleanupStep, Deinit, DeleteCallbackHandles, DropChild, DropOrReturn, teardown
<1>4. CASE a = Collector /\ \E h \in Handles : Collect(h)
  BY <1>0, <1>4 DEF Collect
<1>. QED  BY <1>1, <1>2, <1>3, <1>4 DEF StepOf, Proceed

LEMMA WritersOfMarks ==
  ASSUME NEW a \in Actors, StepOf(a)
  PROVE  \/ UNCHANGED <<closed, poison, cleanup>>
         \/ a \in Threads /\ (Poison(a) \/ NativeMakesChild(a) \/ Close(a) \/ CloseView(a))
         \/ a = Collector /\ \E h \in Handles : Collect(h)
<1>1. ASSUME Start(a) PROVE UNCHANGED <<closed, poison, cleanup>>
  BY <1>1 DEF Start, StartCall, StartNew, StartView, Begin, fields
<1>2. ASSUME CleanupStep(a) PROVE UNCHANGED <<closed, poison, cleanup>>
  BY <1>2 DEF CleanupStep, Deinit, DeleteCallbackHandles, DropChild, fields
<1>3. ASSUME Proceed(a), ~NativeMakesChild(a), ~Poison(a)
      PROVE  UNCHANGED <<closed, poison, cleanup>>
  BY <1>2, <1>3
  DEF Proceed, Lookup, Pin, PinRefused, NativeEnds, NativeReturns, NativeMakesView,
      NativePanics, Release, DropReservation, fields
<1>. QED  BY <1>1, <1>2, <1>3 DEF StepOf

LEMMA WritersOfTokens ==
  ASSUME NEW a \in Actors, StepOf(a)
  PROVE  \/ tokens' = tokens \/ DeleteCallbackHandles(a)
         \/ a \in Threads /\ NativeMakesChild(a)
<1>1. ASSUME Start(a) \/ Close(a) \/ CloseView(a) PROVE tokens' = tokens
  BY <1>1 DEF Start, StartCall, StartNew, StartView, Begin, Close, CloseView, backing
<1>2. ASSUME CleanupStep(a), ~DeleteCallbackHandles(a) PROVE tokens' = tokens
  BY <1>2 DEF CleanupStep, Deinit, DropChild, backing
<1>3. ASSUME Proceed(a), ~DeleteCallbackHandles(a), ~NativeMakesChild(a) PROVE tokens' = tokens
  BY <1>2, <1>3
  DEF Proceed, Lookup, Pin, PinRefused, NativeEnds, NativeReturns, NativeMakesView,
      NativePanics, Poison, Release, DropReservation, backing
<1>4. ASSUME NEW h \in Handles, Collect(h) PROVE tokens' = tokens
  BY <1>4 DEF Collect, backing
<1>. QED  BY <1>1, <1>2, <1>3, <1>4 DEF StepOf

\* The steps that end where a destructor, the deletion of tokens or a poisoning
\* goes on.
LEMMA EndsStart ==
  ASSUME Layer3, NEW a \in Actors, StepOf(a)
  PROVE  /\ pc'[a] = "poison" => a \in Threads /\ (NativePanics(a) \/ Poison(a))
         /\ pc'[a] = "untoken" => Deinit(a)
         /\ pc'[a] = "deinit" => \/ a \in Threads /\ (Release(a) \/ Close(a))
                                 \/ a = Collector /\ \E h \in Handles : Collect(h)
<1> DEFINE Other == pc'[a] \notin {"poison", "untoken", "deinit"}
<1>0. pc \in [Actors -> PCs]
  BY Types
<1>1. ASSUME NEW h, ReleaseNext(a, h) PROVE Other
  BY <1>0, <1>1 DEF ReleaseNext, Unwind, Return, Goto
<1>2. CASE CleanupStep(a)
  <2>1. CASE DropOrReturn(a)
    BY <1>0, <1>1, <2>1 DEF DropOrReturn, Goto
  <2>2. CASE Deinit(a) /\ ~DropOrReturn(a)
    BY <1>0, <2>2 DEF Deinit, Goto
  <2>3. CASE DropChild(a)
    BY <1>1, <2>3 DEF DropChild
  <2>. QED  BY <1>2, <2>1, <2>2, <2>3 DEF CleanupStep, DeleteCallbackHandles
<1>3. CASE a \in Threads /\ (Start(a) \/ Lookup(a) \/ Pin(a))
  <2>1. \A o, h : FirstStep(o, h) \in {"lookup", "pin"}
    BY FirstStepType
  <2>. QED
    BY <1>0, <1>3, <2>1
    DEF Start, StartCall, StartNew, StartView, Begin, BeginAcquire, Lookup, Pin, Pinned, Goto
<1>4. CASE a \in Threads /\ (PinRefused(a) \/ DropReservation(a))
  BY <1>0, <1>1, <1>4 DEF PinRefused, DropReservation, Return, Goto
<1>5. CASE a \in Threads /\ NativeEnds(a) /\ ~NativePanics(a)
  BY <1>0, <1>5
  DEF NativeEnds, NativeReturns, NativeMakesChild, NativeMakesView, Leave, Goto
<1>6. CASE a \in Threads /\ (NativePanics(a) \/ Poison(a))
  <2>1. pc'[a] \in {"poison", "release"}
    BY <1>0, <1>6 DEF NativePanics, Poison, Leave, Goto
  <2>. QED  BY <1>6, <2>1
<1>7. CASE a \in Threads /\ (Release(a) \/ Close(a))
  <2>1. pc'[a] \in {"deinit", "idle"} \/ Other
    BY <1>0, <1>1, <1>7 DEF Release, Close, Take, Goto, Idle
  <2>. QED  BY <1>7, <2>1
<1>8. CASE a \in Threads /\ CloseView(a)
  BY <1>8 DEF CloseView, Idle
<1>9. CASE a = Collector /\ \E h \in Handles : Collect(h)
  <2>1. pc'[a] \in {"deinit", "idle"}
    BY <1>0, <1>9 DEF Collect, Goto, Idle
  <2>. QED  BY <1>9, <2>1
<1>. QED
  BY <1>2, <1>3, <1>4, <1>5, <1>6, <1>7, <1>8, <1>9 DEF StepOf, Proceed

-----------------------------------------------------------------------------
(* Marks: what is closed, poisoned or registered for cleanup.              *)

\* A handle a goroutine is about to poison is in use and reachable.
LEMMA PoisonedIsPinned ==
  ASSUME Both, NEW t \in Threads, pc[t] = "poison"
  PROVE  at[t] \in made \ swept /\ ptr[at[t]]
<1>1. PICK i : <<t, i, at[t]>> \in pins
  BY Types DEF Both, ReleaseInv, PoisonOf
<1>2. ptr[at[t]] /\ at[t] \in Handles
  BY <1>1, PinsByThread DEF Both, Layer3, Layer2, PinsOf
<1>3. at[t] \notin swept
  BY <1>1, SweptByThread DEF Both, Layer3, ReachesOf
<1>. QED  BY <1>2, <1>3, Types DEF Both

LEMMA MarksStep ==
  ASSUME Both, NEW a \in Actors, StepOf(a), Stable
  PROVE  MarksInv'
<1> USE DEF MarksInv
<1>0. /\ MarksInv /\ made \subseteq made' /\ made \subseteq Handles
      /\ closed \in [Handles -> BOOLEAN] /\ poison \in [Handles -> BOOLEAN]
      /\ cleanup \in [Handles -> BOOLEAN] /\ ptr \in [Handles -> BOOLEAN]
      /\ Views \subseteq Handles
      /\ \A h \in made : ptr'[h] => ptr[h]
  BY Types, ShapeAssumption DEF Both, ReleaseInv, Stable
<1>1. CASE UNCHANGED <<closed, poison, cleanup>>
  BY <1>0, <1>1
<1>2. CASE a \in Threads /\ Poison(a)
  <2>1. /\ UNCHANGED <<ptr, closed, made>>
        /\ poison' = [poison EXCEPT ![at[a]] = TRUE]
        /\ cleanup' = [cleanup EXCEPT ![at[a]] = FALSE]
    BY <1>2 DEF Poison, program
  <2>2. at[a] \in made
    BY <1>2, PoisonedIsPinned DEF Poison
  <2>. QED  BY <1>0, <2>1, <2>2
<1>3. CASE a \in Threads /\ NativeMakesChild(a)
  <2>1. /\ UNCHANGED <<closed, poison>> /\ made' = made \union {child[a]}
        /\ cleanup' = [cleanup EXCEPT ![child[a]] = TRUE]
    BY <1>3 DEF NativeMakesChild
  <2>2. child[a] \in Dependents \ made
    BY <1>3, Types DEF NativeMakesChild, Both, Layer3, Layer2, Layer1, OpInv, OpOf
  <2>3. child[a] \in Handles \ Views
    BY <2>2 DEF Dependents
  <2>. QED  BY <1>0, <2>1, <2>2, <2>3
<1>4. CASE a \in Threads /\ Close(a)
  <2>1. PICK h \in Handles \ Views :
          /\ h \in made /\ closed' = [closed EXCEPT ![h] = TRUE]
          /\ cleanup' = [cleanup EXCEPT ![h] = FALSE]
          /\ UNCHANGED <<poison, made>>
    BY <1>4 DEF Close, Usable, program
  <2>. QED  BY <1>0, <2>1
<1>5. CASE a \in Threads /\ CloseView(a)
  <2>1. PICK v \in Views :
          /\ v \in made /\ closed' = [closed EXCEPT ![v] = TRUE]
          /\ ptr' = [ptr EXCEPT ![v] = FALSE]
          /\ UNCHANGED <<poison, cleanup, made>>
    BY <1>5 DEF CloseView, Usable, program
  <2>. QED  BY <1>0, <2>1
<1>6. CASE a = Collector /\ \E h \in Handles : Collect(h)
  <2>1. PICK h \in Handles : /\ cleanup' \in {cleanup, [cleanup EXCEPT ![h] = FALSE]}
                             /\ UNCHANGED <<closed, poison, made>>
    BY <1>6 DEF Collect
  <2>. QED  BY <1>0, <2>1
<1>. QED  BY <1>1, <1>2, <1>3, <1>4, <1>5, <1>6, WritersOfMarks

-----------------------------------------------------------------------------
(* Destructors.                                                            *)

\* Whoever starts a destructor has taken a handle whose object is alive and
\* nobody else is about to destroy.
LEMMA DeinitEnters ==
  ASSUME Both, NEW a \in Actors, StepOf(a), pc'[a] = "deinit"
  PROVE  \E h \in made \ Views :
           /\ at'[a] = h /\ native[h] = "live" /\ (doomed'[a] <=> ~poison[h])
           /\ \A b \in Actors \ {a} : pc[b] = "deinit" => at[b] # h
           /\ UNCHANGED <<native, poison, made>>
<1>0. /\ at \in [Actors -> Handles \union {NoHandle}] /\ doomed \in [Actors -> BOOLEAN]
      /\ pc \in [Actors -> PCs] /\ poison \in [Handles -> BOOLEAN]
      /\ \A h \in Handles : ptr[h] => h \in made
      /\ dropped \subseteq made /\ swept \subseteq dropped /\ made \subseteq Handles
  BY Types DEF Both
<1>1. ASSUME NEW h \in made \ Views, ptr[h], h \notin swept
      PROVE  native[h] = "live" /\ \A b \in Actors : pc[b] = "deinit" => at[b] # h
  BY <1>0, <1>1 DEF Both, Layer3, NativeInv, Actors
<1>2. ASSUME NEW h, NEW u, h \in made, Take(a, h, u)
      PROVE  at'[a] = h /\ (doomed'[a] <=> ~poison[h])
  BY <1>0, <1>2 DEF Take
<1>3. CASE a \in Threads /\ Release(a)
  <2>1. at[a] \in Handles
    BY <1>0, <1>3 DEF Release, Both, Layer3, Layer2, Layer1, TypeInv, FrameInv
  <2>2. Take(a, at[a], up[at[a]]) /\ ptr[at[a]] /\ closed[at[a]]
    BY <1>0, <1>3 DEF Release, ReleaseNext, Unwind, Return, Goto
  <2>3. at[a] \notin Views /\ at[a] \in made
    BY <1>0, <2>1, <2>2 DEF Both, ReleaseInv, MarksInv
  <2>4. at[a] \notin swept
    BY <1>3, SweptByThread DEF Both, Layer3, ReachesOf
  <2>5. UNCHANGED <<native, poison, made>>
    BY <1>3 DEF Release, backing, program
  <2>. QED  BY <1>1, <1>2, <2>2, <2>3, <2>4, <2>5
<1>4. CASE a \in Threads /\ Close(a)
  <2>1. PICK h \in Handles \ Views :
          /\ h \in made \ dropped /\ UNCHANGED <<native, poison, made>> /\ pc[a] = "idle"
          /\ (Take(a, h, NoHandle) /\ ptr[h]) \/ UNCHANGED pc
    BY <1>4 DEF Close, Usable, Idle, program, backing
  <2>2. Take(a, h, NoHandle) /\ ptr[h] /\ h \in made \ Views /\ h \notin swept
    BY <1>0, <2>1
  <2>. QED  BY <1>1, <1>2, <2>1, <2>2
<1>5. CASE a = Collector /\ \E h \in Handles : Collect(h)
  <2>1. PICK h \in Handles : Collect(h)
    BY <1>5
  <2>2. cleanup[h] /\ at'[a] = h /\ doomed'[a] /\ UNCHANGED <<native, poison, made>>
    BY <1>0, <1>5, <2>1 DEF Collect, backing, Idle
  <2>3. h \in made \ Views /\ ~closed[h] /\ ~poison[h] /\ h \notin swept
    BY <1>0, <2>1, <2>2 DEF Collect, Both, ReleaseInv, MarksInv
  <2>4. ptr[h]
    BY <2>3 DEF Both, Layer3, Layer2, Layer1, FieldsInv
  <2>. QED  BY <1>1, <2>2, <2>3, <2>4
<1>. QED  BY <1>3, <1>4, <1>5, EndsStart DEF Both

\* While an actor is inside a destructor, nobody else destroys, remakes or
\* poisons the handle.
LEMMA OthersKeepDeinit ==
  ASSUME Both, NEW a \in Actors, StepOf(a), NEW b \in Actors, a # b, pc[b] = "deinit"
  PROVE  native'[at[b]] = native[at[b]] /\ poison'[at[b]] = poison[at[b]]
<1>0. /\ native \in [Handles -> {"none", "live", "freed"}] /\ poison \in [Handles -> BOOLEAN]
      /\ made \subseteq Handles /\ at[b] \in made
  BY Types DEF Both, ReleaseInv, DeinitOf
<1>1. native'[at[b]] = native[at[b]]
  <2>1. CASE Deinit(a)
    <3>1. at[a] # at[b]
      BY <2>1 DEF Deinit, Both, ReleaseInv, OneDestroyer
    <3>. QED  BY <1>0, <2>1, <3>1 DEF Deinit
  <2>2. CASE a \in Threads /\ NativeMakesChild(a)
    <3>1. child[a] \notin made
      BY <2>2, Types DEF NativeMakesChild, Both, Layer3, Layer2, Layer1, OpInv, OpOf
    <3>. QED  BY <1>0, <2>2, <3>1 DEF NativeMakesChild
  <2>. QED  BY <2>1, <2>2, WritersOfNative
<1>2. poison'[at[b]] = poison[at[b]]
  <2>1. CASE a \in Threads /\ Poison(a)
    <3>1. at[a] \in made \ swept /\ ptr[at[a]]
      BY <2>1, PoisonedIsPinned DEF Poison
    <3>2. at[b] # at[a]
      BY <3>1 DEF Both, Layer3, NativeInv, Actors
    <3>. QED  BY <1>0, <2>1, <3>2 DEF Poison
  <2>2. CASE a \in Threads /\ (NativeMakesChild(a) \/ Close(a) \/ CloseView(a))
    BY <2>2 DEF NativeMakesChild, Close, CloseView
  <2>3. CASE a = Collector /\ \E h \in Handles : Collect(h)
    BY <2>3 DEF Collect
  <2>. QED  BY <2>1, <2>2, <2>3, WritersOfMarks
<1>. QED  BY <1>1, <1>2

LEMMA DestroyersStep ==
  ASSUME Both, NEW a \in Actors, StepOf(a), Stable
  PROVE  OneDestroyer' /\ \A b \in Actors : DeinitOf(b)'
<1>1. \A b \in Actors \ {a} : pc'[b] = pc[b] /\ at'[b] = at[b] /\ doomed'[b] = doomed[b]
  BY Footprint, OthersKeepDoomed DEF Untouched, Both, Layer3, Layer2, Layer1
<1>2. OneDestroyer'
  <2>1. ASSUME NEW b \in Actors \ {a}, pc'[a] = "deinit", pc'[b] = "deinit"
        PROVE  at'[a] # at'[b]
    BY <1>1, <2>1, DeinitEnters
  <2>2. ASSUME NEW b \in Actors \ {a}, NEW c \in Actors \ {a}, b # c,
               pc'[b] = "deinit", pc'[c] = "deinit"
        PROVE  at'[b] # at'[c]
    BY <1>1, <2>2 DEF Both, ReleaseInv, OneDestroyer
  <2>. QED  BY <2>1, <2>2 DEF OneDestroyer
<1>3. ASSUME NEW b \in Actors \ {a} PROVE DeinitOf(b)'
  <2>1. made \subseteq made'
    BY DEF Stable
  <2>2. CASE pc[b] = "deinit"
    BY <1>1, <1>3, <2>1, <2>2, OthersKeepDeinit DEF DeinitOf, Both, ReleaseInv
  <2>. QED  BY <1>1, <1>3, <2>2 DEF DeinitOf
<1>4. DeinitOf(a)'
  BY DeinitEnters DEF DeinitOf
<1>. QED  BY <1>2, <1>3, <1>4

-----------------------------------------------------------------------------
(* Tokens and poison.                                                      *)

LEMMA TokensStep ==
  ASSUME Both, NEW a \in Actors, StepOf(a), Stable
  PROVE  TokensOutliveObject' /\ \A b \in Actors : UntokenOf(b)'
<1>0. /\ native \in [Handles -> {"none", "live", "freed"}] /\ poison \in [Handles -> BOOLEAN]
      /\ tokens \in [Handles -> BOOLEAN] /\ at \in [Actors -> Handles \union {NoHandle}]
      /\ pc \in [Actors -> PCs] /\ made \subseteq Handles /\ made \subseteq made'
      /\ RetainsCallbacks \subseteq Handles \ Views
  BY Types, ShapeAssumption DEF Both, Stable
<1>1. \A h \in Handles : poison[h] => poison'[h]
  BY <1>0, WritersOfMarks DEF Poison, NativeMakesChild, Close, CloseView, Collect
<1>2. \A h \in made : native'[h] = native[h] \/ native'[h] = "freed"
  <2>1. CASE Deinit(a)
    BY <1>0, <2>1 DEF Deinit
  <2>2. CASE a \in Threads /\ NativeMakesChild(a)
    <3>1. child[a] \notin made
      BY <2>2, Types DEF NativeMakesChild, Both, Layer3, Layer2, Layer1, OpInv, OpOf
    <3>. QED  BY <1>0, <2>2, <3>1 DEF NativeMakesChild
  <2>. QED  BY <2>1, <2>2, WritersOfNative
<1>3. TokensOutliveObject'
  <2> SUFFICES ASSUME NEW h \in RetainsCallbacks, h \in made', native'[h] = "live"
               PROVE  tokens'[h] \/ poison'[h]
    BY DEF TokensOutliveObject
  <2>1. CASE h \in made
    <3>1. native[h] = "live" /\ (tokens[h] \/ poison[h])
      BY <1>2, <2>1 DEF Both, ReleaseInv, TokensOutliveObject
    <3>2. CASE DeleteCallbackHandles(a)
      <4>1. at[a] = h => poison[h]
        BY <3>1, <3>2 DEF DeleteCallbackHandles, Both, ReleaseInv, UntokenOf
      <4>2. tokens' = [tokens EXCEPT ![at[a]] = FALSE]
        BY <3>2 DEF DeleteCallbackHandles
      <4>. QED  BY <1>0, <1>1, <3>1, <4>1, <4>2
    <3>3. CASE a \in Threads /\ NativeMakesChild(a)
      BY <1>0, <1>1, <3>1, <3>3 DEF NativeMakesChild
    <3>. QED  BY <1>0, <1>1, <3>1, <3>2, <3>3, WritersOfTokens
  <2>2. CASE h \notin made
    <3>1. a \in Threads /\ (NativeMakesChild(a) \/ NativeMakesView(a)) /\ h = child[a]
      BY <2>2, MadeGrows, WritersOfFields DEF Release, Close, CloseView, program
    <3>2. CASE NativeMakesView(a)
      BY <1>0, <3>1, <3>2, Types
      DEF NativeMakesView, Both, Layer3, Layer2, Layer1, OpInv, OpOf
    <3>3. CASE NativeMakesChild(a)
      BY <1>0, <3>1, <3>3 DEF NativeMakesChild
    <3>. QED  BY <3>1, <3>2, <3>3
  <2>. QED  BY <2>1, <2>2
<1>4. ASSUME NEW b \in Actors \ {a} PROVE UntokenOf(b)'
  <2>1. pc'[b] = pc[b] /\ at'[b] = at[b]
    BY <1>4, Footprint DEF Untouched, Both, Layer3, Layer2, Layer1
  <2>. QED  BY <1>0, <1>1, <1>2, <2>1 DEF UntokenOf, Both, ReleaseInv
<1>5. UntokenOf(a)'
  <2> SUFFICES ASSUME pc'[a] = "untoken"
               PROVE  at'[a] \in made' /\ (native'[at'[a]] = "freed" \/ poison'[at'[a]])
    BY DEF UntokenOf
  <2>1. Deinit(a)
    BY EndsStart DEF Both
  <2>2. at' = at
    <3>1. ASSUME NEW h, ReleaseNext(a, h) PROVE FALSE
      BY <1>0, <3>1 DEF ReleaseNext, Unwind, Return, Goto
    <3>2. ~DropOrReturn(a)
      BY <1>0, <3>1 DEF DropOrReturn, Goto
    <3>. QED  BY <2>1, <3>2 DEF Deinit
  <2>3. at[a] \in made /\ (doomed[a] <=> ~poison[at[a]])
    BY <2>1 DEF Deinit, Both, ReleaseInv, DeinitOf
  <2>. QED  BY <1>0, <1>1, <2>1, <2>2, <2>3 DEF Deinit
<1>. QED  BY <1>3, <1>4, <1>5

LEMMA PoisonStep ==
  ASSUME Both, NEW a \in Actors, StepOf(a), Stable, FieldsInv'
  PROVE  PoisonClimbs' /\ \A b \in Actors : PoisonOf(b)'
<1>0. /\ poison \in [Handles -> BOOLEAN] /\ at \in [Actors -> Handles \union {NoHandle}]
      /\ pc \in [Actors -> PCs] /\ Threads \subseteq Actors
  BY Types DEF Both
<1>1. \A b \in Actors \ {a} :
        /\ pc'[b] = pc[b] /\ at'[b] = at[b]
        /\ \A i, h : <<b, i, h>> \in pins' <=> <<b, i, h>> \in pins
  BY Footprint DEF Untouched, Both, Layer3, Layer2, Layer1
<1>2. ASSUME NEW b \in Actors \ {a} PROVE PoisonOf(b)'
  BY <1>1, <1>2 DEF PoisonOf, Both, ReleaseInv
<1>3. PoisonOf(a)'
  <2> SUFFICES ASSUME pc'[a] = "poison" PROVE \E i : <<a, i, at'[a]>> \in pins'
    BY DEF PoisonOf
  <2>1. /\ a \in Threads /\ (NativePanics(a) \/ Poison(a)) /\ pins' = pins
        /\ args[a] \in Seq(Handles) /\ k[a] \in Nat \ {0}
    BY EndsStart DEF NativePanics, Poison, Both, Layer3, Layer2, Layer1, TypeInv, TypeOK
  <2>2. \A j \in 1..Len(args[a]) : <<a, j, args[a][j]>> \in pins
    BY <2>1 DEF NativePanics, Poison, Both, Layer3, Layer2, PhaseInv, PhaseOf, Lowest
  <2>3. CASE NativePanics(a)
    <3>1. at'[a] = args[a][1] /\ 1 \in 1..Len(args[a])
      BY <1>0, <2>1, <2>3 DEF NativePanics, Both, Layer3, Layer2, Layer1, TypeInv, FrameInv
    <3>. QED  BY <2>1, <2>2, <3>1
  <2>4. CASE Poison(a) /\ up[at[a]] # NoHandle
    <3>1. PICK i : <<a, i, at[a]>> \in pins
      BY <2>4 DEF Poison, Both, ReleaseInv, PoisonOf
    <3>2. <<a, i, up[at[a]]>> \in pins
      BY <2>1, <2>4, <3>1, PinsByThread DEF Both, Layer3, Layer2, PinsOf
    <3>3. at'[a] = up[at[a]]
      BY <1>0, <2>4 DEF Poison
    <3>. QED  BY <2>1, <3>2, <3>3
  <2>5. CASE Poison(a) /\ up[at[a]] = NoHandle
    <3>1. k[a] < Len(args[a]) /\ at'[a] = args[a][k[a] + 1]
      BY <1>0, <2>5 DEF Poison, Leave, Goto
    <3>2. k[a] + 1 \in 1..Len(args[a])
      BY <2>1, <3>1
    <3>. QED  BY <2>1, <2>2, <3>1, <3>2
  <2>. QED  BY <2>1, <2>3, <2>4, <2>5
<1>4. ASSUME a \in Threads, Poison(a) PROVE PoisonClimbs'
  <2> SUFFICES ASSUME NEW h \in Handles, poison'[h], up'[h] # NoHandle
               PROVE  \/ poison'[up'[h]]
                      \/ \E t \in Threads : pc'[t] = "poison" /\ at'[t] = up'[h]
    BY DEF PoisonClimbs, ClimbOf
  <2>1. /\ up' = up /\ poison' = [poison EXCEPT ![at[a]] = TRUE] /\ at[a] \in Handles
        /\ up[h] \in Handles
    BY <1>4, PoisonedIsPinned, Types
    DEF Poison, Both, Layer3, Layer2, Layer1, TypeInv, TypeOK
  <2>2. CASE h = at[a]
    <3>1. pc'[a] = "poison" /\ at'[a] = up[h]
      BY <1>0, <1>4, <2>1, <2>2 DEF Poison
    <3>. QED  BY <1>4, <2>1, <3>1
  <2>3. CASE h # at[a]
    <3>1. poison[up[h]] \/ \E t \in Threads : pc[t] = "poison" /\ at[t] = up[h]
      BY <1>0, <2>1, <2>3 DEF Both, ReleaseInv, PoisonClimbs, ClimbOf
    <3>. QED  BY <1>0, <1>1, <2>1, <3>1
  <2>. QED  BY <2>2, <2>3
<1>5. ASSUME ~(a \in Threads /\ Poison(a)) PROVE PoisonClimbs'
  <2> SUFFICES ASSUME NEW h \in Handles, poison'[h], up'[h] # NoHandle
               PROVE  \/ poison'[up'[h]]
                      \/ \E t \in Threads : pc'[t] = "poison" /\ at'[t] = up'[h]
    BY DEF PoisonClimbs, ClimbOf
  <2>1. poison' = poison
    BY <1>5, WritersOfMarks DEF NativeMakesChild, Close, CloseView, Collect
  <2>2. h \in made
    BY <2>1 DEF Both, ReleaseInv, MarksInv
  <2>3. up'[h] = up[h]
    BY <2>2 DEF FieldsInv, Stable
  <2>4. a \in Threads => pc[a] # "poison"
    <3>1. ASSUME a \in Threads, pc[a] = "poison" PROVE FALSE
      BY <1>5, <3>1, Types
      DEF StepOf, Start, StartCall, StartNew, StartView, Begin, Idle, Proceed, Lookup, Pin,
          PinRefused, NativeEnds, NativeReturns, NativeMakesChild, NativeMakesView,
          NativePanics, Release, CleanupStep, Deinit, DeleteCallbackHandles, DropChild,
          DropReservation, Close, CloseView, Both
    <3>. QED  BY <3>1
  <2>. QED  BY <1>0, <1>1, <2>1, <2>3, <2>4 DEF Both, ReleaseInv, PoisonClimbs, ClimbOf
<1>. QED  BY <1>2, <1>3, <1>4, <1>5

-----------------------------------------------------------------------------
(* The theorems.                                                           *)

LEMMA BothInit == Init => Both
<1> SUFFICES ASSUME Init PROVE Both
  OBVIOUS
<1>1. Layer3
  BY Layer3Init
<1>2. /\ \A h \in Handles : ~closed[h] /\ ~poison[h] /\ (cleanup[h] <=> h \in Roots)
      /\ \A h \in Handles : tokens[h] <=> h \in Roots \intersect RetainsCallbacks
      /\ \A a \in Actors : pc[a] = "idle"
      /\ made = Roots
  BY DEF Init
<1>3. MarksInv /\ OneDestroyer /\ PoisonClimbs
  BY <1>2, ShapeAssumption DEF MarksInv, OneDestroyer, PoisonClimbs, ClimbOf, Roots
<1>4. TokensOutliveObject
  BY <1>2, ShapeAssumption DEF TokensOutliveObject
<1>5. \A a \in Actors : DeinitOf(a) /\ UntokenOf(a) /\ PoisonOf(a)
  BY <1>2 DEF DeinitOf, UntokenOf, PoisonOf
<1>. QED  BY <1>1, <1>3, <1>4, <1>5 DEF Both, ReleaseInv

LEMMA BothNext == Both /\ [Next]_vars => Both'
<1> SUFFICES ASSUME Both, [Next]_vars PROVE Both'
  OBVIOUS
<1>1. Layer3' /\ Stable /\ FieldsInv'
  BY Layer3Next, FieldsStep DEF Both, Layer3, Layer2, Layer1
<1>2. ASSUME NEW a \in Actors, StepOf(a) PROVE ReleaseInv'
  BY <1>1, <1>2, MarksStep, DestroyersStep, TokensStep, PoisonStep DEF ReleaseInv
<1>3. ASSUME UNCHANGED <<closed, poison, cleanup, made, ptr, up, native, tokens, pc, at, doomed,
                         pins>>
      PROVE  ReleaseInv'
  BY <1>3
  DEF Both, ReleaseInv, MarksInv, OneDestroyer, PoisonClimbs, ClimbOf, TokensOutliveObject,
      DeinitOf, UntokenOf, PoisonOf
<1>4. ASSUME UNCHANGED vars PROVE ReleaseInv'
  BY <1>3, <1>4 DEF vars, fields, program, backing, walk, teardown
<1>5. ASSUME NEW h \in Handles, Forget(h) PROVE ReleaseInv'
  BY <1>3, <1>5 DEF Forget, fields, backing, walk, teardown
<1>. QED  BY <1>1, <1>2, <1>4, <1>5, Steps DEF Both

\* The inductive invariant holds in every reachable state of every flat forest.
THEOREM ReleaseInvariant == Spec => []Both
BY BothInit, BothNext, PTL DEF Spec

\* Close, the last call out and the collector agree on who destroys an object:
\* when a destructor starts the object is alive, and nobody else is about to
\* destroy it.
THEOREM DestroyedOnlyOnce == Spec => []DestroyedOnce
<1>1. Both => DestroyedOnce
  BY DEF Both, ReleaseInv, DeinitOf, OneDestroyer, DestroyedOnce
<1>. QED  BY <1>1, ReleaseInvariant, PTL

\* The callback tokens a handle retained stay until its object is destroyed, so
\* that neither the object nor its destructor calls a deleted token.
THEOREM TokensStayUntilFreed == Spec => []TokensOutliveObject
<1>1. Both => TokensOutliveObject
  BY DEF Both, ReleaseInv
<1>. QED  BY <1>1, ReleaseInvariant, PTL

\* Between panicking calls, no handle is usable below which one is poisoned: the
\* walk of a poisoning up the owners and parents loses none, whoever closes or
\* makes handles meanwhile.
THEOREM PoisonClimbsToTheTop == Spec => []PoisonReachesParent
<1>1. Both => PoisonReachesParent
  <2> SUFFICES ASSUME Both, \A t \in Threads : pc[t] # "poison",
                      NEW h \in made, poison[h], up[h] # NoHandle
               PROVE  poison[up[h]]
    BY DEF PoisonReachesParent
  <2>1. h \in Handles
    BY Types DEF Both
  <2>. QED  BY <2>1 DEF Both, ReleaseInv, PoisonClimbs, ClimbOf
<1>. QED  BY <1>1, ReleaseInvariant, PTL

LEMMA PoisonedStay ==
  ASSUME Both, NEW a \in Actors, StepOf(a), NEW h \in Handles, poison[h]
  PROVE  native'[h] = native[h]
<1>1. native \in [Handles -> {"none", "live", "freed"}] /\ h \in made
  BY Types DEF Both, ReleaseInv, MarksInv
<1>2. CASE Deinit(a)
  <2>1. doomed[a] <=> ~poison[at[a]]
    BY <1>2 DEF Deinit, Both, ReleaseInv, DeinitOf
  <2>. QED  BY <1>1, <1>2, <2>1 DEF Deinit
<1>3. CASE a \in Threads /\ NativeMakesChild(a)
  <2>1. child[a] \notin made
    BY <1>3, Types DEF NativeMakesChild, Both, Layer3, Layer2, Layer1, OpInv, OpOf
  <2>. QED  BY <1>1, <1>3, <2>1 DEF NativeMakesChild
<1>. QED  BY <1>2, <1>3, WritersOfNative

\* What a panic may have left half-changed is never destroyed: no step of Close,
\* of the last call out or of the collector touches the object of a poisoned
\* handle.
THEOREM PoisonedObjectsStay == Spec => PoisonedNeverDestroyed
<1>1. Both /\ [Next]_vars => [\A h \in Handles : poison[h] => native'[h] = native[h]]_vars
  BY PoisonedStay, Steps DEF Forget, backing
<1>2. Spec => [][Next]_vars
  BY PTL DEF Spec
<1>. QED  BY <1>1, <1>2, ReleaseInvariant, PTL DEF PoisonedNeverDestroyed

-----------------------------------------------------------------------------
(* The places taken in a parent.                                           *)

\* Where a child holds a place.
ParentOf ==
  [c \in Dependents |-> IF c \in made /\ (c \notin swept \/ poison[c]) THEN up[c] ELSE NoHandle]

Count(S, f, h) == Cardinality({x \in S : f[x] = h})

Places(h) ==
  Count(Dependents, ParentOf, h) + Count(Actors, reservation, h) + Count(Actors, orphan, h)

\* By how much a place for h changes hands when one value is overwritten.
One(b) == IF b THEN 1 ELSE 0
Gain(new, old, h) == One(new = h) - One(old = h)

\* A closed handle has no child; one whose type hands out views has no call
\* inside either; and somebody inside will take what it left.
ClosedInv ==
  /\ \A h \in Handles \ Views : closed[h] => children[h] = 0
  /\ \A h \in Handles : closed[h] /\ ReturnsBorrowedViews(h) => active[h] = 0
  /\ \A h \in Handles : closed[h] /\ ptr[h] => active[h] # 0

\* A handle the program may drop has its cleanup registered, unless it was
\* closed or poisoned; a poisoned one that was not taken keeps its object.
CleanupInv ==
  /\ \A h \in made \ (Views \union swept) : closed[h] \/ poison[h] \/ cleanup[h]
  /\ \A h \in made \ Views : poison[h] /\ ptr[h] => native[h] = "live"

\* A collected child whose object is still there is being destroyed, and the
\* collector gives its place back afterwards.
CollectedOf(c) ==
  c \in swept /\ up[c] # NoHandle /\ native[c] = "live" /\ ~poison[c] =>
    /\ pc[Collector] = "deinit" /\ at[Collector] = c
    /\ orphan[Collector] = up[c] /\ up[c] \notin swept

PlacesInv == \A h \in Handles \ Views : children[h] = Places(h)

ReserveInv ==
  ClosedInv /\ CleanupInv /\ PlacesInv /\ \A c \in Dependents : CollectedOf(c)

All == Both /\ ReserveInv

\* f and g differ at most at x.
Beside(S, x, f, g) == \A y \in S \ {x} : g[y] = f[y]

-----------------------------------------------------------------------------
(* Counting.                                                               *)

LEMMA SetUpdate ==
  ASSUME NEW F, IsFiniteSet(F), NEW G, NEW x, \A y : y # x => (y \in G <=> y \in F)
  PROVE  /\ Cardinality(F) \in Nat
         /\ Cardinality(G) = Cardinality(F) + One(x \in G) - One(x \in F)
<1> DEFINE R == F \ {x}
<1>1. IsFiniteSet(R) /\ Cardinality(F) \in Nat /\ Cardinality(R) \in Nat
  BY FS_Subset, FS_CardinalityType
<1>2. Cardinality(F) = Cardinality(R) + One(x \in F)
  <2>1. Cardinality(R) = IF x \in F THEN Cardinality(F) - 1 ELSE Cardinality(F)
    BY <1>1, FS_RemoveElement
  <2>. QED  BY <1>1, <2>1 DEF One
<1>3. Cardinality(G) = Cardinality(R) + One(x \in G)
  <2>1. CASE x \in G
    <3>1. G = R \union {x} /\ x \notin R
      BY <2>1
    <3>2. Cardinality(R \union {x}) = Cardinality(R) + 1
      BY <1>1, <3>1, FS_AddElement
    <3>. QED  BY <2>1, <3>1, <3>2 DEF One
  <2>2. CASE x \notin G
    <3>1. G = R
      BY <2>2
    <3>. QED  BY <1>1, <2>2, <3>1 DEF One
  <2>. QED  BY <2>1, <2>2
<1>. QED  BY <1>1, <1>2, <1>3 DEF One

LEMMA CountUpdate ==
  ASSUME NEW S, NEW f, NEW g, NEW h, NEW x \in S, IsFiniteSet(S), Beside(S, x, f, g)
  PROVE  /\ Count(S, f, h) \in Nat
         /\ Count(S, g, h) = Count(S, f, h) + Gain(g[x], f[x], h)
<1> DEFINE F == {y \in S : f[y] = h}
           G == {y \in S : g[y] = h}
<1>1. IsFiniteSet(F)
  BY FS_Subset
<1>2. \A y : y # x => (y \in G <=> y \in F)
  BY DEF Beside
<1>3. (x \in F <=> f[x] = h) /\ (x \in G <=> g[x] = h)
  OBVIOUS
<1> HIDE DEF F, G
<1>4. Cardinality(F) \in Nat /\ Cardinality(G) = Cardinality(F) + One(x \in G) - One(x \in F)
  BY <1>1, <1>2, SetUpdate
<1>5. Count(S, f, h) = Cardinality(F) /\ Count(S, g, h) = Cardinality(G)
  BY DEF F, G, Count
<1>. QED  BY <1>3, <1>4, <1>5 DEF Gain, One

LEMMA FiniteActors == IsFiniteSet(Actors) /\ IsFiniteSet(Dependents)
<1>1. Dependents \in SUBSET Handles
  BY DEF Dependents
<1>. QED  BY <1>1, HandlesAssumption, FS_Subset, FS_AddElement DEF Actors

LEMMA PlacesUpdate ==
  ASSUME NEW a \in Actors, NEW h, NEW c \in Dependents,
         Beside(Actors, a, reservation, reservation'), Beside(Actors, a, orphan, orphan'),
         Beside(Dependents, c, ParentOf, ParentOf')
  PROVE  /\ Places(h) \in Nat
         /\ Places(h)' = Places(h) + Gain(ParentOf'[c], ParentOf[c], h)
              + Gain(reservation'[a], reservation[a], h) + Gain(orphan'[a], orphan[a], h)
<1>1. /\ Count(Dependents, ParentOf, h) \in Nat
      /\ Count(Dependents, ParentOf', h) =
           Count(Dependents, ParentOf, h) + Gain(ParentOf'[c], ParentOf[c], h)
  BY CountUpdate, FiniteActors
<1>2. /\ Count(Actors, reservation, h) \in Nat
      /\ Count(Actors, reservation', h) =
           Count(Actors, reservation, h) + Gain(reservation'[a], reservation[a], h)
  BY CountUpdate, FiniteActors
<1>3. /\ Count(Actors, orphan, h) \in Nat
      /\ Count(Actors, orphan', h) = Count(Actors, orphan, h) + Gain(orphan'[a], orphan[a], h)
  BY CountUpdate, FiniteActors
<1>4. Places(h)' = Count(Dependents, ParentOf', h) + Count(Actors, reservation', h)
                     + Count(Actors, orphan', h)
  BY DEF Places, Count
<1>. QED  BY <1>1, <1>2, <1>3, <1>4 DEF Places, Gain, One

LEMMA PlacesKept ==
  ASSUME NEW a \in Actors, NEW h,
         Beside(Actors, a, reservation, reservation'), Beside(Actors, a, orphan, orphan'),
         \A d \in Dependents : ParentOf'[d] = ParentOf[d]
  PROVE  /\ Places(h) \in Nat
         /\ Places(h)' = Places(h) + Gain(reservation'[a], reservation[a], h)
                           + Gain(orphan'[a], orphan[a], h)
<1>1. Count(Dependents, ParentOf', h) = Count(Dependents, ParentOf, h)
  BY DEF Count
<1>2. Count(Dependents, ParentOf, h) \in Nat
  BY FS_Subset, FS_CardinalityType, FiniteActors DEF Count
<1>3. /\ Count(Actors, reservation, h) \in Nat
      /\ Count(Actors, reservation', h) =
           Count(Actors, reservation, h) + Gain(reservation'[a], reservation[a], h)
  BY CountUpdate, FiniteActors
<1>4. /\ Count(Actors, orphan, h) \in Nat
      /\ Count(Actors, orphan', h) = Count(Actors, orphan, h) + Gain(orphan'[a], orphan[a], h)
  BY CountUpdate, FiniteActors
<1>5. Places(h)' = Count(Dependents, ParentOf', h) + Count(Actors, reservation', h)
                     + Count(Actors, orphan', h)
  BY DEF Places, Count
<1>. QED  BY <1>1, <1>2, <1>3, <1>4, <1>5 DEF Places, Gain, One

LEMMA PlacesAreReserved ==
  ASSUME NEW h \in Handles
  PROVE  /\ Places(h) = Cardinality(OpenChildren(h)) + Cardinality(Constructing(h))
                          + Cardinality(CleaningUp(h))
         /\ Places(h)' = Cardinality(OpenChildren(h)') + Cardinality(Constructing(h)')
                           + Cardinality(CleaningUp(h)')
<1>1. OpenChildren(h) = {c \in Dependents : ParentOf[c] = h}
  BY HandlesAssumption DEF OpenChildren, ParentOf
<1>2. OpenChildren(h)' = {c \in Dependents : ParentOf'[c] = h}
  BY HandlesAssumption DEF OpenChildren, ParentOf
<1>. QED  BY <1>1, <1>2 DEF Places, Count, Constructing, CleaningUp
-----------------------------------------------------------------------------
(* Every step keeps the count of children equal to the places taken.       *)

LEMMA MoreTypes ==
  ASSUME Layer3
  PROVE  /\ children \in [Handles -> Int] /\ active \in [Handles -> Int]
         /\ up \in [Handles -> Handles \union {NoHandle}]
         /\ orphan \in [Actors -> Handles \union {NoHandle}]
         /\ reservation \in [Actors -> Handles \union {NoHandle}]
         /\ child \in [Actors -> Handles \union {NoHandle}]
         /\ Dependents \subseteq Handles \ Views /\ Views \subseteq Handles
         /\ \A h \in Handles \ (Views \union Dependents) : h \in Roots /\ up[h] = NoHandle
BY ShapeAssumption DEF Layer3, Layer2, Layer1, TypeInv, TypeOK, FieldsInv, Dependents, Roots

LEMMA SamePlaces ==
  ASSUME All, NEW a \in Actors,
         Beside(Actors, a, reservation, reservation'), Beside(Actors, a, orphan, orphan'),
         \A d \in Dependents : ParentOf'[d] = ParentOf[d],
         children' = children, reservation'[a] = reservation[a], orphan'[a] = orphan[a]
  PROVE  PlacesInv'
<1> SUFFICES ASSUME NEW h \in Handles \ Views PROVE children'[h] = Places(h)'
  BY DEF PlacesInv
<1>1. Places(h) \in Nat /\ Places(h)' = Places(h) + Gain(reservation'[a], reservation[a], h)
                                           + Gain(orphan'[a], orphan[a], h)
  BY PlacesKept
<1>. QED  BY <1>1 DEF Gain, One, All, ReserveInv, PlacesInv

\* Whoever takes a child holds its place from then on.
LEMMA TakenPlaces ==
  ASSUME All, NEW a \in Actors, NEW h \in made \ (Views \union swept), NEW then, Take(a, h, then),
         orphan[a] = NoHandle, UNCHANGED <<made, swept, poison, children, reservation>>
  PROVE  PlacesInv'
<1>0. h \in Handles /\ Layer3
  BY Types DEF All, Both
<1>1. /\ orphan' = [orphan EXCEPT ![a] = up[h]] /\ up' = [up EXCEPT ![h] = NoHandle]
      /\ orphan'[a] = up[h] /\ up'[h] = NoHandle
  BY <1>0, MoreTypes DEF Take
<1>2. /\ Beside(Actors, a, reservation, reservation') /\ Beside(Actors, a, orphan, orphan')
      /\ reservation'[a] = reservation[a]
  BY <1>0, <1>1, MoreTypes DEF Beside
<1>3. CASE h \in Dependents
  <2>1. /\ Beside(Dependents, h, ParentOf, ParentOf')
        /\ ParentOf[h] = up[h] /\ ParentOf'[h] = NoHandle
    BY <1>0, <1>1, <1>3, MoreTypes DEF Beside, ParentOf
  <2>2. ASSUME NEW g \in Handles \ Views PROVE children'[g] = Places(g)'
    <3>1. /\ Places(g) \in Nat
          /\ Places(g)' = Places(g) + Gain(ParentOf'[h], ParentOf[h], g)
               + Gain(reservation'[a], reservation[a], g) + Gain(orphan'[a], orphan[a], g)
      BY <1>2, <1>3, <2>1, PlacesUpdate
    <3>. QED  BY <1>1, <1>2, <2>1, <3>1 DEF Gain, One, All, ReserveInv, PlacesInv
  <2>. QED  BY <2>2 DEF PlacesInv
<1>4. CASE h \notin Dependents
  <2>1. up[h] = NoHandle
    BY <1>0, <1>4, MoreTypes
  <2>2. \A d \in Dependents : ParentOf'[d] = ParentOf[d]
    BY <1>0, <1>1, <1>4, MoreTypes DEF ParentOf
  <2>. QED  BY <1>1, <1>2, <2>1, <2>2, SamePlaces
<1>. QED  BY <1>3, <1>4

\* A handle a goroutine lets go, closed but not taken, is one it has pinned.
LEMMA ReleasedOnce ==
  ASSUME All, NEW t \in Threads, Release(t), closed[at[t]], ptr[at[t]]
  PROVE  at[t] \in made \ (Views \union swept) /\ orphan[t] = NoHandle
<1>0. Layer3 /\ t \in Actors
  BY Types DEF All, Both
<1>1. at[t] \in Handles /\ orphan[t] = NoHandle
  BY <1>0, Types DEF Release, Layer3, Layer2, Layer1, TypeInv, FrameInv, OpInv, OpOf, Tearing
<1>2. at[t] \in made /\ at[t] \notin Views
  BY <1>0, <1>1, Types DEF All, Both, ReleaseInv, MarksInv
<1>3. at[t] \notin swept
  BY <1>0, SweptByThread DEF Layer3, ReachesOf
<1>. QED  BY <1>1, <1>2, <1>3

\* A handle nothing refers to has no call inside.
LEMMA UnreferredIsIdle ==
  ASSUME Layer3, NEW h \in Handles, \A a \in Actors : ~Refers(a, h) PROVE active[h] = 0
<1>1. PinsOn(h) = {}
  <2> SUFFICES ASSUME NEW p \in pins, p[3] = h PROVE FALSE
    BY DEF PinsOn
  <2>1. /\ p[1] \in Threads /\ p = <<p[1], p[2], h>> /\ p[2] \in 1..Len(args[p[1]])
    BY DEF Layer3, Layer2, PinsInv
  <2>2. p[1] \in Actors
    BY <2>1, Types
  <2>. QED  BY <2>1, <2>2 DEF Refers
<1>. QED  BY <1>1, FS_EmptySet DEF Layer3, Layer2, PinsInv, ActiveCountsPins

\* What the collector sweeps without a cleanup was poisoned, or taken before.
LEMMA DroppedUncleaned ==
  ASSUME All, NEW h \in Handles, Collect(h), ~cleanup[h], h \notin Views
  PROVE  poison[h] \/ up[h] = NoHandle
<1>0. Layer3 /\ h \in made \ swept
  BY Types DEF All, Both, Collect
<1>1. active[h] = 0
  BY <1>0, UnreferredIsIdle DEF Collect
<1>2. CASE closed[h]
  <2>1. ~ptr[h]
    BY <1>1, <1>2 DEF All, ReserveInv, ClosedInv
  <2>. QED  BY <1>0, <2>1, Types
<1>. QED  BY <1>0, <1>2 DEF All, ReserveInv, CleanupInv

LEMMA PlacesPin == ASSUME All, NEW t \in Threads, Pin(t), NEW x, x = t PROVE PlacesInv'
<1> DEFINE h == at[t]
<1>0. /\ Layer3 /\ t \in Actors /\ h \in Handles
      /\ Beside(Actors, t, reservation, reservation') /\ Beside(Actors, t, orphan, orphan')
      /\ orphan'[t] = orphan[t]
  <2>1. Layer3 /\ t \in Actors
    BY Types DEF All, Both
  <2>2. h \in Handles
    BY <2>1, Types DEF Pin, Layer3, Layer2, Layer1, TypeInv, FrameInv
  <2>. QED  BY <2>1, <2>2, MoreTypes DEF Pin, Beside, teardown
<1>1. \A d \in Dependents : ParentOf'[d] = ParentOf[d]
  BY DEF Pin, ParentOf, program
<1>2. CASE op[t] = "new" /\ reservation[t] = NoHandle
  <2>1. children' = [children EXCEPT ![h] = @ + 1] /\ reservation' = [reservation EXCEPT ![t] = h]
    BY <1>2 DEF Pin
  <2>2. ASSUME NEW g \in Handles \ Views PROVE children'[g] = Places(g)'
    <3>1. Places(g) \in Nat /\ Places(g)' = Places(g) + Gain(reservation'[t], reservation[t], g)
                                              + Gain(orphan'[t], orphan[t], g)
      BY <1>0, <1>1, PlacesKept
    <3>2. reservation'[t] = h /\ reservation[t] # g
      BY <1>0, <1>2, <2>1, MoreTypes, HandlesAssumption
    <3>. QED
      BY <1>0, <2>1, <3>1, <3>2, MoreTypes DEF Gain, One, All, ReserveInv, PlacesInv
  <2>. QED  BY <2>2 DEF PlacesInv
<1>3. CASE ~(op[t] = "new" /\ reservation[t] = NoHandle)
  <2>1. children' = children /\ reservation' = reservation
    BY <1>3 DEF Pin
  <2>. QED  BY <1>0, <1>1, <2>1, SamePlaces
<1>. QED  BY <1>2, <1>3

\* The child adopts the place its constructor took.
LEMMA PlacesMakeChild == ASSUME All, NEW t \in Threads, NativeMakesChild(t) PROVE PlacesInv'
<1> DEFINE c == child[t]
<1>0. /\ Layer3 /\ t \in Actors /\ c \in Dependents \ made /\ c \notin swept
      /\ Beside(Actors, t, reservation, reservation') /\ Beside(Actors, t, orphan, orphan')
      /\ orphan'[t] = orphan[t] /\ children' = children /\ reservation'[t] = NoHandle
      /\ up'[c] = reservation[t] /\ \A d \in Dependents \ {c} : up'[d] = up[d]
      /\ made' = made \union {c} /\ UNCHANGED <<swept, poison>>
  <2>1. Layer3 /\ t \in Actors
    BY Types DEF All, Both
  <2>2. c \in Dependents \ made
    BY <2>1 DEF NativeMakesChild, Layer3, Layer2, Layer1, OpInv, OpOf
  <2>3. c \notin swept
    BY <2>1, <2>2, Types
  <2>. QED  BY <2>1, <2>2, <2>3, MoreTypes DEF NativeMakesChild, Beside, teardown
<1>1. /\ Beside(Dependents, c, ParentOf, ParentOf')
      /\ ParentOf[c] = NoHandle /\ ParentOf'[c] = reservation[t]
  BY <1>0 DEF Beside, ParentOf
<1>2. ASSUME NEW g \in Handles \ Views PROVE children'[g] = Places(g)'
  <2>1. /\ Places(g) \in Nat
        /\ Places(g)' = Places(g) + Gain(ParentOf'[c], ParentOf[c], g)
             + Gain(reservation'[t], reservation[t], g) + Gain(orphan'[t], orphan[t], g)
    BY <1>0, <1>1, PlacesUpdate
  <2>. QED  BY <1>0, <1>1, <2>1 DEF Gain, One, All, ReserveInv, PlacesInv
<1>. QED  BY <1>2 DEF PlacesInv

\* A place is given back, by a cleanup or by a constructor that made nothing.
LEMMA PlacesDropped ==
  ASSUME All, NEW a \in Actors, DropChild(a) \/ (a \in Threads /\ DropReservation(a))
  PROVE  PlacesInv'
<1> DEFINE p == IF DropChild(a) THEN orphan[a] ELSE reservation[a]
<1>0. Layer3
  BY DEF All, Both
<1>1. /\ \A d \in Dependents : ParentOf'[d] = ParentOf[d]
      /\ children' = [children EXCEPT ![p] = @ - 1]
  BY DEF DropChild, DropReservation, ParentOf, program
<1>2. /\ Beside(Actors, a, reservation, reservation') /\ Beside(Actors, a, orphan, orphan')
      /\ \/ orphan[a] = p /\ orphan'[a] = NoHandle /\ reservation'[a] = reservation[a]
         \/ reservation[a] = p /\ reservation'[a] = NoHandle /\ orphan'[a] = orphan[a]
  <2>1. CASE DropChild(a)
    <3>1. orphan' = [orphan EXCEPT ![a] = NoHandle] /\ reservation' = reservation /\ p = orphan[a]
      BY <2>1 DEF DropChild, ReleaseNext, Unwind
    <3>. QED  BY <1>0, <3>1, MoreTypes DEF Beside
  <2>2. CASE ~DropChild(a)
    <3>1. /\ reservation' = [reservation EXCEPT ![a] = NoHandle] /\ orphan' = orphan
          /\ p = reservation[a]
      BY <2>2 DEF DropReservation, teardown
    <3>. QED  BY <1>0, <3>1, MoreTypes DEF Beside
  <2>. QED  BY <2>1, <2>2
<1> HIDE DEF p
<1>3. ASSUME NEW g \in Handles \ Views PROVE children'[g] = Places(g)'
  <2>1. Places(g) \in Nat /\ Places(g)' = Places(g) + Gain(reservation'[a], reservation[a], g)
                                            + Gain(orphan'[a], orphan[a], g)
    BY <1>1, <1>2, PlacesKept
  <2>2. NoHandle # g
    BY HandlesAssumption
  <2>3. children'[g] = children[g] - One(p = g)
    BY <1>0, <1>1, MoreTypes DEF One
  <2>. QED  BY <1>0, <1>2, <2>1, <2>2, <2>3, MoreTypes DEF Gain, One, All, ReserveInv, PlacesInv
<1>. QED  BY <1>3 DEF PlacesInv

\* The collector takes the place of a child whose cleanup it runs; one without
\* a cleanup was poisoned, or has forgotten its parent.
LEMMA PlacesCollect ==
  ASSUME All, NEW h \in Handles, Collect(h), NEW c, c = Collector PROVE PlacesInv'
<1>0. /\ Layer3 /\ c \in Actors /\ orphan[c] = NoHandle
      /\ h \in made /\ h \notin swept /\ swept' = swept \union {h} /\ children' = children
      /\ reservation' = reservation /\ UNCHANGED <<made, poison, up>>
  <2>1. Layer3 /\ c \in Actors
    BY Types DEF All, Both
  <2>2. orphan[c] = NoHandle
    BY <2>1 DEF Collect, Idle, Layer3, Layer2, Layer1, OpInv, OpOf, Tearing
  <2>. QED  BY <2>1, <2>2, Types DEF Collect
<1>1. CASE cleanup[h]
  <2>1. ~poison[h] /\ h \notin Views
    BY <1>1 DEF All, Both, ReleaseInv, MarksInv
  <2>2. orphan' = [orphan EXCEPT ![c] = up[h]]
    BY <1>1 DEF Collect
  <2>3. /\ Beside(Actors, c, reservation, reservation') /\ Beside(Actors, c, orphan, orphan')
        /\ orphan'[c] = up[h] /\ reservation'[c] = reservation[c]
    BY <1>0, <2>2, MoreTypes DEF Beside
  <2>4. CASE h \in Dependents
    <3>1. /\ Beside(Dependents, h, ParentOf, ParentOf')
          /\ ParentOf[h] = up[h] /\ ParentOf'[h] = NoHandle
      BY <1>0, <2>1, <2>4 DEF Beside, ParentOf
    <3>2. ASSUME NEW g \in Handles \ Views PROVE children'[g] = Places(g)'
      <4>1. /\ Places(g) \in Nat
            /\ Places(g)' = Places(g) + Gain(ParentOf'[h], ParentOf[h], g)
                 + Gain(reservation'[c], reservation[c], g) + Gain(orphan'[c], orphan[c], g)
        BY <1>0, <2>3, <2>4, <3>1, PlacesUpdate
      <4>. QED  BY <1>0, <2>3, <3>1, <4>1 DEF Gain, One, All, ReserveInv, PlacesInv
    <3>. QED  BY <3>2 DEF PlacesInv
  <2>5. CASE h \notin Dependents
    <3>1. up[h] = NoHandle
      BY <1>0, <2>1, <2>5, MoreTypes
    <3>2. \A d \in Dependents : ParentOf'[d] = ParentOf[d]
      BY <1>0, <2>5 DEF ParentOf
    <3>. QED  BY <1>0, <2>3, <3>1, <3>2, SamePlaces
  <2>. QED  BY <2>4, <2>5
<1>2. CASE ~cleanup[h]
  <2>1. orphan' = orphan
    BY <1>2 DEF Collect
  <2>2. h \in Dependents => poison[h] \/ up[h] = NoHandle
    BY <1>0, <1>2, DroppedUncleaned, MoreTypes
  <2>3. \A d \in Dependents : ParentOf'[d] = ParentOf[d]
    BY <1>0, <2>2 DEF ParentOf
  <2>. QED  BY <1>0, <2>1, <2>3, SamePlaces DEF Beside
<1>. QED  BY <1>1, <1>2

LEMMA PlacesStep == ASSUME All, NEW a \in Actors, StepOf(a) PROVE PlacesInv'
<1>0. /\ Layer3 /\ Threads \subseteq Actors
      /\ Beside(Actors, a, reservation, reservation') /\ Beside(Actors, a, orphan, orphan')
  <2>1. Layer3 /\ Threads \subseteq Actors
    BY Types DEF All, Both
  <2>. QED
    BY <2>1, Footprint DEF Beside, Untouched, Layer3, Layer2, Layer1
<1>1. ASSUME \A d \in Dependents : ParentOf'[d] = ParentOf[d],
             UNCHANGED <<children, reservation, orphan>>
      PROVE  PlacesInv'
  BY <1>0, <1>1, SamePlaces
<1>2. ASSUME UNCHANGED <<made, swept, poison, up>>
      PROVE  \A d \in Dependents : ParentOf'[d] = ParentOf[d]
  BY <1>2 DEF ParentOf
<1>3. CASE Start(a) \/ Lookup(a) \/ PinRefused(a) \/ NativeReturns(a) \/ NativePanics(a)
  <2>1. UNCHANGED <<made, swept, poison, up, children, reservation, orphan>>
    BY <1>3
    DEF Start, StartCall, StartNew, StartView, Begin, Lookup, PinRefused, ReleaseNext, Unwind,
        NativeReturns, NativePanics, fields, program, teardown
  <2>. QED  BY <1>1, <1>2, <2>1
<1>4. CASE a \in Threads /\ NativeMakesView(a)
  <2>1. child[a] \in Views
    BY <1>0, <1>4 DEF NativeMakesView, Layer3, Layer2, Layer1, OpInv, OpOf
  <2>2. /\ made' = made \union {child[a]} /\ up' = [up EXCEPT ![child[a]] = Creator[child[a]]]
        /\ UNCHANGED <<swept, poison, children, reservation, orphan>>
    BY <1>4 DEF NativeMakesView, teardown
  <2>3. \A d \in Dependents : ParentOf'[d] = ParentOf[d]
    BY <1>0, <2>1, <2>2, MoreTypes DEF ParentOf
  <2>. QED  BY <1>1, <2>2, <2>3
<1>5. CASE a \in Threads /\ Poison(a)
  <2>1. at[a] \in made \ swept
    BY <1>5, PoisonedIsPinned DEF Poison, All
  <2>2. /\ poison' = [poison EXCEPT ![at[a]] = TRUE]
        /\ UNCHANGED <<made, swept, up, children, reservation, orphan>>
    BY <1>5 DEF Poison, program, teardown
  <2>3. \A d \in Dependents : ParentOf'[d] = ParentOf[d]
    BY <1>0, <2>1, <2>2, Types, MoreTypes DEF ParentOf
  <2>. QED  BY <1>1, <2>2, <2>3
<1>6. CASE a \in Threads /\ Release(a)
  <2>1. CASE UNCHANGED <<up, teardown>>
    <3>1. UNCHANGED <<made, swept, poison, up, children, orphan>> /\ reservation' = reservation
      BY <1>6, <2>1 DEF Release, ReleaseNext, Unwind, Return, program, teardown
    <3>. QED  BY <1>1, <1>2, <3>1
  <2>2. CASE closed[at[a]] /\ ptr[at[a]] /\ Take(a, at[a], up[at[a]])
    <3>1. /\ at[a] \in made \ (Views \union swept) /\ orphan[a] = NoHandle
      BY <1>6, <2>2, ReleasedOnce
    <3>2. UNCHANGED <<made, swept, poison, children, reservation>>
      BY <1>6, <2>2 DEF Release, Take, ReleaseNext, Unwind, Return, program
    <3>. QED  BY <2>2, <3>1, <3>2, TakenPlaces
  <2>. QED  BY <1>6, <2>1, <2>2 DEF Release
<1>7. CASE a \in Threads /\ Close(a)
  <2>1. PICK h \in Handles \ Views :
          /\ Idle(a) /\ Usable(h)
          /\ IF active[h] = 0 /\ ptr[h] THEN Take(a, h, NoHandle)
             ELSE UNCHANGED <<ptr, up, teardown, at, pc>>
          /\ UNCHANGED <<children, poison, program, reservation>>
    BY <1>7 DEF Close
  <2>2. CASE UNCHANGED <<up, teardown>>
    BY <1>1, <1>2, <2>1, <2>2 DEF program, teardown
  <2>3. CASE Take(a, h, NoHandle)
    <3>1. orphan[a] = NoHandle
      BY <1>0, <2>1 DEF Idle, Layer3, Layer2, Layer1, OpInv, OpOf, Tearing
    <3>2. h \in made \ (Views \union swept)
      BY <1>0, <2>1, Types DEF Usable
    <3>. QED  BY <2>1, <2>3, <3>1, <3>2, TakenPlaces DEF program
  <2>. QED  BY <2>1, <2>2, <2>3
<1>8. CASE a \in Threads /\ CloseView(a)
  <2>1. PICK v \in Views : up' = [up EXCEPT ![v] = NoHandle]
    BY <1>8 DEF CloseView
  <2>2. UNCHANGED <<made, swept, poison, children, reservation, orphan>>
    BY <1>8 DEF CloseView, program, teardown
  <2>3. \A d \in Dependents : ParentOf'[d] = ParentOf[d]
    BY <1>0, <2>1, <2>2, MoreTypes DEF ParentOf
  <2>. QED  BY <1>1, <2>2, <2>3
<1>9. CASE Deinit(a) \/ DeleteCallbackHandles(a)
  <2>1. UNCHANGED <<made, swept, poison, up, children, orphan>> /\ reservation' = reservation
    BY <1>9
    DEF Deinit, DeleteCallbackHandles, DropOrReturn, ReleaseNext, Unwind, fields, program, teardown
  <2>. QED  BY <1>1, <1>2, <2>1
<1>10. CASE a = Collector /\ \E h \in Handles : Collect(h)
  BY <1>10, PlacesCollect
<1>. QED
  BY <1>3, <1>4, <1>5, <1>6, <1>7, <1>8, <1>9, <1>10, PlacesPin, PlacesMakeChild, PlacesDropped
  DEF StepOf, Proceed, NativeEnds, CleanupStep
-----------------------------------------------------------------------------
(* More on who writes what.                                                *)

LEMMA WritersOfMade ==
  ASSUME NEW a \in Actors, StepOf(a)
  PROVE  \/ made' = made
         \/ a \in Threads /\ (NativeMakesChild(a) \/ NativeMakesView(a))
BY WritersOfFields DEF Release, Close, CloseView, program

LEMMA WritersOfSwept ==
  ASSUME NEW a \in Actors, StepOf(a)
  PROVE  \/ swept' = swept
         \/ a = Collector /\ \E h \in Handles : Collect(h)
<1>1. ASSUME Start(a) \/ Close(a) \/ CloseView(a) PROVE swept' = swept
  BY <1>1 DEF Start, StartCall, StartNew, StartView, Begin, Close, CloseView, program
<1>2. ASSUME CleanupStep(a) PROVE swept' = swept
  BY <1>2 DEF CleanupStep, Deinit, DeleteCallbackHandles, DropChild, program
<1>3. ASSUME Proceed(a) PROVE swept' = swept
  BY <1>2, <1>3
  DEF Proceed, Lookup, Pin, PinRefused, NativeEnds, NativeReturns, NativeMakesChild,
      NativeMakesView, NativePanics, Poison, Release, DropReservation, program
<1>. QED  BY <1>1, <1>2, <1>3 DEF StepOf

LEMMA SweptGrows ==
  ASSUME All, NEW a \in Actors, StepOf(a)
  PROVE  swept \subseteq swept' /\ swept' \subseteq made
<1>1. swept \subseteq made
  BY Types DEF All, Both
<1>. QED  BY <1>1, Types, WritersOfSwept DEF Collect, All, Both

LEMMA ReleasePinned ==
  ASSUME Layer2, NEW t \in Threads, Release(t)
  PROVE  <<t, k[t], at[t]>> \in pins
BY DEF Release, Layer2, PhaseInv, PhaseOf, Lowest

-----------------------------------------------------------------------------
(* What a place in a handle, and a call inside it, keep from happening.    *)

LEMMA CountPositive ==
  ASSUME NEW S, IsFiniteSet(S), NEW f, NEW h, NEW x \in S, f[x] = h
  PROVE  Count(S, f, h) \in Nat \ {0}
<1>1. IsFiniteSet({y \in S : f[y] = h}) /\ {y \in S : f[y] = h} # {}
  BY FS_Subset
<1>. QED  BY <1>1, FS_EmptySet, FS_CardinalityType DEF Count

\* A handle in which a place is taken counts it.
LEMMA HeldCounted ==
  ASSUME All, NEW h \in Handles \ Views,
         \/ \E c \in Dependents : ParentOf[c] = h
         \/ \E a \in Actors : reservation[a] = h \/ orphan[a] = h
  PROVE  children[h] # 0
<1>0. IsFiniteSet(Dependents) /\ IsFiniteSet(Actors)
  BY FiniteActors
<1>1. /\ Count(Dependents, ParentOf, h) \in Nat /\ Count(Actors, reservation, h) \in Nat
      /\ Count(Actors, orphan, h) \in Nat
  BY <1>0, FS_Subset, FS_CardinalityType DEF Count
<1>2. \/ Count(Dependents, ParentOf, h) # 0 \/ Count(Actors, reservation, h) # 0
      \/ Count(Actors, orphan, h) # 0
  <2>1. CASE \E c \in Dependents : ParentOf[c] = h
    BY <1>0, <2>1, CountPositive
  <2>2. CASE \E a \in Actors : reservation[a] = h
    BY <1>0, <2>2, CountPositive
  <2>3. CASE \E a \in Actors : orphan[a] = h
    BY <1>0, <2>3, CountPositive
  <2>. QED  BY <2>1, <2>2, <2>3
<1>. QED  BY <1>1, <1>2 DEF Places, All, ReserveInv, PlacesInv

\* Nobody closes it.
LEMMA HeldOpen ==
  ASSUME All, NEW h \in Handles \ Views,
         \/ \E c \in Dependents : ParentOf[c] = h
         \/ \E a \in Actors : reservation[a] = h \/ orphan[a] = h
  PROVE  ~closed[h]
BY HeldCounted DEF All, ReserveInv, ClosedInv

LEMMA WritersOfChildren ==
  ASSUME NEW a \in Actors, StepOf(a)
  PROVE  \/ children' = children \/ DropChild(a)
         \/ a \in Threads /\ (Pin(a) \/ DropReservation(a))
<1>1. ASSUME Start(a) \/ Close(a) \/ CloseView(a) PROVE children' = children
  BY <1>1 DEF Start, StartCall, StartNew, StartView, Begin, Close, CloseView, fields
<1>2. ASSUME CleanupStep(a), ~DropChild(a) PROVE children' = children
  BY <1>2 DEF CleanupStep, Deinit, DeleteCallbackHandles, fields
<1>3. ASSUME Proceed(a), ~DropChild(a), ~Pin(a), ~DropReservation(a) PROVE children' = children
  BY <1>2, <1>3
  DEF Proceed, Lookup, PinRefused, NativeEnds, NativeReturns, NativeMakesChild,
      NativeMakesView, NativePanics, Poison, Release, fields
<1>4. ASSUME NEW h \in Handles, Collect(h) PROVE children' = children
  BY <1>4 DEF Collect
<1>. QED  BY <1>1, <1>2, <1>3, <1>4 DEF StepOf

LEMMA WritersOfClosed ==
  ASSUME NEW a \in Actors, StepOf(a)
  PROVE  closed' = closed \/ (a \in Threads /\ (Close(a) \/ CloseView(a)))
<1>1. ASSUME Start(a) PROVE closed' = closed
  BY <1>1 DEF Start, StartCall, StartNew, StartView, Begin, fields
<1>2. ASSUME CleanupStep(a) PROVE closed' = closed
  BY <1>2 DEF CleanupStep, Deinit, DeleteCallbackHandles, DropChild, fields
<1>3. ASSUME Proceed(a) PROVE closed' = closed
  BY <1>2, <1>3
  DEF Proceed, Lookup, Pin, PinRefused, NativeEnds, NativeReturns, NativeMakesChild,
      NativeMakesView, NativePanics, Poison, Release, DropReservation, fields
<1>4. ASSUME NEW h \in Handles, Collect(h) PROVE closed' = closed
  BY <1>4 DEF Collect
<1>. QED  BY <1>1, <1>2, <1>3, <1>4 DEF StepOf

\* What the two forms of Close have checked.
LEMMA ClosedNow ==
  ASSUME All, NEW a \in Actors, StepOf(a), NEW h \in Handles, closed'[h], ~closed[h]
  PROVE  /\ h \notin Views => children[h] = 0
         /\ ReturnsBorrowedViews(h) => active[h] = 0
         /\ ptr'[h] => active[h] # 0
         /\ UNCHANGED <<children, active>>
<1>0. Layer3 /\ closed \in [Handles -> BOOLEAN] /\ ptr \in [Handles -> BOOLEAN]
  BY Types DEF All, Both
<1>1. CASE a \in Threads /\ Close(a)
  <2>1. PICK g \in Handles \ Views :
          /\ MayClose(g) /\ closed' = [closed EXCEPT ![g] = TRUE]
          /\ IF active[g] = 0 /\ ptr[g] THEN Take(a, g, NoHandle)
             ELSE UNCHANGED <<ptr, up, teardown, at, pc>>
          /\ UNCHANGED <<active, children>>
    BY <1>1 DEF Close
  <2>2. g = h
    BY <1>0, <2>1
  <2>3. ptr'[h] => active[h] # 0
    BY <1>0, <2>1, <2>2 DEF Take
  <2>. QED  BY <2>1, <2>2, <2>3 DEF MayClose
<1>2. CASE a \in Threads /\ CloseView(a)
  <2>1. PICK v \in Views :
          /\ active[v] = 0 /\ closed' = [closed EXCEPT ![v] = TRUE]
          /\ ptr' = [ptr EXCEPT ![v] = FALSE] /\ UNCHANGED <<active, children>>
    BY <1>2 DEF CloseView
  <2>. QED  BY <1>0, <2>1
<1>. QED  BY <1>1, <1>2, WritersOfClosed

LEMMA ClosedStep == ASSUME All, NEW a \in Actors, StepOf(a), Stable PROVE ClosedInv'
<1>0. /\ Layer3 /\ Layer2 /\ closed \in [Handles -> BOOLEAN] /\ ptr \in [Handles -> BOOLEAN]
      /\ children \in [Handles -> Int] /\ active \in [Handles -> Int] /\ ClosedInv
  BY Types, MoreTypes DEF All, Both, ReserveInv, Layer3
<1>1. ASSUME NEW h \in Handles \ Views, closed'[h] PROVE children'[h] = 0
  <2>1. CASE ~closed[h]
    BY <1>1, <2>1, ClosedNow
  <2>2. CASE closed[h] /\ a \in Threads /\ Pin(a)
    <3>1. ~closed[at[a]] /\ children' \in {children, [children EXCEPT ![at[a]] = @ + 1]}
      BY <2>2 DEF Pin, Rejects
    <3>. QED  BY <1>0, <2>2, <3>1 DEF ClosedInv
  <2>3. CASE closed[h] /\ (DropChild(a) \/ (a \in Threads /\ DropReservation(a)))
    <3>1. PICK p \in {orphan[a], reservation[a]} : children' = [children EXCEPT ![p] = @ - 1]
      BY <2>3 DEF DropChild, DropReservation
    <3>2. p # h
      BY <2>3, HeldOpen
    <3>. QED  BY <1>0, <2>3, <3>1, <3>2 DEF ClosedInv
  <2>4. CASE closed[h] /\ children' = children
    BY <1>0, <2>4 DEF ClosedInv
  <2>. QED  BY <2>1, <2>2, <2>3, <2>4, WritersOfChildren
<1>2. ASSUME NEW h \in Handles, closed'[h], ReturnsBorrowedViews(h) PROVE active'[h] = 0
  <2>1. CASE ~closed[h]
    BY <1>2, <2>1, ClosedNow
  <2>2. CASE closed[h] /\ a \in Threads /\ Pin(a)
    <3>1. ~closed[at[a]] /\ active' = [active EXCEPT ![at[a]] = @ + 1]
      BY <2>2 DEF Pin, Rejects
    <3>. QED  BY <1>0, <1>2, <2>2, <3>1 DEF ClosedInv
  <2>3. CASE closed[h] /\ a \in Threads /\ Release(a)
    <3>1. active' = [active EXCEPT ![at[a]] = @ - 1]
      BY <2>3 DEF Release
    <3>2. at[a] # h
      BY <1>0, <1>2, <2>3, ReleasePinned, NobodyInside DEF ClosedInv, Layer2
    <3>. QED  BY <1>0, <1>2, <2>3, <3>1, <3>2 DEF ClosedInv
  <2>4. CASE closed[h] /\ active' = active
    BY <1>0, <1>2, <2>4 DEF ClosedInv
  <2>. QED  BY <2>1, <2>2, <2>3, <2>4, WritersOfPins
<1>3. ASSUME NEW h \in Handles, closed'[h], ptr'[h] PROVE active'[h] # 0
  <2>1. CASE ~closed[h]
    BY <1>3, <2>1, ClosedNow
  <2>2. CASE closed[h]
    <3>1. h \in made /\ ptr[h] /\ active[h] # 0
      <4>1. h \in made
        BY <2>2 DEF All, Both, ReleaseInv, MarksInv
      <4>. QED  BY <1>0, <1>3, <2>2, <4>1 DEF Stable, ClosedInv
    <3>2. CASE a \in Threads /\ Pin(a)
      <4>1. ~closed[at[a]] /\ active' = [active EXCEPT ![at[a]] = @ + 1]
        BY <3>2 DEF Pin, Rejects
      <4>. QED  BY <1>0, <2>2, <3>1, <4>1
    <3>3. CASE a \in Threads /\ Release(a)
      <4>1. /\ active' = [active EXCEPT ![at[a]] = @ - 1]
            /\ closed[at[a]] /\ active[at[a]] = 1 /\ ptr[at[a]] =>
                 ptr' = [ptr EXCEPT ![at[a]] = FALSE]
        BY <3>3 DEF Release, Take
      <4>. QED  BY <1>0, <1>3, <2>2, <3>1, <4>1
    <3>. QED  BY <3>1, <3>2, <3>3, WritersOfPins
  <2>. QED  BY <1>0, <2>1, <2>2
<1>. QED  BY <1>1, <1>2, <1>3 DEF ClosedInv

-----------------------------------------------------------------------------
(* The collector's side.                                                   *)

LEMMA CleanupInvStep ==
  ASSUME All, NEW a \in Actors, StepOf(a), Stable, Layer3',
         \A h \in Handles : poison[h] => native'[h] = native[h]
  PROVE  CleanupInv'
<1>0. /\ Layer3 /\ closed \in [Handles -> BOOLEAN] /\ poison \in [Handles -> BOOLEAN]
      /\ cleanup \in [Handles -> BOOLEAN] /\ made \subseteq Handles /\ swept \subseteq made
      /\ CleanupInv /\ Views \subseteq Handles /\ at \in [Actors -> Handles \union {NoHandle}]
  BY Types, MoreTypes DEF All, Both, ReserveInv
<1>1. ASSUME NEW h \in made' \ (Views \union swept') PROVE closed'[h] \/ poison'[h] \/ cleanup'[h]
  <2>1. CASE a \in Threads /\ NativeMakesChild(a)
    <3>1. /\ made' = made \union {child[a]} /\ cleanup' = [cleanup EXCEPT ![child[a]] = TRUE]
          /\ UNCHANGED <<closed, poison, swept>>
      BY <2>1 DEF NativeMakesChild
    <3>2. child[a] \in Handles
      BY <1>0, <2>1 DEF NativeMakesChild, Layer3, Layer2, Layer1, OpInv, OpOf, Dependents
    <3>. QED  BY <1>0, <1>1, <3>1, <3>2 DEF CleanupInv
  <2>2. CASE a \in Threads /\ NativeMakesView(a)
    <3>1. made' = made \union {child[a]} /\ UNCHANGED <<closed, poison, cleanup, swept>>
      BY <2>2 DEF NativeMakesView
    <3>2. child[a] \in Views
      BY <1>0, <2>2 DEF NativeMakesView, Layer3, Layer2, Layer1, OpInv, OpOf
    <3>. QED  BY <1>0, <1>1, <3>1, <3>2 DEF CleanupInv
  <2>3. CASE made' = made
    <3>1. h \in made \ Views /\ h \in Handles
      BY <1>0, <1>1, <2>3
    <3>2. CASE UNCHANGED <<closed, poison, cleanup>> /\ swept \subseteq swept'
      BY <1>1, <3>1, <3>2 DEF All, ReserveInv, CleanupInv
    <3>3. CASE a \in Threads /\ Poison(a)
      BY <1>0, <1>1, <3>1, <3>3 DEF Poison, program, CleanupInv
    <3>4. CASE a \in Threads /\ (Close(a) \/ CloseView(a))
      BY <1>0, <1>1, <3>1, <3>4 DEF Close, CloseView, program, CleanupInv
    <3>5. CASE a = Collector /\ \E g \in Handles : Collect(g)
      <4>1. PICK g \in Handles : /\ swept' = swept \union {g} /\ UNCHANGED <<closed, poison>>
                                 /\ cleanup' \in {cleanup, [cleanup EXCEPT ![g] = FALSE]}
        BY <3>5 DEF Collect
      <4>. QED  BY <1>0, <1>1, <3>1, <4>1 DEF CleanupInv
    <3>6. swept \subseteq swept'
      BY SweptGrows
    <3>7. ~NativeMakesChild(a) \/ a \notin Threads \/ UNCHANGED <<closed, poison, cleanup>>
      BY <1>0, <2>3 DEF NativeMakesChild, Layer3, Layer2, Layer1, OpInv, OpOf
    <3>. QED  BY <3>2, <3>3, <3>4, <3>5, <3>6, <3>7, WritersOfMarks
  <2>. QED  BY <2>1, <2>2, <2>3, WritersOfMade
<1>2. ASSUME NEW h \in made' \ Views, poison'[h], ptr'[h] PROVE native'[h] = "live"
  <2>1. CASE h \notin swept'
    BY <1>2, <2>1 DEF Layer3, Layer2, Layer1, TypeInv, TypeOK, NativeInv
  <2>2. CASE h \in swept'
    <3>1. h \in made /\ ptr[h] /\ h \in Handles
      BY <1>0, <1>2, <2>2, SweptGrows DEF Stable
    <3>2. CASE poison[h]
      BY <1>0, <1>2, <3>1, <3>2 DEF CleanupInv
    <3>3. CASE ~poison[h]
      <4>1. a \in Threads /\ Poison(a)
        BY <1>2, <3>3, WritersOfMarks DEF NativeMakesChild, Close, CloseView, Collect
      <4>2. poison' = [poison EXCEPT ![at[a]] = TRUE] /\ UNCHANGED <<native, swept>>
        BY <4>1 DEF Poison, backing, program
      <4>3. h = at[a]
        BY <1>0, <1>2, <3>1, <3>3, <4>2
      <4>. QED  BY <2>2, <4>1, <4>2, <4>3, PoisonedIsPinned DEF All, Poison
    <3>. QED  BY <3>2, <3>3
  <2>. QED  BY <2>1, <2>2
<1>. QED  BY <1>1, <1>2 DEF CleanupInv

LEMMA CollectedStep ==
  ASSUME All, NEW a \in Actors, StepOf(a), Stable, Layer3', DeinitOf(a), NEW c \in Dependents
  PROVE  CollectedOf(c)'
<1> SUFFICES ASSUME c \in swept', up'[c] # NoHandle, native'[c] = "live", ~poison'[c]
             PROVE  /\ pc'[Collector] = "deinit" /\ at'[Collector] = c
                    /\ orphan'[Collector] = up'[c] /\ up'[c] \notin swept'
  BY DEF CollectedOf
<1>0. /\ Layer3 /\ c \in Handles \ Views /\ c \in made /\ Collector \in Actors
      /\ native \in [Handles -> {"none", "live", "freed"}]
      /\ poison \in [Handles -> BOOLEAN] /\ ptr \in [Handles -> BOOLEAN]
  BY Types, MoreTypes, SweptGrows DEF All, Both
<1>1. ptr[c] /\ up'[c] = up[c] /\ up[c] \in made
  <2>1. ptr'[c]
    BY <1>0, Types DEF Layer3, Layer2, Layer1, FieldsInv
  <2>2. ptr[c] /\ up'[c] = up[c]
    BY <1>0, <2>1 DEF Stable
  <2>. QED  BY <1>0, <2>2 DEF Layer3, Layer2, Layer1, FieldsInv
<1>2. ~poison[c]
  BY <1>0, WritersOfMarks DEF Poison, NativeMakesChild, Close, CloseView, Collect
<1>3. native[c] = "live"
  <2>1. CASE Deinit(a)
    BY <1>0, <2>1, Types DEF Deinit
  <2>2. CASE a \in Threads /\ NativeMakesChild(a)
    <3>1. child[a] \notin made
      BY <1>0, <2>2, Types DEF NativeMakesChild, Layer3, Layer2, Layer1, OpInv, OpOf
    <3>. QED  BY <1>0, <2>2, <3>1 DEF NativeMakesChild
  <2>. QED  BY <1>0, <2>1, <2>2, WritersOfNative
<1>4. CASE c \in swept
  <2>1. /\ pc[Collector] = "deinit" /\ at[Collector] = c
        /\ orphan[Collector] = up[c] /\ up[c] \notin swept
    BY <1>1, <1>2, <1>3, <1>4 DEF All, ReserveInv, CollectedOf
  <2>2. CASE a = Collector
    <3>1. Deinit(a)
      BY <2>1, <2>2, <1>0, HandlesAssumption
      DEF StepOf, CleanupStep, DeleteCallbackHandles, DropChild, Collect, Idle
    <3>2. doomed[a]
      BY <1>2, <2>1, <2>2 DEF DeinitOf
    <3>. QED  BY <1>0, <2>1, <2>2, <3>1, <3>2 DEF Deinit
  <2>3. CASE a # Collector
    <3>1. swept' = swept
      BY <2>3, WritersOfSwept
    <3>2. Untouched(Collector)
      BY <1>0, <2>3, Footprint DEF Layer3, Layer2, Layer1
    <3>. QED  BY <1>1, <2>1, <3>1, <3>2 DEF Untouched
  <2>. QED  BY <2>2, <2>3
<1>5. CASE c \notin swept
  <2>1. a = Collector /\ Collect(c)
    BY <1>5, WritersOfSwept DEF Collect
  <2>2. cleanup[c]
    BY <1>0, <1>1, <1>2, <2>1, DroppedUncleaned
  <2>3. /\ pc'[Collector] = "deinit" /\ at'[Collector] = c /\ orphan'[Collector] = up[c]
        /\ swept' = swept \union {c}
    BY <1>0, <2>1, <2>2, Types, MoreTypes DEF Collect, Goto
  <2>4. up[c] \notin swept /\ up[c] # c
    <3>1. up[c] \notin swept
      BY <1>0, <1>5, SweptByThread DEF Layer3
    <3>2. up[c] # c
      BY <1>0, <1>1, UpIsAbove, HandlesAssumption, FlatAssumption
      DEF Layer3, Layer2, Layer1, Dependents, Roots, FieldsInv
    <3>. QED  BY <3>1, <3>2
  <2>. QED  BY <1>1, <2>3, <2>4
<1>. QED  BY <1>4, <1>5

-----------------------------------------------------------------------------
(* The invariant, and what follows from it.                                *)

LEMMA AllInit == Init => All
<1> SUFFICES ASSUME Init PROVE All
  OBVIOUS
<1>1. Both
  BY BothInit
<1>2. Layer3
  BY <1>1 DEF Both
<1>3. PlacesInv
  <2> SUFFICES ASSUME NEW h \in Handles \ Views PROVE Places(h) = 0
    BY DEF Init, PlacesInv
  <2>1. {c \in Dependents : ParentOf[c] = h} = {}
    BY HandlesAssumption DEF Init, ParentOf, Dependents
  <2>2. {a \in Actors : reservation[a] = h} = {} /\ {a \in Actors : orphan[a] = h} = {}
    BY HandlesAssumption DEF Init
  <2>. QED  BY <2>1, <2>2, FS_EmptySet DEF Places, Count
<1>4. ClosedInv /\ CleanupInv
  BY <1>2, Types DEF Init, ClosedInv, CleanupInv
<1>5. \A c \in Dependents : CollectedOf(c)
  BY DEF Init, CollectedOf
<1>. QED  BY <1>1, <1>3, <1>4, <1>5 DEF All, ReserveInv

LEMMA AllNext == All /\ [Next]_vars => All'
<1> SUFFICES ASSUME All, [Next]_vars PROVE All'
  OBVIOUS
<1>1. Both' /\ Layer3' /\ Stable
  BY BothNext, FieldsStep DEF All, Both, Layer3, Layer2, Layer1
<1>2. ASSUME NEW a \in Actors, StepOf(a) PROVE ReserveInv'
  <2>1. DeinitOf(a) /\ \A h \in Handles : poison[h] => native'[h] = native[h]
    BY <1>2, PoisonedStay DEF All, Both, ReleaseInv
  <2>. QED
    BY <1>1, <1>2, <2>1, PlacesStep, ClosedStep, CleanupInvStep, CollectedStep DEF ReserveInv
<1>3. ASSUME UNCHANGED <<closed, children, active, ptr, made, swept, poison, cleanup, native, up,
                         pc, at, orphan, reservation>>
      PROVE  ReserveInv'
  <2>1. ParentOf' = ParentOf
    BY <1>3 DEF ParentOf
  <2>. QED
    BY <1>3, <2>1
    DEF All, ReserveInv, ClosedInv, CleanupInv, PlacesInv, CollectedOf, Places, Count
<1>4. CASE UNCHANGED vars
  BY <1>1, <1>3, <1>4 DEF vars, fields, program, backing, walk, teardown, All
<1>5. ASSUME NEW h \in Handles, Forget(h) PROVE ReserveInv'
  BY <1>3, <1>5 DEF Forget, fields, backing, walk, teardown
<1>. QED  BY <1>1, <1>2, <1>4, <1>5, Steps DEF All

\* The count of children is the number of places taken, a closed handle has
\* none, and a collected child is being destroyed or was poisoned.
THEOREM ReserveInvariant == Spec => []All
BY AllInit, AllNext, PTL DEF Spec

\* The count of children is exact: no failed constructor, panic, Close or
\* cleanup loses a place or gives one back twice.
THEOREM ReservationsBalance == Spec => []ChildrenCountReservations
<1>1. All => ChildrenCountReservations
  BY PlacesAreReserved DEF All, ReserveInv, PlacesInv, ChildrenCountReservations
<1>. QED  BY <1>1, ReserveInvariant, PTL

\* A call through a view or a child finds the handle above open for as long as
\* it is inside: whoever closes that handle is refused.
THEOREM ParentsStayOpen == Spec => []ParentOpenDuringCall
<1>1. All => ParentOpenDuringCall
  <2> SUFFICES ASSUME All, NEW t \in Threads, NEW h \in Handles, Inside(t, h), up[h] # NoHandle
               PROVE  ~closed[up[h]]
    BY DEF ParentOpenDuringCall
  <2>0. Layer3 /\ ptr[h] /\ h \in made
    BY UpIsAbove DEF All, Both, Layer3, Layer2, Layer1
  <2>1. PICK i : <<t, i, h>> \in pins
    <3>1. PICK q \in pins : q[1] = t /\ q[3] = h
      BY DEF Inside
    <3>2. q = <<q[1], q[2], q[3]>>
      BY <2>0, <3>1 DEF Layer3, Layer2, PinsInv
    <3>. QED  BY <3>1, <3>2
  <2>2. h \notin swept /\ <<t, i, up[h]>> \in pins /\ up[h] \in Handles
    BY <2>0, <2>1, SweptByThread, PinsByThread, UpIsAbove
    DEF Layer3, Layer2, Layer1, ReachesOf, PinsOf
  <2>3. CASE h \in Views
    <3>1. ReturnsBorrowedViews(up[h])
      BY <2>0, <2>3, UpIsAbove DEF ReturnsBorrowedViews, Layer3, Layer2, Layer1
    <3>2. active[up[h]] # 0
      BY <2>0, <2>2, NobodyInside DEF Layer3, Layer2
    <3>. QED  BY <2>2, <3>1, <3>2 DEF All, ReserveInv, ClosedInv
  <2>4. CASE h \notin Views
    <3>1. h \in Dependents /\ up[h] \in Handles \ Views
      BY <2>0, <2>4, UpIsAbove, ShapeAssumption DEF Layer3, Layer2, Layer1
    <3>2. ParentOf[h] = up[h]
      BY <2>0, <2>2, <3>1 DEF ParentOf
    <3>. QED  BY <3>1, <3>2, HeldOpen
  <2>. QED  BY <2>3, <2>4
<1>. QED  BY <1>1, ReserveInvariant, PTL

\* The object of a parent is alive for as long as an object inside it is,
\* whoever destroys which: Close, the last call out or the collector.
THEOREM ParentsOutliveChildren == Spec => []ParentOutlivesChild
<1>1. All => ParentOutlivesChild
  <2> SUFFICES ASSUME All, NEW c \in Dependents, native[c] = "live", up[c] # NoHandle
               PROVE  native[up[c]] = "live"
    BY DEF ParentOutlivesChild
  <2> DEFINE p == up[c]
  <2>0. /\ Layer3 /\ c \in made /\ p \in made /\ p \in Handles \ Views
        /\ poison \in [Handles -> BOOLEAN] /\ ptr \in [Handles -> BOOLEAN]
    BY Types, MoreTypes, UpIsAbove, ShapeAssumption DEF All, Both, Layer3, Layer2, Layer1
  <2>1. ~closed[p]
    <3>1. CASE c \notin swept \/ poison[c]
      BY <2>0, <3>1, HeldOpen DEF ParentOf
    <3>2. CASE c \in swept /\ ~poison[c]
      <4>1. orphan[Collector] = p
        BY <3>2 DEF All, ReserveInv, CollectedOf
      <4>. QED  BY <2>0, <4>1, HeldOpen, Types
    <3>. QED  BY <3>1, <3>2
  <2>2. ptr[p]
    BY <2>0, <2>1 DEF Layer3, Layer2, Layer1, FieldsInv
  <2>3. CASE p \notin swept
    BY <2>0, <2>2, <2>3 DEF Layer3, NativeInv
  <2>4. CASE p \in swept
    <3>1. c \in swept
      BY <2>0, <2>4, SweptByThread DEF Layer3
    <3>2. poison[c]
      BY <2>4, <3>1 DEF All, ReserveInv, CollectedOf
    <3>3. poison[p]
      <4>1. c \in Handles
        BY <2>0, MoreTypes
      <4>2. ASSUME NEW t \in Threads, pc[t] = "poison", at[t] = p PROVE FALSE
        BY <2>4, <4>2, PoisonedIsPinned DEF All
      <4>. QED  BY <3>2, <4>1, <4>2 DEF All, Both, ReleaseInv, PoisonClimbs, ClimbOf
    <3>. QED  BY <2>0, <2>2, <3>3 DEF All, ReserveInv, CleanupInv
  <2>. QED  BY <2>3, <2>4
<1>. QED  BY <1>1, ReserveInvariant, PTL

-----------------------------------------------------------------------------
(***************************************************************************)
(* The contract: every step of the counters, locks and walks is a step of  *)
(* HandleContract or leaves its variables alone.  The mapping needs two    *)
(* things more of a reachable state: a child points to the handle its      *)
(* object lives inside from its construction on, and an object whose       *)
(* handle was taken is about to be destroyed or was left behind by a       *)
(* panic.                                                                  *)
(***************************************************************************)

(* The handle that owns a chain of views.                                  *)

\* What lies on the way up from h through views.
Above(h) ==
  {x \in Handles : \A S \in SUBSET Handles :
     h \in S /\ (\A v \in S \intersect Views : Creator[v] \in S) => x \in S}

LEMMA CreatorsOfViews == \A v \in Views : v \in Handles /\ Creator[v] \in Handles
BY ShapeAssumption DEF Roots

LEMMA OwnersExist ==
  \E g : g = [h \in Handles |-> IF h \in Views THEN g[Creator[h]] ELSE h]
<1> DEFINE top == [h \in Handles |-> CHOOSE x : x \in Above(h) \ Views]
<1>1. ASSUME NEW v \in Views PROVE Above(v) \ Views = Above(Creator[v]) \ Views
  <2>0. v \in Handles /\ Creator[v] \in Handles
    BY CreatorsOfViews
  <2>1. ASSUME NEW x \in Above(v), x \notin Views, NEW S \in SUBSET Handles, Creator[v] \in S,
               \A w \in S \intersect Views : Creator[w] \in S
        PROVE  x \in S
    <3>1. /\ S \union {v} \in SUBSET Handles
          /\ \A w \in (S \union {v}) \intersect Views : Creator[w] \in S \union {v}
      BY <2>0, <2>1
    <3>2. x \in S \union {v}
      BY <2>1, <3>1 DEF Above
    <3>. QED  BY <2>1, <3>2
  <2>2. ASSUME NEW x \in Above(Creator[v]) PROVE x \in Above(v)
    BY <2>0, <2>2 DEF Above
  <2>3. ASSUME NEW x \in Above(v), x \notin Views PROVE x \in Above(Creator[v])
    BY <2>1, <2>3 DEF Above
  <2>. QED  BY <2>2, <2>3
<1>2. ASSUME NEW h \in Handles, h \notin Views PROVE Above(h) \ Views = {h}
  <2>1. {h} \in SUBSET Handles /\ {h} \intersect Views = {}
    BY <1>2
  <2>2. \A x \in Above(h) : x = h
    BY <2>1 DEF Above
  <2>3. h \in Above(h)
    BY DEF Above
  <2>. QED  BY <1>2, <2>2, <2>3
<1>3. ASSUME NEW h \in Handles
      PROVE  top[h] = IF h \in Views THEN top[Creator[h]] ELSE h
  <2>1. CASE h \in Views
    BY <1>1, <2>1, CreatorsOfViews
  <2>2. CASE h \notin Views
    BY <1>2, <2>2
  <2>. QED  BY <2>1, <2>2
<1>4. top = [h \in Handles |-> IF h \in Views THEN top[Creator[h]] ELSE h]
  BY <1>3
<1>. QED  BY <1>4

LEMMA OwnerUnfolds ==
  ASSUME NEW h \in Handles
  PROVE  OwnerOf[h] = IF h \in Views THEN OwnerOf[Creator[h]] ELSE h
<1>1. OwnerOf = CHOOSE g : g = [x \in Handles |-> IF x \in Views THEN g[Creator[x]] ELSE x]
  BY DEF OwnerOf
<1>2. OwnerOf = [x \in Handles |-> IF x \in Views THEN OwnerOf[Creator[x]] ELSE x]
  BY <1>1, OwnersExist
<1>. QED  BY <1>2

\* A child's object lives inside a root's.
LEMMA HoldersAreRoots ==
  /\ \A x \in Makers : OwnerOf[x] \in Roots
  /\ \A c \in Dependents : HolderOf(c) \in Roots
<1> DEFINE Bad == {x \in Makers : OwnerOf[x] \notin Roots}
           R == OpToRel(<, Nat)
<1>1. SUFFICES Bad = {}
  <2>1. \A x \in Makers : OwnerOf[x] \in Roots
    BY <1>1
  <2>. QED  BY <2>1, FlatAssumption DEF HolderOf
<1>2. SUFFICES ASSUME Bad # {} PROVE FALSE
  OBVIOUS
<1>3. IsWellFoundedOn(R, Nat)
  BY NatLessThanWellFounded
<1>4. /\ {Depth[x] : x \in Bad} \subseteq Nat /\ {Depth[x] : x \in Bad} # {}
  BY <1>2, FlatAssumption
<1>5. PICK d \in {Depth[x] : x \in Bad} : \A e \in {Depth[x] : x \in Bad} : ~ (<<e, d>> \in R)
  BY <1>3, <1>4, WFMin
<1>6. PICK x \in Bad : d = Depth[x]
  OBVIOUS
<1>7. x \in Views
  <2>1. SUFFICES ASSUME x \notin Views PROVE FALSE
    OBVIOUS
  <2>2. x \in Handles /\ OwnerOf[x] = x
    BY <2>1, OwnerUnfolds, FlatAssumption
  <2>3. x \in Roots
    BY <2>1, <2>2, FlatAssumption, ShapeAssumption DEF Roots, Dependents
  <2>. QED  BY <2>2, <2>3
<1>8. Creator[x] \in Bad
  <2>1. x \in Handles /\ OwnerOf[x] = OwnerOf[Creator[x]]
    BY <1>7, OwnerUnfolds, FlatAssumption
  <2>. QED  BY <1>7, <2>1, FlatAssumption
<1>9. Depth[Creator[x]] \in Nat /\ Depth[x] \in Nat /\ Depth[x] = Depth[Creator[x]] + 1
  BY <1>7, CreatorsOfViews, FlatAssumption
<1>10. <<Depth[Creator[x]], Depth[x]>> \in R
  BY <1>9 DEF OpToRel
<1>. QED  BY <1>5, <1>6, <1>8, <1>10

-----------------------------------------------------------------------------
(* What ties the lifecycle to the contract: a child points to the handle   *)
(* its object lives inside, from its construction on; and an object whose  *)
(* handle was taken is being destroyed, or was left behind by a panic.     *)

HeldUp == \A c \in Dependents : ptr[c] => up[c] = HolderOf(c)

UnmadeInv == \A h \in Handles \ made : native[h] = "none"

MakingOf(t) ==
  op[t] = "new" =>
    /\ pc[t] \in Acquiring \union {"native"} => args[t] = <<Creator[child[t]]>>
    /\ pc[t] \in Acquiring =>
         /\ OwnerOf[at[t]] = OwnerOf[args[t][1]]
         /\ \A y \in Handles :
              caller[t][y] # NoHandle => OwnerOf[caller[t][y]] = OwnerOf[args[t][1]]
    /\ reservation[t] # NoHandle => reservation[t] = OwnerOf[args[t][1]]
    /\ reservation[t] # NoHandle /\ pc[t] \in Acquiring \union {"native"} =>
         <<t, 1, reservation[t]>> \in pins

LeftOf(c) ==
  c \in made /\ native[c] = "live" /\ ~ptr[c] =>
    IF poison[c]
    THEN poison[HolderOf(c)] \/ \E t \in Threads : pc[t] = "poison" /\ at[t] = HolderOf(c)
    ELSE \E a \in Actors : pc[a] = "deinit" /\ at[a] = c /\ orphan[a] = HolderOf(c)

ContractInv ==
  HeldUp /\ UnmadeInv /\ (\A t \in Threads : MakingOf(t)) /\ (\A c \in Dependents : LeftOf(c))

Whole == All /\ ContractInv

LEMMA WholeTypes ==
  ASSUME All
  PROVE  /\ Layer3 /\ Layer2 /\ Layer1 /\ TypeInv /\ FieldsInv
         /\ pc \in [Actors -> PCs] /\ k \in [Actors -> Nat \ {0}]
         /\ op \in [Actors -> {"none", "call", "new", "view"}]
         /\ args \in [Actors -> Seq(Handles)]
         /\ child \in [Actors -> Handles \union {NoHandle}]
         /\ at \in [Actors -> Handles \union {NoHandle}]
         /\ caller \in [Actors -> [Handles -> Handles \union {NoHandle}]]
         /\ reservation \in [Actors -> Handles \union {NoHandle}]
         /\ orphan \in [Actors -> Handles \union {NoHandle}]
         /\ ptr \in [Handles -> BOOLEAN] /\ poison \in [Handles -> BOOLEAN]
         /\ up \in [Handles -> Handles \union {NoHandle}]
         /\ native \in [Handles -> {"none", "live", "freed"}]
         /\ closed \in [Handles -> BOOLEAN] /\ doomed \in [Actors -> BOOLEAN]
         /\ Collector \in Actors /\ Threads \subseteq Actors /\ Collector \notin Threads
         /\ made \subseteq Handles /\ swept \subseteq made
         /\ NoHandle \notin Handles /\ Dependents \subseteq Handles \ Views
         /\ \A a \in Actors : OpOf(a)
BY Types, HandlesAssumption
DEF All, Both, Layer3, Layer2, Layer1, TypeInv, TypeOK, OpInv, Dependents

LEMMA UpKept ==
  ASSUME Whole, NEW a \in Actors, StepOf(a), Stable, FieldsInv'
  PROVE  HeldUp'
<1> SUFFICES ASSUME NEW c \in Dependents, ptr'[c] PROVE up'[c] = HolderOf(c)
  BY DEF HeldUp
<1>1. CASE c \in made
  BY <1>1 DEF Whole, ContractInv, HeldUp, Stable
<1>2. CASE c \notin made
  <2>1. c \in Handles \ Views /\ c \in made'
    BY WholeTypes DEF Whole, FieldsInv
  <2>2. a \in Threads /\ NativeMakesChild(a) /\ c = child[a]
    <3>1. made' \subseteq made \union {child[a]}
      BY MadeGrows
    <3>2. ~NativeMakesView(a) \/ a \notin Threads
      BY <1>2, <2>1, <3>1, WholeTypes DEF Whole, NativeMakesView, OpOf
    <3>. QED  BY <1>2, <2>1, <3>1, <3>2, WritersOfMade
  <2>3. up'[c] = reservation[a] /\ reservation[a] # NoHandle
    BY <2>1, <2>2, WholeTypes DEF Whole, NativeMakesChild, OpOf
  <2>4. reservation[a] = OwnerOf[args[a][1]] /\ args[a] = <<Creator[c]>>
    BY <2>2, <2>3 DEF NativeMakesChild, Whole, ContractInv, MakingOf
  <2>. QED  BY <2>3, <2>4 DEF HolderOf
<1>. QED  BY <1>1, <1>2

LEMMA UnmadeKept ==
  ASSUME Whole, NEW a \in Actors, StepOf(a), Stable
  PROVE  UnmadeInv'
<1> SUFFICES ASSUME NEW h \in Handles, h \notin made' PROVE native'[h] = "none"
  BY DEF UnmadeInv
<1>1. h \notin made /\ native[h] = "none"
  BY DEF Stable, Whole, ContractInv, UnmadeInv
<1>2. CASE Deinit(a)
  <2>1. at[a] \in made
    BY <1>2 DEF Deinit, Whole, All, Both, ReleaseInv, DeinitOf
  <2>. QED  BY <1>1, <1>2, <2>1, WholeTypes DEF Deinit, Whole
<1>3. CASE a \in Threads /\ NativeMakesChild(a)
  BY <1>1, <1>3, WholeTypes DEF NativeMakesChild, Whole
<1>. QED  BY <1>1, <1>2, <1>3, WritersOfNative

\* Nothing but its own step ends a poisoning or a destructor.
LEMMA MustContinue ==
  ASSUME Whole, NEW a \in Actors, StepOf(a)
  PROVE  /\ pc[a] = "poison" => a \in Threads /\ Poison(a)
         /\ pc[a] = "deinit" => Deinit(a)
BY WholeTypes
DEF StepOf, Start, StartCall, StartNew, StartView, Begin, Idle, Proceed, Lookup, Pin, PinRefused,
    NativeEnds, NativeReturns, NativeMakesChild, NativeMakesView, NativePanics, Poison, Release,
    CleanupStep, Deinit, DeleteCallbackHandles, DropChild, DropReservation, Close, CloseView,
    Collect, Whole, OpOf, Tearing

\* Whoever takes a handle is about to destroy what is behind it.
LEMMA LostPointer ==
  ASSUME Whole, NEW a \in Actors, StepOf(a), NEW c \in Handles \ Views, ptr[c], ~ptr'[c]
  PROVE  /\ pc'[a] = "deinit" /\ at'[a] = c /\ orphan'[a] = up[c] /\ pc[a] # "poison"
         /\ UNCHANGED <<poison, native, made>>
<1>1. c \in made
  BY WholeTypes DEF Whole, FieldsInv
<1>2. ASSUME NEW h \in Handles, NEW u, Take(a, h, u), UNCHANGED <<poison, native, made>>,
             pc[a] # "poison"
      PROVE  /\ pc'[a] = "deinit" /\ at'[a] = c /\ orphan'[a] = up[c] /\ pc[a] # "poison"
             /\ UNCHANGED <<poison, native, made>>
  BY <1>2, WholeTypes DEF Take, Goto, Whole
<1>3. CASE a \in Threads /\ (NativeMakesChild(a) \/ NativeMakesView(a))
  BY <1>3, WholeTypes DEF NativeMakesChild, NativeMakesView, Whole
<1>4. CASE a \in Threads /\ Release(a)
  <2>1. at[a] \in Handles
    BY <1>4, WholeTypes DEF Release, Whole, TypeInv, FrameInv
  <2>2. Take(a, at[a], up[at[a]]) /\ UNCHANGED <<poison, native, made>> /\ pc[a] # "poison"
    BY <1>4 DEF Release, program, backing
  <2>. QED  BY <1>2, <2>1, <2>2
<1>5. CASE a \in Threads /\ Close(a)
  <2>1. PICK h \in Handles : Take(a, h, NoHandle)
    BY <1>5 DEF Close
  <2>. QED  BY <1>2, <1>5, <2>1 DEF Close, program, backing, Idle
<1>6. CASE a \in Threads /\ CloseView(a)
  BY <1>6, WholeTypes DEF CloseView, Whole
<1>. QED  BY <1>3, <1>4, <1>5, <1>6, WritersOfFields

LEMMA LeftKept ==
  ASSUME Whole, NEW a \in Actors, StepOf(a), Stable, NEW c \in Dependents
  PROVE  LeftOf(c)'
<1> SUFFICES ASSUME c \in made', native'[c] = "live", ~ptr'[c]
             PROVE  IF poison'[c]
                    THEN \/ poison'[HolderOf(c)]
                         \/ \E t \in Threads : pc'[t] = "poison" /\ at'[t] = HolderOf(c)
                    ELSE \E b \in Actors :
                           pc'[b] = "deinit" /\ at'[b] = c /\ orphan'[b] = HolderOf(c)
  BY DEF LeftOf
<1>0. /\ c \in Handles \ Views /\ HolderOf(c) \in Handles /\ HolderOf(c) # NoHandle
      /\ \A b \in Actors \ {a} : pc'[b] = pc[b] /\ at'[b] = at[b] /\ orphan'[b] = orphan[b]
  BY WholeTypes, HoldersAreRoots, Footprint DEF Whole, Roots, Untouched
<1>1. c \in made
  <2>1. SUFFICES ASSUME c \notin made PROVE FALSE
    OBVIOUS
  <2>2. c = child[a] /\ a \in Threads /\ (NativeMakesChild(a) \/ NativeMakesView(a))
    BY <2>1, MadeGrows, WritersOfMade
  <2>. QED  BY <1>0, <2>2, WholeTypes DEF NativeMakesChild, NativeMakesView, Whole
<1>2. native[c] = "live"
  <2>1. CASE Deinit(a)
    BY <1>0, <2>1, WholeTypes DEF Deinit, Whole
  <2>2. CASE a \in Threads /\ NativeMakesChild(a)
    BY <1>0, <1>1, <2>2, WholeTypes DEF NativeMakesChild, Whole, OpOf
  <2>. QED  BY <2>1, <2>2, WritersOfNative
<1>3. CASE ptr[c]
  <2>1. /\ pc'[a] = "deinit" /\ at'[a] = c /\ orphan'[a] = up[c] /\ pc[a] # "poison"
        /\ UNCHANGED <<poison, native, made>>
    BY <1>0, <1>3, LostPointer
  <2>2. up[c] = HolderOf(c)
    BY <1>3 DEF Whole, ContractInv, HeldUp
  <2>3. CASE poison[c]
    <3>1. poison[up[c]] \/ \E t \in Threads : pc[t] = "poison" /\ at[t] = up[c]
      BY <1>0, <2>2, <2>3 DEF Whole, All, Both, ReleaseInv, PoisonClimbs, ClimbOf
    <3>2. ASSUME NEW t \in Threads, pc[t] = "poison", at[t] = up[c]
          PROVE  pc'[t] = "poison" /\ at'[t] = HolderOf(c)
      <4>1. t \in Actors \ {a}
        BY <2>1, <3>2, WholeTypes DEF Whole
      <4>. QED  BY <1>0, <2>2, <3>2, <4>1
    <3>. QED  BY <2>1, <2>2, <2>3, <3>1, <3>2
  <2>. QED  BY <2>1, <2>2, <2>3
<1>4. CASE ~ptr[c]
  <2>0. /\ \A h \in Handles : poison[h] => poison'[h]
        /\ poison'[c] <=> poison[c]
    <3>1. CASE a \in Threads /\ Poison(a)
      <4>1. ptr[at[a]]
        BY <3>1, PoisonedIsPinned DEF Poison, Whole, All
      <4>. QED  BY <1>0, <1>4, <3>1, <4>1, WholeTypes DEF Poison, Whole
    <3>. QED  BY <3>1, WritersOfMarks DEF NativeMakesChild, Close, CloseView, Collect
  <2>1. CASE poison[c]
    <3>1. CASE poison[HolderOf(c)]
      BY <1>0, <2>0, <2>1, <3>1
    <3>2. ASSUME NEW t \in Threads, pc[t] = "poison", at[t] = HolderOf(c)
          PROVE  poison'[HolderOf(c)] \/ (pc'[t] = "poison" /\ at'[t] = HolderOf(c))
      <4>1. CASE t = a
        BY <1>0, <3>2, <4>1, MustContinue, WholeTypes DEF Poison, Whole
      <4>. QED  BY <1>0, <3>2, <4>1, WholeTypes DEF Whole
    <3>3. poison[HolderOf(c)] \/ \E t \in Threads : pc[t] = "poison" /\ at[t] = HolderOf(c)
      BY <1>1, <1>2, <1>4, <2>1 DEF Whole, ContractInv, LeftOf
    <3>. QED  BY <2>0, <2>1, <3>1, <3>2, <3>3
  <2>2. CASE ~poison[c]
    <3>1. PICK b \in Actors : pc[b] = "deinit" /\ at[b] = c /\ orphan[b] = HolderOf(c)
      BY <1>1, <1>2, <1>4, <2>2 DEF Whole, ContractInv, LeftOf
    <3>2. b # a
      <4>1. SUFFICES ASSUME b = a PROVE FALSE
        OBVIOUS
      <4>2. Deinit(a) /\ doomed[a]
        BY <2>2, <3>1, <4>1, MustContinue DEF Whole, All, Both, ReleaseInv, DeinitOf
      <4>. QED  BY <1>0, <3>1, <4>1, <4>2, WholeTypes DEF Deinit, Whole
    <3>. QED  BY <1>0, <2>0, <2>2, <3>1, <3>2
  <2>. QED  BY <2>1, <2>2
<1>. QED  BY <1>3, <1>4

\* An operation that acquires nothing any more keeps what it has.
LEMMA MakingLeft ==
  ASSUME Whole, NEW t \in Threads,
         \/ op'[t] # "new"
         \/ /\ op'[t] = op[t] /\ args'[t] = args[t] /\ reservation'[t] = reservation[t]
            /\ pc'[t] \notin Acquiring \union {"native"}
  PROVE  MakingOf(t)'
BY DEF MakingOf, Whole, ContractInv

LEMMA MakingReleaseNext ==
  ASSUME Whole, NEW t \in Threads, NEW h, ReleaseNext(t, h)
  PROVE  MakingOf(t)'
<1>1. \/ op'[t] = "none"
      \/ /\ op'[t] = op[t] /\ args'[t] = args[t] /\ reservation'[t] = reservation[t]
         /\ pc'[t] \notin Acquiring \union {"native"}
  BY WholeTypes DEF ReleaseNext, Unwind, Return, Goto, call, Acquiring, Whole
<1>. QED  BY <1>1, MakingLeft

LEMMA MakingPin ==
  ASSUME Whole, NEW t \in Threads, Pin(t), op[t] = "new"
  PROVE  MakingOf(t)'
<1> DEFINE h == at[t]
<1>0. /\ pc[t] = "pin" /\ h \in Handles /\ ptr[h] /\ t \in Actors /\ UNCHANGED call
      /\ pins' = pins \union {<<t, k[t], h>>} /\ Pinned(t, h)
  BY WholeTypes DEF Pin, Rejects, Whole, TypeInv, FrameInv
<1>1. /\ args[t] = <<Creator[child[t]]>> /\ OwnerOf[h] = OwnerOf[args[t][1]]
      /\ \A y \in Handles :
           caller[t][y] # NoHandle => OwnerOf[caller[t][y]] = OwnerOf[args[t][1]]
      /\ reservation[t] # NoHandle => reservation[t] = OwnerOf[args[t][1]]
      /\ reservation[t] # NoHandle => <<t, 1, reservation[t]>> \in pins
  BY <1>0 DEF Whole, ContractInv, MakingOf, Acquiring
<1>2. k[t] = 1 /\ Len(args[t]) = 1
  BY <1>0, WholeTypes DEF Whole, OpOf
<1>3. /\ reservation'[t] # NoHandle => reservation'[t] = OwnerOf[args[t][1]]
      /\ reservation'[t] # NoHandle => <<t, 1, reservation'[t]>> \in pins'
  <2>1. CASE reservation[t] = NoHandle
    <3>1. h \notin Views
      BY <1>0, <2>1 DEF Whole, All, Both, Layer3, Layer2, Layer1, WalkInv, WalkOf, Acquiring
    <3>2. OwnerOf[h] = h
      BY <1>0, <3>1, OwnerUnfolds
    <3>3. reservation'[t] = h
      BY <1>0, <2>1, WholeTypes DEF Pin, Whole
    <3>. QED  BY <1>0, <1>1, <1>2, <3>2, <3>3
  <2>2. CASE reservation[t] # NoHandle
    <3>1. reservation' = reservation
      BY <2>2 DEF Pin
    <3>. QED  BY <1>0, <1>1, <2>2, <3>1
  <2>. QED  BY <2>1, <2>2
<1>4. CASE caller[t][h] # NoHandle
  <2>1. /\ at'[t] = caller[t][h] /\ caller' = caller
    BY <1>0, <1>4, WholeTypes DEF Pinned, Whole
  <2>. QED  BY <1>0, <1>1, <1>3, <1>4, <2>1 DEF MakingOf, call
<1>5. CASE caller[t][h] = NoHandle
  <2>1. pc'[t] = "native"
    BY <1>0, <1>2, <1>5, WholeTypes DEF Pinned, Goto, Whole
  <2>. QED  BY <1>0, <1>1, <1>3, <2>1 DEF MakingOf, call, Acquiring
<1>. QED  BY <1>4, <1>5

LEMMA MakingOwn ==
  ASSUME Whole, NEW t \in Threads, StepOf(t)
  PROVE  MakingOf(t)'
<1>0. t \in Actors
  BY WholeTypes DEF Whole
<1>1. CASE Start(t)
  <2>1. CASE StartNew(t)
    <3>1. PICK c \in Dependents : Begin(t, "new", <<Creator[c]>>, c)
      BY <2>1 DEF StartNew
    <3>2. reservation'[t] = NoHandle
      BY <1>0, <3>1, WholeTypes DEF Begin, Idle, Whole, OpOf
    <3>3. /\ args'[t] = <<Creator[c]>> /\ child'[t] = c /\ at'[t] = Creator[c]
          /\ caller'[t] = [g \in Handles |-> NoHandle]
      BY <1>0, <3>1, WholeTypes DEF Begin, BeginAcquire, Whole
    <3>. QED  BY <3>2, <3>3 DEF MakingOf
  <2>2. CASE StartCall(t) \/ StartView(t)
    <3>1. op'[t] # "new"
      BY <1>0, <2>2, WholeTypes DEF StartCall, StartView, Begin, Whole
    <3>. QED  BY <3>1, MakingLeft
  <2>. QED  BY <1>1, <2>1, <2>2 DEF Start
<1>2. CASE Lookup(t) /\ op[t] = "new"
  <2> DEFINE h == at[t]
  <2>0. h \in Handles /\ pc[t] = "lookup" /\ UNCHANGED <<reservation, pins, call>>
    BY <1>0, <1>2, WholeTypes DEF Lookup, Whole, TypeInv, FrameInv
  <2>1. /\ args[t] = <<Creator[child[t]]>> /\ OwnerOf[h] = OwnerOf[args[t][1]]
        /\ \A y \in Handles :
             caller[t][y] # NoHandle => OwnerOf[caller[t][y]] = OwnerOf[args[t][1]]
        /\ reservation[t] # NoHandle => reservation[t] = OwnerOf[args[t][1]]
        /\ reservation[t] # NoHandle => <<t, 1, reservation[t]>> \in pins
    BY <1>2, <2>0 DEF Whole, ContractInv, MakingOf, Acquiring
  <2>2. CASE h \in Views /\ up[h] # NoHandle
    <3>1. up[h] = Creator[h] /\ OwnerOf[up[h]] = OwnerOf[h]
      BY <2>0, <2>2, UpIsAbove, OwnerUnfolds, WholeTypes DEF Whole
    <3>2. at'[t] = up[h] /\ caller'[t] = [caller[t] EXCEPT ![up[h]] = h]
      BY <1>0, <1>2, <2>2, WholeTypes DEF Lookup, Whole
    <3>3. \A y \in Handles :
            caller'[t][y] # NoHandle => OwnerOf[caller'[t][y]] = OwnerOf[args[t][1]]
      BY <1>0, <2>1, <3>2, WholeTypes DEF Whole
    <3>. QED  BY <1>2, <2>0, <2>1, <3>1, <3>2, <3>3 DEF MakingOf, call
  <2>3. CASE ~(h \in Views /\ up[h] # NoHandle)
    <3>1. UNCHANGED <<at, caller>>
      BY <1>2, <2>3 DEF Lookup
    <3>. QED  BY <1>2, <2>0, <2>1, <3>1 DEF MakingOf, call
  <2>. QED  BY <2>2, <2>3
<1>3. CASE Pin(t) /\ op[t] = "new"
  BY <1>3, MakingPin
<1>4. CASE (Lookup(t) \/ Pin(t)) /\ op[t] # "new"
  BY <1>4, MakingLeft DEF Lookup, Pin, call
<1>5. CASE PinRefused(t)
  BY <1>5, MakingReleaseNext DEF PinRefused
<1>6. CASE NativeMakesChild(t)
  <2>1. reservation'[t] = NoHandle /\ pc'[t] = "release"
    BY <1>0, <1>6, WholeTypes DEF NativeMakesChild, Leave, Goto, Whole
  <2>. QED  BY <2>1 DEF MakingOf, Acquiring
<1>7. CASE NativeReturns(t) \/ NativeMakesView(t) \/ NativePanics(t) \/ Poison(t)
  <2>1. pc'[t] \in {"release", "poison"} /\ UNCHANGED <<op, args, reservation>>
    BY <1>0, <1>7, WholeTypes
    DEF NativeReturns, NativeMakesView, NativePanics, Poison, Leave, Goto, call, Whole
  <2>. QED  BY <2>1, MakingLeft DEF Acquiring
<1>8. ASSUME NEW h, NEW u, Take(t, h, u), UNCHANGED <<call, reservation>> PROVE MakingOf(t)'
  <2>1. pc'[t] = "deinit"
    BY <1>0, <1>8, WholeTypes DEF Take, Goto, Whole
  <2>. QED  BY <1>8, <2>1, MakingLeft DEF call, Acquiring
<1>9. CASE Release(t)
  BY <1>8, <1>9, MakingReleaseNext DEF Release
<1>10. CASE Close(t) \/ CloseView(t)
  <2>1. op'[t] # "new"
    BY <1>0, <1>10, WholeTypes DEF Close, CloseView, Idle, call, Whole, OpOf
  <2>. QED  BY <2>1, MakingLeft
<1>11. ASSUME Goto(t, "untoken") \/ Goto(t, "dropChild"), UNCHANGED <<call, reservation>>
       PROVE  MakingOf(t)'
  <2>1. pc'[t] \in {"untoken", "dropChild"}
    BY <1>0, <1>11, WholeTypes DEF Goto, Whole
  <2>. QED  BY <1>11, <2>1, MakingLeft DEF call, Acquiring
<1>12. CASE CleanupStep(t)
  <2>1. CASE DropOrReturn(t)
    BY <1>11, <2>1, MakingReleaseNext DEF DropOrReturn
  <2>2. CASE DropChild(t)
    BY <2>2, MakingReleaseNext DEF DropChild
  <2>3. CASE Deinit(t) /\ ~DropOrReturn(t)
    BY <1>11, <2>3 DEF Deinit
  <2>. QED  BY <1>12, <2>1, <2>2, <2>3 DEF CleanupStep, DeleteCallbackHandles
<1>13. CASE DropReservation(t)
  <2>1. op'[t] = "none"
    BY <1>0, <1>13, WholeTypes DEF DropReservation, Return, Whole
  <2>. QED  BY <2>1, MakingLeft
<1>. QED
  BY <1>0, <1>1, <1>2, <1>3, <1>4, <1>5, <1>6, <1>7, <1>9, <1>10, <1>12, <1>13, WholeTypes
  DEF StepOf, Proceed, NativeEnds, Whole

LEMMA WholeInit == Init => Whole
<1> SUFFICES ASSUME Init PROVE Whole
  OBVIOUS
<1>1. All
  BY AllInit
<1>2. HeldUp
  BY DEF Init, HeldUp, Dependents, Roots
<1>3. UnmadeInv /\ \A c \in Dependents : LeftOf(c)
  BY DEF Init, UnmadeInv, LeftOf, Dependents, Roots
<1>4. \A t \in Threads : MakingOf(t)
  BY WholeTypes, <1>1 DEF Init, MakingOf
<1>. QED  BY <1>1, <1>2, <1>3, <1>4 DEF Whole, ContractInv

LEMMA WholeNext == Whole /\ [Next]_vars => Whole'
<1> SUFFICES ASSUME Whole, [Next]_vars PROVE Whole'
  OBVIOUS
<1>1. All' /\ FieldsInv' /\ Stable
  BY AllNext, FieldsStep, WholeTypes DEF Whole, All, Both, Layer3, Layer2, Layer1
<1>2. ASSUME NEW a \in Actors, StepOf(a) PROVE ContractInv'
  <2>1. ASSUME NEW t \in Threads PROVE MakingOf(t)'
    <3>1. CASE t = a
      BY <1>2, <3>1, MakingOwn
    <3>2. CASE t # a
      <4>1. Untouched(t) /\ MakingOf(t)
        BY <1>2, <3>2, Footprint, WholeTypes DEF Whole, ContractInv
      <4>. QED  BY <4>1 DEF Untouched, MakingOf
    <3>. QED  BY <3>1, <3>2
  <2>. QED  BY <1>1, <1>2, <2>1, UpKept, UnmadeKept, LeftKept DEF ContractInv
<1>3. ASSUME UNCHANGED <<ptr, up, made, native, poison, op, pc, args, child, at, caller,
                         reservation, orphan, pins>>
      PROVE  ContractInv'
  <2>1. HeldUp' /\ UnmadeInv'
    BY <1>3 DEF Whole, ContractInv, HeldUp, UnmadeInv
  <2>2. ASSUME NEW t \in Threads PROVE MakingOf(t)'
    BY <1>3 DEF Whole, ContractInv, MakingOf
  <2>3. ASSUME NEW c \in Dependents PROVE LeftOf(c)'
    BY <1>3 DEF Whole, ContractInv, LeftOf
  <2>. QED  BY <2>1, <2>2, <2>3 DEF ContractInv
<1>4. CASE UNCHANGED vars
  <2>1. UNCHANGED <<ptr, up, made, native, poison, op, pc, args, child, at, caller,
                    reservation, orphan, pins>>
    BY <1>4 DEF vars, fields, program, backing, walk, call, teardown
  <2>. QED  BY <1>1, <1>3, <2>1 DEF Whole
<1>5. ASSUME NEW h \in Handles, Forget(h) PROVE ContractInv'
  BY <1>3, <1>5 DEF Forget, fields, backing, walk, call, teardown
<1>. QED  BY <1>1, <1>2, <1>4, <1>5, Steps DEF Whole

\* In every reachable state a child's `parent` is the handle its object lives
\* inside, whichever views its constructor was reached through, and an object
\* whose handle zigoTakeLocked emptied is being destroyed or was broken by a
\* panic that reaches the parent.
THEOREM ContractInvariant == Spec => []Whole
BY WholeInit, WholeNext, PTL DEF Spec

-----------------------------------------------------------------------------
(* What the contract asks for, step by step.                               *)

InsideAs(t) ==
  IF pc[t] \in {"native", "poison"}
  THEN {h \in Objects : \E i \in Nat : <<t, i, h>> \in pins}
  ELSE {}

InsideByPins == \A t \in Threads : InsideOf(t) = InsideAs(t)

LEMMA InsideKnown == PinsInv => InsideByPins
<1> SUFFICES ASSUME PinsInv, NEW t \in Threads, NEW h
             PROVE  (\E p \in pins : p[1] = t /\ p[3] = h) <=> \E i \in Nat : <<t, i, h>> \in pins
  BY DEF InsideOf, InsideAs, InsideByPins
<1>1. ASSUME NEW p \in pins, p[1] = t, p[3] = h PROVE \E i \in Nat : <<t, i, h>> \in pins
  <2>1. p[2] \in Nat /\ p = <<p[1], p[2], p[3]>>
    BY DEF PinsInv
  <2>. QED  BY <1>1, <2>1
<1>2. ASSUME NEW i \in Nat, <<t, i, h>> \in pins PROVE \E p \in pins : p[1] = t /\ p[3] = h
  BY <1>2
<1>. QED  BY <1>1, <1>2

\* What a call is inside is alive, reachable, and open above another one.
InsideOpen ==
  \A t \in Threads : \A h \in InsideOf(t) :
    /\ h \in Objects /\ ptr[h] /\ native[h] = "live" /\ h \notin swept
    /\ \A i \in InsideOf(t) : HolderOf(i) = h => ~closed[h]

LEMMA InsideIsOpen == Whole => InsideOpen
<1> SUFFICES ASSUME Whole, NEW t \in Threads, NEW h \in InsideOf(t)
             PROVE  /\ h \in Objects /\ ptr[h] /\ native[h] = "live" /\ h \notin swept
                    /\ \A i \in InsideOf(t) : HolderOf(i) = h => ~closed[h]
  BY DEF InsideOpen
<1>1. ASSUME NEW g \in InsideOf(t)
      PROVE  g \in Objects /\ ptr[g] /\ native[g] = "live" /\ g \notin swept
  <2>1. g \in Objects /\ \E i \in Nat : <<t, i, g>> \in pins
    BY <1>1, InsideKnown, WholeTypes DEF InsideByPins, InsideAs, Whole, Layer2
  <2>2. ptr[g] /\ g \notin swept
    BY <2>1, PinsByThread, SweptByThread, WholeTypes DEF PinsOf, ReachesOf, Layer2, Layer3, Whole
  <2>. QED  BY <2>1, <2>2, WholeTypes DEF Objects, NativeInv, Layer3, Whole
<1>2. ASSUME NEW c \in InsideOf(t), HolderOf(c) = h PROVE ~closed[h]
  <2>1. h \in Handles \ Views /\ c \in Dependents /\ ptr[c] /\ c \notin swept
    BY <1>1, <1>2, WholeTypes DEF HolderOf, Objects, Whole
  <2>2. up[c] = h /\ c \in made
    BY <1>2, <2>1, WholeTypes DEF Whole, ContractInv, HeldUp, FieldsInv
  <2>3. ParentOf[c] = h
    BY <2>1, <2>2 DEF ParentOf
  <2>. QED  BY <2>1, <2>3, HeldOpen DEF Whole
<1>. QED  BY <1>1, <1>2

\* Where the place of a living child is.
LEMMA PlaceOfLiving ==
  ASSUME Whole, NEW c \in Dependents, native[c] = "live", ptr[c] \/ ~poison[c]
  PROVE  \/ ptr[c] /\ up[c] = HolderOf(c) /\ ParentOf[c] = HolderOf(c)
         \/ /\ ptr[c] /\ up[c] = HolderOf(c) /\ c \in swept /\ ~poison[c]
            /\ orphan[Collector] = HolderOf(c) /\ HolderOf(c) \notin swept
         \/ /\ ~ptr[c]
            /\ \E a \in Actors : pc[a] = "deinit" /\ at[a] = c /\ orphan[a] = HolderOf(c)
<1>1. c \in made /\ c \in Handles /\ HolderOf(c) # NoHandle
  BY WholeTypes, HoldersAreRoots DEF Whole, ContractInv, UnmadeInv, Roots
<1>2. CASE ptr[c]
  <2>1. up[c] = HolderOf(c)
    BY <1>2 DEF Whole, ContractInv, HeldUp
  <2>2. CASE c \notin swept \/ poison[c]
    BY <1>1, <1>2, <2>1, <2>2 DEF ParentOf
  <2>3. CASE c \in swept /\ ~poison[c]
    BY <1>1, <1>2, <2>1, <2>3 DEF Whole, All, ReserveInv, CollectedOf
  <2>. QED  BY <2>2, <2>3
<1>3. CASE ~ptr[c]
  BY <1>1, <1>3 DEF Whole, ContractInv, LeftOf
<1>. QED  BY <1>2, <1>3

\* Close finds every child gone, or left behind by a panic.
LEMMA CloseFindsNone ==
  ASSUME Whole, NEW c \in Dependents, native[c] = "live", children[HolderOf(c)] = 0
  PROVE  poison[c] /\ closed[c]
<1>0. HolderOf(c) \in Handles \ Views
  BY HoldersAreRoots, ShapeAssumption DEF Roots
<1>1. ~ptr[c] /\ poison[c]
  <2>1. SUFFICES ASSUME ptr[c] \/ ~poison[c] PROVE FALSE
    OBVIOUS
  <2>. QED  BY <1>0, <2>1, PlaceOfLiving, HeldCounted, WholeTypes DEF Whole
<1>2. c \in made
  BY WholeTypes DEF Whole, ContractInv, UnmadeInv
<1>. QED  BY <1>1, <1>2, WholeTypes DEF Whole, FieldsInv

\* A destructor finds none.
LEMMA FreeFindsNone ==
  ASSUME Whole, NEW a \in Actors, pc[a] = "deinit", doomed[a], NEW c \in Dependents,
         HolderOf(c) = at[a]
  PROVE  native[c] # "live"
<1> SUFFICES ASSUME native[c] = "live" PROVE FALSE
  OBVIOUS
<1> DEFINE h == at[a]
<1>0. /\ h \in made /\ h \in Handles \ Views /\ ~poison[h] /\ h \in Roots
      /\ c \in made /\ c # h /\ h # NoHandle /\ c \in Handles
  <2>1. h \in made \ Views /\ ~poison[h]
    BY DEF Whole, All, Both, ReleaseInv, DeinitOf
  <2>2. h \in Roots /\ c \notin Roots
    BY HoldersAreRoots DEF Dependents, Roots
  <2>. QED  BY <2>1, <2>2, WholeTypes DEF Whole, ContractInv, UnmadeInv
<1>1. /\ a \in Threads => ~ptr[h] /\ closed[h]
      /\ a = Collector => h \in swept
      /\ a \in Threads \/ a = Collector
  BY <1>0, WholeTypes DEF Whole, Layer3, NativeInv, FieldsInv, Actors
<1>2. ~poison[c]
  <2>1. SUFFICES ASSUME poison[c] PROVE FALSE
    OBVIOUS
  <2>2. \A t \in Threads : pc[t] = "poison" => at[t] # h
    BY <1>1, PoisonedIsPinned DEF Whole, All
  <2>3. CASE ptr[c]
    BY <1>0, <2>1, <2>2, <2>3
    DEF Whole, ContractInv, HeldUp, All, Both, ReleaseInv, PoisonClimbs, ClimbOf
  <2>4. CASE ~ptr[c]
    BY <1>0, <2>1, <2>2, <2>4 DEF Whole, ContractInv, LeftOf
  <2>. QED  BY <2>3, <2>4
<1>3. CASE a \in Threads
  <2>1. ParentOf[c] = h \/ \E b \in Actors : orphan[b] = h
    BY <1>2, PlaceOfLiving, WholeTypes DEF Whole
  <2>2. ~closed[h]
    BY <1>0, <2>1, HeldOpen DEF Whole
  <2>. QED  BY <1>1, <1>3, <2>2
<1>4. CASE a = Collector
  <2>1. CASE ptr[c]
    <3>1. c \in swept
      BY <1>0, <1>1, <1>4, <2>1, SweptByThread, WholeTypes
      DEF Whole, Layer3, ContractInv, HeldUp
    <3>. QED
      BY <1>0, <1>1, <1>2, <1>4, <2>1, <3>1, PlaceOfLiving
      DEF ParentOf, Whole, All, ReserveInv, CollectedOf, ContractInv, HeldUp
  <2>2. CASE ~ptr[c]
    <3>1. PICK b \in Actors : pc[b] = "deinit" /\ at[b] = c /\ orphan[b] = h
      BY <1>2, <2>2, PlaceOfLiving
    <3>2. b \in Threads
      BY <1>0, <1>4, <3>1 DEF Actors
    <3>. QED  BY <1>1, <1>4, <3>1, <3>2, SweptByThread, WholeTypes DEF ReachesOf, Layer3, Whole
  <2>. QED  BY <2>1, <2>2
<1>. QED  BY <1>1, <1>3, <1>4

-----------------------------------------------------------------------------
(* Every step is a step of the contract, or none.                          *)

\* What the contract sees of a step.
SameObjects == \A h \in Objects : native'[h] = native[h]
SameMarks ==
  \A h \in Objects : /\ poison'[h] = poison[h] /\ closed'[h] = closed[h]
                     /\ h \in swept' <=> h \in swept
SameInside == \A t \in Threads : InsideOf(t)' = InsideOf(t)
OthersInside(a) == \A t \in Threads \ {a} : InsideOf(t)' = InsideOf(t)

LEMMA Unseen == ASSUME SameObjects, SameMarks, SameInside PROVE UNCHANGED Contract!vars
<1>1. [h \in Objects |-> native'[h]] = [h \in Objects |-> native[h]]
  BY DEF SameObjects
<1>2. [t \in Threads |-> InsideOf(t)'] = [t \in Threads |-> InsideOf(t)]
  BY DEF SameInside
<1>3. /\ {h \in Objects : poison'[h]} = {h \in Objects : poison[h]}
      /\ {h \in Objects : closed'[h]} = {h \in Objects : closed[h]}
      /\ swept' \intersect Objects = swept \intersect Objects
  BY DEF SameMarks
<1>. QED  BY <1>1, <1>2, <1>3 DEF Contract!vars

LEMMA OthersStayInside ==
  ASSUME Whole, Whole', NEW a \in Actors, StepOf(a)
  PROVE  OthersInside(a)
<1> SUFFICES ASSUME NEW t \in Threads \ {a} PROVE InsideOf(t)' = InsideOf(t)
  BY DEF OthersInside
<1>1. Untouched(t)
  BY Footprint, WholeTypes DEF Whole
<1>2. InsideAs(t)' = InsideAs(t)
  BY <1>1 DEF Untouched, InsideAs
<1>3. InsideOf(t) = InsideAs(t)
  BY InsideKnown, WholeTypes DEF InsideByPins, Whole, Layer2
<1>4. PinsInv'
  BY DEF Whole, All, Both, Layer3, Layer2
<1>5. PinsInv' => InsideByPins'
  BY InsideKnown, PTL
<1>. QED  BY <1>2, <1>3, <1>4, <1>5 DEF InsideByPins

\* The only way into native, and the only ways on from there.
LEMMA EntersByPin ==
  ASSUME Whole, NEW a \in Actors, StepOf(a), pc'[a] = "native"
  PROVE  a \in Threads /\ Pin(a)
<1> DEFINE Other == pc'[a] # "native"
<1>0. /\ pc \in [Actors -> PCs] /\ (pc[a] = "native" => a \in Threads)
  BY WholeTypes DEF Whole, Actors, OpOf, OpInv, Tearing, Layer1
<1>1. ASSUME NEW h, ReleaseNext(a, h) PROVE Other
  BY <1>0, <1>1 DEF ReleaseNext, Unwind, Return, Goto
<1>2. CASE CleanupStep(a)
  <2>1. CASE DropOrReturn(a)
    BY <1>0, <1>1, <2>1 DEF DropOrReturn, Goto
  <2>2. CASE Deinit(a) /\ ~DropOrReturn(a)
    BY <1>0, <2>2 DEF Deinit, Goto
  <2>3. CASE DropChild(a)
    BY <1>1, <2>3 DEF DropChild
  <2>. QED  BY <1>2, <2>1, <2>2, <2>3 DEF CleanupStep, DeleteCallbackHandles
<1>3. CASE a \in Threads /\ (Start(a) \/ Lookup(a))
  <2>1. \A o, h : FirstStep(o, h) \in {"lookup", "pin"}
    BY FirstStepType
  <2>. QED
    BY <1>0, <1>3, <2>1
    DEF Start, StartCall, StartNew, StartView, Begin, BeginAcquire, Lookup, Goto
<1>4. CASE a \in Threads /\ (PinRefused(a) \/ DropReservation(a))
  BY <1>0, <1>1, <1>4 DEF PinRefused, DropReservation, Return, Goto
<1>5. CASE a \in Threads /\ (NativeEnds(a) \/ Poison(a))
  BY <1>0, <1>5
  DEF NativeEnds, NativeReturns, NativeMakesChild, NativeMakesView, NativePanics, Poison, Leave,
      Goto
<1>6. CASE a \in Threads /\ (Release(a) \/ Close(a) \/ CloseView(a))
  BY <1>0, <1>1, <1>6 DEF Release, Close, CloseView, Take, Goto, Idle
<1>7. CASE a = Collector /\ \E h \in Handles : Collect(h)
  BY <1>0, <1>7 DEF Collect, Goto, Idle
<1>. QED  BY <1>2, <1>3, <1>4, <1>5, <1>6, <1>7 DEF StepOf, Proceed

LEMMA LeavesNative ==
  ASSUME Whole, NEW a \in Actors, StepOf(a), pc[a] = "native"
  PROVE  a \in Threads /\ NativeEnds(a)
BY WholeTypes
DEF StepOf, Start, StartCall, StartNew, StartView, Begin, Idle, Proceed, Lookup, Pin, PinRefused,
    Poison, Release, CleanupStep, Deinit, DeleteCallbackHandles, DropChild, DropReservation,
    Close, CloseView, Collect, Whole, OpOf, Tearing

\* A step by somebody outside native, and staying there.
LEMMA StaysOutside ==
  ASSUME Whole, Whole', NEW a \in Actors, StepOf(a),
         ~(a \in Threads /\ (NativeEnds(a) \/ Poison(a))),
         ~(a \in Threads /\ Pin(a) /\ pc'[a] = "native")
  PROVE  SameInside
<1>1. OthersInside(a)
  BY OthersStayInside
<1>2. pc[a] \notin {"native", "poison"}
  BY LeavesNative, MustContinue
<1>3. pc'[a] \notin {"native", "poison"}
  BY EntersByPin, EndsStart, WholeTypes DEF Whole, NativeEnds
<1>4. InsideOf(a)' = InsideOf(a)
  BY <1>2, <1>3 DEF InsideOf
<1>. QED  BY <1>1, <1>4 DEF OthersInside, SameInside

LEMMA SameParts ==
  /\ SameObjects => [h \in Objects |-> native'[h]] = [h \in Objects |-> native[h]]
  /\ SameMarks => /\ {h \in Objects : poison'[h]} = {h \in Objects : poison[h]}
                  /\ {h \in Objects : closed'[h]} = {h \in Objects : closed[h]}
                  /\ swept' \intersect Objects = swept \intersect Objects
  /\ SameInside => [t \in Threads |-> InsideOf(t)'] = [t \in Threads |-> InsideOf(t)]
  /\ \A a \in Threads : OthersInside(a) =>
       [t \in Threads |-> InsideOf(t)'] =
         [[t \in Threads |-> InsideOf(t)] EXCEPT ![a] = InsideOf(a)']
<1>1. SameObjects => [h \in Objects |-> native'[h]] = [h \in Objects |-> native[h]]
  BY DEF SameObjects
<1>2. SameMarks => /\ {h \in Objects : poison'[h]} = {h \in Objects : poison[h]}
                   /\ {h \in Objects : closed'[h]} = {h \in Objects : closed[h]}
                   /\ swept' \intersect Objects = swept \intersect Objects
  BY DEF SameMarks
<1>3. SameInside => [t \in Threads |-> InsideOf(t)'] = [t \in Threads |-> InsideOf(t)]
  BY DEF SameInside
<1>4. ASSUME NEW a \in Threads, OthersInside(a)
      PROVE  [t \in Threads |-> InsideOf(t)'] =
               [[t \in Threads |-> InsideOf(t)] EXCEPT ![a] = InsideOf(a)']
  BY <1>4 DEF OthersInside
<1>. QED  BY <1>1, <1>2, <1>3, <1>4

LEMMA StepEnter ==
  ASSUME Whole, Whole', NEW a \in Threads, Pin(a), pc'[a] = "native", StepOf(a)
  PROVE  Contract!Next \/ UNCHANGED Contract!vars
<1>0. a \in Actors
  BY WholeTypes DEF Whole
<1>1. OthersInside(a) /\ InsideOf(a) = {}
  BY <1>0, OthersStayInside DEF InsideOf, Pin
<1>2. SameObjects /\ SameMarks
  BY DEF Pin, SameObjects, SameMarks, program, backing
<1>3. InsideOpen'
  <2>1. Whole' => InsideOpen'
    BY InsideIsOpen, PTL
  <2>. QED  BY <2>1
<1>4. \A h \in InsideOf(a)' :
        /\ h \in Objects /\ native[h] = "live" /\ h \notin swept
        /\ \A i \in InsideOf(a)' : HolderOf(i) = h => ~closed[h]
  BY <1>3 DEF InsideOpen, Pin, program, backing
<1>5. CASE InsideOf(a)' = {}
  <2>1. SameInside
    BY <1>1, <1>5 DEF SameInside, OthersInside
  <2>. QED  BY <1>2, <2>1, Unseen
<1>6. CASE InsideOf(a)' # {}
  <2> DEFINE S == InsideOf(a)'
  <2>1. S \in (SUBSET Objects) \ {{}}
    <3>1. \A h \in S : h \in Objects
      BY <1>4
    <3>2. S \subseteq Objects /\ S # {}
      BY <1>6, <3>1
    <3>. QED  BY <3>2
  <2>2. \A o \in S : /\ native[o] = "live" /\ o \notin swept \intersect Objects
                     /\ \A c \in {d \in Objects : HolderOf(d) = o} \intersect S :
                          o \notin {h \in Objects : closed[h]}
    BY <1>4
  <2>3. [t \in Threads |-> InsideOf(t)'] = [[t \in Threads |-> InsideOf(t)] EXCEPT ![a] = S]
    BY <1>1, SameParts
  <2> HIDE DEF S
  <2>4. Contract!Enter(a)
    BY <1>1, <1>2, <2>1, <2>2, <2>3, SameParts DEF Contract!Enter, Contract!HeldBy
  <2>. QED  BY <2>4 DEF Contract!Next
<1>. QED  BY <1>5, <1>6

LEMMA StepExit ==
  ASSUME Whole, Whole', NEW a \in Threads, StepOf(a),
         NativeReturns(a) \/ NativeMakesView(a) \/ NativeMakesChild(a)
  PROVE  Contract!Next \/ UNCHANGED Contract!vars
<1>0. a \in Actors
  BY WholeTypes DEF Whole
<1>1. OthersInside(a)
  BY <1>0, OthersStayInside
<1>2. InsideOf(a)' = {}
  <2>1. pc'[a] = "release"
    BY <1>0, WholeTypes
    DEF NativeReturns, NativeMakesView, NativeMakesChild, Leave, Goto, Whole
  <2>. QED  BY <2>1 DEF InsideOf
<1>3. SameMarks
  BY DEF NativeReturns, NativeMakesView, NativeMakesChild, SameMarks, fields, program
<1>4. CASE NativeReturns(a) \/ NativeMakesView(a)
  <2>1. SameObjects
    BY <1>4 DEF NativeReturns, NativeMakesView, SameObjects, backing
  <2>2. CASE InsideOf(a) = {}
    <3>1. SameInside
      BY <1>1, <1>2, <2>2 DEF SameInside, OthersInside
    <3>. QED  BY <1>3, <2>1, <3>1, Unseen
  <2>3. CASE InsideOf(a) # {}
    <3>1. Contract!Exit(a)
      BY <1>1, <1>2, <1>3, <2>1, <2>3, SameParts DEF Contract!Exit
    <3>. QED  BY <3>1 DEF Contract!Next
  <2>. QED  BY <2>2, <2>3
<1>5. CASE NativeMakesChild(a)
  <2> DEFINE c == child[a]
  <2>1. /\ c \in Dependents \ made /\ op[a] = "new" /\ pc[a] = "native"
        /\ reservation[a] # NoHandle /\ reservation[a] \in Roots
    BY <1>0, <1>5, WholeTypes DEF NativeMakesChild, Whole, OpOf
  <2>2. c \in Objects /\ native[c] = "none"
    BY <2>1, WholeTypes DEF Whole, ContractInv, UnmadeInv, Objects
  <2>3. /\ args[a] = <<Creator[c]>> /\ reservation[a] = OwnerOf[args[a][1]]
        /\ <<a, 1, reservation[a]>> \in pins
    BY <2>1 DEF Whole, ContractInv, MakingOf
  <2>4. HolderOf(c) \in InsideOf(a)
    <3>1. HolderOf(c) = reservation[a]
      BY <2>1, <2>3 DEF HolderOf
    <3>2. HolderOf(c) \in Objects
      BY <2>1, <3>1, ShapeAssumption DEF Roots, Objects
    <3>. QED  BY <2>1, <2>3, <3>1, <3>2 DEF InsideOf
  <2>5. [h \in Objects |-> native'[h]] = [[h \in Objects |-> native[h]] EXCEPT ![c] = "live"]
    <3>1. native' = [native EXCEPT ![c] = "live"]
      BY <1>5 DEF NativeMakesChild
    <3>. QED  BY <2>2, <3>1, WholeTypes DEF Whole, Objects
  <2> HIDE DEF c
  <2>6. Contract!Exit(a)
    BY <1>1, <1>2, <1>3, <2>2, <2>4, <2>5, SameParts DEF Contract!Exit
  <2>. QED  BY <2>6 DEF Contract!Next
<1>. QED  BY <1>4, <1>5

LEMMA StepPanic ==
  ASSUME Whole, Whole', NEW a \in Threads, StepOf(a), NativePanics(a)
  PROVE  UNCHANGED Contract!vars
<1>0. a \in Actors
  BY WholeTypes DEF Whole
<1>1. OthersInside(a)
  BY <1>0, OthersStayInside
<1>2. pc[a] = "native" /\ pc'[a] = "poison" /\ pins' = pins
  BY <1>0, WholeTypes DEF NativePanics, Goto, Whole
<1>3. SameInside
  BY <1>1, <1>2 DEF SameInside, OthersInside, InsideOf
<1>4. SameObjects /\ SameMarks
  BY DEF NativePanics, SameObjects, SameMarks, fields, program, backing
<1>. QED  BY <1>3, <1>4, Unseen

LEMMA StepPoison ==
  ASSUME Whole, Whole', NEW a \in Threads, StepOf(a), Poison(a)
  PROVE  Contract!Next \/ UNCHANGED Contract!vars
<1> DEFINE h == at[a]
<1>0. a \in Actors /\ pc[a] = "poison" /\ h \in Handles /\ pins' = pins
  BY WholeTypes DEF Poison, Whole, TypeInv, FrameInv
<1>1. OthersInside(a)
  BY <1>0, OthersStayInside
<1>2. InsideOf(a)' = InsideOf(a) \/ InsideOf(a)' = {}
  BY <1>0 DEF InsideOf
<1>3. /\ SameObjects /\ poison' = [poison EXCEPT ![h] = TRUE]
      /\ closed' = closed /\ swept' = swept
  BY DEF Poison, SameObjects, backing, program
<1>4. PICK i : <<a, i, h>> \in pins
  BY <1>0 DEF Whole, All, Both, ReleaseInv, PoisonOf
<1>5. CASE h \in Objects
  <2>1. h \in InsideOf(a)
    BY <1>0, <1>4, <1>5 DEF InsideOf
  <2>2. {g \in Objects : poison'[g]} = {g \in Objects : poison[g]} \union {h}
    BY <1>0, <1>3, <1>5, WholeTypes DEF Whole, Objects
  <2>3. \/ [t \in Threads |-> InsideOf(t)'] = [[t \in Threads |-> InsideOf(t)] EXCEPT ![a] = {}]
        \/ [t \in Threads |-> InsideOf(t)'] = [t \in Threads |-> InsideOf(t)]
    <3>1. CASE InsideOf(a)' = {}
      BY <1>1, <3>1, SameParts
    <3>2. CASE InsideOf(a)' = InsideOf(a)
      BY <1>1, <3>2, SameParts DEF SameInside, OthersInside
    <3>. QED  BY <1>2, <3>1, <3>2
  <2>4. [g \in Objects |-> native'[g]] = [g \in Objects |-> native[g]]
    BY <1>3, SameParts
  <2> HIDE DEF h
  <2>5. Contract!Break(a)
    BY <1>3, <2>1, <2>2, <2>3, <2>4 DEF Contract!Break
  <2>. QED  BY <2>5 DEF Contract!Next
<1>6. CASE h \notin Objects
  <2>1. h \in Views /\ ptr[h] /\ up[h] # NoHandle
    <3>1. h \in Views /\ ptr[h]
      BY <1>0, <1>6, PoisonedIsPinned DEF Objects, Whole, All
    <3>2. up[h] = Creator[h] /\ Creator[h] \in Handles
      BY <1>0, <3>1, CreatorsOfViews, WholeTypes DEF Whole, FieldsInv
    <3>. QED  BY <3>1, <3>2, WholeTypes DEF Whole
  <2>2. pc' = pc
    BY <2>1 DEF Poison
  <2>3. SameInside
    BY <1>0, <1>1, <2>2 DEF SameInside, OthersInside, InsideOf
  <2>4. SameMarks
    BY <1>0, <1>3, <1>6, WholeTypes DEF SameMarks, Objects, Whole
  <2>. QED  BY <1>3, <2>3, <2>4, Unseen
<1>. QED  BY <1>5, <1>6

LEMMA StepClose ==
  ASSUME Whole, Whole', NEW a \in Threads, StepOf(a), Close(a)
  PROVE  Contract!Next \/ UNCHANGED Contract!vars
<1>0. a \in Actors /\ pc[a] = "idle"
  BY WholeTypes DEF Whole, Close, Idle
<1>1. PICK h \in Handles \ Views :
        /\ Usable(h) /\ ~closed[h] /\ MayClose(h) /\ closed' = [closed EXCEPT ![h] = TRUE]
        /\ UNCHANGED <<poison, program, backing>>
  BY DEF Close
<1>2. SameInside
  BY <1>0, StaysOutside
  DEF NativeEnds, NativeReturns, NativeMakesChild, NativeMakesView, NativePanics, Poison, Pin
<1>3. /\ [g \in Objects |-> native'[g]] = [g \in Objects |-> native[g]]
      /\ {g \in Objects : poison'[g]} = {g \in Objects : poison[g]}
      /\ swept' = swept
  BY <1>1 DEF backing, program
<1>4. native[h] = "live"
  <2>1. h \in made /\ h \notin swept
    BY <1>1, Types DEF Usable, Whole, All, Both
  <2>2. ptr[h]
    BY <1>1, <2>1, WholeTypes DEF Whole, FieldsInv
  <2>. QED  BY <1>1, <2>1, <2>2, WholeTypes DEF Whole, Layer3, NativeInv
<1>5. ASSUME NEW c \in Objects, HolderOf(c) = h, native[c] = "live" PROVE poison[c] /\ closed[c]
  <2>1. c \in Dependents
    BY <1>1, <1>5, WholeTypes DEF HolderOf, Whole
  <2>. QED  BY <1>1, <1>5, <2>1, CloseFindsNone DEF MayClose
<1>6. {g \in Objects : closed'[g]} = {g \in Objects : closed[g]} \union {h}
  BY <1>1, WholeTypes DEF Objects, Whole
<1>7. h \in Objects
  BY <1>1 DEF Objects
<1>8. [t \in Threads |-> InsideOf(t)'] = [t \in Threads |-> InsideOf(t)]
  BY <1>2, SameParts
<1>9. Contract!Close(h)
  BY <1>1, <1>3, <1>4, <1>5, <1>6, <1>7, <1>8 DEF Contract!Close, Contract!HeldBy
<1>. QED  BY <1>7, <1>9 DEF Contract!Next

\* Neither cleanups nor the collector are inside.
LEMMA CleanupOutside ==
  ASSUME Whole, Whole', NEW a \in Actors, StepOf(a),
         a = Collector \/ pc[a] \in Tearing \union {"idle", "release", "unreserve"}
  PROVE  SameInside
<1>1. CASE a = Collector
  BY <1>1, WholeTypes, StaysOutside DEF Whole
<1>2. CASE pc[a] \in Tearing \union {"idle", "release", "unreserve"}
  BY <1>2, StaysOutside
  DEF NativeEnds, NativeReturns, NativeMakesChild, NativeMakesView, NativePanics, Poison, Pin,
      Tearing
<1>. QED  BY <1>1, <1>2

LEMMA StepFree ==
  ASSUME Whole, Whole', NEW a \in Actors, StepOf(a), Deinit(a)
  PROVE  Contract!Next \/ UNCHANGED Contract!vars
<1>0. PICK h \in made \ Views :
        /\ h = at[a] /\ pc[a] = "deinit" /\ native[h] = "live" /\ (doomed[a] <=> ~poison[h])
  BY DEF Deinit, Whole, All, Both, ReleaseInv, DeinitOf
<1>1. SameInside
  BY <1>0, CleanupOutside DEF Tearing
<1>2. SameMarks
  BY DEF Deinit, SameMarks, fields, program
<1>3. CASE ~doomed[a]
  <2>1. SameObjects
    BY <1>3 DEF Deinit, SameObjects
  <2>. QED  BY <1>1, <1>2, <2>1, Unseen
<1>4. CASE doomed[a]
  <2>1. h \in Objects
    BY <1>0, WholeTypes DEF Objects, Whole
  <2>2. (~ptr[h] /\ closed[h]) \/ h \in swept
    <3>1. CASE a \in Threads
      <4>1. ~ptr[h]
        BY <1>0, <3>1, WholeTypes DEF Whole, Layer3, NativeInv
      <4>. QED  BY <1>0, <4>1, WholeTypes DEF Whole, FieldsInv
    <3>2. CASE a = Collector
      BY <1>0, <3>2, WholeTypes DEF Whole, Layer3, NativeInv
    <3>. QED  BY <3>1, <3>2 DEF Actors
  <2>3. \A t \in Threads : h \notin InsideOf(t)
    BY <2>2, InsideIsOpen DEF InsideOpen
  <2>4. \A c \in Objects : HolderOf(c) = h => native[c] # "live"
    <3>1. ASSUME NEW c \in Objects, HolderOf(c) = h PROVE c \in Dependents
      BY <1>0, <3>1, WholeTypes DEF HolderOf, Whole
    <3>. QED  BY <1>0, <1>4, <3>1, FreeFindsNone
  <2>5. [g \in Objects |-> native'[g]] = [[g \in Objects |-> native[g]] EXCEPT ![h] = "freed"]
    <3>1. native' = [native EXCEPT ![h] = "freed"]
      BY <1>0, <1>4 DEF Deinit
    <3>. QED  BY <2>1, <3>1, WholeTypes DEF Whole, Objects
  <2>6. Contract!Free(h)
    BY <1>0, <1>1, <1>2, <1>4, <2>1, <2>2, <2>3, <2>4, <2>5, SameParts
    DEF Contract!Free, Contract!HeldBy
  <2>. QED  BY <2>1, <2>6 DEF Contract!Next
<1>. QED  BY <1>3, <1>4

LEMMA StepCollect ==
  ASSUME Whole, Whole', NEW h \in Handles, StepOf(Collector), Collect(h)
  PROVE  Contract!Next \/ UNCHANGED Contract!vars
<1>0. Collector \in Actors
  BY WholeTypes DEF Whole
<1>1. SameInside
  BY <1>0, CleanupOutside
<1>2. SameObjects /\ swept' = swept \union {h} /\ UNCHANGED <<poison, closed>> /\ h \notin swept
  BY DEF Collect, SameObjects, backing
<1>3. CASE h \notin Objects
  <2>1. SameMarks
    BY <1>2, <1>3 DEF SameMarks
  <2>. QED  BY <1>1, <1>2, <2>1, Unseen
<1>4. CASE h \in Objects
  <2>1. ASSUME NEW t \in Threads PROVE h \notin InsideOf(t)
    <3>1. SUFFICES ASSUME NEW i \in Nat, <<t, i, h>> \in pins PROVE FALSE
      BY InsideKnown, WholeTypes DEF InsideByPins, InsideAs, Whole, Layer2
    <3>2. i \in 1..Len(args[t])
      BY <3>1, PinsByThread, WholeTypes DEF PinsOf, Layer2, Whole
    <3>. QED  BY <3>1, <3>2, WholeTypes DEF Collect, Refers, Whole
  <2>2. swept' \intersect Objects = (swept \intersect Objects) \union {h}
    BY <1>2, <1>4
  <2>3. Contract!Forsake(h)
    BY <1>1, <1>2, <1>4, <2>1, <2>2, SameParts DEF Contract!Forsake
  <2>. QED  BY <1>4, <2>3 DEF Contract!Next
<1>. QED  BY <1>3, <1>4

\* What happens outside every native call leaves what the contract sees alone.
LEMMA StepQuiet ==
  ASSUME Whole, Whole', NEW a \in Actors, StepOf(a),
         a \in Threads => /\ ~NativeEnds(a) /\ ~Poison(a) /\ ~Close(a)
                          /\ ~(Pin(a) /\ pc'[a] = "native"),
         ~Deinit(a), a = Collector => ~\E h \in Handles : Collect(h)
  PROVE  UNCHANGED Contract!vars
<1>1. SameInside
  BY StaysOutside
<1>2. SameObjects
  BY WritersOfNative DEF SameObjects, NativeEnds
<1>3. poison' = poison /\ swept' = swept
  BY WritersOfMarks, WritersOfSwept DEF CloseView, program, NativeEnds
<1>4. \A h \in Objects : closed'[h] = closed[h]
  BY WritersOfClosed, WholeTypes DEF CloseView, Objects, Whole
<1>. QED  BY <1>1, <1>2, <1>3, <1>4, Unseen DEF SameMarks

LEMMA ContractRefines == Whole /\ Whole' /\ [Next]_vars => [Contract!Next]_(Contract!vars)
<1> SUFFICES ASSUME Whole, Whole', [Next]_vars PROVE Contract!Next \/ UNCHANGED Contract!vars
  OBVIOUS
<1>1. ASSUME NEW a \in Actors, StepOf(a) PROVE Contract!Next \/ UNCHANGED Contract!vars
  <2>1. CASE a \in Threads /\ NativeEnds(a)
    BY <1>1, <2>1, StepExit, StepPanic DEF NativeEnds
  <2>2. CASE a \in Threads /\ Poison(a)
    BY <1>1, <2>2, StepPoison
  <2>3. CASE a \in Threads /\ Close(a)
    BY <1>1, <2>3, StepClose
  <2>4. CASE a \in Threads /\ Pin(a) /\ pc'[a] = "native"
    BY <1>1, <2>4, StepEnter
  <2>5. CASE Deinit(a)
    BY <1>1, <2>5, StepFree
  <2>6. CASE a = Collector /\ \E h \in Handles : Collect(h)
    BY <1>1, <2>6, StepCollect
  <2>. QED  BY <1>1, <2>1, <2>2, <2>3, <2>4, <2>5, <2>6, StepQuiet
<1>2. ASSUME UNCHANGED <<native, poison, closed, swept, pc, pins>> PROVE UNCHANGED Contract!vars
  BY <1>2, Unseen DEF SameObjects, SameMarks, SameInside, InsideOf
<1>3. CASE UNCHANGED vars
  BY <1>2, <1>3 DEF vars, fields, program, backing
<1>4. ASSUME NEW h \in Handles, Forget(h) PROVE UNCHANGED Contract!vars
  BY <1>2, <1>4 DEF Forget, fields, backing
<1>. QED  BY <1>1, <1>3, <1>4, Steps

LEMMA ContractStarts == Init => Contract!Init
<1> SUFFICES ASSUME Init PROVE Contract!Init
  OBVIOUS
<1>1. \A h \in Objects : HolderOf(h) = NoHandle <=> h \in Roots
  <2>1. ASSUME NEW h \in Objects, h \in Dependents PROVE HolderOf(h) # NoHandle /\ h \notin Roots
    BY <2>1, HoldersAreRoots, HandlesAssumption DEF Dependents, Roots
  <2>2. ASSUME NEW h \in Objects, h \notin Dependents PROVE HolderOf(h) = NoHandle /\ h \in Roots
    BY <2>2 DEF HolderOf, Dependents, Objects, Roots
  <2>. QED  BY <2>1, <2>2
<1>2. /\ \A h \in Objects : /\ native[h] = IF HolderOf(h) = NoHandle THEN "live" ELSE "none"
                            /\ ~poison[h] /\ ~closed[h]
      /\ swept = {}
  BY <1>1 DEF Init, Objects
<1>3. \A t \in Threads : InsideOf(t) = {}
  BY DEF Init, InsideOf, Actors
<1>. QED  BY <1>2, <1>3 DEF Contract!Init

\* Every behaviour of the counters, locks and walks of src/gen/emit/handles.zig
\* is one HandleContract allows: a native object is destroyed only when its
\* handle was closed or given up, nobody is inside it, no panic broke it and
\* nothing that lives inside it is left.
THEOREM LifecycleImplementsContract == Spec => ImplementsContract
BY ContractStarts, ContractRefines, ContractInvariant, PTL
DEF Spec, ImplementsContract, Contract!Spec
=============================================================================

# A TLA+ model of zigo's generated bindings

zigo reads a Zig library and generates Go (and Rust) bindings for it. Most of the
repository is a sequential compiler: it reflects declarations, validates and lowers
them and prints text. What is hard to get right is what it prints: the Go code around
every native object and every Go callback runs concurrently in the program that uses
the binding, and a mistake there is a use after free in somebody else's process. This
project models that generated code, together with the few parts of the generator that
keep state between runs, checks it with TLC and proves its central properties with
TLAPS.

The generated code exists twice in the repository: as the emitters under
`src/src/gen/emit/`, which print it, and as the Go files under `src/examples/`, which
they have printed for eleven libraries. The modules were written from the emitters; the
`map` of `PROJECT.json` names the lines of the printed Go a definition stands for, since
that is the code that runs, and the module heads and the components name the emitters.
Where the printed code differs from example to example, the difference is data: tables
of records in `HandleTypes`, `PublicCallTables` and `NativeTables`, one definition for
each stretch of a generated file.

## The system

| Part | State it keeps | Operations | Hard because | Modelled in |
|---|---|---|---|---|
| Handle lifecycle (`src/src/gen/emit/handles.zig`, `public_writers.zig`, `lower/ownership.zig`) | pointer, count of calls, count of children, closed, poison, owner or parent, collector cleanup | acquire, release, acquire a child, drop a child, poison, Close, take, cleanup | Close never waits; calls, panics, other handles and the collector interleave between short locked sections | `HandleLifecycle`, `HandleTypes` |
| Callback registry, purego (`emit/callbacks.zig`) | map of tokens to entries; each entry's value, closing flag, active count, kept panic and error; two package counters | new, delete, acquire, release, record, take | lock-free lookup against deletion, a deletion that waits | `CallbackRegistry` |
| Public wrappers with retained callbacks (`emit/public.zig`, `public_runtime.zig`) | the callback slots of a handle | register, call, sweep panics, sweep errors, adopt, delete | several locks in sequence, many early returns, concurrent re-registration, reentrancy | `RetainedCallback` |
| Public call wrappers (`emit/public.zig`, `public_writers.zig`) and cancellation (`callbacks.zig` 38-44) | what one call has acquired, drawn, lent, reserved; its deferred functions; a flag on its stack | check, acquire, draw tokens, watch a context, native call, sweep, status, result, unwind | a dozen ways to give up half-way, each with its own set of things to give back | `PublicCalls`, `PublicCallTables` |
| Native call frames (`emit/purego.zig`, `raw.zig`) | pooled frames of arguments and out slots, native buffers | lay out, enter, read back, put, copy, free | pooling, callbacks that call again inside a call | `CallFrames`, `NativeTables` |
| Library loader, purego (`emit/purego.zig` 257-347) | published bindings, path, the one automatic attempt, open libraries | LoadLibrary, first use | all or nothing, retryable, read without the mutex | `LibraryLoader`, `LibraryOnce` |
| Session plugin (`gen/plugins/session.zig`) | adopted handles, closed, once | Add, Close | Add racing Close; members that refuse, or that others call and close | `Session` |
| Scratch buffers (`handles.zig` 344-432) | one atomic pointer | take, give, release | overlapping calls | `ScratchBuffers` |
| Streams (`stream_callbacks.zig`, `stream_adapter.zig`) | sticky terminal error, buffered bytes | read, write, flush | short reads and writes, errors with data | `Streams` |
| Publishing (`gen/publish.zig`, `output_manifest.zig`, `sync_check.zig`) | two directories and a manifest | copy, prune, record, compare | stops between steps | `Publishing` |
| Stable error codes (`gen/ir/errors_lock.zig`) | table of names and codes | parse, assign, compare | no code is ever reused | `ErrorCodes` |
| ABI diff, materialized codec, naming | none | pure functions | corner cases | no |
| Reflection, validation, lowering, other emitters, shim, Rust, plugins, CLI, doctor | none that outlives a run | sequential translation to text | covered by golden files | no |

The parts meet as follows. The first use of a package loads its library. A public
wrapper acquires the handles it is given, registers its callbacks in the registry, lays
out a native call frame and makes the native call, sweeps what the callbacks recorded,
poisons the handles if native code panicked, turns what came back into a Go value, and
releases everything in reverse order (deferred calls). The last release out of a closed
handle runs the native destructor and then deletes the handle's callback tokens, which
waits for callbacks still running. A child's cleanup lowers its parent's count of
children. A session adopts a parent and its children and calls their `Close`, as anybody
else may. The generator writes the table of error codes back on every run, and `publish`
brings a generated tree into the user's source directory.

Correctness, per part:

* *Lifecycle*: no native object is used after its destructor or destroyed twice; a child
  is destroyed before its parent; counters balance on every error path; a panic makes
  everything it may have touched unusable, and what it left half-changed is never
  destroyed; what Close marked is released without anybody waiting.
* *Registry*: no callback runs once its deletion returned; deletion returns; counters
  are exact.
* *Wrappers*: a slot names a live token; every token drains; a callback's panic reaches
  the caller, and is kept until it does; native code never keeps a deleted token;
  operations return; however a call ends it gives back what it took, poisons what a
  native panic broke and says what went wrong.
* *Native layer*: a frame belongs to one call until its results are read; every native
  buffer is freed once, after its copy; a buffer lent by a handle is seen by one call.
* *Loader*: whoever finds bindings finds all of one open library; nothing leaks; a
  library is never replaced.
* *Streams*: bytes arrive in order and unchanged; no failure is lost.
* *Session*: what it adopts it closes, or reports; all calls of Close answer alike; its
  own order never makes the primary refuse; Add and Close return.
* *Error codes*: a run keeps every code of the committed table as it was last edited and
  gives new names codes of their own. *Publishing*: a run
  that ends leaves a directory `check` accepts, after whatever stops before.

## Modules

```
HandleContract   <- implemented by -  HandleLifecycle
                                         |  EXTENDS
                     HandleLifecycle_proofs    HandleFlat
                                         \      /     \
                                    HandleFlat_proofs   MCHandle -> HandleTypes
                                            |
                                   HandleRelease_proofs
                     HandleLifecycle <- MCHandleNested
                     HandleLifecycle <- EXTENDS - Session <- MCSession
                     Session, HandleRelease_proofs <- EXTENDS - Session_proofs
CallbackRegistry <- MCRegistry
       | EXTENDS
RetainedCallback <- MCRetained,  RetainedCallback <- Callbacks_proofs

LibraryOnce <- implemented by - LibraryLoader
PublicCalls <- PublicCallTables <- MCCalls, MCBoundary
PublicCalls <- PublicCalls_proofs
CallFrames <- NativeTables
NativeCalls_proofs EXTENDS LibraryLoader, CallFrames, Streams, ScratchBuffers
Generator_proofs   EXTENDS ErrorCodes, Publishing
MCBoundary EXTENDS LibraryLoader, NativeTables, PublicCallTables, Streams,
                   ScratchBuffers, HandleTypes, ErrorCodes, Publishing
```

**`HandleLifecycle`.** One action per locked section, because a handle's mutex guards
sections that neither block nor call out; everything between two sections is a step of
its own. `Lookup`/`Pin`/`PinRefused` are the two locked sections of `zigoAcquire` and
`zigoAcquireChild` (read the owner or parent; acquire it; lock again, decide). The walk
up to the parents is a recursion in the code; `at`, `caller` and `last` are its frames.
`Release` is `zigoRelease` with the `zigoTakeLocked` it contains, `Poison` is
`zigoPoison` one level at a time, `Deinit`, `DeleteCallbackHandles` and `DropChild` are
the three parts of a cleanup, `Close` and `CloseView` the two forms of Close, `Forget`
and `Collect` the program dropping a handle and `runtime.AddCleanup` (external: a handle
is collected when nothing that runs and no handle in use refers to it; cleanups run one
after the other). `NativeMakesChild`, `NativeMakesView`, `NativeReturns` and
`NativePanics` are the ways out of a native call; a native panic that is masked by a
callback's failure (see `PublicCalls`) poisons nothing and so leaves by `NativeReturns`.
The shape of a program (which handles
are views, whose method made what) is given by constants.

**`HandleContract`.** The promise without any counter, lock or walk: an object is freed
only when closed or unreachable, nobody is inside it, no panic broke it, and nothing
that lives inside it is alive. `HandleLifecycle!Contract` maps the detailed state to it.

**`HandleFlat`.** The assumption that a dependent child makes no dependent children of
its own, and the inductive invariant `IInv`.

**`CallbackRegistry`.** `sync.Map` operations and sections under an entry's mutex are one
action each. `StartDelete`, `LoadAndDelete`, `CloseEntry`, `Drained` and `Uncount` are
`DeleteCallbackHandle`; `LoadCallback`, `AcquireCallback`, `CallbackEnds`, `Record`,
`RecordErr` and `ReleaseCallback` the dispatcher; `FindEntry` with `TakeCallbackPanic`
or `TakeCallbackError` what a wrapper takes. A `Broadcast` is the flag `woken`.
`Record` sets the entry's flag and raises the package counter in one step: both are one
section under the entry's mutex, and the only reader without that mutex reads the counter
alone (callbacks.zig:46), so between the two it sees what it would have seen just before.

**`RetainedCallback`.** One handle whose constructor and setter each retain a callback,
on top of the registry. `Begin` and `Register` are what a wrapper does before its native
call, `PanicPending`, `SweepPanics`, `Rethrow`, `SweepErrors`, `ReturnError` and
`Succeed` what it does after, `DeleteNext`, `Release`, `Deinit` and `Return`
its deferred calls. The native object is external and keeps the documented contract: it
does not start a callback it has replaced, or any once destroyed. `Reenter` lets a
running callback call the binding; another goroutine stands for the inner call, and the
callback cannot end before it. `owed` and `stranded` are history: the panics a call owes
its caller, and the tokens of constructors that rethrew one, which have no deferred
deletion (callback_gen.go:80-84). `OnlyPanickedConstructorsLeak` says what the code
does; that no token is ever left over, as the repository promises, is what `calls_leak`
denies for a constructor and what is proved where none takes a callback (`TokensDrain`).

**`Session`.** The container of `session.zig` on top of `HandleLifecycle`: its members are
handles, and the goroutines that call `Add` and `Close` of the session also call the
members, make children and close handles directly. `Adopt` and `TakeSlices` are the
sections under the session's mutex; `EnterOnce`, `LeaveOnce` and `AnswerAgain` are
`sync.Once` (external); `CloseMember` and `CloseLate` call a member's `Close`, whose
cleanup then runs step by step as the lifecycle's `Proceed`. A child type has a slice of
its own. The program keeps its handles, so nothing is collected here, and the primary is
not nil (the code skips a nil one).

**`HandleTypes`.** For each handle type of the examples what sets its generated
functions apart: whether it owns a native object and by which symbol that is destroyed,
whether it can be borrowed, hands out views, makes dependent children or retains
callbacks. `MCHandle` gives every handle of its instances one of these types and reads
the constants of `HandleLifecycle` off them, so that the instances are forests the
repository has generated.

**`PublicCalls`.** One call of a public function, from its first check to the end of its
deferred functions. A `CallShape` is the order of its steps (acquire a handle, an
optional one or one that reserves a place for a child; check an argument; draw a token;
watch a context; take a scratch buffer), whether native code can run callbacks through
each of them and whether these may return errors, and what it makes of the status and
the result. `Acquire`, `PassNothing`, `PassCheck`, `Refuse`, `DrawToken`, `Watch`,
`Link` and `TakeScratch` are those steps; `CallbackFails`, `AfterFunc` and
`NativeReturnsStatus` what happens inside native code, and `RetainedCallbackFails` at any
time; `RethrowPanic`,
`ReturnCallbackError` and `ReturnStatus` the three sweeps; `GiveHandle`, `Adopt` and
`GiveValue` the result; `RunRelease`, `RunDropChild`, `RunDelete`, `RunUnlink` and
`RunGive` the deferred functions, last in first out. Where a callback may fail
(`MayFail`) is a matter of the arguments, where the wrapper looks (`SweptAt`,
`FallibleAt`) one of the code, and the two are defined apart: a callback of an argument
(its own token, or one an argument retains) fails, or has failed before under another
call or on a native thread; a retained callback of any other handle may fail too, on a
native thread or behind a child of that handle, and the running call, which looks at its
own arguments only, does not see it; and a failure stays in its token until somebody
takes it (`Take`). `lostTokens` and `lostObjects` are history: what a call that has ended
leaves and nothing owns (`UnownedTokens`, and the `object` no handle was given).
`CloseHandle` is anybody closing a
handle meanwhile. One goroutine calls: how two of them count each other in and out is
`HandleLifecycle`'s business and how two of them race for a slot `RetainedCallback`'s.
`PublicCallTables` has the shape of every public operation of ten examples; the cgo and
the purego copy of a package agree on it. Two assumptions on shapes, which TLC evaluates
on all of them: `WellShaped` is the order `renderPublicBody` prints (public.zig 604-633:
whatever may refuse stands before the first token is drawn; a child's parent and a
setter's receiver are the first argument), and `AsInTheExamples` what no example does
although the emitter would print it (two retained callbacks in one call; a callback in a
call that returns a native buffer, whose panic would pass the buffer's release by).

**`CallFrames`.** A raw wrapper of a purego package takes a frame from the pool
(`sync.Pool`, external: it hands out any frame that was put back, or a fresh one), lays
out its arguments, points the out parameters at slots of the frame (`LayOut`), lets native
code run (`EnterFn`, `NativeDone`), reads the slots back, returns the frame (`ReadBack`,
`PutFrame`) and copies and frees a native buffer (`Finish`, `Free`). A callback inside
native code makes further calls on the same goroutine. `NativeTables` has the signature of
every native function, what each wrapper does with its results, and the order in which
`loadCandidate` resolves the symbols.

**`LibraryLoader`.** `LoadLibrary`, `loadLibraryLocked`, `loadCandidate` and the
automatic load of the first use: under one mutex the candidates are tried in order, a
candidate that opens has its symbols resolved one by one, and only a complete set of
bindings is published. Every goroutine may read the published bindings without the mutex
(`UseBindings`, `Reread`). Files may fail to open or lack symbols, differently on each
attempt. **`LibraryOnce`** is its promise in one step per call; `LoadsOnce` is the
refinement, with the loader's program counter and the published bindings mapped to the
outcome of the call and the library in use.

**`ScratchBuffers`** has the three atomic operations of the lent buffer and the one
generated call that uses them. **`Streams`** is a call that lends native code a reader, a
writer or both: `readStream` with its sticky terminal error, the dispatchers, the native
adapters' buffer and sticky failure, and the wrapper's answer. The library, the reader and
the writer misbehave in every way the code looks for. **`ErrorCodes`** is a sequence of
runs of the generator over the committed table, which anybody may edit in between;
**`Publishing`** a sequence of generations, publications that may stop anywhere, and edits
of the user's directory, file by file.

**`MCBoundary`** puts the parts beside the handles under one next-state relation. They
share no variable; a behaviour picks one of them at the start (`part`) and leaves the
others where they start, so TLC explores the sum of their state spaces and not the
product.

## Runs

| Run | Instance | Shows |
|---|---|---|
| `handle_view` | parent, view of it, child made through the view; three goroutines, symmetric | counters equal pins and reservations, no use after free, views pin owners, poison reaches the owner, poisoned objects are never destroyed, the lifecycle implements `HandleContract` |
| `handle_family` | an EventQueue and two of its Streams; calls on the queue and on both streams at once; two goroutines, fairness | destruction once and in order, tokens outlive objects, no error path leaves anything behind, what was closed is released |
| `handle_nested` | child that makes a child | **violated**: see below |
| `registry_churn` | one token; two goroutines, two native threads, fairness | no callback after its deletion returned, exact counters, every deletion returns |
| `retained_calls` | constructor, setter, method, call-scoped callback, Close; two goroutines; callbacks return, fail, panic, call `Apply` | slots name live tokens; beside theirs only the tokens of constructors that panicked stay |
| `session_close` | primary, a child that hands out a view and so can refuse, a child of another type; two goroutines, two Adds, fairness | every member is closed or reported, the answers agree, only others make the primary refuse, Add and Close return |
| `boundary` | loader, public calls, frames, streams, scratch buffers, error codes, publishing, one at a time | bindings complete, no library leaks, loading is one step; handles stay pinned and alive during a call, a call gives back what it took, whatever its shape and end, a native panic poisons unless a callback failed too, the failures its arguments keep are what it answers, and none is dropped before; frames and results are never mixed up, buffers freed once; bytes in order, stream failures surface; scratch rows are a call's own; a run only appends codes; a publication that ends passes its check |
| `retained_panic`, `retained_reject`, `retained_reenter` | setter with method; setter alone, one goroutine; a setter called from its own callback, fairness | **violated**: see below |
| `calls_leak`, `calls_masked_panic` | public calls of one constructor; of one setter | **violated**: see below |

*Bounds.* Three goroutines are enough for one to be inside native, one to close and one
to make or drop; handles are made at most once, so every behaviour ends in rest or in a
cycle of calls, and no counter needs a cap. One token suffices for the registry, as
entries share nothing but the two counters; two goroutines allow two deletions of it at
once. `MaxToken` 2 and `MaxCalls` 1 in the retained runs allow one replacement and one
callback in each native call; an idle goroutine may play a thread of the native library.
`MaxAdds` 2 lets one Add per child type race Close, or the same children be adopted
twice. Symmetry is used only in runs without liveness
(goroutines in `handle_view`, `handle_nested`, `retained_calls`; the two handles of a
call in `boundary`).

The bounds of `boundary`, part by part:

| Part | Bound | Why it is enough |
|---|---|---|
| loader | two goroutines, two paths, the search path naming the file that is not the default, the first four symbols of a generated order | one loads, one reads without the mutex; a candidate fails and the next succeeds; a symbol may be missing first, in the middle or last |
| calls | every shape in the tables, two handles, two tokens, `MaxLost` 1 | a call passes two handles or the same one twice; a slot and the call hold a token each; a constructor may lose its object, and its token, before the program ends |
| frames | the wrappers of two libraries with the widest frames, two goroutines, three frames, `MaxNested` 2 | a frame goes round through another goroutine and through a nested call |
| streams | three bytes to read, four written, room for two, a buffer of two, two empty reads | a read is split, a write overflows the buffer, the writer fails between two flushes |
| scratch | two calls, three slices, one row | both calls overlap and one brings a slice back while the other's is kept |
| codes | three names, codes up to 3 | a name is removed, its code is not given out again, and the range ends |
| publish | two Go files, two artifacts, three generations (`MaxBindings`) | each kind of file appears, changes and disappears, with a stop in between |

*Fairness.* `FairSpec` in each module says that goroutines and native threads are
scheduled and that native calls, destructors and Go callbacks return. It never says that
a program calls, closes or drops anything, nor that native code invokes a callback.
Mutexes need no fairness as no action holds one. That no two locks are ever held at once
is said by the code (handles.zig:119-121: the parent is pinned "with this handle's lock
dropped, so the two locks never nest") and built into the model, so no run says anything
about the order of locks, and that acquire, release and Close of a handle return holds by
its shape. `Rest` and `AllRest` let a program stop
between operations, so deadlock is checked in every passing run but `boundary`, where a
stream call simply ends, the parts reach their bounds and a program ends with the last
object it may lose (`MaxLost`). The two violation runs on public calls have it off for
that last reason; `retained_reenter` switches it off because a deadlock is what it
exhibits as a temporal counterexample.

## What the runs found

1. **A child that makes children unbalances its parent's count** (`handle_nested`).
   `zigoAcquireChild` of a type that cannot be borrowed (handles.zig:219-230) counts a
   call on the handle but does not acquire its parent, which `zigoRelease` of that
   handle releases. Three steps by a second goroutine destroy the parent under a call.
2. **A callback's panic can be lost** (`retained_panic`). A setter that deletes a token
   drops the panic it keeps; a concurrent call that ran the callback finds nothing when
   it sweeps. The counter behind the fast path then stays above zero.
3. **Native code can be left with a deleted token** (`retained_reject`). The setter
   adopts its token only after the panic and error sweeps, and gives up in them.
4. **A reentrant callback can wait for itself** (`retained_reenter`). Deleting a token
   waits for its running invocations, one of which is the caller. With a native thread
   the same happens without a setter: a callback that calls a method while another
   goroutine closes the handle is the last one out and deletes its own token.
5. **A constructor given up over a callback's failure leaks** (`calls_leak`). The panic
   sweep (public.zig:1575) leaves by a Go panic, and a constructor, unlike a setter, has
   deferred no deletion: its token is in no slot and stays registered for good, against
   "every token must drain" (registry_test.go:12-13). On that way and when the error sweep
   answers, the wrapper leaves before a handle is made (callback_gen.go:81-88): an object
   native code has made is held by no handle and never destroyed. On the error way its
   token is deleted under it.
6. **A native panic is masked by a callback's failure** (`calls_masked_panic`). The sweeps
   (public.zig:861, 865) leave before the status is looked at (public.zig:901), so a
   native panic in a call whose callback also failed poisons no handle, against
   generated-runtime.md:44-45; the handles stay usable and are destroyed as usual.

Met while modelling, without a run of their own:

* For a type with children the generated doc of Close promises (handles.zig:285)
  `*HandleInUseError` "while a call is still inside native"; the check of `active` is
  written only for a type that hands out views (handles.zig:302-303), so such a parent
  closes, and the next sentence of the same doc says so.
* A panic of a parent's callback is not rethrown by the call that ran it when that is a
  call on a child (generated-runtime.md:61-63): the child's wrapper (`Stream.Capacity`,
  event_queue_gen.go:780-791) sweeps its own slots only, while emit.zig:811 promises the
  rethrow when the native call returns. The panic waits in the parent's slot for the
  parent's next call, or goes with the token (`KeptUntilAnswered`).
* With several child types a session's Close goes type after type (session.zig:184-193),
  so the children are not closed "most recent first" across types as its doc says.
* A handle adopted after a session's Close has begun is closed with its error dropped
  (session.zig:255): when its type hands out views and a call is inside, it stays open,
  against "closed immediately rather than leaked".
* A session never retries: `Close` while a call is inside a child marks the child closed,
  gets `*HandleInUseError` from the primary, and that is the answer for good; the program
  has to close the primary itself.
* `Source.Read` answers end of stream whenever native code reports zero bytes, also for a
  call with an empty buffer (docs.zig:224, public.zig:948), which `io.Reader` asks not to.
* When both the reader and the writer lent to one call panic, the first one found is
  rethrown and the other's token is deleted with its panic, so the package counter of
  pending panics stays above zero and every later call takes the slow path.
* A function that takes callbacks and returns a native buffer would leak it when a callback
  fails: the sweeps leave (public.zig:861-865) before the buffer's release is deferred
  (public.zig:870). The examples have no such function.
* `publish` removes a Go file that the previous manifest names even if the user has since
  rewritten it without the generated marker (publish.zig:51-61), while the comment on the
  other loop (publish.zig:70-71) says that what the user wrote is left alone.
* Artifacts copied by a publication that stopped before its manifest are named by no
  manifest, and `zigo check` does not see them until the next publication.

## Proofs

Eight modules hold theorems, each for every value of the constants that satisfies the
named assumptions.

`HandleLifecycle_proofs` proves `TypeCorrect`, `Spec => []TypeOK`, for all constants.
(`FrameInv`, that a frame of an acquire names a handle made, is part of the induction.)

`HandleFlat_proofs` proves `InvariantHolds`, `Spec => []IInv`, under `FlatAssumption`,
and from it `PinsBalance`, `ViewsPinTheirOwner`, `NothingLeftBehind` and
`NoUseAfterFreeWhenFlat`, for any number of handles, goroutines and calls.

The argument. None of the properties is inductive. That an object is alive while a call
is inside needs `active > 0` for every handle the call reached, so `active` has to equal
the pins (`ActiveCountsPins`). A pin is let go by a walk that reads `owner` or `parent`
from the handle at that moment, not from what the acquire saw, so the pins of one
argument must form a chain along `up` (`Chain`), which only holds because a pinned
handle keeps its pointer and a handle with a pointer keeps its parent (`FieldsInv`).
`PhaseInv` says where in the chain each goroutine is; `WalkInv` that an acquire's frames
climb one level at a time, which is where flatness enters: `Depth` bounds a walk, and a
constructor's walk starts at a handle in `Makers` and so never crosses a dependent child
that releases a parent it did not acquire. `OpInv` ties the frames to the operation.
`SweptInv` keeps collected handles out of everybody's reach, and `NativeInv` joins the
counters to the objects: a handle with a pointer that is not collected has a live
object. The invariant is proved in layers: fields and operations first, then walks,
pins and phases together, then the collector and the objects, one step per action and
below it one per conjunct the action disturbs.

`HandleRelease_proofs` adds who is inside a destructor, on top of `IInv`: an actor about
to destroy an object is the only one (whoever took the pointer emptied it under the
lock), the marks `closed`, `poison` and `swept` exclude each other where the code relies
on it, tokens are still there for an object that is, and a poisoning that has marked one
handle has its way to the top still ahead of it. From that: `DestroyedOnlyOnce`,
`TokensStayUntilFreed`, `PoisonClimbsToTheTop`, and, as a property of steps,
`PoisonedObjectsStay`.

The second half of that module adds the places children take in their parents. A count goes
up when a constructor reserves and comes down in a cleanup two operations later, perhaps
on the collector's goroutine, so the count is shown equal to three disjoint sets
(`ReservationsBalance`): open children, constructions under way, cleanups that owe the
drop. A step moves a handle from one set to the next or changes one set and the count.
Beside it: what a closed handle has become (`ClosedInv`), what a cleanup holds
(`CleanupInv`), and where the place of a child is that was taken, collected or poisoned
(`PlacesInv`, `CollectedOf`). A parent with a place taken neither closes nor is taken by
the collector, hence `ParentsStayOpen` and `ParentsOutliveChildren`.

The last part of the module proves that the lifecycle implements its contract
(`LifecycleImplementsContract`: `Spec => ImplementsContract`), which `handle_view` checks
on an instance. A `Pin` that enters native is an `Enter`, the end of a native call an
`Exit` (with the child's object, if it made one), a step of `Poison` on a handle that
owns something a `Break`, `Close` a `Close`, a `Deinit` that is to destroy a `Free`, and
`Collect` a `Forsake`; every other step stutters. Two things are needed that no earlier
invariant says (`ContractInvariant`): a child points to the handle its object lives
inside, through however many views its constructor was called, from the moment it is
made; and an object whose handle was emptied is being destroyed by somebody who still
holds its place, or was broken by a panic that has reached, or is about to reach, the
parent. `OwnerOf` is recursive: that such a function exists is shown from the set of
handles above a view (`OwnersExist`), and that it ends at a root by taking a
counterexample of least `Depth` (`HoldersAreRoots`), so neither takes an induction.

`Session_proofs`. A step of the session is a step of the lifecycle or leaves it alone
(`SessionIsALifecycle`), so every invariant above holds inside a session. Of its own it
needs that one goroutine runs Close and the flag says how far it is (`OneCloser`), that
an answer is not changed (`AnsweredOnce`), and that a member not closed is in a slice, in
what that goroutine has yet to do, or among its failures (`AdoptedOrTaken`). That the
close order covers every slice (`CloseOrderCovers`) is a fact about `FlattenSeq`, a
recursive function, and is shown by a counterexample of least length. A primary that
refuses counts a place (`CountedHeld`): the child that has it is still there, being made
or torn down, or closed with a call inside, and is none the session could have closed
(`PrimaryRefusesForOthers`). The first attempt at that proof failed on a case the property
had left out and the instance does not have, a primary that is itself of a type that
hands out views and has a call inside; the property now names it.

`Callbacks_proofs`, the registry: a token's name is issued once, at most one deletion
works on it, and once that is over the entry is closed, empty and unreachable
(`DeletionIsFinal`); the two counters the fast paths read without a lock are
cardinalities (`PendingIsExact`, `ActiveIsExact`), although an entry and its counter
change in different steps.

The wrappers use the registry only as its own steps allow (`WrapperKeepsRegistry`), so
its invariant holds below them (`WrapperDeletionIsFinal`). Above it every registered
token is in exactly one place (`OnePlace`): the parameter of a call, a slot of a handle
not yet freed, what a goroutine is about to delete, or left by a constructor that
panicked. A step moves a token from one place to the next, so nothing is deleted twice
and nothing else is lost: `SlotsStayRegistered` and `RegistryDrains` follow. The leak of
finding 5 is the only one: where no constructor takes a callback, every token drains
(`RegistryDrainsWithoutConstructors`, under `"new" \notin Operations`). A setter may
put its token into a slot because its call is counted: while the count is not zero
nobody has taken the slots (`ClosingInv`, where the count is the number of calls inside).
A constructor finds both slots empty because no handle exists before it returns
(`MakingInv`). Each of the two needs the other: an object that takes a token over is not
one that was freed.

`NativeCalls_proofs` is about what stands around a native call, in four parts.

* The loader: mutual exclusion, and what the holder of the mutex has open and resolved,
  give `BindingsComplete` and `HandlesDoNotLeak`; `LoadingIsOneStep` maps every step of
  the loader to a step of `LibraryOnce` or a stutter.
* Frames (`CallsSeeTheirFrames`, `CallsReturnTheirResults`, `CallsFreeTheirBuffers`): a
  frame is in the pool or with one call, and what it holds is known from the stage of
  that call. Only the innermost call of a goroutine moves, so a step has to be sound for
  its own call and leave the frames of the others alone (`OwnStepIsEnough`); what a call
  finds when a callback has come back is untouched because it still held its frame. The
  only assumption is `FramesAssumption`, which TLC evaluates on the tables of all the
  generated packages.
* Streams (`StreamsCarryBytesInOrder`, `StreamFailuresAreAnswered`): what the library
  wrote is, end to end, what the writer took, at most two slices on their way and the
  stage, until a send fails (`WritesInOrder`); a failure is recorded before the adapter
  that saw it goes quiet, so a swallowed one is still found (`FailuresRecorded`).
* Scratch buffers: a slice is in the pool or with one call and never both
  (`ScratchRowsAreOwn`).

`PublicCalls_proofs` is about one call after another, of functions of any shape that
meets the assumptions. Every property speaks of the end of a call, or of its middle, and
a call may be left at any step, so what is still to do is not known from the program
counter alone. The invariant (`CallInv`) says at each step which functions are deferred,
each once (`DefersKnown`), and ties the rest to them: a handle's count is the number of
positions that hold it and have a release to run, a place is one child given, under
construction or still to be dropped (`CountsKnown`); a token that exists is in a slot, in
the given handle, lost with an earlier constructor that panicked, or drawn by the call
and still its own (`TokensKnown`); a flag that is armed, a linked token, a slice or a
buffer has the function deferred that ends it, and an object nobody took belongs to a
constructor given up (`LoansKnown`). It follows that a call whose deferred functions have
run has given everything back, with the two exceptions finding 5 is about
(`CallsGiveBack`), and before that held everything it was passed (`PassedStay`).
`StatusKnown` keeps apart what native code reported and what the call answers: a native
panic poisons, or a callback's failure has answered first (`PanicSpoils`; finding 6 is
that case). `ToFind` follows a failure of an argument's callback from the token that keeps
it to the answer. That the sweeps look wherever such a callback may fail is a lemma of its
own (`LooksWhereItMayFail`), about two definitions that know nothing of each other; what
others do to the tokens meanwhile takes nothing from a sweep (`FailuresStay`); and the
first of a finite set of positions exists, so the sweep finds one
(`ArgumentsFailuresReachCaller`). A failure the call does not look for is not lost either:
no step takes one that does not answer with it, or delete its token (`FailuresAreKept`).
The proof needs every `CASE` to have arms that exclude each other: two were written in the
order the code tests them, which TLC takes them in and TLA+ does not, and were changed.

`Generator_proofs` is about the files the generator keeps. The accepted table of error
codes has distinct codes that are exactly those up to its size (the pigeonhole argument
`NoGaps`), so the next code is new and `RunsOnlyAppend`: from one edit of the table to the
next, whatever the edit was, runs only add to it. An edit itself is taken at face value:
one that swaps two names' codes parses and is kept. `PublishedTreePassesCheck`: what a run has done is known
from its stage and from what is left in it (`StageIsDone`), and what earlier runs that
stopped have left is a stray, in the old manifest or in the tree
(`ArtifactsAccounted`), which is why two sweeps are enough.

Every invariant and every action property a passing run checks is stated by a theorem.
Only model-checked is liveness, which under fairness needs ENABLED and is beyond the
prover: that closed handles are released (`handle_family`), that
deletions return (`registry_churn`), that a session's Add and Close do (`session_close`).
Induction over data and anything about RECURSIVE operators would be beyond it too; no
module here declares one, and the two recursive functions are treated as said above.

## Not modelled, and simplifications

* A handle's type-level facts (borrowable, has children, retains callbacks) are given
  per handle; two handles of one type simply agree.
* In the lifecycle, nil receivers, optional handles that are absent and arguments of the
  wrong package are rejected before any state changes; `PublicCalls` has the first two.
* A reentrant call from a callback is, for the lifecycle, a call by another goroutine;
  the waiting it can cause is modelled in `RetainedCallback`, the frames it takes in
  `CallFrames`.
* Views a callback receives without an owner, `zigo<Type>Ref` and the shared lifecycle
  package forward to the modelled methods.
* The cgo registry (`runtime/cgo.Handle`) does not wait on deletion; it is left to the
  native side's contract and not modelled. Its trampoline panics on a deleted token
  before it can look whether the entry is closing.
* `PublicCalls` keeps the handles' own rules short (closed, poisoned, counted); which token
  a constructor loses is not drawn again, and after `MaxLost` lost objects the program
  makes no more calls.
* `RetainedCallback` leaves out poison and the collector, which `HandleLifecycle` has,
  and Close is refused or not there.
* `PublicCalls` runs one call at a time and the parts of `MCBoundary` share no variable:
  races between calls are the subject of the modules with several goroutines.
* How often native code polls a cancel flag, and whether it does, is up to it.
* Streams that a method returns are handles and follow the lifecycle; their own reads
  are ordinary calls. Functions bound with `RegisterFunc` because they take floats do not
  use a call frame.
* Generated trees without a manifest (a first publication into an old directory) take
  the marker-only path of `publish`, which is not modelled. Reserved codes at the start
  of an error range are a constant offset and left out.
* Materialized results are encoded and decoded by code without state; their byte layout,
  the ABI diff and naming are pure functions over text and trees with golden tests, and
  a model of them would be a second implementation.
* Reflection, validation, lowering, the emitters as programs, the Rust emitter, plugins
  other than the session, the CLI and doctor are sequential text processing.

## What is left

1. Nested forests: `FlatAssumption` excludes what `handle_nested` shows to be broken; if
   the acquire of a child is changed to acquire its parent, the invariant should carry
   over with chains of any length.
2. The cgo registry beside the purego one, with the native side's contract as its
   environment.
3. `AsInTheExamples`: two retained callbacks in one constructor, and a callback in a call
   that returns a native buffer, once a generated package has one.
4. Materialized codec, naming and ABI diff as pure operators over bounded inputs.

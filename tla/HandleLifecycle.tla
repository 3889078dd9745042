---------------------------- MODULE HandleLifecycle ----------------------------
(***************************************************************************)
(* The lifecycle every generated Go handle shares: what the emitter in     *)
(* src/src/gen/emit/handles.zig prints for zigoAcquire, zigoRelease,       *)
(* zigoPoison, zigoAcquireChild, zigoDropChild, Close, zigoTakeLocked, the *)
(* cleanup of a handle and the garbage collector's safety net.             *)
(*                                                                         *)
(* A handle's mutex guards a section that neither blocks nor calls out, so *)
(* one locked section is one action; everything the code does between two  *)
(* sections (walking to the parent, the native call, the native            *)
(* destructor) is a step of its own, and other goroutines run in between.  *)
(*                                                                         *)
(* The handles of a program form a forest: a root is constructed by a      *)
(* plain function, a dependent child by a method of its creator, a         *)
(* borrowed view is handed out by a method of its owner.                   *)
(***************************************************************************)
EXTENDS Integers, FiniteSets, Sequences

CONSTANTS
  Handles,          \* every handle the program may ever hold
  Threads,          \* the goroutines that call the generated API
  Collector,        \* the goroutine that runs garbage-collector cleanups
  Views,            \* the handles made by zigoNewBorrowed: borrowed, not owned
  Borrowable,       \* the handles whose TYPE can be borrowed (carries `owner`)
  Creator,          \* the handle whose method makes a handle, or NoHandle
  RetainsCallbacks, \* the handles that keep callback tokens
  Calls,            \* argument lists of native calls that take handles
  NoHandle

Actors     == Threads \union {Collector}
Dependents == {h \in Handles \ Views : Creator[h] # NoHandle}
Roots      == {h \in Handles : Creator[h] = NoHandle}

ASSUME HandlesAssumption ==
  /\ NoHandle \notin Handles
  /\ Collector \notin Threads
  /\ IsFiniteSet(Threads) /\ IsFiniteSet(Handles)

ASSUME ShapeAssumption ==
  /\ Creator \in [Handles -> Handles \union {NoHandle}]
  /\ Views \subseteq Borrowable /\ Borrowable \subseteq Handles
  /\ Views \intersect Roots = {}
  /\ RetainsCallbacks \subseteq Handles \ Views
  /\ Calls \subseteq Seq(Handles) \ {<<>>}

\* A type some method of which hands out a borrowed view.
ReturnsBorrowedViews(h) == \E v \in Views : Creator[v] = h

VARIABLES
  \* The fields of the Go struct. A nil `ptr` is FALSE, and `up` is the one of
  \* `owner` and `parent` the handle was made with.
  ptr, active, children, closed, poison, up, cleanup,
  \* The program: handles made so far, handles it forgot, handles collected.
  made, dropped, swept,
  \* What is behind a handle: the native object, and its callback tokens.
  native, tokens,
  \* The goroutines: where each is and the Go locals of its frames.
  pc, op, args, k, at, caller, last, child, reservation, orphan, next, doomed,
  \* History: <<thread, argument, handle>> for every pin taken and not let go.
  pins

fields   == <<ptr, active, children, closed, poison, up, cleanup>>
program  == <<made, dropped, swept>>
backing  == <<native, tokens>>
walk     == <<at, caller, last>>
call     == <<op, args, child>>
teardown == <<orphan, next, doomed>>
vars == <<fields, program, backing, pc, k, walk, call, reservation, teardown, pins>>

PCs == {"idle", "lookup", "pin", "native", "poison", "release",
        "deinit", "untoken", "dropChild", "unreserve"}

TypeOK ==
  /\ ptr \in [Handles -> BOOLEAN] /\ closed \in [Handles -> BOOLEAN]
  /\ active \in [Handles -> Int] /\ children \in [Handles -> Int]
  /\ poison \in [Handles -> BOOLEAN] /\ cleanup \in [Handles -> BOOLEAN]
  /\ up \in [Handles -> Handles \union {NoHandle}]
  /\ made \subseteq Handles /\ dropped \subseteq made /\ swept \subseteq dropped
  /\ native \in [Handles -> {"none", "live", "freed"}]
  /\ tokens \in [Handles -> BOOLEAN]
  /\ pc \in [Actors -> PCs] /\ k \in [Actors -> Nat \ {0}]
  /\ op \in [Actors -> {"none", "call", "new", "view"}]
  /\ args \in [Actors -> Seq(Handles)]
  /\ child \in [Actors -> Handles \union {NoHandle}]
  /\ at \in [Actors -> Handles \union {NoHandle}]
  /\ last \in [Actors -> Handles \union {NoHandle}]
  /\ caller \in [Actors -> [Handles -> Handles \union {NoHandle}]]
  /\ reservation \in [Actors -> Handles \union {NoHandle}]
  /\ orphan \in [Actors -> Handles \union {NoHandle}]
  /\ next \in [Actors -> Handles \union {NoHandle}]
  /\ doomed \in [Actors -> BOOLEAN]
  /\ pins \subseteq Actors \X Nat \X Handles

\* The locals each program counter relies on.
FrameInv ==
  \A a \in Actors :
    /\ pc[a] \in {"lookup", "pin", "release", "poison", "deinit", "untoken"} =>
         at[a] # NoHandle
    /\ pc[a] \in {"idle", "unreserve"} => k[a] = 1
    /\ pc[a] \in {"lookup", "pin", "native", "poison"} => Len(args[a]) > 0
    /\ k[a] > 1 => k[a] <= Len(args[a])
    /\ pc[a] \in {"lookup", "pin", "native"} /\ op[a] # "call" => child[a] # NoHandle

Init ==
  /\ made = Roots /\ dropped = {} /\ swept = {}
  /\ ptr = [h \in Handles |-> h \in Roots]
  /\ active = [h \in Handles |-> 0] /\ children = [h \in Handles |-> 0]
  /\ closed = [h \in Handles |-> FALSE] /\ poison = [h \in Handles |-> FALSE]
  /\ up = [h \in Handles |-> NoHandle]
  /\ cleanup = [h \in Handles |-> h \in Roots]
  /\ native = [h \in Handles |-> IF h \in Roots THEN "live" ELSE "none"]
  /\ tokens = [h \in Handles |-> h \in Roots \intersect RetainsCallbacks]
  /\ pc = [a \in Actors |-> "idle"] /\ k = [a \in Actors |-> 1]
  /\ op = [a \in Actors |-> "none"] /\ args = [a \in Actors |-> <<>>]
  /\ child = [a \in Actors |-> NoHandle] /\ at = [a \in Actors |-> NoHandle]
  /\ last = [a \in Actors |-> NoHandle]
  /\ caller = [a \in Actors |-> [h \in Handles |-> NoHandle]]
  /\ reservation = [a \in Actors |-> NoHandle]
  /\ orphan = [a \in Actors |-> NoHandle] /\ next = [a \in Actors |-> NoHandle]
  /\ doomed = [a \in Actors |-> FALSE]
  /\ pins = {}

-----------------------------------------------------------------------------
(* Control shared by the actions.                                          *)

Goto(a, label) == pc' = [pc EXCEPT ![a] = label]

\* Mutant: the parent is never looked up, so never pinned.
FirstStepAlone(o, h) == "pin"

\* zigoAcquire of a type with `owner` or `parent` first reads that field in a
\* locked section of its own; zigoAcquireChild does so for `owner` only.
FirstStep(o, h) ==
  IF h \in Borrowable \/ (o # "new" /\ h \in Dependents) THEN "lookup" ELSE "pin"

\* Start acquiring handle h for an operation of kind o.
BeginAcquire(t, o, h) ==
  /\ Goto(t, FirstStep(o, h))
  /\ at' = [at EXCEPT ![t] = h]
  /\ last' = [last EXCEPT ![t] = NoHandle]
  /\ caller' = [caller EXCEPT ![t] = [g \in Handles |-> NoHandle]]

\* The operation returns to the program; its frames and locals are gone.
Return(a) ==
  /\ Goto(a, "idle")
  /\ at' = [at EXCEPT ![a] = NoHandle]
  /\ last' = [last EXCEPT ![a] = NoHandle]
  /\ caller' = [caller EXCEPT ![a] = [g \in Handles |-> NoHandle]]
  /\ op' = [op EXCEPT ![a] = "none"]
  /\ args' = [args EXCEPT ![a] = <<>>]
  /\ child' = [child EXCEPT ![a] = NoHandle]

\* The chain above one argument has been let go: the deferred releases of the
\* earlier arguments run next, then the reservation a failed constructor took
\* is dropped, then the operation returns.
Unwind(a) ==
  IF k[a] > 1 THEN
       /\ Goto(a, "release")
       /\ at' = [at EXCEPT ![a] = args[a][k[a] - 1]]
       /\ k' = [k EXCEPT ![a] = @ - 1]
       /\ UNCHANGED <<caller, last, call, reservation>>
  ELSE IF reservation[a] # NoHandle THEN
       /\ Goto(a, "unreserve")
       /\ UNCHANGED <<at, k, caller, last, call, reservation>>
  ELSE Return(a) /\ UNCHANGED <<k, reservation>>

\* Release goes on with handle h, or unwinds when there is none.
ReleaseNext(a, h) ==
  IF h # NoHandle
  THEN /\ Goto(a, "release")
       /\ at' = [at EXCEPT ![a] = h]
       /\ UNCHANGED <<k, caller, last, call, reservation>>
  ELSE Unwind(a)

-----------------------------------------------------------------------------
(* Operations begin.                                                       *)

Idle(t) == pc[t] = "idle"
Usable(h) == h \in made \ dropped

Begin(t, o, s, c) ==
  /\ Idle(t)
  /\ op' = [op EXCEPT ![t] = o]
  /\ args' = [args EXCEPT ![t] = s]
  /\ child' = [child EXCEPT ![t] = c]
  /\ BeginAcquire(t, o, s[1])
  /\ UNCHANGED <<fields, program, backing, k, reservation, teardown, pins>>

\* An ordinary generated call: a method or function that takes these handles.
StartCall(t) ==
  \E s \in Calls :
    /\ \A i \in DOMAIN s : Usable(s[i])
    /\ Begin(t, "call", s, NoHandle)

NotBeingMade(h) == h \notin made /\ \A t \in Threads : child[t] # h

\* A constructor method of Creator[c] makes the dependent child c.
StartNew(t) ==
  \E c \in Dependents :
    /\ NotBeingMade(c) /\ Usable(Creator[c])
    /\ Begin(t, "new", <<Creator[c]>>, c)

\* A method of Creator[v] hands out the borrowed view v.
StartView(t) ==
  \E v \in Views :
    /\ NotBeingMade(v) /\ Usable(Creator[v])
    /\ Begin(t, "view", <<Creator[v]>>, v)

-----------------------------------------------------------------------------
(* zigoAcquire and zigoAcquireChild.                                       *)

\* Read the parent under the lock; the walk continues there with the lock
\* dropped, and this frame waits for it. zigoAcquireChild follows owners only.
Lookup(t) ==
  /\ pc[t] = "lookup"
  /\ LET h == at[t]
         u == IF op[t] = "new" /\ h \notin Views THEN NoHandle ELSE up[h]
     IN IF u # NoHandle
        THEN /\ Goto(t, FirstStep(op[t], u))
             /\ at' = [at EXCEPT ![t] = u]
             /\ caller' = [caller EXCEPT ![t][u] = h]
        ELSE /\ Goto(t, "pin")
             /\ UNCHANGED <<at, caller>>
  /\ UNCHANGED <<fields, program, backing, k, last, call, reservation, teardown, pins>>

\* Mutant: a closed handle is let in.
RejectsPoisonedOnly(h) == poison[h]

Rejects(h) == closed[h] \/ ~ptr[h] \/ poison[h]

\* After h is pinned: back to the frame that called, or to the next argument,
\* or into native with every argument pinned.
Pinned(t, h) ==
  LET d == caller[t][h] IN
  IF d # NoHandle
  THEN /\ Goto(t, "pin")
       /\ at' = [at EXCEPT ![t] = d]
       /\ last' = [last EXCEPT ![t] = h]
       /\ UNCHANGED <<caller, k>>
  ELSE IF k[t] < Len(args[t])
  THEN /\ BeginAcquire(t, op[t], args[t][k[t] + 1])
       /\ k' = [k EXCEPT ![t] = @ + 1]
  ELSE /\ Goto(t, "native")
       /\ last' = [last EXCEPT ![t] = NoHandle]
       /\ caller' = [caller EXCEPT ![t] = [g \in Handles |-> NoHandle]]
       /\ UNCHANGED <<at, k>>

\* The deciding section: count the call in. The top of a zigoAcquireChild walk
\* also takes the reservation of the child about to be made.
Pin(t) ==
  /\ pc[t] = "pin"
  /\ LET h == at[t]
         reserves == op[t] = "new" /\ reservation[t] = NoHandle
     IN /\ ~Rejects(h)
        /\ active' = [active EXCEPT ![h] = @ + 1]
        /\ IF reserves
           THEN /\ children' = [children EXCEPT ![h] = @ + 1]
                /\ reservation' = [reservation EXCEPT ![t] = h]
           ELSE UNCHANGED <<children, reservation>>
        /\ pins' = pins \union {<<t, k[t], h>>}
        /\ Pinned(t, h)
  /\ UNCHANGED <<ptr, closed, poison, up, cleanup, program, backing, call, teardown>>

\* Mutant: the parent already pinned is forgotten.
PinRefusedKeepsParent(t) ==
  /\ pc[t] = "pin" /\ Rejects(at[t])
  /\ ReleaseNext(t, NoHandle)
  /\ UNCHANGED <<fields, program, backing, teardown, pins>>

\* A closed, detached or poisoned handle is the error; the parent this frame
\* had pinned is let go, and the frames below return the error as it is.
PinRefused(t) ==
  /\ pc[t] = "pin" /\ Rejects(at[t])
  /\ ReleaseNext(t, last[t])
  /\ UNCHANGED <<fields, program, backing, teardown, pins>>

-----------------------------------------------------------------------------
(* The native call and how it ends.                                        *)

Leave(t) ==
  /\ Goto(t, "release")
  /\ at' = [at EXCEPT ![t] = args[t][Len(args[t])]]

\* A result, a domain error, or a call given up over a callback's failure, which
\* does not look at what native code answered, be it a panic: nothing is made.
NativeReturns(t) ==
  /\ pc[t] = "native"
  /\ Leave(t)
  /\ UNCHANGED <<fields, program, backing, k, caller, last, call, reservation, teardown, pins>>

\* zigoNew: the child adopts the reservation as its parent.
NativeMakesChild(t) ==
  /\ pc[t] = "native" /\ op[t] = "new"
  /\ LET c == child[t] IN
     /\ made' = made \union {c}
     /\ ptr' = [ptr EXCEPT ![c] = TRUE]
     /\ up' = [up EXCEPT ![c] = reservation[t]]
     /\ cleanup' = [cleanup EXCEPT ![c] = TRUE]
     /\ native' = [native EXCEPT ![c] = "live"]
     /\ tokens' = [tokens EXCEPT ![c] = c \in RetainsCallbacks]
  /\ reservation' = [reservation EXCEPT ![t] = NoHandle]
  /\ child' = [child EXCEPT ![t] = NoHandle]
  /\ Leave(t)
  /\ UNCHANGED <<active, children, closed, poison, dropped, swept, k, caller, last,
                 op, args, teardown, pins>>

\* zigoNewBorrowed: the view remembers its owner and owns nothing.
NativeMakesView(t) ==
  /\ pc[t] = "native" /\ op[t] = "view"
  /\ LET v == child[t] IN
     /\ made' = made \union {v}
     /\ ptr' = [ptr EXCEPT ![v] = TRUE]
     /\ up' = [up EXCEPT ![v] = Creator[v]]
  /\ child' = [child EXCEPT ![t] = NoHandle]
  /\ Leave(t)
  /\ UNCHANGED <<active, children, closed, poison, cleanup, dropped, swept, backing,
                 k, caller, last, op, args, reservation, teardown, pins>>

\* Mutant: the argument index starts one too low.
NativePanicsOffByOne(t) ==
  /\ pc[t] = "native"
  /\ Goto(t, "poison")
  /\ at' = [at EXCEPT ![t] = args[t][1]]
  /\ k' = [k EXCEPT ![t] = 0]
  /\ UNCHANGED <<fields, program, backing, caller, last, call, reservation, teardown, pins>>

\* A Zig panic unwound the native frames and the call gets to look at the status:
\* zigoPoisonAfterPanic marks every argument, and through it every handle above,
\* before the deferred releases.
NativePanics(t) ==
  /\ pc[t] = "native"
  /\ Goto(t, "poison")
  /\ at' = [at EXCEPT ![t] = args[t][1]]
  /\ k' = [k EXCEPT ![t] = 1]
  /\ UNCHANGED <<fields, program, backing, caller, last, call, reservation, teardown, pins>>

\* Mutants: the parent stays usable; the collector's safety net stays armed.
PoisonAlone(t) ==
  /\ pc[t] = "poison"
  /\ poison' = [poison EXCEPT ![at[t]] = TRUE]
  /\ cleanup' = [cleanup EXCEPT ![at[t]] = FALSE]
  /\ k' = [k EXCEPT ![t] = Len(args[t])]
  /\ Leave(t)
  /\ UNCHANGED <<ptr, active, children, closed, up, program, backing, caller, last,
                 call, reservation, teardown, pins>>
PoisonKeepsCleanup(t) ==
  /\ pc[t] = "poison"
  /\ LET h == at[t] IN
     /\ poison' = [poison EXCEPT ![h] = TRUE]
     /\ IF up[h] # NoHandle
        THEN at' = [at EXCEPT ![t] = up[h]] /\ UNCHANGED <<pc, k>>
        ELSE /\ k' = [k EXCEPT ![t] = Len(args[t])]
             /\ Leave(t)
  /\ UNCHANGED <<ptr, active, children, closed, cleanup, up, program, backing, caller,
                 last, call, reservation, teardown, pins>>

\* zigoPoison of one handle; the parent is poisoned in a section of its own.
Poison(t) ==
  /\ pc[t] = "poison"
  /\ LET h == at[t] IN
     /\ poison' = [poison EXCEPT ![h] = TRUE]
     /\ cleanup' = [cleanup EXCEPT ![h] = FALSE]
     /\ IF up[h] # NoHandle
        THEN at' = [at EXCEPT ![t] = up[h]] /\ UNCHANGED <<pc, k>>
        ELSE IF k[t] < Len(args[t])
        THEN /\ at' = [at EXCEPT ![t] = args[t][k[t] + 1]]
             /\ k' = [k EXCEPT ![t] = @ + 1]
             /\ UNCHANGED pc
        ELSE Leave(t) /\ UNCHANGED k
  /\ UNCHANGED <<ptr, active, children, closed, up, program, backing, caller, last,
                 call, reservation, teardown, pins>>

-----------------------------------------------------------------------------
(* zigoRelease, zigoTakeLocked and the cleanup.                            *)

\* zigoTakeLocked hands out what is left of a closed handle nobody is inside.
\* A poisoned handle keeps its native object. `then` is the handle the taking
\* goroutine releases once the cleanup has run.
Take(a, h, then) ==
  /\ ptr' = [ptr EXCEPT ![h] = FALSE]
  /\ up' = [up EXCEPT ![h] = NoHandle]
  /\ doomed' = [doomed EXCEPT ![a] = ~poison[h]]
  /\ orphan' = [orphan EXCEPT ![a] = up[h]]
  /\ next' = [next EXCEPT ![a] = then]
  /\ at' = [at EXCEPT ![a] = h]
  /\ Goto(a, "deinit")

\* Mutants: only Close ever takes; the first one out takes.
ReleaseNeverTakes(t) ==
  /\ pc[t] = "release"
  /\ active' = [active EXCEPT ![at[t]] = @ - 1]
  /\ pins' = pins \ {<<t, k[t], at[t]>>}
  /\ ReleaseNext(t, up[at[t]])
  /\ UNCHANGED <<ptr, up, teardown, children, closed, poison, cleanup, program, backing>>
ReleaseTakesEarly(t) ==
  /\ pc[t] = "release"
  /\ LET h == at[t] IN
     /\ active' = [active EXCEPT ![h] = @ - 1]
     /\ pins' = pins \ {<<t, k[t], h>>}
     /\ IF closed[h] /\ ptr[h]
        THEN /\ Take(t, h, up[h])
             /\ UNCHANGED <<k, caller, last, call, reservation>>
        ELSE /\ ReleaseNext(t, up[h])
             /\ UNCHANGED <<ptr, up, teardown>>
  /\ UNCHANGED <<children, closed, poison, cleanup, program, backing>>

\* Count the call out; the last one out of a closed handle takes it.
Release(t) ==
  /\ pc[t] = "release"
  /\ LET h == at[t] IN
     /\ active' = [active EXCEPT ![h] = @ - 1]
     /\ pins' = pins \ {<<t, k[t], h>>}
     /\ IF closed[h] /\ active[h] = 1 /\ ptr[h]
        THEN /\ Take(t, h, up[h])
             /\ UNCHANGED <<k, caller, last, call, reservation>>
        ELSE /\ ReleaseNext(t, up[h])
             /\ UNCHANGED <<ptr, up, teardown>>
  /\ UNCHANGED <<children, closed, poison, cleanup, program, backing>>

\* The rest of a cleanup once its callback tokens are gone.
DropOrReturn(a) ==
  IF orphan[a] # NoHandle
  THEN Goto(a, "dropChild")
       /\ UNCHANGED <<at, k, caller, last, call, reservation, teardown>>
  ELSE /\ ReleaseNext(a, next[a])
       /\ next' = [next EXCEPT ![a] = NoHandle]
       /\ doomed' = [doomed EXCEPT ![a] = FALSE]
       /\ UNCHANGED orphan

\* Mutant: the callback tokens go before the object that calls them.
DeinitAfterTokens(a) ==
  /\ pc[a] = "deinit"
  /\ tokens' = [tokens EXCEPT ![at[a]] = FALSE]
  /\ IF at[a] \in RetainsCallbacks
     THEN Goto(a, "untoken")
          /\ UNCHANGED <<at, k, caller, last, call, reservation, teardown>>
     ELSE DropOrReturn(a)
  /\ UNCHANGED <<fields, program, native, pins>>

\* The native destructor, outside every lock.
Deinit(a) ==
  /\ pc[a] = "deinit"
  /\ native' = IF doomed[a] THEN [native EXCEPT ![at[a]] = "freed"] ELSE native
  /\ IF at[a] \in RetainsCallbacks
     THEN Goto(a, "untoken")
          /\ UNCHANGED <<at, k, caller, last, call, reservation, teardown>>
     ELSE DropOrReturn(a)
  /\ UNCHANGED <<fields, program, tokens, pins>>

\* The callback tokens the handle retained are deleted after its object.
DeleteCallbackHandles(a) ==
  /\ pc[a] = "untoken"
  /\ tokens' = [tokens EXCEPT ![at[a]] = FALSE]
  /\ DropOrReturn(a)
  /\ UNCHANGED <<fields, program, native, pins>>

\* Mutant: the reservation of a destroyed child is never given back.
DropChildForgets(a) ==
  /\ pc[a] = "dropChild"
  /\ orphan' = [orphan EXCEPT ![a] = NoHandle]
  /\ next' = [next EXCEPT ![a] = NoHandle]
  /\ doomed' = [doomed EXCEPT ![a] = FALSE]
  /\ ReleaseNext(a, next[a])
  /\ UNCHANGED <<fields, program, backing, pins>>

\* zigoDropChild on the parent the cleanup state names.
DropChild(a) ==
  /\ pc[a] = "dropChild"
  /\ children' = [children EXCEPT ![orphan[a]] = @ - 1]
  /\ orphan' = [orphan EXCEPT ![a] = NoHandle]
  /\ next' = [next EXCEPT ![a] = NoHandle]
  /\ doomed' = [doomed EXCEPT ![a] = FALSE]
  /\ ReleaseNext(a, next[a])
  /\ UNCHANGED <<ptr, active, closed, poison, up, cleanup, program, backing, pins>>

\* zigoDropChild on the reservation of a constructor that made no child.
DropReservation(t) ==
  /\ pc[t] = "unreserve"
  /\ children' = [children EXCEPT ![reservation[t]] = @ - 1]
  /\ reservation' = [reservation EXCEPT ![t] = NoHandle]
  /\ Return(t)
  /\ UNCHANGED <<ptr, active, closed, poison, up, cleanup, program, backing, k,
                 teardown, pins>>

-----------------------------------------------------------------------------
(* Close.                                                                  *)

\* Mutants: Close looks at one of its two counts only.
MayCloseUnlessCalled(h) == ReturnsBorrowedViews(h) => active[h] = 0
MayCloseUnlessParent(h) == children[h] = 0

\* A handle that owns its object refuses while a child is open, and, when its
\* type hands out views, while a call is inside.
MayClose(h) == children[h] = 0 /\ (ReturnsBorrowedViews(h) => active[h] = 0)

\* Mutant: the collector's safety net is not stopped.
CloseKeepsCleanup(t) ==
  \E h \in Handles \ Views :
    /\ Idle(t) /\ Usable(h) /\ ~closed[h] /\ MayClose(h)
    /\ closed' = [closed EXCEPT ![h] = TRUE]
    /\ IF active[h] = 0 /\ ptr[h]
       THEN Take(t, h, NoHandle)
       ELSE UNCHANGED <<ptr, up, teardown, at, pc>>
    /\ UNCHANGED <<active, children, poison, cleanup, program, backing, k, caller, last,
                   call, reservation, pins>>

Close(t) ==
  \E h \in Handles \ Views :
    /\ Idle(t) /\ Usable(h) /\ ~closed[h] /\ MayClose(h)
    /\ closed' = [closed EXCEPT ![h] = TRUE]
    /\ cleanup' = [cleanup EXCEPT ![h] = FALSE]
    /\ IF active[h] = 0 /\ ptr[h]
       THEN Take(t, h, NoHandle)
       ELSE UNCHANGED <<ptr, up, teardown, at, pc>>
    /\ UNCHANGED <<active, children, poison, program, backing, k, caller, last, call,
                   reservation, pins>>

\* Closing a borrowed view detaches it; nothing native is released.
CloseView(t) ==
  \E v \in Views :
    /\ Idle(t) /\ Usable(v) /\ ~closed[v] /\ active[v] = 0
    /\ closed' = [closed EXCEPT ![v] = TRUE]
    /\ ptr' = [ptr EXCEPT ![v] = FALSE]
    /\ up' = [up EXCEPT ![v] = NoHandle]
    /\ UNCHANGED <<active, children, poison, cleanup, program, backing, pc, k, walk,
                   call, reservation, teardown, pins>>

-----------------------------------------------------------------------------
(* The program and the garbage collector.                                  *)

\* The program forgets its last reference to a handle. A handle below keeps
\* its parent reachable, so forgetting goes from the leaves up.
Forget(h) ==
  /\ h \in made \ dropped
  /\ \A c \in made : up[c] = h => c \in dropped
  /\ dropped' = dropped \union {h}
  /\ UNCHANGED <<fields, made, swept, backing, pc, k, walk, call, reservation,
                 teardown, pins>>

\* A frame or a pending cleanup of actor a still holds handle h.
Refers(a, h) ==
  \/ h \in {at[a], last[a], reservation[a], orphan[a], next[a]}
  \/ \E i \in DOMAIN args[a] : args[a][i] = h
  \/ \E g \in Handles : caller[a][g] = h
  \/ \E i \in 1..Len(args[a]) : <<a, i, h>> \in pins

\* The collector sweeps a handle nothing refers to. If its cleanup is still
\* registered, the collector runs it on the copy zigoNew gave it: the pointer,
\* the parent and the tokens.
Collect(h) ==
  /\ Idle(Collector)
  /\ h \in dropped \ swept
  /\ \A a \in Actors : ~Refers(a, h)
  /\ \A c \in made : up[c] = h => c \in swept
  /\ swept' = swept \union {h}
  /\ IF cleanup[h]
     THEN /\ cleanup' = [cleanup EXCEPT ![h] = FALSE]
          /\ doomed' = [doomed EXCEPT ![Collector] = TRUE]
          /\ orphan' = [orphan EXCEPT ![Collector] = up[h]]
          /\ at' = [at EXCEPT ![Collector] = h]
          /\ Goto(Collector, "deinit")
     ELSE UNCHANGED <<cleanup, doomed, orphan, at, pc>>
  /\ UNCHANGED <<ptr, active, children, closed, poison, up, made, dropped, backing,
                 k, caller, last, call, reservation, next, pins>>

-----------------------------------------------------------------------------
Start(t) == StartCall(t) \/ StartNew(t) \/ StartView(t)

NativeEnds(t) ==
  \/ NativeReturns(t) \/ NativeMakesChild(t) \/ NativeMakesView(t) \/ NativePanics(t)

CleanupStep(a) == Deinit(a) \/ DeleteCallbackHandles(a) \/ DropChild(a)

\* What a goroutine does once an operation has begun.
Proceed(t) ==
  \/ Lookup(t) \/ Pin(t) \/ PinRefused(t) \/ NativeEnds(t) \/ Poison(t)
  \/ Release(t) \/ CleanupStep(t) \/ DropReservation(t)

\* Between operations the program may leave it at that.
Rest == (\A a \in Actors : Idle(a)) /\ UNCHANGED vars

Next ==
  \/ \E t \in Threads : Start(t) \/ Proceed(t) \/ Close(t) \/ CloseView(t)
  \/ CleanupStep(Collector)
  \/ \E h \in Handles : Forget(h) \/ Collect(h)
  \/ Rest

Spec == Init /\ [][Next]_vars

\* Goroutines are scheduled, native calls return and cleanups run to their
\* end; nothing makes the program call, close or drop anything.
FairSpec ==
  /\ Spec
  /\ \A t \in Threads : WF_vars(Proceed(t))
  /\ WF_vars(CleanupStep(Collector))

-----------------------------------------------------------------------------
(* What must hold.                                                         *)

\* Pins on a handle, one for each call argument that reaches it.
PinsOn(h) == {p \in pins : p[3] = h}

\* Goroutine t is inside native with handle h pinned.
Inside(t, h) == pc[t] = "native" /\ \E p \in pins : p[1] = t /\ p[3] = h

\* "a call still inside native keeps the resources until it returns": no
\* native object is used after its destructor ran, whatever Close, the other
\* calls and the collector do meanwhile.
NoUseAfterFree ==
  \A t \in Threads, h \in Handles \ Views : Inside(t, h) => native[h] = "live"

\* A view's memory belongs to its owner: whoever is inside through the view
\* has pinned the owner as well.
ViewPinsOwner ==
  \A t \in Threads, v \in Views : Inside(t, v) => Inside(t, Creator[v])

\* A call through a view or a child runs only while the handle above is open:
\* its Close is refused, by the count of calls for a view and by the
\* reservation for a child.
ParentOpenDuringCall ==
  \A t \in Threads, h \in Handles :
    Inside(t, h) /\ up[h] # NoHandle => ~closed[up[h]]

\* `active` counts exactly the pins not let go: a refused acquire, a failed
\* constructor, a panic and the walk through the parents all balance.
ActiveCountsPins == \A h \in Handles : active[h] = Cardinality(PinsOn(h))

\* The places taken in h: by children not taken or collected yet, and by
\* constructors and cleanups under way. A poisoned child the program drops
\* without Close keeps its place for good: its cleanup was stopped.
OpenChildren(h) ==
  {c \in Dependents : c \in made /\ up[c] = h /\ (c \notin swept \/ poison[c])}
Constructing(h) == {a \in Actors : reservation[a] = h}
CleaningUp(h)   == {a \in Actors : orphan[a] = h}

\* `children` counts them: none is lost by a failed constructor and none is
\* dropped twice, so a parent can be closed exactly when no child is left.
ChildrenCountReservations ==
  \A h \in Handles \ Views :
    children[h] = Cardinality(OpenChildren(h)) + Cardinality(Constructing(h))
                    + Cardinality(CleaningUp(h))

\* The native object of a child lives inside its parent's: as long as the
\* child's is alive, the parent's is.
ParentOutlivesChild ==
  \A c \in Dependents : native[c] = "live" /\ up[c] # NoHandle => native[up[c]] = "live"

\* Close, the last call out and the collector agree on who destroys an object:
\* it is still alive then, and no other goroutine is about to destroy it.
DestroyedOnce ==
  \A a \in Actors : pc[a] = "deinit" /\ doomed[a] =>
    /\ native[at[a]] = "live"
    /\ \A b \in Actors \ {a} : pc[b] = "deinit" => at[b] # at[a]

\* A goroutine between operations holds nothing: no error path of an acquire
\* or a constructor leaves a pin or a reservation behind.
IdleHoldsNothing ==
  \A a \in Actors : pc[a] = "idle" =>
    /\ ~\E p \in pins : p[1] = a
    /\ reservation[a] = NoHandle /\ orphan[a] = NoHandle

\* "a panic through it poisons the parent": once the panicked call is back, no
\* handle above a poisoned one is usable either.
PoisonReachesParent ==
  (\A t \in Threads : pc[t] # "poison") =>
    \A h \in made : poison[h] /\ up[h] # NoHandle => poison[up[h]]

\* A callback token outlives the native object that may still call it, unless
\* a panic made the object unusable and it leaked.
TokensOutliveObject ==
  \A h \in RetainsCallbacks : h \in made /\ native[h] = "live" => tokens[h] \/ poison[h]

\* "A poisoned handle keeps its native object": once a panic marked a handle,
\* no Close, no last call out and no cleanup destroys what is behind it.
PoisonedNeverDestroyed ==
  [][\A h \in Handles : poison[h] => native'[h] = native[h]]_vars

\* A closed handle's object and tokens are eventually released by whoever
\* leaves last; only an object a panic left in an unknown state leaks.
ClosedEventuallyReleased ==
  \A h \in Handles \ Views :
    closed[h] ~> (native[h] = "freed" \/ poison[h]) /\ ~tokens[h]

-----------------------------------------------------------------------------
(* The lifecycle implements its contract.                                  *)

\* The handle whose object a handle's object lives inside: a child made
\* through views belongs to the handle that owns them.
OwnerOf[h \in Handles] == IF h \in Views THEN OwnerOf[Creator[h]] ELSE h
HolderOf(h) == IF h \in Dependents THEN OwnerOf[Creator[h]] ELSE NoHandle

Objects == Handles \ Views

InsideOf(t) ==
  IF pc[t] \in {"native", "poison"}
  THEN {h \in Objects : \E p \in pins : p[1] = t /\ p[3] = h}
  ELSE {}

Contract == INSTANCE HandleContract WITH
  Holder   <- [h \in Objects |-> HolderOf(h)],
  NoObject <- NoHandle,
  object   <- [h \in Objects |-> native[h]],
  inside   <- [t \in Threads |-> InsideOf(t)],
  broken   <- {h \in Objects : poison[h]},
  closed   <- {h \in Objects : closed[h]},
  forsaken <- swept \intersect Objects

\* Every behaviour of the lifecycle is one the contract allows.
ImplementsContract == Contract!Spec
=============================================================================

--------------------------- MODULE RetainedCallback ---------------------------
(***************************************************************************)
(* What the generated wrappers of src/src/gen/emit/public.zig do with the  *)
(* callback tokens of one handle: a constructor and a setter that register *)
(* a callback the native object keeps, a method that runs the kept ones, a *)
(* function with a call-scoped callback, and Close. The tokens live in     *)
(* CallbackRegistry.                                                       *)
(*                                                                         *)
(* The native object is external. It invokes the tokens it holds inside a  *)
(* call or from a thread of its own, and keeps to the documented contract: *)
(* no new invocation of a callback it replaced, or once it is destroyed.   *)
(* Of the handle's lifecycle (HandleLifecycle) only the count of calls and *)
(* the closed flag are kept.                                               *)
(***************************************************************************)
EXTENDS CallbackRegistry, Sequences

CONSTANTS
  Operations,  \* which of "new", "set", "run", "apply" and "close" are called
  Reentry,     \* which of them a callback calls while it is running
  MaxCalls     \* bound on what one native call invokes on its own goroutine

ASSUME OperationsAssumption ==
  /\ Operations \subseteq {"new", "set", "run", "apply", "close"}
  /\ Reentry \subseteq Operations
  /\ MaxCalls \in Nat

\* Every retaining parameter has a slot of its own in the handle.
Slots == {"new", "set"}
SlotOrder == <<"new", "set">>

VARIABLES
  \* The Go handle: whether it was made, its lifecycle fields, its slots.
  made, calls, closed, taken, slot,
  \* The native object and the token it invokes for each slot.
  object, held,
  \* A goroutine: where it is, its operation, the token of its parameter, the
  \* status of its native call, how often that call invoked a callback here,
  \* the slots left to sweep, and the tokens left to delete.
  pc, op, own, failed, invoked, sweep, doomed,
  \* The goroutine that stands for the operation a running callback calls.
  inner,
  \* History: the panics a goroutine's native call owes its caller, and the
  \* tokens a constructor panicked away from.
  owed, stranded

handle     == <<made, calls, closed, taken, slot>>
nativeVars == <<object, held>>
locals     == <<op, own, failed, invoked, sweep, doomed>>
history    == <<owed, stranded>>
vars == <<registryVars, handle, nativeVars, pc, locals, inner, history>>

\* The handle is still to be made, or was made by a constructor that takes no
\* callback.
Init ==
  /\ RegistryInit
  /\ made \in BOOLEAN /\ ("new" \notin Operations => made)
  /\ object = IF made THEN "live" ELSE "none"
  /\ calls = 0 /\ closed = FALSE /\ taken = FALSE
  /\ slot = [s \in Slots |-> NoToken] /\ held = [s \in Slots |-> NoToken]
  /\ pc = [t \in Clients |-> "idle"] /\ op = [t \in Clients |-> "none"]
  /\ own = [t \in Clients |-> NoToken] /\ failed = [t \in Clients |-> FALSE]
  /\ invoked = [t \in Clients |-> 0]
  /\ sweep = [t \in Clients |-> <<>>] /\ doomed = [t \in Clients |-> <<>>]
  /\ inner = [a \in Callers |-> "none"]
  /\ owed = [t \in Clients |-> {}] /\ stranded = {}

-----------------------------------------------------------------------------
Goto(t, label) == pc' = [pc EXCEPT ![t] = label]

\* Goroutine t is at a label with no registry call of its own under way.
At(t, label) == pc[t] = label /\ Free(t)

Retains(t)  == op[t] \in Slots
OnHandle(t) == op[t] \in {"set", "run"}

\* What a call sweeps: the token of its own parameter, then the receiver's slots.
Sources(t) ==
  (IF own[t] = NoToken THEN <<>> ELSE <<"own">>) \o (IF OnHandle(t) THEN SlotOrder ELSE <<>>)

\* The slot is read, under the handle's mutex, only when its turn comes.
TokenOf(t, source) == IF source = "own" THEN own[t] ELSE slot[source]

-----------------------------------------------------------------------------
(* Operations begin.                                                       *)

\* Every operation that is on its way to register a token finds one left.
TokenLeft == issued + Cardinality({u \in Clients : pc[u] = "register"}) < MaxToken

\* The operations that count as a call on the handle.
Pins(o) == o \in {"set", "run"}

\* The handle checks run before any callback handle is registered: a closed
\* handle is answered with its error.
Begin(t, o) ==
  /\ o \in Operations /\ At(t, "idle")
  /\ CASE o = "new"   -> object = "none" /\ TokenLeft /\ \A u \in Clients : op[u] # "new"
       [] o = "apply" -> TokenLeft
       [] o = "set"   -> made /\ ~closed /\ TokenLeft
       [] o = "run"   -> made /\ ~closed
       [] o = "close" -> made /\ ~closed
  /\ op' = [op EXCEPT ![t] = o]
  /\ calls' = IF Pins(o) THEN calls + 1 ELSE calls
  /\ closed' = (closed \/ o = "close")
  \* Close itself releases when no call is inside native.
  /\ taken' = (taken \/ (o = "close" /\ calls = 0))
  /\ Goto(t, CASE o \in {"new", "set", "apply"} -> "register"
               [] o = "run" -> "native"
               [] o = "close" /\ calls = 0 -> "deinit"
               [] OTHER -> "cleanup")
  /\ UNCHANGED <<registryVars, made, slot, nativeVars, own, failed, invoked, sweep, doomed,
                 history>>

Call(t) == (\E o \in Operations : Begin(t, o)) /\ UNCHANGED inner

\* A running callback calls the binding: goroutine t stands for the inner
\* call, and the callback does not end before it does. One call each.
Reenter(a, t) ==
  /\ frame[a] = "run" /\ inner[a] = "none" /\ a # t
  /\ \E o \in Reentry : Begin(t, o)
  /\ inner' = [inner EXCEPT ![a] = t]

\* The token of the callback parameter.
Register(t) ==
  /\ At(t, "register")
  /\ NewCallbackHandle /\ UNCHANGED jobs
  /\ own' = [own EXCEPT ![t] = issued + 1]
  /\ Goto(t, "native")
  /\ UNCHANGED <<handle, nativeVars, op, failed, invoked, sweep, doomed, inner, history>>

-----------------------------------------------------------------------------
(* The native call (external).                                             *)

\* The callbacks native code can reach inside the call of goroutine t.
Reachable(t) ==
  ({own[t]} \union IF OnHandle(t) THEN {held[s] : s \in Slots} ELSE {}) \ {NoToken}

NativeInvokesInside(t) ==
  /\ At(t, "native") /\ invoked[t] < MaxCalls
  /\ \E k \in Reachable(t) : Invoke(t, k)
  /\ invoked' = [invoked EXCEPT ![t] = @ + 1]
  /\ UNCHANGED <<handle, nativeVars, pc, op, own, failed, sweep, doomed, inner, history>>

\* A thread of the native library invokes a callback the object holds. An idle
\* goroutine may play that thread.
NativeInvokesOutside(a) ==
  /\ object = "live" /\ (a \in Clients => At(a, "idle"))
  /\ \E s \in Slots : held[s] # NoToken /\ Invoke(a, held[s])
  /\ UNCHANGED <<handle, nativeVars, pc, locals, inner, history>>

\* The constructor's object, or the setter's, takes the callback over.
NativeTakesToken(t) ==
  /\ At(t, "native") /\ Retains(t) /\ held[op[t]] # own[t]
  /\ held' = [held EXCEPT ![op[t]] = own[t]]
  /\ object' = "live"
  /\ UNCHANGED <<registryVars, handle, pc, locals, inner, history>>

\* A retaining call fails exactly when native code took nothing over.
NativeReturns(t) ==
  /\ At(t, "native")
  /\ \E e \in BOOLEAN :
       /\ Retains(t) => e = (held[op[t]] # own[t])
       /\ failed' = [failed EXCEPT ![t] = e]
  /\ invoked' = [invoked EXCEPT ![t] = 0]
  /\ Goto(t, "pending")
  /\ UNCHANGED <<registryVars, handle, nativeVars, op, own, sweep, doomed, inner, history>>

-----------------------------------------------------------------------------
(* After the native call: panics, then errors, then the status.            *)

\* One atomic load decides whether the slots are swept for panics at all.
PanicPending(t) ==
  /\ At(t, "pending")
  /\ sweep' = [sweep EXCEPT ![t] = Sources(t)]
  /\ Goto(t, IF pendingCallbackPanics # 0 THEN "panics" ELSE "errors")
  /\ EndJob(t, FALSE)
  /\ UNCHANGED <<issued, registered, entries, counters, frames, handle, nativeVars, op, own,
                 failed, invoked, doomed, inner, history>>

\* The body is over: the deferred calls run, with these tokens to delete first.
Defer(t, tokens) ==
  /\ Goto(t, "dispose")
  /\ doomed' = [doomed EXCEPT ![t] = tokens]
  /\ own' = [own EXCEPT ![t] = NoToken]
  /\ failed' = [failed EXCEPT ![t] = FALSE]
  /\ sweep' = [sweep EXCEPT ![t] = <<>>]

\* The call is given up: its own token goes, then its hold on the handle.
Abandon(t) == Defer(t, <<own[t]>>)

\* The next source, or the end of the sweep.
SweepOn(t, find, next) ==
  /\ ~took[t]
  /\ IF sweep[t] # <<>>
     THEN /\ StartTake(t, find, TokenOf(t, Head(sweep[t])))
          /\ sweep' = [sweep EXCEPT ![t] = Tail(@)]
          /\ UNCHANGED pc
     ELSE /\ Goto(t, next)
          /\ sweep' = [sweep EXCEPT ![t] = IF next = "errors" THEN Sources(t) ELSE <<>>]
          /\ UNCHANGED jobs

SweepPanics(t) ==
  /\ At(t, "panics") /\ SweepOn(t, "findPanic", "errors")
  /\ UNCHANGED <<issued, registered, entries, counters, frames, handle, nativeVars, op, own,
                 failed, invoked, doomed, inner, history>>

\* The panic resumes: deferred calls run, but a constructor has deferred none.
Rethrow(t) ==
  /\ At(t, "panics") /\ took[t]
  /\ IF op[t] = "new"
     THEN Defer(t, <<>>) /\ stranded' = stranded \union {own[t]}
     ELSE Abandon(t) /\ UNCHANGED stranded
  /\ UNCHANGED <<registryVars, handle, nativeVars, op, invoked, inner, owed>>

SweepErrors(t) ==
  /\ At(t, "errors") /\ SweepOn(t, "findErr", "status")
  /\ UNCHANGED <<issued, registered, entries, counters, frames, handle, nativeVars, op, own,
                 failed, invoked, doomed, inner, history>>

\* An error, the callback's or native code's, ends the call.
ReturnError(t) ==
  /\ \/ At(t, "errors") /\ took[t]
     \/ At(t, "status") /\ failed[t]
  /\ Abandon(t)
  /\ UNCHANGED <<registryVars, handle, nativeVars, op, invoked, inner, history>>

\* Mutant: the displaced token is forgotten.
LeftOverForgets(t) == IF Retains(t) THEN <<>> ELSE <<own[t]>>

\* Mutant: the deferred deletion does not learn that the token was adopted.
LeftOverAdopted(t) ==
  CASE op[t] = "new" -> <<>>
    [] op[t] = "set" -> <<slot["set"], own[t]>>
    [] OTHER         -> <<own[t]>>

\* What a successful call deletes: a setter the token it displaced, a call with
\* a call-scoped callback its own.
LeftOver(t) ==
  CASE op[t] = "new" -> <<>>
    [] op[t] = "set" -> <<slot["set"]>>
    [] OTHER         -> <<own[t]>>

\* The constructor's handle takes the token, the setter swaps it in under the
\* handle's mutex.
Succeed(t) ==
  /\ At(t, "status") /\ ~failed[t]
  /\ made' = (made \/ op[t] = "new")
  /\ slot' = IF Retains(t) THEN [slot EXCEPT ![op[t]] = own[t]] ELSE slot
  /\ Defer(t, LeftOver(t))
  /\ UNCHANGED <<registryVars, calls, closed, taken, nativeVars, op, invoked, inner, history>>

-----------------------------------------------------------------------------
(* Letting go.                                                             *)

\* One deletion after another; each waits for the invocations inside.
DeleteNext(t) ==
  /\ (At(t, "dispose") \/ At(t, "cleanup")) /\ doomed[t] # <<>>
  /\ StartDelete(t, Head(doomed[t]))
  /\ doomed' = [doomed EXCEPT ![t] = Tail(@)]
  /\ UNCHANGED <<issued, registered, entries, counters, frames, handle, nativeVars, pc, op,
                 own, failed, invoked, sweep, inner, history>>

\* The last call out of a closed handle releases its resources.
Release(t) ==
  /\ At(t, "dispose") /\ doomed[t] = <<>> /\ OnHandle(t)
  /\ calls' = calls - 1
  /\ taken' = (taken \/ (closed /\ calls = 1))
  /\ Goto(t, IF closed /\ calls = 1 /\ ~taken THEN "deinit" ELSE "cleanup")
  /\ UNCHANGED <<registryVars, made, closed, slot, nativeVars, locals, inner, history>>

\* The object is destroyed before the tokens it could still invoke are deleted.
Deinit(t) ==
  /\ At(t, "deinit")
  /\ object' = "freed"
  /\ doomed' = [doomed EXCEPT ![t] = <<slot["new"], slot["set"]>>]
  /\ Goto(t, "cleanup")
  /\ UNCHANGED <<registryVars, handle, held, op, own, failed, invoked, sweep, inner, history>>

\* The operation returns. A panic the registry still keeps is left to the next
\* call that reaches its token.
Return(t) ==
  /\ At(t, "cleanup") \/ (At(t, "dispose") /\ ~OnHandle(t))
  /\ doomed[t] = <<>>
  /\ Goto(t, "idle")
  /\ op' = [op EXCEPT ![t] = "none"]
  /\ inner' = [a \in Callers |-> IF inner[a] = t THEN "over" ELSE inner[a]]
  /\ owed' = [owed EXCEPT ![t] = @ \ registered]
  /\ EndJob(t, FALSE)
  /\ UNCHANGED <<issued, registered, entries, counters, frames, handle, nativeVars, own,
                 failed, invoked, sweep, doomed, stranded>>

-----------------------------------------------------------------------------
(* The registry at work below the wrappers.                                *)

\* A panic recorded inside a goroutine's native call is owed to its caller, and
\* whoever takes it pays.
Below(RegistryAction) ==
  /\ RegistryAction
  /\ owed' = [t \in Clients |->
                (owed[t] \union IF pc[t] = "native" /\ frame[t] = "record" /\ frame'[t] # "record"
                                THEN {userdata[t]} ELSE {})
                \ {k \in Tokens : panicked[k] /\ ~panicked'[k]}]
  /\ inner' = [a \in Callers |-> IF frame'[a] = "out" THEN "none" ELSE inner[a]]
  /\ UNCHANGED <<handle, nativeVars, pc, locals, stranded>>

JobBelow(t) == Below(JobStep(t))

\* A callback ends when the operation it called is over.
FrameBelow(a) == Below(Dispatch(a) \/ (inner[a] \notin Clients /\ CallbackEnds(a)))

Step(t) ==
  \/ Register(t) \/ NativeReturns(t) \/ PanicPending(t) \/ SweepPanics(t) \/ Rethrow(t)
  \/ SweepErrors(t) \/ ReturnError(t) \/ Succeed(t) \/ DeleteNext(t) \/ Release(t)
  \/ Deinit(t) \/ Return(t)

AllRest ==
  /\ \A t \in Clients : At(t, "idle")
  /\ UNCHANGED vars

Next ==
  \/ \E t \in Clients : Call(t) \/ Step(t) \/ NativeInvokesInside(t) \/ NativeTakesToken(t)
  \/ \E a \in Callers : NativeInvokesOutside(a) \/ \E t \in Clients : Reenter(a, t)
  \/ \E t \in Clients : JobBelow(t)
  \/ \E a \in Callers : FrameBelow(a)
  \/ AllRest

Spec == Init /\ [][Next]_vars

\* Goroutines and native threads are scheduled, native calls return, and so do
\* Go callbacks. Nobody has to call anything.
FairSpec ==
  /\ Spec
  /\ \A t \in Clients : WF_vars(Step(t)) /\ WF_vars(JobBelow(t))
  /\ \A a \in Callers : WF_vars(FrameBelow(a))

-----------------------------------------------------------------------------
(* What must hold.                                                         *)

\* The handle never keeps a token that is deleted, or about to be: what a slot
\* names can be invoked and swept until the handle's resources are released.
SlotTokenRegistered ==
  made /\ ~taken =>
    \A s \in Slots : slot[s] # NoToken =>
      /\ slot[s] \in registered
      /\ \A t \in Clients : job[t] = "delete" => target[t] # slot[s]

\* The tokens the slots of a handle not yet freed name.
SlotTokens == IF taken THEN {} ELSE {slot[s] : s \in Slots} \ {NoToken}

\* "every token must drain" (registry_test.go:13): with all operations over,
\* exactly the tokens of the slots are registered, and none once the handle is
\* closed.  Where a constructor takes a callback, its panic breaks it.
TokensDrain ==
  (\A t \in Clients : At(t, "idle")) => registered = SlotTokens

\* With all operations over, whichever of them failed, panicked or raced with
\* Close, what is registered beside the tokens of the slots are those of
\* constructors that rethrew their callback's panic, which leak; and a closed
\* handle is freed.
OnlyPanickedConstructorsLeak ==
  (\A t \in Clients : At(t, "idle")) =>
    /\ registered = stranded \union SlotTokens
    /\ closed => object = "freed"

\* No operation waits for ever: replacing or closing waits for the callbacks
\* that run, and these end.
EveryOperationReturns ==
  \A t \in Clients : pc[t] # "idle" ~> pc[t] = "idle"

\* "A panic in a Go callback is rethrown as *CallbackPanicError once the native
\* call that ran the callback returns": when an operation is over, no panic
\* recorded inside its native call has gone without anybody rethrowing it.
PanicsRethrown ==
  \A t \in Clients : At(t, "idle") => owed[t] = {}

\* A callback the native object keeps is in the registry as long as the handle
\* lives.
NativeHoldsLiveToken ==
  object = "live" /\ (\A t \in Clients : At(t, "idle")) =>
    \A s \in Slots : held[s] # NoToken => held[s] \in registered
=============================================================================

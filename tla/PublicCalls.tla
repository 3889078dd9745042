------------------------------ MODULE PublicCalls ------------------------------
(***************************************************************************)
(* One call of a generated public function or method, from its first check *)
(* to the end of its deferred functions, as the *_gen.go files of the      *)
(* example packages spell it out for every operation.                      *)
(*                                                                         *)
(* Every such function has the same skeleton: some checks and acquisitions *)
(* in the order of its parameters, each with a deferred release; one raw   *)
(* call; a sweep for the panics and then for the errors callbacks raised   *)
(* during it; the native status; the result.  What differs from function   *)
(* to function is data, a CallShape: the modules PublicCallTables* give    *)
(* the shape of every function of the examples.                            *)
(*                                                                         *)
(* One goroutine calls.  Others close the handles it uses and cancel its   *)
(* context at any moment; how two calls count each other in and out is     *)
(* HandleLifecycle's business.                                             *)
(***************************************************************************)
EXTENDS Integers, FiniteSets, Sequences

-----------------------------------------------------------------------------
(* The shapes of the generated functions.                                  *)

\* A step of the prologue: `kind` says what the code does.  The other two are
\* facts of the argument's type: whether native code can run callbacks through
\* it, the callback itself or those its handle retains, and whether these may
\* return an error; any callback may panic.
StepOf(kind, calls, fails) == [kind |-> kind, calls |-> calls, fails |-> fails]

\* Handles: zigoCheckedPointer, zigoOptionalPointer, zigoAcquireChild.
Pin           == StepOf("pin", FALSE, FALSE)
PinKeeping    == StepOf("pin", TRUE, FALSE)
PinFallible   == StepOf("pin", TRUE, TRUE)
OptKeeping    == StepOf("opt", TRUE, FALSE)
OptFallible   == StepOf("opt", TRUE, TRUE)
Child         == StepOf("child", FALSE, FALSE)
ChildKeeping  == StepOf("child", TRUE, FALSE)
\* Callbacks and streams: the nil check; a token deleted when the call ends, a
\* token a constructor hands to the new handle, a token a setter adopts.
NonNil        == StepOf("nonnil", FALSE, FALSE)
Lend          == StepOf("lend", TRUE, FALSE)
LendFallible  == StepOf("lend", TRUE, TRUE)
Keep          == StepOf("keep", TRUE, FALSE)
KeepFallible  == StepOf("keep", TRUE, TRUE)
Offer         == StepOf("offer", TRUE, FALSE)
\* A cancellation flag, its link to the token, a scratch buffer, a range check.
Cancellable   == StepOf("cancel", FALSE, FALSE)
Trip          == StepOf("trip", FALSE, FALSE)
Scratch       == StepOf("scratch", FALSE, FALSE)
InRange       == StepOf("range", FALSE, FALSE)

\* A function whose native call returns a status, and one whose does not.
Checked(steps, gives) == [steps |-> steps, coded |-> TRUE, gives |-> gives]
Plain(steps, gives)   == [steps |-> steps, coded |-> FALSE, gives |-> gives]

\* The functions named in `names`, all of this shape.
Like(names, shape) == [n \in names |-> shape]

StepKinds == {"pin", "opt", "child", "nonnil", "lend", "keep", "offer",
              "cancel", "trip", "scratch", "range"}
CallShapes ==
  [steps : Seq([kind : StepKinds, calls : BOOLEAN, fails : BOOLEAN]),
   coded : BOOLEAN,
   gives : {"value", "handle", "child", "view", "buffer"}]

CONSTANTS
  CallShapesUsed,  \* the shapes of the functions the program may call
  PassedHandles,   \* the handles the program passes
  CallTokens,      \* callback tokens; a deleted one may be drawn again
  NoToken,
  MaxLost          \* bound on the native objects calls may lose

HandleSteps == {"pin", "opt", "child"}
TokenSteps  == {"lend", "keep", "offer"}
PositionsIn(s, kinds) == {p \in DOMAIN s.steps : s.steps[p].kind \in kinds}

\* What the actions take for granted of a function, as the generator lays it
\* out.  A constructor of children begins with its parent, which no other
\* function reserves a place in; a setter begins with its receiver, of a type
\* that retains callbacks, and returns no handle.  Nothing that may refuse comes
\* after a token, so that an early return cannot strand one.
WellShaped(s) ==
  /\ \A p \in DOMAIN s.steps : s.steps[p].kind = "child" => p = 1
  /\ s.gives = "child" <=> 1 \in PositionsIn(s, {"child"})
  /\ PositionsIn(s, {"offer"}) # {} =>
       /\ 1 \in PositionsIn(s, {"pin"}) /\ s.steps[1].calls
       /\ s.gives \notin {"handle", "child"}
  /\ PositionsIn(s, {"keep"}) # {} => s.gives \in {"handle", "child"}
  /\ \A p \in PositionsIn(s, TokenSteps), q \in DOMAIN s.steps :
       p < q => s.steps[q].kind \notin HandleSteps \union {"nonnil", "range"}

\* What the functions of the examples have in common beside that: one callback
\* at most is retained, and none can run inside a call that returns a buffer.
AsInTheExamples(s) ==
  /\ \A p, q \in PositionsIn(s, {"keep", "offer"}) : p = q
  /\ s.gives = "buffer" =>
       /\ PositionsIn(s, TokenSteps) = {}
       /\ \A p \in DOMAIN s.steps : ~s.steps[p].calls /\ ~s.steps[p].fails

ASSUME CallsAssumption ==
  /\ CallShapesUsed \subseteq CallShapes
  /\ \A s \in CallShapesUsed : WellShaped(s) /\ AsInTheExamples(s)
  /\ NoToken \notin CallTokens /\ MaxLost \in Nat
  /\ IsFiniteSet(PassedHandles) /\ IsFiniteSet(CallTokens)
  /\ {"nil", "none"} \intersect PassedHandles = {}

VARIABLES
  \* The handles: calls counted in, children counted in, closed, poisoned,
  \* natively destroyed, and the token in the slot a setter replaces.
  pinned, offspring, shut, spoiled, destroyed, slot,
  \* The callback registry: tokens that exist, and the panic and the error each
  \* keeps until somebody takes it.
  alive, kept,
  \* The call: its shape, the program counter, the next step, the arguments,
  \* the tokens and defers so far, the status, the answer.
  shape, phase, step, passed, drawn, defers, status, answer,
  \* Cancellation: the context is done, AfterFunc is armed, the flag, the
  \* token linked to the flag.
  ctxDone, armed, flag, linked,
  \* The result: a native object or buffer nobody has taken over yet, and the
  \* handle the program got from its last constructor.
  object, buffer, lent, given,
  \* History: a callback of an argument failed during the call, or had failed
  \* before it; tokens and objects lost for good.
  callbackFailed, lostTokens, lostObjects

handleVars == <<pinned, offspring, shut, spoiled, destroyed, slot>>
registryVars == <<alive, kept>>
frameVars  == <<shape, passed>>
cancelVars == <<armed, flag, linked>>
resultVars == <<object, buffer, lent, given>>
lossVars   == <<lostTokens, lostObjects>>
callVars ==
  <<handleVars, registryVars, frameVars, phase, step, drawn, defers, status,
    answer, ctxDone, cancelVars, resultVars, callbackFailed, lossVars>>

None == [object |-> FALSE, token |-> NoToken, parent |-> "none"]
Idle == Plain(<<>>, "value")

CallInit ==
  /\ pinned = [h \in PassedHandles |-> 0] /\ offspring = [h \in PassedHandles |-> 0]
  /\ shut = {} /\ spoiled = {} /\ destroyed = {}
  /\ slot = [h \in PassedHandles |-> NoToken]
  /\ alive = {} /\ kept = [t \in CallTokens |-> {}]
  /\ shape = Idle /\ phase = "idle" /\ step = 0
  /\ passed = <<>> /\ drawn = <<>> /\ defers = <<>>
  /\ status = "ok" /\ answer = "none"
  /\ ctxDone = FALSE /\ armed = FALSE /\ flag = FALSE /\ linked = NoToken
  /\ object = FALSE /\ buffer = "none" /\ lent = FALSE /\ given = None
  /\ callbackFailed = FALSE /\ lostTokens = {} /\ lostObjects = 0

-----------------------------------------------------------------------------
(* Shared by the actions.                                                  *)

Steps == shape.steps
AtStep(kinds) ==
  phase = "prologue" /\ step \in DOMAIN Steps /\ Steps[step].kind \in kinds
NextStep == step' = step + 1 /\ UNCHANGED phase
Positions(kinds) == PositionsIn(shape, kinds)

\* One argument or token more.
With(f, p, v) == [q \in DOMAIN f \union {p} |-> IF q = p THEN v ELSE f[q]]

Defer(action) == defers' = Append(defers, [do |-> action, at |-> step])

\* An early return: the deferred functions run.
Leave(with) == answer' = with /\ phase' = "unwind"

Usable(h) == h \notin shut \union spoiled
PassedTo(positions) == {passed[p] : p \in positions \intersect DOMAIN passed} \ {"nil"}

\* The tokens of a call's handles' slots, and of the handle last given.
OwnedTokens == {slot[h] : h \in PassedHandles} \union {given.token}

\* The tokens a constructor keeps for its handle.
KeptTokens == {drawn[p] : p \in Positions({"keep"}) \intersect DOMAIN drawn}

\* Deletion of a token forgets what it keeps.
Delete(tokens) ==
  /\ alive' = alive \ tokens
  /\ kept' = [t \in CallTokens |-> IF t \in tokens THEN {} ELSE kept[t]]

\* Mutant: one call more may be inside.
LastCallButOne(h, leaving) == pinned[h] <= leaving + 1

\* zigoTakeLocked: `leaving` is 1 for the call that is about to count itself out.
LastCall(h, leaving) == pinned[h] = leaving

\* What is left of a closed handle no call is inside of: its tokens go, and its
\* native object unless a panic left that half-changed.
Reap(h) ==
  /\ destroyed' = IF h \in spoiled THEN destroyed ELSE destroyed \union {h}
  /\ slot' = [slot EXCEPT ![h] = NoToken]
  /\ Delete({slot[h]})

-----------------------------------------------------------------------------
(* The prologue, in the order of the code.                                 *)

\* Bounds: the program has closed the handle its last constructor gave it, or
\* keeps it if that is a child and makes no other; tokens are left for every
\* callback of the call; and a handle that was closed before the call is one
\* closed before its first step.
BeginCall ==
  /\ phase = "idle" /\ lostObjects < MaxLost /\ shut = {}
  /\ given.parent = "none" => given = None
  /\ \E s \in CallShapesUsed :
       /\ s.gives \in {"handle", "child"} => given = None
       /\ Cardinality(PositionsIn(s, TokenSteps))
            <= Cardinality(CallTokens \ alive)
       /\ shape' = s
       /\ \/ ctxDone' = FALSE
          \/ ctxDone' = TRUE /\ PositionsIn(s, {"cancel"}) # {}
  /\ phase' = "prologue" /\ step' = 1
  /\ UNCHANGED <<handleVars, registryVars, passed, drawn, defers, status, answer,
                 cancelVars, resultVars, callbackFailed, lossVars>>

\* zigoCheckedPointer, zigoOptionalPointer, zigoAcquireChild and the release
\* each defers.  A handle that has a callback is of a type that retains them.
Acquire ==
  /\ AtStep(HandleSteps)
  /\ \E h \in {g \in PassedHandles : Usable(g)} :
       /\ slot[h] # NoToken => Steps[step].calls
       /\ passed' = With(passed, step, h)
       /\ pinned' = [pinned EXCEPT ![h] = @ + 1]
       /\ IF Steps[step].kind = "child"
          THEN /\ offspring' = [offspring EXCEPT ![h] = @ + 1]
               /\ defers' = defers \o <<[do |-> "dropChild", at |-> step],
                                       [do |-> "release", at |-> step]>>
          ELSE Defer("release") /\ UNCHANGED offspring
  /\ NextStep
  /\ UNCHANGED <<shut, spoiled, destroyed, slot, registryVars, shape, drawn, status,
                 answer, ctxDone, cancelVars, resultVars, callbackFailed, lossVars>>

\* An optional handle that is absent: nothing is counted in, and the deferred
\* release does nothing.
PassNothing ==
  /\ AtStep({"opt"})
  /\ passed' = With(passed, step, "nil")
  /\ NextStep
  /\ UNCHANGED <<handleVars, registryVars, shape, drawn, defers, status, answer, ctxDone,
                 cancelVars, resultVars, callbackFailed, lossVars>>

\* A handle that is nil, closed or poisoned; a nil callback or stream; a value
\* out of range.
Refuse ==
  /\ \/ /\ AtStep(HandleSteps)
        /\ Steps[step].kind # "opt" \/ \E h \in PassedHandles : ~Usable(h)
        /\ Leave("refused")
     \/ AtStep({"nonnil"}) /\ Leave("nil")
     \/ AtStep({"range"}) /\ Leave("range")
  /\ UNCHANGED <<handleVars, registryVars, frameVars, step, drawn, defers, status, ctxDone,
                 cancelVars, resultVars, callbackFailed, lossVars>>

PassCheck ==
  /\ AtStep({"nonnil", "range"})
  /\ NextStep
  /\ UNCHANGED <<handleVars, registryVars, frameVars, drawn, defers, status, answer, ctxDone,
                 cancelVars, resultVars, callbackFailed, lossVars>>

\* zigoNew...Handle, with the deferred deletion of a borrowed callback, the
\* conditional one of a setter, and none in a constructor.  Which free token is
\* drawn tells nothing apart.
DrawToken ==
  /\ AtStep(TokenSteps)
  /\ LET t == CHOOSE u \in CallTokens \ alive : TRUE IN
       /\ alive' = alive \union {t}
       /\ drawn' = With(drawn, step, t)
  /\ CASE Steps[step].kind = "lend"  -> Defer("delete")
       [] Steps[step].kind = "offer" -> Defer("unoffer")
       [] OTHER -> UNCHANGED defers
  /\ NextStep
  /\ UNCHANGED <<handleVars, kept, frameVars, status, answer, ctxDone, cancelVars,
                 resultVars, callbackFailed, lossVars>>

\* The cancellation flag: set at once for a context that is already done,
\* otherwise by context.AfterFunc until the deferred stop.
Watch ==
  /\ AtStep({"cancel"})
  /\ IF ctxDone THEN flag' = TRUE /\ UNCHANGED <<armed, defers>>
     ELSE armed' = TRUE /\ Defer("disarm") /\ UNCHANGED flag
  /\ NextStep
  /\ UNCHANGED <<handleVars, registryVars, frameVars, drawn, status, answer, ctxDone, linked,
                 resultVars, callbackFailed, lossVars>>

\* setCallbackCancel: a failing callback is to trip the flag.
Link ==
  /\ AtStep({"trip"})
  /\ linked' = drawn[step - 1]
  /\ Defer("unlink")
  /\ NextStep
  /\ UNCHANGED <<handleVars, registryVars, frameVars, drawn, status, answer, ctxDone, armed,
                 flag, resultVars, callbackFailed, lossVars>>

TakeScratch ==
  /\ AtStep({"scratch"})
  /\ lent' = TRUE
  /\ Defer("give")
  /\ NextStep
  /\ UNCHANGED <<handleVars, registryVars, frameVars, drawn, status, answer, ctxDone, cancelVars,
                 object, buffer, given, callbackFailed, lossVars>>

-----------------------------------------------------------------------------
(* The raw call, and what runs beside it.                                  *)

\* The tokens native code reaches through an argument, and the arguments whose
\* callbacks may fail in this way.
TokensAt(p) ==
  (IF p \in DOMAIN drawn THEN {drawn[p]}
   ELSE {slot[h] : h \in PassedTo({p})}) \intersect alive
MayFail(how) ==
  {p \in DOMAIN Steps : Steps[p].calls /\ (how = "error" => Steps[p].fails)}
HowCallbacksFail == {"panic", "error"}

\* A failure an argument still keeps -- its callback ran under another call, or
\* on a thread of the library -- is this call's to report, as its next one.
StillKept ==
  \E how \in HowCallbacksFail : \E p \in MayFail(how) :
    \E t \in TokensAt(p) : how \in kept[t]

EnterNative ==
  /\ phase = "prologue" /\ step \notin DOMAIN Steps
  /\ phase' = "native"
  /\ callbackFailed' = StillKept
  /\ UNCHANGED <<handleVars, registryVars, frameVars, step, drawn, defers, status, answer,
                 ctxDone, cancelVars, resultVars, lossVars>>

\* A callback of an argument panics or returns an error: the dispatcher keeps
\* what it did in its token and trips the linked flag.
CallbackFails ==
  /\ phase = "native"
  /\ \E how \in HowCallbacksFail : \E p \in MayFail(how) : \E t \in TokensAt(p) :
       /\ kept' = [kept EXCEPT ![t] = @ \union {how}]
       /\ flag' = (flag \/ t = linked)
  /\ callbackFailed' = TRUE
  /\ UNCHANGED <<handleVars, alive, frameVars, phase, step, drawn, defers, status, answer,
                 ctxDone, armed, linked, resultVars, lossVars>>

\* A retained callback fails where the running call need not look, at any moment: on a
\* thread of the library, or under a call on a child of its handle, which is no argument
\* of that call.
RetainedCallbackFails ==
  /\ \E how \in HowCallbacksFail, h \in PassedHandles :
       /\ slot[h] # NoToken
       /\ kept' = [kept EXCEPT ![slot[h]] = @ \union {how}]
  /\ UNCHANGED <<handleVars, alive, frameVars, phase, step, drawn, defers, status, answer,
                 ctxDone, cancelVars, resultVars, callbackFailed, lossVars>>

Cancels == Positions({"cancel"}) # {}

ContextDone ==
  /\ phase \notin {"idle", "unwind"} /\ Cancels /\ ~ctxDone
  /\ ctxDone' = TRUE
  /\ UNCHANGED <<handleVars, registryVars, frameVars, phase, step, drawn, defers, status, answer,
                 cancelVars, resultVars, callbackFailed, lossVars>>

\* The goroutine of context.AfterFunc.
AfterFunc ==
  /\ armed /\ ctxDone
  /\ flag' = TRUE /\ armed' = FALSE
  /\ UNCHANGED <<handleVars, registryVars, frameVars, phase, step, drawn, defers, status, answer,
                 ctxDone, linked, resultVars, callbackFailed, lossVars>>

\* Native code fails only where it returns a status, and reports that it was
\* cancelled only after it has seen the flag.
NativeReturnsStatus ==
  /\ phase = "native"
  /\ status' \in {"ok"} \union (IF shape.coded THEN {"error", "panic"} ELSE {})
                        \union (IF Cancels /\ flag THEN {"cancelled"} ELSE {})
  /\ object' = (status' = "ok" /\ shape.gives \in {"handle", "child"})
  /\ buffer' = IF status' = "ok" /\ shape.gives = "buffer" THEN "held" ELSE "none"
  /\ phase' = "sweep"
  /\ UNCHANGED <<handleVars, registryVars, frameVars, step, drawn, defers, answer, ctxDone,
                 cancelVars, lent, given, callbackFailed, lossVars>>

-----------------------------------------------------------------------------
(* After the raw call.                                                     *)

\* What the wrapper looks at: its own tokens, and every slot of the handles it
\* was passed whose type retains callbacks; for errors, where there can be one.
SweptAt ==
  [p \in DOMAIN Steps |->
     IF p \in Positions(TokenSteps) \/ (p \in Positions(HandleSteps) /\ Steps[p].calls)
     THEN TokensAt(p) ELSE {}]
FallibleAt ==
  [p \in DOMAIN Steps |-> IF Steps[p].fails THEN SweptAt[p] ELSE {}]

\* Mutant: the slots of the handles are left out.
FailingOwn(how, tokensAt) ==
  {p \in Positions(TokenSteps) : \E t \in tokensAt[p] : how \in kept[t]}

\* The positions whose token keeps a failure of this kind.
Failing(how, tokensAt) ==
  {p \in DOMAIN Steps : \E t \in tokensAt[p] : how \in kept[t]}

\* The call's own tokens are swept first, then the slots of its handles.
SweptUpTo(p, q) ==
  LET own == Positions(TokenSteps) IN
    \/ p \in own /\ q \notin own
    \/ (p \in own <=> q \in own) /\ p <= q

\* The first position, in that order, whose token keeps a failure of this kind.
FirstWith(how, tokensAt) ==
  {p \in Failing(how, tokensAt) : \A q \in Failing(how, tokensAt) : SweptUpTo(p, q)}

\* Mutant: taking one kind of failure from a token clears the entry.
TakeAll(token, how) == [kept EXCEPT ![token] = {}]

\* zigoTakeCallbackPanic, zigoTakeCallbackError: taken once.
Take(token, how) == [kept EXCEPT ![token] = @ \ {how}]

\* zigoRethrowCallbackPanic: the first panic found is taken and rethrown.  A
\* constructor has deferred nothing for its token or for the object native code
\* may have made.
RethrowPanic ==
  /\ phase = "sweep"
  /\ \E p \in FirstWith("panic", SweptAt) : \E t \in SweptAt[p] : kept' = Take(t, "panic")
  /\ Leave("callbackPanic")
  /\ UNCHANGED <<handleVars, alive, frameVars, step, drawn, defers, status, ctxDone,
                 cancelVars, resultVars, callbackFailed, lossVars>>

NoPanicFound ==
  /\ phase = "sweep" /\ FirstWith("panic", SweptAt) = {}
  /\ phase' = "errors"
  /\ UNCHANGED <<handleVars, registryVars, frameVars, step, drawn, defers, status, answer,
                 ctxDone, cancelVars, resultVars, callbackFailed, lossVars>>

\* zigoCallbackError, zigoStreamError: the first error found is the answer.  A
\* constructor deletes its token; the object native code may have made is
\* neither given to a handle nor destroyed.
ReturnCallbackError ==
  /\ phase = "errors"
  /\ \E p \in FirstWith("error", FallibleAt) : \E t \in FallibleAt[p] :
       /\ alive' = alive \ KeptTokens
       /\ kept' = [u \in CallTokens |-> IF u \in KeptTokens THEN {} ELSE Take(t, "error")[u]]
  /\ Leave("callbackError")
  /\ UNCHANGED <<handleVars, frameVars, step, drawn, defers, status, ctxDone, cancelVars,
                 resultVars, callbackFailed, lossVars>>

NoErrorFound ==
  /\ phase = "errors" /\ FirstWith("error", FallibleAt) = {}
  /\ phase' = "status"
  /\ UNCHANGED <<handleVars, registryVars, frameVars, step, drawn, defers, status, answer,
                 ctxDone, cancelVars, resultVars, callbackFailed, lossVars>>

\* Mutant: only the first handle is poisoned.
PoisonedReceiver == PassedTo({1})

\* The handles zigoPoisonAfterPanic is given.
Poisoned == PassedTo(Positions(HandleSteps))

\* code != 0: a constructor deletes its token, a native panic poisons every
\* handle of the call, a cancellation is answered with the context's error.
ReturnStatus ==
  /\ phase = "status" /\ status # "ok"
  /\ Delete(KeptTokens)
  /\ spoiled' = IF status = "panic" THEN spoiled \union Poisoned ELSE spoiled
  /\ Leave(CASE status = "panic" -> "nativePanic"
             [] status = "cancelled" /\ ctxDone -> "ctx"
             [] status = "cancelled" /\ ~ctxDone -> "cancelled"
             [] OTHER -> "error")
  /\ UNCHANGED <<pinned, offspring, shut, destroyed, slot, frameVars, step, drawn, defers,
                 status, ctxDone, cancelVars, resultVars, callbackFailed, lossVars>>

StatusOk ==
  /\ phase = "status" /\ status = "ok"
  /\ phase' = "result"
  /\ UNCHANGED <<handleVars, registryVars, frameVars, step, drawn, defers, status, answer,
                 ctxDone, cancelVars, resultVars, callbackFailed, lossVars>>

\* zigoNew<Type>: the handle takes over the object, the token, the place.
GiveHandle ==
  /\ phase = "result" /\ shape.gives \in {"handle", "child"}
  /\ given' = [object |-> object,
               token  |-> IF KeptTokens = {} THEN NoToken ELSE CHOOSE t \in KeptTokens : TRUE,
               parent |-> IF shape.gives = "child" THEN passed[1] ELSE "none"]
  /\ object' = FALSE
  /\ Leave("ok")
  /\ UNCHANGED <<handleVars, registryVars, frameVars, step, drawn, defers, status, ctxDone,
                 cancelVars, buffer, lent, callbackFailed, lossVars>>

\* A setter publishes its token and deletes the one it displaced.
Adopt ==
  /\ phase = "result" /\ Positions({"offer"}) # {}
  /\ \E p \in Positions({"offer"}) :
       /\ slot' = [slot EXCEPT ![passed[1]] = drawn[p]]
       /\ Delete({slot[passed[1]]})
  /\ Leave("ok")
  /\ UNCHANGED <<pinned, offspring, shut, spoiled, destroyed, frameVars, step, drawn, defers,
                 status, ctxDone, cancelVars, resultVars, callbackFailed, lossVars>>

\* A buffer's release is deferred before it is decoded, so that a decoder that
\* panics releases it too; everything else is copied or returned as it is.
GiveValue ==
  /\ phase = "result" /\ Positions({"offer"}) = {} /\ shape.gives \in {"value", "view", "buffer"}
  /\ IF buffer = "held" THEN Defer("free") ELSE UNCHANGED defers
  /\ Leave("ok")
  /\ UNCHANGED <<handleVars, registryVars, frameVars, step, drawn, status, ctxDone,
                 cancelVars, resultVars, callbackFailed, lossVars>>

-----------------------------------------------------------------------------
(* The deferred functions, the last one first.                             *)

AtDefer(action) ==
  /\ phase = "unwind" /\ defers # <<>> /\ defers[Len(defers)].do = action
  /\ defers' = SubSeq(defers, 1, Len(defers) - 1)
DeferredAt == defers[Len(defers)].at

\* zigoRelease: the last call out of a closed handle reaps it.
RunRelease ==
  /\ AtDefer("release")
  /\ LET h == passed[DeferredAt] IN
       /\ pinned' = [pinned EXCEPT ![h] = @ - 1]
       /\ IF h \in shut /\ LastCall(h, 1) THEN Reap(h)
          ELSE UNCHANGED <<destroyed, slot, registryVars>>
  /\ UNCHANGED <<offspring, shut, spoiled, frameVars, phase, step, drawn, status, answer,
                 ctxDone, cancelVars, resultVars, callbackFailed, lossVars>>

\* Mutant: the place is kept as soon as native code has made the child.
KeepsPlaceEarly == status = "ok"

\* zigoChildCreated.
KeepsPlace == answer = "ok"

\* The place a constructor reserved goes unless the child was created.
RunDropChild ==
  /\ AtDefer("dropChild")
  /\ offspring' = IF KeepsPlace THEN offspring
                  ELSE [offspring EXCEPT ![passed[DeferredAt]] = @ - 1]
  /\ UNCHANGED <<pinned, shut, spoiled, destroyed, slot, registryVars, frameVars, phase, step,
                 drawn, status, answer, ctxDone, cancelVars, resultVars, callbackFailed, lossVars>>

\* A borrowed token, and a setter's that was not adopted.
RunDelete ==
  /\ \/ AtDefer("delete") /\ Delete({drawn[DeferredAt]})
     \/ AtDefer("unoffer") /\ Delete(IF answer = "ok" THEN {} ELSE {drawn[DeferredAt]})
  /\ UNCHANGED <<handleVars, frameVars, phase, step, drawn, status, answer, ctxDone, cancelVars,
                 resultVars, callbackFailed, lossVars>>

RunUnlink ==
  /\ \/ AtDefer("unlink") /\ linked' = NoToken /\ UNCHANGED <<armed, flag>>
     \/ AtDefer("disarm") /\ armed' = FALSE /\ UNCHANGED <<linked, flag>>
  /\ UNCHANGED <<handleVars, registryVars, frameVars, phase, step, drawn, status, answer, ctxDone,
                 resultVars, callbackFailed, lossVars>>

RunGive ==
  /\ \/ AtDefer("give") /\ lent' = FALSE /\ UNCHANGED buffer
     \/ AtDefer("free") /\ buffer' = "freed" /\ UNCHANGED lent
  /\ UNCHANGED <<handleVars, registryVars, frameVars, phase, step, drawn, status, answer, ctxDone,
                 cancelVars, object, given, callbackFailed, lossVars>>

AtReturn == phase = "unwind" /\ defers = <<>>

\* What exists and nothing owns: what the call leaves behind for good.
UnownedTokens == (alive \ OwnedTokens) \ lostTokens

\* The history notes what is lost.
ReturnFromCall ==
  /\ AtReturn
  /\ phase' = "idle" /\ step' = 0 /\ shape' = Idle /\ passed' = <<>> /\ drawn' = <<>>
  /\ status' = "ok" /\ answer' = "none" /\ ctxDone' = FALSE /\ flag' = FALSE
  /\ buffer' = IF buffer = "freed" THEN "none" ELSE buffer
  /\ callbackFailed' = FALSE
  /\ lostTokens' = lostTokens \union UnownedTokens
  /\ lostObjects' = lostObjects + (IF object THEN 1 ELSE 0) /\ object' = FALSE
  /\ UNCHANGED <<handleVars, registryVars, defers, armed, linked, lent, given>>

-----------------------------------------------------------------------------
(* Everybody else.                                                         *)

\* Another goroutine closes a handle; one with a child refuses.
CloseHandle ==
  /\ phase # "idle"
  /\ \E h \in PassedHandles \ shut :
       /\ offspring[h] = 0
       /\ shut' = shut \union {h}
       /\ IF LastCall(h, 0) THEN Reap(h) ELSE UNCHANGED <<destroyed, slot, registryVars>>
  /\ UNCHANGED <<pinned, offspring, spoiled, frameVars, phase, step, drawn, defers, status,
                 answer, ctxDone, cancelVars, resultVars, callbackFailed, lossVars>>

\* The program makes itself a new handle in the place of a closed one.
Renew ==
  /\ phase = "idle"
  /\ \E h \in shut :
       /\ shut' = shut \ {h} /\ spoiled' = spoiled \ {h} /\ destroyed' = destroyed \ {h}
  /\ UNCHANGED <<pinned, offspring, slot, registryVars, frameVars, phase, step, drawn, defers,
                 status, answer, ctxDone, cancelVars, resultVars, callbackFailed, lossVars>>

\* The program closes the handle its last constructor gave it.
CloseGiven ==
  /\ phase = "idle" /\ given # None
  /\ Delete({given.token})
  /\ offspring' = [h \in PassedHandles |-> offspring[h] - (IF h = given.parent THEN 1 ELSE 0)]
  /\ given' = None
  /\ UNCHANGED <<pinned, shut, spoiled, destroyed, slot, frameVars, phase, step, drawn, defers,
                 status, answer, ctxDone, cancelVars, object, buffer, lent, callbackFailed, lossVars>>

CallNext ==
  \/ BeginCall \/ Acquire \/ PassNothing \/ Refuse \/ PassCheck \/ DrawToken
  \/ Watch \/ Link \/ TakeScratch
  \/ EnterNative \/ CallbackFails \/ RetainedCallbackFails
  \/ ContextDone \/ AfterFunc \/ NativeReturnsStatus
  \/ RethrowPanic \/ NoPanicFound \/ ReturnCallbackError \/ NoErrorFound
  \/ ReturnStatus \/ StatusOk \/ GiveHandle \/ Adopt \/ GiveValue
  \/ RunRelease \/ RunDropChild \/ RunDelete \/ RunUnlink \/ RunGive \/ ReturnFromCall
  \/ CloseHandle \/ Renew \/ CloseGiven

CallSpec == CallInit /\ [][CallNext]_callVars

-----------------------------------------------------------------------------
(* Properties.                                                             *)

\* From the raw call to the result, every handle of the call is counted in as
\* often as it was passed and none has been destroyed, whoever closes it.
PassedStayPinned ==
  phase \in {"native", "sweep", "errors", "status", "result"} =>
    \A h \in PassedTo(DOMAIN passed) :
      /\ pinned[h] >= Cardinality({p \in DOMAIN passed : passed[p] = h})
      /\ h \notin destroyed

\* However a call ends -- refused half-way, unwound by a callback's panic, failed
\* natively -- it gives back what it took: when its deferred functions have run,
\* no call is counted, no place reserved but a child's, no buffer, loan or link
\* left, and no token but those of slots, of the handle it gave and of calls
\* before it.  There is one exception: a constructor given up over a callback's
\* failure leaves what native code made, and over a panic its token as well.
\* (Neither is meant: NothingIsLost.)
CallGivesBack ==
  AtReturn =>
    /\ \A h \in PassedHandles :
         /\ pinned[h] = 0
         /\ offspring[h] = IF given.parent = h THEN 1 ELSE 0
    /\ UnownedTokens = IF answer = "callbackPanic" THEN KeptTokens ELSE {}
    /\ object => shape.gives \in {"handle", "child"} /\ answer \in {"callbackPanic", "callbackError"}
    /\ linked = NoToken /\ ~armed /\ ~lent /\ buffer # "held"

\* "every token must drain" (registry_test.go:12-13), and "Go holds the native
\* object and returns it through the destructor" (10-ownership-model.md:75-76, in
\* Korean): no call ends with a token that is in no slot, or with an object that
\* no handle holds.  A constructor given up over a callback's failure does.
NothingIsLost == AtReturn => UnownedTokens = {} /\ ~object

\* A native panic poisons every handle of the call before the call lets go of
\* it, unless a callback of the call failed as well, which is what it then
\* answers; and nobody destroys what is poisoned.
PanicSpoilsUnlessMasked ==
  /\ AtReturn /\ status = "panic" =>
       \/ answer \in {"callbackPanic", "callbackError"}
       \/ PassedTo(DOMAIN passed) \subseteq spoiled
  /\ spoiled \intersect destroyed = {}

\* "a Zig panic unwound through native frames without running their defers, so
\* the state behind it is unknown" (handles.zig:165-166): after every native panic
\* the handles of the call are poisoned.  Not so when a callback failed too: the
\* sweeps leave before the status is looked at.
NativePanicSpoils ==
  AtReturn /\ status = "panic" => PassedTo(DOMAIN passed) \subseteq spoiled

\* What a callback of an argument did wrong, during the call or before it, is
\* what the caller hears of, whatever native code made of it; a call answers that
\* it was cancelled only with the error of a context that is done.
FailuresSurface ==
  AtReturn =>
    /\ callbackFailed => answer \in {"callbackPanic", "callbackError"}
    /\ answer # "cancelled"
    /\ answer = "ctx" => ctxDone

\* A panic or an error that a callback left is kept until a call answers with
\* it, or its token is deleted: taking one never drops the other, and a call that
\* finds the panic leaves the error for the next.
KeptUntilAnswered ==
  [][\A t \in CallTokens : \A how \in kept[t] \ kept'[t] :
       \/ t \notin alive'
       \/ /\ phase # "unwind" /\ phase' = "unwind"
          /\ answer' = IF how = "panic" THEN "callbackPanic" ELSE "callbackError"]_callVars
=============================================================================

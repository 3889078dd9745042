--------------------------- MODULE PublicCalls_proofs ---------------------------
(***************************************************************************)
(* One public call after another, for functions of any shape the generator *)
(* lays out as WellShaped says, for any handles and any tokens.            *)
(*                                                                         *)
(* Where a call may leave is decided at run time, by an early return or by *)
(* a panic, and what it leaves behind depends on which of its deferred     *)
(* functions were pushed by then.  The invariant therefore says, at every  *)
(* step, which functions are deferred and that each is deferred once, and  *)
(* ties everything else to them: the counts of calls and places to the     *)
(* releases that are still to run, every token to the one place that will  *)
(* delete it, every loan to the function that gives it back.               *)
(***************************************************************************)
EXTENDS PublicCalls, FiniteSetTheorems, SequenceTheorems, WellFoundedInduction, TLAPS

Ended == {"idle", "unwind"}
Swept == {"sweep", "errors", "status", "result"}
Phases == {"prologue", "native"} \union Swept \union Ended
Answers ==
  {"none", "ok", "refused", "nil", "range", "callbackPanic", "callbackError",
   "nativePanic", "ctx", "cancelled", "error"}
GivenUp == {"callbackPanic", "callbackError"}
Deferrable ==
  {"release", "dropChild", "delete", "unoffer", "disarm", "unlink", "give", "free"}

\* The deferred functions of the call; each is deferred once.
In(e, s) == \E i \in DOMAIN s : s[i] = e
Once(s)  == \A i, j \in DOMAIN s : s[i] = s[j] => i = j
Todo(action, p) == In([do |-> action, at |-> p], defers)
SomeTodo(action) == \E i \in DOMAIN defers : defers[i].do = action

Deferred == [do : Deferrable, at : Nat]
Failures == [CallTokens -> SUBSET {"panic", "error"}]
Places   == [PassedHandles -> CallTokens \union {NoToken}]
Offered  == [object : BOOLEAN, token : CallTokens \union {NoToken},
             parent : PassedHandles \union {"none"}]

CallTypes ==
  /\ pinned \in [PassedHandles -> Int] /\ offspring \in [PassedHandles -> Int]
  /\ shut \subseteq PassedHandles /\ spoiled \subseteq PassedHandles
  /\ destroyed \subseteq PassedHandles
  /\ slot \in Places
  /\ alive \subseteq CallTokens /\ kept \in Failures
  /\ phase \in Phases /\ step \in Nat
  /\ defers \in Seq(Deferred)
  /\ status \in {"ok", "error", "panic", "cancelled"} /\ answer \in Answers
  /\ ctxDone \in BOOLEAN /\ armed \in BOOLEAN /\ flag \in BOOLEAN
  /\ object \in BOOLEAN /\ lent \in BOOLEAN
  /\ buffer \in {"none", "held", "freed"}
  /\ given \in Offered
  /\ callbackFailed \in BOOLEAN /\ lostTokens \subseteq CallTokens

\* Which arguments and tokens the call has so far.
ArgsKnown ==
  /\ phase = "idle" => passed = <<>> /\ drawn = <<>> /\ answer = "none"
  /\ phase # "idle" =>
       /\ shape \in CallShapesUsed /\ step \in 1..(Len(Steps) + 1)
       /\ DOMAIN passed \subseteq {p \in Positions(HandleSteps) : p < step}
       /\ DOMAIN drawn \subseteq {p \in Positions(TokenSteps) : p < step}
  /\ phase \notin Ended =>
       /\ DOMAIN passed = {p \in Positions(HandleSteps) : p < step}
       /\ DOMAIN drawn = {p \in Positions(TokenSteps) : p < step}
       /\ answer = "none"
  /\ phase \in {"native"} \union Swept => step = Len(Steps) + 1
  /\ \A p \in DOMAIN passed :
       \/ passed[p] \in PassedHandles
       \/ passed[p] = "nil" /\ Steps[p].kind = "opt"
  /\ \A p \in DOMAIN drawn : drawn[p] \in CallTokens

\* Which functions are deferred, and that none is deferred twice.
DefersFit ==
  /\ \A i \in DOMAIN defers : defers[i].at \in 1..step
  /\ phase \notin Ended => \A i \in DOMAIN defers : defers[i].at # step
  /\ \A p \in 1..step :
       /\ Todo("release", p) => p \in DOMAIN passed /\ passed[p] # "nil"
       /\ Todo("dropChild", p) => p = 1 /\ 1 \in DOMAIN passed /\ shape.gives = "child"
       /\ Todo("delete", p) => p \in DOMAIN drawn /\ Steps[p].kind = "lend"
       /\ Todo("unoffer", p) => p \in DOMAIN drawn /\ Steps[p].kind = "offer"

DefersAll ==
  /\ \A p \in DOMAIN passed : passed[p] # "nil" => Todo("release", p)
  /\ (1 \in DOMAIN passed /\ shape.gives = "child") => Todo("dropChild", 1)
  /\ \A p \in DOMAIN drawn :
       /\ Steps[p].kind = "lend" => Todo("delete", p)
       /\ Steps[p].kind = "offer" => Todo("unoffer", p)

DefersKnown ==
  /\ Once(defers) /\ DefersFit
  /\ phase = "idle" => defers = <<>>
  /\ phase \notin Ended => DefersAll

\* The positions at which the call still counts handle h in, and whether it
\* still reserves a place in h.
HeldAt(h) == {p \in DOMAIN passed : passed[p] = h /\ Todo("release", p)}
Reserves(h) ==
  /\ 1 \in DOMAIN passed /\ passed[1] = h
  /\ Todo("dropChild", 1) /\ answer # "ok"

PinsCount == \A h \in PassedHandles : pinned[h] = Cardinality(HeldAt(h))
PlacesCount ==
  \A h \in PassedHandles :
    offspring[h] = (IF given.parent = h THEN 1 ELSE 0) + (IF Reserves(h) THEN 1 ELSE 0)
GivenWaits == phase \notin Ended /\ shape.gives \in {"handle", "child"} => given = None
SpoiledStay ==
  /\ \A h \in destroyed : h \in shut /\ pinned[h] = 0
  /\ spoiled \intersect destroyed = {}
  /\ phase = "unwind" /\ answer = "nativePanic" =>
       \A p \in DOMAIN passed : passed[p] # "nil" => passed[p] \in spoiled

CountsKnown == PinsCount /\ PlacesCount /\ GivenWaits /\ SpoiledStay

\* The token of position p is the call's to dispose of.  A constructor's stays so
\* when it rethrows a panic, but no deferred function will delete it.
Owns(p) ==
  /\ p \in DOMAIN drawn
  /\ \/ Todo("delete", p)
     \/ Todo("unoffer", p) /\ answer # "ok"
     \/ Steps[p].kind = "keep" /\ (phase \notin Ended \/ answer = "callbackPanic")

\* Every token that exists is in exactly one place.
TokensPlaced ==
  /\ \A t \in CallTokens :
       t \in alive <=> \/ \E h \in PassedHandles : slot[h] = t
                       \/ given.token = t
                       \/ t \in lostTokens
                       \/ \E p \in DOMAIN drawn : Owns(p) /\ drawn[p] = t
  /\ \A g, h \in PassedHandles : slot[g] = slot[h] /\ g # h => slot[g] = NoToken
  /\ \A h \in PassedHandles :
       /\ slot[h] # NoToken => slot[h] # given.token
       /\ slot[h] \notin lostTokens
  /\ given.token \notin lostTokens
  /\ \A p \in DOMAIN drawn : Owns(p) =>
       /\ \A h \in PassedHandles : slot[h] # drawn[p]
       /\ given.token # drawn[p] /\ drawn[p] \notin lostTokens
       /\ \A q \in DOMAIN drawn : Owns(q) /\ drawn[q] = drawn[p] => q = p

\* One is left for every callback of the call that has none yet.
Undrawn == {p \in Positions(TokenSteps) : p >= step}
TokensLeft ==
  phase = "prologue" => Cardinality(Undrawn) <= Cardinality(CallTokens \ alive)

TokensKnown == TokensPlaced /\ TokensLeft

\* What else the call holds is given back by a deferred function, and what
\* native code returned is taken over before the deferred functions run, but
\* for the object of a constructor given up over a callback's failure.
LoansKnown ==
  /\ armed => SomeTodo("disarm")
  /\ linked # NoToken => SomeTodo("unlink")
  /\ lent => SomeTodo("give")
  /\ object =>
       /\ status = "ok" /\ shape.gives \in {"handle", "child"}
       /\ phase \in Swept \/ (phase = "unwind" /\ answer \in GivenUp)
  /\ buffer = "held" =>
       /\ shape.gives = "buffer" /\ status = "ok"
       /\ \/ phase \in Swept
          \/ phase = "unwind" /\ SomeTodo("free")
  /\ buffer = "freed" => phase = "unwind"

\* A failure is kept where the sweeps look until one of them finds it.
ToFind ==
  callbackFailed =>
    \/ /\ phase \in {"native", "sweep"}
       /\ Failing("panic", SweptAt) # {} \/ Failing("error", FallibleAt) # {}
    \/ phase = "errors" /\ Failing("error", FallibleAt) # {}
    \/ phase = "unwind" /\ answer \in GivenUp

\* What the call knows of native code's status and answers, and why.
StatusKnown ==
  /\ phase \in {"idle", "prologue", "native", "result"} => status = "ok"
  /\ phase = "unwind" /\ status = "panic" => answer \in GivenUp \union {"nativePanic"}
  /\ phase = "idle" => ~flag
  /\ (flag \/ status = "cancelled") => ctxDone \/ callbackFailed
  /\ answer # "cancelled" /\ (answer = "ctx" => ctxDone)

CallInv ==
  /\ CallTypes /\ ArgsKnown /\ DefersKnown /\ CountsKnown
  /\ TokensKnown /\ LoansKnown /\ ToFind /\ StatusKnown
-----------------------------------------------------------------------------
(* Functions and sequences.                                                *)

\* One element more.
LEMMA Pushed ==
  ASSUME NEW D, NEW s \in Seq(D), NEW d \in D
  PROVE  /\ \A e : In(e, Append(s, d)) <=> In(e, s) \/ e = d
         /\ ~In(d, s) /\ Once(s) => Once(Append(s, d))
<1> DEFINE t == Append(s, d)
<1>1. /\ t \in Seq(D) /\ DOMAIN t = 1..(Len(s) + 1) /\ DOMAIN s = 1..Len(s) /\ Len(s) \in Nat
      /\ t[Len(s) + 1] = d /\ \A i \in 1..Len(s) : t[i] = s[i]
  OBVIOUS
<1> HIDE DEF t
<1>2. \A i \in DOMAIN t : i \in DOMAIN s \/ i = Len(s) + 1
  BY <1>1
<1>3. Len(s) + 1 \in DOMAIN t /\ DOMAIN s \subseteq DOMAIN t
  BY <1>1
<1>4. \A e : In(e, t) <=> In(e, s) \/ e = d
  BY <1>1, <1>2, <1>3 DEF In
<1>5. ~In(d, s) /\ Once(s) => Once(t)
  BY <1>1, <1>2 DEF In, Once
<1> QED  BY <1>4, <1>5 DEF t

\* Two of them.
LEMMA PushedTwo ==
  ASSUME NEW D, NEW s \in Seq(D), NEW d \in D, NEW e \in D, d # e
  PROVE  /\ \A f : In(f, s \o <<d, e>>) <=> In(f, s) \/ f = d \/ f = e
         /\ ~In(d, s) /\ ~In(e, s) /\ Once(s) => Once(s \o <<d, e>>)
<1> DEFINE u == Append(s, d)
<1>1. u \in Seq(D) /\ s \o <<d, e>> = Append(u, e)
  OBVIOUS
<1>2. /\ \A f : In(f, u) <=> In(f, s) \/ f = d
      /\ ~In(d, s) /\ Once(s) => Once(u)
  BY Pushed
<1> HIDE DEF u
<1>3. /\ \A f : In(f, Append(u, e)) <=> In(f, u) \/ f = e
      /\ ~In(e, u) /\ Once(u) => Once(Append(u, e))
  BY <1>1, Pushed
<1> QED  BY <1>1, <1>2, <1>3

\* One less, the last.
LEMMA Popped ==
  ASSUME NEW D, NEW s \in Seq(D), s # <<>>, Once(s)
  PROVE  /\ \A e : In(e, SubSeq(s, 1, Len(s) - 1)) <=> In(e, s) /\ e # s[Len(s)]
         /\ Once(SubSeq(s, 1, Len(s) - 1))
<1> DEFINE t == SubSeq(s, 1, Len(s) - 1)
<1>1. /\ t \in Seq(D) /\ DOMAIN t = 1..(Len(s) - 1) /\ DOMAIN s = 1..Len(s) /\ Len(s) \in Nat
      /\ Len(s) # 0 /\ \A i \in 1..(Len(s) - 1) : t[i] = s[i]
  OBVIOUS
<1> HIDE DEF t
<1>2. \A i \in DOMAIN s : i \in DOMAIN t \/ i = Len(s)
  BY <1>1
<1>3. DOMAIN t \subseteq DOMAIN s /\ Len(s) \notin DOMAIN t /\ Len(s) \in DOMAIN s
  BY <1>1
<1>4. \A i \in DOMAIN t : i \in DOMAIN s /\ t[i] = s[i] /\ s[i] # s[Len(s)]
  BY <1>1, <1>3 DEF Once
<1>5. \A e : In(e, t) <=> In(e, s) /\ e # s[Len(s)]
  BY <1>1, <1>2, <1>3, <1>4 DEF In
<1>6. Once(t)
  BY <1>4 DEF Once
<1> QED  BY <1>5, <1>6 DEF t

\* The first of a set of positions.
LEMMA FirstExists ==
  ASSUME NEW S \in SUBSET Nat, S # {}
  PROVE  \E p \in S : \A q \in S : p <= q
<1> DEFINE R == OpToRel(<, Nat)
<1>1. PICK p \in S : \A q \in S : ~ (<<q, p>> \in R)
  <2>1. IsWellFoundedOn(R, Nat)
    BY NatLessThanWellFounded
  <2> HIDE DEF R
  <2> QED  BY <2>1, WFMin
<1>2. \A q \in S : ~ (q < p)
  BY <1>1 DEF OpToRel
<1> QED  BY <1>2

-----------------------------------------------------------------------------
(* What the shape of a call says.                                          *)

LEMMA ShapeFacts ==
  ASSUME shape \in CallShapesUsed
  PROVE  /\ Len(Steps) \in Nat /\ DOMAIN Steps = 1..Len(Steps)
         /\ \A p \in DOMAIN Steps : Steps[p].kind \in StepKinds
         /\ \A p \in DOMAIN Steps : Steps[p].calls \in BOOLEAN /\ Steps[p].fails \in BOOLEAN
         /\ shape.gives \in {"value", "handle", "child", "view", "buffer"}
         /\ shape.coded \in BOOLEAN
<1>1. shape \in CallShapes
  BY CallsAssumption
<1>2. Steps \in Seq([kind : StepKinds, calls : BOOLEAN, fails : BOOLEAN])
  BY <1>1 DEF CallShapes, Steps
<1>3. \A p \in 1..Len(Steps) : Steps[p] \in [kind : StepKinds, calls : BOOLEAN, fails : BOOLEAN]
  BY <1>2, ElementOfSeq
<1> QED  BY <1>1, <1>2, <1>3 DEF CallShapes

LEMMA ShapeRules ==
  ASSUME shape \in CallShapesUsed
  PROVE  /\ \A p \in DOMAIN Steps : Steps[p].kind = "child" => p = 1
         /\ shape.gives = "child" => 1 \in DOMAIN Steps /\ Steps[1].kind = "child"
         /\ 1 \in DOMAIN Steps /\ Steps[1].kind = "child" => shape.gives = "child"
         /\ \A p \in DOMAIN Steps : Steps[p].kind = "offer" =>
              /\ 1 \in DOMAIN Steps /\ Steps[1].kind = "pin"
              /\ shape.gives \notin {"handle", "child", "buffer"}
         /\ \A p \in DOMAIN Steps : Steps[p].kind = "keep" => shape.gives \in {"handle", "child"}
         /\ \A p, q \in DOMAIN Steps :
              /\ p < q /\ Steps[p].kind \in TokenSteps =>
                   Steps[q].kind \notin HandleSteps \union {"nonnil", "range"}
              /\ Steps[p].kind \in {"keep", "offer"} /\ Steps[q].kind \in {"keep", "offer"} => p = q
         /\ shape.gives = "buffer" =>
              \A p \in DOMAIN Steps : Steps[p].kind \notin TokenSteps /\ ~Steps[p].calls
<1>1. WellShaped(shape) /\ AsInTheExamples(shape)
  BY CallsAssumption
<1> QED  BY <1>1 DEF WellShaped, AsInTheExamples, PositionsIn, Steps, TokenSteps, HandleSteps

\* The positions of a kind are those of the steps of the kind.
LEMMA PositionsOf ==
  \A K, p : p \in Positions(K) <=> p \in DOMAIN Steps /\ Steps[p].kind \in K
  BY DEF Positions, PositionsIn, Steps

\* If a sweep misses every failure of a kind there is none.
LEMMA FirstWithExists ==
  ASSUME shape \in CallShapesUsed, NEW how, NEW tokensAt, Failing(how, tokensAt) # {}
  PROVE  FirstWith(how, tokensAt) # {}
<1> DEFINE F == Failing(how, tokensAt)
           Own == Positions(TokenSteps)
<1>1. F \subseteq Nat
  BY ShapeFacts DEF Failing
<1>2. CASE F \intersect Own # {}
  <2>1. PICK p \in F \intersect Own : \A q \in F \intersect Own : p <= q
    BY <1>1, <1>2, FirstExists
  <2>2. \A q \in F : SweptUpTo(p, q)
    BY <2>1 DEF SweptUpTo
  <2> QED  BY <2>1, <2>2 DEF FirstWith
<1>3. CASE F \intersect Own = {}
  <2>1. PICK p \in F : \A q \in F : p <= q
    BY <1>1, FirstExists
  <2>2. \A q \in F : SweptUpTo(p, q)
    BY <1>3, <2>1 DEF SweptUpTo
  <2> QED  BY <2>1, <2>2 DEF FirstWith
<1> QED  BY <1>2, <1>3

-----------------------------------------------------------------------------
(* What the call has in hand.                                              *)

\* Every token step that is behind has its token.
LEMMA TokensAreThere ==
  ASSUME ArgsKnown, phase \in {"native"} \union Swept, NEW p, p \in Positions(TokenSteps)
  PROVE  p \in DOMAIN drawn /\ drawn[p] \in CallTokens
<1>1. shape \in CallShapesUsed /\ step = Len(Steps) + 1
      /\ DOMAIN drawn = {q \in Positions(TokenSteps) : q < step}
  BY DEF ArgsKnown, Ended, Swept
<1>2. p < step
  BY <1>1, ShapeFacts, PositionsOf
<1> QED  BY <1>1, <1>2 DEF ArgsKnown

\* Every handle step that is behind has its argument.
LEMMA ArgsAreThere ==
  ASSUME ArgsKnown, phase \in {"native"} \union Swept, NEW p, p \in Positions(HandleSteps)
  PROVE  /\ p \in DOMAIN passed
         /\ passed[p] \in PassedHandles \/ (passed[p] = "nil" /\ Steps[p].kind = "opt")
<1>1. shape \in CallShapesUsed /\ step = Len(Steps) + 1
      /\ DOMAIN passed = {q \in Positions(HandleSteps) : q < step}
  BY DEF ArgsKnown, Ended, Swept
<1>2. p < step
  BY <1>1, ShapeFacts, PositionsOf
<1>3. p \in DOMAIN passed
  BY <1>1, <1>2
<1> QED  BY <1>3 DEF ArgsKnown

\* A constructor of children has its parent, a setter its receiver.
LEMMA ReceiverIsThere ==
  ASSUME ArgsKnown, phase \in {"native"} \union Swept,
         shape.gives = "child" \/ Positions({"offer"}) # {}
  PROVE  1 \in DOMAIN passed /\ passed[1] \in PassedHandles
<1>1. shape \in CallShapesUsed
  BY DEF ArgsKnown, Ended, Swept
<1>2. 1 \in Positions({"pin", "child"})
  BY <1>1, ShapeRules, PositionsOf
<1>3. 1 \in Positions(HandleSteps) /\ Steps[1].kind # "opt"
  BY <1>2, PositionsOf DEF HandleSteps
<1> QED  BY <1>3, ArgsAreThere

\* The last deferred function is one of those deferred.
LEMMA LastDeferred ==
  ASSUME CallTypes, NEW a, AtDefer(a)
  PROVE  /\ Len(defers) \in DOMAIN defers /\ DeferredAt \in Nat
         /\ defers[Len(defers)] = [do |-> a, at |-> DeferredAt]
<1>1. defers \in Seq(Deferred) /\ defers # <<>>
  BY DEF CallTypes, AtDefer
<1>2. Len(defers) \in DOMAIN defers
  BY <1>1, EmptySeq, LenProperties
<1>3. defers[Len(defers)] \in Deferred
  BY <1>1, <1>2, LenProperties
<1> QED  BY <1>2, <1>3 DEF AtDefer, DeferredAt, Deferred

\* A deferred release is of a handle the call was given.
LEMMA ReleaseIsOfHandle ==
  ASSUME CallTypes, ArgsKnown, DefersKnown, AtDefer("release")
  PROVE  DeferredAt \in DOMAIN passed /\ passed[DeferredAt] \in PassedHandles
<1>1. /\ Len(defers) \in DOMAIN defers
      /\ defers[Len(defers)] = [do |-> "release", at |-> DeferredAt]
  BY LastDeferred
<1>2. Todo("release", DeferredAt) /\ DeferredAt \in 1..step
  BY <1>1 DEF Todo, In, DefersKnown, DefersFit
<1>3. DeferredAt \in DOMAIN passed /\ passed[DeferredAt] # "nil"
  BY <1>2 DEF DefersKnown, DefersFit
<1> QED  BY <1>3 DEF ArgsKnown

\* A free token is left for the step at which one is drawn.
LEMMA DrawsFree ==
  ASSUME CallTypes, ArgsKnown, TokensKnown, AtStep(TokenSteps)
  PROVE  (CHOOSE u \in CallTokens \ alive : TRUE) \in CallTokens \ alive
<1>1. step \in Undrawn
  <2>1. shape \in CallShapesUsed /\ step \in Nat
    BY DEF ArgsKnown, AtStep, CallTypes
  <2> QED  BY <2>1, PositionsOf DEF AtStep, Undrawn
<1>2. IsFiniteSet(Undrawn)
  <2>1. shape \in CallShapesUsed
    BY DEF ArgsKnown, AtStep
  <2>2. Undrawn \subseteq 1..Len(Steps) /\ Len(Steps) \in Nat
    BY <2>1, ShapeFacts, PositionsOf DEF Undrawn
  <2>3. IsFiniteSet(1..Len(Steps))
    BY <2>2, FS_Interval
  <2> QED  BY <2>2, <2>3, FS_Subset
<1>3. Cardinality(Undrawn) # 0
  BY <1>1, <1>2, FS_EmptySet
<1>4. Cardinality(CallTokens \ alive) # 0 \/ CallTokens \ alive # {}
  <2>1. Cardinality(Undrawn) <= Cardinality(CallTokens \ alive)
    BY DEF TokensKnown, TokensLeft, AtStep
  <2>2. Cardinality(Undrawn) \in Nat
    BY <1>2, FS_CardinalityType
  <2>3. CallTokens \ alive = {} => Cardinality(CallTokens \ alive) = 0
    BY FS_EmptySet
  <2> QED  BY <1>3, <2>1, <2>2, <2>3
<1>5. CallTokens \ alive # {}
  BY <1>4, FS_EmptySet
<1> QED  BY <1>5

-----------------------------------------------------------------------------
(* The types.                                                              *)

\* Before the first call.
LEMMA TypesInit == CallInit => CallTypes
<1> SUFFICES ASSUME CallInit PROVE CallTypes
  OBVIOUS
<1>1. given \in Offered
  BY DEF CallInit, None, Offered
<1>2. slot \in Places /\ kept \in Failures
  BY DEF CallInit, Places, Failures
<1>3. defers \in Seq(Deferred)
  BY EmptySeq DEF CallInit
<1>4. pinned \in [PassedHandles -> Int] /\ offspring \in [PassedHandles -> Int]
  BY DEF CallInit
<1>5. /\ shut = {} /\ spoiled = {} /\ destroyed = {} /\ alive = {} /\ lostTokens = {}
      /\ step = 0 /\ phase \in Phases /\ answer \in Answers
  BY DEF CallInit, Phases, Ended, Answers
<1>6. /\ status = "ok" /\ buffer = "none"
      /\ ctxDone = FALSE /\ armed = FALSE /\ flag = FALSE
      /\ object = FALSE /\ lent = FALSE /\ callbackFailed = FALSE
  BY DEF CallInit
<1> QED
  BY <1>1, <1>2, <1>3, <1>4, <1>5, <1>6 DEF CallTypes

\* Deletion of tokens keeps the registry well typed.
LEMMA DeleteTypes ==
  ASSUME CallTypes, NEW T, Delete(T)
  PROVE  alive' \subseteq CallTokens /\ kept' \in Failures
  BY DEF CallTypes, Delete, Failures

\* So does reaping a handle, and the slots stay well typed.
LEMMA ReapTypes ==
  ASSUME CallTypes, NEW h \in PassedHandles, Reap(h)
  PROVE  /\ destroyed' \subseteq PassedHandles
         /\ slot' \in Places
         /\ alive' \subseteq CallTokens /\ kept' \in Failures
  BY DeleteTypes DEF CallTypes, Reap, Places

\* One deferred function more keeps their list well typed.
LEMMA DeferTypes ==
  ASSUME CallTypes, NEW a \in Deferrable, Defer(a)
  PROVE  defers' \in Seq(Deferred)
<1>1. [do |-> a, at |-> step] \in Deferred
  BY DEF CallTypes, Deferred
<1>2. defers \in Seq(Deferred) /\ defers' = Append(defers, [do |-> a, at |-> step])
  BY DEF CallTypes, Defer
<1> QED  BY <1>1, <1>2

\* So does one less.
LEMMA AtDeferTypes ==
  ASSUME CallTypes, NEW a, AtDefer(a)
  PROVE  defers' \in Seq(Deferred)
<1>1. /\ defers \in Seq(Deferred) /\ defers # <<>>
      /\ defers' = SubSeq(defers, 1, Len(defers) - 1)
  BY DEF CallTypes, AtDefer
<1> QED  BY <1>1

\* The prologue.
LEMMA PrologueTypes ==
  ASSUME CallTypes, ArgsKnown, TokensKnown,
         \/ BeginCall \/ Acquire \/ PassNothing \/ Refuse \/ PassCheck \/ DrawToken
         \/ Watch \/ Link \/ TakeScratch \/ EnterNative
  PROVE  CallTypes'
<1> USE DEF handleVars, registryVars, frameVars, cancelVars, resultVars, lossVars
<1>1. CASE BeginCall
  BY <1>1 DEF CallTypes, BeginCall, Phases
<1>2. CASE Acquire
  <2>1. defers' \in Seq(Deferred)
    <3>1. CASE Steps[step].kind = "child"
      <4> DEFINE two == <<[do |-> "dropChild", at |-> step], [do |-> "release", at |-> step]>>
      <4>1. two \in Seq(Deferred)
        BY DEF CallTypes, Deferrable, Deferred
      <4>2. defers \in Seq(Deferred) /\ defers' = defers \o two
        BY <1>2, <3>1 DEF CallTypes, Acquire
      <4> HIDE DEF two
      <4> QED  BY <4>1, <4>2
    <3>2. CASE Steps[step].kind # "child"
      BY <1>2, <3>2, DeferTypes DEF Acquire, Deferrable
    <3> QED  BY <3>1, <3>2
  <2>2. pinned' \in [PassedHandles -> Int] /\ offspring' \in [PassedHandles -> Int]
    BY <1>2 DEF CallTypes, Acquire
  <2> QED  BY <1>2, <2>1, <2>2 DEF CallTypes, Acquire, AtStep, NextStep, Phases
<1>3. CASE PassNothing \/ PassCheck
  BY <1>3 DEF CallTypes, PassNothing, PassCheck, AtStep, NextStep, Phases
<1>4. CASE Refuse
  BY <1>4 DEF CallTypes, Refuse, AtStep, Leave, Phases, Ended, Answers
<1>5. CASE DrawToken
  <2>1. defers' \in Seq(Deferred)
    <3>1. defers' = defers \/ Defer("delete") \/ Defer("unoffer")
      BY <1>5 DEF DrawToken
    <3> QED  BY <3>1, DeferTypes DEF CallTypes, Deferrable
  <2>2. alive' \subseteq CallTokens
    BY <1>5, DrawsFree DEF CallTypes, DrawToken
  <2> QED  BY <1>5, <2>1, <2>2 DEF CallTypes, DrawToken, AtStep, NextStep, Phases
<1>6. CASE Watch
  <2>1. defers' \in Seq(Deferred)
    BY <1>6, DeferTypes DEF CallTypes, Watch, Deferrable
  <2>2. flag' \in BOOLEAN /\ armed' \in BOOLEAN
    BY <1>6 DEF CallTypes, Watch
  <2>3. step' \in Nat /\ phase' \in Phases
    BY <1>6 DEF CallTypes, Watch, NextStep
  <2> QED  BY <1>6, <2>1, <2>2, <2>3 DEF CallTypes, Watch
<1>7. CASE Link \/ TakeScratch
  <2>1. defers' \in Seq(Deferred)
    BY <1>7, DeferTypes DEF CallTypes, Link, TakeScratch, Deferrable
  <2>2. step' \in Nat /\ phase' \in Phases
    BY <1>7 DEF CallTypes, Link, TakeScratch, NextStep
  <2>3. CASE Link
    BY <2>1, <2>2, <2>3 DEF CallTypes, Link
  <2>4. CASE TakeScratch
    BY <2>1, <2>2, <2>4 DEF CallTypes, TakeScratch
  <2> QED  BY <1>7, <2>3, <2>4
<1>8. CASE EnterNative
  <2>1. callbackFailed' \in BOOLEAN
    BY <1>8 DEF EnterNative, StillKept
  <2> QED  BY <1>8, <2>1 DEF CallTypes, EnterNative, Phases
<1> QED  BY <1>1, <1>2, <1>3, <1>4, <1>5, <1>6, <1>7, <1>8

\* The raw call and the sweeps.
LEMMA SweepCallTypes ==
  ASSUME CallTypes, ArgsKnown,
         \/ CallbackFails \/ RetainedCallbackFails
           \/ ContextDone \/ AfterFunc \/ NativeReturnsStatus
         \/ RethrowPanic \/ NoPanicFound \/ ReturnCallbackError \/ NoErrorFound
         \/ ReturnStatus \/ StatusOk
  PROVE  CallTypes'
<1> USE DEF handleVars, registryVars, frameVars, cancelVars, resultVars, lossVars
<1>1. CASE CallbackFails \/ RetainedCallbackFails
  <2>1. kept' \in Failures
    <3>1. PICK how \in {"panic", "error"} : \E t : kept' = [kept EXCEPT ![t] = @ \union {how}]
      BY <1>1 DEF CallbackFails, RetainedCallbackFails, HowCallbacksFail
    <3> QED  BY <3>1 DEF CallTypes, Failures
  <2>2. CASE CallbackFails
    <3>1. flag' \in BOOLEAN
      BY <2>2 DEF CallTypes, CallbackFails
    <3> QED  BY <2>1, <2>2, <3>1 DEF CallTypes, CallbackFails
  <2>3. CASE RetainedCallbackFails
    BY <2>1, <2>3 DEF CallTypes, RetainedCallbackFails
  <2> QED  BY <1>1, <2>2, <2>3
<1>2. CASE ContextDone \/ AfterFunc
  BY <1>2, ZenonT(40) DEF CallTypes, ContextDone, AfterFunc
<1>3. CASE NativeReturnsStatus
  <2>1. object' \in BOOLEAN
    BY <1>3 DEF NativeReturnsStatus
  <2>2. /\ status' \in {"ok", "error", "panic", "cancelled"} /\ buffer' \in {"none", "held"}
        /\ phase' \in Phases
    BY <1>3 DEF NativeReturnsStatus, Phases, Swept
  <2> QED  BY <1>3, <2>1, <2>2 DEF CallTypes, NativeReturnsStatus
<1>4. CASE RethrowPanic
  <2>1. kept' \in Failures
    <3>1. PICK t : kept' = [kept EXCEPT ![t] = @ \ {"panic"}]
      BY <1>4 DEF RethrowPanic, Take
    <3> QED  BY <3>1 DEF CallTypes, Failures
  <2> QED
    BY <1>4, <2>1 DEF CallTypes, RethrowPanic, Leave, Phases, Ended, Answers
<1>5. CASE NoPanicFound \/ NoErrorFound \/ StatusOk
  BY <1>5 DEF CallTypes, NoPanicFound, NoErrorFound, StatusOk, Phases, Swept
<1>6. CASE ReturnCallbackError
  <2>1. kept' \in Failures /\ alive' \subseteq CallTokens
    BY <1>6 DEF CallTypes, ReturnCallbackError, Take, Failures
  <2> QED
    BY <1>6, <2>1 DEF CallTypes, ReturnCallbackError, Leave, Phases, Ended, Answers
<1>7. CASE ReturnStatus
  <2>1. kept' \in Failures /\ alive' \subseteq CallTokens
    BY <1>7, DeleteTypes DEF ReturnStatus
  <2>2. spoiled' \subseteq PassedHandles
    BY <1>7 DEF CallTypes, ReturnStatus, Poisoned, PassedTo, ArgsKnown
  <2>3. answer' \in Answers /\ phase' \in Phases
    BY <1>7 DEF ReturnStatus, Leave, Phases, Ended, Answers
  <2> QED
    BY <1>7, <2>1, <2>2, <2>3 DEF CallTypes, ReturnStatus
<1> QED  BY <1>1, <1>2, <1>3, <1>4, <1>5, <1>6, <1>7

\* The result, the deferred functions, and everybody else.
LEMMA EndCallTypes ==
  ASSUME CallTypes, ArgsKnown, DefersKnown,
         \/ GiveHandle \/ Adopt \/ GiveValue
         \/ RunRelease \/ RunDropChild \/ RunDelete \/ RunUnlink \/ RunGive \/ ReturnFromCall
         \/ CloseHandle \/ Renew \/ CloseGiven
  PROVE  CallTypes'
<1> USE DEF handleVars, registryVars, frameVars, cancelVars, resultVars, lossVars
<1>1. CASE GiveHandle
  <2>1. given' \in Offered
    <3>1. KeptTokens \subseteq CallTokens
      BY DEF KeptTokens, ArgsKnown
    <3>2. shape.gives = "child" => passed[1] \in PassedHandles
      BY <1>1, ReceiverIsThere DEF GiveHandle, Swept
    <3> QED  BY <1>1, <3>1, <3>2 DEF GiveHandle, CallTypes, Offered
  <2> QED  BY <1>1, <2>1 DEF CallTypes, GiveHandle, Leave, Phases, Ended, Answers
<1>2. CASE Adopt
  <2>1. /\ kept' \in Failures /\ alive' \subseteq CallTokens
        /\ answer' \in Answers /\ phase' \in Phases
    BY <1>2, DeleteTypes DEF Adopt, Leave, Phases, Ended, Answers
  <2>2. slot' \in Places
    <3>1. PICK p \in Positions({"offer"}) : slot' = [slot EXCEPT ![passed[1]] = drawn[p]]
      BY <1>2 DEF Adopt
    <3>2. drawn[p] \in CallTokens
      BY <1>2, <3>1, TokensAreThere, PositionsOf DEF Adopt, Swept, TokenSteps
    <3> QED  BY <3>1, <3>2 DEF CallTypes, Places
  <2> QED  BY <1>2, <2>1, <2>2 DEF CallTypes, Adopt
<1>3. CASE GiveValue
  <2>1. defers' \in Seq(Deferred)
    BY <1>3, DeferTypes DEF CallTypes, GiveValue, Deferrable
  <2> QED  BY <1>3, <2>1 DEF CallTypes, GiveValue, Leave, Phases, Ended, Answers
<1>4. CASE RunRelease
  <2>1. defers' \in Seq(Deferred)
    BY <1>4, AtDeferTypes DEF RunRelease
  <2>2. passed[DeferredAt] \in PassedHandles
    BY <1>4, ReleaseIsOfHandle DEF RunRelease
  <2>3. pinned' \in [PassedHandles -> Int]
    <3>1. pinned \in [PassedHandles -> Int]
      BY DEF CallTypes
    <3>2. PICK h \in PassedHandles : pinned' = [pinned EXCEPT ![h] = pinned[h] - 1]
      BY <1>4, <2>2 DEF RunRelease
    <3> QED  BY <3>1, <3>2
  <2>4. \/ Reap(passed[DeferredAt])
        \/ UNCHANGED <<destroyed, slot, registryVars>>
    BY <1>4 DEF RunRelease
  <2> QED  BY <1>4, <2>1, <2>2, <2>3, <2>4, ReapTypes DEF CallTypes, RunRelease
<1>5. CASE RunDropChild
  <2>1. defers' \in Seq(Deferred)
    BY <1>5, AtDeferTypes DEF RunDropChild
  <2>2. offspring' \in [PassedHandles -> Int]
    <3>1. offspring \in [PassedHandles -> Int]
      BY DEF CallTypes
    <3>2. offspring' = offspring \/ offspring' = [offspring EXCEPT ![passed[DeferredAt]] = @ - 1]
      BY <1>5 DEF RunDropChild
    <3> QED  BY <3>1, <3>2
  <2> QED  BY <1>5, <2>1, <2>2 DEF CallTypes, RunDropChild
<1>6. CASE RunDelete
  <2>1. /\ defers' \in Seq(Deferred)
        /\ kept' \in Failures /\ alive' \subseteq CallTokens
    BY <1>6, AtDeferTypes, DeleteTypes DEF RunDelete
  <2> QED  BY <1>6, <2>1 DEF CallTypes, RunDelete
<1>7. CASE RunUnlink \/ RunGive
  <2>1. defers' \in Seq(Deferred)
    BY <1>7, AtDeferTypes DEF RunUnlink, RunGive
  <2>2. armed' \in BOOLEAN /\ lent' \in BOOLEAN /\ buffer' \in {"none", "held", "freed"}
    BY <1>7 DEF CallTypes, RunUnlink, RunGive
  <2>3. CASE RunUnlink
    BY <2>1, <2>2, <2>3 DEF CallTypes, RunUnlink
  <2>4. CASE RunGive
    BY <2>1, <2>2, <2>4 DEF CallTypes, RunGive
  <2> QED  BY <1>7, <2>3, <2>4
<1>8. CASE ReturnFromCall
  <2>1. lostTokens' \subseteq CallTokens
    BY <1>8 DEF CallTypes, ReturnFromCall, UnownedTokens
  <2> QED  BY <1>8, <2>1 DEF CallTypes, ReturnFromCall, Phases, Ended, Answers
<1>9. CASE CloseHandle
  <2>1. PICK h \in PassedHandles :
          shut' = shut \union {h} /\ (Reap(h) \/ UNCHANGED <<destroyed, slot, registryVars>>)
    BY <1>9 DEF CloseHandle
  <2> QED  BY <1>9, <2>1, ReapTypes DEF CallTypes, CloseHandle
<1>10. CASE Renew
  BY <1>10 DEF CallTypes, Renew
<1>11. CASE CloseGiven
  <2>1. offspring' \in [PassedHandles -> Int]
    BY <1>11 DEF CallTypes, CloseGiven
  <2>2. kept' \in Failures /\ alive' \subseteq CallTokens
    BY <1>11, DeleteTypes DEF CloseGiven
  <2>3. given' \in Offered
    BY <1>11 DEF CloseGiven, None, Offered
  <2> QED  BY <1>11, <2>1, <2>2, <2>3 DEF CallTypes, CloseGiven
<1> QED
  BY <1>1, <1>2, <1>3, <1>4, <1>5, <1>6, <1>7, <1>8, <1>9, <1>10, <1>11

-----------------------------------------------------------------------------
(* Which arguments and tokens there are.                                   *)

\* The steps of a call that goes on are the same.
LEMMA SameShape ==
  ASSUME shape' = shape
  PROVE  Steps' = Steps /\ \A K : Positions(K)' = Positions(K)
  BY DEF Steps, Positions, PositionsIn

\* The positions behind the next step.
LEMMA OneBehindMore ==
  ASSUME shape' = shape, step' = step + 1, step \in Nat, shape \in CallShapesUsed, NEW K
  PROVE  /\ step \in Positions(K) =>
              {p \in Positions(K) : p < step}' = {p \in Positions(K) : p < step} \union {step}
         /\ step \notin Positions(K) =>
              {p \in Positions(K) : p < step}' = {p \in Positions(K) : p < step}
<1>1. Positions(K)' = Positions(K)
  BY SameShape
<1>2. Positions(K) \subseteq Nat
  BY ShapeFacts, PositionsOf
<1>3. \A p \in Positions(K) : p < step + 1 <=> p < step \/ p = step
  BY <1>2
<1> QED  BY <1>1, <1>2, <1>3

\* A step that is not the last but for those that follow.
LEMMA ArgsStep ==
  ASSUME CallTypes, ArgsKnown, phase = "prologue", step \in DOMAIN Steps,
         shape' = shape, NextStep, answer' = answer,
         \/ passed' = passed /\ Steps[step].kind \notin HandleSteps
         \/ \E h \in PassedHandles : passed' = With(passed, step, h)
              /\ Steps[step].kind \in HandleSteps
         \/ passed' = With(passed, step, "nil") /\ Steps[step].kind = "opt",
         \/ drawn' = drawn /\ Steps[step].kind \notin TokenSteps
         \/ \E t \in CallTokens : drawn' = With(drawn, step, t)
              /\ Steps[step].kind \in TokenSteps
  PROVE  ArgsKnown'
<1>1. shape \in CallShapesUsed /\ step \in Nat /\ phase' = "prologue" /\ step' = step + 1
  BY DEF ArgsKnown, CallTypes, NextStep
<1>2. /\ DOMAIN passed = {p \in Positions(HandleSteps) : p < step}
      /\ DOMAIN drawn = {p \in Positions(TokenSteps) : p < step}
  BY DEF ArgsKnown, Ended
<1>3. step \notin DOMAIN passed /\ step \notin DOMAIN drawn
  BY <1>1, <1>2
<1>4. /\ DOMAIN passed' = {p \in Positions(HandleSteps) : p < step}'
      /\ \A p \in DOMAIN passed' :
           passed'[p] \in PassedHandles \/ (passed'[p] = "nil" /\ Steps[p].kind = "opt")
  <2>1. CASE passed' = passed /\ Steps[step].kind \notin HandleSteps
    <3>1. step \notin Positions(HandleSteps)
      BY <2>1, PositionsOf
    <3>2. DOMAIN passed' = {p \in Positions(HandleSteps) : p < step}'
      BY <1>1, <1>2, <2>1, <3>1, OneBehindMore
    <3> QED  BY <2>1, <3>2 DEF ArgsKnown
  <2>2. ASSUME NEW h \in PassedHandles \union {"nil"}, passed' = With(passed, step, h),
               h = "nil" => Steps[step].kind = "opt", Steps[step].kind \in HandleSteps
        PROVE  <1>4!1 /\ <1>4!2
    <3>1. /\ DOMAIN passed' = DOMAIN passed \union {step} /\ passed'[step] = h
          /\ \A q \in DOMAIN passed : passed'[q] = passed[q]
      BY <1>3, <2>2 DEF With
    <3>2. step \in Positions(HandleSteps)
      BY <2>2, PositionsOf
    <3>3. DOMAIN passed' = {p \in Positions(HandleSteps) : p < step}'
      BY <1>1, <1>2, <3>1, <3>2, OneBehindMore
    <3> QED  BY <2>2, <3>1, <3>3 DEF ArgsKnown
  <2> QED  BY <2>1, <2>2, CallsAssumption DEF HandleSteps
<1>5. /\ DOMAIN drawn' = {p \in Positions(TokenSteps) : p < step}'
      /\ \A p \in DOMAIN drawn' : drawn'[p] \in CallTokens
  <2>1. CASE drawn' = drawn /\ Steps[step].kind \notin TokenSteps
    <3>1. step \notin Positions(TokenSteps)
      BY <2>1, PositionsOf
    <3>2. DOMAIN drawn' = {p \in Positions(TokenSteps) : p < step}'
      BY <1>1, <1>2, <2>1, <3>1, OneBehindMore
    <3> QED  BY <2>1, <3>2 DEF ArgsKnown
  <2>2. ASSUME NEW t \in CallTokens, drawn' = With(drawn, step, t),
               Steps[step].kind \in TokenSteps
        PROVE  <1>5!1 /\ <1>5!2
    <3>1. /\ DOMAIN drawn' = DOMAIN drawn \union {step} /\ drawn'[step] = t
          /\ \A q \in DOMAIN drawn : drawn'[q] = drawn[q]
      BY <1>3, <2>2 DEF With
    <3>2. step \in Positions(TokenSteps)
      BY <2>2, PositionsOf
    <3>3. DOMAIN drawn' = {p \in Positions(TokenSteps) : p < step}'
      BY <1>1, <1>2, <3>1, <3>2, OneBehindMore
    <3> QED  BY <2>2, <3>1, <3>3 DEF ArgsKnown
  <2> QED  BY <2>1, <2>2
<1>6. step' \in 1..(Len(Steps) + 1) /\ Steps' = Steps
  BY <1>1, ShapeFacts, SameShape
<1>7. answer' = "none" /\ phase' # "idle" /\ phase' \notin {"native"} \union Swept
  BY <1>1 DEF ArgsKnown, Ended, Swept
<1> QED  BY <1>1, <1>4, <1>5, <1>6, <1>7 DEF ArgsKnown

\* From one phase to another nothing is added.
LEMMA ArgsPhase ==
  ASSUME ArgsKnown, UNCHANGED <<shape, step, passed, drawn>>, phase # "idle", phase' # "idle",
         phase' \notin Ended => phase \notin Ended /\ answer' = answer,
         phase' \in {"native"} \union Swept => step = Len(Steps) + 1
  PROVE  ArgsKnown'
<1>1. Steps' = Steps /\ \A K : Positions(K)' = Positions(K)
  BY SameShape
<1> QED  BY <1>1 DEF ArgsKnown

\* Outside a call, or beside it.
LEMMA ArgsSame ==
  ASSUME ArgsKnown, UNCHANGED <<shape, phase, step, passed, drawn, answer>>
  PROVE  ArgsKnown'
<1>1. Steps' = Steps /\ \A K : Positions(K)' = Positions(K)
  BY SameShape
<1> QED  BY <1>1 DEF ArgsKnown

\* At every step the arguments and tokens are those of the steps behind.
LEMMA ArgsNext ==
  ASSUME CallTypes, ArgsKnown, TokensKnown, CallNext
  PROVE  ArgsKnown'
<1> USE DEF handleVars, registryVars, frameVars, cancelVars, resultVars, lossVars
<1>1. CASE BeginCall
  <2>1. shape' \in CallShapesUsed /\ phase' = "prologue" /\ step' = 1
        /\ passed' = <<>> /\ drawn' = <<>>
    BY <1>1 DEF BeginCall, ArgsKnown
  <2>2. Len(Steps') \in Nat /\ \A K : Positions(K)' \subseteq 1..Len(Steps')
    <3>1. PICK s \in CallShapesUsed : shape' = s
      BY <2>1
    <3>2. s \in CallShapes
      BY CallsAssumption
    <3>3. s.steps \in Seq([kind : StepKinds, calls : BOOLEAN, fails : BOOLEAN])
      BY <3>2 DEF CallShapes
    <3> QED  BY <3>1, <3>3, LenProperties DEF Steps, Positions, PositionsIn
  <2>3. answer' = "none"
    BY <1>1 DEF BeginCall, ArgsKnown
  <2>4. DOMAIN passed' = {} /\ DOMAIN drawn' = {}
    BY <2>1
  <2>5. \A K : {p \in Positions(K) : p < step}' = {}
    BY <2>1, <2>2
  <2> QED  BY <2>1, <2>2, <2>3, <2>4, <2>5 DEF ArgsKnown, Swept
<1>2. CASE Acquire
  BY <1>2, ArgsStep DEF Acquire, AtStep, HandleSteps, TokenSteps
<1>3. CASE PassNothing
  BY <1>3, ArgsStep DEF PassNothing, AtStep, TokenSteps
<1>4. CASE PassCheck \/ Watch \/ Link \/ TakeScratch
  BY <1>4, ArgsStep DEF PassCheck, Watch, Link, TakeScratch, AtStep, HandleSteps, TokenSteps
<1>5. CASE DrawToken
  BY <1>5, ArgsStep, DrawsFree DEF DrawToken, AtStep, HandleSteps, TokenSteps
<1>6. CASE EnterNative
  <2>1. step = Len(Steps) + 1
    BY <1>6, ShapeFacts DEF EnterNative, ArgsKnown
  <2> QED  BY <1>6, <2>1, ArgsPhase DEF EnterNative, Ended
<1>7. CASE NativeReturnsStatus \/ NoPanicFound \/ NoErrorFound \/ StatusOk
  BY <1>7, ArgsPhase
  DEF NativeReturnsStatus, NoPanicFound, NoErrorFound, StatusOk, Ended, Swept, ArgsKnown
<1>8. CASE Refuse \/ RethrowPanic \/ ReturnCallbackError \/ ReturnStatus
           \/ GiveHandle \/ Adopt \/ GiveValue
  BY <1>8, ArgsPhase
  DEF Refuse, RethrowPanic, ReturnCallbackError, ReturnStatus, GiveHandle, Adopt, GiveValue,
      AtStep, Leave, Ended, Swept
<1>9. CASE \/ CallbackFails \/ RetainedCallbackFails
           \/ ContextDone \/ AfterFunc \/ RunRelease \/ RunDropChild \/ RunDelete
           \/ RunUnlink \/ RunGive \/ CloseHandle \/ Renew \/ CloseGiven
  BY <1>9, ArgsSame
  DEF CallbackFails, RetainedCallbackFails, ContextDone, AfterFunc, RunRelease, RunDropChild, RunDelete,
      RunUnlink, RunGive, CloseHandle, Renew, CloseGiven
<1>10. CASE ReturnFromCall
  BY <1>10 DEF ReturnFromCall, ArgsKnown, Ended, Swept
<1> QED
  BY <1>1, <1>2, <1>3, <1>4, <1>5, <1>6, <1>7, <1>8, <1>9, <1>10 DEF CallNext

-----------------------------------------------------------------------------
(* The deferred functions.                                                 *)

\* What is deferred is an action at a position.
LEMMA DeferredRecords ==
  ASSUME NEW s \in Seq(Deferred)
  PROVE  \A i \in DOMAIN s :
           /\ s[i].do \in Deferrable /\ s[i].at \in Nat
           /\ s[i] = [do |-> s[i].do, at |-> s[i].at]
<1>1. \A i \in DOMAIN s : s[i] \in Deferred
  BY ElementOfSeq, LenProperties
<1> QED  BY <1>1 DEF Deferred

\* An action is deferred if it is at some position.
LEMMA SomeTodoIs ==
  ASSUME CallTypes, NEW a
  PROVE  SomeTodo(a) <=> \E p \in Nat : Todo(a, p)
<1>1. ASSUME NEW i \in DOMAIN defers, defers[i].do = a
      PROVE  \E p \in Nat : Todo(a, p)
  <2>1. defers[i].at \in Nat /\ defers[i] = [do |-> a, at |-> defers[i].at]
    BY <1>1, DeferredRecords DEF CallTypes
  <2> QED  BY <2>1 DEF Todo, In
<1>2. ASSUME NEW p \in Nat, Todo(a, p)
      PROVE  SomeTodo(a)
  <2>1. PICK i \in DOMAIN defers : defers[i] = [do |-> a, at |-> p]
    BY <1>2 DEF Todo, In
  <2>2. defers[i].do = a
    BY <2>1
  <2> QED  BY <2>2 DEF SomeTodo
<1> QED  BY <1>1, <1>2 DEF SomeTodo

\* What is deferred belongs to a step of the call.
LEMMA TodoRange ==
  ASSUME DefersKnown, NEW a, NEW p, Todo(a, p)
  PROVE  p \in 1..step /\ (phase \notin Ended => p # step)
<1>1. PICK i \in DOMAIN defers : defers[i] = [do |-> a, at |-> p]
  BY DEF Todo, In
<1>2. defers[i].at = p
  BY <1>1
<1> QED  BY <1>2 DEF DefersKnown, DefersFit

\* Deferring one more.
LEMMA TodoPushed ==
  ASSUME CallTypes, DefersKnown, phase \notin Ended, NEW a \in Deferrable, Defer(a)
  PROVE  /\ \A b, p : Todo(b, p)' <=> Todo(b, p) \/ (b = a /\ p = step)
         /\ Once(defers)'
<1> DEFINE d == [do |-> a, at |-> step]
<1>1. defers \in Seq(Deferred) /\ d \in Deferred /\ defers' = Append(defers, d)
  BY DEF CallTypes, Deferred, Defer
<1>2. ~In(d, defers)
  BY TodoRange DEF Todo
<1>3. \A b, p : [do |-> b, at |-> p] = d <=> (b = a /\ p = step)
  OBVIOUS
<1> HIDE DEF d
<1>4. /\ \A e : In(e, defers') <=> In(e, defers) \/ e = d
      /\ Once(defers')
  BY <1>1, <1>2, Pushed DEF DefersKnown
<1>5. ASSUME NEW b, NEW p
      PROVE  Todo(b, p)' <=> Todo(b, p) \/ (b = a /\ p = step)
  BY <1>3, <1>4 DEF Todo
<1> QED  BY <1>4, <1>5

\* Deferring the two of a constructor of children.
LEMMA TodoPushedTwo ==
  ASSUME CallTypes, DefersKnown, phase \notin Ended,
         defers' = defers \o <<[do |-> "dropChild", at |-> step], [do |-> "release", at |-> step]>>
  PROVE  /\ \A b, p : Todo(b, p)' <=>
                        Todo(b, p) \/ (b \in {"dropChild", "release"} /\ p = step)
         /\ Once(defers)'
<1> DEFINE d == [do |-> "dropChild", at |-> step]
           e == [do |-> "release", at |-> step]
<1>1. /\ defers \in Seq(Deferred) /\ d \in Deferred /\ e \in Deferred
      /\ defers' = defers \o <<d, e>>
  BY DEF CallTypes, Deferred, Deferrable
<1>2. ~In(d, defers) /\ ~In(e, defers)
  BY TodoRange DEF Todo
<1>3. d # e
  <2>1. d.do # e.do
    OBVIOUS
  <2> QED  BY <2>1
<1>4. /\ \A b, p : [do |-> b, at |-> p] = d <=> (b = "dropChild" /\ p = step)
      /\ \A b, p : [do |-> b, at |-> p] = e <=> (b = "release" /\ p = step)
  OBVIOUS
<1> HIDE DEF d, e
<1>5. /\ \A f : In(f, defers') <=> In(f, defers) \/ f = d \/ f = e
      /\ Once(defers')
  BY <1>1, <1>2, <1>3, PushedTwo DEF DefersKnown
<1>6. ASSUME NEW b, NEW p
      PROVE  Todo(b, p)' <=> Todo(b, p) \/ (b \in {"dropChild", "release"} /\ p = step)
  BY <1>4, <1>5, SMTT(30) DEF Todo
<1> QED  BY <1>5, <1>6

\* Running the last.
LEMMA TodoPopped ==
  ASSUME CallTypes, DefersKnown, NEW a, AtDefer(a)
  PROVE  /\ \A b, p : Todo(b, p)' <=> Todo(b, p) /\ ~ (b = a /\ p = DeferredAt)
         /\ Todo(a, DeferredAt) /\ DeferredAt \in 1..step
         /\ Once(defers)'
<1> DEFINE d == [do |-> a, at |-> DeferredAt]
<1>1. /\ defers \in Seq(Deferred) /\ defers # <<>>
      /\ defers' = SubSeq(defers, 1, Len(defers) - 1)
  BY DEF CallTypes, AtDefer
<1>2. defers[Len(defers)] = d /\ Len(defers) \in DOMAIN defers
  BY LastDeferred
<1>3. \A b, p : [do |-> b, at |-> p] = d <=> (b = a /\ p = DeferredAt)
  OBVIOUS
<1>4. Todo(a, DeferredAt)
  BY <1>2 DEF Todo, In
<1> HIDE DEF d
<1>5. /\ \A e : In(e, defers') <=> In(e, defers) /\ e # d
      /\ Once(defers')
  BY <1>1, <1>2, Popped DEF DefersKnown
<1>6. ASSUME NEW b, NEW p
      PROVE  Todo(b, p)' <=> Todo(b, p) /\ ~ (b = a /\ p = DeferredAt)
  BY <1>3, <1>5 DEF Todo
<1> QED  BY <1>4, <1>5, <1>6, TodoRange

\* A step of the prologue that acquires something defers what gives it back.
LEMMA DefersGrow ==
  ASSUME CallTypes, CallTypes', ArgsKnown, DefersKnown,
         phase = "prologue", shape' = shape, NextStep, step \in DOMAIN Steps, Once(defers)',
         \A p \in DOMAIN passed : p \in DOMAIN passed' /\ passed'[p] = passed[p],
         \A p \in DOMAIN drawn : p \in DOMAIN drawn' /\ drawn'[p] = drawn[p],
         DOMAIN passed' \subseteq DOMAIN passed \union {step},
         DOMAIN drawn' \subseteq DOMAIN drawn \union {step},
         NEW New, \A a, p : Todo(a, p)' <=> Todo(a, p) \/ (p = step /\ a \in New),
         "release" \in New <=> step \in DOMAIN passed' /\ passed'[step] # "nil",
         "dropChild" \in New <=> step \in DOMAIN passed' /\ Steps[step].kind = "child",
         "delete" \in New <=> step \in DOMAIN drawn' /\ Steps[step].kind = "lend",
         "unoffer" \in New <=> step \in DOMAIN drawn' /\ Steps[step].kind = "offer"
  PROVE  DefersKnown'
<1>1. /\ shape \in CallShapesUsed /\ step \in Nat /\ step \in 1..(Len(Steps) + 1)
      /\ step' = step + 1 /\ phase' = "prologue" /\ Steps' = Steps
  BY SameShape DEF ArgsKnown, CallTypes, NextStep
<1>2. \A a, p : Todo(a, p)' => p \in 1..step
  BY <1>1, TodoRange
<1>3. \A i \in DOMAIN defers' : defers'[i].at \in 1..step
  <2>1. \A i \in DOMAIN defers' : defers'[i] = [do |-> defers'[i].do, at |-> defers'[i].at]
    BY DeferredRecords DEF CallTypes
  <2> QED  BY <1>2, <2>1 DEF Todo, In
<1>4. DefersFit'
  <2>1. \A i \in DOMAIN defers' : defers'[i].at \in 1..step' /\ defers'[i].at # step'
    BY <1>1, <1>3
  <2>2. ASSUME NEW p \in 1..step'
        PROVE  /\ Todo("release", p)' => p \in DOMAIN passed' /\ passed'[p] # "nil"
               /\ Todo("dropChild", p)' =>
                    p = 1 /\ 1 \in DOMAIN passed' /\ shape'.gives = "child"
               /\ Todo("delete", p)' => p \in DOMAIN drawn' /\ Steps'[p].kind = "lend"
               /\ Todo("unoffer", p)' => p \in DOMAIN drawn' /\ Steps'[p].kind = "offer"
    <3>1. CASE p = step
      <4>1. \A a : ~Todo(a, p)
        BY <3>1, <1>1, TodoRange DEF Ended
      <4>2. Steps[step].kind = "child" => step = 1 /\ shape.gives = "child"
        BY <1>1, ShapeRules
      <4> QED  BY <1>1, <3>1, <4>1, <4>2
    <3>2. CASE p # step
      <4>1. \A a : Todo(a, p)' => Todo(a, p) /\ p \in 1..step
        BY <3>2, TodoRange
      <4> QED  BY <1>1, <4>1 DEF DefersKnown, DefersFit
    <3> QED  BY <3>1, <3>2
  <2> QED  BY <1>1, <2>1, <2>2 DEF DefersFit
<1>5. DefersAll'
  <2>1. DefersAll
    BY DEF DefersKnown, Ended
  <2>2. ASSUME NEW p \in DOMAIN passed', passed'[p] # "nil" PROVE Todo("release", p)'
    BY <2>1, <2>2 DEF DefersAll
  <2>3. (1 \in DOMAIN passed' /\ shape'.gives = "child") => Todo("dropChild", 1)'
    <3>1. shape.gives = "child" => Steps[1].kind = "child"
      BY <1>1, ShapeRules
    <3> QED  BY <2>1, <3>1 DEF DefersAll
  <2>4. ASSUME NEW p \in DOMAIN drawn'
        PROVE  /\ Steps'[p].kind = "lend" => Todo("delete", p)'
               /\ Steps'[p].kind = "offer" => Todo("unoffer", p)'
    BY <1>1, <2>1 DEF DefersAll
  <2> QED  BY <2>2, <2>3, <2>4 DEF DefersAll
<1> QED  BY <1>1, <1>4, <1>5 DEF DefersKnown, Ended

-----------------------------------------------------------------------------
\* Where the deferred functions stay, and the arguments too, so does what is
\* known of them.
LEMMA DefersStay ==
  ASSUME DefersKnown, UNCHANGED <<shape, step, passed, drawn, defers>>,
         phase # "idle", phase' # "idle", phase' \notin Ended => phase \notin Ended
  PROVE  DefersKnown'
<1>1. Steps' = Steps /\ Once(defers)' /\ \A a, p : Todo(a, p)' <=> Todo(a, p)
  BY SameShape DEF Todo, DefersKnown
<1>2. DefersFit'
  BY <1>1 DEF DefersKnown, DefersFit
<1>3. DefersAll => DefersAll'
  BY <1>1 DEF DefersAll
<1> QED  BY <1>1, <1>2, <1>3 DEF DefersKnown

\* Nor does it change where the phase stays too.
LEMMA DefersSame ==
  ASSUME DefersKnown, UNCHANGED <<shape, phase, step, passed, drawn, defers>>
  PROVE  DefersKnown'
<1>1. Steps' = Steps /\ Once(defers)' /\ \A a, p : Todo(a, p)' <=> Todo(a, p)
  BY SameShape DEF Todo, DefersKnown
<1>2. DefersFit'
  BY <1>1 DEF DefersKnown, DefersFit
<1>3. DefersAll => DefersAll'
  BY <1>1 DEF DefersAll
<1> QED  BY <1>1, <1>2, <1>3 DEF DefersKnown

\* Running a deferred function leaves the others as they are.
LEMMA DefersPop ==
  ASSUME CallTypes, CallTypes', DefersKnown, NEW a, AtDefer(a),
         UNCHANGED <<shape, phase, step, passed, drawn>>
  PROVE  DefersKnown'
<1>1. Steps' = Steps /\ Once(defers)' /\ \A b, p : Todo(b, p)' => Todo(b, p)
  BY SameShape, TodoPopped
<1>2. \A i \in DOMAIN defers' : defers'[i].at \in 1..step
  <2>1. \A i \in DOMAIN defers' : defers'[i] = [do |-> defers'[i].do, at |-> defers'[i].at]
    BY DeferredRecords DEF CallTypes
  <2> QED  BY <1>1, <2>1, TodoRange DEF Todo, In
<1>3. phase = "unwind" /\ phase \in Ended
  BY DEF AtDefer, Ended
<1>4. DefersFit'
  BY <1>1, <1>2, <1>3 DEF DefersKnown, DefersFit
<1> QED  BY <1>1, <1>3, <1>4 DEF DefersKnown

\* Every step of the prologue defers what undoes it.
LEMMA PrologueDefers ==
  ASSUME CallTypes, CallTypes', ArgsKnown, ArgsKnown', DefersKnown,
         \/ Acquire \/ PassNothing \/ PassCheck \/ DrawToken \/ Watch \/ Link \/ TakeScratch
  PROVE  DefersKnown'
<1> USE DEF handleVars, registryVars, frameVars, cancelVars, resultVars, lossVars
<1>1. /\ phase = "prologue" /\ phase \notin Ended /\ shape' = shape /\ NextStep
      /\ step \in DOMAIN Steps /\ shape \in CallShapesUsed /\ step \in Nat
  BY DEF Acquire, PassNothing, PassCheck, DrawToken, Watch, Link, TakeScratch, AtStep, Ended,
         ArgsKnown, CallTypes
<1>2. step \notin DOMAIN passed /\ step \notin DOMAIN drawn
  BY <1>1 DEF ArgsKnown
<1>3. \A p \in DOMAIN drawn : p \in DOMAIN drawn
  OBVIOUS
<1>4. CASE Acquire
  <2>1. PICK h \in PassedHandles : passed' = With(passed, step, h)
    BY <1>4 DEF Acquire
  <2>2. /\ DOMAIN passed' = DOMAIN passed \union {step} /\ passed'[step] = h /\ h # "nil"
        /\ \A p \in DOMAIN passed : passed'[p] = passed[p]
    BY <1>2, <2>1, CallsAssumption DEF With
  <2>3. drawn' = drawn /\ Steps[step].kind \in HandleSteps
    BY <1>4 DEF Acquire, AtStep
  <2>4. CASE Steps[step].kind = "child"
    <3>1. /\ \A b, p : Todo(b, p)' <=>
                         Todo(b, p) \/ (b \in {"dropChild", "release"} /\ p = step)
          /\ Once(defers)'
      BY <1>1, <1>4, <2>4, TodoPushedTwo DEF Acquire
    <3>2. PICK New : New = {"dropChild", "release"}
      OBVIOUS
    <3>3. \A b, p : Todo(b, p)' <=> Todo(b, p) \/ (p = step /\ b \in New)
      BY <3>1, <3>2
    <3>4. /\ "release" \in New /\ "dropChild" \in New
          /\ "delete" \notin New /\ "unoffer" \notin New
      BY <3>2
    <3> QED  BY <1>1, <1>2, <2>2, <2>3, <2>4, <3>1, <3>3, <3>4, DefersGrow
  <2>5. CASE Steps[step].kind # "child"
    <3>1. /\ \A b, p : Todo(b, p)' <=> Todo(b, p) \/ (b = "release" /\ p = step)
          /\ Once(defers)'
      BY <1>1, <1>4, <2>5, TodoPushed DEF Acquire, Deferrable
    <3>2. PICK New : New = {"release"}
      OBVIOUS
    <3>3. \A b, p : Todo(b, p)' <=> Todo(b, p) \/ (p = step /\ b \in New)
      BY <3>1, <3>2
    <3>4. /\ "release" \in New /\ "dropChild" \notin New
          /\ "delete" \notin New /\ "unoffer" \notin New
      BY <3>2
    <3> QED  BY <1>1, <1>2, <2>2, <2>3, <2>5, <3>1, <3>3, <3>4, DefersGrow
  <2> QED  BY <2>4, <2>5
<1>5. CASE PassNothing
  <2>1. /\ DOMAIN passed' = DOMAIN passed \union {step} /\ passed'[step] = "nil"
        /\ \A p \in DOMAIN passed : passed'[p] = passed[p]
    BY <1>2, <1>5 DEF PassNothing, With
  <2>2. drawn' = drawn /\ defers' = defers /\ Steps[step].kind = "opt"
    BY <1>5 DEF PassNothing, AtStep
  <2>3. PICK New : New = {}
    OBVIOUS
  <2>4. Once(defers)' /\ \A b, p : Todo(b, p)' <=> Todo(b, p) \/ (p = step /\ b \in New)
    BY <2>2, <2>3 DEF Todo, DefersKnown
  <2> QED  BY <1>1, <1>2, <2>1, <2>2, <2>3, <2>4, DefersGrow
<1>6. CASE DrawToken
  <2>1. PICK t : drawn' = With(drawn, step, t)
    BY <1>6 DEF DrawToken
  <2>2. /\ DOMAIN drawn' = DOMAIN drawn \union {step}
        /\ \A p \in DOMAIN drawn : drawn'[p] = drawn[p]
    BY <1>2, <2>1 DEF With
  <2>3. passed' = passed /\ Steps[step].kind \in TokenSteps
    BY <1>6 DEF DrawToken, AtStep
  <2>4. Once(defers)'
        /\ \E New : /\ \A b, p : Todo(b, p)' <=> Todo(b, p) \/ (p = step /\ b \in New)
                    /\ "release" \notin New /\ "dropChild" \notin New
                    /\ "delete" \in New <=> Steps[step].kind = "lend"
                    /\ "unoffer" \in New <=> Steps[step].kind = "offer"
    <3>1. CASE Steps[step].kind = "lend"
      <4>1. /\ \A b, p : Todo(b, p)' <=> Todo(b, p) \/ (b = "delete" /\ p = step)
            /\ Once(defers)'
        BY <1>1, <1>6, <3>1, TodoPushed DEF DrawToken, Deferrable
      <4>2. PICK New : New = {"delete"}
        OBVIOUS
      <4> QED  BY <3>1, <4>1, <4>2
    <3>2. CASE Steps[step].kind = "offer"
      <4>1. /\ \A b, p : Todo(b, p)' <=> Todo(b, p) \/ (b = "unoffer" /\ p = step)
            /\ Once(defers)'
        BY <1>1, <1>6, <3>2, TodoPushed DEF DrawToken, Deferrable
      <4>2. PICK New : New = {"unoffer"}
        OBVIOUS
      <4> QED  BY <3>2, <4>1, <4>2
    <3>3. CASE Steps[step].kind = "keep"
      <4>1. Once(defers)' /\ \A b, p : Todo(b, p)' <=> Todo(b, p)
        BY <1>6, <3>3 DEF DrawToken, Todo, DefersKnown
      <4>2. PICK New : New = {}
        OBVIOUS
      <4> QED  BY <3>3, <4>1, <4>2
    <3> QED  BY <2>3, <3>1, <3>2, <3>3 DEF TokenSteps
  <2>5. Steps[step].kind # "child"
    BY <2>3 DEF TokenSteps
  <2> QED  BY <1>1, <1>2, <2>2, <2>3, <2>4, <2>5, DefersGrow
<1>7. CASE PassCheck \/ Watch \/ Link \/ TakeScratch
  <2>1. UNCHANGED <<passed, drawn>> /\ step \notin DOMAIN passed' /\ step \notin DOMAIN drawn'
    BY <1>2, <1>7 DEF PassCheck, Watch, Link, TakeScratch
  <2>2. \/ defers' = defers
        \/ \E b \in {"disarm", "unlink", "give"} : Defer(b)
    BY <1>7 DEF PassCheck, Watch, Link, TakeScratch
  <2>3. CASE defers' = defers
    <3>1. PICK New : New = {}
      OBVIOUS
    <3>2. Once(defers)' /\ \A b, p : Todo(b, p)' <=> Todo(b, p) \/ (p = step /\ b \in New)
      BY <2>3, <3>1 DEF Todo, DefersKnown
    <3> QED  BY <1>1, <2>1, <3>1, <3>2, DefersGrow
  <2>4. ASSUME NEW b \in {"disarm", "unlink", "give"}, Defer(b)
        PROVE  DefersKnown'
    <3>1. /\ \A c, p : Todo(c, p)' <=> Todo(c, p) \/ (c = b /\ p = step)
          /\ Once(defers)'
      BY <1>1, <2>4, TodoPushed DEF Deferrable
    <3>2. PICK New : New = {b}
      OBVIOUS
    <3>3. \A c, p : Todo(c, p)' <=> Todo(c, p) \/ (p = step /\ c \in New)
      BY <3>1, <3>2
    <3>4. /\ "release" \notin New /\ "dropChild" \notin New
          /\ "delete" \notin New /\ "unoffer" \notin New
      BY <2>4, <3>2
    <3> QED  BY <1>1, <2>1, <3>1, <3>3, <3>4, DefersGrow
  <2> QED  BY <2>2, <2>3, <2>4
<1> QED  BY <1>4, <1>5, <1>6, <1>7

\* At every step the deferred functions are those that undo what was done.
LEMMA DefersNext ==
  ASSUME CallTypes, CallTypes', ArgsKnown, ArgsKnown', DefersKnown, CallNext
  PROVE  DefersKnown'
<1> USE DEF handleVars, registryVars, frameVars, cancelVars, resultVars, lossVars
<1>1. CASE BeginCall
  <2>1. /\ defers = <<>> /\ defers' = <<>> /\ passed' = <<>> /\ drawn' = <<>>
        /\ phase' = "prologue"
    BY <1>1 DEF BeginCall, DefersKnown, ArgsKnown
  <2>2. DOMAIN defers' = {} /\ DOMAIN passed' = {} /\ DOMAIN drawn' = {}
    BY <2>1
  <2>3. \A a, p : ~Todo(a, p)'
    BY <2>2 DEF Todo, In
  <2>4. Once(defers)'
    BY <2>2 DEF Once
  <2> QED  BY <2>1, <2>2, <2>3, <2>4 DEF DefersKnown, DefersFit, DefersAll
<1>2. CASE \/ Acquire \/ PassNothing \/ PassCheck \/ DrawToken \/ Watch \/ Link \/ TakeScratch
  BY <1>2, PrologueDefers
<1>3. CASE \/ Refuse \/ EnterNative \/ NativeReturnsStatus \/ NoPanicFound \/ NoErrorFound
           \/ StatusOk \/ RethrowPanic \/ ReturnCallbackError \/ ReturnStatus \/ GiveHandle \/ Adopt
  BY <1>3, DefersStay
  DEF Refuse, EnterNative, NativeReturnsStatus, NoPanicFound, NoErrorFound, StatusOk,
      RethrowPanic, ReturnCallbackError, ReturnStatus, GiveHandle, Adopt, AtStep, Leave, Ended
<1>4. CASE GiveValue
  <2>1. phase = "result" /\ phase \notin Ended /\ phase' = "unwind" /\ phase' \in Ended
        /\ UNCHANGED <<shape, step, passed, drawn>>
    BY <1>4 DEF GiveValue, Leave, Ended
  <2>2. CASE buffer # "held"
    BY <1>4, <2>1, <2>2, DefersStay DEF GiveValue
  <2>3. CASE buffer = "held"
    <3>1. /\ \A b, p : Todo(b, p)' <=> Todo(b, p) \/ (b = "free" /\ p = step)
          /\ Once(defers)'
      BY <1>4, <2>1, <2>3, TodoPushed DEF GiveValue, Deferrable
    <3>2. step \in 1..step /\ Steps' = Steps
      BY <2>1, SameShape DEF ArgsKnown, CallTypes
    <3>3. \A i \in DOMAIN defers' : defers'[i].at \in 1..step
      <4>1. \A i \in DOMAIN defers' : defers'[i] = [do |-> defers'[i].do, at |-> defers'[i].at]
        BY DeferredRecords DEF CallTypes
      <4> QED  BY <3>1, <3>2, <4>1, TodoRange DEF Todo, In
    <3>4. DefersFit'
      BY <2>1, <3>1, <3>2, <3>3 DEF DefersKnown, DefersFit
    <3> QED  BY <2>1, <3>1, <3>4 DEF DefersKnown
  <2> QED  BY <2>2, <2>3
<1>5. CASE RunRelease \/ RunDropChild \/ RunDelete \/ RunUnlink \/ RunGive
  <2>1. UNCHANGED <<shape, phase, step, passed, drawn>> /\ \E a : AtDefer(a)
    BY <1>5 DEF RunRelease, RunDropChild, RunDelete, RunUnlink, RunGive
  <2> QED  BY <2>1, DefersPop
<1>6. CASE ReturnFromCall
  <2>1. phase' = "idle" /\ defers' = <<>> /\ step' = 0
    BY <1>6 DEF ReturnFromCall, AtReturn
  <2>2. Once(defers)' /\ DefersFit'
    BY <2>1 DEF Once, DefersFit, Ended
  <2> QED  BY <2>1, <2>2 DEF DefersKnown, Ended
<1>7. CASE CallbackFails \/ RetainedCallbackFails
           \/ ContextDone \/ AfterFunc \/ CloseHandle \/ Renew \/ CloseGiven
  BY <1>7, DefersSame DEF CallbackFails, RetainedCallbackFails, ContextDone, AfterFunc,
      CloseHandle, Renew, CloseGiven
<1> QED  BY <1>1, <1>2, <1>3, <1>4, <1>5, <1>6, <1>7 DEF CallNext

-----------------------------------------------------------------------------
(* Calls and places counted.                                               *)

\* An action nobody defers or runs is deferred where it was.
LEMMA TodoStays ==
  ASSUME CallTypes, DefersKnown, NEW a,
         \/ defers' = defers
         \/ phase \notin Ended /\ \E b \in Deferrable : b # a /\ Defer(b)
         \/ \E b : b # a /\ AtDefer(b)
  PROVE  \A p : Todo(a, p)' <=> Todo(a, p)
<1>1. CASE defers' = defers
  BY <1>1 DEF Todo
<1>2. ASSUME phase \notin Ended, NEW b \in Deferrable, b # a, Defer(b)
      PROVE  \A p : Todo(a, p)' <=> Todo(a, p)
  BY <1>2, TodoPushed
<1>3. ASSUME NEW b, b # a, AtDefer(b)
      PROVE  \A p : Todo(a, p)' <=> Todo(a, p)
  BY <1>3, TodoPopped
<1> QED  BY <1>1, <1>2, <1>3

\* A call counts a handle in finitely often.
LEMMA HeldFinite ==
  ASSUME ArgsKnown, NEW h
  PROVE  IsFiniteSet(HeldAt(h))
<1>1. CASE phase = "idle"
  <2>1. HeldAt(h) = {}
    BY <1>1 DEF ArgsKnown, HeldAt
  <2> QED  BY <2>1, FS_EmptySet
<1>2. CASE phase # "idle"
  <2>1. HeldAt(h) \subseteq 1..Len(Steps) /\ Len(Steps) \in Nat
    BY <1>2, ShapeFacts, PositionsOf DEF ArgsKnown, HeldAt
  <2>2. IsFiniteSet(1..Len(Steps))
    BY <2>1, FS_Interval
  <2> QED  BY <2>1, <2>2, FS_Subset
<1> QED  BY <1>1, <1>2

\* An argument of a call that has not ended is counted in and not destroyed.
LEMMA PassedPinned ==
  ASSUME ArgsKnown, DefersKnown, CountsKnown, phase \notin Ended,
         NEW p \in DOMAIN passed, passed[p] # "nil"
  PROVE  /\ passed[p] \in PassedHandles /\ p \in HeldAt(passed[p])
         /\ pinned[passed[p]] \in Nat \ {0} /\ passed[p] \notin destroyed
<1>1. passed[p] \in PassedHandles /\ p \in HeldAt(passed[p])
  BY DEF ArgsKnown, DefersKnown, DefersAll, HeldAt
<1>2. Cardinality(HeldAt(passed[p])) \in Nat \ {0}
  BY <1>1, HeldFinite, FS_CardinalityType, FS_EmptySet
<1> QED  BY <1>1, <1>2 DEF CountsKnown, PinsCount, SpoiledStay

\* What is held and reserved while arguments and deferred releases stay.
LEMMA HoldsStay ==
  ASSUME passed' = passed, \A p : Todo("release", p)' <=> Todo("release", p), NEW h
  PROVE  HeldAt(h)' = HeldAt(h)
  BY DEF HeldAt

\* Counts that nothing touches stay right.
LEMMA PinsStay ==
  ASSUME PinsCount, pinned' = pinned, \A h \in PassedHandles : HeldAt(h)' = HeldAt(h)
  PROVE  PinsCount'
  BY DEF PinsCount

\* Every count is the number of releases that are still to run.
LEMMA PinsNext ==
  ASSUME CallTypes, ArgsKnown, ArgsKnown', DefersKnown, PinsCount, CallNext
  PROVE  PinsCount'
<1> USE DEF handleVars, registryVars, frameVars, cancelVars, resultVars, lossVars
<1>1. CASE Acquire
  <2>1. PICK h \in PassedHandles :
          passed' = With(passed, step, h) /\ pinned' = [pinned EXCEPT ![h] = @ + 1]
    BY <1>1 DEF Acquire
  <2>2. phase \notin Ended /\ step \notin DOMAIN passed
    BY <1>1 DEF Acquire, AtStep, Ended, ArgsKnown, CallTypes
  <2>3. /\ DOMAIN passed' = DOMAIN passed \union {step} /\ passed'[step] = h
        /\ \A p \in DOMAIN passed : passed'[p] = passed[p]
    BY <2>1, <2>2 DEF With
  <2>4. \A p : Todo("release", p)' <=> Todo("release", p) \/ p = step
    <3>1. CASE Steps[step].kind = "child"
      <4>1. defers' = defers \o <<[do |-> "dropChild", at |-> step],
                                 [do |-> "release", at |-> step]>>
        BY <1>1, <3>1 DEF Acquire
      <4>2. \A b, p : Todo(b, p)' <=>
                        Todo(b, p) \/ (b \in {"dropChild", "release"} /\ p = step)
        BY <2>2, <4>1, TodoPushedTwo
      <4> QED  BY <4>2
    <3>2. CASE Steps[step].kind # "child"
      BY <1>1, <2>2, <3>2, TodoPushed DEF Acquire, Deferrable
    <3> QED  BY <3>1, <3>2
  <2>5. HeldAt(h)' = HeldAt(h) \union {step} /\ step \notin HeldAt(h)
    BY <2>2, <2>3, <2>4, TodoRange DEF HeldAt
  <2>6. \A g \in PassedHandles : g # h => HeldAt(g)' = HeldAt(g)
    BY <2>2, <2>3, <2>4, TodoRange DEF HeldAt
  <2>7. Cardinality(HeldAt(h)') = Cardinality(HeldAt(h)) + 1
    BY <2>5, HeldFinite, FS_AddElement
  <2> QED  BY <2>1, <2>6, <2>7 DEF PinsCount, CallTypes
<1>2. CASE RunRelease
  <2>1. PICK h \in PassedHandles :
          h = passed[DeferredAt] /\ pinned' = [pinned EXCEPT ![h] = @ - 1] /\ passed' = passed
    BY <1>2, ReleaseIsOfHandle DEF RunRelease
  <2>2. /\ \A p : Todo("release", p)' <=> Todo("release", p) /\ p # DeferredAt
        /\ Todo("release", DeferredAt) /\ DeferredAt \in DOMAIN passed
    BY <1>2, TodoPopped, ReleaseIsOfHandle DEF RunRelease
  <2>3. HeldAt(h)' = HeldAt(h) \ {DeferredAt} /\ DeferredAt \in HeldAt(h)
    BY <2>1, <2>2 DEF HeldAt
  <2>4. \A g \in PassedHandles : g # h => HeldAt(g)' = HeldAt(g)
    BY <2>1, <2>2 DEF HeldAt
  <2>5. Cardinality(HeldAt(h)') = Cardinality(HeldAt(h)) - 1
    BY <2>3, HeldFinite, FS_RemoveElement
  <2> QED  BY <2>1, <2>4, <2>5 DEF PinsCount, CallTypes
<1>3. CASE BeginCall \/ ReturnFromCall
  <2>1. defers = <<>> /\ defers' = <<>> /\ pinned' = pinned
    BY <1>3 DEF BeginCall, ReturnFromCall, AtReturn, DefersKnown
  <2>2. \A h : HeldAt(h)' = {} /\ HeldAt(h) = {}
    BY <2>1 DEF HeldAt, Todo, In
  <2> QED  BY <2>1, <2>2, PinsStay
<1>4. CASE PassNothing
  <2>1. step \notin DOMAIN passed /\ passed' = With(passed, step, "nil") /\ pinned' = pinned
    BY <1>4 DEF PassNothing, AtStep, Ended, ArgsKnown, CallTypes
  <2>2. \A p : Todo("release", p)' <=> Todo("release", p)
    BY <1>4 DEF PassNothing, Todo
  <2>3. /\ DOMAIN passed' = DOMAIN passed \union {step} /\ passed'[step] = "nil"
        /\ \A p \in DOMAIN passed : passed'[p] = passed[p]
    BY <2>1 DEF With
  <2>4. \A h \in PassedHandles : HeldAt(h)' = HeldAt(h)
    BY <2>2, <2>3, CallsAssumption DEF HeldAt
  <2> QED  BY <2>1, <2>4, PinsStay
<1>5. CASE DrawToken \/ Watch \/ Link \/ TakeScratch \/ GiveValue
  <2>1. passed' = passed /\ pinned' = pinned /\ phase \notin Ended
    BY <1>5 DEF DrawToken, Watch, Link, TakeScratch, GiveValue, AtStep, Ended
  <2>2. \/ defers' = defers
        \/ \E b \in {"delete", "unoffer", "disarm", "unlink", "give", "free"} : Defer(b)
    BY <1>5 DEF DrawToken, Watch, Link, TakeScratch, GiveValue
  <2>3. \A p : Todo("release", p)' <=> Todo("release", p)
    BY <2>1, <2>2, TodoStays DEF Deferrable
  <2> QED  BY <2>1, <2>3, HoldsStay, PinsStay
<1>6. CASE RunDropChild \/ RunDelete \/ RunUnlink \/ RunGive
  <2>1. passed' = passed /\ pinned' = pinned
        /\ \E b \in {"dropChild", "delete", "unoffer", "unlink", "disarm", "give", "free"} :
             AtDefer(b)
    BY <1>6 DEF RunDropChild, RunDelete, RunUnlink, RunGive
  <2>2. \A p : Todo("release", p)' <=> Todo("release", p)
    BY <2>1, TodoStays
  <2> QED  BY <2>1, <2>2, HoldsStay, PinsStay
<1>7. CASE \/ Refuse \/ PassCheck \/ EnterNative \/ CallbackFails \/ RetainedCallbackFails
           \/ ContextDone \/ AfterFunc
           \/ NativeReturnsStatus \/ RethrowPanic \/ NoPanicFound \/ ReturnCallbackError
           \/ NoErrorFound \/ ReturnStatus \/ StatusOk \/ GiveHandle \/ Adopt
           \/ CloseHandle \/ Renew \/ CloseGiven
  <2>1. passed' = passed /\ pinned' = pinned /\ defers' = defers
    BY <1>7
    DEF Refuse, PassCheck, EnterNative, CallbackFails, RetainedCallbackFails, ContextDone, AfterFunc,
        NativeReturnsStatus, RethrowPanic, NoPanicFound, ReturnCallbackError,
        NoErrorFound, ReturnStatus, StatusOk, GiveHandle, Adopt, CloseHandle, Renew, CloseGiven
  <2>2. \A p : Todo("release", p)' <=> Todo("release", p)
    BY <2>1 DEF Todo
  <2> QED  BY <2>1, <2>2, HoldsStay, PinsStay
<1> QED  BY <1>1, <1>2, <1>3, <1>4, <1>5, <1>6, <1>7 DEF CallNext

-----------------------------------------------------------------------------
\* A reserved place stays reserved while its deferred function stays.
LEMMA ReservesStay ==
  ASSUME passed' = passed, \A p : Todo("dropChild", p)' <=> Todo("dropChild", p),
         answer' # "ok" <=> answer # "ok", NEW h
  PROVE  Reserves(h)' <=> Reserves(h)
  BY DEF Reserves

\* Places that nothing touches stay counted.
LEMMA PlacesStay ==
  ASSUME PlacesCount, offspring' = offspring, given' = given,
         \A h \in PassedHandles : Reserves(h)' <=> Reserves(h)
  PROVE  PlacesCount'
  BY DEF PlacesCount

\* A constructor of children reserves a place in its parent.
LEMMA AcquirePlaces ==
  ASSUME CallTypes, ArgsKnown, DefersKnown, PlacesCount, Acquire
  PROVE  PlacesCount'
<1>1. PICK h \in PassedHandles :
        /\ passed' = With(passed, step, h)
        /\ Steps[step].kind = "child" => offspring' = [offspring EXCEPT ![h] = @ + 1]
        /\ Steps[step].kind # "child" => offspring' = offspring
  BY DEF Acquire
<1>2. /\ phase \notin Ended /\ step \notin DOMAIN passed /\ answer = "none" /\ answer' = "none"
      /\ shape \in CallShapesUsed /\ step \in DOMAIN Steps /\ given' = given
  BY DEF Acquire, AtStep, Ended, ArgsKnown, CallTypes, resultVars
<1>3. /\ DOMAIN passed' = DOMAIN passed \union {step} /\ passed'[step] = h
      /\ \A p \in DOMAIN passed : passed'[p] = passed[p]
  BY <1>1, <1>2 DEF With
<1>4. CASE Steps[step].kind = "child"
  <2>1. defers' = defers \o <<[do |-> "dropChild", at |-> step],
                              [do |-> "release", at |-> step]>>
    BY <1>4 DEF Acquire
  <2>2. \A b, p : Todo(b, p)' <=>
                    Todo(b, p) \/ (b \in {"dropChild", "release"} /\ p = step)
    BY <1>2, <2>1, TodoPushedTwo
  <2>3. step = 1
    BY <1>2, <1>4, ShapeRules
  <2>4. Todo("dropChild", 1)' /\ \A g : ~Reserves(g)
    BY <1>2, <2>2, <2>3 DEF Reserves
  <2>5. \A g \in PassedHandles : Reserves(g)' <=> g = h
    BY <1>2, <1>3, <2>3, <2>4 DEF Reserves
  <2> QED  BY <1>1, <1>2, <1>4, <2>4, <2>5 DEF PlacesCount, CallTypes
<1>5. CASE Steps[step].kind # "child"
  <2>1. \A p : Todo("dropChild", p)' <=> Todo("dropChild", p)
    BY <1>2, <1>5, TodoStays DEF Acquire, Deferrable
  <2>2. \A g \in PassedHandles : Reserves(g)' <=> Reserves(g)
    <3>1. Todo("dropChild", 1) => 1 \in DOMAIN passed
      BY TodoRange DEF DefersKnown, DefersFit
    <3> QED  BY <1>2, <1>3, <2>1, <3>1 DEF Reserves
  <2> QED  BY <1>1, <1>2, <1>5, <2>2, PlacesStay
<1> QED  BY <1>4, <1>5

\* The place a constructor reserved becomes the child's.
LEMMA GivePlaces ==
  ASSUME CallTypes, ArgsKnown, DefersKnown, PlacesCount, GivenWaits,
         GiveHandle \/ Adopt \/ GiveValue
  PROVE  PlacesCount'
<1>1. /\ phase = "result" /\ phase \notin Ended /\ shape \in CallShapesUsed
      /\ answer = "none" /\ answer' = "ok"
      /\ UNCHANGED <<passed, offspring>>
  BY DEF GiveHandle, Adopt, GiveValue, Leave, ArgsKnown, Ended, handleVars, frameVars
<1>2. \A h : ~Reserves(h)'
  BY <1>1 DEF Reserves
<1>3. CASE GiveHandle
  <2>1. /\ given = None
        /\ given'.parent = IF shape.gives = "child" THEN passed[1] ELSE "none"
    BY <1>1, <1>3 DEF GiveHandle, GivenWaits
  <2>2. \A h \in PassedHandles : given.parent # h
    BY <2>1, CallsAssumption DEF None
  <2>3. CASE shape.gives = "child"
    <3>1. 1 \in DOMAIN passed
      BY <1>1, <2>3, ReceiverIsThere DEF Swept
    <3>2. Todo("dropChild", 1)
      BY <1>1, <2>3, <3>1 DEF DefersKnown, DefersAll
    <3>3. \A h \in PassedHandles : Reserves(h) <=> passed[1] = h
      BY <1>1, <3>1, <3>2 DEF Reserves
    <3> QED  BY <1>1, <1>2, <2>1, <2>2, <2>3, <3>3 DEF PlacesCount
  <2>4. CASE shape.gives # "child"
    <3>1. \A h : ~Reserves(h)
      BY <2>4, TodoRange DEF Reserves, DefersKnown, DefersFit
    <3>2. \A h \in PassedHandles : given'.parent # h
      BY <2>1, <2>4, CallsAssumption
    <3> QED  BY <1>1, <1>2, <2>2, <3>1, <3>2 DEF PlacesCount
  <2> QED  BY <2>3, <2>4
<1>4. CASE Adopt \/ GiveValue
  <2>1. shape.gives # "child" /\ given' = given
    <3>1. CASE Adopt
      <4>1. PICK p : p \in Positions({"offer"})
        BY <3>1 DEF Adopt
      <4> QED  BY <1>1, <3>1, <4>1, ShapeRules, PositionsOf DEF Adopt, resultVars
    <3>2. CASE GiveValue
      BY <3>2 DEF GiveValue, resultVars
    <3> QED  BY <1>4, <3>1, <3>2
  <2>2. \A h : ~Reserves(h)
    BY <2>1, TodoRange DEF Reserves, DefersKnown, DefersFit
  <2> QED  BY <1>1, <1>2, <2>1, <2>2, PlacesStay
<1> QED  BY <1>3, <1>4

\* Every place counted is a child's or reserved.
LEMMA PlacesNext ==
  ASSUME CallTypes, ArgsKnown, DefersKnown, PlacesCount, GivenWaits, CallNext
  PROVE  PlacesCount'
<1> USE DEF handleVars, registryVars, frameVars, cancelVars, resultVars, lossVars
<1>1. CASE RunDropChild
  <2>1. /\ \A p : Todo("dropChild", p)' <=> Todo("dropChild", p) /\ p # DeferredAt
        /\ Todo("dropChild", DeferredAt) /\ DeferredAt \in 1..step
    BY <1>1, TodoPopped DEF RunDropChild
  <2>2. DeferredAt = 1 /\ 1 \in DOMAIN passed /\ shape.gives = "child" /\ phase # "idle"
    BY <1>1, <2>1 DEF DefersKnown, DefersFit, RunDropChild, AtDefer
  <2>3. passed[1] \in PassedHandles
    <3>1. shape \in CallShapesUsed
      BY <2>2 DEF ArgsKnown
    <3>2. Steps[1].kind # "opt"
      BY <2>2, <3>1, ShapeRules
    <3> QED  BY <2>2, <3>2 DEF ArgsKnown
  <2>4. \A h : ~Reserves(h)'
    BY <2>1, <2>2 DEF Reserves
  <2>5. \A h \in PassedHandles : Reserves(h) <=> passed[1] = h /\ answer # "ok"
    BY <2>1, <2>2 DEF Reserves
  <2>6. given' = given /\ offspring' = IF answer = "ok" THEN offspring
                                       ELSE [offspring EXCEPT ![passed[1]] = @ - 1]
    BY <1>1, <2>2 DEF RunDropChild, KeepsPlace
  <2>7. CASE answer = "ok"
    BY <2>4, <2>5, <2>6, <2>7, PlacesStay
  <2>8. CASE answer # "ok"
    BY <2>3, <2>4, <2>5, <2>6, <2>8 DEF PlacesCount, CallTypes
  <2> QED  BY <2>7, <2>8
<1>2. CASE BeginCall \/ ReturnFromCall \/ CloseGiven
  <2>1. defers = <<>> /\ defers' = <<>>
    BY <1>2 DEF BeginCall, ReturnFromCall, CloseGiven, AtReturn, DefersKnown
  <2>2. \A h : ~Reserves(h)' /\ ~Reserves(h)
    BY <2>1 DEF Reserves, Todo, In
  <2>3. CASE BeginCall \/ ReturnFromCall
    <3>1. offspring' = offspring /\ given' = given
      BY <2>3 DEF BeginCall, ReturnFromCall
    <3> QED  BY <2>2, <3>1, PlacesStay
  <2>4. CASE CloseGiven
    <3>1. /\ offspring' = [h \in PassedHandles |->
                             offspring[h] - (IF h = given.parent THEN 1 ELSE 0)]
          /\ given' = None
      BY <2>4 DEF CloseGiven
    <3>2. \A h \in PassedHandles : given'.parent # h
      BY <3>1, CallsAssumption DEF None
    <3> QED  BY <2>2, <3>1, <3>2 DEF PlacesCount
  <2> QED  BY <1>2, <2>3, <2>4
<1>3. CASE PassNothing
  <2>1. step \notin DOMAIN passed /\ passed' = With(passed, step, "nil")
        /\ UNCHANGED <<offspring, given, answer>>
    BY <1>3 DEF PassNothing, AtStep, Ended, ArgsKnown, CallTypes
  <2>2. Todo("dropChild", 1) => 1 \in DOMAIN passed
    BY TodoRange DEF DefersKnown, DefersFit
  <2>3. Todo("dropChild", 1)' <=> Todo("dropChild", 1)
    BY <1>3 DEF PassNothing, Todo
  <2>4. \A h \in PassedHandles : Reserves(h)' <=> Reserves(h)
    BY <2>1, <2>2, <2>3 DEF Reserves, With
  <2> QED  BY <2>1, <2>4, PlacesStay
<1>4. CASE DrawToken \/ Watch \/ Link \/ TakeScratch
  <2>1. UNCHANGED <<passed, offspring, given, answer>> /\ phase \notin Ended
    BY <1>4 DEF DrawToken, Watch, Link, TakeScratch, AtStep, Ended
  <2>2. \/ defers' = defers
        \/ \E b \in {"delete", "unoffer", "disarm", "unlink", "give"} : Defer(b)
    BY <1>4 DEF DrawToken, Watch, Link, TakeScratch
  <2>3. \A p : Todo("dropChild", p)' <=> Todo("dropChild", p)
    BY <2>1, <2>2, TodoStays DEF Deferrable
  <2> QED  BY <2>1, <2>3, ReservesStay, PlacesStay
<1>5. CASE RunRelease \/ RunDelete \/ RunUnlink \/ RunGive
  <2>1. UNCHANGED <<passed, offspring, given, answer>>
        /\ \E b \in {"release", "delete", "unoffer", "unlink", "disarm", "give", "free"} :
             AtDefer(b)
    BY <1>5 DEF RunRelease, RunDelete, RunUnlink, RunGive
  <2>2. \A p : Todo("dropChild", p)' <=> Todo("dropChild", p)
    BY <2>1, TodoStays
  <2> QED  BY <2>1, <2>2, ReservesStay, PlacesStay
<1>6. CASE \/ PassCheck \/ EnterNative \/ CallbackFails \/ RetainedCallbackFails
           \/ ContextDone \/ AfterFunc
           \/ NativeReturnsStatus \/ NoPanicFound \/ NoErrorFound \/ StatusOk
           \/ CloseHandle \/ Renew
           \/ Refuse \/ RethrowPanic \/ ReturnCallbackError \/ ReturnStatus
  <2>1. UNCHANGED <<passed, offspring, given, defers>>
    BY <1>6
    DEF PassCheck, EnterNative, CallbackFails, RetainedCallbackFails, ContextDone, AfterFunc,
        NativeReturnsStatus,
        NoPanicFound, NoErrorFound, StatusOk, CloseHandle, Renew, Refuse, RethrowPanic,
        ReturnCallbackError, ReturnStatus
  <2>2. answer' # "ok" <=> answer # "ok"
    <3>1. CASE Refuse \/ RethrowPanic \/ ReturnCallbackError \/ ReturnStatus
      <4>1. answer = "none"
        BY <3>1 DEF Refuse, RethrowPanic, ReturnCallbackError, ReturnStatus, AtStep, ArgsKnown,
                    Ended
      <4>2. answer' # "ok"
        BY <3>1 DEF Refuse, RethrowPanic, ReturnCallbackError, ReturnStatus, Leave
      <4> QED  BY <4>1, <4>2
    <3>2. CASE ~(Refuse \/ RethrowPanic \/ ReturnCallbackError \/ ReturnStatus)
      BY <1>6, <3>2
      DEF PassCheck, EnterNative, CallbackFails, RetainedCallbackFails, ContextDone,
          AfterFunc, NativeReturnsStatus,
          NoPanicFound, NoErrorFound, StatusOk, CloseHandle, Renew
    <3> QED  BY <3>1, <3>2
  <2>3. \A p : Todo("dropChild", p)' <=> Todo("dropChild", p)
    BY <2>1 DEF Todo
  <2> QED  BY <2>1, <2>2, <2>3, ReservesStay, PlacesStay
<1>7. CASE Acquire
  BY <1>7, AcquirePlaces
<1>8. CASE GiveHandle \/ Adopt \/ GiveValue
  BY <1>8, GivePlaces
<1> QED  BY <1>1, <1>2, <1>3, <1>4, <1>5, <1>6, <1>7, <1>8 DEF CallNext

\* A constructor starts without a handle to give.
LEMMA GivenNext ==
  ASSUME ArgsKnown, GivenWaits, CallNext
  PROVE  GivenWaits'
<1> USE DEF handleVars, registryVars, frameVars, cancelVars, resultVars, lossVars
<1>1. CASE BeginCall
  <2>1. PICK s \in CallShapesUsed : shape' = s /\ (s.gives \in {"handle", "child"} => given = None)
    BY <1>1 DEF BeginCall
  <2>2. given' = given
    BY <1>1 DEF BeginCall
  <2> QED  BY <2>1, <2>2 DEF GivenWaits
<1>2. CASE \/ RunRelease \/ RunDropChild \/ RunDelete \/ RunUnlink \/ RunGive \/ ReturnFromCall
           \/ Renew \/ CloseGiven \/ Refuse \/ RethrowPanic \/ ReturnCallbackError \/ ReturnStatus
           \/ GiveHandle \/ Adopt \/ GiveValue
  <2>1. phase' \in Ended
    BY <1>2 DEF RunRelease, RunDropChild, RunDelete, RunUnlink, RunGive, ReturnFromCall, AtDefer,
        Renew, CloseGiven, Refuse, RethrowPanic, ReturnCallbackError, ReturnStatus, Leave,
        GiveHandle, Adopt, GiveValue, Ended
  <2> QED  BY <2>1 DEF GivenWaits
<1>3. CASE \/ Acquire \/ PassNothing \/ PassCheck \/ DrawToken \/ Watch \/ Link \/ TakeScratch
           \/ EnterNative \/ NativeReturnsStatus \/ NoPanicFound \/ NoErrorFound \/ StatusOk
           \/ CallbackFails \/ RetainedCallbackFails
           \/ ContextDone \/ AfterFunc \/ CloseHandle
  <2>1. UNCHANGED <<shape, given>> /\ (phase' \notin Ended => phase \notin Ended)
    BY <1>3
    DEF Acquire, PassNothing, PassCheck, DrawToken, Watch, Link, TakeScratch, AtStep, NextStep,
        EnterNative, NativeReturnsStatus, NoPanicFound, NoErrorFound, StatusOk,
        CallbackFails, RetainedCallbackFails, ContextDone, AfterFunc, CloseHandle, Ended
  <2> QED  BY <2>1 DEF GivenWaits
<1> QED  BY <1>1, <1>2, <1>3 DEF CallNext

\* What is destroyed is closed, unpinned and not poisoned.
LEMMA SpoiledNext ==
  ASSUME CallTypes, ArgsKnown, ArgsKnown', DefersKnown, CountsKnown, PinsCount', CallNext
  PROVE  SpoiledStay'
<1> USE DEF handleVars, registryVars, frameVars, cancelVars, resultVars, lossVars
<1> USE DEF CountsKnown
<1>1. CASE Acquire
  <2>1. PICK h \in PassedHandles : Usable(h) /\ pinned' = [pinned EXCEPT ![h] = @ + 1]
    BY <1>1 DEF Acquire
  <2>2. h \notin destroyed
    BY <2>1 DEF SpoiledStay, Usable
  <2>3. UNCHANGED <<shut, spoiled, destroyed>> /\ phase' # "unwind"
    BY <1>1 DEF Acquire, AtStep, NextStep
  <2> QED  BY <2>1, <2>2, <2>3 DEF SpoiledStay, CallTypes
<1>2. CASE RunRelease
  <2>1. PICK h \in PassedHandles :
          /\ pinned' = [pinned EXCEPT ![h] = @ - 1]
          /\ \/ h \in shut /\ LastCall(h, 1) /\ Reap(h)
             \/ destroyed' = destroyed
          /\ h = passed[DeferredAt]
    BY <1>2, ReleaseIsOfHandle DEF RunRelease
  <2>2. UNCHANGED <<shut, spoiled, phase, answer, passed>>
    BY <1>2 DEF RunRelease
  <2>3. pinned[h] # 0
    <3>1. DeferredAt \in HeldAt(h)
      BY <1>2, <2>1, TodoPopped, ReleaseIsOfHandle DEF RunRelease, HeldAt
    <3>2. Cardinality(HeldAt(h)) # 0
      BY <3>1, HeldFinite, FS_EmptySet
    <3> QED  BY <3>2 DEF PinsCount
  <2>4. h \notin destroyed
    BY <2>3 DEF SpoiledStay
  <2>5. CASE destroyed' = destroyed
    BY <2>1, <2>2, <2>4, <2>5 DEF SpoiledStay, CallTypes
  <2>6. CASE h \in shut /\ LastCall(h, 1) /\ Reap(h)
    <3>1. pinned'[h] = 0 /\ \A g \in PassedHandles \ {h} : pinned'[g] = pinned[g]
      BY <2>1, <2>6 DEF LastCall, CallTypes
    <3>2. destroyed' = IF h \in spoiled THEN destroyed ELSE destroyed \union {h}
      BY <2>6 DEF Reap
    <3> QED  BY <2>2, <2>4, <2>6, <3>1, <3>2 DEF SpoiledStay, CallTypes
  <2> QED  BY <2>1, <2>5, <2>6
<1>3. CASE CloseHandle
  <2>1. PICK h \in PassedHandles \ shut :
          /\ shut' = shut \union {h}
          /\ \/ LastCall(h, 0) /\ Reap(h)
             \/ destroyed' = destroyed
    BY <1>3 DEF CloseHandle
  <2>2. UNCHANGED <<pinned, spoiled, phase, answer, passed>>
    BY <1>3 DEF CloseHandle
  <2>3. CASE destroyed' = destroyed
    BY <2>1, <2>2, <2>3 DEF SpoiledStay
  <2>4. CASE LastCall(h, 0) /\ Reap(h)
    <3>1. pinned[h] = 0
          /\ destroyed' = IF h \in spoiled THEN destroyed ELSE destroyed \union {h}
      BY <2>4 DEF LastCall, Reap
    <3> QED  BY <2>1, <2>2, <3>1 DEF SpoiledStay
  <2> QED  BY <2>1, <2>3, <2>4
<1>4. CASE ReturnStatus
  <2>1. /\ phase = "status" /\ phase \notin Ended /\ UNCHANGED <<pinned, shut, destroyed, passed>>
        /\ spoiled' = IF status = "panic" THEN spoiled \union Poisoned ELSE spoiled
        /\ answer' = "nativePanic" <=> status = "panic"
    BY <1>4 DEF ReturnStatus, Leave, Ended
  <2>2. \A p \in DOMAIN passed : passed[p] # "nil" =>
          passed[p] \in Poisoned /\ passed[p] \notin destroyed
    BY <2>1, PassedPinned DEF Poisoned, PassedTo, ArgsKnown
  <2>3. Poisoned \intersect destroyed = {}
    BY <2>2 DEF Poisoned, PassedTo
  <2> QED  BY <2>1, <2>2, <2>3 DEF SpoiledStay
<1>5. CASE Renew
  <2>1. PICK h \in shut :
          shut' = shut \ {h} /\ spoiled' = spoiled \ {h} /\ destroyed' = destroyed \ {h}
    BY <1>5 DEF Renew
  <2>2. pinned' = pinned /\ phase' = "idle"
    BY <1>5 DEF Renew
  <2> QED  BY <2>1, <2>2 DEF SpoiledStay
<1>6. CASE \/ BeginCall \/ PassNothing \/ Refuse \/ PassCheck \/ DrawToken
           \/ Watch \/ Link \/ TakeScratch \/ EnterNative \/ NativeReturnsStatus
           \/ NoPanicFound \/ NoErrorFound \/ StatusOk \/ RethrowPanic
           \/ ReturnCallbackError \/ GiveHandle \/ Adopt \/ GiveValue \/ ReturnFromCall
  <2>1. UNCHANGED <<pinned, shut, spoiled, destroyed>>
    BY <1>6
    DEF BeginCall, PassNothing, Refuse, PassCheck, DrawToken, Watch, Link, TakeScratch,
        EnterNative, NativeReturnsStatus, NoPanicFound, NoErrorFound, StatusOk, RethrowPanic,
        ReturnCallbackError, GiveHandle, Adopt, GiveValue, ReturnFromCall
  <2>2. phase' # "unwind" \/ answer' # "nativePanic"
    BY <1>6
    DEF BeginCall, PassNothing, Refuse, PassCheck, DrawToken, Watch, Link, TakeScratch,
        EnterNative, NativeReturnsStatus, NoPanicFound, NoErrorFound, StatusOk, RethrowPanic,
        ReturnCallbackError, GiveHandle, Adopt, GiveValue, ReturnFromCall, Leave, NextStep, AtStep
  <2> QED  BY <2>1, <2>2 DEF SpoiledStay
<1>7. CASE \/ CallbackFails \/ RetainedCallbackFails
           \/ ContextDone \/ AfterFunc \/ RunDropChild \/ RunDelete
           \/ RunUnlink \/ RunGive \/ CloseGiven
  <2>1. UNCHANGED <<pinned, shut, spoiled, destroyed, phase, answer, passed>>
    BY <1>7
    DEF CallbackFails, RetainedCallbackFails, ContextDone, AfterFunc, RunDropChild, RunDelete,
        RunUnlink, RunGive,
        CloseGiven
  <2> QED  BY <2>1 DEF SpoiledStay
<1> QED  BY <1>1, <1>2, <1>3, <1>4, <1>5, <1>6, <1>7 DEF CallNext

-----------------------------------------------------------------------------
(* Where the tokens are.                                                   *)

\* Until a call ends, every token it has drawn is its own.
InCall == phase \notin Ended
OwnsAll == \A p : Owns(p) <=> p \in DOMAIN drawn

LEMMA OwnsInCall ==
  ArgsKnown /\ DefersKnown /\ InCall => OwnsAll
<1> SUFFICES ASSUME ArgsKnown, DefersKnown, InCall, NEW p \in DOMAIN drawn
             PROVE  Owns(p)
  BY DEF OwnsAll, Owns
<1>1. p \in Positions(TokenSteps) /\ answer = "none" /\ DefersAll
  BY DEF ArgsKnown, DefersKnown, InCall
<1>2. Steps[p].kind \in {"lend", "keep", "offer"}
  BY <1>1, PositionsOf DEF TokenSteps
<1> QED  BY <1>1, <1>2 DEF DefersAll, Owns, InCall

\* The same of the next state.
LEMMA OwnsInNextCall ==
  ArgsKnown' /\ DefersKnown' /\ InCall' => OwnsAll'
  BY OwnsInCall, PTL

\* When it ends, those are whose deletion is deferred, unless a setter has been
\* answered, and those of a constructor that rethrows a panic.
LEMMA OwnsAtEnd ==
  ASSUME ArgsKnown, DefersKnown, phase \notin Ended, phase' = "unwind",
         UNCHANGED <<shape, drawn>>,
         \A a \in {"delete", "unoffer"} : \A p : Todo(a, p)' <=> Todo(a, p)
  PROVE  \A p : Owns(p)' <=> /\ p \in DOMAIN drawn
                             /\ \/ Steps[p].kind = "lend"
                                \/ Steps[p].kind = "offer" /\ answer' # "ok"
                                \/ Steps[p].kind = "keep" /\ answer' = "callbackPanic"
<1>1. Steps' = Steps /\ DefersAll /\ DefersFit
  BY SameShape DEF DefersKnown
<1>2. \A p \in DOMAIN drawn : /\ Todo("delete", p) <=> Steps[p].kind = "lend"
                              /\ Todo("unoffer", p) <=> Steps[p].kind = "offer"
  BY <1>1, TodoRange DEF DefersAll, DefersFit
<1> QED  BY <1>1, <1>2 DEF Owns, Ended

\* Tokens that stay where they are.
LEMMA TokensStay ==
  ASSUME TokensPlaced, UNCHANGED <<alive, slot, lostTokens>>, given'.token = given.token,
         \A p : Owns(p)' <=> Owns(p), \A p \in DOMAIN drawn : Owns(p) => drawn'[p] = drawn[p]
  PROVE  TokensPlaced'
<1>1. \A p : Owns(p) => p \in DOMAIN drawn /\ p \in DOMAIN drawn'
  BY DEF Owns
<1> QED  BY <1>1 DEF TokensPlaced

\* Tokens that are deleted, wherever they were.
LEMMA TokensGo ==
  ASSUME CallTypes, ArgsKnown, TokensPlaced, NEW Gone, alive' = alive \ Gone,
         \A h \in PassedHandles : slot'[h] = IF slot[h] \in Gone THEN NoToken ELSE slot[h],
         given'.token = (IF given.token \in Gone THEN NoToken ELSE given.token),
         lostTokens' = lostTokens, lostTokens \intersect Gone = {}, drawn' = drawn,
         \A p : Owns(p)' <=> Owns(p) /\ drawn[p] \notin Gone
  PROVE  TokensPlaced'
<1>1. /\ NoToken \notin CallTokens /\ NoToken \notin lostTokens
      /\ \A p \in DOMAIN drawn : drawn[p] \in CallTokens
  BY CallsAssumption DEF CallTypes, ArgsKnown
<1>2. ASSUME NEW t \in CallTokens
      PROVE  t \in alive' <=> \/ \E h \in PassedHandles : slot'[h] = t
                              \/ given'.token = t
                              \/ t \in lostTokens'
                              \/ \E p \in DOMAIN drawn' : Owns(p)' /\ drawn'[p] = t
  BY <1>1 DEF TokensPlaced
<1>3. /\ \A g, h \in PassedHandles : slot'[g] = slot'[h] /\ g # h => slot'[g] = NoToken
      /\ \A h \in PassedHandles :
           /\ slot'[h] # NoToken => slot'[h] # given'.token
           /\ slot'[h] \notin lostTokens'
      /\ given'.token \notin lostTokens'
  BY <1>1 DEF TokensPlaced
<1>4. ASSUME NEW p \in DOMAIN drawn', Owns(p)'
      PROVE  /\ \A h \in PassedHandles : slot'[h] # drawn'[p]
             /\ given'.token # drawn'[p] /\ drawn'[p] \notin lostTokens'
             /\ \A q \in DOMAIN drawn' : Owns(q)' /\ drawn'[q] = drawn'[p] => q = p
  BY <1>1, <1>4 DEF TokensPlaced
<1> QED  BY <1>2, <1>3, <1>4 DEF TokensPlaced

\* A handle that is reaped lets go of the token in its slot.
LEMMA ReapTokens ==
  ASSUME CallTypes, ArgsKnown, TokensPlaced, NEW h \in PassedHandles, Reap(h),
         UNCHANGED <<given, lostTokens, drawn>>, \A p : Owns(p)' <=> Owns(p)
  PROVE  TokensPlaced'
<1>1. PICK Gone : Gone = {slot[h]}
  OBVIOUS
<1>2. slot' = [slot EXCEPT ![h] = NoToken] /\ alive' = alive \ Gone
  BY <1>1 DEF Reap, Delete
<1>3. \A g \in PassedHandles : slot'[g] = IF slot[g] \in Gone THEN NoToken ELSE slot[g]
  BY <1>1, <1>2 DEF CallTypes, Places, TokensPlaced
<1>4. /\ given'.token = (IF given.token \in Gone THEN NoToken ELSE given.token)
      /\ lostTokens \intersect Gone = {}
  BY <1>1 DEF TokensPlaced
<1>5. \A p : Owns(p)' <=> Owns(p) /\ drawn[p] \notin Gone
  BY <1>1 DEF TokensPlaced, Owns
<1> QED  BY <1>2, <1>3, <1>4, <1>5, TokensGo

\* The call's own tokens that are deleted.
LEMMA OwnTokensGo ==
  ASSUME CallTypes, ArgsKnown, TokensPlaced, NEW P,
         NEW Gone, Gone = {drawn[p] : p \in P}, alive' = alive \ Gone,
         \A p \in P : Owns(p), \A p : Owns(p)' <=> Owns(p) /\ p \notin P,
         UNCHANGED <<slot, given, lostTokens, drawn>>
  PROVE  TokensPlaced'
<1>1. \A p \in P : p \in DOMAIN drawn
  BY DEF Owns
<1>2. \A p : Owns(p)' <=> Owns(p) /\ drawn[p] \notin Gone
  BY <1>1 DEF TokensPlaced, Owns
<1>3. /\ \A g \in PassedHandles : slot'[g] = IF slot[g] \in Gone THEN NoToken ELSE slot[g]
      /\ given'.token = (IF given.token \in Gone THEN NoToken ELSE given.token)
      /\ lostTokens \intersect Gone = {}
  BY <1>1 DEF TokensPlaced
<1> QED  BY <1>2, <1>3, TokensGo

\* Where no call owns any, the tokens without an owner are noted as lost.
LEMMA LoseTokens ==
  ASSUME TokensPlaced, UNCHANGED <<alive, slot, given>>, alive \subseteq CallTokens,
         lostTokens' = lostTokens \union UnownedTokens, DOMAIN drawn' = {}
  PROVE  TokensPlaced'
<1>1. /\ \A h \in PassedHandles : slot[h] \notin UnownedTokens
      /\ given.token \notin UnownedTokens
  BY DEF UnownedTokens, OwnedTokens
<1>2. ASSUME NEW t \in CallTokens
      PROVE  t \in alive' <=> \/ \E h \in PassedHandles : slot'[h] = t
                              \/ given'.token = t
                              \/ t \in lostTokens'
                              \/ \E p \in DOMAIN drawn' : Owns(p)' /\ drawn'[p] = t
  BY DEF TokensPlaced, UnownedTokens, OwnedTokens
<1> QED  BY <1>1, <1>2 DEF TokensPlaced

\* The handle a constructor gives takes its token over.
LEMMA GiveTokens ==
  ASSUME CallTypes, ArgsKnown, TokensPlaced, NEW k, Owns(k), given.token = NoToken,
         given'.token = drawn[k], \A p : Owns(p)' <=> Owns(p) /\ p # k,
         UNCHANGED <<alive, slot, lostTokens, drawn>>
  PROVE  TokensPlaced'
<1>1. k \in DOMAIN drawn /\ drawn[k] \in CallTokens /\ NoToken \notin CallTokens
  BY CallsAssumption DEF Owns, ArgsKnown
<1>2. ASSUME NEW t \in CallTokens
      PROVE  t \in alive' <=> \/ \E h \in PassedHandles : slot'[h] = t
                              \/ given'.token = t
                              \/ t \in lostTokens'
                              \/ \E p \in DOMAIN drawn' : Owns(p)' /\ drawn'[p] = t
  BY <1>1 DEF TokensPlaced
<1>3. \A h \in PassedHandles : slot[h] # given'.token
  BY <1>1 DEF TokensPlaced
<1>4. given'.token \notin lostTokens
  BY <1>1 DEF TokensPlaced
<1>5. \A p \in DOMAIN drawn : Owns(p)' => given'.token # drawn[p]
  BY <1>1 DEF TokensPlaced
<1> QED  BY <1>2, <1>3, <1>4, <1>5 DEF TokensPlaced

\* A token is drawn that nobody has.
LEMMA DrawTokens ==
  ASSUME CallTypes, ArgsKnown, TokensPlaced, TokensKnown, OwnsAll, OwnsAll', DrawToken
  PROVE  TokensPlaced'
<1>1. PICK t \in CallTokens \ alive : alive' = alive \union {t} /\ drawn' = With(drawn, step, t)
  BY DrawsFree DEF DrawToken
<1>2. UNCHANGED <<slot, given, lostTokens>>
  BY DEF DrawToken, handleVars, resultVars, lossVars
<1>3. step \notin DOMAIN drawn
  BY DEF DrawToken, AtStep, ArgsKnown, CallTypes, Ended
<1>4. /\ DOMAIN drawn' = DOMAIN drawn \union {step} /\ drawn'[step] = t
      /\ \A p \in DOMAIN drawn : drawn'[p] = drawn[p]
  BY <1>1, <1>3 DEF With
<1>5. /\ \A h \in PassedHandles : slot[h] # t
      /\ given.token # t /\ t \notin lostTokens
      /\ \A p \in DOMAIN drawn : drawn[p] # t
  BY <1>1 DEF TokensPlaced, OwnsAll
<1>6. ASSUME NEW u \in CallTokens
      PROVE  u \in alive' <=> \/ \E h \in PassedHandles : slot'[h] = u
                              \/ given'.token = u
                              \/ u \in lostTokens'
                              \/ \E p \in DOMAIN drawn' : Owns(p)' /\ drawn'[p] = u
  <2>1. u \in alive <=> \/ \E h \in PassedHandles : slot[h] = u
                        \/ given.token = u
                        \/ u \in lostTokens
                        \/ \E p \in DOMAIN drawn : drawn[p] = u
    BY DEF TokensPlaced, OwnsAll
  <2>2. (\E p \in DOMAIN drawn' : Owns(p)' /\ drawn'[p] = u)
          <=> u = t \/ \E p \in DOMAIN drawn : drawn[p] = u
    BY <1>4 DEF OwnsAll
  <2> QED  BY <1>1, <1>2, <2>1, <2>2
<1>7. ASSUME NEW p \in DOMAIN drawn', Owns(p)'
      PROVE  /\ \A h \in PassedHandles : slot'[h] # drawn'[p]
             /\ given'.token # drawn'[p] /\ drawn'[p] \notin lostTokens'
             /\ \A q \in DOMAIN drawn' : Owns(q)' /\ drawn'[q] = drawn'[p] => q = p
  <2>1. \A q, r \in DOMAIN drawn : drawn[q] = drawn[r] => q = r
    BY DEF TokensPlaced, OwnsAll
  <2>2. \A q \in DOMAIN drawn : /\ \A h \in PassedHandles : slot[h] # drawn[q]
                                /\ given.token # drawn[q] /\ drawn[q] \notin lostTokens
    BY DEF TokensPlaced, OwnsAll
  <2> QED  BY <1>2, <1>3, <1>4, <1>5, <2>1, <2>2
<1> QED  BY <1>2, <1>6, <1>7 DEF TokensPlaced

\* The call ends and nothing but its kept tokens changes hands.
LEMMA EndTokens ==
  ASSUME CallTypes, ArgsKnown, DefersKnown, TokensPlaced, GivenWaits, phase \notin Ended,
         \/ Refuse \/ RethrowPanic \/ ReturnCallbackError \/ ReturnStatus \/ GiveHandle \/ GiveValue
  PROVE  TokensPlaced'
<1> USE DEF handleVars, registryVars, frameVars, cancelVars, resultVars, lossVars
<1>1. phase' = "unwind" /\ UNCHANGED <<shape, drawn, slot>> /\ shape \in CallShapesUsed
      /\ DOMAIN drawn \subseteq Positions(TokenSteps)
  BY DEF Refuse, RethrowPanic, ReturnCallbackError, ReturnStatus, GiveHandle, GiveValue, Leave,
         ArgsKnown, Ended
<1>2. \A a \in {"delete", "unoffer"} : \A p : Todo(a, p)' <=> Todo(a, p)
  <2>1. defers' = defers \/ Defer("free")
    BY DEF Refuse, RethrowPanic, ReturnCallbackError, ReturnStatus, GiveHandle, GiveValue
  <2> QED  BY <2>1, TodoStays DEF Deferrable
<1>3. \A p : Owns(p) <=> p \in DOMAIN drawn
  BY OwnsInCall DEF OwnsAll, InCall
<1>4. \A p \in DOMAIN drawn : Steps[p].kind \in TokenSteps /\ p \in DOMAIN Steps
  BY <1>1, PositionsOf
<1> DEFINE K == {p \in DOMAIN drawn : Steps[p].kind = "keep"}
<1>5. KeptTokens = {drawn[p] : p \in K}
  BY <1>1, PositionsOf DEF KeptTokens
<1>6. \A p \in K : Owns(p)
  BY <1>3
<1>7. CASE Refuse
  <2>1. K = {} /\ \A p \in DOMAIN drawn : Steps[p].kind = "lend"
    <3>1. step \in DOMAIN Steps /\ Steps[step].kind \in HandleSteps \union {"nonnil", "range"}
      BY <1>7 DEF Refuse, AtStep
    <3>2. DOMAIN drawn = {p \in Positions(TokenSteps) : p < step}
      BY DEF ArgsKnown
    <3>3. DOMAIN drawn = {}
      BY <1>1, <3>1, <3>2, ShapeRules, PositionsOf
    <3> QED  BY <3>3
  <2>2. \A p : Owns(p)' <=> Owns(p)
    BY <1>1, <1>2, <1>3, <2>1, OwnsAtEnd
  <2> QED  BY <1>7, <2>2, TokensStay DEF Refuse
<1>8. CASE ReturnCallbackError \/ ReturnStatus
  <2>1. answer' # "ok" /\ answer' # "callbackPanic"
    BY <1>8 DEF ReturnCallbackError, ReturnStatus, Leave
  <2>2. \A p : Owns(p)' <=> Owns(p) /\ p \notin K
    BY <1>1, <1>2, <1>3, <1>4, <2>1, OwnsAtEnd DEF TokenSteps
  <2>3. alive' = alive \ KeptTokens /\ UNCHANGED <<given, lostTokens>>
    <3>1. CASE ReturnStatus
      BY <3>1 DEF ReturnStatus, Delete
    <3>2. CASE ReturnCallbackError
      BY <3>2 DEF ReturnCallbackError
    <3> QED  BY <1>8, <3>1, <3>2
  <2> HIDE DEF K
  <2> QED  BY <1>1, <1>5, <1>6, <2>2, <2>3, OwnTokensGo
<1>9. CASE GiveValue
  <2>1. K = {} /\ \A p \in DOMAIN drawn : Steps[p].kind = "lend"
    BY <1>1, <1>4, <1>9, ShapeRules, PositionsOf DEF GiveValue, TokenSteps
  <2>2. \A p : Owns(p)' <=> Owns(p)
    BY <1>1, <1>2, <1>3, <2>1, OwnsAtEnd
  <2> QED  BY <1>9, <2>2, TokensStay DEF GiveValue
<1>10. CASE RethrowPanic
  <2>1. answer' = "callbackPanic" /\ UNCHANGED <<alive, given, lostTokens>>
    BY <1>10 DEF RethrowPanic, Leave
  <2>2. \A p : Owns(p)' <=> Owns(p)
    BY <1>1, <1>2, <1>3, <1>4, <2>1, OwnsAtEnd DEF TokenSteps
  <2> QED  BY <1>1, <2>1, <2>2, TokensStay
<1>11. CASE GiveHandle
  <2>1. /\ answer' = "ok" /\ UNCHANGED <<alive, lostTokens>>
        /\ shape.gives \in {"handle", "child"}
        /\ given'.token = IF KeptTokens = {} THEN NoToken ELSE CHOOSE t \in KeptTokens : TRUE
    BY <1>11 DEF GiveHandle, Leave
  <2>2. given = None
    BY <2>1 DEF GivenWaits
  <2>3. \A p : Owns(p)' <=> Owns(p) /\ p \notin K
    BY <1>1, <1>2, <1>3, <1>4, <2>1, OwnsAtEnd, ShapeRules DEF TokenSteps
  <2>4. CASE K = {}
    <3>1. given'.token = given.token
      BY <1>5, <2>1, <2>2, <2>4 DEF None
    <3> QED  BY <1>1, <2>1, <2>3, <2>4, <3>1, TokensStay
  <2>5. ASSUME NEW k \in K PROVE TokensPlaced'
    <3>1. K = {k}
      BY <1>1, <1>4, ShapeRules
    <3>2. KeptTokens = {drawn[k]}
      BY <1>5, <3>1
    <3>3. given'.token = drawn[k]
      BY <2>1, <3>2
    <3>4. given.token = NoToken
      BY <2>2 DEF None
    <3>5. \A p : Owns(p)' <=> Owns(p) /\ p # k
      BY <2>3, <3>1
    <3> QED  BY <1>1, <1>6, <2>1, <3>3, <3>4, <3>5, GiveTokens
  <2> QED  BY <2>4, <2>5
<1> QED  BY <1>7, <1>8, <1>9, <1>10, <1>11

\* A slot takes a token of the call over, and the one it held is deleted.
LEMMA SwapTokens ==
  ASSUME CallTypes, ArgsKnown, TokensPlaced, NEW k, Owns(k), NEW h \in PassedHandles,
         slot' = [slot EXCEPT ![h] = drawn[k]], alive' = alive \ {slot[h]},
         \A p : Owns(p)' <=> Owns(p) /\ p # k, UNCHANGED <<given, lostTokens, drawn>>
  PROVE  TokensPlaced'
<1>1. k \in DOMAIN drawn /\ drawn[k] \in CallTokens /\ NoToken \notin CallTokens
  BY CallsAssumption DEF Owns, ArgsKnown
<1>2. slot'[h] = drawn[k] /\ \A g \in PassedHandles : g # h => slot'[g] = slot[g]
  BY DEF CallTypes, Places
<1>3. ASSUME NEW t \in CallTokens
      PROVE  t \in alive' <=> \/ \E g \in PassedHandles : slot'[g] = t
                              \/ given'.token = t
                              \/ t \in lostTokens'
                              \/ \E p \in DOMAIN drawn' : Owns(p)' /\ drawn'[p] = t
  <2>1. /\ slot[h] = t => ~ \/ \E g \in PassedHandles \ {h} : slot[g] = t
                            \/ given.token = t
                            \/ t \in lostTokens
                            \/ \E p \in DOMAIN drawn : Owns(p) /\ drawn[p] = t
    BY <1>1 DEF TokensPlaced
  <2>2. (\E g \in PassedHandles : slot'[g] = t)
          <=> t = drawn[k] \/ \E g \in PassedHandles \ {h} : slot[g] = t
    BY <1>2
  <2>3. (\E p \in DOMAIN drawn : Owns(p) /\ drawn[p] = t)
          <=> t = drawn[k] \/ \E p \in DOMAIN drawn' : Owns(p)' /\ drawn'[p] = t
    BY <1>1
  <2>4. t \in alive <=> \/ slot[h] = t
                        \/ \E g \in PassedHandles \ {h} : slot[g] = t
                        \/ given.token = t
                        \/ t \in lostTokens
                        \/ \E p \in DOMAIN drawn : Owns(p) /\ drawn[p] = t
    BY DEF TokensPlaced
  <2> QED  BY <2>1, <2>2, <2>3, <2>4
<1>4. \A f, g \in PassedHandles : slot'[f] = slot'[g] /\ f # g => slot'[f] = NoToken
  BY <1>1, <1>2 DEF TokensPlaced
<1>5. \A g \in PassedHandles :
        /\ slot'[g] # NoToken => slot'[g] # given.token
        /\ slot'[g] \notin lostTokens
  BY <1>1, <1>2 DEF TokensPlaced
<1>6. \A p \in DOMAIN drawn : Owns(p)' => \A g \in PassedHandles : slot'[g] # drawn[p]
  BY <1>1, <1>2 DEF TokensPlaced
<1>7. \A p \in DOMAIN drawn : Owns(p)' =>
        /\ given.token # drawn[p] /\ drawn[p] \notin lostTokens
        /\ \A q \in DOMAIN drawn : Owns(q)' /\ drawn[q] = drawn[p] => q = p
  BY DEF TokensPlaced
<1> QED  BY <1>3, <1>4, <1>5, <1>6, <1>7 DEF TokensPlaced

\* A setter's slot adopts.
LEMMA AdoptTokens ==
  ASSUME CallTypes, ArgsKnown, DefersKnown, TokensPlaced, Adopt
  PROVE  TokensPlaced'
<1> USE DEF handleVars, registryVars, frameVars, cancelVars, resultVars, lossVars
<1>1. /\ phase = "result" /\ phase \notin Ended /\ phase' = "unwind" /\ answer' = "ok"
      /\ UNCHANGED <<shape, drawn, given, lostTokens>> /\ shape \in CallShapesUsed
      /\ \A p \in DOMAIN drawn : p \in DOMAIN Steps /\ Steps[p].kind \in TokenSteps
  BY PositionsOf DEF Adopt, Leave, ArgsKnown, Ended
<1>2. PICK k \in Positions({"offer"}) :
        slot' = [slot EXCEPT ![passed[1]] = drawn[k]] /\ alive' = alive \ {slot[passed[1]]}
  BY DEF Adopt, Delete
<1>3. k \in DOMAIN drawn
  BY <1>1, <1>2, TokensAreThere, PositionsOf DEF TokenSteps, Swept
<1>4. passed[1] \in PassedHandles
  BY <1>1, <1>2, ReceiverIsThere DEF Swept
<1>5. \A p : Owns(p) <=> p \in DOMAIN drawn
  BY <1>1, OwnsInCall DEF OwnsAll, InCall
<1>6. \A p \in DOMAIN drawn : p # k => Steps[p].kind = "lend"
  BY <1>1, <1>2, ShapeRules, PositionsOf DEF TokenSteps
<1>7. \A a \in {"delete", "unoffer"} : \A p : Todo(a, p)' <=> Todo(a, p)
  BY DEF Adopt, Todo
<1>8. \A p : Owns(p)' <=> Owns(p) /\ p # k
  BY <1>1, <1>2, <1>5, <1>6, <1>7, OwnsAtEnd, PositionsOf
<1> QED  BY <1>1, <1>2, <1>3, <1>4, <1>5, <1>8, SwapTokens

\* A deferred deletion.
LEMMA DeleteTokens ==
  ASSUME CallTypes, ArgsKnown, DefersKnown, TokensPlaced, RunDelete
  PROVE  TokensPlaced'
<1> USE DEF handleVars, registryVars, frameVars, cancelVars, resultVars, lossVars
<1>1. /\ UNCHANGED <<shape, phase, step, drawn, answer, slot, given, lostTokens>>
      /\ Steps' = Steps /\ phase = "unwind"
  BY SameShape DEF RunDelete, AtDefer
<1>2. PICK a \in {"delete", "unoffer"} :
        /\ AtDefer(a)
        /\ alive' = alive \ (IF a = "unoffer" /\ answer = "ok" THEN {} ELSE {drawn[DeferredAt]})
  BY DEF RunDelete, Delete
<1>3. /\ \A b, p : Todo(b, p)' <=> Todo(b, p) /\ ~ (b = a /\ p = DeferredAt)
      /\ Todo(a, DeferredAt) /\ DeferredAt \in 1..step
  BY <1>2, TodoPopped
<1>4. DeferredAt \in DOMAIN drawn /\ Steps[DeferredAt].kind # "keep"
  BY <1>3 DEF DefersKnown, DefersFit
<1>5. \A p \in 1..step : ~(Todo("delete", p) /\ Todo("unoffer", p))
  BY DEF DefersKnown, DefersFit
<1>6. CASE a = "unoffer" /\ answer = "ok"
  <2>1. \A p : Owns(p)' <=> Owns(p)
    BY <1>1, <1>3, <1>6 DEF Owns
  <2>2. alive' = alive
    BY <1>2, <1>6
  <2> QED  BY <1>1, <2>1, <2>2, TokensStay
<1>7. CASE ~(a = "unoffer" /\ answer = "ok")
  <2>1. PICK P : P = {DeferredAt}
    OBVIOUS
  <2>2. Owns(DeferredAt)
    BY <1>3, <1>4, <1>7 DEF Owns
  <2>3. \A p : Owns(p)' <=> Owns(p) /\ p \notin P
    BY <1>1, <1>3, <1>4, <1>5, <2>1 DEF Owns, Ended
  <2>4. PICK Gone : Gone = {drawn[p] : p \in P}
    OBVIOUS
  <2>5. Gone = {drawn[DeferredAt]} /\ \A p \in P : Owns(p)
    BY <2>1, <2>2, <2>4
  <2>6. alive' = alive \ Gone
    BY <1>2, <1>7, <2>5
  <2> QED  BY <1>1, <2>3, <2>4, <2>5, <2>6, OwnTokensGo
<1> QED  BY <1>6, <1>7

\* Every token that exists stays in exactly one place.
LEMMA PlacedNext ==
  ASSUME CallTypes, ArgsKnown, ArgsKnown', DefersKnown, DefersKnown', TokensKnown, GivenWaits,
         CallNext
  PROVE  TokensPlaced'
<1> USE DEF handleVars, registryVars, frameVars, cancelVars, resultVars, lossVars
<1>1. TokensPlaced
  BY DEF TokensKnown
<1>2. CASE \/ Acquire \/ PassNothing \/ PassCheck \/ Watch \/ Link \/ TakeScratch \/ EnterNative
           \/ CallbackFails
           \/ NativeReturnsStatus \/ NoPanicFound \/ NoErrorFound \/ StatusOk
  <2>1. UNCHANGED <<alive, slot, given, lostTokens, drawn>> /\ InCall /\ InCall'
    BY <1>2
    DEF Acquire, PassNothing, PassCheck, Watch, Link, TakeScratch, EnterNative, CallbackFails,
        NativeReturnsStatus, NoPanicFound, NoErrorFound, StatusOk, AtStep, NextStep, InCall, Ended
  <2>2. OwnsAll /\ OwnsAll'
    BY <2>1, OwnsInCall, OwnsInNextCall
  <2> QED  BY <1>1, <2>1, <2>2, TokensStay DEF OwnsAll
<1>3. CASE DrawToken
  <2>1. InCall /\ InCall'
    BY <1>3 DEF DrawToken, AtStep, NextStep, InCall, Ended
  <2> QED  BY <1>1, <1>3, <2>1, OwnsInCall, OwnsInNextCall, DrawTokens
<1>4. CASE \/ Refuse \/ RethrowPanic \/ ReturnCallbackError \/ ReturnStatus \/ GiveHandle
           \/ GiveValue
  <2>1. phase \notin Ended
    BY <1>4 DEF Refuse, RethrowPanic, ReturnCallbackError, ReturnStatus, GiveHandle, GiveValue,
                AtStep, Ended
  <2> QED  BY <1>1, <1>4, <2>1, EndTokens
<1>5. CASE BeginCall
  <2>1. UNCHANGED <<alive, slot, given, lostTokens>> /\ DOMAIN drawn = {} /\ DOMAIN drawn' = {}
    BY <1>5 DEF BeginCall, ArgsKnown
  <2>2. \A p : ~Owns(p) /\ ~Owns(p)'
    BY <2>1 DEF Owns
  <2> QED  BY <1>1, <2>1, <2>2, TokensStay
<1>12. CASE ReturnFromCall
  <2>1. /\ UNCHANGED <<alive, slot, given>> /\ DOMAIN drawn' = {}
        /\ lostTokens' = lostTokens \union UnownedTokens
    BY <1>12 DEF ReturnFromCall
  <2> QED  BY <1>1, <2>1, LoseTokens DEF CallTypes
<1>6. CASE RetainedCallbackFails \/ ContextDone \/ AfterFunc \/ Renew
  <2>1. UNCHANGED <<shape, phase, answer, drawn, defers, alive, slot, given, lostTokens>>
    BY <1>6 DEF RetainedCallbackFails, ContextDone, AfterFunc, Renew
  <2>2. \A p : Owns(p)' <=> Owns(p)
    BY <2>1, SameShape DEF Owns, Todo
  <2> QED  BY <1>1, <2>1, <2>2, TokensStay
<1>7. CASE CloseHandle
  <2>1. UNCHANGED <<shape, phase, answer, drawn, defers, given, lostTokens>>
    BY <1>7 DEF CloseHandle
  <2>2. \A p : Owns(p)' <=> Owns(p)
    BY <2>1, SameShape DEF Owns, Todo
  <2>3. PICK h \in PassedHandles : Reap(h) \/ UNCHANGED <<slot, registryVars>>
    BY <1>7 DEF CloseHandle
  <2>4. CASE UNCHANGED <<slot, registryVars>>
    BY <1>1, <2>1, <2>2, <2>4, TokensStay
  <2> QED  BY <1>1, <2>1, <2>2, <2>3, <2>4, ReapTokens
<1>8. CASE RunRelease \/ RunDropChild \/ RunUnlink \/ RunGive
  <2>1. UNCHANGED <<shape, phase, answer, drawn, given, lostTokens>>
        /\ \E b \in {"release", "dropChild", "unlink", "disarm", "give", "free"} : AtDefer(b)
    BY <1>8 DEF RunRelease, RunDropChild, RunUnlink, RunGive
  <2>2. \A a \in {"delete", "unoffer"} : \A p : Todo(a, p)' <=> Todo(a, p)
    BY <2>1, TodoStays
  <2>3. \A p : Owns(p)' <=> Owns(p)
    BY <2>1, <2>2, SameShape DEF Owns
  <2>4. CASE UNCHANGED <<slot, registryVars>>
    BY <1>1, <2>1, <2>3, <2>4, TokensStay
  <2>5. CASE RunRelease /\ ~UNCHANGED <<slot, registryVars>>
    <3>1. PICK h \in PassedHandles : Reap(h)
      BY <2>5, ReleaseIsOfHandle DEF RunRelease
    <3> QED  BY <1>1, <2>1, <2>3, <3>1, ReapTokens
  <2> QED  BY <1>8, <2>4, <2>5 DEF RunDropChild, RunUnlink, RunGive
<1>9. CASE Adopt
  BY <1>1, <1>9, AdoptTokens
<1>10. CASE RunDelete
  BY <1>1, <1>10, DeleteTokens
<1>11. CASE CloseGiven
  <2>1. UNCHANGED <<shape, phase, answer, drawn, defers, slot, lostTokens>> /\ phase = "idle"
        /\ alive' = alive \ {given.token} /\ given'.token = NoToken
    BY <1>11 DEF CloseGiven, Delete, None
  <2>2. \A p : ~Owns(p) /\ ~Owns(p)'
    <3>1. DOMAIN drawn = {}
      BY <2>1 DEF ArgsKnown
    <3> QED  BY <2>1, <3>1 DEF Owns
  <2>3. PICK Gone : Gone = {given.token}
    OBVIOUS
  <2>4. /\ \A h \in PassedHandles : slot'[h] = IF slot[h] \in Gone THEN NoToken ELSE slot[h]
        /\ given'.token = (IF given.token \in Gone THEN NoToken ELSE given.token)
        /\ lostTokens \intersect Gone = {}
    BY <1>1, <2>1, <2>3 DEF TokensPlaced
  <2> QED  BY <1>1, <2>1, <2>2, <2>3, <2>4, TokensGo
<1> QED
  BY <1>2, <1>3, <1>4, <1>5, <1>6, <1>7, <1>8, <1>9, <1>10, <1>11, <1>12 DEF CallNext

-----------------------------------------------------------------------------
\* No more tokens are to be drawn than are left.
LEMMA FewerUndrawn ==
  ASSUME NEW S, NEW T, IsFiniteSet(T), NEW U, NEW V, IsFiniteSet(V),
         S \subseteq T, U \subseteq V, Cardinality(T) <= Cardinality(U)
  PROVE  Cardinality(S) <= Cardinality(V)
<1>1. IsFiniteSet(S) /\ Cardinality(S) <= Cardinality(T)
  BY FS_Subset
<1>2. IsFiniteSet(U) /\ Cardinality(U) <= Cardinality(V)
  BY FS_Subset
<1>3. /\ Cardinality(S) \in Nat /\ Cardinality(T) \in Nat
      /\ Cardinality(U) \in Nat /\ Cardinality(V) \in Nat
  BY <1>1, <1>2, FS_CardinalityType
<1> QED  BY <1>1, <1>2, <1>3

\* The prologue never runs out of tokens.
LEMMA LeftNext ==
  ASSUME CallTypes, ArgsKnown, TokensKnown, CallNext
  PROVE  TokensLeft'
<1> USE DEF handleVars, registryVars, frameVars, cancelVars, resultVars, lossVars
<1>1. CASE phase' # "prologue"
  BY <1>1 DEF TokensLeft
<1>2. IsFiniteSet(CallTokens \ alive) /\ IsFiniteSet(CallTokens \ alive')
  BY CallsAssumption, FS_Subset
<1>3. CASE BeginCall
  <2>1. PICK s \in CallShapesUsed :
          /\ Cardinality(PositionsIn(s, TokenSteps)) <= Cardinality(CallTokens \ alive)
          /\ shape' = s
    BY <1>3 DEF BeginCall
  <2>2. s.steps \in Seq([kind : StepKinds, calls : BOOLEAN, fails : BOOLEAN])
    BY CallsAssumption DEF CallShapes
  <2>3. DOMAIN s.steps = 1..Len(s.steps) /\ Len(s.steps) \in Nat
    BY <2>2, LenProperties
  <2>4. Positions(TokenSteps)' = PositionsIn(s, TokenSteps) /\ step' = 1 /\ alive' = alive
    BY <1>3, <2>1 DEF BeginCall, Positions
  <2>5. Undrawn' = PositionsIn(s, TokenSteps)
    BY <2>3, <2>4 DEF Undrawn, PositionsIn
  <2> QED  BY <2>1, <2>4, <2>5 DEF TokensLeft
<1>4. ASSUME phase = "prologue"
      PROVE  /\ IsFiniteSet(Undrawn) /\ Undrawn \subseteq Nat /\ step \in Nat
             /\ Cardinality(Undrawn) <= Cardinality(CallTokens \ alive)
  <2>1. shape \in CallShapesUsed /\ step \in Nat
    BY <1>4 DEF ArgsKnown, CallTypes
  <2>2. Undrawn \subseteq 1..Len(Steps) /\ Len(Steps) \in Nat
    BY <2>1, ShapeFacts, PositionsOf DEF Undrawn
  <2>3. IsFiniteSet(1..Len(Steps))
    BY <2>2, FS_Interval
  <2>4. IsFiniteSet(Undrawn)
    BY <2>2, <2>3, FS_Subset
  <2> QED  BY <1>4, <2>1, <2>2, <2>4 DEF TokensKnown, TokensLeft
<1>5. CASE Acquire \/ PassNothing \/ PassCheck \/ Watch \/ Link \/ TakeScratch
  <2>1. phase = "prologue" /\ step' = step + 1 /\ UNCHANGED <<shape, alive>>
    BY <1>5 DEF Acquire, PassNothing, PassCheck, Watch, Link, TakeScratch, AtStep, NextStep
  <2>2. Undrawn' \subseteq Undrawn
    BY <1>4, <2>1, SameShape, ShapeFacts, PositionsOf DEF Undrawn, ArgsKnown
  <2> QED  BY <1>2, <1>4, <2>1, <2>2, FewerUndrawn DEF TokensLeft
<1>6. CASE DrawToken
  <2>1. PICK t \in CallTokens \ alive : alive' = alive \union {t}
    BY <1>6, DrawsFree DEF DrawToken
  <2>2. phase = "prologue" /\ step' = step + 1 /\ shape' = shape /\ step \in Positions(TokenSteps)
    BY <1>6, PositionsOf DEF DrawToken, AtStep, NextStep
  <2>3. Undrawn' = Undrawn \ {step} /\ step \in Undrawn
    BY <1>4, <2>2, SameShape, ShapeFacts, PositionsOf DEF Undrawn, ArgsKnown
  <2>4. Cardinality(Undrawn') = Cardinality(Undrawn) - 1
    BY <1>4, <2>2, <2>3, FS_RemoveElement
  <2>5. CallTokens \ alive' = (CallTokens \ alive) \ {t}
    BY <2>1
  <2>6. Cardinality(CallTokens \ alive') = Cardinality(CallTokens \ alive) - 1
    BY <1>2, <2>5, FS_RemoveElement
  <2>7. Cardinality(Undrawn) \in Nat /\ Cardinality(CallTokens \ alive) \in Nat
    BY <1>2, <1>4, <2>2, FS_CardinalityType
  <2> QED  BY <1>4, <2>2, <2>4, <2>6, <2>7 DEF TokensLeft
<1>7. CASE RetainedCallbackFails \/ ContextDone \/ AfterFunc \/ CloseHandle
  <2>1. UNCHANGED <<shape, step, phase>> /\ CallTokens \ alive \subseteq CallTokens \ alive'
    BY <1>7 DEF RetainedCallbackFails, ContextDone, AfterFunc, CloseHandle, Reap, Delete
  <2>2. Undrawn' \subseteq Undrawn
    BY <2>1, SameShape DEF Undrawn
  <2> QED  BY <1>2, <1>4, <2>1, <2>2, FewerUndrawn DEF TokensLeft
<1>8. CASE \/ Refuse \/ EnterNative \/ CallbackFails
           \/ NativeReturnsStatus \/ RethrowPanic
           \/ NoPanicFound \/ ReturnCallbackError \/ NoErrorFound \/ ReturnStatus \/ StatusOk
           \/ GiveHandle \/ Adopt \/ GiveValue \/ RunRelease \/ RunDropChild \/ RunDelete
           \/ RunUnlink \/ RunGive \/ ReturnFromCall \/ Renew \/ CloseGiven
  <2>1. phase' # "prologue"
    BY <1>8
    DEF Refuse, EnterNative, CallbackFails, NativeReturnsStatus, RethrowPanic,
        NoPanicFound, ReturnCallbackError, NoErrorFound, ReturnStatus, StatusOk,
        GiveHandle, Adopt, GiveValue, RunRelease, RunDropChild, RunDelete, RunUnlink, RunGive,
        AtDefer, ReturnFromCall, Renew, CloseGiven, Leave
  <2> QED  BY <1>1, <2>1
<1> QED  BY <1>3, <1>5, <1>6, <1>7, <1>8 DEF CallNext

-----------------------------------------------------------------------------
(* What is lent, linked and armed.                                         *)

\* What is deferred at a position is deferred.
LEMMA TodoSome ==
  ASSUME NEW a, NEW p, Todo(a, p)'
  PROVE  SomeTodo(a)'
<1>1. PICK i \in DOMAIN defers' : defers'[i] = [do |-> a, at |-> p]
  BY DEF Todo, In
<1>2. defers'[i].do = a
  BY <1>1
<1> QED  BY <1>2 DEF SomeTodo

\* It stays deferred where no position loses it.
LEMMA SomeTodoStays ==
  ASSUME CallTypes, NEW a, SomeTodo(a), \A p : Todo(a, p) => Todo(a, p)'
  PROVE  SomeTodo(a)'
  BY SomeTodoIs, TodoSome

\* A deferred function stays deferred until it has run.
LEMMA SomeTodoNext ==
  ASSUME CallTypes, DefersKnown, CallNext
  PROVE  /\ SomeTodo("disarm") => SomeTodo("disarm")' \/ ~armed'
         /\ SomeTodo("unlink") => SomeTodo("unlink")' \/ linked' = NoToken
         /\ SomeTodo("give") => SomeTodo("give")' \/ ~lent'
         /\ SomeTodo("free") => SomeTodo("free")' \/ buffer' = "freed"
<1> USE DEF handleVars, registryVars, frameVars, cancelVars, resultVars, lossVars
<1>1. ASSUME \A a, p : Todo(a, p) => Todo(a, p)'
      PROVE  \A a : SomeTodo(a) => SomeTodo(a)'
  BY <1>1, SomeTodoStays
<1>2. CASE \/ BeginCall \/ PassNothing \/ PassCheck \/ Refuse \/ EnterNative \/ CallbackFails
           \/ RetainedCallbackFails
           \/ ContextDone \/ AfterFunc \/ NativeReturnsStatus \/ RethrowPanic \/ NoPanicFound
           \/ ReturnCallbackError \/ NoErrorFound \/ ReturnStatus \/ StatusOk \/ GiveHandle
           \/ Adopt \/ ReturnFromCall \/ CloseHandle \/ Renew \/ CloseGiven
  <2>1. defers' = defers
    BY <1>2
    DEF BeginCall, PassNothing, PassCheck, Refuse, EnterNative, CallbackFails,
        RetainedCallbackFails, ContextDone, AfterFunc, NativeReturnsStatus, RethrowPanic, NoPanicFound,
        ReturnCallbackError, NoErrorFound, ReturnStatus, StatusOk, GiveHandle,
        Adopt, ReturnFromCall, CloseHandle, Renew, CloseGiven
  <2>2. \A a, p : Todo(a, p) => Todo(a, p)'
    BY <2>1 DEF Todo
  <2> QED  BY <1>1, <2>2
<1>3. CASE Acquire \/ DrawToken \/ Watch \/ Link \/ TakeScratch \/ GiveValue
  <2>1. /\ phase \notin Ended
        /\ \/ defers' = defers
           \/ \E a \in Deferrable : Defer(a)
           \/ defers' = defers \o <<[do |-> "dropChild", at |-> step],
                                   [do |-> "release", at |-> step]>>
    BY <1>3 DEF Acquire, DrawToken, Watch, Link, TakeScratch, GiveValue, AtStep, Ended, Deferrable
  <2>2. CASE defers' = defers
    <3>1. \A a, p : Todo(a, p) => Todo(a, p)'
      BY <2>2 DEF Todo
    <3> QED  BY <1>1, <3>1
  <2>3. ASSUME NEW a \in Deferrable, Defer(a)
        PROVE  \A b, p : Todo(b, p) => Todo(b, p)'
    BY <2>1, <2>3, TodoPushed
  <2>4. CASE defers' = defers \o <<[do |-> "dropChild", at |-> step],
                                  [do |-> "release", at |-> step]>>
    <3>1. \A a, p : Todo(a, p) => Todo(a, p)'
      BY <2>1, <2>4, TodoPushedTwo
    <3> QED  BY <1>1, <3>1
  <2> QED  BY <1>1, <2>1, <2>2, <2>3, <2>4
<1>4. ASSUME NEW b, AtDefer(b), NEW a, a # b, SomeTodo(a)
      PROVE  SomeTodo(a)'
  <2>1. \A p : Todo(a, p) => Todo(a, p)'
    BY <1>4, TodoPopped
  <2> QED  BY <1>4, <2>1, SomeTodoStays
<1>5. CASE RunRelease \/ RunDropChild \/ RunDelete
  <2>1. \E b \in {"release", "dropChild", "delete", "unoffer"} : AtDefer(b)
    BY <1>5 DEF RunRelease, RunDropChild, RunDelete
  <2> QED  BY <1>4, <2>1
<1>6. CASE RunUnlink
  <2>1. \/ AtDefer("unlink") /\ linked' = NoToken
        \/ AtDefer("disarm") /\ ~armed'
    BY <1>6 DEF RunUnlink
  <2> QED  BY <1>4, <2>1
<1>7. CASE RunGive
  <2>1. \/ AtDefer("give") /\ ~lent'
        \/ AtDefer("free") /\ buffer' = "freed"
    BY <1>7 DEF RunGive
  <2> QED  BY <1>4, <2>1
<1> QED  BY <1>2, <1>3, <1>5, <1>6, <1>7 DEF CallNext

\* Nothing is lent, linked or armed but by the step that defers the return.
LEMMA LoansNext ==
  ASSUME CallTypes, DefersKnown, CallNext
  PROVE  /\ armed' => armed \/ SomeTodo("disarm")'
         /\ linked' # NoToken => linked' = linked \/ SomeTodo("unlink")'
         /\ lent' => lent \/ SomeTodo("give")'
<1> USE DEF handleVars, registryVars, frameVars, cancelVars, resultVars, lossVars
<1>1. ASSUME NEW a \in Deferrable, Defer(a), phase \notin Ended
      PROVE  SomeTodo(a)'
  BY <1>1, TodoPushed, TodoSome
<1>2. CASE Watch \/ Link \/ TakeScratch
  <2>1. phase \notin Ended
    BY <1>2 DEF Watch, Link, TakeScratch, AtStep, Ended
  <2>2. /\ Watch => (armed' = armed \/ Defer("disarm")) /\ linked' = linked /\ lent' = lent
        /\ Link => armed' = armed /\ Defer("unlink") /\ lent' = lent
        /\ TakeScratch => armed' = armed /\ linked' = linked /\ Defer("give")
    BY DEF Watch, Link, TakeScratch
  <2>3. {"disarm", "unlink", "give"} \subseteq Deferrable
    BY DEF Deferrable
  <2> QED  BY <1>1, <1>2, <2>1, <2>2, <2>3
<1>3. CASE ~(Watch \/ Link \/ TakeScratch)
  <2>1. /\ armed' => armed
        /\ linked' # NoToken => linked' = linked
        /\ lent' => lent
    BY <1>3
    DEF CallNext, BeginCall, Acquire, PassNothing, Refuse, PassCheck, DrawToken,
        EnterNative, CallbackFails, RetainedCallbackFails, ContextDone, AfterFunc, NativeReturnsStatus,
        RethrowPanic, NoPanicFound, ReturnCallbackError, NoErrorFound, ReturnStatus, StatusOk,
        GiveHandle, Adopt, GiveValue, RunRelease, RunDropChild, RunDelete, RunUnlink, RunGive,
        ReturnFromCall, CloseHandle, Renew, CloseGiven
  <2> QED  BY <2>1
<1> QED  BY <1>2, <1>3

\* The object native code returned.
ObjectKnown ==
  /\ status = "ok" /\ shape.gives \in {"handle", "child"}
  /\ phase \in Swept \/ (phase = "unwind" /\ answer \in GivenUp)

LEMMA ObjectNext ==
  ASSUME CallTypes, ArgsKnown, LoansKnown, CallNext
  PROVE  object' => ObjectKnown'
<1> USE DEF handleVars, registryVars, frameVars, cancelVars, resultVars, lossVars
<1> SUFFICES ASSUME object' PROVE ObjectKnown'
  OBVIOUS
<1>0. object => ObjectKnown
  BY DEF LoansKnown, ObjectKnown
<1>1. CASE NativeReturnsStatus
  BY <1>1 DEF NativeReturnsStatus, ObjectKnown, Swept
<1>2. CASE GiveHandle \/ ReturnFromCall
  BY <1>2 DEF GiveHandle, ReturnFromCall
<1>3. CASE RethrowPanic \/ ReturnCallbackError
  BY <1>0, <1>3 DEF RethrowPanic, ReturnCallbackError, Leave, ObjectKnown, GivenUp
<1>4. CASE Adopt \/ GiveValue \/ ReturnStatus
  <2>1. object /\ ObjectKnown
    BY <1>0, <1>4 DEF Adopt, GiveValue, ReturnStatus
  <2>2. CASE Adopt
    <3>1. shape \in CallShapesUsed /\ Positions({"offer"}) # {}
      BY <2>2 DEF Adopt, ArgsKnown
    <3> QED  BY <2>1, <3>1, ShapeRules, PositionsOf DEF ObjectKnown
  <2>3. CASE GiveValue \/ ReturnStatus
    BY <2>1, <2>3 DEF GiveValue, ReturnStatus, ObjectKnown
  <2> QED  BY <1>4, <2>2, <2>3
<1>5. CASE \/ BeginCall \/ Acquire \/ PassNothing \/ Refuse \/ PassCheck \/ DrawToken
           \/ Watch \/ Link \/ TakeScratch \/ EnterNative
           \/ Renew \/ CloseGiven \/ CallbackFails
  <2>1. object /\ phase \notin Swept \union {"unwind"}
    BY <1>5
    DEF BeginCall, Acquire, PassNothing, Refuse, PassCheck, DrawToken, Watch, Link, TakeScratch,
        EnterNative, AtStep, Renew, CloseGiven, CallbackFails, Swept
  <2> QED  BY <1>0, <2>1 DEF ObjectKnown
<1>6. CASE NoPanicFound \/ NoErrorFound \/ StatusOk
  <2>1. object /\ UNCHANGED <<status, shape>> /\ phase' \in Swept
    BY <1>6 DEF NoPanicFound, NoErrorFound, StatusOk, Swept
  <2> QED  BY <1>0, <2>1 DEF ObjectKnown
<1>7. CASE \/ RetainedCallbackFails \/ ContextDone \/ AfterFunc \/ CloseHandle
           \/ RunRelease \/ RunDropChild \/ RunDelete \/ RunUnlink \/ RunGive
  <2>1. object /\ UNCHANGED <<status, shape, phase, answer>>
    BY <1>7 DEF RetainedCallbackFails, ContextDone, AfterFunc, CloseHandle,
        RunRelease, RunDropChild, RunDelete, RunUnlink, RunGive
  <2> QED  BY <1>0, <2>1 DEF ObjectKnown
<1> QED  BY <1>1, <1>2, <1>3, <1>4, <1>5, <1>6, <1>7 DEF CallNext

\* No callback can fail in a call that returns a buffer.
LEMMA BufferIsQuiet ==
  ASSUME shape \in CallShapesUsed, shape.gives = "buffer"
  PROVE  /\ FirstWith("panic", SweptAt) = {} /\ FirstWith("error", FallibleAt) = {}
         /\ \A p \in DOMAIN Steps : SweptAt[p] = {} /\ FallibleAt[p] = {}
<1>1. \A p \in DOMAIN Steps : SweptAt[p] = {} /\ FallibleAt[p] = {}
  BY ShapeRules, PositionsOf DEF SweptAt, FallibleAt
<1> QED  BY <1>1 DEF FirstWith, Failing

\* A buffer is held until the deferred release frees it.
LEMMA BufferNext ==
  ASSUME CallTypes, ArgsKnown, DefersKnown, LoansKnown, CallNext
  PROVE  /\ buffer' = "held" =>
              /\ shape'.gives = "buffer" /\ status' = "ok"
              /\ \/ phase' \in Swept
                 \/ phase' = "unwind" /\ SomeTodo("free")'
         /\ buffer' = "freed" => phase' = "unwind"
<1> USE DEF handleVars, registryVars, frameVars, cancelVars, resultVars, lossVars
<1>1. CASE NativeReturnsStatus
  BY <1>1 DEF NativeReturnsStatus, Swept
<1>2. CASE GiveValue
  <2>1. phase = "result" /\ phase' = "unwind" /\ UNCHANGED <<buffer, status, shape>>
    BY <1>2 DEF GiveValue, Leave
  <2>2. CASE buffer = "held"
    <3>1. Defer("free")
      BY <1>2, <2>2 DEF GiveValue
    <3>2. SomeTodo("free")'
      BY <2>1, <3>1, TodoPushed, TodoSome DEF Deferrable, Ended
    <3> QED  BY <2>1, <2>2, <3>2 DEF LoansKnown
  <2>3. CASE buffer # "held"
    BY <2>1, <2>3 DEF LoansKnown
  <2> QED  BY <2>2, <2>3
<1>3. CASE \/ RethrowPanic \/ ReturnCallbackError \/ GiveHandle \/ Adopt \/ ReturnStatus
  <2>1. buffer' = buffer /\ phase \in Swept /\ phase' = "unwind" /\ phase # "idle"
    BY <1>3 DEF RethrowPanic, ReturnCallbackError, GiveHandle, Adopt, ReturnStatus, Leave, Swept
  <2>2. shape \in CallShapesUsed
    BY <2>1 DEF ArgsKnown
  <2>3. buffer # "held"
    <3> SUFFICES ASSUME buffer = "held" PROVE FALSE
      OBVIOUS
    <3>1. shape.gives = "buffer" /\ status = "ok"
      BY DEF LoansKnown
    <3>2. CASE RethrowPanic
      BY <2>2, <3>1, <3>2, BufferIsQuiet DEF RethrowPanic
    <3>3. CASE ReturnCallbackError
      BY <2>2, <3>1, <3>3, BufferIsQuiet DEF ReturnCallbackError
    <3>4. CASE Adopt
      BY <2>2, <3>1, <3>4, ShapeRules, PositionsOf DEF Adopt
    <3>5. CASE GiveHandle \/ ReturnStatus
      BY <3>1, <3>5 DEF GiveHandle, ReturnStatus
    <3> QED  BY <1>3, <3>2, <3>3, <3>4, <3>5
  <2> QED  BY <2>1, <2>3
<1>4. CASE RunGive \/ RunRelease \/ RunDropChild \/ RunDelete \/ RunUnlink
  <2>1. /\ phase = "unwind" /\ UNCHANGED <<phase, status, shape>>
        /\ buffer' = buffer \/ buffer' = "freed"
    BY <1>4 DEF RunGive, RunRelease, RunDropChild, RunDelete, RunUnlink, AtDefer
  <2>2. buffer' = "held" => SomeTodo("free")
    BY <2>1 DEF LoansKnown, Swept
  <2> QED  BY <2>1, <2>2, SomeTodoNext DEF LoansKnown
<1>5. CASE ReturnFromCall
  <2>1. phase = "unwind" /\ defers = <<>>
        /\ buffer' = IF buffer = "freed" THEN "none" ELSE buffer
    BY <1>5 DEF ReturnFromCall, AtReturn
  <2>2. ~SomeTodo("free")
    BY <2>1 DEF SomeTodo
  <2>3. buffer # "held"
    BY <2>1, <2>2 DEF LoansKnown, Swept
  <2> QED  BY <2>1, <2>3
<1>6. CASE \/ BeginCall \/ Acquire \/ PassNothing \/ Refuse \/ PassCheck \/ DrawToken
           \/ Watch \/ Link \/ TakeScratch \/ EnterNative \/ Renew \/ CloseGiven
           \/ CallbackFails
  <2>1. buffer' = buffer /\ phase \notin Swept /\ phase # "unwind"
    BY <1>6
    DEF BeginCall, Acquire, PassNothing, Refuse, PassCheck, DrawToken, Watch, Link, TakeScratch,
        EnterNative, AtStep, Renew, CloseGiven, CallbackFails, Swept
  <2>2. buffer' \notin {"held", "freed"}
    BY <2>1 DEF LoansKnown
  <2> QED  BY <2>2
<1>7. CASE \/ NoPanicFound \/ NoErrorFound \/ StatusOk
           \/ RetainedCallbackFails \/ ContextDone \/ AfterFunc \/ CloseHandle
  <2>1. /\ UNCHANGED <<buffer, status, shape, defers>>
        /\ phase' = phase \/ (phase \in Swept /\ phase' \in Swept)
    BY <1>7 DEF NoPanicFound, NoErrorFound, StatusOk, RetainedCallbackFails, ContextDone,
                AfterFunc, CloseHandle, Swept
  <2>2. SomeTodo("free")' <=> SomeTodo("free")
    BY <2>1 DEF SomeTodo
  <2> QED  BY <2>1, <2>2 DEF LoansKnown, Swept
<1> QED  BY <1>1, <1>2, <1>3, <1>4, <1>5, <1>6, <1>7 DEF CallNext

\* Whatever is lent has its return deferred.
LEMMA LoansKnownNext ==
  ASSUME CallTypes, ArgsKnown, DefersKnown, LoansKnown, CallNext
  PROVE  LoansKnown'
<1>1. /\ armed' => SomeTodo("disarm")'
      /\ linked' # NoToken => SomeTodo("unlink")'
      /\ lent' => SomeTodo("give")'
  BY LoansNext, SomeTodoNext DEF LoansKnown
<1> QED  BY <1>1, ObjectNext, BufferNext DEF LoansKnown, ObjectKnown

-----------------------------------------------------------------------------
(* What the sweeps find.                                                   *)

\* Closing a handle takes no token from where the sweeps of a call look.
LEMMA TokensAtStay ==
  ASSUME CallTypes, ArgsKnown, DefersKnown, CountsKnown, TokensKnown, phase \notin Ended,
         CloseHandle, NEW p, NEW t \in TokensAt(p)
  PROVE  t \in TokensAt(p)' /\ kept'[t] = kept[t]
<1>1. /\ UNCHANGED <<drawn, passed, shape>> /\ t \in alive /\ t \in CallTokens /\ t # NoToken
      /\ PassedTo({p})' = PassedTo({p})
  BY CallsAssumption DEF CloseHandle, frameVars, TokensAt, CallTypes, PassedTo
<1>2. CASE UNCHANGED <<slot, alive, kept>>
  BY <1>1, <1>2 DEF TokensAt
<1>3. ASSUME NEW h \in PassedHandles, LastCall(h, 0), Reap(h)
      PROVE  t \in TokensAt(p)' /\ kept'[t] = kept[t]
  <2>1. /\ slot' = [slot EXCEPT ![h] = NoToken] /\ alive' = alive \ {slot[h]} /\ pinned[h] = 0
        /\ kept' = [u \in CallTokens |-> IF u \in {slot[h]} THEN {} ELSE kept[u]]
    BY <1>3 DEF Reap, Delete, LastCall
  <2>2. t # slot[h] => t \in alive' /\ kept'[t] = kept[t]
    BY <1>1, <2>1
  <2>3. CASE p \in DOMAIN drawn
    <3>1. t = drawn[p] /\ Owns(p)
      BY <2>3, OwnsInCall DEF TokensAt, OwnsAll, InCall
    <3>2. t # slot[h]
      BY <2>3, <3>1 DEF TokensKnown, TokensPlaced
    <3> QED  BY <1>1, <2>2, <2>3, <3>1, <3>2 DEF TokensAt
  <2>4. CASE p \notin DOMAIN drawn
    <3>1. PICK g \in PassedTo({p}) : t = slot[g]
      BY <2>4 DEF TokensAt
    <3>2. p \in DOMAIN passed /\ g = passed[p] /\ passed[p] # "nil"
      BY <3>1 DEF PassedTo
    <3>3. g \in PassedHandles /\ g # h
      BY <2>1, <3>2, PassedPinned
    <3>4. t # slot[h]
      BY <1>1, <3>1, <3>3 DEF TokensKnown, TokensPlaced
    <3>5. slot'[g] = slot[g]
      BY <2>1, <3>3 DEF CallTypes, Places
    <3> QED  BY <1>1, <2>2, <2>4, <3>1, <3>4, <3>5 DEF TokensAt
  <2> QED  BY <2>3, <2>4
<1> QED  BY <1>2, <1>3 DEF CloseHandle, registryVars

\* A failure that stays in a token the call looks at stays to be found.
LEMMA FoundAsWell ==
  ASSUME Steps' = Steps, \A K : Positions(K)' = Positions(K),
         \A p : \A t \in TokensAt(p) : t \in TokensAt(p)' /\ kept[t] \subseteq kept'[t]
  PROVE  /\ Failing("panic", SweptAt) # {} => Failing("panic", SweptAt)' # {}
         /\ Failing("error", FallibleAt) # {} => Failing("error", FallibleAt)' # {}
<1>1. ASSUME NEW p \in DOMAIN Steps, NEW t \in SweptAt[p]
      PROVE  p \in DOMAIN Steps' /\ t \in SweptAt'[p] /\ kept[t] \subseteq kept'[t]
  <2>1. /\ p \in Positions(TokenSteps) \/ (p \in Positions(HandleSteps) /\ Steps[p].calls)
        /\ t \in TokensAt(p)
    BY <1>1 DEF SweptAt
  <2> QED  BY <2>1 DEF SweptAt
<1>2. ASSUME NEW p \in Failing("panic", SweptAt)
      PROVE  p \in Failing("panic", SweptAt)'
  <2>1. PICK t \in SweptAt[p] : "panic" \in kept[t] /\ p \in DOMAIN Steps
    BY DEF Failing
  <2>2. p \in DOMAIN Steps' /\ t \in SweptAt'[p] /\ "panic" \in kept'[t]
    BY <1>1, <2>1
  <2> QED  BY <2>2 DEF Failing
<1>3. ASSUME NEW p \in Failing("error", FallibleAt)
      PROVE  p \in Failing("error", FallibleAt)'
  <2>1. PICK t \in FallibleAt[p] : "error" \in kept[t] /\ p \in DOMAIN Steps
    BY DEF Failing
  <2>2. Steps[p].fails /\ t \in SweptAt[p]
    BY <2>1 DEF FallibleAt
  <2>3. p \in DOMAIN Steps' /\ t \in FallibleAt'[p] /\ "error" \in kept'[t]
    BY <1>1, <2>1, <2>2 DEF FallibleAt
  <2> QED  BY <2>3 DEF Failing
<1> QED  BY <1>2, <1>3

\* What happens beside the call takes no failure from where it looks.
LEMMA FailuresStay ==
  ASSUME CallTypes, ArgsKnown, DefersKnown, CountsKnown, TokensKnown, phase \notin Ended,
         \/ NativeReturnsStatus \/ NoPanicFound \/ ContextDone \/ AfterFunc \/ CloseHandle
         \/ RetainedCallbackFails
  PROVE  /\ Failing("panic", SweptAt) # {} => Failing("panic", SweptAt)' # {}
         /\ Failing("error", FallibleAt) # {} => Failing("error", FallibleAt)' # {}
<1> USE DEF handleVars, registryVars, frameVars, cancelVars, resultVars, lossVars
<1>1. Steps' = Steps /\ \A K : Positions(K)' = Positions(K)
  BY SameShape DEF NativeReturnsStatus, NoPanicFound, ContextDone, AfterFunc, CloseHandle,
                   RetainedCallbackFails
<1>2. \A p : \A t \in TokensAt(p) : t \in TokensAt(p)' /\ kept[t] \subseteq kept'[t]
  <2>1. CASE CloseHandle
    BY <2>1, TokensAtStay
  <2>2. CASE \/ NativeReturnsStatus \/ NoPanicFound \/ ContextDone \/ AfterFunc
             \/ RetainedCallbackFails
    <3>1. UNCHANGED <<slot, alive, passed, drawn>>
      BY <2>2 DEF NativeReturnsStatus, NoPanicFound, ContextDone, AfterFunc,
                  RetainedCallbackFails
    <3>2. ASSUME NEW t \in CallTokens PROVE kept[t] \subseteq kept'[t]
      <4>1. CASE RetainedCallbackFails
        <5>1. PICK u, how : kept' = [kept EXCEPT ![u] = @ \union {how}]
          BY <4>1 DEF RetainedCallbackFails
        <5> QED  BY <5>1 DEF CallTypes, Failures
      <4>2. CASE kept' = kept
        BY <4>2
      <4> QED
        BY <2>2, <4>1, <4>2 DEF NativeReturnsStatus, NoPanicFound, ContextDone, AfterFunc
    <3>3. \A p : TokensAt(p)' = TokensAt(p) /\ TokensAt(p) \subseteq CallTokens
      BY <3>1 DEF TokensAt, PassedTo, CallTypes
    <3> QED  BY <3>2, <3>3
  <2> QED  BY <2>1, <2>2
<1> QED  BY <1>1, <1>2, FoundAsWell

\* The sweeps look wherever a callback of an argument may have failed.
LEMMA LooksWhereItMayFail ==
  ASSUME ArgsKnown, phase # "idle", NEW how \in HowCallbacksFail, NEW p \in MayFail(how),
         NEW t \in TokensAt(p)
  PROVE  /\ p \in DOMAIN Steps /\ t \in SweptAt[p]
         /\ how = "error" => t \in FallibleAt[p]
<1>1. p \in DOMAIN Steps /\ Steps[p].calls /\ (how = "error" => Steps[p].fails)
  BY DEF MayFail
<1>2. p \in DOMAIN drawn \/ p \in DOMAIN passed
  BY DEF TokensAt, PassedTo
<1>3. p \in Positions(TokenSteps) \/ p \in Positions(HandleSteps)
  BY <1>2 DEF ArgsKnown
<1>4. t \in SweptAt[p]
  BY <1>1, <1>3 DEF SweptAt
<1> QED  BY <1>1, <1>4 DEF FallibleAt

\* So a failure that one of them keeps is to be found.
LEMMA KeptIsFound ==
  ArgsKnown /\ phase # "idle" /\ StillKept =>
    Failing("panic", SweptAt) # {} \/ Failing("error", FallibleAt) # {}
<1> SUFFICES ASSUME ArgsKnown, phase # "idle", StillKept
             PROVE  Failing("panic", SweptAt) # {} \/ Failing("error", FallibleAt) # {}
  OBVIOUS
<1>1. PICK how \in HowCallbacksFail :
        \E p \in MayFail(how) : \E t \in TokensAt(p) : how \in kept[t]
  BY DEF StillKept
<1>2. PICK p \in MayFail(how) : \E t \in TokensAt(p) : how \in kept[t]
  BY <1>1
<1>5. PICK t \in TokensAt(p) : how \in kept[t]
  BY <1>2
<1>3. /\ p \in DOMAIN Steps /\ t \in SweptAt[p]
      /\ how = "error" => t \in FallibleAt[p]
  BY LooksWhereItMayFail
<1>4. p \in Failing(how, IF how = "error" THEN FallibleAt ELSE SweptAt)
  BY <1>5, <1>3 DEF Failing
<1> QED  BY <1>4 DEF HowCallbacksFail

\* In the state after it, too.
LEMMA KeptIsFoundNext ==
  (ArgsKnown /\ phase # "idle" /\ StillKept)' =>
    (Failing("panic", SweptAt) # {} \/ Failing("error", FallibleAt) # {})'
BY KeptIsFound, PTL

\* A callback that fails keeps its failure in an argument.
LEMMA FailsInArgument ==
  ASSUME CallTypes, CallbackFails
  PROVE  StillKept'
<1> USE DEF handleVars, registryVars, frameVars, cancelVars, resultVars, lossVars
<1>1. UNCHANGED <<slot, alive, passed, drawn, shape>> /\ Steps' = Steps
  BY SameShape DEF CallbackFails
<1>2. /\ \A p : TokensAt(p)' = TokensAt(p)
      /\ \A how : MayFail(how)' = MayFail(how)
  BY <1>1 DEF TokensAt, PassedTo, MayFail
<1>3. PICK how \in HowCallbacksFail :
        \E p \in MayFail(how) : \E t \in TokensAt(p) :
           kept' = [kept EXCEPT ![t] = @ \union {how}]
  BY DEF CallbackFails
<1>4. PICK p \in MayFail(how) : \E t \in TokensAt(p) :
        kept' = [kept EXCEPT ![t] = @ \union {how}]
  BY <1>3
<1>5. PICK t \in TokensAt(p) : kept' = [kept EXCEPT ![t] = @ \union {how}]
  BY <1>4
<1>6. how \in kept'[t]
  BY <1>5 DEF TokensAt, CallTypes, Failures
<1> QED  BY <1>2, <1>5, <1>6 DEF StillKept

\* No failure of an argument slips past the sweeps.
LEMMA ToFindNext ==
  ASSUME CallTypes, ArgsKnown, ArgsKnown', DefersKnown, CountsKnown, TokensKnown, ToFind,
         CallNext
  PROVE  ToFind'
<1> USE DEF handleVars, registryVars, frameVars, cancelVars, resultVars, lossVars
<1> SUFFICES ASSUME callbackFailed' PROVE ToFind'
  BY DEF ToFind
<1>1. CASE CallbackFails
  <2>1. phase' = "native"
    BY <1>1 DEF CallbackFails
  <2> QED  BY <1>1, <2>1, FailsInArgument, KeptIsFoundNext DEF ToFind
<1>2. CASE EnterNative
  <2>1. phase' = "native" /\ phase # "idle" /\ StillKept
    BY <1>2 DEF EnterNative
  <2>2. Steps' = Steps /\ \A K : Positions(K)' = Positions(K)
    BY <1>2, SameShape DEF EnterNative
  <2>3. \A p : \A t \in TokensAt(p) : t \in TokensAt(p)' /\ kept[t] \subseteq kept'[t]
    BY <1>2 DEF EnterNative, TokensAt, PassedTo
  <2> QED  BY <2>1, <2>2, <2>3, KeptIsFound, FoundAsWell DEF ToFind
<1>3. CASE \/ NativeReturnsStatus \/ ContextDone \/ AfterFunc \/ CloseHandle
           \/ RetainedCallbackFails
  <2>1. /\ callbackFailed /\ answer' = answer
        /\ phase' = phase \/ (phase = "native" /\ phase' = "sweep")
    BY <1>3 DEF NativeReturnsStatus, ContextDone, AfterFunc, CloseHandle,
                RetainedCallbackFails
  <2>2. CASE phase \in Ended
    BY <2>1, <2>2 DEF ToFind, Ended
  <2>3. CASE phase \notin Ended
    BY <1>3, <2>1, <2>3, FailuresStay DEF ToFind, Ended
  <2> QED  BY <2>2, <2>3
<1>4. CASE NoPanicFound
  <2>1. /\ phase = "sweep" /\ phase' = "errors" /\ callbackFailed
        /\ FirstWith("panic", SweptAt) = {} /\ phase \notin Ended
    BY <1>4 DEF NoPanicFound, Ended
  <2>2. Failing("panic", SweptAt) = {}
    BY <2>1, FirstWithExists DEF ArgsKnown
  <2> QED  BY <1>4, <2>1, <2>2, FailuresStay DEF ToFind
<1>5. CASE NoErrorFound
  <2>1. /\ phase = "errors" /\ callbackFailed
        /\ FirstWith("error", FallibleAt) = {}
    BY <1>5 DEF NoErrorFound
  <2> QED  BY <2>1, FirstWithExists DEF ArgsKnown, ToFind
<1>6. CASE RethrowPanic \/ ReturnCallbackError
  <2>1. phase' = "unwind" /\ answer' \in GivenUp
    BY <1>6 DEF RethrowPanic, ReturnCallbackError, Leave, GivenUp
  <2> QED  BY <2>1 DEF ToFind
<1>7. CASE RunRelease \/ RunDropChild \/ RunDelete \/ RunUnlink \/ RunGive
  <2>1. phase = "unwind" /\ UNCHANGED <<callbackFailed, answer, phase>>
    BY <1>7 DEF RunRelease, RunDropChild, RunDelete, RunUnlink, RunGive, AtDefer
  <2> QED  BY <2>1 DEF ToFind
<1>8. CASE ReturnFromCall
  BY <1>8 DEF ReturnFromCall
<1>9. CASE \/ BeginCall \/ Acquire \/ PassNothing \/ Refuse \/ PassCheck \/ DrawToken
           \/ Watch \/ Link \/ TakeScratch \/ ReturnStatus \/ StatusOk
           \/ GiveHandle \/ Adopt \/ GiveValue \/ Renew \/ CloseGiven
  <2>1. callbackFailed
        /\ phase \notin {"native", "sweep", "errors", "unwind"}
    BY <1>9
    DEF BeginCall, Acquire, PassNothing, Refuse, PassCheck, DrawToken, Watch, Link, TakeScratch,
        AtStep, ReturnStatus, StatusOk, GiveHandle, Adopt, GiveValue, Renew, CloseGiven
  <2> QED  BY <2>1 DEF ToFind
<1> QED  BY <1>1, <1>2, <1>3, <1>4, <1>5, <1>6, <1>7, <1>8, <1>9 DEF CallNext

\* What the caller is told follows from what happened.
LEMMA StatusNext ==
  ASSUME CallTypes, ArgsKnown, DefersKnown, LoansKnown, ToFind, StatusKnown, CallNext
  PROVE  StatusKnown'
<1> USE DEF handleVars, registryVars, frameVars, cancelVars, resultVars, lossVars
<1>1. phase' \in {"idle", "prologue", "native", "result"} => status' = "ok"
  <2>1. CASE StatusOk \/ ReturnFromCall
    BY <2>1 DEF StatusOk, ReturnFromCall
  <2>2. CASE \/ NativeReturnsStatus \/ NoPanicFound \/ NoErrorFound \/ Refuse \/ RethrowPanic
             \/ ReturnCallbackError \/ ReturnStatus \/ GiveHandle \/ Adopt \/ GiveValue
             \/ RunRelease \/ RunDropChild \/ RunDelete \/ RunUnlink \/ RunGive
    <3>1. phase' \in {"sweep", "errors", "status", "unwind"}
      BY <2>2 DEF NativeReturnsStatus, NoPanicFound, NoErrorFound, Refuse, RethrowPanic,
         ReturnCallbackError, ReturnStatus, GiveHandle, Adopt, GiveValue, Leave,
         RunRelease, RunDropChild, RunDelete, RunUnlink, RunGive, AtDefer
    <3> QED  BY <3>1
  <2>3. CASE \/ BeginCall \/ Acquire \/ PassNothing \/ PassCheck \/ DrawToken \/ Watch \/ Link
             \/ TakeScratch \/ EnterNative \/ CallbackFails
             \/ RetainedCallbackFails \/ ContextDone \/ AfterFunc
             \/ CloseHandle \/ Renew \/ CloseGiven
    <3>1. status' = status /\ (phase' = phase \/ phase \in {"idle", "prologue", "native"})
      BY <2>3 DEF BeginCall, Acquire, PassNothing, PassCheck, DrawToken, Watch, Link,
         TakeScratch, AtStep, EnterNative, CallbackFails, RetainedCallbackFails, ContextDone,
         AfterFunc, CloseHandle, Renew, CloseGiven
    <3> QED  BY <3>1 DEF StatusKnown
  <2> QED  BY <2>1, <2>2, <2>3 DEF CallNext
<1>2. phase' = "unwind" /\ status' = "panic" => answer' \in GivenUp \union {"nativePanic"}
  <2>1. CASE Refuse \/ GiveHandle \/ Adopt \/ GiveValue
    <3>1. status' = status /\ phase \in {"prologue", "result"}
      BY <2>1 DEF Refuse, AtStep, GiveHandle, Adopt, GiveValue
    <3> QED  BY <3>1 DEF StatusKnown
  <2>2. CASE RethrowPanic \/ ReturnCallbackError \/ ReturnStatus
    BY <2>2 DEF RethrowPanic, ReturnCallbackError, ReturnStatus, Leave, GivenUp
  <2>3. CASE \/ BeginCall \/ Acquire \/ PassNothing \/ PassCheck \/ DrawToken \/ Watch \/ Link
             \/ TakeScratch \/ EnterNative \/ CallbackFails
             \/ NativeReturnsStatus \/ NoPanicFound \/ NoErrorFound \/ StatusOk
             \/ ReturnFromCall \/ Renew \/ CloseGiven
    <3>1. phase' # "unwind"
      BY <2>3 DEF BeginCall, Acquire, PassNothing, PassCheck, DrawToken, Watch, Link,
         TakeScratch, AtStep, NextStep, EnterNative, CallbackFails, NativeReturnsStatus,
         NoPanicFound, NoErrorFound, StatusOk, ReturnFromCall, Renew,
         CloseGiven
    <3> QED  BY <3>1
  <2>4. CASE \/ RetainedCallbackFails \/ ContextDone \/ AfterFunc \/ CloseHandle
             \/ RunRelease \/ RunDropChild \/ RunDelete \/ RunUnlink \/ RunGive
    <3>1. UNCHANGED <<phase, status, answer>>
      BY <2>4 DEF RetainedCallbackFails, ContextDone, AfterFunc, CloseHandle, RunRelease,
         RunDropChild, RunDelete, RunUnlink, RunGive
    <3> QED  BY <3>1 DEF StatusKnown
  <2> QED  BY <2>1, <2>2, <2>3, <2>4 DEF CallNext
<1>3. phase' = "idle" => ~flag'
  <2>1. CASE Renew \/ CloseGiven \/ ContextDone \/ CloseHandle \/ RetainedCallbackFails
    BY <2>1 DEF Renew, CloseGiven, ContextDone, CloseHandle, RetainedCallbackFails, StatusKnown
  <2>2. CASE ReturnFromCall
    BY <2>2 DEF ReturnFromCall
  <2>3. CASE AfterFunc
    <3>1. SomeTodo("disarm") /\ phase' = phase
      BY <2>3 DEF AfterFunc, LoansKnown
    <3>2. phase # "idle"
      BY <3>1 DEF DefersKnown, SomeTodo
    <3> QED  BY <3>1, <3>2
  <2>4. CASE ~(\/ Renew \/ CloseGiven \/ ContextDone \/ AfterFunc \/ CloseHandle
               \/ RetainedCallbackFails \/ ReturnFromCall)
    <3>1. phase' # "idle"
      BY <2>4
      DEF CallNext, BeginCall, Acquire, PassNothing, Refuse, PassCheck, DrawToken, Watch, Link,
          TakeScratch, AtStep, NextStep, EnterNative, CallbackFails, NativeReturnsStatus,
          RethrowPanic, NoPanicFound, ReturnCallbackError, NoErrorFound,
          ReturnStatus, StatusOk, GiveHandle, Adopt, GiveValue, Leave, RunRelease, RunDropChild,
          RunDelete, RunUnlink, RunGive, AtDefer
    <3> QED  BY <3>1
  <2> QED  BY <2>1, <2>2, <2>3, <2>4
<1>4. (flag' \/ status' = "cancelled") => ctxDone' \/ callbackFailed'
  <2>1. CASE BeginCall
    BY <2>1 DEF BeginCall, StatusKnown
  <2>2. CASE Watch \/ CallbackFails \/ AfterFunc \/ NativeReturnsStatus \/ ReturnFromCall
    BY <2>2 DEF Watch, CallbackFails, AfterFunc, NativeReturnsStatus, ReturnFromCall, StatusKnown
  <2>3. CASE EnterNative
    <3>1. ~callbackFailed /\ UNCHANGED <<flag, status, ctxDone>>
      BY <2>3 DEF EnterNative, ToFind
    <3> QED  BY <3>1 DEF StatusKnown
  <2>4. CASE ~(\/ BeginCall \/ Watch \/ CallbackFails \/ AfterFunc \/ NativeReturnsStatus
               \/ ReturnFromCall \/ EnterNative)
    <3>1. UNCHANGED <<flag, status, callbackFailed>> /\ (ctxDone => ctxDone')
      BY <2>4
      DEF CallNext, Acquire, PassNothing, Refuse, PassCheck, DrawToken, Link,
          TakeScratch, RetainedCallbackFails, ContextDone,
          RethrowPanic, NoPanicFound, ReturnCallbackError, NoErrorFound, ReturnStatus, StatusOk,
          GiveHandle, Adopt, GiveValue, RunRelease, RunDropChild, RunDelete, RunUnlink,
          RunGive, CloseHandle, Renew, CloseGiven
    <3> QED  BY <3>1 DEF StatusKnown
  <2> QED  BY <2>1, <2>2, <2>3, <2>4
<1>5. answer' # "cancelled" /\ (answer' = "ctx" => ctxDone')
  <2>1. CASE ReturnStatus
    <3>1. phase = "status"
      BY <2>1 DEF ReturnStatus
    <3>2. ~callbackFailed
      BY <3>1 DEF ToFind
    <3>3. status = "cancelled" => ctxDone
      BY <3>2 DEF StatusKnown
    <3>4. ctxDone' = ctxDone
      BY <2>1 DEF ReturnStatus
    <3>5. CASE status = "panic"
      BY <2>1, <3>4, <3>5 DEF ReturnStatus, Leave
    <3>6. CASE status = "cancelled"
      BY <2>1, <3>3, <3>4, <3>6 DEF ReturnStatus, Leave
    <3>7. CASE status \notin {"panic", "cancelled"}
      BY <2>1, <3>4, <3>7 DEF ReturnStatus, Leave
    <3> QED  BY <3>5, <3>6, <3>7
  <2>2. CASE BeginCall
    BY <2>2 DEF BeginCall, ArgsKnown
  <2>3. CASE \/ Refuse \/ RethrowPanic \/ ReturnCallbackError \/ GiveHandle \/ Adopt \/ GiveValue
             \/ ReturnFromCall
    BY <2>3 DEF Refuse, RethrowPanic, ReturnCallbackError, GiveHandle, Adopt, GiveValue,
                ReturnFromCall, Leave
  <2>4. CASE ~(\/ ReturnStatus \/ BeginCall \/ Refuse \/ RethrowPanic \/ ReturnCallbackError
               \/ GiveHandle \/ Adopt \/ GiveValue \/ ReturnFromCall)
    <3>1. answer' = answer /\ (ctxDone => ctxDone')
      BY <2>4
      DEF CallNext, Acquire, PassNothing, PassCheck, DrawToken, Watch, Link, TakeScratch,
          EnterNative, CallbackFails, RetainedCallbackFails, ContextDone,
          AfterFunc, NativeReturnsStatus, NoPanicFound,
          NoErrorFound, StatusOk, RunRelease, RunDropChild, RunDelete, RunUnlink, RunGive,
          CloseHandle, Renew, CloseGiven
    <3> QED  BY <3>1 DEF StatusKnown
  <2> QED  BY <2>1, <2>2, <2>3, <2>4
<1> QED  BY <1>1, <1>2, <1>3, <1>4, <1>5 DEF StatusKnown

-----------------------------------------------------------------------------
(* The invariant.                                                          *)

\* Before the first call nothing is held.
LEMMA InitKnown == CallInit => CallInv
<1> SUFFICES ASSUME CallInit PROVE CallInv
  OBVIOUS
<1>1. CallTypes
  BY TypesInit
<1>2. /\ phase = "idle" /\ passed = <<>> /\ drawn = <<>> /\ defers = <<>> /\ answer = "none"
      /\ DOMAIN passed = {} /\ DOMAIN drawn = {} /\ DOMAIN defers = {}
  BY DEF CallInit
<1>3. ArgsKnown
  BY <1>2 DEF ArgsKnown, Ended, Swept
<1>4. DefersKnown
  BY <1>2 DEF DefersKnown, DefersFit, Once, Todo, In, Ended
<1>5. CountsKnown
  <2>1. \A h : HeldAt(h) = {} /\ ~Reserves(h)
    BY <1>2 DEF HeldAt, Reserves
  <2>2. Cardinality({}) = 0
    BY FS_EmptySet
  <2>3. \A h \in PassedHandles : given.parent # h
    <3>1. given.parent = "none"
      BY DEF CallInit, None
    <3>2. {"nil", "none"} \intersect PassedHandles = {}
      BY CallsAssumption, Zenon
    <3> QED  BY <3>1, <3>2
  <2>4. PinsCount
    BY <2>1, <2>2 DEF CallInit, PinsCount
  <2>5. PlacesCount
    BY <2>1, <2>3 DEF CallInit, PlacesCount
  <2>6. GivenWaits
    BY DEF CallInit, GivenWaits
  <2>7. SpoiledStay
    BY <1>2 DEF CallInit, SpoiledStay
  <2> QED  BY <2>4, <2>5, <2>6, <2>7 DEF CountsKnown
<1>6. TokensKnown
  BY <1>2, CallsAssumption DEF CallInit, None, TokensKnown, TokensPlaced, TokensLeft
<1>7. LoansKnown
  BY DEF CallInit, LoansKnown
<1>8. ToFind /\ StatusKnown
  BY DEF CallInit, ToFind, StatusKnown
<1> QED  BY <1>1, <1>3, <1>4, <1>5, <1>6, <1>7, <1>8 DEF CallInv

\* Every step keeps the types.
LEMMA TypesNext ==
  ASSUME CallTypes, ArgsKnown, DefersKnown, TokensKnown, CallNext
  PROVE  CallTypes'
BY PrologueTypes, SweepCallTypes, EndCallTypes DEF CallNext

\* Every step keeps the invariant.
LEMMA InvNext == CallInv /\ CallNext => CallInv'
<1> SUFFICES ASSUME CallInv, CallNext PROVE CallInv'
  OBVIOUS
<1>1. /\ CallTypes /\ ArgsKnown /\ DefersKnown /\ CountsKnown
      /\ TokensKnown /\ LoansKnown /\ ToFind /\ StatusKnown
      /\ PinsCount /\ PlacesCount /\ GivenWaits
  BY DEF CallInv, CountsKnown
<1>2. CallTypes' /\ ArgsKnown'
  BY <1>1, TypesNext, ArgsNext
<1>3. DefersKnown'
  BY <1>1, <1>2, DefersNext
<1>4. CountsKnown'
  <2>1. PinsCount' /\ PlacesCount' /\ GivenWaits'
    BY <1>1, <1>2, PinsNext, PlacesNext, GivenNext
  <2>2. SpoiledStay'
    BY <1>1, <1>2, <2>1, SpoiledNext
  <2> QED  BY <2>1, <2>2 DEF CountsKnown
<1>5. TokensKnown'
  BY <1>1, <1>2, <1>3, PlacedNext, LeftNext DEF TokensKnown
<1>6. LoansKnown' /\ ToFind' /\ StatusKnown'
  BY <1>1, <1>2, LoansKnownNext, ToFindNext, StatusNext
<1> QED  BY <1>2, <1>3, <1>4, <1>5, <1>6 DEF CallInv

\* And so does one that changes nothing.
LEMMA InvStutter == CallInv /\ UNCHANGED callVars => CallInv'
<1> SUFFICES ASSUME CallInv, UNCHANGED callVars PROVE CallInv'
  OBVIOUS
<1> USE DEF callVars, handleVars, registryVars, frameVars, cancelVars, resultVars, lossVars, CallInv
<1>1. Steps' = Steps /\ \A K : Positions(K)' = Positions(K)
  BY SameShape
<1>2. CallTypes'
  BY DEF CallTypes
<1>3. ArgsKnown'
  BY ArgsSame
<1>4. DefersKnown'
  BY DefersSame
<1>5. CountsKnown'
  <2>1. \A h : HeldAt(h)' = HeldAt(h)
    BY DEF HeldAt, Todo
  <2>2. \A h : Reserves(h)' <=> Reserves(h)
    BY DEF Reserves, Todo
  <2>3. PinsCount'
    BY <2>1, PinsStay DEF CountsKnown
  <2>4. PlacesCount'
    BY <2>2, PlacesStay DEF CountsKnown
  <2> QED  BY <2>3, <2>4 DEF CountsKnown, GivenWaits, SpoiledStay
<1>6. TokensKnown'
  <2>1. \A p : Owns(p)' <=> Owns(p)
    BY <1>1 DEF Owns, Todo
  <2>2. TokensPlaced'
    BY <2>1, TokensStay DEF TokensKnown
  <2> QED  BY <1>1, <2>2 DEF TokensKnown, TokensLeft, Undrawn
<1>7. LoansKnown'
  BY DEF LoansKnown, SomeTodo
<1>8. ToFind' /\ StatusKnown'
  <2>1. SweptAt' = SweptAt /\ FallibleAt' = FallibleAt
    BY <1>1 DEF SweptAt, FallibleAt, TokensAt, PassedTo
  <2>2. /\ Failing("panic", SweptAt)' = Failing("panic", SweptAt)
        /\ Failing("error", FallibleAt)' = Failing("error", FallibleAt)
    BY <1>1, <2>1 DEF Failing
  <2> QED  BY <2>2 DEF ToFind, StatusKnown
<1> QED  BY <1>2, <1>3, <1>4, <1>5, <1>6, <1>7, <1>8

\* At every moment of every sequence of calls the arguments, the deferred
\* functions, the counts and the tokens fit together: the code's defers undo
\* exactly what its prologue did, at whatever step the call was left.
THEOREM CallInvariant == CallSpec => []CallInv
<1>1. CallInv /\ [CallNext]_callVars => CallInv'
  BY InvNext, InvStutter
<1> QED  BY InitKnown, <1>1, PTL DEF CallSpec

-----------------------------------------------------------------------------
(* What follows from it.                                                   *)

\* A handle passed to a function is counted in as often as it was passed, and
\* not destroyed, from the raw call to the result: zigoCheckedPointer's count
\* keeps a concurrent Close from destroying it.
THEOREM PassedStay == CallSpec => []PassedStayPinned
<1>1. CallInv => PassedStayPinned
  <2> SUFFICES ASSUME CallInv, phase \in {"native"} \union Swept,
                      NEW h \in PassedTo(DOMAIN passed)
               PROVE  /\ pinned[h] >= Cardinality({p \in DOMAIN passed : passed[p] = h})
                      /\ h \notin destroyed
    BY DEF PassedStayPinned, Swept
  <2>1. PICK p \in DOMAIN passed : passed[p] = h /\ passed[p] # "nil"
    BY DEF PassedTo
  <2>2. ArgsKnown /\ DefersKnown /\ CountsKnown /\ phase \notin Ended
    BY DEF CallInv, Ended, Swept
  <2>3. h \in PassedHandles /\ h \notin destroyed /\ h # "nil"
    BY <2>1, <2>2, PassedPinned
  <2>4. {q \in DOMAIN passed : passed[q] = h} = HeldAt(h)
    BY <2>2, <2>3, PassedPinned DEF HeldAt
  <2>5. Cardinality(HeldAt(h)) \in Nat
    BY <2>2, HeldFinite, FS_CardinalityType
  <2> QED  BY <2>2, <2>3, <2>4, <2>5 DEF CountsKnown, PinsCount
<1> QED  BY <1>1, CallInvariant, PTL

\* However a call ends -- refused half-way, unwound by a callback's panic, failed
\* natively -- its deferred functions give back every count, place, link and
\* loan, and every token but those of a constructor that rethrows a panic; and
\* only a constructor given up over a callback's failure leaves an object.
THEOREM CallsGiveBack == CallSpec => []CallGivesBack
<1>1. CallInv => CallGivesBack
  <2> SUFFICES ASSUME CallInv, AtReturn PROVE CallGivesBack!2
    BY DEF CallGivesBack
  <2>1. /\ ArgsKnown /\ DefersKnown /\ CountsKnown /\ TokensKnown /\ LoansKnown /\ CallTypes
        /\ phase = "unwind" /\ DOMAIN defers = {}
    BY DEF CallInv, AtReturn
  <2>2. \A a, p : ~Todo(a, p)
    BY <2>1 DEF Todo, In
  <2>3. ASSUME NEW h \in PassedHandles
        PROVE  pinned[h] = 0 /\ offspring[h] = IF given.parent = h THEN 1 ELSE 0
    <3>1. HeldAt(h) = {} /\ ~Reserves(h)
      BY <2>2 DEF HeldAt, Reserves
    <3>2. Cardinality(HeldAt(h)) = 0
      BY <3>1, FS_EmptySet
    <3>3. pinned[h] = 0
      BY <2>1, <3>2 DEF CountsKnown, PinsCount
    <3>4. offspring[h] = (IF given.parent = h THEN 1 ELSE 0) + 0
      BY <2>1, <3>1 DEF CountsKnown, PlacesCount
    <3> QED  BY <3>3, <3>4
  <2>4. UnownedTokens = IF answer = "callbackPanic" THEN KeptTokens ELSE {}
    <3>1. /\ alive \subseteq CallTokens
          /\ \A p \in DOMAIN drawn : drawn[p] \in CallTokens /\ p \in DOMAIN Steps
      BY <2>1, PositionsOf DEF CallTypes, ArgsKnown
    <3>2. \A p : Owns(p) <=> /\ p \in DOMAIN drawn /\ Steps[p].kind = "keep"
                             /\ answer = "callbackPanic"
      BY <2>1, <2>2 DEF Owns, Ended
    <3>3. \A t : t \in UnownedTokens <=> \E p \in DOMAIN drawn : Owns(p) /\ drawn[p] = t
      BY <2>1, <3>1 DEF UnownedTokens, OwnedTokens, TokensKnown, TokensPlaced
    <3>4. \A t : t \in KeptTokens <=> \E p \in DOMAIN drawn : Steps[p].kind = "keep" /\ drawn[p] = t
      BY <3>1, PositionsOf DEF KeptTokens
    <3> QED  BY <3>2, <3>3, <3>4
  <2>5. /\ linked = NoToken /\ ~armed /\ ~lent /\ buffer # "held"
        /\ object => shape.gives \in {"handle", "child"} /\ answer \in {"callbackPanic",
            "callbackError"}
    BY <2>1 DEF LoansKnown, SomeTodo, Swept, GivenUp
  <2> QED  BY <2>3, <2>4, <2>5
<1> QED  BY <1>1, CallInvariant, PTL

\* When a call native code panicked in is over, every handle of it is poisoned
\* unless the call answered with the failure of a callback, whose sweep comes
\* before the status is looked at; and a poisoned handle is never destroyed.
THEOREM PanicSpoils == CallSpec => []PanicSpoilsUnlessMasked
<1>1. CallInv => PanicSpoilsUnlessMasked
  <2> SUFFICES ASSUME CallInv PROVE PanicSpoilsUnlessMasked
    OBVIOUS
  <2>1. SpoiledStay /\ StatusKnown
    BY DEF CallInv, CountsKnown
  <2>2. ASSUME AtReturn, status = "panic", answer \notin GivenUp
        PROVE  PassedTo(DOMAIN passed) \subseteq spoiled
    <3>1. answer = "nativePanic" /\ phase = "unwind"
      BY <2>1, <2>2 DEF AtReturn, StatusKnown
    <3> QED  BY <2>1, <3>1 DEF SpoiledStay, PassedTo
  <2>3. spoiled \intersect destroyed = {}
    BY <2>1 DEF SpoiledStay
  <2> QED  BY <2>2, <2>3 DEF PanicSpoilsUnlessMasked, GivenUp
<1> QED  BY <1>1, CallInvariant, PTL

\* What a callback of an argument did wrong -- of a token the call drew or of a
\* slot of a handle it was given, during the call or before it -- reaches the
\* caller, whatever native code made of it: the sweeps look at every argument
\* through which a callback can run.  A call on a child that runs its parent's
\* callback is another matter.
THEOREM ArgumentsFailuresReachCaller == CallSpec => []FailuresSurface
<1>1. CallInv => FailuresSurface
  BY DEF CallInv, ToFind, StatusKnown, FailuresSurface, AtReturn, GivenUp
<1> QED  BY <1>1, CallInvariant, PTL

\* What a callback did wrong is kept, whoever it failed under, until a call
\* answers with that very failure or its token is deleted.
THEOREM FailuresAreKept == CallSpec => KeptUntilAnswered
<1> USE DEF handleVars, registryVars, frameVars, cancelVars, resultVars, lossVars
<1>1. ASSUME CallInv, [CallNext]_callVars,
             NEW t \in CallTokens, NEW how \in kept[t] \ kept'[t]
      PROVE  \/ t \notin alive'
             \/ /\ phase # "unwind" /\ phase' = "unwind"
                /\ answer' = IF how = "panic" THEN "callbackPanic" ELSE "callbackError"
  <2>1. kept \in Failures /\ how \in {"panic", "error"}
    BY <1>1 DEF CallInv, CallTypes, Failures
  <2>2. ASSUME NEW T, Delete(T) PROVE t \notin alive'
    BY <1>1, <2>2 DEF Delete
  <2>3. ASSUME NEW h, Reap(h) PROVE t \notin alive'
    BY <2>2, <2>3 DEF Reap
  <2>4. CASE RethrowPanic
    <3>1. PICK u : kept' = Take(u, "panic")
      BY <2>4 DEF RethrowPanic
    <3>2. how = "panic"
      BY <1>1, <2>1, <3>1 DEF Take, Failures
    <3> QED  BY <2>4, <3>2 DEF RethrowPanic, Leave
  <2>5. CASE ReturnCallbackError
    <3>1. PICK u : /\ alive' = alive \ KeptTokens
                   /\ kept' = [v \in CallTokens |->
                                 IF v \in KeptTokens THEN {} ELSE Take(u, "error")[v]]
      BY <2>5 DEF ReturnCallbackError
    <3>2. CASE t \in KeptTokens
      BY <3>1, <3>2
    <3>3. CASE t \notin KeptTokens
      <4>1. kept'[t] = Take(u, "error")[t]
        BY <1>1, <3>1, <3>3
      <4>2. how = "error"
        BY <1>1, <2>1, <4>1 DEF Take, Failures
      <4> QED  BY <2>5, <4>2 DEF ReturnCallbackError, Leave
    <3> QED  BY <3>2, <3>3
  <2>6. CASE RunRelease \/ CloseHandle
    <3>1. (\E h : Reap(h)) \/ kept' = kept
      BY <2>6 DEF RunRelease, CloseHandle
    <3> QED  BY <1>1, <2>3, <3>1
  <2>7. CASE ReturnStatus \/ Adopt \/ RunDelete \/ CloseGiven
    <3>1. \E T : Delete(T)
      BY <2>7 DEF ReturnStatus, Adopt, RunDelete, CloseGiven
    <3> QED  BY <2>2, <3>1
  <2>8. CASE CallbackFails \/ RetainedCallbackFails
    <3>1. PICK u, g : kept' = [kept EXCEPT ![u] = @ \union {g}]
      BY <2>8 DEF CallbackFails, RetainedCallbackFails
    <3> QED  BY <1>1, <2>1, <3>1 DEF Failures
  <2>9. CASE \/ BeginCall \/ Acquire \/ PassNothing \/ Refuse \/ PassCheck \/ DrawToken
             \/ Watch \/ Link \/ TakeScratch \/ EnterNative \/ ContextDone \/ AfterFunc
             \/ NativeReturnsStatus \/ NoPanicFound \/ NoErrorFound \/ StatusOk \/ GiveHandle
             \/ GiveValue \/ RunDropChild \/ RunUnlink \/ RunGive \/ ReturnFromCall \/ Renew
             \/ UNCHANGED callVars
    <3>1. kept' = kept
      BY <2>9
      DEF BeginCall, Acquire, PassNothing, Refuse, PassCheck, DrawToken, Watch, Link, TakeScratch,
          EnterNative, ContextDone, AfterFunc, NativeReturnsStatus, NoPanicFound, NoErrorFound,
          StatusOk, GiveHandle, GiveValue, RunDropChild, RunUnlink, RunGive, ReturnFromCall,
          Renew, callVars
    <3> QED  BY <1>1, <3>1
  <2> QED
    BY <1>1, <2>4, <2>5, <2>6, <2>7, <2>8, <2>9 DEF CallNext
<1>2. CallInv /\ [CallNext]_callVars =>
        [\A t \in CallTokens : \A how \in kept[t] \ kept'[t] :
           \/ t \notin alive'
           \/ /\ phase # "unwind" /\ phase' = "unwind"
              /\ answer' = IF how = "panic" THEN "callbackPanic" ELSE "callbackError"]_callVars
  BY <1>1
<1> QED  BY <1>2, CallInvariant, PTL DEF CallSpec, KeptUntilAnswered

=============================================================================

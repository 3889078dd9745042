---------------------------- MODULE Session_proofs ----------------------------
(***************************************************************************)
(* The session, for any number of children, child types, goroutines and    *)
(* calls of Add and Close.  Its steps are steps of the lifecycle, so that  *)
(* everything proved there holds here too; on top of it, what the session  *)
(* itself keeps: who runs Close, what that call has yet to do, and where a *)
(* member is that is not closed.                                           *)
(***************************************************************************)
EXTENDS Session, HandleRelease_proofs, SequenceTheorems

-----------------------------------------------------------------------------
(* The order of Close.                                                     *)

\* What FlattenSeq defines by recursion; that such a function exists, for any
\* length, is shown from a least length for which it would not.
Flattens(f, n, seqs) ==
  f = [i \in 1..n |-> IF i = 1 THEN seqs[i] ELSE f[i - 1] \o seqs[i]]

LEMMA FlattensFurther ==
  ASSUME NEW n \in Nat, NEW seqs, NEW f, Flattens(f, n, seqs)
  PROVE  \E g : Flattens(g, n + 1, seqs)
<1> DEFINE value == IF n = 0 THEN seqs[1] ELSE f[n] \o seqs[n + 1]
           g == [i \in 1..(n + 1) |-> IF i = n + 1 THEN value ELSE f[i]]
<1>1. ASSUME NEW i \in 1..(n + 1)
      PROVE  g[i] = IF i = 1 THEN seqs[i] ELSE g[i - 1] \o seqs[i]
  <2>1. CASE i = n + 1 /\ n = 0
    BY <2>1
  <2>2. CASE i = n + 1 /\ n # 0
    <3>1. n \in 1..(n + 1) /\ n # n + 1 /\ i - 1 = n /\ i # 1
      BY <2>2
    <3>2. g[n] = f[n] /\ g[i] = value
      BY <2>2, <3>1
    <3>. QED  BY <2>2, <3>1, <3>2
  <2>3. CASE i # n + 1
    <3>1. i \in 1..n /\ g[i] = f[i]
      BY <2>3
    <3>2. f[i] = IF i = 1 THEN seqs[i] ELSE f[i - 1] \o seqs[i]
      BY <3>1 DEF Flattens
    <3>3. i # 1 => g[i - 1] = f[i - 1]
      BY <3>1
    <3>. QED  BY <3>1, <3>2, <3>3
  <2>. QED  BY <2>1, <2>2, <2>3
<1>2. g = [i \in 1..(n + 1) |-> g[i]]
  OBVIOUS
<1> HIDE DEF g
<1>3. g = [i \in 1..(n + 1) |-> IF i = 1 THEN seqs[i] ELSE g[i - 1] \o seqs[i]]
  BY <1>1, <1>2
<1>. QED  BY <1>3 DEF Flattens

LEMMA Flattening ==
  ASSUME NEW seqs, NEW n \in Nat
  PROVE  \E f : Flattens(f, n, seqs)
<1> DEFINE Bad == {m \in Nat : ~ \E f : Flattens(f, m, seqs)}
           R == OpToRel(<, Nat)
<1>1. SUFFICES ASSUME Bad # {} PROVE FALSE
  OBVIOUS
<1>2. PICK m \in Bad : \A y \in Bad : ~ (<<y, m>> \in R)
  <2>1. IsWellFoundedOn(R, Nat) /\ Bad \subseteq Nat
    BY NatLessThanWellFounded
  <2> HIDE DEF Bad, R
  <2>. QED  BY <1>1, <2>1, WFMin
<1>3. m # 0
  <2>1. Flattens(<<>>, 0, seqs)
    BY DEF Flattens
  <2>. QED  BY <2>1
<1>4. m - 1 \in Nat /\ <<m - 1, m>> \in R /\ (m - 1) + 1 = m
  BY <1>3 DEF OpToRel
<1>5. PICK f : Flattens(f, m - 1, seqs)
  BY <1>2, <1>4
<1>. QED  BY <1>4, <1>5, FlattensFurther

LEMMA SetOfJoined ==
  ASSUME NEW S, NEW s \in Seq(S), NEW t \in Seq(S)
  PROVE  s \o t \in Seq(S) /\ ToSet(s \o t) = ToSet(s) \union ToSet(t)
<1>1. /\ s \o t \in Seq(S) /\ Len(s \o t) = Len(s) + Len(t)
      /\ \A i \in 1..(Len(s) + Len(t)) :
           (s \o t)[i] = IF i <= Len(s) THEN s[i] ELSE t[i - Len(s)]
  BY ConcatProperties
<1>2. DOMAIN s = 1..Len(s) /\ DOMAIN t = 1..Len(t) /\ DOMAIN (s \o t) = 1..(Len(s) + Len(t))
  BY <1>1, LenProperties
<1>3. Len(s) \in Nat /\ Len(t) \in Nat
  BY LenProperties
<1>4. ASSUME NEW x \in ToSet(s \o t) PROVE x \in ToSet(s) \union ToSet(t)
  <2>1. PICK i \in 1..(Len(s) + Len(t)) : x = (s \o t)[i]
    BY <1>2 DEF ToSet
  <2>2. CASE i <= Len(s)
    BY <1>1, <1>2, <1>3, <2>1, <2>2 DEF ToSet
  <2>3. CASE ~(i <= Len(s))
    <3>1. i - Len(s) \in 1..Len(t) /\ x = t[i - Len(s)]
      BY <1>1, <1>3, <2>1, <2>3
    <3>. QED  BY <1>2, <3>1 DEF ToSet
  <2>. QED  BY <2>2, <2>3
<1>5. ASSUME NEW x \in ToSet(s) PROVE x \in ToSet(s \o t)
  <2>1. PICK i \in 1..Len(s) : x = s[i]
    BY <1>2 DEF ToSet
  <2>2. i \in 1..(Len(s) + Len(t)) /\ (s \o t)[i] = x
    BY <1>1, <1>3, <2>1
  <2>. QED  BY <1>2, <2>2 DEF ToSet
<1>6. ASSUME NEW x \in ToSet(t) PROVE x \in ToSet(s \o t)
  <2>1. PICK i \in 1..Len(t) : x = t[i]
    BY <1>2 DEF ToSet
  <2>2. i + Len(s) \in 1..(Len(s) + Len(t)) /\ (i + Len(s)) - Len(s) = i /\ ~(i + Len(s) <= Len(s))
    BY <1>3
  <2>3. (s \o t)[i + Len(s)] = x
    BY <1>1, <2>1, <2>2
  <2>. QED  BY <1>2, <2>2, <2>3 DEF ToSet
<1>. QED  BY <1>1, <1>4, <1>5, <1>6

LEMMA SetOfReversed ==
  ASSUME NEW S, NEW s \in Seq(S)
  PROVE  Reverse(s) \in Seq(S) /\ ToSet(Reverse(s)) = ToSet(s)
<1>1. Len(s) \in Nat /\ DOMAIN s = 1..Len(s) /\ \A i \in 1..Len(s) : s[i] \in S
  BY LenProperties, ElementOfSeq
<1>2. \A i \in 1..Len(s) : (Len(s) - i) + 1 \in 1..Len(s) /\ (Len(s) - ((Len(s) - i) + 1)) + 1 = i
  BY <1>1
<1>3. Reverse(s) \in [1..Len(s) -> S]
  BY <1>1, <1>2 DEF Reverse
<1>4. Reverse(s) \in Seq(S) /\ DOMAIN Reverse(s) = 1..Len(s)
  BY <1>1, <1>3, SeqDef
<1>5. \A i \in 1..Len(s) : Reverse(s)[i] = s[(Len(s) - i) + 1]
  BY DEF Reverse
<1>6. \A i \in 1..Len(s) : Reverse(s)[(Len(s) - i) + 1] = s[i]
  BY <1>2, <1>5
<1>. QED  BY <1>1, <1>2, <1>4, <1>5, <1>6 DEF ToSet

LEMMA SetOfHeadTail ==
  ASSUME NEW S, NEW s \in Seq(S), s # <<>>
  PROVE  /\ Head(s) \in S /\ Tail(s) \in Seq(S) /\ Head(s) \in ToSet(s)
         /\ ToSet(s) = {Head(s)} \union ToSet(Tail(s))
<1>1. /\ Head(s) \in S /\ Tail(s) \in Seq(S) /\ Len(Tail(s)) = Len(s) - 1
      /\ \A i \in 1..Len(Tail(s)) : Tail(s)[i] = s[i + 1]
  BY HeadTailProperties
<1>2. Len(s) \in Nat \ {0} /\ Head(s) = s[1] /\ DOMAIN s = 1..Len(s)
      /\ DOMAIN Tail(s) = 1..(Len(s) - 1)
  BY <1>1, LenProperties, EmptySeq
<1>3. ASSUME NEW x \in ToSet(s) PROVE x \in {Head(s)} \union ToSet(Tail(s))
  <2>1. PICK i \in 1..Len(s) : x = s[i]
    BY <1>2, <1>3 DEF ToSet
  <2>2. i = 1 \/ (i - 1 \in 1..(Len(s) - 1) /\ (i - 1) + 1 = i)
    BY <1>2
  <2>. QED  BY <1>1, <1>2, <2>1, <2>2 DEF ToSet
<1>4. ASSUME NEW x \in ToSet(Tail(s)) PROVE x \in ToSet(s)
  <2>1. PICK i \in 1..(Len(s) - 1) : x = Tail(s)[i]
    BY <1>2, <1>4 DEF ToSet
  <2>2. i + 1 \in 1..Len(s) /\ x = s[i + 1]
    BY <1>1, <1>2, <2>1
  <2>. QED  BY <1>2, <2>2 DEF ToSet
<1>5. Head(s) \in ToSet(s)
  BY <1>2 DEF ToSet
<1>. QED  BY <1>1, <1>3, <1>4, <1>5

\* Flattened, a sequence of sequences has the elements of each of them.
LEMMA FlattenedHas ==
  ASSUME NEW S, NEW seqs \in Seq(Seq(S))
  PROVE  /\ FlattenSeq(seqs) \in Seq(S)
         /\ \A i \in 1..Len(seqs) : ToSet(seqs[i]) \subseteq ToSet(FlattenSeq(seqs))
<1>1. CASE Len(seqs) = 0
  <2>1. FlattenSeq(seqs) = seqs
    BY <1>1 DEF FlattenSeq
  <2>2. seqs = <<>> /\ 1..Len(seqs) = {} /\ <<>> \in Seq(S)
    BY <1>1, EmptySeq
  <2>. QED  BY <2>1, <2>2
<1>2. CASE Len(seqs) # 0
  <2> DEFINE n == Len(seqs)
             flatten == CHOOSE f : Flattens(f, n, seqs)
  <2>1. n \in Nat \ {0} /\ \A i \in 1..n : seqs[i] \in Seq(S)
    BY <1>2, LenProperties, ElementOfSeq
  <2>2. FlattenSeq(seqs) = flatten[n]
    BY <1>2 DEF FlattenSeq, Flattens
  <2> HIDE DEF n
  <2>3. Flattens(flatten, n, seqs)
    BY <2>1, Flattening
  <2> HIDE DEF flatten
  <2>4. \A i \in 1..n : flatten[i] = IF i = 1 THEN seqs[i] ELSE flatten[i - 1] \o seqs[i]
    BY <2>3 DEF Flattens
  <2> DEFINE Good(i) == /\ flatten[i] \in Seq(S)
                        /\ \A j \in 1..i : ToSet(seqs[j]) \subseteq ToSet(flatten[i])
             Bad == {i \in 1..n : ~Good(i)}
             R == OpToRel(<, Nat)
  <2>5. Bad = {}
    <3>1. SUFFICES ASSUME Bad # {} PROVE FALSE
      OBVIOUS
    <3>2. PICK m \in Bad : \A y \in Bad : ~ (<<y, m>> \in R)
      <4>1. IsWellFoundedOn(R, Nat)
        BY NatLessThanWellFounded
      <4>2. Bad \subseteq 1..n
        OBVIOUS
      <4> HIDE DEF Bad, R
      <4>3. Bad \subseteq Nat
        BY <2>1, <4>2
      <4>. QED  BY <3>1, <4>1, <4>3, WFMin
    <3>3. m \in 1..n /\ ~Good(m)
      OBVIOUS
    <3>4. m # 1
      <4>1. ASSUME m = 1 PROVE flatten[m] = seqs[1] /\ seqs[1] \in Seq(S) /\ \A j \in 1..m : j = 1
        BY <2>1, <2>4, <3>3, <4>1
      <4>. QED  BY <3>3, <4>1
    <3>5. m - 1 \in 1..n /\ m - 1 \in Nat /\ m \in Nat /\ m - 1 < m
      BY <2>1, <3>3, <3>4
    <3>6. <<m - 1, m>> \in R
      BY <3>5 DEF OpToRel
    <3>7. Good(m - 1)
      BY <3>2, <3>5, <3>6
    <3>8. flatten[m] = flatten[m - 1] \o seqs[m] /\ seqs[m] \in Seq(S)
      BY <2>1, <2>4, <3>3, <3>4
    <3>9. /\ flatten[m] \in Seq(S)
          /\ ToSet(flatten[m]) = ToSet(flatten[m - 1]) \union ToSet(seqs[m])
      BY <3>7, <3>8, SetOfJoined
    <3>10. \A j \in 1..m : j = m \/ j \in 1..(m - 1)
      BY <3>5
    <3>. QED  BY <3>3, <3>7, <3>9, <3>10
  <2>6. Good(n)
    <3>1. n \in 1..n
      BY <2>1
    <3> HIDE DEF Good
    <3>. QED  BY <2>5, <3>1
  <2>7. /\ FlattenSeq(seqs) \in Seq(S)
        /\ \A i \in 1..n : ToSet(seqs[i]) \subseteq ToSet(FlattenSeq(seqs))
    BY <2>2, <2>6
  <2>. QED  BY <2>7 DEF n
<1>. QED  BY <1>1, <1>2

\* What Close has yet to do: children, then the primary.
CloseTodo(s) ==
  /\ s \in Seq(Handles)
  /\ \A i \in 1..Len(s) : IF i = Len(s) THEN s[i] = Primary ELSE s[i] \in Dependents

LEMMA CloseOrderCovers ==
  ASSUME adopted \in [ToSet(Kinds) -> Seq(Dependents)]
  PROVE  /\ CloseTodo(CloseOrder) /\ Primary \in ToSet(CloseOrder)
         /\ \A kind \in ToSet(Kinds) : ToSet(adopted[kind]) \subseteq ToSet(CloseOrder)
<1> DEFINE seqs == [i \in DOMAIN Kinds |-> Reverse(adopted[Kinds[i]])]
           s == FlattenSeq(seqs)
<1>1. /\ Kinds \in Seq(ToSet(Kinds)) /\ Len(Kinds) \in Nat /\ DOMAIN Kinds = 1..Len(Kinds)
      /\ \A i \in 1..Len(Kinds) : Kinds[i] \in ToSet(Kinds)
  BY SessionAssumption, LenProperties, ElementOfSeq
<1>2. \A i \in 1..Len(Kinds) : /\ Reverse(adopted[Kinds[i]]) \in Seq(Dependents)
                               /\ ToSet(Reverse(adopted[Kinds[i]])) = ToSet(adopted[Kinds[i]])
  BY <1>1, SetOfReversed
<1>3. seqs \in [1..Len(Kinds) -> Seq(Dependents)]
  BY <1>1, <1>2
<1>4. seqs \in Seq(Seq(Dependents)) /\ Len(seqs) = Len(Kinds)
  BY <1>1, <1>3, SeqDef, LenProperties
<1>5. /\ \A i \in 1..Len(Kinds) : ToSet(seqs[i]) = ToSet(adopted[Kinds[i]])
      /\ CloseOrder = s \o <<Primary>>
  BY <1>1, <1>2 DEF CloseOrder
<1> HIDE DEF seqs
<1>6. s \in Seq(Dependents) /\ \A i \in 1..Len(Kinds) : ToSet(seqs[i]) \subseteq ToSet(s)
  BY <1>4, FlattenedHas
<1> HIDE DEF s
<1>7. Primary \in Handles /\ Dependents \subseteq Handles /\ Dependents \in SUBSET Handles
  BY SessionAssumption DEF Roots, Dependents
<1>8. s \in Seq(Handles) /\ <<Primary>> \in Seq(Handles) /\ ToSet(<<Primary>>) = {Primary}
  BY <1>6, <1>7 DEF ToSet
<1>9. /\ CloseOrder \in Seq(Handles) /\ Len(CloseOrder) = Len(s) + 1
      /\ \A i \in 1..(Len(s) + 1) :
           CloseOrder[i] = IF i <= Len(s) THEN s[i] ELSE <<Primary>>[i - Len(s)]
  BY <1>5, <1>8, ConcatProperties
<1>10. Len(s) \in Nat /\ \A i \in 1..Len(s) : s[i] \in Dependents
  BY <1>6, LenProperties, ElementOfSeq
<1>11. CloseTodo(CloseOrder)
  <2>1. ASSUME NEW i \in 1..(Len(s) + 1)
        PROVE  IF i = Len(s) + 1 THEN CloseOrder[i] = Primary ELSE CloseOrder[i] \in Dependents
    <3>1. i <= Len(s) => CloseOrder[i] = s[i] /\ i \in 1..Len(s)
      BY <1>9, <1>10
    <3>2. ~(i <= Len(s)) => i = Len(s) + 1 /\ i - Len(s) = 1
      BY <1>10
    <3>. QED  BY <1>9, <1>10, <3>1, <3>2
  <2>. QED  BY <1>9, <2>1 DEF CloseTodo
<1>12. ToSet(CloseOrder) = ToSet(s) \union {Primary}
  <2>1. PICK p : p = <<Primary>>
    OBVIOUS
  <2>2. s \in Seq(Handles) /\ p \in Seq(Handles) /\ ToSet(p) = {Primary}
    BY <1>8, <2>1
  <2>3. ToSet(s \o p) = ToSet(s) \union ToSet(p)
    BY <2>2, SetOfJoined
  <2>. QED  BY <1>5, <2>1, <2>2, <2>3
<1>13. ASSUME NEW kind \in ToSet(Kinds) PROVE ToSet(adopted[kind]) \subseteq ToSet(s)
  <2>1. PICK i \in 1..Len(Kinds) : kind = Kinds[i]
    BY <1>1, <1>13 DEF ToSet
  <2>. QED  BY <1>5, <1>6, <2>1
<1>. QED  BY <1>11, <1>12, <1>13

-----------------------------------------------------------------------------
(* The session only does to its handles what any program may.              *)

LEMMA SessionKeepsVars ==
  ASSUME NEW t \in Threads,
         \/ BeginAdd(t) \/ EnterOnce(t) \/ SkipNil(t) \/ Adopt(t) \/ ReturnFromAdd(t)
         \/ TakeSlices(t) \/ LeaveOnce(t) \/ AnswerAgain(t)
  PROVE  UNCHANGED vars
BY DEF BeginAdd, EnterOnce, SkipNil, Adopt, ReturnFromAdd, TakeSlices, LeaveOnce, AnswerAgain

LEMMA SessionCloses ==
  ASSUME NEW t \in Threads, CloseLate(t) \/ CloseMember(t)
  PROVE  Close(t) \/ UNCHANGED vars
BY DEF CloseLate, CloseMember, CallClose

LEMMA SessionMoves ==
  ASSUME [SessionNext]_allVars
  PROVE  \/ \E t \in Threads : Start(t) \/ Proceed(t) \/ Close(t) \/ CloseView(t)
         \/ UNCHANGED vars
<1>1. ASSUME NEW t \in Threads, Direct(t) \/ Underway(t)
      PROVE  Start(t) \/ Proceed(t) \/ Close(t) \/ CloseView(t)
  BY <1>1 DEF Direct, Underway
<1>2. ASSUME NEW t \in Threads, BeginAdd(t) \/ EnterOnce(t) \/ SessionStep(t)
      PROVE  Close(t) \/ UNCHANGED vars
  BY <1>2, SessionKeepsVars, SessionCloses DEF SessionStep
<1>3. SessionRest \/ UNCHANGED allVars => UNCHANGED vars
  BY DEF SessionRest, Rest, allVars
<1>. QED  BY <1>1, <1>2, <1>3 DEF SessionNext

LEMMA SessionNextIsNext == [SessionNext]_allVars => [Next]_vars
BY SessionMoves DEF Next

\* A program with a session is a program: every behaviour of the session is one
\* of the lifecycle, so all that is proved of handles holds beside a session.
THEOREM SessionIsALifecycle == SessionSpec => Spec
<1>1. SessionInit => Init
  BY DEF SessionInit
<1>. QED  BY <1>1, SessionNextIsNext, PTL DEF SessionSpec, Spec

\* The program holds on to its handles, so the collector stays idle.
HoldsHandles == dropped = {} /\ pc[Collector] = "idle"

LEMMA HoldsHandlesNext ==
  ASSUME All, HoldsHandles, [SessionNext]_allVars
  PROVE  HoldsHandles'
<1>1. ASSUME NEW t \in Threads, Start(t) \/ Proceed(t) \/ Close(t) \/ CloseView(t)
      PROVE  HoldsHandles'
  <2>1. t \in Actors /\ Collector \in Actors /\ t # Collector /\ StepOf(t)
    BY <1>1, ActorsType, HandlesAssumption DEF StepOf
  <2>2. pc'[Collector] = pc[Collector]
    BY <2>1, Footprint DEF Untouched, All, Both, Layer3, Layer2, Layer1
  <2>3. dropped' = dropped
    BY <1>1 DEF Start, StartCall, StartNew, StartView, Begin, Proceed, Lookup, Pin, PinRefused,
                NativeEnds, NativeReturns, NativeMakesChild, NativeMakesView, NativePanics,
                Poison, Release, CleanupStep, Deinit, DeleteCallbackHandles, DropChild,
                DropReservation, Close, CloseView, program
  <2>. QED  BY <2>2, <2>3 DEF HoldsHandles
<1>2. ASSUME UNCHANGED vars PROVE HoldsHandles'
  BY <1>2 DEF HoldsHandles, vars, program
<1>. QED  BY <1>1, <1>2, SessionMoves

\* A closed handle stays closed.
LEMMA ClosedForGood ==
  ASSUME All, [SessionNext]_allVars, NEW h \in Handles, closed[h]
  PROVE  closed'[h]
<1>0. closed \in [Handles -> BOOLEAN]
  BY Types DEF All, Both
<1>1. ASSUME NEW t \in Threads, Start(t) \/ Proceed(t) \/ Close(t) \/ CloseView(t)
      PROVE  closed'[h]
  <2>1. t \in Actors /\ StepOf(t)
    BY <1>1, ActorsType DEF StepOf
  <2>2. closed' = closed \/ Close(t) \/ CloseView(t)
    BY <2>1, WritersOfClosed
  <2>. QED  BY <1>0, <2>2 DEF Close, CloseView
<1>. QED  BY <1>1, SessionMoves DEF vars, fields

-----------------------------------------------------------------------------
(* What the session keeps.                                                 *)

SessionTypes ==
  /\ adopted \in [ToSet(Kinds) -> Seq(Dependents)] /\ members \subseteq Dependents
  /\ shut \in BOOLEAN /\ once \in {"new", "running", "done"}
  /\ task \in [Threads -> {"none", "add", "late", "shut", "close", "wait"}]
  /\ todo \in [Threads -> Seq(Handles \union {NoHandle})]
  /\ failures \in [Threads -> SUBSET Handles]
  /\ \A t \in Threads :
       /\ task[t] \in {"add", "late"} => todo[t] \in Seq(Dependents \union {NoHandle})
       /\ task[t] = "late" => todo[t] # <<>> /\ Head(todo[t]) # NoHandle
       /\ task[t] = "close" => CloseTodo(todo[t])

Closing(t) == task[t] \in {"shut", "close"}

\* One goroutine runs the body of Close, and the flag says how far it is.
OneCloser ==
  /\ \A t \in Threads : Closing(t) => once = "running" /\ \A u \in Threads \ {t} : ~Closing(u)
  /\ \A t \in Threads : task[t] = "shut" => ~shut
  /\ \A t \in Threads : task[t] = "close" => shut
  /\ once = "new" => ~shut
  /\ once = "done" => shut

AnsweredOnce ==
  /\ once # "done" => answers = {}
  /\ once = "done" => answers \subseteq {closeErr}

\* A member is adopted as long as Close has not begun; then it is in the hands
\* of the goroutine that closes, unless it is closed or has refused.
AdoptedOrTaken ==
  /\ ~shut => \A h \in members : h \in ToSet(adopted[KindOf[h]])
  /\ \A t \in Threads : task[t] = "close" =>
       \A h \in members \union {Primary} :
         closed[h] \/ h \in failures[t] \/ h \in ToSet(todo[t])
  /\ MembersClosedOrReported

SessionInv == SessionTypes /\ OneCloser /\ AnsweredOnce /\ AdoptedOrTaken

LEMMA SessionInitInv == SessionInit => SessionInv
<1> SUFFICES ASSUME SessionInit PROVE SessionInv
  OBVIOUS
<1>1. <<>> \in Seq(Handles \union {NoHandle}) /\ <<>> \in Seq(Dependents)
  OBVIOUS
<1>2. SessionTypes
  BY <1>1 DEF SessionInit, SessionTypes
<1>. QED
  BY <1>2 DEF SessionInit, SessionInv, OneCloser, Closing, AnsweredOnce, AdoptedOrTaken,
              MembersClosedOrReported

\* A step on handles alone keeps all of it, a handle being closed for good.
LEMMA HandleStepInv ==
  ASSUME SessionInv, UNCHANGED sessionVars, \A h \in Handles : closed[h] => closed'[h]
  PROVE  SessionInv'
<1>1. members \subseteq Handles /\ Primary \in Handles
  BY SessionAssumption DEF SessionInv, SessionTypes, Dependents, Roots
<1>2. SessionTypes' /\ OneCloser' /\ AnsweredOnce'
  BY DEF SessionInv, SessionTypes, OneCloser, Closing, AnsweredOnce, CloseTodo, sessionVars
<1>3. AdoptedOrTaken'
  BY <1>1 DEF SessionInv, AdoptedOrTaken, MembersClosedOrReported, sessionVars
<1>. QED  BY <1>2, <1>3 DEF SessionInv

\* A step of Add, or one that only waits: nobody begins or ends the body of Close.
LEMMA AddStepInv ==
  ASSUME SessionInv, NEW t \in Threads, SessionTypes',
         UNCHANGED <<shut, once, closeErr, failures, answers>>,
         \A h \in Handles : closed[h] => closed'[h],
         ~Closing(t), ~Closing(t)',
         \A u \in Threads \ {t} : task'[u] = task[u] /\ todo'[u] = todo[u],
         UNCHANGED <<adopted, members>>
  PROVE  SessionInv'
<1>1. members \subseteq Handles /\ Primary \in Handles
  BY SessionAssumption DEF SessionInv, SessionTypes, Dependents, Roots
<1>2. OneCloser'
  BY DEF SessionInv, OneCloser, Closing
<1>3. AnsweredOnce'
  BY DEF SessionInv, AnsweredOnce
<1>4. AdoptedOrTaken'
  BY <1>1 DEF SessionInv, AdoptedOrTaken, MembersClosedOrReported, Closing
<1>. QED  BY <1>2, <1>3, <1>4 DEF SessionInv

LEMMA BeginAddInv ==
  ASSUME SessionInv, NEW t \in Threads, BeginAdd(t)
  PROVE  SessionInv'
<1>1. PICK s \in AddArgs : todo' = [todo EXCEPT ![t] = s]
  BY DEF BeginAdd
<1>2. s \in Seq(Dependents \union {NoHandle})
  BY SessionAssumption
<1>3. s \in Seq(Handles \union {NoHandle})
  <2>1. Dependents \union {NoHandle} \subseteq Handles \union {NoHandle}
    BY DEF Dependents
  <2>. QED  BY <1>2, <2>1, SeqDef
<1>4. /\ task[t] = "none" /\ task' = [task EXCEPT ![t] = "add"] /\ closed' = closed
      /\ UNCHANGED <<shut, once, closeErr, failures, answers, adopted, members>>
  BY DEF BeginAdd, Doing, Turn, vars, fields
<1>5. SessionTypes'
  BY <1>1, <1>2, <1>3, <1>4 DEF SessionInv, SessionTypes, CloseTodo
<1>. QED  BY <1>1, <1>4, <1>5, AddStepInv DEF Closing, SessionInv, SessionTypes

\* What is left of the handles of an Add when one of them is done with.
LEMMA RestOfAdd ==
  ASSUME SessionInv, NEW t \in Threads, task[t] \in {"add", "late"}, todo[t] # <<>>
  PROVE  /\ Tail(todo[t]) \in Seq(Dependents \union {NoHandle})
         /\ Tail(todo[t]) \in Seq(Handles \union {NoHandle})
         /\ Head(todo[t]) \in Dependents \union {NoHandle}
<1>1. todo[t] \in Seq(Dependents \union {NoHandle}) /\ todo[t] \in Seq(Handles \union {NoHandle})
  BY DEF SessionInv, SessionTypes
<1>. QED  BY <1>1, SetOfHeadTail, Zenon

LEMMA SkipNilInv ==
  ASSUME SessionInv, NEW t \in Threads, SkipNil(t)
  PROVE  SessionInv'
<1>1. /\ task[t] = "add" /\ todo[t] # <<>> /\ todo' = [todo EXCEPT ![t] = Tail(todo[t])]
      /\ closed' = closed /\ task' = task
      /\ UNCHANGED <<shut, once, closeErr, failures, answers, adopted, members>>
  BY DEF SkipNil, Doing, Advance, vars, fields, history
<1>2. SessionTypes'
  BY <1>1, RestOfAdd DEF SessionInv, SessionTypes, CloseTodo
<1>. QED  BY <1>1, <1>2, AddStepInv DEF Closing, SessionInv, SessionTypes

LEMMA CloseLateInv ==
  ASSUME SessionInv, All, NEW t \in Threads, CloseLate(t),
         \A h \in Handles : closed[h] => closed'[h]
  PROVE  SessionInv'
<1>1. /\ task[t] = "late" /\ todo' = [todo EXCEPT ![t] = Tail(todo[t])]
      /\ task' = [task EXCEPT ![t] = "add"]
      /\ UNCHANGED <<shut, once, closeErr, failures, answers, adopted, members>>
  BY DEF CloseLate, Doing, Turn, Advance, history
<1>2. todo[t] # <<>>
  BY <1>1 DEF SessionInv, SessionTypes
<1>3. SessionTypes'
  BY <1>1, <1>2, RestOfAdd DEF SessionInv, SessionTypes, CloseTodo
<1>. QED  BY <1>1, <1>3, AddStepInv DEF Closing, SessionInv, SessionTypes

LEMMA ReturnFromAddInv ==
  ASSUME SessionInv, NEW t \in Threads, ReturnFromAdd(t)
  PROVE  SessionInv'
<1>1. /\ task[t] = "add" /\ task' = [task EXCEPT ![t] = "none"] /\ closed' = closed
      /\ UNCHANGED <<todo, shut, once, closeErr, failures, answers, adopted, members>>
  BY DEF ReturnFromAdd, Doing, Turn, vars, fields, history
<1>2. SessionTypes'
  BY <1>1 DEF SessionInv, SessionTypes, CloseTodo
<1>. QED  BY <1>1, <1>2, AddStepInv DEF Closing, SessionInv, SessionTypes

\* A handle is adopted while nobody has begun to close: it is in its slice.
LEMMA AdoptInv ==
  ASSUME SessionInv, NEW t \in Threads, Adopt(t)
  PROVE  SessionInv'
<1> DEFINE h == Head(todo[t])
<1>1. /\ task[t] = "add" /\ todo[t] # <<>> /\ h # NoHandle /\ closed' = closed
      /\ UNCHANGED <<shut, once, closeErr, failures, answers>>
  BY DEF Adopt, Doing, vars, fields
<1>2. h \in Dependents
  BY <1>1, RestOfAdd
<1>3. CASE shut
  <2>1. task' = [task EXCEPT ![t] = "late"] /\ UNCHANGED <<adopted, todo, members>>
    BY <1>3 DEF Adopt, Turn
  <2>2. SessionTypes'
    BY <1>1, <2>1 DEF SessionInv, SessionTypes, CloseTodo
  <2>. QED  BY <1>1, <2>1, <2>2, AddStepInv DEF Closing, SessionInv, SessionTypes
<1>4. CASE ~shut
  <2>1. /\ adopted' = [adopted EXCEPT ![KindOf[h]] = Append(adopted[KindOf[h]], h)]
        /\ members' = members \union {h}
        /\ todo' = [todo EXCEPT ![t] = Tail(todo[t])] /\ task' = task
    BY <1>4 DEF Adopt, Advance
  <2> HIDE DEF h
  <2>2. /\ KindOf[h] \in ToSet(Kinds) /\ adopted[KindOf[h]] \in Seq(Dependents)
        /\ \A c \in members : c \in Dependents /\ KindOf[c] \in ToSet(Kinds)
    BY <1>2, SessionAssumption DEF SessionInv, SessionTypes
  <2>3. PICK slice : slice = Append(adopted[KindOf[h]], h)
    OBVIOUS
  <2>4. slice \in Seq(Dependents) /\ ToSet(slice) = ToSet(adopted[KindOf[h]]) \union {h}
    <3>1. /\ slice \in Seq(Dependents) /\ Len(slice) = Len(adopted[KindOf[h]]) + 1
          /\ \A i \in 1..Len(adopted[KindOf[h]]) : slice[i] = adopted[KindOf[h]][i]
          /\ slice[Len(adopted[KindOf[h]]) + 1] = h
      BY <1>2, <2>2, <2>3, AppendProperties
    <3>2. /\ Len(adopted[KindOf[h]]) \in Nat /\ DOMAIN slice = 1..Len(slice)
          /\ DOMAIN adopted[KindOf[h]] = 1..Len(adopted[KindOf[h]])
      BY <2>2, <3>1, LenProperties
    <3>3. \A i \in 1..Len(slice) : i = Len(slice) \/ i \in 1..Len(adopted[KindOf[h]])
      BY <3>1, <3>2
    <3>4. \A i \in 1..Len(adopted[KindOf[h]]) : i \in 1..Len(slice)
      BY <3>1, <3>2
    <3>5. Len(slice) \in 1..Len(slice)
      BY <3>1, <3>2
    <3>. QED  BY <3>1, <3>2, <3>3, <3>4, <3>5 DEF ToSet
  <2>5. SessionTypes'
    BY <1>1, <1>2, <2>1, <2>2, <2>3, <2>4, RestOfAdd DEF SessionInv, SessionTypes, CloseTodo
  <2>6. OneCloser' /\ AnsweredOnce'
    BY <1>1, <2>1 DEF SessionInv, OneCloser, Closing, AnsweredOnce
  <2>7. \A c \in members' : c \in ToSet(adopted'[KindOf[c]])
    BY <1>2, <1>4, <2>1, <2>2, <2>3, <2>4 DEF SessionInv, SessionTypes, AdoptedOrTaken
  <2>8. AdoptedOrTaken'
    BY <1>1, <1>4, <2>1, <2>7 DEF SessionInv, AdoptedOrTaken, MembersClosedOrReported, OneCloser
  <2>. QED  BY <2>5, <2>6, <2>8 DEF SessionInv
<1>. QED  BY <1>3, <1>4

LEMMA EnterOnceInv ==
  ASSUME SessionInv, NEW t \in Threads, EnterOnce(t)
  PROVE  SessionInv'
<1>1. /\ task[t] = "none" /\ closed' = closed
      /\ UNCHANGED <<adopted, shut, closeErr, todo, failures, members, answers>>
  BY DEF EnterOnce, Doing, vars, fields, history
<1>2. CASE once = "new"
  <2>1. once' = "running" /\ task' = [task EXCEPT ![t] = "shut"]
    BY <1>2 DEF EnterOnce, Turn
  <2>2. ~shut /\ \A u \in Threads : ~Closing(u)
    BY <1>2 DEF SessionInv, OneCloser
  <2>3. SessionTypes'
    BY <1>1, <2>1 DEF SessionInv, SessionTypes, CloseTodo
  <2>4. OneCloser'
    BY <1>1, <2>1, <2>2 DEF SessionInv, SessionTypes, OneCloser, Closing
  <2>5. AnsweredOnce'
    BY <1>1, <1>2, <2>1 DEF SessionInv, AnsweredOnce
  <2>6. AdoptedOrTaken'
    BY <1>1, <2>1 DEF SessionInv, SessionTypes, AdoptedOrTaken, MembersClosedOrReported
  <2>. QED  BY <2>3, <2>4, <2>5, <2>6 DEF SessionInv
<1>3. CASE once # "new"
  <2>1. once' = once /\ task' = [task EXCEPT ![t] = "wait"]
    BY <1>3 DEF EnterOnce, Turn
  <2>2. SessionTypes'
    BY <1>1, <2>1 DEF SessionInv, SessionTypes, CloseTodo
  <2>. QED  BY <1>1, <2>1, <2>2, AddStepInv DEF Closing, SessionInv, SessionTypes
<1>. QED  BY <1>2, <1>3

\* Whoever takes the slices has every member in its hands.
LEMMA TakeSlicesInv ==
  ASSUME SessionInv, NEW t \in Threads, TakeSlices(t)
  PROVE  SessionInv'
<1>1. /\ task[t] = "shut" /\ task' = [task EXCEPT ![t] = "close"] /\ closed' = closed
      /\ shut' = TRUE /\ todo' = [todo EXCEPT ![t] = CloseOrder]
      /\ adopted' = [kind \in DOMAIN adopted |-> <<>>]
      /\ UNCHANGED <<once, closeErr, failures, members, answers>>
  BY DEF TakeSlices, Doing, Turn, vars, fields, history
<1>2. PICK order : order = CloseOrder
  OBVIOUS
<1>3. /\ CloseTodo(order) /\ Primary \in ToSet(order)
      /\ \A kind \in ToSet(Kinds) : ToSet(adopted[kind]) \subseteq ToSet(order)
  BY <1>2, CloseOrderCovers DEF SessionInv, SessionTypes
<1>4. order \in Seq(Handles \union {NoHandle})
  <2>1. order \in Seq(Handles) /\ Handles \subseteq Handles \union {NoHandle}
    BY <1>3 DEF CloseTodo
  <2>. QED  BY <2>1, SeqDef
<1>5. ~shut /\ once = "running" /\ \A u \in Threads \ {t} : ~Closing(u)
  BY <1>1 DEF SessionInv, OneCloser, Closing
<1>6. todo' = [todo EXCEPT ![t] = order]
  BY <1>1, <1>2
<1>7. \A h \in members : KindOf[h] \in ToSet(Kinds)
  BY SessionAssumption DEF SessionInv, SessionTypes
<1>8. \A h \in members \union {Primary} : h \in ToSet(order)
  BY <1>3, <1>5, <1>7 DEF SessionInv, AdoptedOrTaken
<1>9. adopted' \in [ToSet(Kinds) -> Seq(Dependents)]
  BY <1>1 DEF SessionInv, SessionTypes
<1>10. SessionTypes'
  BY <1>1, <1>3, <1>4, <1>6, <1>9 DEF SessionInv, SessionTypes, CloseTodo
<1>11. OneCloser'
  BY <1>1, <1>5 DEF SessionInv, SessionTypes, OneCloser, Closing
<1>12. AnsweredOnce'
  BY <1>1 DEF SessionInv, AnsweredOnce
<1>13. AdoptedOrTaken'
  BY <1>1, <1>5, <1>6, <1>8
  DEF SessionInv, SessionTypes, AdoptedOrTaken, MembersClosedOrReported, Closing
<1>. QED  BY <1>10, <1>11, <1>12, <1>13 DEF SessionInv

\* The handle at the head is closed, or has refused and is remembered.
LEMMA MemberAnswers ==
  ASSUME All, NEW t \in Threads, NEW h \in Handles, NEW refused \in BOOLEAN,
         CallClose(t, h, refused)
  PROVE  (refused <=> Refuses(h)) /\ (~refused => closed'[h])
<1>1. closed \in [Handles -> BOOLEAN]
  BY Types DEF All, Both
<1>2. ~closed[h] /\ ~refused => closed'[h]
  BY DEF CallClose, Open
<1>3. closed[h] => closed'[h]
  BY <1>1 DEF CallClose, Open, vars, fields
<1>. QED  BY <1>2, <1>3 DEF CallClose

LEMMA RestOfClose ==
  ASSUME NEW s, CloseTodo(s), s # <<>>
  PROVE  /\ CloseTodo(Tail(s)) /\ Tail(s) \in Seq(Handles \union {NoHandle})
         /\ Head(s) \in Handles /\ ToSet(s) = {Head(s)} \union ToSet(Tail(s))
         /\ Head(s) = Primary => ToSet(s) = {Primary}
<1>1. /\ s \in Seq(Handles) /\ Head(s) \in Handles /\ Tail(s) \in Seq(Handles)
      /\ ToSet(s) = {Head(s)} \union ToSet(Tail(s))
  BY SetOfHeadTail DEF CloseTodo
<1>2. /\ Len(Tail(s)) = Len(s) - 1 /\ \A i \in 1..Len(Tail(s)) : Tail(s)[i] = s[i + 1]
      /\ Len(s) \in Nat \ {0} /\ Head(s) = s[1] /\ DOMAIN s = 1..Len(s)
  BY <1>1, HeadTailProperties, LenProperties, EmptySeq
<1>3. CloseTodo(Tail(s))
  <2>1. ASSUME NEW i \in 1..Len(Tail(s))
        PROVE  IF i = Len(Tail(s)) THEN Tail(s)[i] = Primary ELSE Tail(s)[i] \in Dependents
    <3>1. i + 1 \in 1..Len(s) /\ (i = Len(Tail(s)) <=> i + 1 = Len(s))
      BY <1>2
    <3>. QED  BY <1>2, <3>1 DEF CloseTodo
  <2>. QED  BY <1>1, <2>1 DEF CloseTodo
<1>4. Tail(s) \in Seq(Handles \union {NoHandle})
  <2>1. Handles \subseteq Handles \union {NoHandle}
    OBVIOUS
  <2>. QED  BY <1>1, <2>1, SeqDef
<1>5. ASSUME Head(s) = Primary PROVE ToSet(s) = {Primary}
  <2>1. Primary \notin Dependents
    BY SessionAssumption DEF Roots, Dependents
  <2>2. 1 \in 1..Len(s) /\ s[1] = Primary
    BY <1>2, <1>5
  <2>3. 1 # Len(s) => s[1] \in Dependents
    BY <2>2 DEF CloseTodo
  <2>4. DOMAIN s = {1}
    BY <1>2, <2>1, <2>2, <2>3
  <2>. QED  BY <2>2, <2>4 DEF ToSet
<1>. QED  BY <1>1, <1>3, <1>4, <1>5

LEMMA CloseMemberInv ==
  ASSUME SessionInv, All, NEW t \in Threads, CloseMember(t),
         \A h \in Handles : closed[h] => closed'[h]
  PROVE  SessionInv'
<1>1. /\ task[t] = "close" /\ todo[t] # <<>> /\ todo' = [todo EXCEPT ![t] = Tail(todo[t])]
      /\ UNCHANGED <<adopted, shut, once, closeErr, task, members, answers>>
  BY DEF CloseMember, Doing, Advance, history
<1>2. PICK h : h = Head(todo[t])
  OBVIOUS
<1>3. /\ CloseTodo(todo[t]) /\ CloseTodo(Tail(todo[t])) /\ h \in Handles
      /\ Tail(todo[t]) \in Seq(Handles \union {NoHandle})
      /\ ToSet(todo[t]) = {h} \union ToSet(Tail(todo[t]))
  BY <1>1, <1>2, RestOfClose DEF SessionInv, SessionTypes
<1>4. PICK refused \in BOOLEAN :
        /\ CallClose(t, h, refused)
        /\ failures' = [failures EXCEPT ![t] = IF refused THEN failures[t] \union {h}
                                                          ELSE failures[t]]
  BY <1>2 DEF CloseMember
<1>5. ~refused => closed'[h]
  BY <1>3, <1>4, MemberAnswers
<1>6. shut /\ once = "running" /\ \A u \in Threads \ {t} : ~Closing(u)
  BY <1>1 DEF SessionInv, OneCloser, Closing
<1>7. SessionTypes'
  BY <1>1, <1>3, <1>4 DEF SessionInv, SessionTypes, CloseTodo
<1>8. OneCloser' /\ AnsweredOnce'
  BY <1>1 DEF SessionInv, OneCloser, Closing, AnsweredOnce
<1>9. members \subseteq Handles /\ Primary \in Handles
  BY SessionAssumption DEF SessionInv, SessionTypes, Dependents, Roots
<1>10. \A c \in members \union {Primary} :
         closed'[c] \/ c \in failures'[t] \/ c \in ToSet(todo'[t])
  BY <1>1, <1>3, <1>4, <1>5, <1>9 DEF SessionInv, SessionTypes, AdoptedOrTaken
<1>11. AdoptedOrTaken'
  BY <1>1, <1>6, <1>10 DEF AdoptedOrTaken, MembersClosedOrReported, Closing
<1>. QED  BY <1>7, <1>8, <1>11 DEF SessionInv

LEMMA LeaveOnceInv ==
  ASSUME SessionInv, NEW t \in Threads, LeaveOnce(t)
  PROVE  SessionInv'
<1>1. /\ task[t] = "close" /\ todo[t] = <<>> /\ task' = [task EXCEPT ![t] = "none"]
      /\ closeErr' = failures[t] /\ once' = "done" /\ answers' = answers \union {closeErr'}
      /\ failures' = [failures EXCEPT ![t] = {}] /\ closed' = closed
      /\ UNCHANGED <<adopted, shut, todo, members>>
  BY DEF LeaveOnce, Doing, Turn, vars, fields
<1>2. shut /\ once = "running" /\ \A u \in Threads \ {t} : ~Closing(u)
  BY <1>1 DEF SessionInv, OneCloser, Closing
<1>3. SessionTypes'
  BY <1>1 DEF SessionInv, SessionTypes, CloseTodo
<1>4. OneCloser'
  BY <1>1, <1>2 DEF SessionInv, SessionTypes, OneCloser, Closing
<1>5. AnsweredOnce'
  BY <1>1, <1>2 DEF SessionInv, AnsweredOnce
<1>6. ToSet(todo[t]) = {}
  BY <1>1 DEF ToSet
<1>7. AdoptedOrTaken'
  BY <1>1, <1>2, <1>6
  DEF SessionInv, SessionTypes, AdoptedOrTaken, MembersClosedOrReported, Closing
<1>. QED  BY <1>3, <1>4, <1>5, <1>7 DEF SessionInv

LEMMA AnswerAgainInv ==
  ASSUME SessionInv, NEW t \in Threads, AnswerAgain(t)
  PROVE  SessionInv'
<1>1. /\ task[t] = "wait" /\ once = "done" /\ task' = [task EXCEPT ![t] = "none"]
      /\ answers' = answers \union {closeErr} /\ closed' = closed
      /\ UNCHANGED <<adopted, shut, once, closeErr, todo, failures, members>>
  BY DEF AnswerAgain, Doing, Turn, vars, fields
<1>2. SessionTypes'
  BY <1>1 DEF SessionInv, SessionTypes, CloseTodo
<1>3. OneCloser' /\ AnsweredOnce'
  BY <1>1 DEF SessionInv, SessionTypes, OneCloser, Closing, AnsweredOnce
<1>4. AdoptedOrTaken'
  BY <1>1 DEF SessionInv, SessionTypes, AdoptedOrTaken, MembersClosedOrReported, Closing
<1>. QED  BY <1>2, <1>3, <1>4 DEF SessionInv

SessionAll == All /\ HoldsHandles /\ SessionInv

LEMMA SessionNextInv == SessionAll /\ [SessionNext]_allVars => SessionAll'
<1> SUFFICES ASSUME SessionAll, [SessionNext]_allVars PROVE SessionAll'
  OBVIOUS
<1>1. All' /\ HoldsHandles' /\ \A h \in Handles : closed[h] => closed'[h]
  BY AllNext, SessionNextIsNext, HoldsHandlesNext, ClosedForGood DEF SessionAll
<1>2. ASSUME NEW t \in Threads, Direct(t) \/ Underway(t) PROVE SessionInv'
  BY <1>1, <1>2, HandleStepInv DEF Direct, Underway, SessionAll
<1>3. ASSUME NEW t \in Threads, BeginAdd(t) \/ EnterOnce(t) \/ SessionStep(t) PROVE SessionInv'
  BY <1>1, <1>3, BeginAddInv, EnterOnceInv, SkipNilInv, AdoptInv, CloseLateInv, ReturnFromAddInv,
     TakeSlicesInv, CloseMemberInv, LeaveOnceInv, AnswerAgainInv DEF SessionStep, SessionAll
<1>4. CASE SessionRest \/ UNCHANGED allVars
  BY <1>1, <1>4, HandleStepInv DEF SessionRest, allVars, SessionAll
<1>. QED  BY <1>1, <1>2, <1>3, <1>4 DEF SessionNext, SessionAll

\* The invariant of the session beside that of the lifecycle.
THEOREM SessionInvariant == SessionSpec => []SessionAll
<1>1. SessionInit => SessionAll
  BY SessionInitInv, AllInit, ActorsType DEF SessionInit, SessionAll, HoldsHandles, Init
<1>. QED  BY <1>1, SessionNextInv, PTL DEF SessionSpec

-----------------------------------------------------------------------------
(* What it is for.                                                         *)

\* Once Close is over, the primary and every child ever adopted, by an Add that
\* raced Close too, is closed or in the error.
THEOREM SessionClosesItsMembers == SessionSpec => []MembersClosedOrReported
<1>1. SessionAll => MembersClosedOrReported
  BY DEF SessionAll, SessionInv, AdoptedOrTaken
<1>. QED  BY <1>1, SessionInvariant, PTL

\* All calls of Close, first, later and overlapping ones, answer the same.
THEOREM SessionAnswersAlike == SessionSpec => []AnswersAgree
<1>1. SessionAll => AnswersAgree
  <2> SUFFICES ASSUME SessionAll PROVE Cardinality(answers) <= 1
    BY DEF AnswersAgree
  <2>1. answers = {} \/ answers = {closeErr}
    BY DEF SessionAll, SessionInv, AnsweredOnce, SessionTypes
  <2>2. Cardinality({}) = 0 /\ Cardinality({closeErr}) = 1
    BY FS_EmptySet, FS_Singleton
  <2>. QED  BY <2>1, <2>2
<1>. QED  BY <1>1, SessionInvariant, PTL

\* A handle that counts a place has it taken by somebody.
LEMMA CountedHeld ==
  ASSUME All, NEW h \in Handles \ Views, children[h] # 0
  PROVE  \/ \E c \in Dependents : ParentOf[c] = h
         \/ \E a \in Actors : reservation[a] = h \/ orphan[a] = h
<1>1. Places(h) # 0
  BY DEF All, ReserveInv, PlacesInv
<1>2. ASSUME NEW S, NEW f, \A x \in S : f[x] # h PROVE Count(S, f, h) = 0
  <2>1. {x \in S : f[x] = h} = {}
    BY <1>2
  <2>. QED  BY <2>1, FS_EmptySet DEF Count
<1>. QED  BY <1>1, <1>2 DEF Places

LEMMA RefusedForOthers ==
  ASSUME SessionAll, [SessionNext]_allVars, NEW t \in Threads,
         Primary \in failures'[t], Primary \notin failures[t]
  PROVE  \/ ReturnsBorrowedViews(Primary) /\ active[Primary] > 0
         \/ \E c \in Dependents :
              /\ up[c] = Primary
              /\ c \notin members \/ c \in failures[t] \/ active[c] > 0
         \/ \E u \in Threads \ {t} : Primary \in {reservation[u], orphan[u]}
<1>1. CloseMember(t)
  <2>1. failures' = failures \/ \E u \in Threads : CloseMember(u) \/ LeaveOnce(u)
    BY DEF SessionNext, Direct, Underway, BeginAdd, EnterOnce, SessionStep, SkipNil, Adopt,
           CloseLate, ReturnFromAdd, TakeSlices, AnswerAgain, SessionRest, allVars, sessionVars
  <2>2. PICK u \in Threads : CloseMember(u) \/ LeaveOnce(u)
    BY <2>1
  <2>3. u = t
    BY <2>2 DEF CloseMember, LeaveOnce, SessionAll, SessionInv, SessionTypes
  <2>4. ~LeaveOnce(t)
    BY DEF LeaveOnce, SessionAll, SessionInv, SessionTypes
  <2>. QED  BY <2>2, <2>3, <2>4
<1>2. task[t] = "close" /\ pc[t] = "idle" /\ todo[t] # <<>>
  BY <1>1 DEF CloseMember, Doing, Idle
<1>3. PICK h : h = Head(todo[t])
  OBVIOUS
<1>4. CloseTodo(todo[t])
  BY <1>2 DEF SessionAll, SessionInv, SessionTypes
<1>5. h \in Handles
  BY <1>2, <1>3, <1>4, RestOfClose
<1>6. PICK refused \in BOOLEAN :
        /\ CallClose(t, h, refused)
        /\ failures' = [failures EXCEPT ![t] = IF refused THEN failures[t] \union {h}
                                                          ELSE failures[t]]
  BY <1>1, <1>3 DEF CloseMember
<1>7. h = Primary /\ refused
  BY <1>6 DEF SessionAll, SessionInv, SessionTypes
<1>8. ToSet(todo[t]) = {Primary}
  BY <1>2, <1>3, <1>4, <1>7, RestOfClose
<1>9. /\ ~closed[Primary]
      /\ children[Primary] # 0 \/ (ReturnsBorrowedViews(Primary) /\ active[Primary] # 0)
  BY <1>5, <1>6, <1>7, MemberAnswers DEF Refuses, Open, MayClose, SessionAll
<1>10. ASSUME NEW x \in Handles PROVE active[x] \in Nat
  <2>1. IsFiniteSet(pins) /\ active[x] = Cardinality(PinsOn(x))
    BY DEF SessionAll, All, Both, Layer3, Layer2, PinsInv, ActiveCountsPins
  <2>2. IsFiniteSet(PinsOn(x))
    BY <2>1, FS_Subset DEF PinsOn
  <2>. QED  BY <2>1, <2>2, FS_CardinalityType
<1>11. Primary \in Handles \ Views /\ Primary # NoHandle /\ Primary \notin Dependents
  BY SessionAssumption, ShapeAssumption, HandlesAssumption DEF Roots, Dependents
<1>12. CASE ReturnsBorrowedViews(Primary) /\ active[Primary] # 0
  BY <1>10, <1>11, <1>12
<1>13. ASSUME NEW c \in Dependents, ParentOf[c] = Primary
       PROVE  up[c] = Primary /\ (c \notin members \/ c \in failures[t] \/ active[c] > 0)
  <2>1. up[c] = Primary /\ c \in Handles
    BY <1>11, <1>13 DEF ParentOf, Dependents
  <2>2. c \in members => closed[c] \/ c \in failures[t]
    BY <1>2, <1>8, <1>11 DEF SessionAll, SessionInv, AdoptedOrTaken
  <2>3. closed[c] => active[c] # 0
    BY <1>11, <2>1, Types DEF SessionAll, All, Both, ReserveInv, ClosedInv
  <2>. QED  BY <1>10, <2>1, <2>2, <2>3
<1>14. ASSUME NEW a \in Actors, pc[a] = "idle"
       PROVE  reservation[a] = NoHandle /\ orphan[a] = NoHandle
  BY <1>14 DEF SessionAll, All, Both, Layer3, Layer2, Layer1, OpInv, OpOf, Tearing
<1>15. ASSUME NEW a \in Actors, reservation[a] = Primary \/ orphan[a] = Primary
       PROVE  a \in Threads \ {t} /\ Primary \in {reservation[a], orphan[a]}
  BY <1>2, <1>11, <1>14, <1>15 DEF SessionAll, HoldsHandles, Actors
<1>16. CASE children[Primary] # 0
  BY <1>11, <1>13, <1>15, <1>16, CountedHeld DEF SessionAll
<1>. QED  BY <1>9, <1>12, <1>16

\* When the primary refuses, it is never for a child the session took and could
\* have closed before it.
THEOREM PrimaryRefusesForOthers == SessionSpec => RefusedForOthersOnly
<1>1. SessionAll /\ [SessionNext]_allVars =>
        [\A t \in Threads : Primary \in failures'[t] \ failures[t] =>
           \/ ReturnsBorrowedViews(Primary) /\ active[Primary] > 0
           \/ \E c \in Dependents :
                /\ up[c] = Primary
                /\ c \notin members \/ c \in failures[t] \/ active[c] > 0
           \/ \E u \in Threads \ {t} : Primary \in {reservation[u], orphan[u]}]_allVars
  BY RefusedForOthers
<1>2. SessionSpec => [][SessionNext]_allVars
  BY PTL DEF SessionSpec
<1>. QED  BY <1>1, <1>2, SessionInvariant, PTL DEF RefusedForOthersOnly
=============================================================================

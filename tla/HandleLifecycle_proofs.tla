------------------------ MODULE HandleLifecycle_proofs ------------------------
(***************************************************************************)
(* Type correctness of the handle lifecycle, for every forest of handles,  *)
(* every set of goroutines and every set of calls.                         *)
(***************************************************************************)
EXTENDS HandleLifecycle, TLAPS

TypeInv == TypeOK /\ FrameInv

\* The initial state is well typed: every handle of the program is a root.
LEMMA TypeInvInit == Init => TypeInv
BY HandlesAssumption, ShapeAssumption
DEF Init, TypeInv, TypeOK, FrameInv, Roots, Actors, PCs

\* Whatever releases the rest of an operation leaves the locals well typed.
LEMMA TypeReleaseNext ==
  ASSUME TypeInv, NEW a \in Actors, NEW h \in Handles \union {NoHandle},
         pc[a] # "idle",
         ReleaseNext(a, h)
  PROVE  /\ pc' \in [Actors -> PCs] /\ k' \in [Actors -> Nat \ {0}]
         /\ op' \in [Actors -> {"none", "call", "new", "view"}]
         /\ args' \in [Actors -> Seq(Handles)]
         /\ child' \in [Actors -> Handles \union {NoHandle}]
         /\ at' \in [Actors -> Handles \union {NoHandle}]
         /\ last' \in [Actors -> Handles \union {NoHandle}]
         /\ caller' \in [Actors -> [Handles -> Handles \union {NoHandle}]]
         /\ reservation' = reservation
         /\ FrameInv'
<1>0. /\ k[a] \in Nat \ {0} /\ args[a] \in Seq(Handles) /\ Len(args[a]) \in Nat
      /\ k[a] > 1 => k[a] - 1 \in Nat \ {0} /\ args[a][k[a] - 1] \in Handles
  <2>1. k[a] \in Nat \ {0} /\ args[a] \in Seq(Handles) /\ (k[a] > 1 => k[a] <= Len(args[a]))
    BY DEF TypeInv, TypeOK, FrameInv
  <2>2. ASSUME k[a] > 1 PROVE k[a] - 1 \in Nat \ {0} /\ k[a] - 1 \in 1..Len(args[a])
    BY <2>1, <2>2
  <2>. QED  BY <2>1, <2>2
<1>1. CASE h # NoHandle
  <2>1. /\ pc' = [pc EXCEPT ![a] = "release"] /\ at' = [at EXCEPT ![a] = h]
        /\ UNCHANGED <<k, caller, last, call, reservation>>
    BY <1>1 DEF ReleaseNext, Goto
  <2>2. FrameInv'
    BY <1>1, <2>1 DEF TypeInv, TypeOK, FrameInv, call, PCs
  <2>. QED
    BY <2>1, <2>2 DEF TypeInv, TypeOK, PCs, call
<1>2. CASE h = NoHandle /\ k[a] > 1
  <2>1. /\ pc' = [pc EXCEPT ![a] = "release"]
        /\ at' = [at EXCEPT ![a] = args[a][k[a] - 1]]
        /\ k' = [k EXCEPT ![a] = k[a] - 1]
        /\ UNCHANGED <<caller, last, call, reservation>>
    BY <1>2 DEF ReleaseNext, Unwind, Goto
  <2>2. k' \in [Actors -> Nat \ {0}]
    BY <1>0, <1>2, <2>1 DEF TypeInv, TypeOK
  <2>3. k'[a] = k[a] - 1 /\ at'[a] \in Handles
    BY <1>0, <1>2, <2>1 DEF TypeInv, TypeOK
  <2>4. FrameInv'
    <3> SUFFICES ASSUME NEW b \in Actors
                 PROVE  FrameInv!(b)'
      BY DEF FrameInv
    <3>. QED
      BY <1>0, <1>2, <2>1, <2>3, HandlesAssumption, SMTT(30) DEF TypeInv, TypeOK, FrameInv, call, PCs
  <2>. QED
    BY <1>0, <1>2, <2>1, <2>2, <2>4 DEF TypeInv, TypeOK, PCs, call
<1>3. CASE h = NoHandle /\ ~(k[a] > 1) /\ reservation[a] # NoHandle
  <2>1. k[a] = 1
    BY <1>0, <1>3
  <2>. QED
    BY <1>3, <2>1, ZenonT(40) DEF ReleaseNext, Unwind, TypeInv, TypeOK, FrameInv, PCs, Goto, call
<1>4. CASE h = NoHandle /\ ~(k[a] > 1) /\ reservation[a] = NoHandle
  <2>1. k[a] = 1
    BY <1>0, <1>4
  <2>2. Return(a) /\ UNCHANGED <<k, reservation>>
    BY <1>4 DEF ReleaseNext, Unwind
  <2>3. <<>> \in Seq(Handles) /\ Len(<<>>) = 0
    OBVIOUS
  <2>4. FrameInv'
    BY <2>1, <2>2, <2>3 DEF Return, Goto, TypeInv, TypeOK, FrameInv, PCs
  <2>. QED
    BY <2>2, <2>3, <2>4 DEF Return, Goto, TypeInv, TypeOK, PCs
<1>. QED  BY <1>1, <1>2, <1>3, <1>4

LEMMA CountDown ==
  ASSUME NEW f \in [Handles -> Int], NEW h
  PROVE  [f EXCEPT ![h] = @ - 1] \in [Handles -> Int]
<1>1. CASE h \in Handles
  BY <1>1
<1>2. CASE h \notin Handles
  BY <1>2
<1>. QED  BY <1>1, <1>2

LEMMA FirstStepType == ASSUME NEW o, NEW h PROVE FirstStep(o, h) \in {"lookup", "pin"}
BY DEF FirstStep

LEMMA ActorsType == Threads \subseteq Actors /\ Collector \in Actors
BY DEF Actors

\* Every operation begins with its arguments and, if it makes a handle, the
\* handle it will make.
LEMMA TypeBegin ==
  ASSUME TypeInv, NEW t \in Threads, NEW o \in {"call", "new", "view"},
         NEW s \in Seq(Handles), s # <<>>, NEW c \in Handles \union {NoHandle},
         o # "call" => c # NoHandle, Begin(t, o, s, c)
  PROVE  TypeInv'
<1>1. s[1] \in Handles /\ Len(s) \in Nat /\ Len(s) > 0
  OBVIOUS
<1>2. PICK f \in {"lookup", "pin"} : pc' = [pc EXCEPT ![t] = f]
  BY FirstStepType DEF Begin, BeginAcquire, Goto
<1>3. /\ op' = [op EXCEPT ![t] = o] /\ args' = [args EXCEPT ![t] = s]
      /\ child' = [child EXCEPT ![t] = c] /\ at' = [at EXCEPT ![t] = s[1]]
      /\ last' = [last EXCEPT ![t] = NoHandle]
      /\ caller' = [caller EXCEPT ![t] = [g \in Handles |-> NoHandle]]
      /\ UNCHANGED <<fields, program, backing, k, reservation, teardown, pins>>
      /\ pc[t] = "idle"
  BY DEF Begin, BeginAcquire, Idle
<1>4. k[t] = 1
  BY <1>3, ActorsType DEF TypeInv, FrameInv
<1>5. FrameInv'
  BY <1>1, <1>2, <1>3, <1>4, ActorsType, HandlesAssumption DEF TypeInv, TypeOK, FrameInv, PCs
<1>6. TypeOK'
  BY <1>1, <1>2, <1>3, ActorsType
  DEF TypeInv, TypeOK, PCs, fields, program, backing, teardown
<1>. QED  BY <1>5, <1>6 DEF TypeInv

LEMMA TypeStart == ASSUME TypeInv, NEW t \in Threads, Start(t) PROVE TypeInv'
<1>1. CASE StartCall(t)
  BY <1>1, TypeBegin, ShapeAssumption DEF StartCall
<1>2. CASE StartNew(t)
  <2>1. PICK c \in Dependents : Begin(t, "new", <<Creator[c]>>, c)
    BY <1>2 DEF StartNew
  <2>2. Creator[c] \in Handles /\ c \in Handles
    BY ShapeAssumption DEF Dependents
  <2>3. <<Creator[c]>> \in Seq(Handles) /\ <<Creator[c]>> # <<>>
    BY <2>2
  <2>. QED  BY <2>1, <2>2, <2>3, TypeBegin, HandlesAssumption
<1>3. CASE StartView(t)
  <2>1. PICK v \in Views : Begin(t, "view", <<Creator[v]>>, v)
    BY <1>3 DEF StartView
  <2>2. Creator[v] \in Handles /\ v \in Handles
    BY ShapeAssumption DEF Roots
  <2>3. <<Creator[v]>> \in Seq(Handles) /\ <<Creator[v]>> # <<>>
    BY <2>2
  <2>. QED  BY <2>1, <2>2, <2>3, TypeBegin, HandlesAssumption
<1>. QED  BY <1>1, <1>2, <1>3 DEF Start

LEMMA TypeAcquire ==
  ASSUME TypeInv, NEW t \in Threads, Lookup(t) \/ Pin(t) \/ PinRefused(t)
  PROVE  TypeInv'
<1>0. /\ t \in Actors /\ k[t] \in Nat \ {0} /\ args[t] \in Seq(Handles)
      /\ Len(args[t]) \in Nat
  BY ActorsType DEF TypeInv, TypeOK
<1>1. CASE Lookup(t)
  <2>1. at[t] \in Handles
    BY <1>0, <1>1 DEF Lookup, TypeInv, TypeOK, FrameInv
  <2>2. /\ UNCHANGED <<fields, program, backing, k, last, call, reservation, teardown, pins>>
        /\ pc[t] = "lookup"
    BY <1>1 DEF Lookup
  <2>3. PICK u \in Handles \union {NoHandle} :
          IF u # NoHandle
          THEN /\ pc' = [pc EXCEPT ![t] = FirstStep(op[t], u)]
               /\ at' = [at EXCEPT ![t] = u]
               /\ caller' = [caller EXCEPT ![t][u] = at[t]]
          ELSE pc' = [pc EXCEPT ![t] = "pin"] /\ UNCHANGED <<at, caller>>
    <3>1. up[at[t]] \in Handles \union {NoHandle}
      BY <2>1 DEF TypeInv, TypeOK
    <3>. QED  BY <1>1, <3>1 DEF Lookup, Goto
  <2>4. CASE u # NoHandle
    <3>1. PICK f \in {"lookup", "pin"} : pc' = [pc EXCEPT ![t] = f]
      BY <2>3, <2>4, FirstStepType
    <3>2. at' = [at EXCEPT ![t] = u] /\ caller' = [caller EXCEPT ![t][u] = at[t]]
      BY <2>3, <2>4
    <3>3. caller' \in [Actors -> [Handles -> Handles \union {NoHandle}]]
      BY <1>0, <2>1, <2>4, <3>2 DEF TypeInv, TypeOK
    <3>4. FrameInv'
      BY <1>0, <2>2, <2>4, <3>1, <3>2 DEF TypeInv, TypeOK, FrameInv, call, PCs
    <3>5. TypeOK'
      BY <1>0, <2>2, <2>4, <3>1, <3>2, <3>3
      DEF TypeInv, TypeOK, PCs, fields, program, backing, call, teardown
    <3>. QED  BY <3>4, <3>5 DEF TypeInv
  <2>5. CASE u = NoHandle
    BY <1>0, <2>2, <2>3, <2>5, ZenonT(40)
    DEF TypeInv, TypeOK, FrameInv, PCs, fields, program, backing, call, teardown
  <2>. QED  BY <2>4, <2>5
<1>2. CASE Pin(t)
  <2>1. at[t] \in Handles /\ Len(args[t]) > 0 /\ pc[t] = "pin"
    BY <1>0, <1>2 DEF Pin, TypeInv, TypeOK, FrameInv
  <2>. DEFINE h == at[t]
  <2>2. /\ active' = [active EXCEPT ![h] = active[h] + 1]
        /\ children' \in {children, [children EXCEPT ![h] = children[h] + 1]}
        /\ reservation' \in {reservation, [reservation EXCEPT ![t] = h]}
        /\ pins' = pins \union {<<t, k[t], h>>}
        /\ Pinned(t, h)
        /\ UNCHANGED <<ptr, closed, poison, up, cleanup, program, backing, call, teardown>>
    BY <1>2 DEF Pin
  <2>6. /\ active' \in [Handles -> Int] /\ children' \in [Handles -> Int]
        /\ reservation' \in [Actors -> Handles \union {NoHandle}]
        /\ pins' \subseteq Actors \X Nat \X Handles
    <3>1. active' \in [Handles -> Int]
      BY <2>1, <2>2 DEF TypeInv, TypeOK
    <3>2. children' \in [Handles -> Int]
      BY <2>1, <2>2 DEF TypeInv, TypeOK
    <3>3. reservation' \in [Actors -> Handles \union {NoHandle}]
      BY <2>1, <2>2 DEF TypeInv, TypeOK
    <3>4. <<t, k[t], h>> \in Actors \X Nat \X Handles
      BY <1>0, <2>1
    <3>5. pins' \subseteq Actors \X Nat \X Handles
      BY <2>2, <3>4 DEF TypeInv, TypeOK
    <3>. QED  BY <3>1, <3>2, <3>3, <3>5
  <2>3. CASE caller[t][h] # NoHandle
    <3>1. /\ pc' = [pc EXCEPT ![t] = "pin"] /\ at' = [at EXCEPT ![t] = caller[t][h]]
          /\ last' = [last EXCEPT ![t] = h] /\ UNCHANGED <<caller, k>>
      BY <2>2, <2>3 DEF Pinned, Goto
    <3>2. FrameInv'
      BY <1>0, <2>1, <2>2, <2>3, <3>1 DEF TypeInv, TypeOK, FrameInv, call, PCs
    <3>4. caller[t][h] \in Handles \union {NoHandle}
      BY <1>0, <2>1 DEF TypeInv, TypeOK
    <3>3. TypeOK'
      BY <1>0, <2>1, <2>2, <2>6, <3>1, <3>4
      DEF TypeInv, TypeOK, PCs, program, backing, call, teardown
    <3>. QED  BY <3>2, <3>3 DEF TypeInv
  <2>4. CASE caller[t][h] = NoHandle /\ k[t] < Len(args[t])
    <3>1. k[t] + 1 \in Nat \ {0} /\ k[t] + 1 \in 1..Len(args[t])
      BY <1>0, <2>4
    <3>2. args[t][k[t] + 1] \in Handles
      BY <1>0, <3>1
    <3>3. PICK f \in {"lookup", "pin"} : pc' = [pc EXCEPT ![t] = f]
      BY <2>2, <2>4, FirstStepType DEF Pinned, BeginAcquire, Goto
    <3>4. /\ at' = [at EXCEPT ![t] = args[t][k[t] + 1]]
          /\ last' = [last EXCEPT ![t] = NoHandle]
          /\ caller' = [caller EXCEPT ![t] = [g \in Handles |-> NoHandle]]
          /\ k' = [k EXCEPT ![t] = k[t] + 1]
      BY <2>2, <2>4 DEF Pinned, BeginAcquire
    <3>5. k'[t] <= Len(args[t]) /\ at'[t] \in Handles
      BY <1>0, <3>1, <3>2, <3>4 DEF TypeInv, TypeOK
    <3>6. FrameInv'
      BY <1>0, <2>1, <2>2, <3>3, <3>4, <3>5, HandlesAssumption, SMTT(30)
      DEF TypeInv, TypeOK, FrameInv, call, PCs
    <3>7. TypeOK'
      BY <1>0, <2>1, <2>2, <2>6, <3>1, <3>2, <3>3, <3>4
      DEF TypeInv, TypeOK, PCs, program, backing, call, teardown
    <3>. QED  BY <3>6, <3>7 DEF TypeInv
  <2>5. CASE caller[t][h] = NoHandle /\ ~(k[t] < Len(args[t]))
    <3>1. /\ pc' = [pc EXCEPT ![t] = "native"] /\ UNCHANGED <<at, k>>
          /\ last' = [last EXCEPT ![t] = NoHandle]
          /\ caller' = [caller EXCEPT ![t] = [g \in Handles |-> NoHandle]]
      BY <2>2, <2>5 DEF Pinned, Goto
    <3>2. FrameInv'
      BY <1>0, <2>1, <2>2, <3>1 DEF TypeInv, TypeOK, FrameInv, call, PCs
    <3>3. TypeOK'
      BY <1>0, <2>1, <2>2, <2>6, <3>1
      DEF TypeInv, TypeOK, PCs, program, backing, call, teardown
    <3>. QED  BY <3>2, <3>3 DEF TypeInv
  <2>. QED  BY <2>3, <2>4, <2>5
<1>3. CASE PinRefused(t)
  <2>1. last[t] \in Handles \union {NoHandle} /\ pc[t] # "idle"
    BY <1>0, <1>3 DEF PinRefused, TypeInv, TypeOK
  <2>2. /\ ReleaseNext(t, last[t])
        /\ UNCHANGED <<fields, program, backing, teardown, pins>>
    BY <1>3 DEF PinRefused
  <2>3. TypeOK' /\ FrameInv'
    BY <1>0, <2>1, <2>2, TypeReleaseNext
    DEF TypeInv, TypeOK, fields, program, backing, teardown
  <2>. QED  BY <2>3 DEF TypeInv
<1>. QED  BY <1>1, <1>2, <1>3

LEMMA TypeLeave ==
  ASSUME TypeInv, NEW t \in Threads, pc[t] \in {"native", "poison"}, Leave(t)
  PROVE  /\ pc' = [pc EXCEPT ![t] = "release"]
         /\ at' = [at EXCEPT ![t] = args[t][Len(args[t])]]
         /\ args[t][Len(args[t])] \in Handles
<1>1. args[t] \in Seq(Handles) /\ Len(args[t]) > 0
  BY ActorsType DEF TypeInv, TypeOK, FrameInv
<1>2. args[t][Len(args[t])] \in Handles
  BY <1>1
<1>. QED  BY <1>2 DEF Leave, Goto

LEMMA TypeNativeEnds == ASSUME TypeInv, NEW t \in Threads, NativeEnds(t) PROVE TypeInv'
<1>0. /\ t \in Actors /\ args[t] \in Seq(Handles) /\ Len(args[t]) > 0
      /\ pc[t] = "native" /\ args[t][1] \in Handles
  <2>1. t \in Actors /\ pc[t] = "native"
    BY ActorsType
    DEF NativeEnds, NativeReturns, NativeMakesChild, NativeMakesView, NativePanics
  <2>2. args[t] \in Seq(Handles) /\ Len(args[t]) > 0
    BY <2>1 DEF TypeInv, TypeOK, FrameInv
  <2>. QED  BY <2>1, <2>2
<1>1. CASE NativeReturns(t)
  <2>1. /\ Leave(t)
        /\ UNCHANGED <<fields, program, backing, k, caller, last, call, reservation,
                       teardown, pins>>
    BY <1>1 DEF NativeReturns
  <2>9. /\ pc' = [pc EXCEPT ![t] = "release"]
        /\ at' = [at EXCEPT ![t] = args[t][Len(args[t])]]
        /\ args[t][Len(args[t])] \in Handles
    BY <1>0, <2>1, TypeLeave
  <2>2. FrameInv'
    <3> SUFFICES ASSUME NEW b \in Actors PROVE FrameInv!(b)'
      BY DEF FrameInv
    <3>. QED
      BY <1>0, <2>1, <2>9, HandlesAssumption DEF TypeInv, TypeOK, FrameInv, call, PCs
  <2>3. TypeOK'
    BY <1>0, <2>1, <2>9
    DEF TypeInv, TypeOK, PCs, fields, program, backing, call, teardown
  <2>. QED  BY <2>2, <2>3 DEF TypeInv
<1>2. CASE NativeMakesChild(t)
  <2>1. /\ Leave(t)
        /\ made' = made \union {child[t]}
        /\ ptr' = [ptr EXCEPT ![child[t]] = TRUE]
        /\ up' = [up EXCEPT ![child[t]] = reservation[t]]
        /\ cleanup' = [cleanup EXCEPT ![child[t]] = TRUE]
        /\ native' = [native EXCEPT ![child[t]] = "live"]
        /\ tokens' = [tokens EXCEPT ![child[t]] = child[t] \in RetainsCallbacks]
        /\ reservation' = [reservation EXCEPT ![t] = NoHandle]
        /\ child' = [child EXCEPT ![t] = NoHandle]
        /\ op[t] = "new"
        /\ UNCHANGED <<active, children, closed, poison, dropped, swept, k, caller, last,
                       op, args, teardown, pins>>
    BY <1>2 DEF NativeMakesChild
  <2>9. /\ pc' = [pc EXCEPT ![t] = "release"]
        /\ at' = [at EXCEPT ![t] = args[t][Len(args[t])]]
        /\ args[t][Len(args[t])] \in Handles
    BY <1>0, <2>1, TypeLeave
  <2>2. child[t] \in Handles
    BY <1>0, <2>1 DEF TypeInv, TypeOK, FrameInv
  <2>3. FrameInv'
    <3> SUFFICES ASSUME NEW b \in Actors PROVE FrameInv!(b)'
      BY DEF FrameInv
    <3>. QED
      BY <1>0, <2>1, <2>9, HandlesAssumption DEF TypeInv, TypeOK, FrameInv, PCs
  <2>4. TypeOK'
    BY <1>0, <2>1, <2>2, <2>9 DEF TypeInv, TypeOK, PCs, teardown
  <2>. QED  BY <2>3, <2>4 DEF TypeInv
<1>3. CASE NativeMakesView(t)
  <2>1. /\ Leave(t)
        /\ made' = made \union {child[t]}
        /\ ptr' = [ptr EXCEPT ![child[t]] = TRUE]
        /\ up' = [up EXCEPT ![child[t]] = Creator[child[t]]]
        /\ child' = [child EXCEPT ![t] = NoHandle]
        /\ op[t] = "view"
        /\ UNCHANGED <<active, children, closed, poison, cleanup, dropped, swept, backing,
                       k, caller, last, op, args, reservation, teardown, pins>>
    BY <1>3 DEF NativeMakesView
  <2>9. /\ pc' = [pc EXCEPT ![t] = "release"]
        /\ at' = [at EXCEPT ![t] = args[t][Len(args[t])]]
        /\ args[t][Len(args[t])] \in Handles
    BY <1>0, <2>1, TypeLeave
  <2>2. child[t] \in Handles /\ Creator[child[t]] \in Handles \union {NoHandle}
    <3>1. child[t] \in Handles
      BY <1>0, <2>1 DEF TypeInv, TypeOK, FrameInv
    <3>. QED  BY <3>1, ShapeAssumption
  <2>3. FrameInv'
    <3> SUFFICES ASSUME NEW b \in Actors PROVE FrameInv!(b)'
      BY DEF FrameInv
    <3>. QED
      BY <1>0, <2>1, <2>9, HandlesAssumption DEF TypeInv, TypeOK, FrameInv, PCs
  <2>4. TypeOK'
    BY <1>0, <2>1, <2>2, <2>9 DEF TypeInv, TypeOK, PCs, backing, teardown
  <2>. QED  BY <2>3, <2>4 DEF TypeInv
<1>4. CASE NativePanics(t)
  <2>1. /\ pc' = [pc EXCEPT ![t] = "poison"] /\ at' = [at EXCEPT ![t] = args[t][1]]
        /\ k' = [k EXCEPT ![t] = 1]
        /\ UNCHANGED <<fields, program, backing, caller, last, call, reservation,
                       teardown, pins>>
    BY <1>4 DEF NativePanics, Goto
  <2>2. FrameInv'
    BY <1>0, <2>1, HandlesAssumption DEF TypeInv, TypeOK, FrameInv, call, PCs
  <2>3. TypeOK'
    BY <1>0, <2>1
    DEF TypeInv, TypeOK, PCs, fields, program, backing, call, teardown
  <2>. QED  BY <2>2, <2>3 DEF TypeInv
<1>. QED  BY <1>1, <1>2, <1>3, <1>4 DEF NativeEnds

LEMMA TypePoison == ASSUME TypeInv, NEW t \in Threads, Poison(t) PROVE TypeInv'
<1>0. /\ t \in Actors /\ args[t] \in Seq(Handles) /\ Len(args[t]) \in Nat
      /\ k[t] \in Nat \ {0} /\ at[t] \in Handles /\ pc[t] = "poison"
      /\ up[at[t]] \in Handles \union {NoHandle}
  <2>1. t \in Actors /\ pc[t] = "poison"
    BY ActorsType DEF Poison
  <2>2. at[t] \in Handles
    BY <2>1 DEF TypeInv, TypeOK, FrameInv
  <2>. QED  BY <2>1, <2>2 DEF TypeInv, TypeOK
<1>1. /\ poison' = [poison EXCEPT ![at[t]] = TRUE]
      /\ cleanup' = [cleanup EXCEPT ![at[t]] = FALSE]
      /\ UNCHANGED <<ptr, active, children, closed, up, program, backing, caller, last,
                     call, reservation, teardown, pins>>
  BY DEF Poison
<1>2. CASE up[at[t]] # NoHandle
  <2>1. at' = [at EXCEPT ![t] = up[at[t]]] /\ UNCHANGED <<pc, k>>
    BY <1>2 DEF Poison
  <2>2. FrameInv'
    BY <1>0, <1>1, <1>2, <2>1 DEF TypeInv, TypeOK, FrameInv, call, PCs
  <2>3. TypeOK'
    BY <1>0, <1>1, <2>1 DEF TypeInv, TypeOK, program, backing, call, teardown
  <2>. QED  BY <2>2, <2>3 DEF TypeInv
<1>3. CASE up[at[t]] = NoHandle /\ k[t] < Len(args[t])
  <2>1. /\ at' = [at EXCEPT ![t] = args[t][k[t] + 1]]
        /\ k' = [k EXCEPT ![t] = k[t] + 1] /\ UNCHANGED pc
    BY <1>3 DEF Poison
  <2>2. k[t] + 1 \in 1..Len(args[t]) /\ k[t] + 1 \in Nat \ {0}
    BY <1>0, <1>3
  <2>3. args[t][k[t] + 1] \in Handles
    BY <1>0, <2>2
  <2>4. k'[t] <= Len(args[t]) /\ at'[t] \in Handles
    BY <1>0, <2>1, <2>2, <2>3 DEF TypeInv, TypeOK
  <2>5. FrameInv'
    BY <1>0, <1>1, <2>1, <2>4, HandlesAssumption DEF TypeInv, TypeOK, FrameInv, call, PCs
  <2>6. TypeOK'
    BY <1>0, <1>1, <2>1, <2>2, <2>3
    DEF TypeInv, TypeOK, program, backing, call, teardown
  <2>. QED  BY <2>5, <2>6 DEF TypeInv
<1>4. CASE up[at[t]] = NoHandle /\ ~(k[t] < Len(args[t]))
  <2>1. Leave(t) /\ UNCHANGED k
    BY <1>4 DEF Poison
  <2>2. /\ pc' = [pc EXCEPT ![t] = "release"]
        /\ at' = [at EXCEPT ![t] = args[t][Len(args[t])]]
        /\ args[t][Len(args[t])] \in Handles
    BY <1>0, <2>1, TypeLeave
  <2>3. FrameInv'
    <3> SUFFICES ASSUME NEW b \in Actors PROVE FrameInv!(b)'
      BY DEF FrameInv
    <3>. QED
      BY <1>0, <1>1, <2>1, <2>2, HandlesAssumption DEF TypeInv, TypeOK, FrameInv, call, PCs
  <2>4. TypeOK'
    BY <1>0, <1>1, <2>1, <2>2 DEF TypeInv, TypeOK, PCs, program, backing, call, teardown
  <2>. QED  BY <2>3, <2>4 DEF TypeInv
<1>. QED  BY <1>2, <1>3, <1>4

\* Taking a handle hands its cleanup to the goroutine that takes it.
LEMMA TypeTake ==
  ASSUME TypeInv, NEW a \in Actors, NEW h \in Handles, NEW then \in Handles \union {NoHandle},
         Take(a, h, then), pc[a] # "idle" \/ k[a] = 1,
         UNCHANGED <<k, caller, last, call, reservation>>
  PROVE  /\ ptr' \in [Handles -> BOOLEAN] /\ up' \in [Handles -> Handles \union {NoHandle}]
         /\ doomed' \in [Actors -> BOOLEAN]
         /\ orphan' \in [Actors -> Handles \union {NoHandle}]
         /\ next' \in [Actors -> Handles \union {NoHandle}]
         /\ at' \in [Actors -> Handles \union {NoHandle}]
         /\ pc' \in [Actors -> PCs]
         /\ FrameInv'
<1>1. /\ ptr' = [ptr EXCEPT ![h] = FALSE] /\ up' = [up EXCEPT ![h] = NoHandle]
      /\ doomed' = [doomed EXCEPT ![a] = ~poison[h]]
      /\ orphan' = [orphan EXCEPT ![a] = up[h]] /\ next' = [next EXCEPT ![a] = then]
      /\ at' = [at EXCEPT ![a] = h] /\ pc' = [pc EXCEPT ![a] = "deinit"]
  BY DEF Take, Goto
<1>2. FrameInv'
  <2> SUFFICES ASSUME NEW b \in Actors PROVE FrameInv!(b)'
    BY DEF FrameInv
  <2>. QED
    BY <1>1, HandlesAssumption DEF TypeInv, TypeOK, FrameInv, call, PCs
<1>3. doomed' \in [Actors -> BOOLEAN]
  BY <1>1 DEF TypeInv, TypeOK
<1>. QED  BY <1>1, <1>2, <1>3 DEF TypeInv, TypeOK, PCs

LEMMA TypeRelease == ASSUME TypeInv, NEW t \in Threads, Release(t) PROVE TypeInv'
<1>0. /\ t \in Actors /\ at[t] \in Handles /\ pc[t] = "release"
      /\ up[at[t]] \in Handles \union {NoHandle}
  <2>1. t \in Actors /\ pc[t] = "release"
    BY ActorsType DEF Release
  <2>2. at[t] \in Handles
    BY <2>1 DEF TypeInv, TypeOK, FrameInv
  <2>. QED  BY <2>1, <2>2 DEF TypeInv, TypeOK
<1>1. /\ active' \in [Handles -> Int] /\ pins' \subseteq Actors \X Nat \X Handles
      /\ UNCHANGED <<children, closed, poison, cleanup, program, backing>>
  BY <1>0 DEF Release, TypeInv, TypeOK
<1>2. CASE /\ Take(t, at[t], up[at[t]])
           /\ UNCHANGED <<k, caller, last, call, reservation>>
  BY <1>0, <1>1, <1>2, TypeTake DEF TypeInv, TypeOK, program, backing, call
<1>3. CASE ReleaseNext(t, up[at[t]]) /\ UNCHANGED <<ptr, up, teardown>>
  <2>1. TypeOK' /\ FrameInv'
    BY <1>0, <1>1, <1>3, TypeReleaseNext DEF TypeInv, TypeOK, program, backing, teardown
  <2>. QED  BY <2>1 DEF TypeInv
<1>. QED  BY <1>2, <1>3 DEF Release

LEMMA TypeDropOrReturn ==
  ASSUME TypeInv, NEW a \in Actors, pc[a] \in {"deinit", "untoken"}, DropOrReturn(a),
         native' \in [Handles -> {"none", "live", "freed"}],
         tokens' \in [Handles -> BOOLEAN],
         UNCHANGED <<fields, program, pins>>
  PROVE  TypeInv'
<1>1. CASE orphan[a] # NoHandle
  <2>1. /\ pc' = [pc EXCEPT ![a] = "dropChild"]
        /\ UNCHANGED <<at, k, caller, last, call, reservation, teardown>>
    BY <1>1 DEF DropOrReturn, Goto
  <2>2. FrameInv'
    BY <2>1 DEF TypeInv, TypeOK, FrameInv, call, PCs
  <2>3. TypeOK'
    BY <2>1 DEF TypeInv, TypeOK, PCs, fields, program, call, teardown
  <2>. QED  BY <2>2, <2>3 DEF TypeInv
<1>2. CASE orphan[a] = NoHandle
  <2>1. /\ ReleaseNext(a, next[a])
        /\ next' = [next EXCEPT ![a] = NoHandle]
        /\ doomed' = [doomed EXCEPT ![a] = FALSE]
        /\ UNCHANGED orphan
    BY <1>2 DEF DropOrReturn
  <2>2. next[a] \in Handles \union {NoHandle} /\ pc[a] # "idle"
    BY DEF TypeInv, TypeOK
  <2>3. TypeOK' /\ FrameInv'
    BY <2>1, <2>2, TypeReleaseNext DEF TypeInv, TypeOK, fields, program
  <2>. QED  BY <2>3 DEF TypeInv
<1>. QED  BY <1>1, <1>2

LEMMA TypeCleanup == ASSUME TypeInv, NEW a \in Actors, CleanupStep(a) PROVE TypeInv'
<1>1. CASE Deinit(a)
  <2>1. /\ native' \in [Handles -> {"none", "live", "freed"}]
        /\ tokens' \in [Handles -> BOOLEAN]
        /\ UNCHANGED <<fields, program, tokens, pins>> /\ pc[a] = "deinit"
    BY <1>1 DEF Deinit, TypeInv, TypeOK
  <2>2. CASE at[a] \in RetainsCallbacks
    <3>1. /\ pc' = [pc EXCEPT ![a] = "untoken"]
          /\ UNCHANGED <<at, k, caller, last, call, reservation, teardown>>
      BY <1>1, <2>2 DEF Deinit, Goto
    <3>2. FrameInv'
      BY <2>1, <3>1 DEF TypeInv, TypeOK, FrameInv, call, PCs
    <3>3. TypeOK'
      BY <2>1, <3>1 DEF TypeInv, TypeOK, PCs, fields, program, call, teardown
    <3>. QED  BY <3>2, <3>3 DEF TypeInv
  <2>3. CASE at[a] \notin RetainsCallbacks
    <3>1. DropOrReturn(a)
      BY <1>1, <2>3 DEF Deinit
    <3>. QED  BY <2>1, <3>1, TypeDropOrReturn
  <2>. QED  BY <2>2, <2>3
<1>2. CASE DeleteCallbackHandles(a)
  <2>1. /\ native' \in [Handles -> {"none", "live", "freed"}]
        /\ tokens' \in [Handles -> BOOLEAN]
        /\ UNCHANGED <<fields, program, pins>> /\ pc[a] = "untoken" /\ DropOrReturn(a)
    BY <1>2 DEF DeleteCallbackHandles, TypeInv, TypeOK
  <2>. QED  BY <2>1, TypeDropOrReturn
<1>3. CASE DropChild(a)
  <2>0. children' \in [Handles -> Int]
    <3>1. children \in [Handles -> Int]
      BY DEF TypeInv, TypeOK
    <3>. QED  BY <1>3, <3>1, CountDown DEF DropChild
  <2>1. /\ pc[a] # "idle"
        /\ orphan' \in [Actors -> Handles \union {NoHandle}]
        /\ next' \in [Actors -> Handles \union {NoHandle}]
        /\ doomed' \in [Actors -> BOOLEAN]
        /\ next[a] \in Handles \union {NoHandle}
    BY <1>3 DEF DropChild, TypeInv, TypeOK
  <2>2. /\ ReleaseNext(a, next[a])
        /\ UNCHANGED <<ptr, active, closed, poison, up, cleanup, program, backing, pins>>
    BY <1>3 DEF DropChild
  <2>3. TypeOK' /\ FrameInv'
    BY <2>0, <2>1, <2>2, TypeReleaseNext DEF TypeInv, TypeOK, program, backing
  <2>. QED  BY <2>3 DEF TypeInv
<1>. QED  BY <1>1, <1>2, <1>3 DEF CleanupStep

LEMMA TypeDropReservation ==
  ASSUME TypeInv, NEW t \in Threads, DropReservation(t)
  PROVE  TypeInv'
<1>1. /\ t \in Actors /\ k[t] = 1 /\ Return(t)
      /\ reservation' = [reservation EXCEPT ![t] = NoHandle]
      /\ UNCHANGED <<ptr, active, closed, poison, up, cleanup, program, backing, k,
                     teardown, pins>>
  BY ActorsType DEF DropReservation, TypeInv, FrameInv
<1>2. children' \in [Handles -> Int]
  <2>1. children \in [Handles -> Int]
    BY DEF TypeInv, TypeOK
  <2>. QED  BY <2>1, CountDown DEF DropReservation
<1>3. <<>> \in Seq(Handles) /\ Len(<<>>) = 0
  OBVIOUS
<1>4. FrameInv'
  BY <1>1, <1>3 DEF Return, Goto, TypeInv, TypeOK, FrameInv, PCs
<1>5. TypeOK'
  BY <1>1, <1>2, <1>3
  DEF Return, Goto, TypeInv, TypeOK, PCs, program, backing, teardown
<1>. QED  BY <1>4, <1>5 DEF TypeInv

LEMMA TypeClose ==
  ASSUME TypeInv, NEW t \in Threads, Close(t) \/ CloseView(t)
  PROVE  TypeInv'
<1>0. t \in Actors
  BY ActorsType
<1>1. CASE Close(t)
  <2>1. PICK h \in Handles \ Views :
          /\ pc[t] = "idle"
          /\ closed' = [closed EXCEPT ![h] = TRUE]
          /\ cleanup' = [cleanup EXCEPT ![h] = FALSE]
          /\ IF active[h] = 0 /\ ptr[h]
             THEN Take(t, h, NoHandle)
             ELSE UNCHANGED <<ptr, up, teardown, at, pc>>
          /\ UNCHANGED <<active, children, poison, program, backing, k, caller, last,
                         call, reservation, pins>>
    BY <1>1 DEF Close, Idle
  <2>2. k[t] = 1
    BY <1>0, <2>1 DEF TypeInv, FrameInv
  <2>3. CASE active[h] = 0 /\ ptr[h]
    <3>1. Take(t, h, NoHandle) /\ UNCHANGED <<k, caller, last, call, reservation>>
      BY <2>1, <2>3
    <3>2. TypeOK' /\ FrameInv'
      BY <1>0, <2>1, <2>2, <3>1, TypeTake DEF TypeInv, TypeOK, program, backing, call
    <3>. QED  BY <3>2 DEF TypeInv
  <2>4. CASE ~(active[h] = 0 /\ ptr[h])
    BY <2>1, <2>4 DEF TypeInv, TypeOK, FrameInv, program, backing, call, teardown
  <2>. QED  BY <2>3, <2>4
<1>2. CASE CloseView(t)
  BY <1>2, ShapeAssumption
  DEF CloseView, TypeInv, TypeOK, FrameInv, program, backing, walk, call, teardown
<1>. QED  BY <1>1, <1>2

LEMMA TypeProgram ==
  ASSUME TypeInv, NEW h \in Handles, Forget(h) \/ Collect(h)
  PROVE  TypeInv'
<1>1. CASE Forget(h)
  BY <1>1
  DEF Forget, TypeInv, TypeOK, FrameInv, fields, backing, walk, call, teardown
<1>2. CASE Collect(h)
  <2>1. /\ Collector \in Actors /\ pc[Collector] = "idle"
        /\ swept' = swept \union {h} /\ h \in dropped
        /\ UNCHANGED <<ptr, active, children, closed, poison, up, made, dropped, backing,
                       k, caller, last, call, reservation, next, pins>>
    BY <1>2, ActorsType DEF Collect, Idle
  <2>2. CASE cleanup[h]
    <3>1. /\ cleanup' = [cleanup EXCEPT ![h] = FALSE]
          /\ doomed' = [doomed EXCEPT ![Collector] = TRUE]
          /\ orphan' = [orphan EXCEPT ![Collector] = up[h]]
          /\ at' = [at EXCEPT ![Collector] = h]
          /\ pc' = [pc EXCEPT ![Collector] = "deinit"]
      BY <1>2, <2>2 DEF Collect, Goto
    <3>2. FrameInv'
      BY <2>1, <3>1, HandlesAssumption DEF TypeInv, TypeOK, FrameInv, call, PCs
    <3>3. TypeOK'
      BY <2>1, <3>1 DEF TypeInv, TypeOK, PCs, backing, call
    <3>. QED  BY <3>2, <3>3 DEF TypeInv
  <2>3. CASE ~cleanup[h]
    <3>1. UNCHANGED <<cleanup, doomed, orphan, at, pc>>
      BY <1>2, <2>3 DEF Collect
    <3>. QED
      BY <2>1, <3>1 DEF TypeInv, TypeOK, FrameInv, backing, call
  <2>. QED  BY <2>2, <2>3
<1>. QED  BY <1>1, <1>2

LEMMA TypeInvNext == TypeInv /\ [Next]_vars => TypeInv'
<1> SUFFICES ASSUME TypeInv, [Next]_vars PROVE TypeInv'
  OBVIOUS
<1>1. ASSUME NEW t \in Threads, Start(t) \/ Proceed(t) \/ Close(t) \/ CloseView(t)
      PROVE  TypeInv'
  <2>1. CASE Proceed(t)
    <3>1. t \in Actors
      BY ActorsType
    <3>. QED
      BY <2>1, <3>1, TypeAcquire, TypeNativeEnds, TypePoison, TypeRelease, TypeCleanup,
         TypeDropReservation
      DEF Proceed
  <2>. QED  BY <1>1, <2>1, TypeStart, TypeClose
<1>2. CASE CleanupStep(Collector)
  BY <1>2, TypeCleanup, ActorsType
<1>3. ASSUME NEW h \in Handles, Forget(h) \/ Collect(h) PROVE TypeInv'
  BY <1>3, TypeProgram
<1>4. CASE UNCHANGED vars
  BY <1>4
  DEF vars, fields, program, backing, walk, call, teardown, TypeInv, TypeOK, FrameInv
<1>. QED  BY <1>1, <1>2, <1>3, <1>4 DEF Next, Rest

\* Every variable of the lifecycle keeps its type and every program counter
\* finds the locals it needs, whatever the forest of handles looks like.
THEOREM TypeCorrect == Spec => []TypeOK
<1>1. TypeInv => TypeOK
  BY DEF TypeInv
<1>. QED  BY <1>1, TypeInvInit, TypeInvNext, PTL DEF Spec
=============================================================================

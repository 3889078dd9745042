------------------------------ MODULE HandleFlat ------------------------------
(***************************************************************************)
(* The handle forests for which the lifecycle is safe, and the inductive   *)
(* invariant that shows it. A forest is flat when no dependent child makes *)
(* dependent children of its own; run handle_nested shows why it must be.  *)
(***************************************************************************)
EXTENDS HandleLifecycle

CONSTANTS
  Depth,   \* how many handles a call pins above a handle
  Makers   \* the handles a zigoAcquireChild walk can reach

ASSUME FlatAssumption ==
  /\ Depth \in [Handles -> Nat]
  /\ \A h \in Roots : Depth[h] = 0
  /\ \A v \in Views : Depth[v] = Depth[Creator[v]] + 1
  /\ \A c \in Dependents : Depth[c] = 1 /\ Creator[c] \in Makers
  /\ \A v \in Makers \intersect Views : Creator[v] \in Makers
  /\ Makers \subseteq Handles \ Dependents

-----------------------------------------------------------------------------
(* The Go struct: a handle with a pointer knows its parent; one without    *)
(* was closed and has forgotten it.                                        *)

FieldsInv ==
  \A h \in Handles :
    /\ ptr[h] => h \in made
    /\ h \in made /\ ~ptr[h] => closed[h]
    /\ ~ptr[h] => up[h] = NoHandle
    /\ ptr[h] /\ h \in Views => up[h] = Creator[h]
    /\ ptr[h] /\ h \in Dependents => up[h] \in Roots
    /\ h \in Roots => up[h] = NoHandle
    /\ up[h] # NoHandle => up[h] \in made

-----------------------------------------------------------------------------
(* Operations: what each kind of operation carries, and what it may walk.  *)

Tearing == {"deinit", "untoken", "dropChild"}
Acquiring == {"lookup", "pin"}

OpOf(a) ==
  /\ op[a] = "none" =>
       /\ args[a] = <<>> /\ k[a] = 1 /\ next[a] = NoHandle
       /\ pc[a] \in Tearing \union {"idle"}
  /\ pc[a] = "idle" => op[a] = "none"
  /\ pc[a] \notin Tearing => next[a] = NoHandle /\ orphan[a] = NoHandle
  /\ op[a] # "none" => k[a] \in 1..Len(args[a]) /\ \A i \in 1..Len(args[a]) : args[a][i] \in made
  /\ op[a] = "new" => Len(args[a]) = 1 /\ args[a][1] \in Makers
  /\ op[a] = "new" /\ pc[a] \in Acquiring \union {"native"} => child[a] \in Dependents \ made
  /\ op[a] = "new" /\ pc[a] = "native" => reservation[a] # NoHandle
  /\ op[a] = "view" /\ pc[a] \in Acquiring \union {"native"} =>
       child[a] \in Views \ made /\ args[a] = <<Creator[child[a]]>>
  /\ child[a] # NoHandle => op[a] \in {"new", "view"}
  /\ reservation[a] # NoHandle => op[a] = "new" /\ reservation[a] \in Roots \intersect made

OpInv ==
  /\ op[Collector] = "none"
  /\ \A a \in Actors : OpOf(a)
  /\ \A a, b \in Actors : a # b /\ child[a] # NoHandle => child[a] # child[b]

\* A frame of an acquire: y was called from x, the handle below it.
FrameOf(t, y, x) ==
  /\ x \in made
  /\ Depth[x] = Depth[y] + 1
  /\ ptr[x] => up[x] = y
  /\ op[t] = "new" => x \in Makers
  /\ caller[t][x] = NoHandle => x = args[t][k[t]]

WalkOf(t) ==
  pc[t] \in Acquiring =>
    /\ at[t] \in made
    /\ op[t] = "new" => at[t] \in Makers
    /\ op[t] = "new" /\ pc[t] = "pin" /\ reservation[t] = NoHandle /\ at[t] \in Views =>
         ~ptr[at[t]]
    /\ caller[t][at[t]] = NoHandle => at[t] = args[t][k[t]]
    /\ \A y \in Handles : caller[t][y] # NoHandle => FrameOf(t, y, caller[t][y])

WalkInv == \A t \in Threads : WalkOf(t)

-----------------------------------------------------------------------------
(* Pins: the pins of one argument are a chain up from the argument, taken  *)
(* from the top down and let go from the bottom up.                        *)

\* h is the lowest handle argument i of t has pinned.
Lowest(t, i, h) ==
  /\ <<t, i, h>> \in pins
  /\ \A g \in Handles : <<t, i, g>> \in pins => Depth[g] <= Depth[h]

NonePinned(t, i) == \A g \in Handles : <<t, i, g>> \notin pins

LowestOrNone(t, i, h) ==
  IF h = NoHandle THEN NonePinned(t, i) ELSE Lowest(t, i, h)

\* The pins of argument i of goroutine t.
Chain(t, i) ==
  \A h \in Handles : <<t, i, h>> \in pins =>
    /\ ptr[h]
    /\ pc[t] \notin {"native", "poison"} => i <= k[t]
    /\ up[h] # NoHandle => <<t, i, up[h]>> \in pins
    /\ \A g \in Handles : <<t, i, g>> \in pins /\ Depth[g] = Depth[h] => g = h

PinsInv ==
  /\ pins \subseteq Threads \X Nat \X Handles /\ IsFiniteSet(pins)
  /\ \A x \in pins : x[2] \in 1..Len(args[x[1]])
  /\ \A t \in Threads : \A i \in 1..Len(args[t]) : Chain(t, i)
  /\ ActiveCountsPins

\* Where each goroutine is, said in pins.
PhaseOf(t) ==
  /\ pc[t] \in {"native", "poison"} => \A j \in 1..Len(args[t]) : Lowest(t, j, args[t][j])
  /\ pc[t] # "poison" => \A j \in 1..(k[t] - 1) : Lowest(t, j, args[t][j])
  /\ pc[t] = "native" => k[t] = Len(args[t])
  /\ pc[t] = "lookup" => last[t] = NoHandle /\ NonePinned(t, k[t])
  /\ pc[t] = "pin" =>
       /\ LowestOrNone(t, k[t], last[t])
       /\ ptr[at[t]] => up[at[t]] = last[t]
       /\ last[t] # NoHandle => Depth[at[t]] = Depth[last[t]] + 1
  /\ pc[t] = "release" => Lowest(t, k[t], at[t])
  /\ pc[t] \in Tearing => LowestOrNone(t, k[t], next[t])
  /\ pc[t] = "unreserve" => k[t] = 1 /\ NonePinned(t, 1)

PhaseInv == \A t \in Threads : PhaseOf(t)

-----------------------------------------------------------------------------
(* What is behind a handle.                                                *)

SweptInv ==
  \A h \in swept :
    /\ \A t \in Threads : ~Refers(t, h)
    /\ \A c \in made : up[c] = h => c \in swept

NativeInv ==
  /\ \A h \in Handles \ Views : ptr[h] /\ h \notin swept => native[h] = "live"
  /\ \A t \in Threads : pc[t] = "deinit" => at[t] \in made /\ ~ptr[at[t]]
  /\ pc[Collector] = "deinit" => at[Collector] \in swept

IInv ==
  TypeOK /\ FrameInv /\ FieldsInv /\ OpInv /\ WalkInv /\ PinsInv /\ PhaseInv
    /\ SweptInv /\ NativeInv
=============================================================================

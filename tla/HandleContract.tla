---------------------------- MODULE HandleContract ----------------------------
(***************************************************************************)
(* What the generated lifecycle promises, with no counter, lock or walk: a *)
(* native object is destroyed only when its handle was closed or given up, *)
(* nobody is inside it, no panic left it in an unknown state and nothing   *)
(* that lives inside it is left. (The comments of                          *)
(* src/src/gen/emit/handles.zig and docs/authoring/objects-and-lifetimes.) *)
(***************************************************************************)
CONSTANTS
  Objects,   \* the native objects handles own
  Threads,
  Holder,    \* the object a dependent object lives inside, or NoObject
  NoObject

VARIABLES
  object,    \* [Objects -> {"none", "live", "freed"}]
  inside,    \* [Threads -> SUBSET Objects]: the objects a call is using
  broken,    \* objects a panic unwound through
  closed,    \* objects whose handle Close has marked
  forsaken   \* objects whose handle the collector found unreachable

vars == <<object, inside, broken, closed, forsaken>>

Init ==
  /\ object = [o \in Objects |-> IF Holder[o] = NoObject THEN "live" ELSE "none"]
  /\ inside = [t \in Threads |-> {}]
  /\ broken = {} /\ closed = {} /\ forsaken = {}

HeldBy(o) == {c \in Objects : Holder[c] = o}

\* A call goes in with every object it reaches alive and none of them closed
\* above another one it uses.
Enter(t) ==
  \E S \in (SUBSET Objects) \ {{}} :
    /\ inside[t] = {}
    /\ \A o \in S :
         /\ object[o] = "live" /\ o \notin forsaken
         /\ \A c \in HeldBy(o) \intersect S : o \notin closed
    /\ inside' = [inside EXCEPT ![t] = S]
    /\ UNCHANGED <<object, broken, closed, forsaken>>

\* A call comes out; a constructor leaves a new object inside one it used.
Exit(t) ==
  /\ inside[t] # {}
  /\ inside' = [inside EXCEPT ![t] = {}]
  /\ \/ UNCHANGED object
     \/ \E o \in Objects :
          /\ object[o] = "none" /\ Holder[o] \in inside[t]
          /\ object' = [object EXCEPT ![o] = "live"]
  /\ UNCHANGED <<broken, closed, forsaken>>

\* A panic breaks the objects a call is inside one after the other; the call
\* comes out with the last.
Break(t) ==
  \E o \in inside[t] :
    /\ broken' = broken \union {o}
    /\ inside' = [inside EXCEPT ![t] = {}] \/ UNCHANGED inside
    /\ UNCHANGED <<object, closed, forsaken>>

\* Close is granted once what lives inside is gone (or leaked by a panic).
Close(o) ==
  /\ object[o] = "live" /\ o \notin closed
  /\ \A c \in HeldBy(o) : object[c] = "live" => c \in broken /\ c \in closed
  /\ closed' = closed \union {o}
  /\ UNCHANGED <<object, inside, broken, forsaken>>

\* The collector finds a handle unreachable: nobody can use it any more.
Forsake(o) ==
  /\ o \notin forsaken
  /\ \A t \in Threads : o \notin inside[t]
  /\ forsaken' = forsaken \union {o}
  /\ UNCHANGED <<object, inside, broken, closed>>

Free(o) ==
  /\ object[o] = "live"
  /\ o \in closed \union forsaken
  /\ o \notin broken
  /\ \A t \in Threads : o \notin inside[t]
  /\ \A c \in HeldBy(o) : object[c] # "live"
  /\ object' = [object EXCEPT ![o] = "freed"]
  /\ UNCHANGED <<inside, broken, closed, forsaken>>

Next ==
  \/ \E t \in Threads : Enter(t) \/ Exit(t) \/ Break(t)
  \/ \E o \in Objects : Close(o) \/ Forsake(o) \/ Free(o)

Spec == Init /\ [][Next]_vars
=============================================================================

------------------------------ MODULE LibraryOnce ------------------------------
(***************************************************************************)
(* What LoadLibrary of a purego package promises, as if it took one step:  *)
(* at most one library is ever loaded, it is never replaced, and a call    *)
(* succeeds exactly when the library it ends up with is one it asked for.  *)
(***************************************************************************)
CONSTANTS Callers, Paths, NoPath

VARIABLES
  library,   \* the path of the library in use, or NoPath
  asked,     \* per caller, the explicit path, or NoPath for the candidates
  outcome    \* per caller, where its call stands

onceVars == <<library, asked, outcome>>

OnceInit ==
  /\ library = NoPath
  /\ asked = [c \in Callers |-> NoPath]
  /\ outcome = [c \in Callers |-> "idle"]

Ask(c) ==
  /\ outcome[c] = "idle"
  /\ asked' \in [Callers -> Paths \union {NoPath}]
  /\ \A d \in Callers \ {c} : asked'[d] = asked[d]
  /\ outcome' = [outcome EXCEPT ![c] = "asking"]
  /\ UNCHANGED library

\* The call takes effect.  `wanted` are the paths it would accept: the explicit
\* one, or whatever the environment and the package name at that moment.
Settle(c) ==
  /\ outcome[c] = "asking"
  /\ \E wanted \in SUBSET Paths :
       /\ asked[c] # NoPath => wanted = {asked[c]}
       /\ \/ /\ library = NoPath
             /\ library' \in wanted
             /\ outcome' = [outcome EXCEPT ![c] = "loaded"]
          \/ /\ library \in wanted
             /\ outcome' = [outcome EXCEPT ![c] = "loaded"]
             /\ UNCHANGED library
          \/ /\ library # NoPath /\ library \notin wanted
             /\ outcome' = [outcome EXCEPT ![c] = "different"]
             /\ UNCHANGED library
          \/ /\ library = NoPath \/ wanted = {}
             /\ outcome' = [outcome EXCEPT ![c] = "failed"]
             /\ UNCHANGED library
  /\ UNCHANGED asked

Answer(c) ==
  /\ outcome[c] \in {"loaded", "different", "failed"}
  /\ outcome' = [outcome EXCEPT ![c] = "idle"]
  /\ asked' = [asked EXCEPT ![c] = NoPath]
  /\ UNCHANGED library

OnceNext == \E c \in Callers : Ask(c) \/ Settle(c) \/ Answer(c)

OnceSpec == OnceInit /\ [][OnceNext]_onceVars
=============================================================================

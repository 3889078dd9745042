----------------------------- MODULE LibraryLoader -----------------------------
(***************************************************************************)
(* Loading the native library of a purego package: LoadLibrary,            *)
(* loadLibraryLocked, loadCandidate and libraryCandidates of the generated *)
(* *_gen.go under internal/, with the helpers of *_load_posix_gen.go and   *)
(* *_load_windows_gen.go, and bindings and ensureLoaded of a package that  *)
(* loads its library automatically.                                        *)
(*                                                                         *)
(* Goroutines call LoadLibrary at any moment, others read loadedBindings   *)
(* without a lock.  The environment may change between two calls, a file   *)
(* may fail to open or lack a symbol, and the next attempt may find it     *)
(* repaired.                                                               *)
(***************************************************************************)
EXTENDS Naturals, Sequences

CONSTANTS
  Callers,             \* goroutines that call LoadLibrary
  NoCaller,
  Paths,               \* paths a library may be looked for at
  NoPath,              \* the empty string
  DefaultLibraryName,  \* the name for this platform, NoPath if it has none
  SearchPaths,         \* what librarySearchPaths resolve to, in order
  AutomaticLoad,       \* whether the first use of the package loads a library
  LoadOrder            \* the symbols in the order loadCandidate resolves them

ASSUME LoaderAssumption ==
  /\ NoCaller \notin Callers /\ NoPath \notin Paths
  /\ DefaultLibraryName \in Paths \union {NoPath}
  /\ SearchPaths \in Seq(Paths) /\ AutomaticLoad \in BOOLEAN
  /\ LoadOrder \in Seq(STRING)

VARIABLES
  loadMu,                 \* the goroutine that holds it, or NoCaller
  loadedBindings,         \* what is published: a path and its resolved symbols
  successfulLibraryPath,
  dispatchers,            \* callbackDispatchersOnce has run
  handles,                \* handles opened and not closed, per path
  automaticLoadAttempted,
  using,                  \* per caller: it is in bindings(), not in LoadLibrary
  pc, asked, candidates,  \* per caller: where it is, its argument, its list
  trying,                 \* per caller: the candidate it tries
  resolved,               \* per caller: how many symbols loadCandidate has so far
  verdict                  \* per caller: how its call ended

localVars  == <<pc, asked, candidates, trying, resolved, verdict>>
automaticVars == <<automaticLoadAttempted, using>>
loaderVars ==
  <<loadMu, loadedBindings, successfulLibraryPath, dispatchers, handles,
    automaticVars, localVars>>

FirstSymbols(n) == {LoadOrder[i] : i \in 1..n}
Unloaded == [path |-> NoPath, symbols |-> {}]
Loaded == loadedBindings # Unloaded

\* The candidate a value stands for: an unset variable and an empty default are
\* none.
Candidate(p) == IF p = NoPath THEN <<>> ELSE <<p>>

\* What os.Getenv answers for the two variables is any value at each call.
libraryCandidates(explicit, first, second) ==
  IF explicit # NoPath THEN <<explicit>>
  ELSE Candidate(first) \o Candidate(second) \o SearchPaths \o Candidate(DefaultLibraryName)

Listed(c) == {candidates[c][i] : i \in 1..Len(candidates[c])}
Current(c) == candidates[c][trying[c]]

LoaderInit ==
  /\ loadMu = NoCaller
  /\ loadedBindings = Unloaded
  /\ successfulLibraryPath = NoPath
  /\ dispatchers = FALSE
  /\ handles = [p \in Paths |-> 0]
  /\ automaticLoadAttempted = FALSE
  /\ using = [c \in Callers |-> FALSE]
  /\ pc = [c \in Callers |-> "idle"]
  /\ asked = [c \in Callers |-> NoPath]
  /\ candidates = [c \in Callers |-> <<>>]
  /\ trying = [c \in Callers |-> 1]
  /\ resolved = [c \in Callers |-> 0]
  /\ verdict = [c \in Callers |-> "idle"]

At(c, label)  == pc[c] = label
Goto(c, label) == pc' = [pc EXCEPT ![c] = label]
Concludes(c, a) == verdict' = [verdict EXCEPT ![c] = a]

LoadLibrary(c) ==
  /\ At(c, "idle")
  /\ \E p \in Paths \union {NoPath} : asked' = [asked EXCEPT ![c] = p]
  /\ Concludes(c, "asking")
  /\ Goto(c, "lock")
  /\ UNCHANGED <<automaticVars, loadMu, loadedBindings,
                 successfulLibraryPath, dispatchers, handles, candidates,
                 trying, resolved>>

Lock(c) ==
  /\ At(c, "lock") /\ loadMu = NoCaller
  /\ loadMu' = c
  /\ Goto(c, "list")
  /\ UNCHANGED <<automaticVars, loadedBindings, successfulLibraryPath,
                 dispatchers, handles, asked, candidates, trying, resolved,
                 verdict>>

\* bindings() finds no library: ensureLoaded locks, and asks for no path.  With
\* one it just returns it, and a package without automatic loading panics.
UseBindings(c) ==
  /\ AutomaticLoad /\ ~Loaded
  /\ At(c, "idle")
  /\ asked' = [asked EXCEPT ![c] = NoPath]
  /\ using' = [using EXCEPT ![c] = TRUE]
  /\ Concludes(c, "asking")
  /\ Goto(c, "lock")
  /\ UNCHANGED <<automaticLoadAttempted, loadMu, loadedBindings,
                 successfulLibraryPath, dispatchers, handles, candidates,
                 trying, resolved>>

\* ensureLoaded, with the mutex, finds a library or that the one automatic
\* attempt was made.
SkipAutomatic(c) ==
  /\ At(c, "list") /\ using[c]
  /\ Loaded \/ automaticLoadAttempted
  /\ Goto(c, "unlock")
  /\ UNCHANGED <<automaticVars, loadMu, loadedBindings,
                 successfulLibraryPath, dispatchers, handles, asked,
                 candidates, trying, resolved, verdict>>

\* An error of loadLibraryLocked is what LoadLibrary returns; ensureLoaded keeps
\* it for bindings, which looks once more before it panics with it.
Fails(c) ==
  verdict' = IF using[c] THEN verdict ELSE [verdict EXCEPT ![c] = "failed"]

\* loadLibraryLocked up to its loop: no candidate, a library already loaded, or
\* the first attempt.
ListCandidates(c) ==
  /\ At(c, "list")
  /\ using[c] => ~Loaded /\ ~automaticLoadAttempted
  /\ automaticLoadAttempted' = (automaticLoadAttempted \/ using[c])
  /\ \E first, second \in Paths \union {NoPath} :
       candidates' = [candidates EXCEPT ![c] = libraryCandidates(asked[c], first, second)]
  /\ trying' = [trying EXCEPT ![c] = 1]
  /\ LET listed == {candidates'[c][i] : i \in 1..Len(candidates'[c])} IN
       \/ /\ candidates'[c] = <<>>
          /\ Fails(c) /\ Goto(c, "unlock") /\ UNCHANGED dispatchers
       \/ /\ candidates'[c] # <<>> /\ Loaded
          /\ Concludes(c, IF successfulLibraryPath \in listed THEN "loaded" ELSE "different")
          /\ Goto(c, "unlock") /\ UNCHANGED dispatchers
       \/ /\ candidates'[c] # <<>> /\ ~Loaded
          /\ dispatchers' = TRUE
          /\ Goto(c, "open") /\ UNCHANGED verdict
  /\ UNCHANGED <<using, loadMu, loadedBindings, successfulLibraryPath,
                 handles, asked, resolved>>

\* The loop goes on with the next candidate, or gives up after the last.
NextCandidate(c) ==
  IF trying[c] < Len(candidates[c])
  THEN /\ trying' = [trying EXCEPT ![c] = @ + 1]
       /\ Goto(c, "open") /\ UNCHANGED verdict
  ELSE /\ Fails(c)
       /\ Goto(c, "unlock") /\ UNCHANGED trying

OpenFails(c) ==
  /\ At(c, "open")
  /\ NextCandidate(c)
  /\ UNCHANGED <<automaticVars, loadMu, loadedBindings,
                 successfulLibraryPath, dispatchers, handles, asked,
                 candidates, resolved>>

Open(c) ==
  /\ At(c, "open")
  /\ handles' = [handles EXCEPT ![Current(c)] = @ + 1]
  /\ resolved' = [resolved EXCEPT ![c] = 0]
  /\ Goto(c, "resolve")
  /\ UNCHANGED <<automaticVars, loadMu, loadedBindings,
                 successfulLibraryPath, dispatchers, asked, candidates,
                 trying, verdict>>

\* The next symbol of the order is found.
Resolve(c) ==
  /\ At(c, "resolve") /\ resolved[c] < Len(LoadOrder)
  /\ resolved' = [resolved EXCEPT ![c] = @ + 1]
  /\ UNCHANGED <<automaticVars, loadMu, loadedBindings,
                 successfulLibraryPath, dispatchers, handles, pc, asked,
                 candidates, trying, verdict>>

\* Mutant: the handle of the library that lacks a symbol stays open.
ResolveFailsOpen(c) ==
  /\ At(c, "resolve") /\ resolved[c] < Len(LoadOrder)
  /\ NextCandidate(c)
  /\ UNCHANGED <<automaticVars, loadMu, loadedBindings,
                 successfulLibraryPath, dispatchers, handles, asked,
                 candidates, resolved>>

\* A symbol is missing: fail closes the handle.
ResolveFails(c) ==
  /\ At(c, "resolve") /\ resolved[c] < Len(LoadOrder)
  /\ handles' = [handles EXCEPT ![Current(c)] = @ - 1]
  /\ NextCandidate(c)
  /\ UNCHANGED <<automaticVars, loadMu, loadedBindings,
                 successfulLibraryPath, dispatchers, asked, candidates,
                 resolved>>

\* Mutant: the call surface is published before its last symbols are there.
PublishEarly(c) ==
  /\ At(c, "resolve")
  /\ loadedBindings' = [path |-> Current(c), symbols |-> FirstSymbols(resolved[c])]
  /\ Goto(c, "record")
  /\ UNCHANGED <<automaticVars, loadMu, successfulLibraryPath, dispatchers,
                 handles, asked, candidates, trying, resolved, verdict>>

\* loadedBindings.Store, the last statement of loadCandidate.
Publish(c) ==
  /\ At(c, "resolve") /\ resolved[c] = Len(LoadOrder)
  /\ loadedBindings' = [path |-> Current(c), symbols |-> FirstSymbols(resolved[c])]
  /\ Goto(c, "record")
  /\ UNCHANGED <<automaticVars, loadMu, successfulLibraryPath, dispatchers,
                 handles, asked, candidates, trying, resolved, verdict>>

\* Mutant: the path of the first candidate is recorded.
RecordFirstPath(c) ==
  /\ At(c, "record")
  /\ successfulLibraryPath' = candidates[c][1]
  /\ Concludes(c, "loaded")
  /\ Goto(c, "unlock")
  /\ UNCHANGED <<automaticVars, loadMu, loadedBindings, dispatchers,
                 handles, asked, candidates, trying, resolved>>

RecordPath(c) ==
  /\ At(c, "record")
  /\ successfulLibraryPath' = Current(c)
  /\ Concludes(c, "loaded")
  /\ Goto(c, "unlock")
  /\ UNCHANGED <<automaticVars, loadMu, loadedBindings, dispatchers,
                 handles, asked, candidates, trying, resolved>>

ForgetCall(c) ==
  /\ Goto(c, "idle") /\ Concludes(c, "idle")
  /\ asked' = [asked EXCEPT ![c] = NoPath]
  /\ candidates' = [candidates EXCEPT ![c] = <<>>]
  /\ trying' = [trying EXCEPT ![c] = 1]
  /\ resolved' = [resolved EXCEPT ![c] = 0]
  /\ using' = [using EXCEPT ![c] = FALSE]

\* LoadLibrary's deferred Unlock, and its return; nothing reads the locals any
\* more.
Unlock(c) ==
  /\ At(c, "unlock") /\ ~using[c]
  /\ loadMu' = NoCaller
  /\ ForgetCall(c)
  /\ UNCHANGED <<automaticLoadAttempted, loadedBindings,
                 successfulLibraryPath, dispatchers, handles>>

\* ensureLoaded's deferred Unlock.
UnlockUsing(c) ==
  /\ At(c, "unlock") /\ using[c]
  /\ loadMu' = NoCaller
  /\ Goto(c, "reread")
  /\ UNCHANGED <<automaticVars, loadedBindings, successfulLibraryPath,
                 dispatchers, handles, asked, candidates, trying, resolved,
                 verdict>>

\* bindings loads loadedBindings again, without the mutex: what another call
\* published meanwhile counts.
Reread(c) ==
  /\ At(c, "reread")
  /\ Concludes(c, IF Loaded THEN "loaded" ELSE "failed")
  /\ Goto(c, "return")
  /\ UNCHANGED <<automaticVars, loadMu, loadedBindings,
                 successfulLibraryPath, dispatchers, handles, asked,
                 candidates, trying, resolved>>

\* bindings returns what it read, or panics with automaticLoadError.
ReturnBindings(c) ==
  /\ At(c, "return")
  /\ ForgetCall(c)
  /\ UNCHANGED <<automaticLoadAttempted, loadMu, loadedBindings,
                 successfulLibraryPath, dispatchers, handles>>

LoaderStep(c) ==
  \/ LoadLibrary(c) \/ UseBindings(c) \/ Lock(c) \/ SkipAutomatic(c)
  \/ ListCandidates(c) \/ OpenFails(c) \/ Open(c) \/ Resolve(c)
  \/ ResolveFails(c) \/ Publish(c) \/ RecordPath(c) \/ Unlock(c)
  \/ UnlockUsing(c) \/ Reread(c) \/ ReturnBindings(c)

LoaderNext == \E c \in Callers : LoaderStep(c)

LoaderSpec == LoaderInit /\ [][LoaderNext]_loaderVars

-----------------------------------------------------------------------------
(* Properties.                                                             *)

\* Whoever finds the bindings published finds every symbol, all of them from one
\* library that is still open, and the callback dispatchers made.
PublishedComplete ==
  Loaded =>
    /\ loadedBindings.symbols = FirstSymbols(Len(LoadOrder))
    /\ handles[loadedBindings.path] > 0
    /\ dispatchers

\* While no call is loading, exactly the library in use is open: an attempt that
\* found a symbol missing has closed what it opened.
NoHandleLeaks ==
  loadMu = NoCaller =>
    \A p \in Paths : handles[p] = IF p = loadedBindings.path THEN 1 ELSE 0

\* A call takes effect at one moment, as LibraryOnce says: when it publishes, or
\* when it answers otherwise.
Once == INSTANCE LibraryOnce WITH
  library <- loadedBindings.path,
  outcome <- [c \in Callers |-> IF pc[c] = "record" THEN "loaded" ELSE verdict[c]]

LoadsOnce == Once!OnceSpec
=============================================================================

-------------------------- MODULE NativeCalls_proofs --------------------------
(***************************************************************************)
(* Proofs about what stands around a native call: the loader that finds    *)
(* its symbol, the frame its values are laid out in, the streams it        *)
(* borrows, the scratch buffer its rows are copied from.  Each part has an *)
(* invariant of its own and shares no variable with the others.            *)
(***************************************************************************)
EXTENDS LibraryLoader, CallFrames, Streams, ScratchBuffers, SequenceTheorems, TLAPS

(***************************************************************************)
(* The loader, for any number of callers and any list of symbols: what is  *)
(* published is complete, no handle leaks, and loading is the single step  *)
(* LibraryOnce describes.                                                  *)
(*                                                                         *)
(* The argument is mutual exclusion: from the moment it has its list of    *)
(* candidates until it unlocks, a call holds loadMu, so that what it finds *)
(* unloaded stays unloaded until it publishes itself.  An automatic call   *)
(* reads again after it unlocked, when a library can only have appeared.   *)
(***************************************************************************)
Outside == {"idle", "lock", "reread", "return"}
Inside == {"list", "open", "resolve", "record", "unlock"}
Settled == {"loaded", "different", "failed"}

LoaderTypeOK ==
  /\ loadMu \in Callers \union {NoCaller}
  /\ loadedBindings.path \in Paths \union {NoPath}
  /\ successfulLibraryPath \in Paths \union {NoPath}
  /\ dispatchers \in BOOLEAN
  /\ handles \in [Paths -> Nat]
  /\ using \in [Callers -> BOOLEAN]
  /\ pc \in [Callers -> Outside \union Inside]
  /\ asked \in [Callers -> Paths \union {NoPath}]
  /\ candidates \in [Callers -> Seq(Paths)]
  /\ trying \in [Callers -> Nat \ {0}]
  /\ resolved \in [Callers -> Nat]
  /\ verdict \in [Callers -> {"idle", "asking"} \union Settled]

\* The callers inside loadLibraryLocked hold the mutex.
LockHeld == \A c \in Callers : pc[c] \in Inside <=> loadMu = c

\* What a caller knows of its own call.
LoopKnows ==
  \A c \in Callers :
    /\ pc[c] \in {"open", "resolve", "record"} =>
         /\ trying[c] \in 1..Len(candidates[c])
         /\ asked[c] # NoPath => candidates[c] = <<asked[c]>>
         /\ dispatchers
    /\ pc[c] = "idle" => ~using[c]
    /\ using[c] => asked[c] = NoPath
    /\ pc[c] \in {"open", "resolve"} => loadedBindings = Unloaded
    /\ pc[c] = "resolve" => resolved[c] <= Len(LoadOrder)
    /\ pc[c] = "record" => loadedBindings.path = Current(c)

\* What is published, and the path remembered for it.
PublishedKnows ==
  /\ loadedBindings = Unloaded
     \/ /\ loadedBindings.path \in Paths
        /\ loadedBindings.symbols = FirstSymbols(Len(LoadOrder))
        /\ dispatchers
  /\ (\A c \in Callers : pc[c] # "record") => successfulLibraryPath = loadedBindings.path

\* The library an attempt has opened.
Opening == IF loadMu \in Callers /\ pc[loadMu] = "resolve" THEN Current(loadMu) ELSE NoPath
HandlesCounted ==
  \A p \in Paths : handles[p] = IF p = loadedBindings.path \/ p = Opening THEN 1 ELSE 0

\* A verdict is there when the call is about to unlock.  bindings reaches its own
\* later, unless the call published.
AnswerKnows ==
  \A c \in Callers :
    /\ pc[c] = "idle" => verdict[c] = "idle"
    /\ pc[c] \in {"lock", "list", "open", "resolve", "record"} => verdict[c] = "asking"
    /\ pc[c] = "unlock" /\ ~using[c] => verdict[c] \in Settled
    /\ pc[c] \in {"unlock", "reread"} /\ using[c] =>
         verdict[c] = "asking" \/ (verdict[c] = "loaded" /\ Loaded)
    /\ pc[c] = "reread" => using[c]
    /\ pc[c] = "return" => verdict[c] \in Settled

LoaderInv ==
  LoaderTypeOK /\ LockHeld /\ LoopKnows /\ PublishedKnows /\ HandlesCounted /\ AnswerKnows

-----------------------------------------------------------------------------

\* libraryCandidates lists paths, and only the explicit one if there is one.
LEMMA CandidatesArePaths ==
  ASSUME NEW explicit \in Paths \union {NoPath}, NEW first \in Paths \union {NoPath},
         NEW second \in Paths \union {NoPath}
  PROVE  /\ libraryCandidates(explicit, first, second) \in Seq(Paths)
         /\ explicit # NoPath => libraryCandidates(explicit, first, second) = <<explicit>>
<1>1. \A p \in Paths \union {NoPath} : Candidate(p) \in Seq(Paths)
  <2>1. ASSUME NEW p \in Paths PROVE Candidate(p) \in Seq(Paths)
    BY <2>1, LoaderAssumption DEF Candidate
  <2>2. Candidate(NoPath) \in Seq(Paths)
    BY DEF Candidate
  <2> QED BY <2>1, <2>2
<1>2. \A s, t \in Seq(Paths) : s \o t \in Seq(Paths)
  OBVIOUS
<1>3. Candidate(first) \o Candidate(second) \o SearchPaths \o Candidate(DefaultLibraryName)
        \in Seq(Paths)
  BY <1>1, <1>2, LoaderAssumption
<1>4. explicit # NoPath => <<explicit>> \in Seq(Paths)
  OBVIOUS
<1> QED BY <1>3, <1>4 DEF libraryCandidates

LEMMA LoaderInitInv == LoaderInit => LoaderInv
<1> SUFFICES ASSUME LoaderInit PROVE LoaderInv
  OBVIOUS
<1> USE LoaderAssumption DEF LoaderInit
<1>1. LoaderTypeOK
  <2>1. candidates \in [Callers -> Seq(Paths)]
    OBVIOUS
  <2>2. /\ loadMu \in Callers \union {NoCaller}
        /\ loadedBindings.path \in Paths \union {NoPath}
        /\ successfulLibraryPath \in Paths \union {NoPath}
        /\ dispatchers \in BOOLEAN
    BY DEF Unloaded
  <2>3. /\ handles \in [Paths -> Nat]
        /\ using \in [Callers -> BOOLEAN]
        /\ pc \in [Callers -> Outside \union Inside]
        /\ asked \in [Callers -> Paths \union {NoPath}]
    BY DEF Outside, Inside
  <2>4. /\ trying \in [Callers -> Nat \ {0}]
        /\ resolved \in [Callers -> Nat]
        /\ verdict \in [Callers -> {"idle", "asking"} \union Settled]
    BY DEF Settled
  <2> QED BY <2>1, <2>2, <2>3, <2>4 DEF LoaderTypeOK
<1>2. LockHeld /\ LoopKnows /\ AnswerKnows
  BY DEF LockHeld, LoopKnows, AnswerKnows, Inside
<1>3. PublishedKnows
  BY DEF PublishedKnows, Unloaded
<1>4. HandlesCounted
  BY DEF HandlesCounted, Opening, Unloaded
<1> QED BY <1>1, <1>2, <1>3, <1>4 DEF LoaderInv

-----------------------------------------------------------------------------
(* Every step keeps the invariant.                                         *)

LEMMA LoadLibraryKeeps ==
  ASSUME LoaderInv, NEW c \in Callers, LoadLibrary(c)
  PROVE  LoaderInv'
<1> USE LoaderAssumption DEF LoaderInv, automaticVars, LoadLibrary, At, Goto, Concludes
<1>1. LoaderTypeOK'
  BY DEF LoaderTypeOK, Outside, Inside, Settled
<1>2. LockHeld'
  BY DEF LoaderTypeOK, LockHeld, Inside
<1>3. LoopKnows'
  BY DEF LoaderTypeOK, LockHeld, LoopKnows, PublishedKnows, Inside, Current, Loaded, Unloaded
<1>4. PublishedKnows'
  BY DEF LoaderTypeOK, LockHeld, LoopKnows, PublishedKnows, Inside, Current, Unloaded
<1>5. HandlesCounted'
  BY DEF LoaderTypeOK, LockHeld, LoopKnows, HandlesCounted, Inside, Opening, Current, Unloaded
<1>6. AnswerKnows'
  BY DEF LoaderTypeOK, LockHeld, LoopKnows, PublishedKnows, AnswerKnows, Inside, Settled, Current,
    Loaded, Unloaded
<1> QED BY <1>1, <1>2, <1>3, <1>4, <1>5, <1>6

LEMMA UseBindingsKeeps ==
  ASSUME LoaderInv, NEW c \in Callers, UseBindings(c)
  PROVE  LoaderInv'
<1> USE LoaderAssumption DEF LoaderInv, automaticVars, UseBindings, At, Goto, Concludes
<1>1. LoaderTypeOK'
  BY DEF LoaderTypeOK, Outside, Inside, Settled
<1>2. LockHeld'
  BY DEF LoaderTypeOK, LockHeld, Inside
<1>3. LoopKnows'
  BY DEF LoaderTypeOK, LockHeld, LoopKnows, PublishedKnows, Inside, Current, Loaded, Unloaded
<1>4. PublishedKnows'
  BY DEF LoaderTypeOK, LockHeld, LoopKnows, PublishedKnows, Inside, Current, Unloaded
<1>5. HandlesCounted'
  BY DEF LoaderTypeOK, LockHeld, LoopKnows, HandlesCounted, Inside, Opening, Current, Unloaded
<1>6. AnswerKnows'
  BY DEF LoaderTypeOK, LockHeld, LoopKnows, PublishedKnows, AnswerKnows, Inside, Settled, Current,
    Loaded, Unloaded
<1> QED BY <1>1, <1>2, <1>3, <1>4, <1>5, <1>6

LEMMA LockKeeps ==
  ASSUME LoaderInv, NEW c \in Callers, Lock(c)
  PROVE  LoaderInv'
<1> USE LoaderAssumption DEF LoaderInv, automaticVars, Lock, At, Goto, Concludes
<1>1. LoaderTypeOK'
  BY DEF LoaderTypeOK, Outside, Inside, Settled
<1>2. LockHeld'
  BY DEF LoaderTypeOK, LockHeld, Inside
<1>3. LoopKnows'
  BY DEF LoaderTypeOK, LockHeld, LoopKnows, PublishedKnows, Inside, Current, Loaded, Unloaded
<1>4. PublishedKnows'
  BY DEF LoaderTypeOK, LockHeld, LoopKnows, PublishedKnows, Inside, Current, Unloaded
<1>5. HandlesCounted'
  BY DEF LoaderTypeOK, LockHeld, LoopKnows, HandlesCounted, Inside, Opening, Current, Unloaded
<1>6. AnswerKnows'
  BY DEF LoaderTypeOK, LockHeld, LoopKnows, PublishedKnows, AnswerKnows, Inside, Settled, Current,
    Loaded, Unloaded
<1> QED BY <1>1, <1>2, <1>3, <1>4, <1>5, <1>6

LEMMA SkipAutomaticKeeps ==
  ASSUME LoaderInv, NEW c \in Callers, SkipAutomatic(c)
  PROVE  LoaderInv'
<1> USE LoaderAssumption DEF LoaderInv, automaticVars, SkipAutomatic, At, Goto, Concludes
<1>1. LoaderTypeOK'
  BY DEF LoaderTypeOK, Outside, Inside, Settled
<1>2. LockHeld'
  BY DEF LoaderTypeOK, LockHeld, Inside
<1>3. LoopKnows'
  BY DEF LoaderTypeOK, LockHeld, LoopKnows, PublishedKnows, Inside, Current, Loaded, Unloaded
<1>4. PublishedKnows'
  BY DEF LoaderTypeOK, LockHeld, LoopKnows, PublishedKnows, Inside, Current, Unloaded
<1>5. HandlesCounted'
  BY DEF LoaderTypeOK, LockHeld, LoopKnows, HandlesCounted, Inside, Opening, Current, Unloaded
<1>6. AnswerKnows'
  BY DEF LoaderTypeOK, LockHeld, LoopKnows, PublishedKnows, AnswerKnows, Inside, Settled, Current,
    Loaded, Unloaded
<1> QED BY <1>1, <1>2, <1>3, <1>4, <1>5, <1>6

LEMMA ListCandidatesKeeps ==
  ASSUME LoaderInv, NEW c \in Callers, ListCandidates(c)
  PROVE  LoaderInv'
<1> USE LoaderAssumption DEF LoaderInv, automaticVars, ListCandidates, Fails, At, Goto, Concludes
<1>0. /\ candidates'[c] \in Seq(Paths)
      /\ asked[c] # NoPath => candidates'[c] = <<asked[c]>>
      /\ candidates' = [candidates EXCEPT ![c] = candidates'[c]]
  <2>1. PICK first \in Paths \union {NoPath}, second \in Paths \union {NoPath} :
          candidates' = [candidates EXCEPT ![c] = libraryCandidates(asked[c], first, second)]
    OBVIOUS
  <2>2. asked[c] \in Paths \union {NoPath}
    BY DEF LoaderTypeOK
  <2> QED BY <2>1, <2>2, CandidatesArePaths DEF LoaderTypeOK
<1>1. LoaderTypeOK'
  <2>1. candidates' \in [Callers -> Seq(Paths)] /\ trying' \in [Callers -> Nat \ {0}]
    BY <1>0, SMTT(30) DEF LoaderTypeOK
  <2>2. pc' \in [Callers -> Outside \union Inside]
    BY DEF LoaderTypeOK, Outside, Inside
  <2>3. verdict' \in [Callers -> {"idle", "asking"} \union Settled]
    BY DEF LoaderTypeOK, Settled
  <2>4. dispatchers' \in BOOLEAN
    BY DEF LoaderTypeOK
  <2> QED BY <2>1, <2>2, <2>3, <2>4 DEF LoaderTypeOK
<1>2. LockHeld'
  BY DEF LoaderTypeOK, LockHeld, Inside
<1>3. LoopKnows'
  BY <1>0, SMTT(30) DEF LoaderTypeOK, LockHeld, LoopKnows, PublishedKnows, Inside, Current, Loaded, Unloaded
<1>4. PublishedKnows'
  BY DEF LoaderTypeOK, LockHeld, LoopKnows, PublishedKnows, Inside, Current, Unloaded
<1>5. HandlesCounted'
  BY DEF LoaderTypeOK, LockHeld, LoopKnows, HandlesCounted, Inside, Opening, Current, Unloaded
<1>6. AnswerKnows'
  BY SMTT(30) DEF LoaderTypeOK, LockHeld, LoopKnows, PublishedKnows, AnswerKnows, Inside, Settled, Current,
    Loaded, Unloaded
<1> QED BY <1>1, <1>2, <1>3, <1>4, <1>5, <1>6

LEMMA OpenFailsKeeps ==
  ASSUME LoaderInv, NEW c \in Callers, OpenFails(c)
  PROVE  LoaderInv'
<1> USE LoaderAssumption DEF LoaderInv, automaticVars, OpenFails, NextCandidate, Fails, At, Goto
<1>1. LoaderTypeOK'
  <2>1. pc' \in [Callers -> Outside \union Inside]
    BY ZenonT(40) DEF LoaderTypeOK, Outside, Inside
  <2>2. verdict' \in [Callers -> {"idle", "asking"} \union Settled]
    BY DEF LoaderTypeOK, Settled
  <2>3. trying' \in [Callers -> Nat \ {0}]
    <3>1. trying \in [Callers -> Nat \ {0}] /\ trying[c] + 1 \in Nat \ {0}
      BY DEF LoaderTypeOK
    <3>2. trying' = trying \/ trying' = [trying EXCEPT ![c] = trying[c] + 1]
      OBVIOUS
    <3> QED BY <3>1, <3>2
  <2> QED BY <2>1, <2>2, <2>3 DEF LoaderTypeOK
<1>2. LockHeld'
  BY DEF LoaderTypeOK, LockHeld, Inside
<1>3. LoopKnows'
  BY SMTT(30) DEF LoaderTypeOK, LockHeld, LoopKnows, PublishedKnows, Inside, Current, Loaded, Unloaded
<1>4. PublishedKnows'
  BY DEF LoaderTypeOK, LockHeld, LoopKnows, PublishedKnows, Inside, Current, Unloaded
<1>5. HandlesCounted'
  BY DEF LoaderTypeOK, LockHeld, LoopKnows, HandlesCounted, Inside, Opening, Current, Unloaded
<1>6. AnswerKnows'
  <2>1. /\ pc[c] \in {"open", "resolve"} /\ verdict[c] = "asking"
        /\ \A d \in Callers \ {c} : pc'[d] = pc[d] /\ verdict'[d] = verdict[d]
        /\ using' = using /\ loadedBindings' = loadedBindings
    BY DEF LoaderTypeOK, AnswerKnows
  <2>2. \/ pc'[c] = "open" /\ verdict'[c] = "asking"
        \/ pc'[c] = "unlock" /\ verdict'[c] = (IF using[c] THEN "asking" ELSE "failed")
    BY <2>1 DEF LoaderTypeOK
  <2> QED BY <2>1, <2>2 DEF AnswerKnows, Settled, Loaded, Unloaded
<1> QED BY <1>1, <1>2, <1>3, <1>4, <1>5, <1>6

LEMMA OpenKeeps ==
  ASSUME LoaderInv, NEW c \in Callers, Open(c)
  PROVE  LoaderInv'
<1> USE LoaderAssumption DEF LoaderInv, automaticVars, Open, At, Goto, Concludes
<1>1. LoaderTypeOK'
  BY SMTT(30) DEF LoaderTypeOK, Outside, Inside, Settled, LockHeld, LoopKnows, HandlesCounted, Opening,
         Current, Unloaded
<1>2. LockHeld'
  BY DEF LoaderTypeOK, LockHeld, Inside
<1>3. LoopKnows'
  BY SMTT(30) DEF LoaderTypeOK, LockHeld, LoopKnows, PublishedKnows, Inside, Current, Loaded, Unloaded
<1>4. PublishedKnows'
  BY DEF LoaderTypeOK, LockHeld, LoopKnows, PublishedKnows, Inside, Current, Unloaded
<1>5. HandlesCounted'
  BY DEF LoaderTypeOK, LockHeld, LoopKnows, HandlesCounted, Inside, Opening, Current, Unloaded
<1>6. AnswerKnows'
  BY DEF LoaderTypeOK, LockHeld, LoopKnows, PublishedKnows, AnswerKnows, Inside, Settled, Current,
    Loaded, Unloaded
<1> QED BY <1>1, <1>2, <1>3, <1>4, <1>5, <1>6

LEMMA ResolveKeeps ==
  ASSUME LoaderInv, NEW c \in Callers, Resolve(c)
  PROVE  LoaderInv'
<1> USE LoaderAssumption DEF LoaderInv, automaticVars, Resolve, At, Goto, Concludes
<1>1. LoaderTypeOK'
  BY SMTT(30) DEF LoaderTypeOK, Outside, Inside, Settled
<1>2. LockHeld'
  BY DEF LoaderTypeOK, LockHeld, Inside
<1>3. LoopKnows'
  BY DEF LoaderTypeOK, LockHeld, LoopKnows, PublishedKnows, Inside, Current, Loaded, Unloaded
<1>4. PublishedKnows'
  BY DEF LoaderTypeOK, LockHeld, LoopKnows, PublishedKnows, Inside, Current, Unloaded
<1>5. HandlesCounted'
  BY DEF LoaderTypeOK, LockHeld, LoopKnows, HandlesCounted, Inside, Opening, Current, Unloaded
<1>6. AnswerKnows'
  BY DEF LoaderTypeOK, LockHeld, LoopKnows, PublishedKnows, AnswerKnows, Inside, Settled, Current,
    Loaded, Unloaded
<1> QED BY <1>1, <1>2, <1>3, <1>4, <1>5, <1>6

LEMMA ResolveFailsKeeps ==
  ASSUME LoaderInv, NEW c \in Callers, ResolveFails(c)
  PROVE  LoaderInv'
<1> USE LoaderAssumption DEF LoaderInv, automaticVars, ResolveFails, NextCandidate, Fails, At, Goto
<1>1. LoaderTypeOK'
  <2>1. pc' \in [Callers -> Outside \union Inside]
    BY ZenonT(40) DEF LoaderTypeOK, Outside, Inside
  <2>2. verdict' \in [Callers -> {"idle", "asking"} \union Settled]
    BY DEF LoaderTypeOK, Settled
  <2>3. trying' \in [Callers -> Nat \ {0}]
    <3>1. trying \in [Callers -> Nat \ {0}] /\ trying[c] + 1 \in Nat \ {0}
      BY SMTT(30) DEF LoaderTypeOK
    <3>2. trying' = trying \/ trying' = [trying EXCEPT ![c] = trying[c] + 1]
      OBVIOUS
    <3> QED BY <3>1, <3>2
  <2>4. handles' \in [Paths -> Nat]
    BY DEF LoaderTypeOK, LockHeld, LoopKnows, HandlesCounted, Opening, Inside, Current, Unloaded
  <2> QED BY <2>1, <2>2, <2>3, <2>4 DEF LoaderTypeOK
<1>2. LockHeld'
  BY DEF LoaderTypeOK, LockHeld, Inside
<1>3. LoopKnows'
  BY SMTT(30) DEF LoaderTypeOK, LockHeld, LoopKnows, PublishedKnows, Inside, Current, Loaded, Unloaded
<1>4. PublishedKnows'
  BY DEF LoaderTypeOK, LockHeld, LoopKnows, PublishedKnows, Inside, Current, Unloaded
<1>5. HandlesCounted'
  BY DEF LoaderTypeOK, LockHeld, LoopKnows, HandlesCounted, Inside, Opening, Current, Unloaded
<1>6. AnswerKnows'
  <2>1. /\ pc[c] \in {"open", "resolve"} /\ verdict[c] = "asking"
        /\ \A d \in Callers \ {c} : pc'[d] = pc[d] /\ verdict'[d] = verdict[d]
        /\ using' = using /\ loadedBindings' = loadedBindings
    BY DEF LoaderTypeOK, AnswerKnows
  <2>2. \/ pc'[c] = "open" /\ verdict'[c] = "asking"
        \/ pc'[c] = "unlock" /\ verdict'[c] = (IF using[c] THEN "asking" ELSE "failed")
    BY <2>1 DEF LoaderTypeOK
  <2> QED BY <2>1, <2>2 DEF AnswerKnows, Settled, Loaded, Unloaded
<1> QED BY <1>1, <1>2, <1>3, <1>4, <1>5, <1>6

LEMMA PublishKeeps ==
  ASSUME LoaderInv, NEW c \in Callers, Publish(c)
  PROVE  LoaderInv'
<1> USE LoaderAssumption DEF LoaderInv, automaticVars, Publish, At, Goto, Concludes
<1>1. LoaderTypeOK'
  BY DEF LoaderTypeOK, Outside, Inside, Settled, LockHeld, LoopKnows, HandlesCounted, Opening,
         Current, Unloaded
<1>2. LockHeld'
  BY DEF LoaderTypeOK, LockHeld, Inside
<1>3. LoopKnows'
  BY DEF LoaderTypeOK, LockHeld, LoopKnows, PublishedKnows, Inside, Current, Loaded, Unloaded
<1>4. PublishedKnows'
  BY DEF LoaderTypeOK, LockHeld, LoopKnows, PublishedKnows, Inside, Current, Unloaded
<1>5. HandlesCounted'
  BY DEF LoaderTypeOK, LockHeld, LoopKnows, HandlesCounted, Inside, Opening, Current, Unloaded
<1>6. AnswerKnows'
  BY DEF LoaderTypeOK, LockHeld, LoopKnows, PublishedKnows, AnswerKnows, Inside, Settled, Current,
    Loaded, Unloaded
<1> QED BY <1>1, <1>2, <1>3, <1>4, <1>5, <1>6

LEMMA RecordPathKeeps ==
  ASSUME LoaderInv, NEW c \in Callers, RecordPath(c)
  PROVE  LoaderInv'
<1> USE LoaderAssumption DEF LoaderInv, automaticVars, RecordPath, At, Goto, Concludes
<1>1. LoaderTypeOK'
  BY DEF LoaderTypeOK, Outside, Inside, Settled, LockHeld, LoopKnows, HandlesCounted, Opening,
         Current, Unloaded
<1>2. LockHeld'
  BY DEF LoaderTypeOK, LockHeld, Inside
<1>3. LoopKnows'
  BY DEF LoaderTypeOK, LockHeld, LoopKnows, PublishedKnows, Inside, Current, Loaded, Unloaded
<1>4. PublishedKnows'
  BY DEF LoaderTypeOK, LockHeld, LoopKnows, PublishedKnows, Inside, Current, Unloaded
<1>5. HandlesCounted'
  BY DEF LoaderTypeOK, LockHeld, LoopKnows, HandlesCounted, Inside, Opening, Current, Unloaded
<1>6. AnswerKnows'
  BY DEF LoaderTypeOK, LockHeld, LoopKnows, PublishedKnows, AnswerKnows, Inside, Settled, Current,
    Loaded, Unloaded
<1> QED BY <1>1, <1>2, <1>3, <1>4, <1>5, <1>6

LEMMA UnlockKeeps ==
  ASSUME LoaderInv, NEW c \in Callers, Unlock(c)
  PROVE  LoaderInv'
<1> USE LoaderAssumption DEF LoaderInv, automaticVars, Unlock, ForgetCall, At, Goto, Concludes
<1>1. LoaderTypeOK'
  BY DEF LoaderTypeOK, Outside, Inside, Settled
<1>2. LockHeld'
  BY DEF LoaderTypeOK, LockHeld, Inside
<1>3. LoopKnows'
  BY DEF LoaderTypeOK, LockHeld, LoopKnows, PublishedKnows, Inside, Current, Loaded, Unloaded
<1>4. PublishedKnows'
  BY DEF LoaderTypeOK, LockHeld, LoopKnows, PublishedKnows, Inside, Current, Unloaded
<1>5. HandlesCounted'
  BY DEF LoaderTypeOK, LockHeld, LoopKnows, HandlesCounted, Inside, Opening, Current, Unloaded
<1>6. AnswerKnows'
  BY DEF LoaderTypeOK, LockHeld, LoopKnows, PublishedKnows, AnswerKnows, Inside, Settled, Current,
    Loaded, Unloaded
<1> QED BY <1>1, <1>2, <1>3, <1>4, <1>5, <1>6

LEMMA UnlockUsingKeeps ==
  ASSUME LoaderInv, NEW c \in Callers, UnlockUsing(c)
  PROVE  LoaderInv'
<1> USE LoaderAssumption DEF LoaderInv, automaticVars, UnlockUsing, At, Goto, Concludes
<1>1. LoaderTypeOK'
  BY DEF LoaderTypeOK, Outside, Inside, Settled
<1>2. LockHeld'
  BY DEF LoaderTypeOK, LockHeld, Inside
<1>3. LoopKnows'
  BY DEF LoaderTypeOK, LockHeld, LoopKnows, PublishedKnows, Inside, Current, Loaded, Unloaded
<1>4. PublishedKnows'
  BY DEF LoaderTypeOK, LockHeld, LoopKnows, PublishedKnows, Inside, Current, Unloaded
<1>5. HandlesCounted'
  BY DEF LoaderTypeOK, LockHeld, LoopKnows, HandlesCounted, Inside, Opening, Current, Unloaded
<1>6. AnswerKnows'
  BY DEF LoaderTypeOK, LockHeld, LoopKnows, PublishedKnows, AnswerKnows, Inside, Settled, Current,
    Loaded, Unloaded
<1> QED BY <1>1, <1>2, <1>3, <1>4, <1>5, <1>6

LEMMA RereadKeeps ==
  ASSUME LoaderInv, NEW c \in Callers, Reread(c)
  PROVE  LoaderInv'
<1> USE LoaderAssumption DEF LoaderInv, automaticVars, Reread, At, Goto, Concludes
<1>1. LoaderTypeOK'
  BY DEF LoaderTypeOK, Outside, Inside, Settled
<1>2. LockHeld'
  BY DEF LoaderTypeOK, LockHeld, Inside
<1>3. LoopKnows'
  BY DEF LoaderTypeOK, LockHeld, LoopKnows, PublishedKnows, Inside, Current, Loaded, Unloaded
<1>4. PublishedKnows'
  BY DEF LoaderTypeOK, LockHeld, LoopKnows, PublishedKnows, Inside, Current, Unloaded
<1>5. HandlesCounted'
  BY DEF LoaderTypeOK, LockHeld, LoopKnows, HandlesCounted, Inside, Opening, Current, Unloaded
<1>6. AnswerKnows'
  BY DEF LoaderTypeOK, LockHeld, LoopKnows, PublishedKnows, AnswerKnows, Inside, Settled, Current,
    Loaded, Unloaded
<1> QED BY <1>1, <1>2, <1>3, <1>4, <1>5, <1>6

LEMMA ReturnBindingsKeeps ==
  ASSUME LoaderInv, NEW c \in Callers, ReturnBindings(c)
  PROVE  LoaderInv'
<1> USE LoaderAssumption DEF LoaderInv, automaticVars, ReturnBindings, At, Goto, Concludes,
                             ForgetCall
<1>1. LoaderTypeOK'
  BY SMTT(30) DEF LoaderTypeOK, Outside, Inside, Settled
<1>2. LockHeld'
  BY DEF LoaderTypeOK, LockHeld, Inside
<1>3. LoopKnows'
  BY DEF LoaderTypeOK, LockHeld, LoopKnows, PublishedKnows, Inside, Current, Loaded, Unloaded
<1>4. PublishedKnows'
  BY DEF LoaderTypeOK, LockHeld, LoopKnows, PublishedKnows, Inside, Current, Unloaded
<1>5. HandlesCounted'
  BY DEF LoaderTypeOK, LockHeld, LoopKnows, HandlesCounted, Inside, Opening, Current, Unloaded
<1>6. AnswerKnows'
  BY DEF LoaderTypeOK, LockHeld, LoopKnows, PublishedKnows, AnswerKnows, Inside, Settled, Current,
    Loaded, Unloaded
<1> QED BY <1>1, <1>2, <1>3, <1>4, <1>5, <1>6

LEMMA LoaderStepInv == LoaderInv /\ [LoaderNext]_loaderVars => LoaderInv'
<1> SUFFICES ASSUME LoaderInv, [LoaderNext]_loaderVars PROVE LoaderInv'
  OBVIOUS
<1>1. CASE UNCHANGED loaderVars
  BY <1>1 DEF loaderVars, localVars, automaticVars, LoaderInv, LoaderTypeOK, LockHeld,
    LoopKnows, PublishedKnows, HandlesCounted, AnswerKnows, Opening, Current, Loaded
<1>2. ASSUME NEW c \in Callers, LoaderStep(c) PROVE LoaderInv'
  BY <1>2, LoadLibraryKeeps, UseBindingsKeeps, LockKeeps, SkipAutomaticKeeps,
    ListCandidatesKeeps, OpenFailsKeeps, OpenKeeps, ResolveKeeps, ResolveFailsKeeps, PublishKeeps,
    RecordPathKeeps, UnlockKeeps, UnlockUsingKeeps, RereadKeeps, ReturnBindingsKeeps
    DEF LoaderStep
<1> QED BY <1>1, <1>2 DEF LoaderNext

LEMMA LoaderInvariant == LoaderSpec => []LoaderInv
BY LoaderInitInv, LoaderStepInv, PTL DEF LoaderSpec

-----------------------------------------------------------------------------
(* What it is for.                                                         *)

\* Whoever finds the bindings published finds every symbol of one open library.
THEOREM BindingsComplete == LoaderSpec => []PublishedComplete
<1>1. LoaderInv => PublishedComplete
  BY DEF LoaderInv, PublishedKnows, HandlesCounted, PublishedComplete, Loaded
<1> QED BY <1>1, LoaderInvariant, PTL

\* Outside a call to LoadLibrary exactly the library in use is open.
THEOREM HandlesDoNotLeak == LoaderSpec => []NoHandleLeaks
<1>1. LoaderInv => NoHandleLeaks
  BY LoaderAssumption DEF LoaderInv, HandlesCounted, Opening, NoHandleLeaks
<1> QED BY <1>1, LoaderInvariant, PTL

-----------------------------------------------------------------------------
(* Every step is a step of LibraryOnce, or none.                           *)

Outcome == [c \in Callers |-> IF pc[c] = "record" THEN "loaded" ELSE verdict[c]]

LEMMA OutcomeChanges ==
  ASSUME LoaderInv, LoaderInv', NEW c \in Callers,
         \A d \in Callers \ {c} : pc'[d] = pc[d] /\ verdict'[d] = verdict[d]
  PROVE  Outcome' = [Outcome EXCEPT ![c] = IF pc'[c] = "record" THEN "loaded" ELSE verdict'[c]]
BY DEF Outcome

\* The paths a list of candidates stands for.
LEMMA PathsListed ==
  ASSUME NEW s \in Seq(Paths), NEW a \in Paths \union {NoPath}, a # NoPath => s = <<a>>
  PROVE  LET wanted == {s[i] : i \in 1..Len(s)} IN
           /\ wanted \in SUBSET Paths
           /\ a # NoPath => wanted = {a}
           /\ s = <<>> => wanted = {}
<1>1. \A i \in 1..Len(s) : s[i] \in Paths
  OBVIOUS
<1>2. a # NoPath => Len(s) = 1 /\ s[1] = a
  OBVIOUS
<1> QED BY <1>1, <1>2

LEMMA LoaderRefines ==
  LoaderInv /\ LoaderInv' /\ [LoaderNext]_loaderVars => [Once!OnceNext]_(Once!onceVars)
<1> SUFFICES ASSUME LoaderInv, LoaderInv', [LoaderNext]_loaderVars
             PROVE  [Once!OnceNext]_(Once!onceVars)
  OBVIOUS
<1> USE LoaderAssumption
<1>1. CASE UNCHANGED loaderVars
  BY <1>1 DEF loaderVars, localVars, Once!onceVars
<1>2. ASSUME NEW c \in Callers, LoaderStep(c) PROVE Once!OnceNext \/ UNCHANGED Once!onceVars
  <2> USE <1>2
  <2>0. /\ pc \in [Callers -> Outside \union Inside]
        /\ verdict \in [Callers -> {"idle", "asking"} \union Settled]
        /\ asked \in [Callers -> Paths \union {NoPath}]
    BY DEF LoaderInv, LoaderTypeOK
  <2>1. \A d \in Callers \ {c} : pc'[d] = pc[d] /\ verdict'[d] = verdict[d]
    BY <2>0 DEF LoaderStep, LoadLibrary, UseBindings, Lock, SkipAutomatic, ListCandidates,
      OpenFails, Open, Resolve, ResolveFails, Publish, RecordPath, Unlock, UnlockUsing, Reread,
      ReturnBindings, ForgetCall, NextCandidate, Fails, Goto, Concludes
  <2>2. Outcome' = [Outcome EXCEPT ![c] = IF pc'[c] = "record" THEN "loaded" ELSE verdict'[c]]
    BY <2>1, OutcomeChanges
  <2>3. Outcome[c] = IF pc[c] = "record" THEN "loaded" ELSE verdict[c]
    BY DEF Outcome
  <2>4. ASSUME Outcome'[c] = Outcome[c], loadedBindings' = loadedBindings, asked' = asked
        PROVE  UNCHANGED Once!onceVars
    BY <2>0, <2>2, <2>3, <2>4 DEF Once!onceVars, Outcome
  <2>5. CASE LoadLibrary(c) \/ UseBindings(c)
    <3>1. pc[c] = "idle" /\ Outcome[c] = "idle"
      BY <2>5, <2>3 DEF LoadLibrary, UseBindings, At, LoaderInv, AnswerKnows
    <3>2. PICK p \in Paths \union {NoPath} : asked' = [asked EXCEPT ![c] = p]
      BY <2>5 DEF LoadLibrary, UseBindings
    <3>3. Outcome' = [Outcome EXCEPT ![c] = "asking"]
      BY <2>5, <2>2, <2>0 DEF LoadLibrary, UseBindings, Goto, Concludes
    <3>4. loadedBindings' = loadedBindings
      BY <2>5 DEF LoadLibrary, UseBindings
    <3>5. Once!Ask(c)
      BY <3>1, <3>2, <3>3, <3>4, <2>0 DEF Once!Ask, Outcome
    <3> QED BY <3>5 DEF Once!OnceNext
  <2>6. ASSUME \/ Lock(c) \/ Open(c) \/ Resolve(c) \/ RecordPath(c)
               \/ SkipAutomatic(c) \/ UnlockUsing(c)
               \/ (OpenFails(c) \/ ResolveFails(c)) /\ (pc'[c] = "open" \/ using[c])
        PROVE  UNCHANGED Once!onceVars
    <3>1. Outcome'[c] = Outcome[c]
      BY <2>6, <2>2, <2>3, <2>0 DEF Lock, SkipAutomatic, OpenFails, Open, Resolve, ResolveFails,
        RecordPath, UnlockUsing, NextCandidate, Fails, At, Goto, Concludes, Outcome
    <3>2. loadedBindings' = loadedBindings /\ asked' = asked
      BY <2>6 DEF Lock, SkipAutomatic, OpenFails, Open, Resolve, ResolveFails, RecordPath,
        UnlockUsing
    <3> QED BY <2>4, <3>1, <3>2
  <2>7. CASE ListCandidates(c)
    <3> USE <2>7
    <3> DEFINE wanted == {candidates'[c][i] : i \in 1..Len(candidates'[c])}
    <3>1. /\ wanted \in SUBSET Paths
          /\ asked[c] # NoPath => wanted = {asked[c]}
          /\ candidates'[c] = <<>> => wanted = {}
      <4>1. PICK first \in Paths \union {NoPath}, second \in Paths \union {NoPath} :
              candidates' = [candidates EXCEPT ![c] = libraryCandidates(asked[c], first, second)]
        BY DEF ListCandidates
      <4>2. /\ candidates'[c] \in Seq(Paths)
            /\ asked[c] # NoPath => candidates'[c] = <<asked[c]>>
        BY <4>1, <2>0, CandidatesArePaths DEF LoaderInv, LoaderTypeOK
      <4> QED BY <4>2, <2>0, PathsListed
    <3>2. Outcome[c] = "asking"
      BY <2>3 DEF ListCandidates, At, LoaderInv, AnswerKnows
    <3>3. asked' = asked /\ loadedBindings' = loadedBindings
      BY DEF ListCandidates
    <3>4. successfulLibraryPath = loadedBindings.path
      BY DEF ListCandidates, At, LoaderInv, LockHeld, PublishedKnows, Inside
    <3>5. Loaded => loadedBindings.path \in Paths
      BY DEF Loaded, LoaderInv, PublishedKnows
    <3>6. CASE pc'[c] = "open" \/ using[c]
      <4>1. verdict' = verdict /\ pc'[c] \in {"open", "unlock"}
        BY <3>6, <2>0 DEF ListCandidates, Fails, Goto
      <4>2. Outcome'[c] = Outcome[c]
        BY <3>6, <4>1, <2>0, <2>2, <2>3 DEF ListCandidates, At, Outcome
      <4> QED BY <4>2, <3>3, <2>4
    <3>7. CASE pc'[c] = "unlock" /\ ~using[c]
      <4>1. Outcome' = [Outcome EXCEPT ![c] = verdict'[c]]
        BY <2>2, <3>7
      <4>2. \/ verdict'[c] = "failed" /\ wanted = {}
            \/ verdict'[c] = "loaded" /\ loadedBindings.path \in wanted
            \/ verdict'[c] = "different" /\ loadedBindings.path \notin wanted
                 /\ loadedBindings.path # NoPath
        BY <3>1, <3>4, <3>5, <3>7, <2>0 DEF ListCandidates, Fails, Goto, Concludes
      <4>3. Once!Settle(c)
        BY <3>1, <3>2, <3>3, <4>1, <4>2 DEF Once!Settle, Outcome
      <4> QED BY <4>3 DEF Once!OnceNext
    <3> QED BY <3>6, <3>7, <2>0 DEF ListCandidates, Goto
  <2>8. ASSUME OpenFails(c) \/ ResolveFails(c), pc'[c] # "open", ~using[c]
        PROVE  Once!OnceNext
    <3> DEFINE wanted == {candidates[c][i] : i \in 1..Len(candidates[c])}
    <3>1. pc[c] \in {"open", "resolve"}
      BY <2>8 DEF OpenFails, ResolveFails, At
    <3>2. wanted \in SUBSET Paths /\ (asked[c] # NoPath => wanted = {asked[c]})
      <4>1. candidates[c] \in Seq(Paths) /\ asked[c] \in Paths \union {NoPath}
        BY DEF LoaderInv, LoaderTypeOK
      <4>2. asked[c] # NoPath => candidates[c] = <<asked[c]>>
        BY <3>1 DEF LoaderInv, LoopKnows
      <4> QED BY <4>1, <4>2, PathsListed
    <3>3. loadedBindings.path = NoPath
      BY <3>1 DEF LoaderInv, LoopKnows, Unloaded
    <3>4. Outcome[c] = "asking"
      BY <3>1, <2>3 DEF LoaderInv, AnswerKnows
    <3>5. verdict'[c] = "failed" /\ pc'[c] = "unlock"
      BY <2>8, <2>0 DEF OpenFails, ResolveFails, NextCandidate, Fails, Goto
    <3>6. asked' = asked /\ loadedBindings' = loadedBindings
      BY <2>8 DEF OpenFails, ResolveFails
    <3>7. Outcome' = [Outcome EXCEPT ![c] = "failed"]
      BY <2>2, <3>5
    <3>8. Once!Settle(c)
      BY <3>2, <3>3, <3>4, <3>6, <3>7 DEF Once!Settle, Outcome
    <3> QED BY <3>8 DEF Once!OnceNext
  <2>9. CASE Publish(c)
    <3> DEFINE wanted == {candidates[c][i] : i \in 1..Len(candidates[c])}
    <3>1. pc[c] = "resolve"
      BY <2>9 DEF Publish, At
    <3>2. wanted \in SUBSET Paths /\ (asked[c] # NoPath => wanted = {asked[c]})
      <4>1. candidates[c] \in Seq(Paths) /\ asked[c] \in Paths \union {NoPath}
        BY DEF LoaderInv, LoaderTypeOK
      <4>2. asked[c] # NoPath => candidates[c] = <<asked[c]>>
        BY <3>1 DEF LoaderInv, LoopKnows
      <4> QED BY <4>1, <4>2, PathsListed
    <3>3. loadedBindings.path = NoPath
      BY <3>1 DEF LoaderInv, LoopKnows, Unloaded
    <3>4. Outcome[c] = "asking"
      BY <3>1, <2>3 DEF LoaderInv, AnswerKnows
    <3>5. loadedBindings'.path \in wanted /\ asked' = asked
      BY <2>9, <3>1 DEF Publish, Current, LoaderInv, LoopKnows
    <3>6. Outcome' = [Outcome EXCEPT ![c] = "loaded"]
      BY <2>2, <2>9, <2>0 DEF Publish, Goto
    <3>7. Once!Settle(c)
      BY <3>2, <3>3, <3>4, <3>5, <3>6 DEF Once!Settle, Outcome
    <3> QED BY <3>7 DEF Once!OnceNext
  <2>10. CASE Unlock(c) \/ ReturnBindings(c)
    <3>1. Outcome[c] \in {"loaded", "different", "failed"}
      BY <2>10, <2>3 DEF Unlock, ReturnBindings, At, LoaderInv, AnswerKnows, Settled
    <3>2. Outcome' = [Outcome EXCEPT ![c] = "idle"]
      BY <2>2, <2>10, <2>0 DEF Unlock, ReturnBindings, ForgetCall, Goto, Concludes
    <3>3. asked' = [asked EXCEPT ![c] = NoPath] /\ loadedBindings' = loadedBindings
      BY <2>10 DEF Unlock, ReturnBindings, ForgetCall
    <3>4. Once!Answer(c)
      BY <3>1, <3>2, <3>3 DEF Once!Answer, Outcome
    <3> QED BY <3>4 DEF Once!OnceNext
  <2>11. CASE Reread(c)
    <3>1. /\ pc[c] = "reread" /\ using[c] /\ asked[c] = NoPath
          /\ asked' = asked /\ loadedBindings' = loadedBindings
      BY <2>11 DEF Reread, At, LoaderInv, AnswerKnows, LoopKnows
    <3>2. Outcome' = [Outcome EXCEPT ![c] = IF Loaded THEN "loaded" ELSE "failed"]
      BY <2>2, <2>11, <2>0 DEF Reread, Goto, Concludes
    <3>3. Outcome[c] = verdict[c]
      BY <3>1, <2>3
    <3>4. Outcome[c] = "asking" \/ (Outcome[c] = "loaded" /\ Loaded)
      BY <3>1, <3>3 DEF LoaderInv, AnswerKnows
    <3>5. CASE Outcome[c] = "loaded" /\ Loaded
      <4>1. Outcome'[c] = Outcome[c]
        BY <3>2, <3>5 DEF Outcome
      <4> QED BY <4>1, <3>1, <2>4
    <3>6. CASE Outcome[c] = "asking"
      <4>1. Loaded => loadedBindings.path \in Paths
        BY DEF Loaded, LoaderInv, PublishedKnows
      <4>2. ~Loaded => loadedBindings.path = NoPath
        BY DEF Loaded, Unloaded
      <4>3. CASE Loaded
        <5>1. {loadedBindings.path} \in SUBSET Paths
          BY <4>1, <4>3
        <5>2. Outcome' = [Outcome EXCEPT ![c] = "loaded"]
          BY <3>2, <4>3
        <5>3. Once!Settle(c)
          BY <5>1, <5>2, <3>1, <3>6 DEF Once!Settle, Outcome
        <5> QED BY <5>3 DEF Once!OnceNext
      <4>4. CASE ~Loaded
        <5>1. Outcome' = [Outcome EXCEPT ![c] = "failed"]
          BY <3>2, <4>4
        <5>2. Once!Settle(c)
          BY <5>1, <4>2, <4>4, <3>1, <3>6 DEF Once!Settle, Outcome
        <5> QED BY <5>2 DEF Once!OnceNext
      <4> QED BY <4>3, <4>4
    <3> QED BY <3>4, <3>5, <3>6
  <2>12. CASE OpenFails(c) \/ ResolveFails(c)
    <3>1. CASE pc'[c] = "open" \/ using[c]
      BY <2>12, <3>1, <2>6
    <3>2. CASE pc'[c] # "open" /\ ~using[c]
      BY <2>12, <3>2, <2>8
    <3> QED BY <3>1, <3>2
  <2>13. CASE \/ Lock(c) \/ SkipAutomatic(c) \/ Open(c) \/ Resolve(c) \/ RecordPath(c)
              \/ UnlockUsing(c)
    BY <2>13, <2>6
  <2>14. CASE \/ LoadLibrary(c) \/ UseBindings(c) \/ ListCandidates(c) \/ Publish(c)
              \/ Unlock(c) \/ ReturnBindings(c)
    BY <2>14, <2>5, <2>7, <2>9, <2>10
  <2> QED BY <1>2, <2>11, <2>12, <2>13, <2>14 DEF LoaderStep
<1> QED BY <1>1, <1>2 DEF LoaderNext

\* Loading implements the single step of LibraryOnce.
THEOREM LoadingIsOneStep == LoaderSpec => LoadsOnce
<1>1. LoaderInit => Once!OnceInit
  BY DEF LoaderInit, Once!OnceInit, Unloaded
<1>2. QED
  BY <1>1, LoaderInvariant, LoaderRefines, PTL DEF LoaderSpec, LoadsOnce, Once!OnceSpec

-----------------------------------------------------------------------------
(***************************************************************************)
(* Call frames.  A call holds the frame it took until it puts it back, and *)
(* nobody else holds it meanwhile: that is why what it finds there is its  *)
(* own.                                                                    *)
(***************************************************************************)
FrameStages == {"enter", "native", "readBack", "put", "decode", "freeing", "return"}
SlotValues  == CallIds \union {Stale, Zero}
CallsOfWrapper(w) ==
  [call : {w}, stage : FrameStages, frame : CallFrame \union {"none"}, ok : BOOLEAN,
   got : [1..w.outs -> SlotValues]]
FrameCalls == UNION {CallsOfWrapper(w) : w \in WrappersCalled}

FrameTypes ==
  /\ pool \subseteq CallFrame
  /\ args \in [CallFrame -> [1..FrameArgs -> SlotValues]]
  /\ outs \in [CallFrame -> [1..FrameOuts -> SlotValues]]
  /\ stack \in [FrameGoroutines -> Seq(FrameCalls)]
  /\ \A g \in FrameGoroutines : Depth(g) <= MaxNested
  /\ buffers \subseteq CallIds

\* The calls that hold a frame, and those that have memory to free.
HoldsFrame(c)  == c.stage \in {"native", "readBack", "put", "freeing"}
Releases(c)    == c.ok /\ c.call.how \in {"owned", "view"}
HoldsBuffer(c) == c.stage \in {"readBack", "put", "decode", "freeing"} /\ Releases(c)

\* What call id finds in its frame, has read back, and has to free.
FrameIsOwn(id, c) ==
  HoldsFrame(c) =>
    /\ c.frame \in CallFrame \ pool
    /\ c.stage \in {"native", "readBack"} => \A i \in 1..c.call.args : args[c.frame][i] = id
    /\ c.stage = "freeing" =>
         Releases(c) /\ \A i \in 1..c.call.freeArgs : args[c.frame][i] = id
    /\ c.stage = "native" => \A i \in 1..c.call.outs : outs[c.frame][i] = Zero
    /\ c.stage = "readBack" =>
         \A i \in 1..c.call.outs : outs[c.frame][i] = IF c.ok THEN id ELSE Zero

ResultIsOwn(id, c) ==
  /\ c.stage \in {"enter", "native"} => \A i \in 1..c.call.outs : c.got[i] = Zero
  /\ c.stage \in {"put", "decode", "freeing", "return"} =>
       \A i \in 1..c.call.outs : c.got[i] = IF c.ok THEN id ELSE Zero

FramesApart ==
  \A id, other \in Underway :
    /\ id # other /\ HoldsFrame(CallOf(id)) /\ HoldsFrame(CallOf(other))
    => CallOf(id).frame # CallOf(other).frame

FramesInv ==
  /\ FrameTypes
  /\ \A id \in Underway : FrameIsOwn(id, CallOf(id)) /\ ResultIsOwn(id, CallOf(id))
  /\ FramesApart
  /\ \A id \in CallIds : id \in buffers <=> id \in Underway /\ HoldsBuffer(CallOf(id))

\* A call is known by where it is in the stacks.
LEMMA UnderwayCalls ==
  ASSUME FrameTypes
  PROVE  /\ \A id : id \in Underway <=>
                      /\ id = <<id[1], id[2]>> /\ id[1] \in FrameGoroutines
                      /\ id[2] \in 1..Depth(id[1])
         /\ Underway \subseteq CallIds
         /\ \A id \in Underway : CallOf(id) \in FrameCalls
         /\ \A g \in FrameGoroutines :
              Depth(g) > 0 => Self(g) \in Underway /\ Top(g) = CallOf(Self(g))
  <1> USE DEF FrameTypes, Depth
  <1>0. \A g \in FrameGoroutines : Depth(g) \in 0..MaxNested /\ stack[g] \in Seq(FrameCalls)
    BY FramesAssumption
  <1>1. ASSUME NEW id
        PROVE  id \in Underway <=>
                 /\ id = <<id[1], id[2]>> /\ id[1] \in FrameGoroutines
                 /\ id[2] \in 1..Depth(id[1])
    BY DEF Underway, CallsIn
  <1>2. Underway \subseteq CallIds
    BY <1>0, <1>1, FramesAssumption DEF CallIds
  <1>3. \A id \in Underway : CallOf(id) \in FrameCalls
    BY <1>0, <1>1 DEF CallOf
  <1>4. ASSUME NEW g \in FrameGoroutines, Depth(g) > 0
        PROVE  Self(g) \in Underway /\ Top(g) = CallOf(Self(g))
    <2>1. Self(g) = <<g, Depth(g)>> /\ Self(g)[1] = g /\ Self(g)[2] = Depth(g)
      BY DEF Self
    <2>2. Depth(g) \in 1..Depth(g)
      BY <1>0, <1>4
    <2> QED
      BY <2>1, <2>2, <1>1 DEF CallOf, Top
  <1> QED
    BY <1>1, <1>2, <1>3, <1>4

\* What a step on the innermost call of g does to the calls under way.
LEMMA TopReplaced ==
  ASSUME FrameTypes, NEW g \in FrameGoroutines, Depth(g) > 0, NEW me, me = Self(g),
         NEW call \in FrameCalls, SetTop(g, call)
  PROVE  /\ Underway' = Underway
         /\ CallOf(me)' = call
         /\ \A id \in Underway : id # me => CallOf(id)' = CallOf(id)
         /\ stack' \in [FrameGoroutines -> Seq(FrameCalls)]
         /\ \A h \in FrameGoroutines : Depth(h)' = Depth(h)
  <1>1. stack[g] \in Seq(FrameCalls) /\ Depth(g) \in 1..Len(stack[g])
    BY DEF FrameTypes, Depth
  <1>2. [stack[g] EXCEPT ![Depth(g)] = call] \in Seq(FrameCalls)
    BY <1>1, ExceptSeq
  <1>3. stack' = [stack EXCEPT ![g] = [stack[g] EXCEPT ![Depth(g)] = call]]
    BY DEF SetTop, FrameTypes
  <1>4. \A h \in FrameGoroutines :
          stack'[h] = IF h = g THEN [stack[g] EXCEPT ![Depth(g)] = call] ELSE stack[h]
    BY <1>3 DEF FrameTypes
  <1>5. stack' \in [FrameGoroutines -> Seq(FrameCalls)]
    BY <1>2, <1>3 DEF FrameTypes
  <1>6. Len([stack[g] EXCEPT ![Depth(g)] = call]) = Len(stack[g])
    BY <1>1, ExceptSeq
  <1>7. \A h \in FrameGoroutines : Depth(h)' = Depth(h)
    BY <1>4, <1>6 DEF Depth
  <1>8. Underway' = Underway
    BY <1>7 DEF Underway, CallsIn
  <1>9. me[1] = g /\ me[2] = Depth(g)
    BY DEF Self
  <1>10. CallOf(me)' = call
    BY <1>1, <1>4, <1>9 DEF CallOf
  <1>11. ASSUME NEW id \in Underway, id # me PROVE CallOf(id)' = CallOf(id)
    <2>1. id = <<id[1], id[2]>> /\ id[1] \in FrameGoroutines /\ id[2] \in 1..Depth(id[1])
      BY UnderwayCalls
    <2>2. id[1] = g => id[2] # Depth(g)
      BY <1>11, <2>1 DEF Self
    <2> QED
      BY <1>1, <1>4, <2>1, <2>2 DEF CallOf
  <1> QED
    BY <1>5, <1>7, <1>8, <1>10, <1>11

\* A call that begins is one more, and one that returns was the innermost.
LEMMA CallPushed ==
  ASSUME FrameTypes, NEW g \in FrameGoroutines, NEW call \in FrameCalls,
         stack' = [stack EXCEPT ![g] = Append(@, call)],
         NEW me, me = <<g, Depth(g) + 1>>
  PROVE  /\ Underway' = Underway \union {me} /\ me \notin Underway
         /\ CallOf(me)' = call
         /\ \A id \in Underway : CallOf(id)' = CallOf(id)
         /\ stack' \in [FrameGoroutines -> Seq(FrameCalls)]
         /\ \A h \in FrameGoroutines : Depth(h)' = IF h = g THEN Depth(g) + 1 ELSE Depth(h)
  <1>1. stack[g] \in Seq(FrameCalls)
    BY DEF FrameTypes
  <1>2. /\ Append(stack[g], call) \in Seq(FrameCalls)
        /\ Len(Append(stack[g], call)) = Len(stack[g]) + 1
        /\ \A i \in 1..Len(stack[g]) : Append(stack[g], call)[i] = stack[g][i]
        /\ Append(stack[g], call)[Len(stack[g]) + 1] = call
    BY <1>1, AppendProperties
  <1>3. \A h \in FrameGoroutines :
          stack'[h] = IF h = g THEN Append(stack[g], call) ELSE stack[h]
    BY DEF FrameTypes
  <1>4. stack' \in [FrameGoroutines -> Seq(FrameCalls)]
    BY <1>2 DEF FrameTypes
  <1>5. \A h \in FrameGoroutines : Depth(h)' = IF h = g THEN Depth(g) + 1 ELSE Depth(h)
    <2>1. Len(stack'[g]) = Len(stack[g]) + 1
      BY <1>2, <1>3
    <2>2. \A h \in FrameGoroutines : h # g => Len(stack'[h]) = Len(stack[h])
      BY <1>3
    <2> QED
      BY <2>1, <2>2 DEF Depth
  <1>6. Depth(g) \in Nat /\ \A h \in FrameGoroutines : Depth(h) \in Nat
    BY DEF FrameTypes, Depth
  <1>7. \A id : id \in Underway' <=> /\ id = <<id[1], id[2]>> /\ id[1] \in FrameGoroutines
                                     /\ id[2] \in 1..(Depth(id[1])')
    BY DEF Underway, CallsIn
  <1>8. Underway' = Underway \union {me} /\ me \notin Underway
    <2>1. me[1] = g /\ me[2] = Depth(g) + 1 /\ me \notin Underway /\ me \in Underway'
      BY <1>5, <1>6, <1>7, UnderwayCalls
    <2>2. ASSUME NEW id PROVE id \in Underway' <=> id \in Underway \/ id = me
      <3>1. CASE id[1] = g
        BY <1>5, <1>6, <1>7, <2>1, <3>1, UnderwayCalls
      <3>2. CASE id[1] # g
        BY <1>5, <1>6, <1>7, <2>1, <3>2, UnderwayCalls
      <3> QED
        BY <3>1, <3>2
    <2> QED
      BY <2>1, <2>2
  <1>9. CallOf(me)' = call
    BY <1>2, <1>3 DEF CallOf, Depth
  <1>10. ASSUME NEW id \in Underway PROVE CallOf(id)' = CallOf(id)
    BY <1>2, <1>3, UnderwayCalls DEF CallOf, Depth
  <1> QED
    BY <1>4, <1>5, <1>8, <1>9, <1>10

LEMMA CallPopped ==
  ASSUME FrameTypes, NEW g \in FrameGoroutines, Depth(g) > 0, NEW me, me = Self(g),
         stack' = [stack EXCEPT ![g] = SubSeq(@, 1, Len(@) - 1)]
  PROVE  /\ Underway' = Underway \ {me}
         /\ \A id \in Underway' : CallOf(id)' = CallOf(id)
         /\ stack' \in [FrameGoroutines -> Seq(FrameCalls)]
         /\ \A h \in FrameGoroutines : Depth(h)' = IF h = g THEN Depth(g) - 1 ELSE Depth(h)
  <1>1. stack[g] \in Seq(FrameCalls) /\ Len(stack[g]) \in Nat \ {0}
    BY DEF FrameTypes, Depth
  <1> DEFINE rest == SubSeq(stack[g], 1, Len(stack[g]) - 1)
  <1>2. /\ rest \in Seq(FrameCalls) /\ Len(rest) = Len(stack[g]) - 1
        /\ \A i \in 1..(Len(stack[g]) - 1) : rest[i] = stack[g][i]
    BY <1>1
  <1> HIDE DEF rest
  <1>3. \A h \in FrameGoroutines : stack'[h] = IF h = g THEN rest ELSE stack[h]
    BY DEF FrameTypes, rest
  <1>4. stack' \in [FrameGoroutines -> Seq(FrameCalls)]
    BY <1>2 DEF FrameTypes, rest
  <1>5. \A h \in FrameGoroutines : Depth(h)' = IF h = g THEN Depth(g) - 1 ELSE Depth(h)
    BY <1>2, <1>3 DEF Depth
  <1>6. \A h \in FrameGoroutines : Depth(h) \in Nat
    BY DEF FrameTypes, Depth
  <1>7. \A id : id \in Underway' <=> /\ id = <<id[1], id[2]>> /\ id[1] \in FrameGoroutines
                                     /\ id[2] \in 1..(Depth(id[1])')
    BY DEF Underway, CallsIn
  <1>8. Underway' = Underway \ {me}
    <2>1. me = <<g, Depth(g)>> /\ me[1] = g /\ me[2] = Depth(g)
      BY DEF Self
    <2>2. ASSUME NEW id PROVE id \in Underway' <=> id \in Underway /\ id # me
      <3>1. CASE id[1] = g
        BY <1>5, <1>6, <1>7, <2>1, <3>1, UnderwayCalls
      <3>2. CASE id[1] # g
        BY <1>5, <1>6, <1>7, <2>1, <3>2, UnderwayCalls
      <3> QED
        BY <3>1, <3>2
    <2> QED
      BY <2>2
  <1>9. ASSUME NEW id \in Underway' PROVE CallOf(id)' = CallOf(id)
    BY <1>2, <1>3, <1>5, <1>7 DEF CallOf, Depth
  <1> QED
    BY <1>4, <1>5, <1>8, <1>9

\* A step that changes the innermost call of a goroutine keeps the invariant
\* when it leaves the frames of the other calls alone and its own call is sound.
LEMMA OwnStepIsEnough ==
  ASSUME FramesInv, NEW g \in FrameGoroutines, Depth(g) > 0, NEW me, me = Self(g),
         NEW call \in FrameCalls, SetTop(g, call),
         pool' \subseteq CallFrame,
         args' \in [CallFrame -> [1..FrameArgs -> SlotValues]],
         outs' \in [CallFrame -> [1..FrameOuts -> SlotValues]],
         \A id \in Underway : id # me /\ HoldsFrame(CallOf(id)) =>
           /\ args'[CallOf(id).frame] = args[CallOf(id).frame]
           /\ outs'[CallOf(id).frame] = outs[CallOf(id).frame]
           /\ CallOf(id).frame \notin pool'
           /\ HoldsFrame(call) => call.frame # CallOf(id).frame,
         FrameIsOwn(me, call)', ResultIsOwn(me, call),
         buffers' \subseteq CallIds,
         \A id : id # me => (id \in buffers' <=> id \in buffers),
         me \in buffers' <=> HoldsBuffer(call)
  PROVE  FramesInv'
  <1> USE DEF FramesInv
  <1>1. /\ Underway' = Underway /\ CallOf(me)' = call
        /\ \A id \in Underway : id # me => CallOf(id)' = CallOf(id)
        /\ stack' \in [FrameGoroutines -> Seq(FrameCalls)]
        /\ \A h \in FrameGoroutines : Depth(h)' = Depth(h)
    BY TopReplaced
  <1>2. me \in Underway /\ me \in CallIds /\ Underway \subseteq CallIds
    BY UnderwayCalls
  <1>3. FrameTypes'
    BY <1>1 DEF FrameTypes
  <1>4. \A id \in Underway' : (FrameIsOwn(id, CallOf(id)) /\ ResultIsOwn(id, CallOf(id)))'
    <2> SUFFICES ASSUME NEW id \in Underway, id # me
                 PROVE  (FrameIsOwn(id, CallOf(id)) /\ ResultIsOwn(id, CallOf(id)))'
      BY <1>1 DEF ResultIsOwn
    <2>1. FrameIsOwn(id, CallOf(id)) /\ ResultIsOwn(id, CallOf(id)) /\ CallOf(id)' = CallOf(id)
      BY <1>1
    <2>2. ResultIsOwn(id, CallOf(id))'
      BY <2>1 DEF ResultIsOwn
    <2>3. FrameIsOwn(id, CallOf(id))'
      BY <2>1 DEF FrameIsOwn, HoldsFrame
    <2> QED
      BY <2>2, <2>3
  <1>5. FramesApart'
    <2> SUFFICES ASSUME NEW id \in Underway, NEW other \in Underway, id # other,
                        HoldsFrame(CallOf(id)'), HoldsFrame(CallOf(other)')
                 PROVE  CallOf(id)'.frame # CallOf(other)'.frame
      BY <1>1 DEF FramesApart, HoldsFrame
    <2>1. CASE id = me
      BY <1>1, <2>1
    <2>2. CASE other = me
      BY <1>1, <2>2
    <2>3. CASE id # me /\ other # me
      BY <1>1, <2>3 DEF FramesApart
    <2> QED
      BY <2>1, <2>2, <2>3
  <1>6. \A id \in CallIds : id \in buffers' <=> id \in Underway' /\ HoldsBuffer(CallOf(id)')
    BY <1>1, <1>2
  <1> QED
    BY <1>3, <1>4, <1>5, <1>6 DEF HoldsBuffer, Releases

\* A call keeps the wrapper it was made for.
LEMMA CallFields ==
  ASSUME NEW c \in FrameCalls
  PROVE  /\ c.call \in WrappersCalled /\ c.stage \in FrameStages
         /\ c.frame \in CallFrame \union {"none"} /\ c.ok \in BOOLEAN
         /\ c.got \in [1..c.call.outs -> SlotValues]
         /\ c \in CallsOfWrapper(c.call) /\ CallsOfWrapper(c.call) \subseteq FrameCalls
  BY DEF FrameCalls, CallsOfWrapper

\* The bounds the frames have, and how many results a call reads.
LEMMA WrapperBounds ==
  ASSUME NEW w \in WrappersCalled
  PROVE  /\ w.args \in 0..FrameArgs /\ w.freeArgs \in 0..FrameArgs /\ w.outs \in 0..FrameOuts
         /\ w.how \in {"owned", "view"} => w.outs > 0
         /\ \A given \in [1..w.outs -> SlotValues] : Len(given) = w.outs
  <1>1. /\ w.args \in 0..FrameArgs /\ w.freeArgs \in 0..FrameArgs /\ w.outs \in 0..FrameOuts
        /\ w.how \in {"owned", "view"} => w.outs > 0
    BY FramesAssumption
  <1>2. ASSUME NEW given \in [1..w.outs -> SlotValues] PROVE Len(given) = w.outs
    <2>1. w.outs \in Nat
      BY <1>1, FramesAssumption
    <2>2. given \in Seq(SlotValues)
      BY <2>1, SeqDef
    <2> QED
      BY <2>1, <2>2, LenProperties
  <1> QED
    BY <1>1, <1>2

\* The call of a goroutine that is inside a wrapper.
LEMMA TopCall ==
  ASSUME FramesInv, NEW g \in FrameGoroutines, Depth(g) > 0, NEW me, me = Self(g)
  PROVE  /\ me \in Underway /\ me \in CallIds /\ me # Zero /\ me # Stale
         /\ Top(g) = CallOf(me) /\ Top(g) \in FrameCalls
         /\ FrameIsOwn(me, Top(g)) /\ ResultIsOwn(me, Top(g))
         /\ me \in buffers <=> HoldsBuffer(Top(g))
  <1>1. /\ me \in Underway /\ me \in CallIds
        /\ Top(g) = CallOf(me) /\ Top(g) \in FrameCalls
    BY UnderwayCalls DEF FramesInv
  <1>2. me # Zero /\ me # Stale
    BY <1>1, FramesAssumption DEF CallIds, Zero, Stale
  <1> QED
    BY <1>1, <1>2 DEF FramesInv

LEMMA FramesInitInv == FramesInit => FramesInv
  <1> SUFFICES ASSUME FramesInit PROVE FramesInv
    OBVIOUS
  <1>1. \A g \in FrameGoroutines : stack[g] = <<>> /\ Depth(g) = 0
    BY DEF FramesInit, Depth
  <1>2. Underway = {}
    BY <1>1 DEF Underway, CallsIn
  <1>3. FrameTypes
    BY <1>1, FramesAssumption DEF FramesInit, FrameTypes, SlotValues
  <1> QED
    BY <1>2, <1>3 DEF FramesInit, FramesInv, FramesApart

LEMMA CallWrapperInv ==
  ASSUME FramesInv, NEW g \in FrameGoroutines, CallWrapper(g) PROVE FramesInv'
  <1> USE DEF FramesInv
  <1>1. PICK w \in WrappersCalled :
          stack' = [stack EXCEPT ![g] = Append(@,
            [call |-> w, stage |-> "enter", frame |-> "none", ok |-> FALSE,
             got |-> [i \in 1..w.outs |-> Zero]])]
    BY DEF CallWrapper
  <1>2. PICK call : call = [call |-> w, stage |-> "enter", frame |-> "none", ok |-> FALSE,
                            got |-> [i \in 1..w.outs |-> Zero]]
    OBVIOUS
  <1>3. call \in FrameCalls
    BY <1>2 DEF FrameCalls, CallsOfWrapper, FrameStages, SlotValues
  <1>4. PICK me : me = <<g, Depth(g) + 1>>
    OBVIOUS
  <1>5. /\ Underway' = Underway \union {me} /\ me \notin Underway
        /\ CallOf(me)' = call
        /\ \A id \in Underway : CallOf(id)' = CallOf(id)
        /\ stack' \in [FrameGoroutines -> Seq(FrameCalls)]
        /\ \A h \in FrameGoroutines : Depth(h)' = IF h = g THEN Depth(g) + 1 ELSE Depth(h)
    BY <1>1, <1>2, <1>3, <1>4, CallPushed, ZenonT(40)
  <1>6. UNCHANGED <<pool, args, outs, buffers>> /\ Depth(g) < MaxNested
    BY DEF CallWrapper
  <1>7. FrameTypes'
    BY <1>5, <1>6, FramesAssumption DEF FrameTypes, Depth
  <1>8. FrameIsOwn(me, call)' /\ ResultIsOwn(me, call) /\ ~HoldsBuffer(call) /\ ~HoldsFrame(call)
    BY <1>2 DEF FrameIsOwn, ResultIsOwn, HoldsFrame, HoldsBuffer
  <1>9. \A id \in Underway' : (FrameIsOwn(id, CallOf(id)) /\ ResultIsOwn(id, CallOf(id)))'
    BY <1>5, <1>6, <1>8 DEF FrameIsOwn, ResultIsOwn, HoldsFrame
  <1>10. FramesApart'
    BY <1>5, <1>8 DEF FramesApart, HoldsFrame
  <1>11. \A id \in CallIds : id \in buffers' <=> id \in Underway' /\ HoldsBuffer(CallOf(id)')
    BY <1>5, <1>6, <1>8
  <1> QED
    BY <1>7, <1>9, <1>10, <1>11 DEF HoldsBuffer, Releases

LEMMA ReturnWrapperInv ==
  ASSUME FramesInv, NEW g \in FrameGoroutines, ReturnWrapper(g) PROVE FramesInv'
  <1> USE DEF FramesInv
  <1>1. Depth(g) > 0 /\ Top(g).stage = "return" /\ UNCHANGED <<pool, args, outs, buffers>>
    BY DEF ReturnWrapper, TopAt
  <1>2. PICK me : me = Self(g)
    OBVIOUS
  <1>3. me \notin buffers
    BY <1>1, <1>2, TopCall DEF HoldsBuffer
  <1>4. /\ Underway' = Underway \ {me}
        /\ \A id \in Underway' : CallOf(id)' = CallOf(id)
        /\ stack' \in [FrameGoroutines -> Seq(FrameCalls)]
        /\ \A h \in FrameGoroutines : Depth(h)' = IF h = g THEN Depth(g) - 1 ELSE Depth(h)
    BY <1>1, <1>2, CallPopped DEF ReturnWrapper
  <1>5. FrameTypes'
    BY <1>1, <1>4, FramesAssumption DEF FrameTypes, Depth
  <1>6. \A id \in Underway' : (FrameIsOwn(id, CallOf(id)) /\ ResultIsOwn(id, CallOf(id)))'
    BY <1>1, <1>4 DEF FrameIsOwn, ResultIsOwn, HoldsFrame
  <1>7. FramesApart'
    BY <1>4 DEF FramesApart, HoldsFrame
  <1>8. \A id \in CallIds : id \in buffers' <=> id \in Underway' /\ HoldsBuffer(CallOf(id)')
    BY <1>1, <1>3, <1>4
  <1> QED
    BY <1>5, <1>6, <1>7, <1>8 DEF HoldsBuffer, Releases

\* The frames of the other calls are not in the pool, nor this call's.
LEMMA OthersFrames ==
  ASSUME FramesInv, NEW me \in Underway, NEW id \in Underway, id # me, HoldsFrame(CallOf(id))
  PROVE  /\ CallOf(id).frame \in CallFrame \ pool
         /\ HoldsFrame(CallOf(me)) => CallOf(id).frame # CallOf(me).frame
  BY DEF FramesInv, FrameIsOwn, FramesApart

LEMMA EnterFnInv ==
  ASSUME FramesInv, NEW g \in FrameGoroutines, EnterFn(g) PROVE FramesInv'
  <1>1. Depth(g) > 0 /\ Top(g).stage = "enter"
    BY DEF EnterFn, TopAt
  <1>2. PICK me : me = Self(g)
    OBVIOUS
  <1>3. PICK c : c = Top(g)
    OBVIOUS
  <1>4. PICK f \in pool :
          /\ pool' = pool \ {f}
          /\ LayOut(g, f, c.call.args, c.got)
          /\ SetTop(g, [c EXCEPT !.stage = "native", !.frame = f])
    BY <1>3 DEF EnterFn
  <1>5. PICK call : call = [c EXCEPT !.stage = "native", !.frame = f]
    OBVIOUS
  <1>6. /\ me \in Underway /\ me \in CallIds /\ me # Zero /\ c = CallOf(me) /\ c \in FrameCalls
        /\ FrameIsOwn(me, c) /\ ResultIsOwn(me, c) /\ (me \in buffers <=> HoldsBuffer(c))
    BY <1>1, <1>2, <1>3, TopCall
  <1>7. /\ f \in CallFrame /\ call \in FrameCalls
        /\ call.call = c.call /\ call.stage = "native" /\ call.frame = f /\ call.got = c.got
        /\ c.got \in [1..c.call.outs -> SlotValues] /\ c.call \in WrappersCalled
    <2>1. c \in CallsOfWrapper(c.call) /\ CallsOfWrapper(c.call) \subseteq FrameCalls
      BY <1>6, CallFields
    <2>2. f \in CallFrame /\ "native" \in FrameStages
      BY <1>4 DEF FrameStages, FramesInv, FrameTypes
    <2>3. /\ call \in CallsOfWrapper(c.call)
          /\ call.call = c.call /\ call.stage = "native" /\ call.frame = f /\ call.got = c.got
      BY <1>5, <2>1, <2>2 DEF CallsOfWrapper
    <2> QED
      BY <1>6, <2>1, <2>2, <2>3, CallFields
  <1>8. c.call.args \in 0..FrameArgs /\ c.call.outs \in 0..FrameOuts /\ Len(c.got) = c.call.outs
    BY <1>7, WrapperBounds
  <1>9. /\ args' = [args EXCEPT ![f] =
                     [i \in 1..FrameArgs |-> IF i <= c.call.args THEN me ELSE args[f][i]]]
        /\ outs' = [outs EXCEPT ![f] =
                     [i \in 1..FrameOuts |-> IF i <= c.call.outs THEN c.got[i] ELSE outs[f][i]]]
    BY <1>2, <1>4, <1>7, <1>8 DEF LayOut, FramesInv, FrameTypes
  <1>10. /\ args' \in [CallFrame -> [1..FrameArgs -> SlotValues]]
         /\ outs' \in [CallFrame -> [1..FrameOuts -> SlotValues]]
    <2>1. args[f] \in [1..FrameArgs -> SlotValues] /\ outs[f] \in [1..FrameOuts -> SlotValues]
      BY <1>7 DEF FramesInv, FrameTypes
    <2>2. me \in SlotValues /\ \A i \in 1..c.call.outs : c.got[i] \in SlotValues
      BY <1>6, <1>7 DEF SlotValues
    <2>3. [i \in 1..FrameArgs |-> IF i <= c.call.args THEN me ELSE args[f][i]]
            \in [1..FrameArgs -> SlotValues]
      BY <2>1, <2>2
    <2>4. [i \in 1..FrameOuts |-> IF i <= c.call.outs THEN c.got[i] ELSE outs[f][i]]
            \in [1..FrameOuts -> SlotValues]
      BY <1>8, <2>1, <2>2, FramesAssumption
    <2> QED
      BY <1>9, <2>3, <2>4 DEF FramesInv, FrameTypes
  <1>11. /\ \A i \in 1..c.call.args : args'[f][i] = me
         /\ \A i \in 1..c.call.outs : outs'[f][i] = Zero
    <2>1. \A i \in 1..c.call.outs : c.got[i] = Zero
      BY <1>1, <1>3, <1>6 DEF ResultIsOwn
    <2> QED
      BY <1>7, <1>8, <1>9, <2>1, FramesAssumption DEF FramesInv, FrameTypes
  <1>12. \A h \in CallFrame : h # f => args'[h] = args[h] /\ outs'[h] = outs[h]
    BY <1>9 DEF FramesInv, FrameTypes
  <1>13. FrameIsOwn(me, call)' /\ ResultIsOwn(me, call)
    BY <1>1, <1>3, <1>4, <1>6, <1>7, <1>11 DEF FrameIsOwn, ResultIsOwn
  <1>14. buffers' = buffers /\ me \notin buffers /\ ~HoldsBuffer(call)
    BY <1>1, <1>3, <1>6, <1>7 DEF EnterFn, HoldsBuffer
  <1>15. \A id \in Underway : id # me /\ HoldsFrame(CallOf(id)) =>
           /\ args'[CallOf(id).frame] = args[CallOf(id).frame]
           /\ outs'[CallOf(id).frame] = outs[CallOf(id).frame]
           /\ CallOf(id).frame \notin pool'
           /\ HoldsFrame(call) => call.frame # CallOf(id).frame
    BY <1>4, <1>6, <1>7, <1>12, OthersFrames
  <1>16. SetTop(g, call)
    BY <1>4, <1>5
  <1>17. pool' \subseteq CallFrame /\ buffers' \subseteq CallIds
    BY <1>4, <1>14 DEF FramesInv, FrameTypes
  <1> QED
    BY <1>1, <1>2, <1>7, <1>10, <1>13, <1>14, <1>15, <1>16, <1>17, OwnStepIsEnough

LEMMA NativeDoneInv ==
  ASSUME FramesInv, NEW g \in FrameGoroutines, NativeDone(g) PROVE FramesInv'
  <1>1. Depth(g) > 0 /\ Top(g).stage = "native" /\ UNCHANGED <<pool, args>>
    BY DEF NativeDone, TopAt
  <1>2. PICK me : me = Self(g)
    OBVIOUS
  <1>3. PICK c : c = Top(g)
    OBVIOUS
  <1>4. PICK f : f = c.frame
    OBVIOUS
  <1>5. /\ me \in Underway /\ me \in CallIds /\ me # Zero /\ c = CallOf(me) /\ c \in FrameCalls
        /\ FrameIsOwn(me, c) /\ ResultIsOwn(me, c) /\ (me \in buffers <=> HoldsBuffer(c))
    BY <1>1, <1>2, <1>3, TopCall
  <1>6. HoldsFrame(c) /\ f \in CallFrame \ pool /\ me \notin buffers
    BY <1>1, <1>3, <1>4, <1>5 DEF FrameIsOwn, HoldsFrame, HoldsBuffer
  <1>7. /\ c \in CallsOfWrapper(c.call) /\ CallsOfWrapper(c.call) \subseteq FrameCalls
        /\ c.got \in [1..c.call.outs -> SlotValues] /\ c.call \in WrappersCalled
        /\ c.call.outs \in 0..FrameOuts
    BY <1>4, <1>5, CallFields, WrapperBounds
  <1>10. /\ pool \subseteq CallFrame /\ buffers \subseteq CallIds
         /\ args \in [CallFrame -> [1..FrameArgs -> SlotValues]]
         /\ outs \in [CallFrame -> [1..FrameOuts -> SlotValues]]
    BY DEF FramesInv, FrameTypes
  <1>8. CASE /\ UNCHANGED <<outs, buffers>>
             /\ SetTop(g, [c EXCEPT !.stage = "readBack", !.ok = FALSE])
    <2>1. PICK call : call = [c EXCEPT !.stage = "readBack", !.ok = FALSE]
      OBVIOUS
    <2>2. /\ call \in FrameCalls /\ call.call = c.call /\ call.stage = "readBack"
          /\ call.frame = f /\ call.ok = FALSE /\ call.got = c.got
      BY <1>4, <1>7, <2>1 DEF CallsOfWrapper, FrameStages
    <2>3. FrameIsOwn(me, call)' /\ ResultIsOwn(me, call) /\ ~HoldsBuffer(call)
      BY <1>1, <1>3, <1>4, <1>5, <1>6, <1>8, <2>2, ZenonT(40)
         DEF FrameIsOwn, ResultIsOwn, HoldsFrame, HoldsBuffer, Releases
    <2>4. \A id \in Underway : id # me /\ HoldsFrame(CallOf(id)) =>
            /\ CallOf(id).frame \notin pool'
            /\ HoldsFrame(call) => call.frame # CallOf(id).frame
      BY <1>1, <1>4, <1>5, <1>6, <2>2, OthersFrames
    <2>5. SetTop(g, call)
      BY <1>8, <2>1
    <2> QED
      BY <1>1, <1>2, <1>6, <1>8, <1>10, <2>2, <2>3, <2>4, <2>5, OwnStepIsEnough
  <1>9. CASE /\ outs' = [outs EXCEPT ![f] =
                          [i \in 1..FrameOuts |-> IF i <= c.call.outs THEN me ELSE @[i]]]
             /\ buffers' = IF c.call.how \in {"owned", "view"} THEN buffers \union {me}
                           ELSE buffers
             /\ SetTop(g, [c EXCEPT !.stage = "readBack", !.ok = TRUE])
    <2>1. PICK call : call = [c EXCEPT !.stage = "readBack", !.ok = TRUE]
      OBVIOUS
    <2>2. /\ call \in FrameCalls /\ call.call = c.call /\ call.stage = "readBack"
          /\ call.frame = f /\ call.ok = TRUE /\ call.got = c.got
      BY <1>4, <1>7, <2>1 DEF CallsOfWrapper, FrameStages
    <2>3. /\ outs' \in [CallFrame -> [1..FrameOuts -> SlotValues]]
          /\ \A i \in 1..c.call.outs : outs'[f][i] = me
          /\ \A h \in CallFrame : h # f => outs'[h] = outs[h]
      BY <1>5, <1>6, <1>7, <1>9, FramesAssumption DEF FramesInv, FrameTypes, SlotValues
    <2>4. FrameIsOwn(me, call)' /\ ResultIsOwn(me, call)
      <3>1. \A i \in 1..c.call.args : args[f][i] = me
        BY <1>1, <1>3, <1>4, <1>5, <1>6 DEF FrameIsOwn
      <3> QED
        BY <1>1, <1>6, <2>2, <2>3, <3>1 DEF FrameIsOwn, ResultIsOwn
    <2>5. /\ me \in buffers' <=> HoldsBuffer(call)
          /\ \A id : id # me => (id \in buffers' <=> id \in buffers)
          /\ buffers' \subseteq CallIds
      BY <1>5, <1>6, <1>9, <2>2 DEF HoldsBuffer, Releases, FramesInv, FrameTypes
    <2>6. \A id \in Underway : id # me /\ HoldsFrame(CallOf(id)) =>
            /\ outs'[CallOf(id).frame] = outs[CallOf(id).frame]
            /\ CallOf(id).frame \notin pool'
            /\ HoldsFrame(call) => call.frame # CallOf(id).frame
      BY <1>1, <1>4, <1>5, <1>6, <2>2, <2>3, OthersFrames
    <2>7. SetTop(g, call)
      BY <1>9, <2>1
    <2> QED
      BY <1>1, <1>2, <1>10, <2>2, <2>3, <2>4, <2>5, <2>6, <2>7, OwnStepIsEnough
  <1> QED
    BY <1>2, <1>3, <1>4, <1>8, <1>9 DEF NativeDone

LEMMA ReadBackInv ==
  ASSUME FramesInv, NEW g \in FrameGoroutines, ReadBack(g) PROVE FramesInv'
  <1>1. Depth(g) > 0 /\ Top(g).stage = "readBack" /\ UNCHANGED <<pool, args, outs, buffers>>
    BY DEF ReadBack, TopAt
  <1>2. PICK me : me = Self(g)
    OBVIOUS
  <1>3. PICK c : c = Top(g)
    OBVIOUS
  <1>4. PICK f : f = c.frame
    OBVIOUS
  <1>5. /\ me \in Underway /\ me \in CallIds /\ me # Zero /\ c = CallOf(me) /\ c \in FrameCalls
        /\ FrameIsOwn(me, c) /\ ResultIsOwn(me, c) /\ (me \in buffers <=> HoldsBuffer(c))
    BY <1>1, <1>2, <1>3, TopCall
  <1>6. HoldsFrame(c) /\ f \in CallFrame \ pool
    BY <1>1, <1>3, <1>4, <1>5 DEF FrameIsOwn, HoldsFrame
  <1>7. /\ c \in CallsOfWrapper(c.call) /\ CallsOfWrapper(c.call) \subseteq FrameCalls
        /\ c.got \in [1..c.call.outs -> SlotValues] /\ c.call \in WrappersCalled
        /\ c.call.outs \in 0..FrameOuts /\ outs[f] \in [1..FrameOuts -> SlotValues]
    BY <1>4, <1>5, <1>6, CallFields, WrapperBounds DEF FramesInv, FrameTypes
  <1>8. PICK read : read = [i \in 1..c.call.outs |-> outs[f][i]]
    OBVIOUS
  <1>9. read \in [1..c.call.outs -> SlotValues]
    BY <1>7, <1>8, FramesAssumption
  <1>10. PICK call : call = [c EXCEPT !.stage = "put", !.got = read]
    OBVIOUS
  <1>11. /\ call \in FrameCalls /\ call.call = c.call /\ call.stage = "put"
         /\ call.frame = f /\ call.ok = c.ok /\ call.got = read
    BY <1>4, <1>7, <1>9, <1>10 DEF CallsOfWrapper, FrameStages
  <1>12. SetTop(g, call)
    <2>1. [i \in DOMAIN c.got |-> outs[c.frame][i]] = read
      BY <1>4, <1>7, <1>8
    <2>2. SetTop(g, [c EXCEPT !.stage = "put", !.got = [i \in DOMAIN c.got |-> outs[c.frame][i]]])
      BY <1>3 DEF ReadBack
    <2> QED
      BY <1>10, <2>1, <2>2
  <1>13. FrameIsOwn(me, call)' /\ ResultIsOwn(me, call)
    <2>1. \A i \in 1..c.call.outs : outs[f][i] = IF c.ok THEN me ELSE Zero
      BY <1>1, <1>3, <1>4, <1>5, <1>6 DEF FrameIsOwn
    <2>2. \A i \in 1..c.call.outs : call.got[i] = IF c.ok THEN me ELSE Zero
      BY <1>8, <1>11, <2>1
    <2>3. ResultIsOwn(me, call)
      BY <1>11, <2>2 DEF ResultIsOwn
    <2>4. FrameIsOwn(me, call)'
      BY <1>1, <1>6, <1>11 DEF FrameIsOwn
    <2> QED
      BY <2>3, <2>4
  <1>14. HoldsBuffer(call) <=> HoldsBuffer(c)
    BY <1>1, <1>3, <1>11 DEF HoldsBuffer, Releases
  <1>15. \A id \in Underway : id # me /\ HoldsFrame(CallOf(id)) =>
           /\ CallOf(id).frame \notin pool'
           /\ HoldsFrame(call) => call.frame # CallOf(id).frame
    BY <1>1, <1>4, <1>5, <1>6, <1>11, OthersFrames
  <1>16. /\ pool \subseteq CallFrame /\ buffers \subseteq CallIds
         /\ args \in [CallFrame -> [1..FrameArgs -> SlotValues]]
         /\ outs \in [CallFrame -> [1..FrameOuts -> SlotValues]]
    BY DEF FramesInv, FrameTypes
  <1> QED
    BY <1>1, <1>2, <1>5, <1>11, <1>12, <1>13, <1>14, <1>15, <1>16, OwnStepIsEnough

\* What Forget does to the frames but the one put back.
LEMMA ForgetKeepsOthers ==
  ASSUME FramesInv, NEW f \in CallFrame, Forget(f)
  PROVE  /\ pool' \subseteq CallFrame
         /\ args' \in [CallFrame -> [1..FrameArgs -> SlotValues]]
         /\ outs' \in [CallFrame -> [1..FrameOuts -> SlotValues]]
         /\ \A h \in CallFrame : h # f =>
              args'[h] = args[h] /\ outs'[h] = outs[h] /\ (h \in pool' <=> h \in pool)
  <1>1. Stale \in SlotValues
    BY DEF SlotValues
  <1> QED
    BY <1>1 DEF Forget, FramesInv, FrameTypes

LEMMA PutFrameInv ==
  ASSUME FramesInv, NEW g \in FrameGoroutines, PutFrame(g) PROVE FramesInv'
  <1>1. Depth(g) > 0 /\ Top(g).stage = "put" /\ Forget(Top(g).frame) /\ buffers' = buffers
    BY DEF PutFrame, TopAt
  <1>2. PICK me : me = Self(g)
    OBVIOUS
  <1>3. PICK c : c = Top(g)
    OBVIOUS
  <1>4. /\ me \in Underway /\ c = CallOf(me) /\ c \in FrameCalls
        /\ FrameIsOwn(me, c) /\ ResultIsOwn(me, c) /\ (me \in buffers <=> HoldsBuffer(c))
    BY <1>1, <1>2, <1>3, TopCall
  <1>5. HoldsFrame(c) /\ c.frame \in CallFrame \ pool
    BY <1>1, <1>3, <1>4 DEF FrameIsOwn, HoldsFrame
  <1>6. PICK call : call = [c EXCEPT !.stage = "decode", !.frame = "none"]
    OBVIOUS
  <1>7. /\ call \in FrameCalls /\ call.call = c.call /\ call.stage = "decode"
        /\ call.ok = c.ok /\ call.got = c.got
    <2>1. c \in CallsOfWrapper(c.call) /\ CallsOfWrapper(c.call) \subseteq FrameCalls
      BY <1>4, CallFields
    <2> QED
      BY <1>6, <2>1 DEF CallsOfWrapper, FrameStages
  <1>8. SetTop(g, call)
    BY <1>3, <1>6 DEF PutFrame
  <1>9. FrameIsOwn(me, call)' /\ ResultIsOwn(me, call) /\ (HoldsBuffer(call) <=> HoldsBuffer(c))
        /\ ~HoldsFrame(call)
    BY <1>1, <1>3, <1>4, <1>7
       DEF FrameIsOwn, ResultIsOwn, HoldsFrame, HoldsBuffer, Releases
  <1>10. \A id \in Underway : id # me /\ HoldsFrame(CallOf(id)) =>
           /\ args'[CallOf(id).frame] = args[CallOf(id).frame]
           /\ outs'[CallOf(id).frame] = outs[CallOf(id).frame]
           /\ CallOf(id).frame \notin pool'
    BY <1>1, <1>3, <1>4, <1>5, OthersFrames, ForgetKeepsOthers
  <1>11. /\ pool' \subseteq CallFrame /\ buffers' \subseteq CallIds
         /\ args' \in [CallFrame -> [1..FrameArgs -> SlotValues]]
         /\ outs' \in [CallFrame -> [1..FrameOuts -> SlotValues]]
    BY <1>1, <1>3, <1>5, ForgetKeepsOthers DEF FramesInv, FrameTypes
  <1> QED
    BY <1>1, <1>2, <1>4, <1>7, <1>8, <1>9, <1>10, <1>11, OwnStepIsEnough

LEMMA FinishInv ==
  ASSUME FramesInv, NEW g \in FrameGoroutines, Finish(g) PROVE FramesInv'
  <1>1. /\ Depth(g) > 0 /\ Top(g).stage = "decode" /\ UNCHANGED <<pool, args, outs, buffers>>
        /\ ~Top(g).ok \/ Top(g).call.how \notin {"owned", "view"}
    BY DEF Finish, TopAt
  <1>2. PICK me : me = Self(g)
    OBVIOUS
  <1>3. PICK c : c = Top(g)
    OBVIOUS
  <1>4. /\ me \in Underway /\ c = CallOf(me) /\ c \in FrameCalls
        /\ FrameIsOwn(me, c) /\ ResultIsOwn(me, c) /\ (me \in buffers <=> HoldsBuffer(c))
    BY <1>1, <1>2, <1>3, TopCall
  <1>5. PICK call : call = [c EXCEPT !.stage = "return"]
    OBVIOUS
  <1>6. /\ call \in FrameCalls /\ call.call = c.call /\ call.stage = "return"
        /\ call.ok = c.ok /\ call.got = c.got
    <2>1. c \in CallsOfWrapper(c.call) /\ CallsOfWrapper(c.call) \subseteq FrameCalls
      BY <1>4, CallFields
    <2> QED
      BY <1>5, <2>1 DEF CallsOfWrapper, FrameStages
  <1>7. SetTop(g, call)
    BY <1>3, <1>5 DEF Finish
  <1>8. /\ FrameIsOwn(me, call)' /\ ResultIsOwn(me, call)
        /\ ~HoldsBuffer(call) /\ me \notin buffers /\ ~HoldsFrame(call)
    BY <1>1, <1>3, <1>4, <1>6
       DEF FrameIsOwn, ResultIsOwn, HoldsFrame, HoldsBuffer, Releases
  <1>9. /\ pool \subseteq CallFrame /\ buffers \subseteq CallIds
        /\ args \in [CallFrame -> [1..FrameArgs -> SlotValues]]
        /\ outs \in [CallFrame -> [1..FrameOuts -> SlotValues]]
    BY DEF FramesInv, FrameTypes
  <1>10. \A id \in Underway : id # me /\ HoldsFrame(CallOf(id)) => CallOf(id).frame \notin pool'
    BY <1>1, <1>4, OthersFrames
  <1> QED
    BY <1>1, <1>2, <1>6, <1>7, <1>8, <1>9, <1>10, OwnStepIsEnough

LEMMA CopyThenFreeInv ==
  ASSUME FramesInv, NEW g \in FrameGoroutines, CopyThenFree(g) PROVE FramesInv'
  <1>1. /\ Depth(g) > 0 /\ Top(g).stage = "decode" /\ buffers' = buffers
        /\ Top(g).ok /\ Top(g).call.how \in {"owned", "view"}
    BY DEF CopyThenFree, TopAt
  <1>2. PICK me : me = Self(g)
    OBVIOUS
  <1>3. PICK c : c = Top(g)
    OBVIOUS
  <1>4. PICK f \in pool :
          /\ pool' = pool \ {f}
          /\ LayOut(g, f, c.call.freeArgs, <<>>)
          /\ SetTop(g, [c EXCEPT !.stage = "freeing", !.frame = f])
    BY <1>3 DEF CopyThenFree
  <1>5. PICK call : call = [c EXCEPT !.stage = "freeing", !.frame = f]
    OBVIOUS
  <1>6. /\ me \in Underway /\ me \in CallIds /\ c = CallOf(me) /\ c \in FrameCalls
        /\ FrameIsOwn(me, c) /\ ResultIsOwn(me, c) /\ (me \in buffers <=> HoldsBuffer(c))
    BY <1>1, <1>2, <1>3, TopCall
  <1>7. /\ f \in CallFrame /\ call \in FrameCalls
        /\ call.call = c.call /\ call.stage = "freeing" /\ call.frame = f
        /\ call.ok = c.ok /\ call.got = c.got /\ c.call.freeArgs \in 0..FrameArgs
    <2>1. /\ c \in CallsOfWrapper(c.call) /\ CallsOfWrapper(c.call) \subseteq FrameCalls
          /\ c.call \in WrappersCalled
      BY <1>6, CallFields
    <2>2. f \in CallFrame /\ "freeing" \in FrameStages
      BY <1>4 DEF FrameStages, FramesInv, FrameTypes
    <2>3. /\ call \in CallsOfWrapper(c.call)
          /\ call.call = c.call /\ call.stage = "freeing" /\ call.frame = f
          /\ call.ok = c.ok /\ call.got = c.got
      BY <1>5, <2>1, <2>2 DEF CallsOfWrapper
    <2> QED
      BY <2>1, <2>2, <2>3, WrapperBounds
  <1>8. /\ args' = [args EXCEPT ![f] =
                     [i \in 1..FrameArgs |-> IF i <= c.call.freeArgs THEN me ELSE args[f][i]]]
        /\ outs' = [outs EXCEPT ![f] =
                     [i \in 1..FrameOuts |-> IF i <= 0 THEN <<>>[i] ELSE outs[f][i]]]
    BY <1>2, <1>4, <1>7 DEF LayOut, FramesInv, FrameTypes
  <1>9. /\ args' \in [CallFrame -> [1..FrameArgs -> SlotValues]]
        /\ outs' \in [CallFrame -> [1..FrameOuts -> SlotValues]]
    <2>1. args[f] \in [1..FrameArgs -> SlotValues] /\ outs[f] \in [1..FrameOuts -> SlotValues]
      BY <1>7 DEF FramesInv, FrameTypes
    <2>2. me \in SlotValues
      BY <1>6 DEF SlotValues
    <2>3. [i \in 1..FrameArgs |-> IF i <= c.call.freeArgs THEN me ELSE args[f][i]]
            \in [1..FrameArgs -> SlotValues]
      BY <2>1, <2>2
    <2>4. [i \in 1..FrameOuts |-> IF i <= 0 THEN <<>>[i] ELSE outs[f][i]]
            \in [1..FrameOuts -> SlotValues]
      BY <2>1, FramesAssumption
    <2> QED
      BY <1>8, <2>3, <2>4 DEF FramesInv, FrameTypes
  <1>10. /\ \A i \in 1..c.call.freeArgs : args'[f][i] = me
         /\ \A h \in CallFrame : h # f => args'[h] = args[h] /\ outs'[h] = outs[h]
    BY <1>7, <1>8, FramesAssumption DEF FramesInv, FrameTypes
  <1>11. FrameIsOwn(me, call)' /\ ResultIsOwn(me, call)
    BY <1>1, <1>3, <1>4, <1>6, <1>7, <1>10 DEF FrameIsOwn, ResultIsOwn, Releases
  <1>12. me \in buffers /\ HoldsBuffer(call)
    BY <1>1, <1>3, <1>6, <1>7 DEF HoldsBuffer, Releases
  <1>13. \A id \in Underway : id # me /\ HoldsFrame(CallOf(id)) =>
           /\ args'[CallOf(id).frame] = args[CallOf(id).frame]
           /\ outs'[CallOf(id).frame] = outs[CallOf(id).frame]
           /\ CallOf(id).frame \notin pool'
           /\ HoldsFrame(call) => call.frame # CallOf(id).frame
    BY <1>4, <1>6, <1>7, <1>10, OthersFrames
  <1>14. SetTop(g, call) /\ pool' \subseteq CallFrame /\ buffers' \subseteq CallIds
    BY <1>1, <1>4, <1>5 DEF FramesInv, FrameTypes
  <1> QED
    BY <1>1, <1>2, <1>7, <1>9, <1>11, <1>12, <1>13, <1>14, OwnStepIsEnough

LEMMA FreeInv ==
  ASSUME FramesInv, NEW g \in FrameGoroutines, Free(g) PROVE FramesInv'
  <1>1. /\ Depth(g) > 0 /\ Top(g).stage = "freeing" /\ Forget(Top(g).frame)
        /\ buffers' = buffers \ {Top(g).got[1]}
    BY DEF Free, TopAt
  <1>2. PICK me : me = Self(g)
    OBVIOUS
  <1>3. PICK c : c = Top(g)
    OBVIOUS
  <1>4. /\ me \in Underway /\ c = CallOf(me) /\ c \in FrameCalls
        /\ FrameIsOwn(me, c) /\ ResultIsOwn(me, c)
    BY <1>1, <1>2, <1>3, TopCall
  <1>5. HoldsFrame(c) /\ c.frame \in CallFrame \ pool /\ Releases(c)
    BY <1>1, <1>3, <1>4 DEF FrameIsOwn, HoldsFrame
  <1>6. PICK call : call = [c EXCEPT !.stage = "return", !.frame = "none"]
    OBVIOUS
  <1>7. /\ call \in FrameCalls /\ call.call = c.call /\ call.stage = "return"
        /\ call.ok = c.ok /\ call.got = c.got
    <2>1. c \in CallsOfWrapper(c.call) /\ CallsOfWrapper(c.call) \subseteq FrameCalls
      BY <1>4, CallFields
    <2> QED
      BY <1>6, <2>1 DEF CallsOfWrapper, FrameStages
  <1>8. SetTop(g, call)
    BY <1>3, <1>6 DEF Free
  <1>9. /\ FrameIsOwn(me, call)' /\ ResultIsOwn(me, call)
        /\ ~HoldsBuffer(call) /\ ~HoldsFrame(call)
    BY <1>1, <1>3, <1>4, <1>7 DEF FrameIsOwn, ResultIsOwn, HoldsFrame, HoldsBuffer
  <1>10. buffers' = buffers \ {me}
    <2>1. 1 \in 1..c.call.outs
      BY <1>4, <1>5, CallFields, WrapperBounds, FramesAssumption DEF Releases
    <2>2. c.got[1] = me
      BY <1>1, <1>3, <1>4, <1>5, <2>1 DEF ResultIsOwn, Releases
    <2> QED
      BY <1>1, <1>3, <2>2
  <1>11. \A id \in Underway : id # me /\ HoldsFrame(CallOf(id)) =>
           /\ args'[CallOf(id).frame] = args[CallOf(id).frame]
           /\ outs'[CallOf(id).frame] = outs[CallOf(id).frame]
           /\ CallOf(id).frame \notin pool'
    BY <1>1, <1>3, <1>4, <1>5, OthersFrames, ForgetKeepsOthers
  <1>12. /\ pool' \subseteq CallFrame /\ buffers' \subseteq CallIds
         /\ args' \in [CallFrame -> [1..FrameArgs -> SlotValues]]
         /\ outs' \in [CallFrame -> [1..FrameOuts -> SlotValues]]
    BY <1>1, <1>3, <1>5, ForgetKeepsOthers DEF FramesInv, FrameTypes
  <1> QED
    BY <1>1, <1>2, <1>7, <1>8, <1>9, <1>10, <1>11, <1>12, OwnStepIsEnough

LEMMA FramesNextInv == FramesInv /\ [FramesNext]_frameVarsAll => FramesInv'
  <1> SUFFICES ASSUME FramesInv, [FramesNext]_frameVarsAll PROVE FramesInv'
    OBVIOUS
  <1>1. ASSUME NEW g \in FrameGoroutines,
               \/ CallWrapper(g) \/ EnterFn(g) \/ NativeDone(g) \/ ReadBack(g) \/ PutFrame(g)
               \/ Finish(g) \/ CopyThenFree(g) \/ Free(g) \/ ReturnWrapper(g)
        PROVE  FramesInv'
    BY <1>1, CallWrapperInv, EnterFnInv, NativeDoneInv, ReadBackInv, PutFrameInv, FinishInv,
       CopyThenFreeInv, FreeInv, ReturnWrapperInv
  <1>2. CASE UNCHANGED frameVarsAll
    <2>1. /\ UNCHANGED <<pool, args, outs, stack, buffers>>
          /\ Underway' = Underway /\ \A id : CallOf(id)' = CallOf(id)
      BY <1>2 DEF frameVarsAll, Underway, CallsIn, CallOf, Depth
    <2>2. FrameTypes'
      BY <2>1 DEF FramesInv, FrameTypes, Depth
    <2>3. \A id \in Underway' : (FrameIsOwn(id, CallOf(id)) /\ ResultIsOwn(id, CallOf(id)))'
      BY <2>1 DEF FramesInv, FrameIsOwn, ResultIsOwn, HoldsFrame
    <2>4. FramesApart'
      BY <2>1 DEF FramesInv, FramesApart, HoldsFrame
    <2>5. \A id \in CallIds : id \in buffers' <=> id \in Underway' /\ HoldsBuffer(CallOf(id)')
      BY <2>1 DEF FramesInv
    <2> QED
      BY <2>2, <2>3, <2>4, <2>5 DEF FramesInv, HoldsBuffer, Releases
  <1> QED
    BY <1>1, <1>2 DEF FramesNext

LEMMA FramesInvImplies ==
  FramesInv => NativeSeesItsFrame /\ ResultsAreOwn /\ BuffersAreFreed
  <1> SUFFICES ASSUME FramesInv PROVE NativeSeesItsFrame /\ ResultsAreOwn /\ BuffersAreFreed
    OBVIOUS
  <1>1. NativeSeesItsFrame
    BY DEF FramesInv, NativeSeesItsFrame, FrameIsOwn, HoldsFrame
  <1>2. ResultsAreOwn
    <2> SUFFICES ASSUME NEW id \in Underway, NEW c, c = CallOf(id),
                        c.stage \in {"decode", "freeing", "return"}
                 PROVE  /\ \A i \in 1..c.call.outs : c.got[i] = IF c.ok THEN id ELSE Zero
                        /\ c.stage \in {"decode", "freeing"} /\ c.ok
                             /\ c.call.how \in {"owned", "view"} => id \in buffers
      BY DEF ResultsAreOwn
    <2>1. id \in CallIds
      BY UnderwayCalls DEF FramesInv
    <2> QED
      BY <2>1 DEF FramesInv, ResultIsOwn, HoldsBuffer, Releases
  <1>3. BuffersAreFreed
    BY DEF FramesInv, BuffersAreFreed, HoldsBuffer
  <1> QED
    BY <1>1, <1>2, <1>3

\* For every set of wrappers, any number of goroutines and any depth of callbacks:
\* as long as native code may look at a frame it finds its call's own arguments
\* there, and out slots nobody else has written.
THEOREM CallsSeeTheirFrames == FramesSpec => []NativeSeesItsFrame
  BY FramesInitInv, FramesNextInv, FramesInvImplies, PTL DEF FramesSpec

\* What a wrapper decodes and returns is what its own native call wrote, from
\* memory that has not been freed.
THEOREM CallsReturnTheirResults == FramesSpec => []ResultsAreOwn
  BY FramesInitInv, FramesNextInv, FramesInvImplies, PTL DEF FramesSpec

\* No native buffer outlives the call it was allocated for, on any of its exits.
THEOREM CallsFreeTheirBuffers == FramesSpec => []BuffersAreFreed
  BY FramesInitInv, FramesNextInv, FramesInvImplies, PTL DEF FramesSpec

-----------------------------------------------------------------------------
(***************************************************************************)
(* Streams.  What the reader handed out is what native code got, as long   *)
(* as nothing is asked of a reader that has ended; what the library wrote  *)
(* is, one after the other, what the writer took, what is on its way and   *)
(* what is staged, until a send fails.                                     *)
(***************************************************************************)
StreamTypes ==
  /\ progress \in {"idle", "refused", "native", "reading", "writing", "flushing", "back",
                   "answered"}
  /\ handed \in Nat /\ readerEnded \in BOOLEAN /\ wrote \in Nat
  /\ readTerminal \in {"none", "EOF", "failure", "ErrNoProgress"}
  /\ goErr \in [{"r", "w"} -> {"none", "failure", "ErrNoProgress", "ErrShortWrite"}]
  /\ panicked \subseteq {"r", "w"} /\ adapterFailed \subseteq {"r", "w"}
  /\ staged \in Seq(Nat) /\ libraryFailed \in BOOLEAN
  /\ streamAnswer # "none" => progress \in {"answered", "refused"}

\* A reader that has ended is known to have, and a failure of a stream is recorded.
FailuresRecorded ==
  /\ readerEnded => readTerminal # "none"
  /\ readTerminal \notin {"none", "EOF"} => goErr["r"] # "none"
  /\ \A s \in {"r", "w"} : s \in adapterFailed => s \in panicked \/ goErr[s] # "none"

\* The writer has taken the first t bytes, the next p - t are on their way in one
\* slice or in two, and the rest is staged.
Outgoing(t, p) ==
  \/ outbox = <<>> /\ p = t
  \/ outbox = <<From(t, p - t)>> /\ t < p
  \/ \E m \in 0..wrote : t < m /\ m < p /\ outbox = <<From(t, m - t), From(m, p - m)>>

WritesInOrder ==
  \E t, p \in 0..wrote :
    /\ taken = From(0, t) /\ t <= p
    /\ "w" \notin adapterFailed => Outgoing(t, p) /\ staged = From(p, wrote - p)

OutboxMatchesProgress ==
  /\ outbox # <<>> => progress \in {"writing", "flushing"} /\ "w" \notin adapterFailed
  /\ progress \in {"flushing", "back", "answered"} /\ "w" \notin adapterFailed => staged = <<>>

StreamsInv ==
  /\ StreamTypes /\ FailuresRecorded /\ WritesInOrder /\ OutboxMatchesProgress
  /\ got = From(0, handed)
  /\ streamAnswer = "ok" => progress = "answered" /\ "w" \notin adapterFailed
  /\ StreamFailuresSurface

\* Runs of bytes: their length and content, their concatenation, their prefixes.
LEMMA FromBytes ==
  ASSUME NEW a \in Nat, NEW n \in Nat
  PROVE  /\ From(a, n) \in Seq(Nat) /\ Len(From(a, n)) = n
         /\ \A i \in 1..n : From(a, n)[i] = a + i
         /\ n = 0 <=> From(a, n) = <<>>
  <1>1. From(a, n) \in [1..n -> Nat]
    BY DEF From
  <1>2. From(a, n) \in Seq(Nat)
    BY <1>1, SeqDef
  <1>3. DOMAIN From(a, n) = 1..n /\ \A i \in 1..n : From(a, n)[i] = a + i
    BY DEF From
  <1>4. Len(From(a, n)) = n
    BY <1>2, <1>3, LenProperties
  <1> QED
    BY <1>2, <1>3, <1>4, EmptySeq

LEMMA FromJoins ==
  ASSUME NEW a \in Nat, NEW n \in Nat, NEW m \in Nat
  PROVE  From(a, n) \o From(a + n, m) = From(a, n + m)
  <1> DEFINE x == From(a, n)  y == From(a + n, m)  z == From(a, n + m)
  <1>1. /\ x \in Seq(Nat) /\ Len(x) = n /\ \A i \in 1..n : x[i] = a + i
        /\ y \in Seq(Nat) /\ Len(y) = m /\ \A i \in 1..m : y[i] = (a + n) + i
        /\ z \in Seq(Nat) /\ Len(z) = n + m /\ \A i \in 1..(n + m) : z[i] = a + i
    <2>1. a + n \in Nat /\ n + m \in Nat
      OBVIOUS
    <2>2. x \in Seq(Nat) /\ Len(x) = n /\ \A i \in 1..n : x[i] = a + i
      BY FromBytes, Zenon
    <2>3. y \in Seq(Nat) /\ Len(y) = m /\ \A i \in 1..m : y[i] = (a + n) + i
      BY <2>1, FromBytes, Zenon
    <2>4. z \in Seq(Nat) /\ Len(z) = n + m /\ \A i \in 1..(n + m) : z[i] = a + i
      BY <2>1, FromBytes, Zenon
    <2> QED
      BY <2>2, <2>3, <2>4
  <1> HIDE DEF x, y, z
  <1>2. /\ x \o y \in Seq(Nat) /\ Len(x \o y) = n + m
        /\ \A i \in 1..(n + m) : (x \o y)[i] = IF i <= n THEN x[i] ELSE y[i - n]
    BY <1>1, ConcatProperties, SMTT(30)
  <1>3. ASSUME NEW i \in 1..(n + m) PROVE (x \o y)[i] = z[i]
    <2>1. CASE i <= n
      BY <1>1, <1>2, <2>1
    <2>2. CASE n < i
      <3>1. i - n \in 1..m
        BY <2>2
      <3>2. y[i - n] = (a + n) + (i - n)
        BY <1>1, <3>1, Zenon
      <3> QED
        BY <1>1, <1>2, <2>2, <3>2, SMTT(30)
    <2>3. i <= n \/ n < i
      OBVIOUS
    <2> QED
      BY <2>1, <2>2, <2>3, Zenon
  <1>4. x \o y = z
    BY <1>1, <1>2, <1>3, SeqEqual
  <1> QED
    BY <1>4 DEF x, y, z

LEMMA FromPrefix ==
  ASSUME NEW a \in Nat, NEW n \in Nat, NEW k \in 0..n
  PROVE  SubSeq(From(a, n), 1, k) = From(a, k)
  <1> DEFINE x == From(a, n)  y == From(a, k)
  <1>1. /\ x \in Seq(Nat) /\ Len(x) = n /\ \A i \in 1..n : x[i] = a + i
        /\ y \in Seq(Nat) /\ Len(y) = k /\ \A i \in 1..k : y[i] = a + i
    <2>1. k \in Nat
      OBVIOUS
    <2> QED
      BY <2>1, FromBytes, Zenon
  <1> HIDE DEF x, y
  <1>2. \A i \in 1..k : x[i] \in Nat
    BY <1>1
  <1>3. /\ SubSeq(x, 1, k) \in Seq(Nat) /\ Len(SubSeq(x, 1, k)) = k
        /\ \A i \in 1..k : SubSeq(x, 1, k)[i] = x[i]
    BY <1>2, SubSeqProperties
  <1>4. SubSeq(x, 1, k) = y
    BY <1>1, <1>3, SeqEqual
  <1> QED
    BY <1>4 DEF x, y

\* What the other two sequences of the writer side are made of.
LEMMA TwoSlices ==
  ASSUME NEW a, NEW b
  PROVE  /\ <<a>> # <<>> /\ Head(<<a>>) = a /\ Tail(<<a>>) = <<>>
         /\ <<a, b>> # <<>> /\ Head(<<a, b>>) = a /\ Tail(<<a, b>>) = <<b>>
         /\ <<a>> \o <<b>> = <<a, b>> /\ <<>> \o <<b>> = <<b>>
  <1>1. /\ <<a>> # <<>> /\ Head(<<a>>) = a /\ Tail(<<a>>) = <<>>
    OBVIOUS
  <1>2. <<a, b>> # <<>> /\ Head(<<a, b>>) = a
    OBVIOUS
  <1>3. Tail(<<a, b>>) = <<b>>
    OBVIOUS
  <1>4. <<>> \o <<b>> = <<b>>
    OBVIOUS
  <1>5. <<a>> \o <<b>> = <<a, b>>
    <2> DEFINE S == {a, b}  x == <<a>>  y == <<b>>  z == <<a, b>>
    <2>1. /\ x \in Seq(S) /\ Len(x) = 1 /\ x[1] = a
          /\ y \in Seq(S) /\ Len(y) = 1 /\ y[1] = b
          /\ z \in Seq(S) /\ Len(z) = 2 /\ z[1] = a /\ z[2] = b
      OBVIOUS
    <2> HIDE DEF S, x, y, z
    <2>2. /\ x \o y \in Seq(S) /\ Len(x \o y) = 2
          /\ \A i \in 1..2 : (x \o y)[i] = IF i <= 1 THEN x[i] ELSE y[i - 1]
      BY <2>1, ConcatProperties
    <2>3. \A i \in 1..2 : (x \o y)[i] = z[i]
      BY <2>1, <2>2
    <2>4. x \o y = z
      BY <2>1, <2>2, <2>3, SeqEqual
    <2> QED
      BY <2>4 DEF x, y, z
  <1> QED
    BY <1>1, <1>2, <1>3, <1>4, <1>5

LEMMA StreamsInitInv == StreamsInit => StreamsInv
  <1> SUFFICES ASSUME StreamsInit PROVE StreamsInv
    OBVIOUS
  <1>1. From(0, 0) = <<>> /\ <<>> \in Seq(Nat)
    BY FromBytes
  <1>2. StreamTypes /\ FailuresRecorded /\ OutboxMatchesProgress /\ StreamFailuresSurface
    BY <1>1 DEF StreamsInit, StreamTypes, FailuresRecorded, OutboxMatchesProgress,
                StreamFailuresSurface
  <1>3. WritesInOrder
    <2>1. taken = From(0, 0) /\ 0 \in 0..wrote /\ Outgoing(0, 0) /\ staged = From(0, wrote - 0)
      BY <1>1 DEF StreamsInit, Outgoing
    <2> QED
      BY <2>1 DEF WritesInOrder
  <1>4. got = From(0, handed) /\ streamAnswer # "ok"
    BY <1>1 DEF StreamsInit
  <1> QED
    BY <1>2, <1>3, <1>4 DEF StreamsInv

\* The reading side leaves the writing side alone.
LEMMA WriterAlone ==
  ASSUME WritesInOrder, UNCHANGED writeVars,
         "w" \in adapterFailed' <=> "w" \in adapterFailed
  PROVE  WritesInOrder'
  BY DEF WritesInOrder, writeVars, Outgoing

\* A read hands out the next bytes.
LEMMA GotMore ==
  ASSUME NEW n \in Nat, handed \in Nat
  PROVE  From(0, handed) \o From(handed, n) = From(0, handed + n)
  <1>1. 0 + handed = handed
    OBVIOUS
  <1> QED
    BY <1>1, FromJoins, ZenonT(30)

LEMMA CallWithStreamsInv ==
  ASSUME StreamsInv, NEW used \in StreamUses, CallWithStreams(used) PROVE StreamsInv'
  <1> USE DEF CallWithStreams, crossVars
  <1>1. WritesInOrder'
    BY WriterAlone DEF StreamsInv
  <1>2. (StreamTypes /\ FailuresRecorded /\ OutboxMatchesProgress /\ StreamFailuresSurface)'
    BY DEF StreamsInv, StreamTypes, FailuresRecorded, OutboxMatchesProgress,
           StreamFailuresSurface, writeVars
  <1>3. (/\ got = From(0, handed)
         /\ streamAnswer = "ok" => progress = "answered" /\ "w" \notin adapterFailed)'
    BY DEF StreamsInv, StreamTypes
  <1> QED
    BY <1>1, <1>2, <1>3 DEF StreamsInv

LEMMA ReadFixedInv ==
  ASSUME StreamsInv, NEW n \in 1..ReadRoom, ReadFixed(n) PROVE StreamsInv'
  <1> USE DEF ReadFixed, crossVars, callEnds
  <1>0. n \in Nat /\ handed \in Nat
    BY StreamsAssumption DEF StreamsInv, StreamTypes
  <1>1. WritesInOrder'
    BY WriterAlone DEF StreamsInv
  <1>2. (StreamTypes /\ FailuresRecorded /\ OutboxMatchesProgress /\ StreamFailuresSurface)'
    BY <1>0 DEF StreamsInv, StreamTypes, FailuresRecorded, OutboxMatchesProgress,
                StreamFailuresSurface, writeVars
  <1>3. (/\ got = From(0, handed)
         /\ streamAnswer = "ok" => progress = "answered" /\ "w" \notin adapterFailed)'
    BY <1>0, GotMore DEF StreamsInv, StreamTypes
  <1> QED
    BY <1>1, <1>2, <1>3 DEF StreamsInv

LEMMA StartReadInv ==
  ASSUME StreamsInv, NEW n \in 1..ReadRoom, StartRead(n) PROVE StreamsInv'
  <1> USE DEF StartRead, crossVars, callEnds
  <1>1. WritesInOrder'
    BY WriterAlone DEF StreamsInv
  <1>2. (StreamTypes /\ FailuresRecorded /\ OutboxMatchesProgress /\ StreamFailuresSurface)'
    BY DEF StreamsInv, StreamTypes, FailuresRecorded, OutboxMatchesProgress,
           StreamFailuresSurface, writeVars
  <1>3. (/\ got = From(0, handed)
         /\ streamAnswer = "ok" => progress = "answered" /\ "w" \notin adapterFailed)'
    BY DEF StreamsInv, StreamTypes
  <1> QED
    BY <1>1, <1>2, <1>3 DEF StreamsInv

\* What the reader dispatcher does with the answer of readStream.
LEMMA ReadAnswered ==
  ASSUME StreamsInv, progress = "reading",
         NEW bytes, NEW err \in {"none", "EOF", "failure", "ErrNoProgress"},
         bytes = <<>> => err # "none",
         AnswerRead(bytes, err), UNCHANGED <<writeVars, callEnds, panicked>>,
         handed' \in Nat, readerEnded' \in BOOLEAN,
         readTerminal' \in {readTerminal, err},
         readerEnded' => readTerminal' # "none",
         got \o bytes = From(0, handed')
  PROVE  StreamsInv'
  <1> USE DEF AnswerRead
  <1>1. WritesInOrder'
    BY WriterAlone DEF StreamsInv
  <1>2. StreamTypes' /\ OutboxMatchesProgress' /\ StreamFailuresSurface'
    BY DEF StreamsInv, StreamTypes, OutboxMatchesProgress, StreamFailuresSurface, writeVars,
           callEnds
  <1>3. FailuresRecorded'
    BY DEF StreamsInv, StreamTypes, FailuresRecorded, writeVars, callEnds
  <1>4. (/\ got = From(0, handed)
         /\ streamAnswer = "ok" => progress = "answered" /\ "w" \notin adapterFailed)'
    BY DEF StreamsInv, StreamTypes, callEnds
  <1> QED
    BY <1>1, <1>2, <1>3, <1>4 DEF StreamsInv

LEMMA NothingMore == StreamsInv => got \o <<>> = got
  <1> SUFFICES ASSUME StreamsInv PROVE got \o <<>> = got
    OBVIOUS
  <1>1. got \in Seq(Nat)
    BY FromBytes DEF StreamsInv, StreamTypes
  <1> QED
    BY <1>1, ConcatEmptySeq

LEMMA ReadTerminalInv == ASSUME StreamsInv, ReadTerminal PROVE StreamsInv'
  <1>1. readTerminal \in {"EOF", "failure", "ErrNoProgress"} /\ handed \in Nat
        /\ readerEnded \in BOOLEAN /\ got = From(0, handed)
    BY DEF StreamsInv, StreamTypes, ReadTerminal, TerminalIsKnown
  <1>2. UNCHANGED <<handed, readerEnded, readTerminal>>
    BY DEF ReadTerminal
  <1>3. PICK err : err = readTerminal
    OBVIOUS
  <1>4. progress = "reading" /\ AnswerRead(<<>>, err)
        /\ UNCHANGED <<writeVars, callEnds, panicked>>
    BY <1>3 DEF ReadTerminal
  <1>5. got \o <<>> = From(0, handed')
    BY <1>1, <1>2, NothingMore
  <1> QED
    BY <1>1, <1>2, <1>3, <1>4, <1>5, ReadAnswered

LEMMA ReadSomeInv ==
  ASSUME StreamsInv, NEW n \in 0..ReadRoom, NEW err \in {"none", "EOF", "failure"},
         ReadSome(n, err)
  PROVE  StreamsInv'
  <1>1. n \in Nat /\ handed \in Nat /\ ~readerEnded /\ got = From(0, handed)
        /\ readTerminal = "none"
    BY StreamsAssumption DEF StreamsInv, StreamTypes, FailuresRecorded, ReadSome, TerminalIsKnown
  <1>2. PICK bytes : bytes = From(handed, n)
    OBVIOUS
  <1>3. AnswerRead(bytes, err)
    BY <1>1, <1>2 DEF ReadSome, Bytes
  <1>4. bytes = <<>> => err # "none"
    <2>1. n = 0 <=> From(handed, n) = <<>>
      BY <1>1, FromBytes, Zenon
    <2> QED
      BY <1>1, <1>2, <2>1 DEF ReadSome
  <1>5. handed' = handed + n /\ readerEnded' = (err # "none")
        /\ readTerminal' = (IF err # "none" THEN err ELSE readTerminal)
    BY <1>1 DEF ReadSome
  <1>6. got \o bytes = From(0, handed')
    BY <1>1, <1>2, <1>5, GotMore
  <1>7. progress = "reading" /\ UNCHANGED <<writeVars, callEnds, panicked>>
    BY DEF ReadSome
  <1>8. /\ err \in {"none", "EOF", "failure", "ErrNoProgress"}
        /\ handed' \in Nat /\ readerEnded' \in BOOLEAN
        /\ readTerminal' \in {readTerminal, err} /\ (readerEnded' => readTerminal' # "none")
    <2>1. handed' \in Nat
      BY <1>1, <1>5
    <2>2. CASE err = "none"
      BY <1>1, <1>5, <2>1, <2>2
    <2>3. CASE err # "none"
      BY <1>1, <1>5, <2>1, <2>3
    <2> QED
      BY <2>2, <2>3
  <1> QED
    BY <1>3, <1>4, <1>6, <1>7, <1>8, ReadAnswered

LEMMA ReadNothingInv == ASSUME StreamsInv, ReadNothing PROVE StreamsInv'
  <1>1. CASE attempt + 1 < MaxEmptyReads
    <2> USE <1>1 DEF ReadNothing
    <2>1. WritesInOrder'
      BY WriterAlone DEF StreamsInv
    <2>2. (StreamTypes /\ FailuresRecorded /\ OutboxMatchesProgress /\ StreamFailuresSurface)'
      BY DEF StreamsInv, StreamTypes, FailuresRecorded, OutboxMatchesProgress,
             StreamFailuresSurface, writeVars, callEnds
    <2>3. (/\ got = From(0, handed)
           /\ streamAnswer = "ok" => progress = "answered" /\ "w" \notin adapterFailed)'
      BY DEF StreamsInv, StreamTypes, callEnds
    <2> QED
      BY <2>1, <2>2, <2>3 DEF StreamsInv
  <1>2. CASE ~(attempt + 1 < MaxEmptyReads)
    <2>1. /\ AnswerRead(<<>>, "ErrNoProgress") /\ readTerminal' = "ErrNoProgress"
          /\ progress = "reading" /\ UNCHANGED <<writeVars, callEnds, panicked>>
          /\ UNCHANGED <<handed, readerEnded>>
      BY <1>2 DEF ReadNothing
    <2>2. handed \in Nat /\ readerEnded \in BOOLEAN /\ got \o <<>> = From(0, handed')
      BY <2>1, NothingMore DEF StreamsInv, StreamTypes
    <2> QED
      BY <2>1, <2>2, ReadAnswered
  <1> QED
    BY <1>1, <1>2

LEMMA ReadPanicsInv == ASSUME StreamsInv, ReadPanics PROVE StreamsInv'
  <1> USE DEF ReadPanics, callEnds, readVars
  <1>1. WritesInOrder'
    BY WriterAlone DEF StreamsInv
  <1>2. (StreamTypes /\ FailuresRecorded /\ OutboxMatchesProgress /\ StreamFailuresSurface)'
    BY DEF StreamsInv, StreamTypes, FailuresRecorded, OutboxMatchesProgress,
           StreamFailuresSurface, writeVars
  <1>3. (/\ got = From(0, handed)
         /\ streamAnswer = "ok" => progress = "answered" /\ "w" \notin adapterFailed)'
    BY DEF StreamsInv, StreamTypes
  <1> QED
    BY <1>1, <1>2, <1>3 DEF StreamsInv

-----------------------------------------------------------------------------
\* The writing side leaves what was read alone.
LEMMA ReaderAlone ==
  ASSUME StreamsInv, UNCHANGED <<readVars, callEnds>>,
         progress' \in {"native", "writing", "flushing", "back"},
         progress \in {"native", "writing", "flushing"},
         wrote' \in Nat, staged' \in Seq(Nat),
         panicked' = panicked \/ panicked' = panicked \union {"w"},
         adapterFailed' = adapterFailed \/ adapterFailed' = adapterFailed \union {"w"},
         goErr' \in [{"r", "w"} -> {"none", "failure", "ErrNoProgress", "ErrShortWrite"}],
         goErr'["r"] = goErr["r"], goErr["w"] # "none" => goErr'["w"] # "none",
         adapterFailed' # adapterFailed => "w" \in panicked' \/ goErr'["w"] # "none",
         WritesInOrder', OutboxMatchesProgress'
  PROVE  StreamsInv'
  <1>1. StreamTypes'
    BY DEF StreamsInv, StreamTypes, readVars, callEnds
  <1>2. FailuresRecorded'
    BY DEF StreamsInv, StreamTypes, FailuresRecorded, readVars
  <1>3. (got = From(0, handed))'
    BY DEF StreamsInv, readVars
  <1>4. streamAnswer' # "ok" /\ progress' # "answered"
    BY DEF StreamsInv, StreamTypes, callEnds
  <1> QED
    BY <1>1, <1>2, <1>3, <1>4 DEF StreamsInv, StreamFailuresSurface

LEMMA PushInv ==
  ASSUME StreamsInv, NEW n \in 1..WrittenBytes, Push(n) PROVE StreamsInv'
  <1> DEFINE bytes == From(wrote, n)
             large == n >= StageSize
             sends == large \/ Len(staged) + n > StageSize
  <1>0. /\ n \in Nat \ {0} /\ wrote \in Nat /\ wrote' = wrote + n /\ staged \in Seq(Nat)
        /\ progress = "native" /\ outbox = <<>> /\ taken' = taken
        /\ UNCHANGED <<readVars, crossVars, callEnds>>
    BY StreamsAssumption DEF StreamsInv, StreamTypes, OutboxMatchesProgress, Push
  <1>1. PICK t, p \in 0..wrote :
          /\ taken = From(0, t) /\ t <= p
          /\ "w" \notin adapterFailed => Outgoing(t, p) /\ staged = From(p, wrote - p)
    BY DEF StreamsInv, WritesInOrder
  <1>6. PICK old, new : old = wrote /\ new = wrote'
    OBVIOUS
  <1>2. "w" \notin adapterFailed => p = t
    <2>1. \A a, b : <<>> # <<a>> /\ <<>> # <<a, b>>
      BY TwoSlices
    <2> QED
      BY <1>0, <1>1, <2>1 DEF Outgoing
  <1>3. /\ bytes \in Seq(Nat) /\ bytes # <<>> /\ <<>> \in Seq(Nat)
        /\ staged \o bytes \in Seq(Nat) /\ From(wrote + n, 0) = <<>>
        /\ "w" \notin adapterFailed => (staged = <<>> <=> wrote - p = 0)
        /\ "w" \notin adapterFailed => staged \o bytes = From(p, (wrote + n) - p)
    <2>1. bytes \in Seq(Nat) /\ bytes # <<>>
      BY <1>0, FromBytes
    <2>2. wrote + n \in Nat /\ wrote - p \in Nat /\ p \in Nat /\ p + (wrote - p) = wrote
          /\ (wrote - p) + n = (wrote + n) - p
      BY <1>0
    <2>3. From(wrote + n, 0) = <<>>
      BY <2>2, FromBytes
    <2>4. "w" \notin adapterFailed => (staged = <<>> <=> wrote - p = 0)
      BY <1>1, <2>2, FromBytes, ZenonT(40)
    <2>5. "w" \notin adapterFailed => staged \o bytes = From(p, (wrote + n) - p)
      <3>1. From(p, wrote - p) \o From(p + (wrote - p), n) = From(p, (wrote - p) + n)
        BY <1>0, <2>2, FromJoins, Zenon
      <3> QED
        BY <1>1, <2>2, <3>1
    <2> QED
      BY <1>0, <2>1, <2>3, <2>4, <2>5, ConcatProperties, EmptySeq
  <1> HIDE DEF bytes
  <1>4. CASE sends /\ "w" \in adapterFailed
    <2>1. UNCHANGED <<progress, outbox, staged>>
      BY <1>4 DEF Push
    <2>2. WritesInOrder'
      BY <1>0, <1>1, <1>4, <2>1 DEF WritesInOrder, crossVars
    <2>3. OutboxMatchesProgress'
      BY <1>0, <2>1 DEF OutboxMatchesProgress, crossVars
    <2> QED
      BY <1>0, <2>1, <2>2, <2>3, ReaderAlone DEF crossVars, StreamsInv, StreamTypes
  <1>5. CASE ~(sends /\ "w" \in adapterFailed)
    <2>1. /\ outbox' = IF large THEN NoEmpty(staged) \o <<bytes>>
                       ELSE IF sends THEN NoEmpty(staged) ELSE <<>>
          /\ staged' = IF large THEN <<>>
                       ELSE IF sends THEN bytes ELSE staged \o bytes
          /\ progress' = IF outbox' = <<>> THEN "native" ELSE "writing"
      BY <1>5 DEF Push, bytes
    <2>2. staged' \in Seq(Nat) /\ wrote' \in Nat /\ progress' \in {"native", "writing"}
      BY <1>0, <1>3, <2>1
    <2>3. WritesInOrder'
      <3>1. CASE "w" \in adapterFailed
        BY <1>0, <1>1, <3>1 DEF WritesInOrder, crossVars
      <3>2. CASE "w" \notin adapterFailed /\ large /\ staged = <<>>
        <4>1. outbox' = <<bytes>>
          BY <2>1, <3>2, TwoSlices DEF NoEmpty
        <4>2. t = wrote /\ wrote' - t = n
          BY <1>0, <1>2, <1>3, <3>2
        <4>3. Outgoing(t, new)' /\ staged' = From(new, wrote' - new)
          <5>1. staged' = <<>> /\ new = old + n /\ wrote' - new = 0 /\ new \in Nat
            BY <1>0, <1>6, <2>1, <3>2
          <5>2. staged' = From(new, wrote' - new)
            BY <1>3, <1>6, <5>1
          <5>3. outbox' = <<From(t, new - t)>> /\ t < new
            BY <1>0, <1>6, <4>1, <4>2 DEF bytes
          <5> QED
            BY <5>2, <5>3 DEF Outgoing
        <4> QED
          BY <1>0, <1>1, <1>6, <4>2, <4>3 DEF WritesInOrder, crossVars
      <3>3. CASE "w" \notin adapterFailed /\ large /\ staged # <<>>
        <4>1. outbox' = <<staged, bytes>>
          BY <2>1, <3>3, TwoSlices DEF NoEmpty
        <4>2. t < wrote /\ wrote' - wrote = n /\ staged = From(t, wrote - t)
          BY <1>0, <1>1, <1>2, <1>3, <3>3
        <4>3. Outgoing(t, new)' /\ staged' = From(new, wrote' - new)
          <5>1. staged' = <<>> /\ new = old + n /\ wrote' - new = 0 /\ new \in Nat
            BY <1>0, <1>6, <2>1, <3>3
          <5>2. staged' = From(new, wrote' - new)
            BY <1>3, <1>6, <5>1
          <5>3. outbox' = <<From(t, old - t), From(old, new - old)>> /\ t < old /\ old < new
            BY <1>0, <1>6, <4>1, <4>2 DEF bytes
          <5>4. old \in 0..wrote'
            BY <1>0, <1>6
          <5> QED
            BY <5>2, <5>3, <5>4 DEF Outgoing
        <4> QED
          BY <1>0, <1>1, <1>6, <4>3 DEF WritesInOrder, crossVars
      <3>4. CASE "w" \notin adapterFailed /\ ~large /\ sends /\ staged = <<>>
        <4>1. outbox' = <<>> /\ staged' = bytes /\ t = wrote /\ wrote' - wrote = n
          BY <1>0, <1>2, <1>3, <2>1, <3>4 DEF NoEmpty
        <4>2. Outgoing(t, t)' /\ staged' = From(t, wrote' - t)
          BY <4>1 DEF Outgoing, bytes
        <4> QED
          BY <1>0, <1>1, <4>2 DEF WritesInOrder, crossVars
      <3>5. CASE "w" \notin adapterFailed /\ ~large /\ sends /\ staged # <<>>
        <4>1. /\ outbox' = <<staged>> /\ staged' = bytes /\ t < wrote /\ wrote' - wrote = n
              /\ staged = From(t, wrote - t)
          BY <1>0, <1>1, <1>2, <1>3, <2>1, <3>5 DEF NoEmpty
        <4>2. Outgoing(t, old)' /\ staged' = From(old, wrote' - old)
          BY <1>0, <1>6, <4>1 DEF Outgoing, bytes
        <4> QED
          BY <1>0, <1>1, <1>6, <4>1, <4>2 DEF WritesInOrder, crossVars
      <3>6. CASE "w" \notin adapterFailed /\ ~sends
        <4>1. outbox' = <<>> /\ staged' = From(t, wrote' - t)
          BY <1>0, <1>2, <1>3, <2>1, <3>6
        <4> QED
          BY <1>0, <1>1, <4>1 DEF WritesInOrder, Outgoing, crossVars
      <3> QED
        BY <3>1, <3>2, <3>3, <3>4, <3>5, <3>6
    <2>4. OutboxMatchesProgress'
      <3>1. outbox' # <<>> => "w" \notin adapterFailed
        BY <1>5, <2>1
      <3> QED
        BY <1>0, <2>1, <3>1 DEF OutboxMatchesProgress, crossVars
    <2> QED
      BY <1>0, <2>2, <2>3, <2>4, ReaderAlone DEF crossVars, StreamsInv, StreamTypes
  <1> QED
    BY <1>4, <1>5

LEMMA FlushWriterInv == ASSUME StreamsInv, FlushWriter PROVE StreamsInv'
  <1>0. /\ wrote \in Nat /\ wrote' = wrote /\ staged \in Seq(Nat) /\ staged # <<>>
        /\ progress = "native" /\ outbox = <<>> /\ taken' = taken /\ "w" \notin adapterFailed
        /\ progress' = "writing" /\ outbox' = <<staged>> /\ staged' = <<>>
        /\ UNCHANGED <<readVars, crossVars, callEnds>>
    BY DEF StreamsInv, StreamTypes, OutboxMatchesProgress, FlushWriter
  <1>1. PICK t, p \in 0..wrote :
          taken = From(0, t) /\ t <= p /\ Outgoing(t, p) /\ staged = From(p, wrote - p)
    BY <1>0 DEF StreamsInv, WritesInOrder
  <1>2. p = t
    BY <1>0, <1>1, TwoSlices DEF Outgoing
  <1>3. PICK old : old = wrote
    OBVIOUS
  <1>4. t < old /\ old - old = 0 /\ From(old, 0) = <<>> /\ <<>> \in Seq(Nat)
    <2>1. wrote - p \in Nat /\ p \in Nat
      BY <1>0
    <2>2. wrote - p # 0
      BY <1>0, <1>1, <2>1, FromBytes
    <2>3. From(old, 0) = <<>>
      BY <1>0, <1>3, FromBytes
    <2> QED
      BY <1>0, <1>2, <1>3, <2>2, <2>3
  <1>5. Outgoing(t, old)' /\ staged' = From(old, wrote' - old)
    BY <1>0, <1>1, <1>2, <1>3, <1>4 DEF Outgoing
  <1>6. WritesInOrder'
    BY <1>0, <1>1, <1>3, <1>4, <1>5 DEF WritesInOrder
  <1>7. OutboxMatchesProgress'
    BY <1>0 DEF OutboxMatchesProgress, crossVars
  <1> QED
    BY <1>0, <1>4, <1>6, <1>7, ReaderAlone DEF crossVars, StreamsInv, StreamTypes

\* The slice at the head of the outbox is what the writer is to take next.
LEMMA NextSlice ==
  ASSUME StreamsInv, outbox # <<>>
  PROVE  /\ progress \in {"writing", "flushing"} /\ "w" \notin adapterFailed
         /\ \E t, p \in 0..wrote : \E m \in 0..wrote :
              /\ taken = From(0, t) /\ staged = From(p, wrote - p)
              /\ t < m /\ m <= p
              /\ Head(outbox) = From(t, m - t)
              /\ \/ m = p /\ Tail(outbox) = <<>>
                 \/ m < p /\ Tail(outbox) = <<From(m, p - m)>>
  <1>1. progress \in {"writing", "flushing"} /\ "w" \notin adapterFailed
    BY DEF StreamsInv, OutboxMatchesProgress
  <1>2. PICK t, p \in 0..wrote :
          taken = From(0, t) /\ t <= p /\ Outgoing(t, p) /\ staged = From(p, wrote - p)
    BY <1>1 DEF StreamsInv, WritesInOrder
  <1>3. wrote \in Nat
    BY DEF StreamsInv, StreamTypes
  <1>4. CASE outbox = <<From(t, p - t)>> /\ t < p
    <2>1. Head(outbox) = From(t, p - t) /\ Tail(outbox) = <<>>
      BY <1>4, TwoSlices
    <2> QED
      BY <1>1, <1>2, <1>3, <1>4, <2>1
  <1>5. ASSUME NEW m \in 0..wrote, t < m, m < p,
               outbox = <<From(t, m - t), From(m, p - m)>>
        PROVE  /\ taken = From(0, t) /\ staged = From(p, wrote - p)
               /\ t < m /\ m < p
               /\ Head(outbox) = From(t, m - t)
               /\ Tail(outbox) = <<From(m, p - m)>>
    BY <1>2, <1>5, TwoSlices
  <1> QED
    BY <1>1, <1>2, <1>3, <1>4, <1>5 DEF Outgoing

LEMMA SendInv == ASSUME StreamsInv, Send PROVE StreamsInv'
  <1>1. /\ wrote \in Nat /\ wrote' = wrote /\ staged' = staged /\ staged \in Seq(Nat)
        /\ outbox # <<>> /\ taken' = taken \o Head(outbox) /\ outbox' = Tail(outbox)
        /\ progress' = IF Tail(outbox) = <<>> THEN AfterSend ELSE progress
        /\ UNCHANGED <<readVars, crossVars, callEnds>>
    BY DEF StreamsInv, StreamTypes, Send
  <1>2. progress \in {"writing", "flushing"} /\ "w" \notin adapterFailed
    BY <1>1, NextSlice
  <1>3. PICK t, p, m \in 0..wrote :
          /\ taken = From(0, t) /\ staged = From(p, wrote - p)
          /\ t < m /\ m <= p
          /\ Head(outbox) = From(t, m - t)
          /\ \/ m = p /\ Tail(outbox) = <<>>
             \/ m < p /\ Tail(outbox) = <<From(m, p - m)>>
    BY <1>1, NextSlice
  <1>4. taken' = From(0, m)
    <2>1. t \in Nat /\ m - t \in Nat /\ 0 + t = t /\ t + (m - t) = m
      BY <1>1, <1>3
    <2>2. From(0, t) \o From(0 + t, m - t) = From(0, t + (m - t))
      BY <2>1, FromJoins, Zenon
    <2> QED
      BY <1>1, <1>3, <2>1, <2>2
  <1>5. Outgoing(m, p)'
    BY <1>1, <1>3 DEF Outgoing
  <1>6. WritesInOrder'
    BY <1>1, <1>3, <1>4, <1>5 DEF WritesInOrder, crossVars
  <1>7. OutboxMatchesProgress' /\ progress' \in {"native", "writing", "flushing", "back"}
    BY <1>1, <1>2 DEF StreamsInv, OutboxMatchesProgress, AfterSend, crossVars
  <1> QED
    BY <1>1, <1>2, <1>6, <1>7, ReaderAlone DEF crossVars, StreamsInv, StreamTypes

\* A send that fails is the last one: nothing is on its way any more.
LEMMA SendEnds ==
  ASSUME StreamsInv, progress \in {"writing", "flushing"}, outbox # <<>>,
         NEW n \in 0..Len(Head(outbox)),
         taken' = taken \o SubSeq(Head(outbox), 1, n),
         outbox' = <<>>, adapterFailed' = adapterFailed \union {"w"},
         progress' = AfterSend, UNCHANGED <<wrote, staged>>
  PROVE  WritesInOrder' /\ OutboxMatchesProgress'
  <1>1. wrote \in Nat
    BY DEF StreamsInv, StreamTypes
  <1>2. PICK t, p, m \in 0..wrote :
          taken = From(0, t) /\ t < m /\ m <= p /\ Head(outbox) = From(t, m - t)
    BY NextSlice
  <1>3. /\ t \in Nat /\ m - t \in Nat /\ n \in Nat /\ 0 + t = t /\ Len(Head(outbox)) = m - t
        /\ n \in 0..(m - t) /\ t + n \in 0..wrote
    <2>1. t \in Nat /\ m - t \in Nat /\ 0 + t = t
      BY <1>1, <1>2
    <2>2. Len(Head(outbox)) = m - t
      BY <1>2, <2>1, FromBytes, ZenonT(40)
    <2> QED
      BY <1>1, <1>2, <2>1, <2>2
  <1>4. SubSeq(Head(outbox), 1, n) = From(t, n)
    BY <1>2, <1>3, FromPrefix, ZenonT(40)
  <1>5. From(0, t) \o From(0 + t, n) = From(0, t + n)
    BY <1>3, FromJoins, Zenon
  <1>6. taken' = From(0, t + n)
    BY <1>2, <1>3, <1>4, <1>5
  <1>7. PICK sent : sent = t + n
    OBVIOUS
  <1>8. WritesInOrder'
    <2>1. sent \in 0..wrote' /\ sent <= sent
      BY <1>1, <1>3, <1>7
    <2>2. taken' = From(0, sent)
      BY <1>6, <1>7, Zenon
    <2>3. "w" \in adapterFailed'
      OBVIOUS
    <2> QED
      BY <2>1, <2>2, <2>3 DEF WritesInOrder
  <1>9. OutboxMatchesProgress'
    BY DEF OutboxMatchesProgress
  <1> QED
    BY <1>8, <1>9

LEMMA SendFailsInv ==
  ASSUME StreamsInv, NEW n \in 0..WrittenBytes, NEW err \in {"none", "failure"},
         SendFails(n, err)
  PROVE  StreamsInv'
  <1>1. /\ progress \in {"writing", "flushing"} /\ outbox # <<>>
        /\ taken' = taken \o SubSeq(Head(outbox), 1, n) /\ n <= Len(Head(outbox))
        /\ outbox' = <<>> /\ adapterFailed' = adapterFailed \union {"w"}
        /\ progress' = AfterSend /\ UNCHANGED <<wrote, staged, readVars, panicked, callEnds>>
        /\ wrote \in Nat /\ staged \in Seq(Nat)
    BY DEF StreamsInv, StreamTypes, SendFails
  <1>2. n \in 0..Len(Head(outbox))
    <2>1. PICK t, p, m \in 0..wrote : t < m /\ Head(outbox) = From(t, m - t)
      BY <1>1, NextSlice
    <2>2. t \in Nat /\ m - t \in Nat
      BY <1>1, <2>1
    <2>3. Len(Head(outbox)) \in Nat
      BY <2>1, <2>2, FromBytes
    <2> QED
      BY <1>1, <2>3, StreamsAssumption
  <1>3. WritesInOrder' /\ OutboxMatchesProgress'
    BY <1>1, <1>2, SendEnds
  <1>4. /\ goErr' \in [{"r", "w"} -> {"none", "failure", "ErrNoProgress", "ErrShortWrite"}]
        /\ goErr'["r"] = goErr["r"] /\ goErr'["w"] # "none"
    BY DEF SendFails, RefuseWrite, StreamsInv, StreamTypes
  <1> QED
    BY <1>1, <1>3, <1>4, ReaderAlone DEF AfterSend

LEMMA SendPanicsInv == ASSUME StreamsInv, SendPanics PROVE StreamsInv'
  <1>1. /\ progress \in {"writing", "flushing"} /\ outbox # <<>> /\ taken' = taken
        /\ outbox' = <<>> /\ adapterFailed' = adapterFailed \union {"w"}
        /\ panicked' = panicked \union {"w"}
        /\ progress' = AfterSend /\ UNCHANGED <<wrote, staged, readVars, goErr, callEnds>>
        /\ wrote \in Nat /\ staged \in Seq(Nat)
        /\ goErr \in [{"r", "w"} -> {"none", "failure", "ErrNoProgress", "ErrShortWrite"}]
    BY DEF StreamsInv, StreamTypes, SendPanics
  <1>2. WritesInOrder' /\ OutboxMatchesProgress'
    BY <1>1 DEF StreamsInv, WritesInOrder, OutboxMatchesProgress
  <1> QED
    BY <1>1, <1>2, ReaderAlone DEF AfterSend

LEMMA LibraryReturnsInv ==
  ASSUME StreamsInv, NEW fails \in BOOLEAN, LibraryReturns(fails) PROVE StreamsInv'
  <1>0. /\ wrote \in Nat /\ wrote' = wrote /\ staged \in Seq(Nat) /\ progress = "native"
        /\ outbox = <<>> /\ taken' = taken /\ libraryFailed' = fails
        /\ UNCHANGED <<readVars, crossVars, lentStreams, streamAnswer>>
    BY DEF StreamsInv, StreamTypes, OutboxMatchesProgress, LibraryReturns
  <1>1. WritesInOrder' /\ OutboxMatchesProgress' /\ staged' \in Seq(Nat)
        /\ progress' \in {"back", "flushing"}
    <2>1. CASE "w" \in adapterFailed \/ staged = <<>>
      <3>1. progress' = "back" /\ UNCHANGED <<outbox, staged>>
        BY <2>1 DEF LibraryReturns
      <3>2. WritesInOrder'
        BY <1>0, <3>1, WriterAlone DEF StreamsInv, writeVars, crossVars
      <3> QED
        BY <1>0, <2>1, <3>1, <3>2 DEF OutboxMatchesProgress, crossVars
    <2>2. CASE ~("w" \in adapterFailed \/ staged = <<>>)
      <3>0. progress' = "flushing" /\ outbox' = <<staged>> /\ staged' = <<>>
        BY <2>2 DEF LibraryReturns
      <3>1. PICK t, p \in 0..wrote :
              taken = From(0, t) /\ t <= p /\ Outgoing(t, p) /\ staged = From(p, wrote - p)
        BY <2>2 DEF StreamsInv, WritesInOrder
      <3>2. p = t
        BY <1>0, <3>1, TwoSlices DEF Outgoing
      <3>3. PICK old : old = wrote
        OBVIOUS
      <3>4. t < old /\ old - old = 0 /\ From(old, 0) = <<>> /\ <<>> \in Seq(Nat)
        <4>1. wrote - p \in Nat /\ p \in Nat
          BY <1>0
        <4>2. wrote - p # 0
          BY <2>2, <3>1, <4>1, FromBytes
        <4>3. From(old, 0) = <<>>
          BY <1>0, <3>3, FromBytes
        <4> QED
          BY <1>0, <3>2, <3>3, <4>2, <4>3
      <3>5. Outgoing(t, old)' /\ staged' = From(old, wrote' - old)
        BY <1>0, <3>0, <3>1, <3>2, <3>3, <3>4 DEF Outgoing
      <3>6. WritesInOrder'
        BY <1>0, <2>2, <3>1, <3>3, <3>4, <3>5 DEF WritesInOrder
      <3> QED
        BY <1>0, <2>2, <3>0, <3>4, <3>6 DEF OutboxMatchesProgress, crossVars
    <2> QED
      BY <2>1, <2>2
  <1>2. StreamTypes'
    BY <1>0, <1>1 DEF StreamsInv, StreamTypes, readVars, crossVars
  <1>3. FailuresRecorded' /\ got' = From(0, handed')
    BY <1>0 DEF StreamsInv, FailuresRecorded, readVars, crossVars
  <1>4. streamAnswer' # "ok" /\ progress' # "answered"
    BY <1>0, <1>1 DEF StreamsInv, StreamTypes
  <1> QED
    BY <1>1, <1>2, <1>3, <1>4 DEF StreamsInv, StreamFailuresSurface

LEMMA AnswerStreamsInv == ASSUME StreamsInv, AnswerStreams PROVE StreamsInv'
  <1>1. /\ progress = "back" /\ streamAnswer' = AnswerOf /\ progress' = "answered"
        /\ UNCHANGED <<readVars, writeVars, crossVars, lentStreams, libraryFailed>>
    BY DEF AnswerStreams
  <1>2. WritesInOrder'
    BY <1>1, WriterAlone DEF StreamsInv, crossVars
  <1>3. StreamTypes' /\ FailuresRecorded' /\ OutboxMatchesProgress' /\ got' = From(0, handed')
    BY <1>1 DEF StreamsInv, StreamTypes, FailuresRecorded, OutboxMatchesProgress,
                readVars, writeVars, crossVars
  <1>4. /\ (AnswerOf = "panic") = (panicked # {})
        /\ AnswerOf \in {"ok", "native error"} =>
             /\ panicked = {} /\ goErr["r"] = "none" /\ goErr["w"] = "none"
             /\ (AnswerOf = "ok") = ~libraryFailed
    BY DEF AnswerOf, StreamsInv, StreamTypes
  <1>5. AnswerOf \in {"ok", "native error"} =>
          adapterFailed = {} /\ readTerminal \in {"none", "EOF"}
    BY <1>4 DEF StreamsInv, StreamTypes, FailuresRecorded
  <1>6. StreamFailuresSurface'
    BY <1>1, <1>4, <1>5 DEF StreamFailuresSurface, readVars, crossVars
  <1>7. streamAnswer' = "ok" => progress' = "answered" /\ "w" \notin adapterFailed'
    BY <1>1, <1>5 DEF crossVars
  <1> QED
    BY <1>2, <1>3, <1>6, <1>7 DEF StreamsInv

LEMMA StreamsNextInv == StreamsInv /\ [StreamsNext]_streamVars => StreamsInv'
  <1> SUFFICES ASSUME StreamsInv, [StreamsNext]_streamVars PROVE StreamsInv'
    OBVIOUS
  <1>1. CASE StreamsNext
    BY <1>1, CallWithStreamsInv, ReadFixedInv, StartReadInv, ReadTerminalInv, ReadNothingInv,
       ReadPanicsInv, ReadSomeInv, PushInv, FlushWriterInv, SendInv, SendPanicsInv, SendFailsInv,
       LibraryReturnsInv, AnswerStreamsInv DEF StreamsNext
  <1>2. CASE UNCHANGED streamVars
    <2>1. UNCHANGED <<progress, readVars, writeVars, crossVars, callEnds>>
      BY <1>2 DEF streamVars
    <2>2. WritesInOrder'
      BY <2>1, WriterAlone DEF StreamsInv, crossVars
    <2> QED
      BY <2>1, <2>2 DEF StreamsInv, StreamTypes, FailuresRecorded, OutboxMatchesProgress,
                        StreamFailuresSurface, readVars, writeVars, crossVars, callEnds
  <1> QED
    BY <1>1, <1>2

LEMMA StreamsInvImplies == StreamsInv => BytesArriveInOrder /\ StreamFailuresSurface
  <1> SUFFICES ASSUME StreamsInv PROVE BytesArriveInOrder
    BY DEF StreamsInv
  <1>1. wrote \in Nat
    BY DEF StreamsInv, StreamTypes
  <1>2. PICK t, p \in 0..wrote :
          /\ taken = From(0, t) /\ t <= p
          /\ "w" \notin adapterFailed => Outgoing(t, p) /\ staged = From(p, wrote - p)
    BY DEF StreamsInv, WritesInOrder
  <1>3. Len(taken) = t
    BY <1>1, <1>2, FromBytes
  <1>4. ASSUME streamAnswer = "ok" PROVE t = wrote
    <2>1. "w" \notin adapterFailed /\ outbox = <<>> /\ staged = <<>>
      BY <1>4 DEF StreamsInv, OutboxMatchesProgress
    <2>2. p = t
      BY <1>2, <2>1, TwoSlices DEF Outgoing
    <2>3. wrote - p \in Nat /\ p \in Nat
      BY <1>1
    <2>4. wrote - p = 0
      BY <1>2, <2>1, <2>3, FromBytes
    <2> QED
      BY <1>1, <2>2, <2>4
  <1> QED
    BY <1>1, <1>2, <1>3, <1>4 DEF StreamsInv, BytesArriveInOrder

\* For any number of bytes and any sizes of room, stage and slices: native code has
\* what the reader handed out, the writer a prefix of what the library wrote, and
\* all of it when the call answers ok.
THEOREM StreamsCarryBytesInOrder == StreamsSpec => []BytesArriveInOrder
  BY StreamsInitInv, StreamsNextInv, StreamsInvImplies, PTL DEF StreamsSpec

\* A reader or writer that failed, fell short or panicked is what the call answers,
\* whatever the library made of it.
THEOREM StreamFailuresAreAnswered == StreamsSpec => []StreamFailuresSurface
  BY StreamsInitInv, StreamsNextInv, StreamsInvImplies, PTL DEF StreamsSpec

-----------------------------------------------------------------------------
(***************************************************************************)
(* RowsAreOwn for every set of calls, every supply of slices and every     *)
(* bound: the strengthening says who can reach a slice.  A slice a call    *)
(* holds is neither kept nor held by another, so nobody else can write it. *)
(***************************************************************************)
ScratchTypes ==
  /\ keptSlice \in ScratchSlices \union {NoSlice}
  /\ holds \in [ScratchCalls -> ScratchSlices \union {NoSlice}]
  /\ callStage \in [ScratchCalls -> {"out", "taken", "filled", "copied"}]
  /\ sliceCap \in [ScratchSlices -> 0..MaxRows]
  /\ rows \in [ScratchSlices -> ScratchCalls \union {Nobody}]
  /\ wants \in [ScratchCalls -> 0..MaxRows]
  /\ copiedRows \in [ScratchCalls -> ScratchCalls \union {Nobody}]

\* The slice a call holds is its own.
HeldByOne ==
  \A c \in ScratchCalls :
    IF callStage[c] = "out" THEN holds[c] = NoSlice ELSE
      /\ holds[c] \in ScratchSlices
      /\ holds[c] # keptSlice
      /\ \A d \in ScratchCalls \ {c} : holds[d] # holds[c]

\* Once filled, it holds the call's rows.
FilledByHolder ==
  \A c \in ScratchCalls : callStage[c] \in {"filled", "copied"} => rows[holds[c]] = c

ScratchInv == ScratchTypes /\ HeldByOne /\ FilledByHolder /\ RowsAreOwn

LEMMA ScratchInitInv == ScratchInit => ScratchInv
<1> SUFFICES ASSUME ScratchInit PROVE ScratchInv
  OBVIOUS
<1> USE ScratchAssumption DEF ScratchInit, Nobody
<1>1. ScratchTypes
  BY DEF ScratchTypes
<1>2. HeldByOne /\ FilledByHolder /\ RowsAreOwn
  BY DEF HeldByOne, FilledByHolder, RowsAreOwn
<1> QED BY <1>1, <1>2 DEF ScratchInv

LEMMA TakeKeeps ==
  ASSUME ScratchInv, NEW c \in ScratchCalls, NEW s \in ScratchSlices,
         NEW n \in 0..MaxRows, take(c, s, n)
  PROVE  ScratchInv'
<1> USE ScratchAssumption DEF take, SwapOut, Unreferenced, ScratchInv, ScratchTypes, Nobody
<1>1. ScratchTypes'
  OBVIOUS
<1>2. \A d \in ScratchCalls : holds[d] # s
  BY DEF HeldByOne
<1>3. HeldByOne'
  BY <1>2 DEF HeldByOne
<1>4. FilledByHolder'
  BY <1>2 DEF FilledByHolder
<1>5. RowsAreOwn'
  BY <1>2 DEF RowsAreOwn, HeldByOne
<1> QED BY <1>1, <1>3, <1>4, <1>5

LEMMA FillKeeps ==
  ASSUME ScratchInv, NEW c \in ScratchCalls, FillRows(c)
  PROVE  ScratchInv'
<1> USE ScratchAssumption DEF FillRows, ScratchInv, ScratchTypes, Nobody
<1>1. holds[c] \in ScratchSlices /\ \A d \in ScratchCalls \ {c} : holds[d] # holds[c]
  BY DEF HeldByOne
<1>2. ScratchTypes'
  BY <1>1
<1>3. HeldByOne'
  BY DEF HeldByOne
<1>4. FilledByHolder'
  BY <1>1 DEF FilledByHolder
<1>5. RowsAreOwn'
  BY DEF RowsAreOwn
<1> QED BY <1>2, <1>3, <1>4, <1>5

LEMMA CopyKeeps ==
  ASSUME ScratchInv, NEW c \in ScratchCalls, CopyRows(c)
  PROVE  ScratchInv'
<1> USE ScratchAssumption DEF CopyRows, ScratchInv, ScratchTypes, Nobody
<1>1. rows[holds[c]] = c
  BY DEF FilledByHolder
<1>2. ScratchTypes'
  BY <1>1
<1>3. HeldByOne' /\ FilledByHolder'
  BY DEF HeldByOne, FilledByHolder
<1>4. RowsAreOwn'
  BY <1>1 DEF RowsAreOwn
<1> QED BY <1>2, <1>3, <1>4

LEMMA GiveKeeps ==
  ASSUME ScratchInv, NEW c \in ScratchCalls, give(c)
  PROVE  ScratchInv'
<1> USE ScratchAssumption DEF give, ScratchInv, ScratchTypes, Nobody
<1>1. ScratchTypes'
  OBVIOUS
<1>2. HeldByOne'
  BY DEF HeldByOne
<1>3. FilledByHolder' /\ RowsAreOwn'
  BY DEF FilledByHolder, RowsAreOwn
<1> QED BY <1>1, <1>2, <1>3

LEMMA ReleaseScratchKeeps ==
  ASSUME ScratchInv, ReleaseScratch
  PROVE  ScratchInv'
<1> USE ScratchAssumption DEF ReleaseScratch, ScratchInv, ScratchTypes, Nobody
<1>1. ScratchTypes' /\ HeldByOne'
  BY DEF HeldByOne
<1>2. FilledByHolder' /\ RowsAreOwn'
  BY DEF FilledByHolder, RowsAreOwn
<1> QED BY <1>1, <1>2

LEMMA ScratchStepInv == ScratchInv /\ [ScratchNext]_scratchVars => ScratchInv'
<1> SUFFICES ASSUME ScratchInv, [ScratchNext]_scratchVars PROVE ScratchInv'
  OBVIOUS
<1>1. CASE \E c \in ScratchCalls, s \in ScratchSlices, n \in 0..MaxRows : take(c, s, n)
  BY <1>1, TakeKeeps
<1>2. CASE \E c \in ScratchCalls : FillRows(c) \/ CopyRows(c) \/ give(c)
  BY <1>2, FillKeeps, CopyKeeps, GiveKeeps
<1>3. CASE ReleaseScratch
  BY <1>3, ReleaseScratchKeeps
<1>4. CASE UNCHANGED scratchVars
  BY <1>4 DEF scratchVars, ScratchInv, ScratchTypes, HeldByOne, FilledByHolder, RowsAreOwn, Nobody
<1> QED BY <1>1, <1>2, <1>3, <1>4 DEF ScratchNext

\* Calls that share a handle's scratch buffer never see each other's rows and
\* never run out of room, for every number of calls, slices and rows.
THEOREM ScratchRowsAreOwn == ScratchSpec => []RowsAreOwn
<1>1. ScratchInv => RowsAreOwn
  BY DEF ScratchInv
<1> QED BY <1>1, ScratchInitInv, ScratchStepInv, PTL DEF ScratchSpec
=============================================================================

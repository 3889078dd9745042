---------------------------- MODULE Callbacks_proofs ----------------------------
(***************************************************************************)
(* The callback registry for any number of goroutines, native threads and  *)
(* tokens: its types, that no callback runs once the deletion of its token *)
(* is over, and that both package counters are exact.  Then the wrappers   *)
(* that retain callbacks, on top of it: where every registered token is,   *)
(* and who frees the handle.                                               *)
(***************************************************************************)
EXTENDS RetainedCallback, FiniteSetTheorems, SequenceTheorems, TLAPS

Deleting == {"close", "wait", "uncount"}
Inside   == {"run", "record", "recordErr", "release"}

\* Invocations and registry calls work on tokens that have been issued.
NamesIssued ==
  /\ \A a \in Callers : frame[a] # "out" => userdata[a] \in 1..issued
  /\ \A t \in Clients : job[t] # "none" => target[t] \in 1..issued

\* One deletion finds the token, and a waiting one has closed it to new calls.
DeletedOnce ==
  \A t \in Clients : job[t] \in Deleting =>
    /\ target[t] \notin registered
    /\ \A u \in Clients : job[u] \in Deleting /\ target[u] = target[t] => u = t
    /\ job[t] = "wait" => closing[target[t]]

\* No deletion has yet to close token k, or waits for its calls.
Settled(k) == \A t \in Clients : job[t] \in {"close", "wait"} => target[t] # k

\* A token that is gone lets nobody in and has nobody inside.
GoneIsEmpty ==
  \A k \in 1..issued : k \notin registered /\ Settled(k) => closing[k] /\ active[k] = 0

ActiveCountsRunning == \A k \in Tokens : active[k] = Cardinality(Running(k))

RegistryInv ==
  /\ RegistryTypeOK /\ NamesIssued /\ DeletedOnce /\ GoneIsEmpty
  /\ ActiveCountsRunning /\ PendingCountsPanics /\ ActiveCountsTokens

-----------------------------------------------------------------------------
(* Finite sets.                                                            *)

LEMMA TokensFinite ==
  ASSUME NEW S \in SUBSET Tokens
  PROVE  IsFiniteSet(S) /\ Cardinality(S) \in Nat
<1>1. IsFiniteSet(Tokens)
  BY CallersAssumption, FS_Interval DEF Tokens
<1> QED  BY <1>1, FS_Subset, FS_CardinalityType

LEMMA RunningFinite ==
  ASSUME NEW k
  PROVE  IsFiniteSet(Running(k)) /\ Cardinality(Running(k)) \in Nat
<1>1. Running(k) \in SUBSET Callers
  BY DEF Running
<1> QED  BY <1>1, CallersAssumption, FS_Subset, FS_CardinalityType

LEMMA IssuedAreTokens ==
  ASSUME RegistryTypeOK
  PROVE  issued \in Nat /\ 1..issued \subseteq Tokens
BY CallersAssumption DEF RegistryTypeOK, Tokens

\* The count of live tokens does not change with the sets it counts.
Live == registered \union {k \in Tokens : BeingDeleted(k)}
Kept == {k \in Tokens : panicked[k]}

LEMMA CountsUnfold ==
  /\ ActiveCountsTokens <=> activeCallbackHandles = Cardinality(Live)
  /\ PendingCountsPanics <=> pendingCallbackPanics = Cardinality(Kept)
BY DEF ActiveCountsTokens, PendingCountsPanics, Live, Kept

-----------------------------------------------------------------------------
(* The initial state.                                                      *)

LEMMA RegistryInitInv == RegistryInit => RegistryInv
<1> SUFFICES ASSUME RegistryInit PROVE RegistryInv
  OBVIOUS
<1> USE CallersAssumption
<1>1. RegistryTypeOK
  BY DEF RegistryInit, RegistryTypeOK, Tokens, NoToken, Callers, Frames, Jobs
<1>2. NamesIssued /\ DeletedOnce /\ GoneIsEmpty
  BY DEF RegistryInit, NamesIssued, DeletedOnce, GoneIsEmpty, Callers, Deleting
<1>3. ActiveCountsRunning
  <2>1. \A k : Running(k) = {}
    BY DEF RegistryInit, Running
  <2> QED  BY <2>1, FS_EmptySet DEF RegistryInit, ActiveCountsRunning
<1>4. PendingCountsPanics
  <2>1. {k \in Tokens : panicked[k]} = {}
    BY DEF RegistryInit
  <2> QED  BY <2>1, FS_EmptySet DEF RegistryInit, PendingCountsPanics
<1>5. ActiveCountsTokens
  <2>1. registered \union {k \in Tokens : BeingDeleted(k)} = {}
    BY DEF RegistryInit, BeingDeleted
  <2> QED  BY <2>1, FS_EmptySet DEF RegistryInit, ActiveCountsTokens
<1> QED  BY <1>1, <1>2, <1>3, <1>4, <1>5 DEF RegistryInv

-----------------------------------------------------------------------------
(* The dispatcher.                                                         *)

\* A step of the dispatcher that neither enters nor leaves the callback.
LEMMA PassingStep ==
  ASSUME RegistryInv, NEW a \in Callers,
         \/ Invoke(a, userdata'[a]) /\ userdata'[a] \in 1..issued
         \/ LoadCallback(a) \/ CallbackEnds(a) \/ RecordErr(a)
  PROVE  RegistryInv'
<1> USE CallersAssumption DEF RegistryInv
<1>1. RegistryTypeOK'
  <2> USE DEF RegistryTypeOK, Frames, entries, counters, jobs, Tokens, NoToken
  <2>1. CASE Invoke(a, userdata'[a]) /\ userdata'[a] \in 1..issued
    BY <2>1, IssuedAreTokens DEF Invoke
  <2>2. CASE LoadCallback(a)
    BY <2>2 DEF LoadCallback, GotoFrame, LeaveFrame
  <2>3. CASE CallbackEnds(a)
    BY <2>3 DEF CallbackEnds, GotoFrame
  <2>4. CASE RecordErr(a)
    BY <2>4 DEF RecordErr, GotoFrame, NamesIssued
  <2> QED  BY <2>1, <2>2, <2>3, <2>4
<1>2. UNCHANGED <<issued, registered, value, closing, active, panicked, counters, jobs>>
  BY DEF Invoke, LoadCallback, CallbackEnds, RecordErr, entries
<1>3. NamesIssued'
  BY <1>2 DEF RegistryTypeOK, NamesIssued, Invoke, LoadCallback, CallbackEnds, RecordErr,
              GotoFrame, LeaveFrame, jobs
<1>4. (DeletedOnce /\ GoneIsEmpty /\ PendingCountsPanics /\ ActiveCountsTokens)'
  BY <1>2 DEF DeletedOnce, GoneIsEmpty, Settled, PendingCountsPanics, ActiveCountsTokens,
              BeingDeleted, jobs, counters
<1>5. ASSUME NEW k PROVE Running(k)' = Running(k)
  BY DEF RegistryTypeOK, Running, Invoke, LoadCallback, CallbackEnds, RecordErr, GotoFrame,
         LeaveFrame
<1>6. ActiveCountsRunning'
  BY <1>2, <1>5 DEF ActiveCountsRunning
<1> QED  BY <1>1, <1>3, <1>4, <1>6

LEMMA AcquireStep ==
  ASSUME RegistryInv, NEW a \in Callers, AcquireCallback(a)
  PROVE  RegistryInv'
<1> USE CallersAssumption DEF RegistryInv
<1>0. frame[a] = "acquire"
  BY DEF AcquireCallback
<1>1. PICK token \in Tokens : token = userdata[a] /\ token \in 1..issued
  BY <1>0, IssuedAreTokens DEF NamesIssued
<1>2. UNCHANGED <<issued, registered, value, closing, panicked, counters, jobs>>
  BY DEF AcquireCallback
<1>3. RegistryTypeOK' /\ NamesIssued'
  <2>1. CASE closing[token]
    BY <1>1, <2>1, ZenonT(40) DEF RegistryTypeOK, NamesIssued, AcquireCallback, LeaveFrame, Frames,
                      counters, jobs, Tokens, NoToken
  <2>2. CASE ~closing[token]
    <3>1. /\ active' = [active EXCEPT ![token] = @ + 1]
          /\ frame' = [frame EXCEPT ![a] = "run"] /\ userdata' = userdata
          /\ woken' = woken /\ goErr' = goErr
      BY <1>1, <2>2 DEF AcquireCallback, GotoFrame
    <3>2. active' \in [Tokens -> Nat] /\ frame' \in [Callers -> Frames]
      BY <1>1, <3>1 DEF RegistryTypeOK, Frames
    <3>3. RegistryTypeOK'
      BY <1>2, <3>1, <3>2 DEF RegistryTypeOK, counters, jobs
    <3> QED  BY <1>0, <1>2, <3>1, <3>3 DEF NamesIssued, jobs
  <2> QED  BY <2>1, <2>2
<1>4. (DeletedOnce /\ PendingCountsPanics /\ ActiveCountsTokens)'
  BY <1>2 DEF DeletedOnce, PendingCountsPanics, ActiveCountsTokens, BeingDeleted, jobs, counters
<1>5. GoneIsEmpty'
  BY <1>1, <1>2 DEF GoneIsEmpty, Settled, AcquireCallback, RegistryTypeOK, jobs, Tokens
<1>6. ActiveCountsRunning'
  <2>1. CASE closing[token]
    <3>1. active' = active /\ \A k : Running(k)' = Running(k)
      BY <1>1, <2>1 DEF AcquireCallback, LeaveFrame, Running, RegistryTypeOK
    <3> QED  BY <3>1 DEF ActiveCountsRunning
  <2>2. CASE ~closing[token]
    <3>1. Running(token)' = Running(token) \union {a} /\ a \notin Running(token)
      BY <1>1, <2>2 DEF AcquireCallback, GotoFrame, Running, RegistryTypeOK
    <3>2. \A k \in Tokens \ {token} : Running(k)' = Running(k)
      BY <1>1, <2>2 DEF AcquireCallback, GotoFrame, Running, RegistryTypeOK
    <3>3. Cardinality(Running(token)') = Cardinality(Running(token)) + 1
      BY <3>1, RunningFinite, FS_AddElement
    <3>4. active' = [active EXCEPT ![token] = @ + 1] /\ active \in [Tokens -> Nat]
      BY <1>1, <2>2 DEF AcquireCallback, RegistryTypeOK
    <3> QED  BY <1>1, <3>2, <3>3, <3>4 DEF ActiveCountsRunning
  <2> QED  BY <2>1, <2>2
<1> QED  BY <1>3, <1>4, <1>5, <1>6

LEMMA ReleaseStep ==
  ASSUME RegistryInv, NEW a \in Callers, ReleaseCallback(a)
  PROVE  RegistryInv'
<1> USE CallersAssumption DEF RegistryInv
<1>1. PICK token \in Tokens : token = userdata[a] /\ token \in 1..issued
  BY IssuedAreTokens DEF ReleaseCallback, NamesIssued
<1>2. UNCHANGED <<issued, registered, value, closing, panicked, counters, jobs>>
  BY DEF ReleaseCallback
<1>3. Running(token)' = Running(token) \ {a} /\ a \in Running(token)
  BY <1>1 DEF ReleaseCallback, LeaveFrame, Running, RegistryTypeOK
<1>4. \A k \in Tokens \ {token} : Running(k)' = Running(k)
  BY <1>1 DEF ReleaseCallback, LeaveFrame, Running, RegistryTypeOK
<1>5. /\ Cardinality(Running(token)') = active[token] - 1
      /\ active[token] \in Nat \ {0}
  <2>1. Cardinality(Running(token)') = Cardinality(Running(token)) - 1
    BY <1>3, RunningFinite, FS_RemoveElement
  <2>2. Cardinality(Running(token)) # 0
    BY <1>3, RunningFinite, FS_EmptySet
  <2> QED  BY <1>1, <2>1, <2>2, RunningFinite DEF ActiveCountsRunning
<1>6. active' = [active EXCEPT ![token] = @ - 1] /\ active \in [Tokens -> Nat]
  BY <1>1 DEF ReleaseCallback, RegistryTypeOK
<1>7. ActiveCountsRunning'
  BY <1>1, <1>4, <1>5, <1>6 DEF ActiveCountsRunning
<1>8. RegistryTypeOK' /\ NamesIssued'
  BY <1>1, <1>5 DEF RegistryTypeOK, NamesIssued, ReleaseCallback, LeaveFrame, Frames,
              counters, jobs, Tokens, NoToken
<1>9. (DeletedOnce /\ PendingCountsPanics /\ ActiveCountsTokens)'
  BY <1>2 DEF DeletedOnce, PendingCountsPanics, ActiveCountsTokens, BeingDeleted, jobs, counters
<1>10. GoneIsEmpty'
  BY <1>1, <1>2, <1>5, <1>6 DEF GoneIsEmpty, Settled, jobs, RegistryTypeOK, Tokens
<1> QED  BY <1>7, <1>8, <1>9, <1>10

LEMMA RecordStep ==
  ASSUME RegistryInv, NEW a \in Callers, Record(a)
  PROVE  RegistryInv'
<1> USE CallersAssumption DEF RegistryInv
<1>1. PICK token \in Tokens : token = userdata[a] /\ token \in 1..issued
  BY IssuedAreTokens DEF Record, NamesIssued
<1>2. UNCHANGED <<issued, registered, value, closing, active, activeCallbackHandles, jobs>>
  BY DEF Record
<1>3. RegistryTypeOK' /\ NamesIssued'
  BY <1>1 DEF RegistryTypeOK, NamesIssued, Record, GotoFrame, Frames, jobs
<1>4. (DeletedOnce /\ ActiveCountsTokens /\ GoneIsEmpty)'
  BY <1>2 DEF DeletedOnce, ActiveCountsTokens, BeingDeleted, GoneIsEmpty, Settled, jobs
<1>5. ActiveCountsRunning'
  <2>1. \A k : Running(k)' = Running(k)
    BY DEF Record, GotoFrame, Running, RegistryTypeOK
  <2> QED  BY <1>2, <2>1 DEF ActiveCountsRunning
<1>6. PendingCountsPanics'
  <2>1. Kept' = Kept \union {token}
    BY <1>1 DEF Record, Kept, RegistryTypeOK
  <2>2. IsFiniteSet(Kept) /\ Cardinality(Kept) \in Nat
    BY TokensFinite DEF Kept
  <2>3. Cardinality(Kept') = Cardinality(Kept) + IF panicked[token] THEN 0 ELSE 1
    <3>1. token \in Kept <=> panicked[token]
      BY <1>1 DEF Kept
    <3>2. Cardinality(Kept \union {token})
            = IF token \in Kept THEN Cardinality(Kept) ELSE Cardinality(Kept) + 1
      BY <2>2, FS_AddElement
    <3> QED  BY <2>1, <2>2, <3>1, <3>2
  <2> QED  BY <1>1, <2>3 DEF Record, PendingCountsPanics, Kept
<1> QED  BY <1>3, <1>4, <1>5, <1>6

-----------------------------------------------------------------------------
(* The registry's functions.                                               *)

\* A step of a call that is not deleting, neither before nor after it.
LEMMA QuietJob ==
  ASSUME RegistryInv, NEW t \in Clients, job[t] \notin Deleting,
         NEW j \in Jobs \ Deleting, NEW k \in Tokens \union {NoToken}, NEW b \in BOOLEAN,
         j # "none" => k \in 1..issued,
         job' = [job EXCEPT ![t] = j], target' = [target EXCEPT ![t] = k],
         took' = [took EXCEPT ![t] = b],
         UNCHANGED <<issued, registered, value, closing, active, woken, activeCallbackHandles,
                     frame, userdata>>,
         goErr' \in [Tokens -> BOOLEAN]
  PROVE  /\ (NamesIssued /\ DeletedOnce /\ GoneIsEmpty)'
         /\ (ActiveCountsRunning /\ ActiveCountsTokens)'
         /\ (panicked' \in [Tokens -> BOOLEAN] /\ pendingCallbackPanics' \in Nat
               => RegistryTypeOK')
<1> USE DEF RegistryInv
<1>1. NamesIssued'
  BY DEF NamesIssued, RegistryTypeOK
<1>2. (DeletedOnce /\ GoneIsEmpty)'
  BY DEF DeletedOnce, GoneIsEmpty, Settled, Deleting, RegistryTypeOK
<1>3. ActiveCountsRunning'
  <2>1. \A m : Running(m)' = Running(m)
    BY DEF Running
  <2> QED  BY <2>1 DEF ActiveCountsRunning
<1>4. ActiveCountsTokens'
  <2>1. \A m \in Tokens : BeingDeleted(m)' = BeingDeleted(m)
    BY DEF BeingDeleted, Deleting, RegistryTypeOK
  <2>2. Live' = Live
    BY <2>1 DEF Live
  <2> QED  BY <2>2, CountsUnfold DEF ActiveCountsTokens, Live
<1>5. panicked' \in [Tokens -> BOOLEAN] /\ pendingCallbackPanics' \in Nat => RegistryTypeOK'
  BY DEF RegistryTypeOK
<1> QED  BY <1>1, <1>2, <1>3, <1>4, <1>5

LEMMA StartStep ==
  ASSUME RegistryInv, NEW t \in Clients, Free(t), NEW k \in 1..issued,
         \/ StartDelete(t, k)
         \/ StartTake(t, "findPanic", k) \/ StartTake(t, "findErr", k),
         UNCHANGED <<issued, registered, entries, counters, frames>>
  PROVE  RegistryInv'
<1> USE DEF RegistryInv
<1>1. k \in Tokens /\ k # NoToken
  BY IssuedAreTokens DEF NoToken
<1>2. PICK j \in {"delete", "findPanic", "findErr"} : StartJob(t, j, k)
  BY <1>1 DEF StartDelete, StartTake
<1>3. /\ j \in Jobs \ Deleting /\ job[t] \notin Deleting
      /\ UNCHANGED <<issued, registered, value, closing, active, woken, goErr, panicked,
                     activeCallbackHandles, pendingCallbackPanics, frame, userdata>>
  BY DEF Jobs, Deleting, Free, entries, counters, frames
<1>4. goErr' \in [Tokens -> BOOLEAN] /\ panicked' \in [Tokens -> BOOLEAN]
      /\ pendingCallbackPanics' \in Nat
  BY <1>3 DEF RegistryTypeOK
<1>5. /\ job' = [job EXCEPT ![t] = j] /\ target' = [target EXCEPT ![t] = k]
      /\ took' = [took EXCEPT ![t] = FALSE]
  BY <1>2 DEF StartJob
<1>6. PendingCountsPanics'
  BY <1>3 DEF PendingCountsPanics
<1> QED  BY <1>1, <1>3, <1>4, <1>5, <1>6, QuietJob

LEMMA FindStep ==
  ASSUME RegistryInv, NEW t \in Clients, FindEntry(t) \/ TakeCallbackError(t)
  PROVE  RegistryInv'
<1> USE DEF RegistryInv
<1>1. /\ job[t] \notin Deleting /\ job[t] # "none"
      /\ UNCHANGED <<issued, registered, value, closing, active, woken, panicked,
                     activeCallbackHandles, pendingCallbackPanics, frame, userdata>>
  BY DEF FindEntry, TakeCallbackError, Deleting, entries, counters, frames
<1>2. target[t] \in 1..issued /\ target[t] \in Tokens
  BY <1>1, IssuedAreTokens DEF NamesIssued
<1>3. goErr' \in [Tokens -> BOOLEAN]
  BY <1>2 DEF FindEntry, TakeCallbackError, entries, RegistryTypeOK
<1>4. panicked' \in [Tokens -> BOOLEAN] /\ pendingCallbackPanics' \in Nat
      /\ PendingCountsPanics'
  BY <1>1 DEF RegistryTypeOK, PendingCountsPanics
<1>5. \E j \in Jobs \ Deleting, k \in Tokens \union {NoToken}, b \in BOOLEAN :
        /\ j # "none" => k \in 1..issued
        /\ job' = [job EXCEPT ![t] = j] /\ target' = [target EXCEPT ![t] = k]
        /\ took' = [took EXCEPT ![t] = b]
  <2>1. \/ EndJob(t, FALSE) \/ EndJob(t, goErr[target[t]])
        \/ NextJob(t, "takePanic") \/ NextJob(t, "takeErr")
    BY DEF FindEntry, TakeCallbackError
  <2>2. ASSUME NEW b \in BOOLEAN, EndJob(t, b)
        PROVE  /\ "none" \in Jobs \ Deleting /\ NoToken \in Tokens \union {NoToken}
               /\ job' = [job EXCEPT ![t] = "none"] /\ target' = [target EXCEPT ![t] = NoToken]
               /\ took' = [took EXCEPT ![t] = b]
    BY <2>2 DEF EndJob, Jobs, Deleting
  <2>3. ASSUME NEW j \in {"takePanic", "takeErr"}, NextJob(t, j)
        PROVE  /\ j \in Jobs \ Deleting /\ took[t] \in BOOLEAN
               /\ job' = [job EXCEPT ![t] = j] /\ target' = [target EXCEPT ![t] = target[t]]
               /\ took' = [took EXCEPT ![t] = took[t]]
    BY <2>3 DEF NextJob, Jobs, Deleting, RegistryTypeOK
  <2>4. goErr[target[t]] \in BOOLEAN
    BY <1>2 DEF RegistryTypeOK
  <2>5. CASE \E b \in BOOLEAN : EndJob(t, b)
    BY <2>2, <2>5
  <2>6. CASE \E j \in {"takePanic", "takeErr"} : NextJob(t, j)
    BY <1>2, <2>3, <2>6
  <2> QED  BY <2>1, <2>4, <2>5, <2>6
<1> QED  BY <1>1, <1>3, <1>4, <1>5, QuietJob

LEMMA TakePanicStep ==
  ASSUME RegistryInv, NEW t \in Clients, TakeCallbackPanic(t)
  PROVE  RegistryInv'
<1> USE DEF RegistryInv
<1>1. job[t] = "takePanic"
  BY DEF TakeCallbackPanic
<1>2. PICK k \in Tokens : k = target[t] /\ k \in 1..issued
  BY <1>1, IssuedAreTokens DEF NamesIssued
<1>3. /\ UNCHANGED <<issued, registered, value, closing, active, goErr, woken,
                     activeCallbackHandles, frame, userdata>>
      /\ panicked' = [panicked EXCEPT ![k] = FALSE]
      /\ pendingCallbackPanics' = pendingCallbackPanics - IF panicked[k] THEN 1 ELSE 0
      /\ job' = [job EXCEPT ![t] = "none"] /\ target' = [target EXCEPT ![t] = NoToken]
      /\ took' = [took EXCEPT ![t] = panicked[k]]
  BY <1>2 DEF TakeCallbackPanic, EndJob, frames
<1>4. goErr' \in [Tokens -> BOOLEAN] /\ panicked' \in [Tokens -> BOOLEAN]
      /\ panicked[k] \in BOOLEAN
  BY <1>3 DEF RegistryTypeOK
<1>5. PendingCountsPanics' /\ pendingCallbackPanics' \in Nat
  <2>1. Kept' = Kept \ {k} /\ (k \in Kept <=> panicked[k])
    BY <1>3 DEF Kept, RegistryTypeOK
  <2>2. IsFiniteSet(Kept) /\ Cardinality(Kept) \in Nat
    BY TokensFinite DEF Kept
  <2>3. /\ IsFiniteSet(Kept \ {k})
        /\ Cardinality(Kept \ {k})
             = IF k \in Kept THEN Cardinality(Kept) - 1 ELSE Cardinality(Kept)
    BY <2>2, FS_RemoveElement
  <2>4. Cardinality(Kept \ {k}) \in Nat
    BY <2>3, FS_CardinalityType
  <2>5. pendingCallbackPanics = Cardinality(Kept)
    BY DEF PendingCountsPanics, Kept
  <2>6. pendingCallbackPanics' = Cardinality(Kept') /\ pendingCallbackPanics' \in Nat
    BY <1>3, <2>1, <2>2, <2>3, <2>4, <2>5
  <2> QED  BY <2>6 DEF PendingCountsPanics, Kept
<1>6. "none" \in Jobs \ Deleting /\ job[t] \notin Deleting
  BY <1>1 DEF Jobs, Deleting
<1> QED  BY <1>3, <1>4, <1>5, <1>6, QuietJob

\* What a step that deletes, closes or counts a token leaves alone.
LEMMA OtherCounts ==
  ASSUME RegistryInv, UNCHANGED <<active, panicked, pendingCallbackPanics, frames>>
  PROVE  (ActiveCountsRunning /\ PendingCountsPanics)'
<1>1. \A k : Running(k)' = Running(k)
  BY DEF Running, frames
<1> QED  BY <1>1 DEF RegistryInv, ActiveCountsRunning, PendingCountsPanics

LEMMA LoadAndDeleteStep ==
  ASSUME RegistryInv, NEW t \in Clients, LoadAndDelete(t)
  PROVE  RegistryInv'
<1> USE DEF RegistryInv
<1>1. job[t] = "delete" /\ job[t] \notin Deleting
      /\ UNCHANGED <<issued, value, closing, active, woken, goErr, panicked,
                     activeCallbackHandles, pendingCallbackPanics, frame, userdata>>
  BY DEF LoadAndDelete, entries, counters, frames, Deleting
<1>2. PICK k \in Tokens : k = target[t] /\ k \in 1..issued
  BY <1>1, IssuedAreTokens DEF NamesIssued
<1>3. (ActiveCountsRunning /\ PendingCountsPanics)'
  BY <1>1, OtherCounts DEF frames
<1>4. CASE k \notin registered
  <2>1. /\ job' = [job EXCEPT ![t] = "none"] /\ target' = [target EXCEPT ![t] = NoToken]
        /\ took' = [took EXCEPT ![t] = FALSE] /\ registered' = registered
    BY <1>2, <1>4 DEF LoadAndDelete, EndJob
  <2>2. "none" \in Jobs \ Deleting
    BY DEF Jobs, Deleting
  <2>3. goErr' \in [Tokens -> BOOLEAN] /\ panicked' \in [Tokens -> BOOLEAN]
        /\ pendingCallbackPanics' \in Nat
    BY <1>1 DEF RegistryTypeOK
  <2> QED  BY <1>1, <1>3, <2>1, <2>2, <2>3, QuietJob
<1>5. CASE k \in registered
  <2>1. /\ job' = [job EXCEPT ![t] = "close"] /\ UNCHANGED <<target, took>>
        /\ registered' = registered \ {k}
    BY <1>2, <1>5 DEF LoadAndDelete, NextJob
  <2>2. RegistryTypeOK'
    BY <1>1, <2>1 DEF RegistryTypeOK, Jobs
  <2>3. NamesIssued'
    BY <1>1, <1>2, <2>1 DEF NamesIssued, RegistryTypeOK
  <2>4. DeletedOnce'
    BY <1>1, <1>2, <1>5, <2>1 DEF DeletedOnce, Deleting, RegistryTypeOK
  <2>5. GoneIsEmpty'
    BY <1>1, <1>2, <2>1 DEF GoneIsEmpty, Settled, RegistryTypeOK
  <2>6. ActiveCountsTokens'
    <3>1. Live' = Live
      BY <1>1, <1>2, <1>5, <2>1 DEF Live, BeingDeleted, RegistryTypeOK, Deleting
    <3> QED  BY <1>1, <3>1 DEF ActiveCountsTokens, Live
  <2> QED  BY <1>3, <2>2, <2>3, <2>4, <2>5, <2>6
<1> QED  BY <1>4, <1>5

LEMMA CloseStep ==
  ASSUME RegistryInv, NEW t \in Clients, CloseEntry(t) \/ Drained(t)
  PROVE  RegistryInv'
<1> USE DEF RegistryInv
<1>1. /\ job[t] \in {"close", "wait"}
      /\ UNCHANGED <<issued, registered, active, goErr, panicked,
                     activeCallbackHandles, pendingCallbackPanics, frame, userdata>>
  BY DEF CloseEntry, Drained, counters, frames
<1>2. PICK k \in Tokens : k = target[t] /\ k \in 1..issued
  BY <1>1, IssuedAreTokens DEF NamesIssued
<1>3. (ActiveCountsRunning /\ PendingCountsPanics)'
  BY <1>1, OtherCounts DEF frames
<1>4. /\ closing' \in [Tokens -> BOOLEAN] /\ woken' \in [Tokens -> BOOLEAN]
      /\ value' \in [Tokens -> BOOLEAN]
      /\ closing'[k] /\ \A m \in Tokens \ {k} : closing'[m] = closing[m]
  BY <1>1, <1>2, ZenonT(40) DEF CloseEntry, Drained, RegistryTypeOK, DeletedOnce, Deleting
<1>5. PICK j \in {"wait", "uncount"} :
        /\ job' = [job EXCEPT ![t] = j] /\ UNCHANGED <<target, took>>
        /\ j = "uncount" => active[k] = 0
  <2>1. CASE CloseEntry(t)
    BY <1>2, <2>1 DEF CloseEntry, NextJob
  <2>2. CASE Drained(t) /\ active[k] # 0
    <3>1. job[t] = "wait" /\ UNCHANGED <<job, target, took>>
      BY <1>2, <2>2 DEF Drained, jobs
    <3>2. job' = [job EXCEPT ![t] = "wait"]
      BY <3>1 DEF RegistryTypeOK
    <3> QED  BY <3>1, <3>2
  <2>3. CASE Drained(t) /\ active[k] = 0
    BY <1>2, <2>3 DEF Drained, NextJob
  <2> QED  BY <2>1, <2>2, <2>3
<1>6. RegistryTypeOK' /\ NamesIssued'
  BY <1>1, <1>4, <1>5 DEF RegistryTypeOK, NamesIssued, Jobs
<1>7. DeletedOnce'
  <2>1. /\ target' = target /\ registered' = registered
        /\ job[t] \in Deleting /\ job'[t] = j /\ target[t] = k
        /\ \A u \in Clients \ {t} : job'[u] = job[u]
    BY <1>1, <1>2, <1>5 DEF Deleting, RegistryTypeOK
  <2>2. \A u \in Clients : job'[u] \in Deleting => job[u] \in Deleting
    BY <2>1
  <2>3. \A u \in Clients : job'[u] \in Deleting =>
          /\ target[u] \notin registered
          /\ \A v \in Clients : job'[v] \in Deleting /\ target[v] = target[u] => v = u
    BY <2>2 DEF DeletedOnce
  <2>4. ASSUME NEW u \in Clients, job'[u] = "wait"
        PROVE  closing'[target[u]]
    <3>1. CASE u = t
      BY <1>4, <2>1, <3>1
    <3>2. CASE u # t
      <4>1. job[u] = "wait"
        BY <2>1, <2>4, <3>2
      <4>2. closing[target[u]]
        BY <4>1 DEF DeletedOnce, Deleting
      <4>3. target[u] \in 1..issued
        BY <4>1 DEF NamesIssued
      <4>4. target[u] \in Tokens
        BY <4>3, IssuedAreTokens
      <4> QED  BY <1>4, <4>2, <4>4
    <3> QED  BY <3>1, <3>2
  <2> QED  BY <2>1, <2>3, <2>4 DEF DeletedOnce
<1>8. GoneIsEmpty'
  <2> SUFFICES ASSUME NEW m \in 1..issued, m \notin registered, Settled(m)'
               PROVE  closing'[m] /\ active[m] = 0
    BY <1>1 DEF GoneIsEmpty
  <2>1. CASE m = k
    BY <1>2, <1>4, <1>5, <2>1 DEF Settled, RegistryTypeOK
  <2>2. CASE m # k
    <3>1. Settled(m)
      BY <1>2, <1>5, <2>2 DEF Settled, RegistryTypeOK
    <3> QED  BY <1>4, <2>2, <3>1, IssuedAreTokens DEF GoneIsEmpty
  <2> QED  BY <2>1, <2>2
<1>9. ActiveCountsTokens'
  <2>1. \A m \in Tokens : BeingDeleted(m)' = BeingDeleted(m)
    BY <1>1, <1>5 DEF BeingDeleted, RegistryTypeOK
  <2> QED  BY <1>1, <2>1 DEF ActiveCountsTokens
<1> QED  BY <1>3, <1>6, <1>7, <1>8, <1>9

LEMMA UncountStep ==
  ASSUME RegistryInv, NEW t \in Clients, Uncount(t)
  PROVE  RegistryInv'
<1> USE DEF RegistryInv
<1>1. /\ job[t] = "uncount"
      /\ UNCHANGED <<issued, registered, value, closing, active, panicked, goErr, woken,
                     pendingCallbackPanics, frame, userdata>>
      /\ job' = [job EXCEPT ![t] = "none"] /\ target' = [target EXCEPT ![t] = NoToken]
      /\ took' = [took EXCEPT ![t] = TRUE]
      /\ activeCallbackHandles' = activeCallbackHandles - 1
  BY DEF Uncount, EndJob, entries, frames
<1>2. PICK k \in Tokens : k = target[t] /\ k \in 1..issued
  BY <1>1, IssuedAreTokens DEF NamesIssued
<1>3. (ActiveCountsRunning /\ PendingCountsPanics)'
  BY <1>1, OtherCounts DEF frames
<1>4. NamesIssued' /\ DeletedOnce'
  BY <1>1 DEF NamesIssued, DeletedOnce, Deleting, RegistryTypeOK
<1>5. GoneIsEmpty'
  BY <1>1 DEF GoneIsEmpty, Settled, RegistryTypeOK
<1>6. ActiveCountsTokens' /\ activeCallbackHandles' \in Nat
  <2>1. BeingDeleted(k) /\ k \notin registered
    BY <1>1, <1>2 DEF BeingDeleted, DeletedOnce, Deleting
  <2>2. ~BeingDeleted(k)'
    BY <1>1, <1>2 DEF BeingDeleted, DeletedOnce, Deleting, RegistryTypeOK
  <2>3. \A m \in Tokens \ {k} : BeingDeleted(m)' = BeingDeleted(m)
    BY <1>1, <1>2 DEF BeingDeleted, RegistryTypeOK
  <2>4. Live' = Live \ {k} /\ k \in Live
    BY <1>1, <2>1, <2>2, <2>3 DEF Live
  <2>5. IsFiniteSet(Live) /\ Cardinality(Live) \in Nat
    <3>1. Live \in SUBSET Tokens
      BY IssuedAreTokens DEF Live, RegistryTypeOK
    <3> QED  BY <3>1, TokensFinite
  <2>6. IsFiniteSet(Live \ {k}) /\ Cardinality(Live \ {k}) = Cardinality(Live) - 1
    BY <2>4, <2>5, FS_RemoveElement
  <2>7. Cardinality(Live \ {k}) \in Nat
    BY <2>6, FS_CardinalityType
  <2>8. activeCallbackHandles = Cardinality(Live)
    BY DEF ActiveCountsTokens, Live
  <2>9. activeCallbackHandles' = Cardinality(Live') /\ activeCallbackHandles' \in Nat
    BY <1>1, <2>4, <2>6, <2>7, <2>8
  <2> QED  BY <2>9 DEF ActiveCountsTokens, Live
<1>7. RegistryTypeOK'
  BY <1>1, <1>6 DEF RegistryTypeOK, Jobs
<1> QED  BY <1>3, <1>4, <1>5, <1>6, <1>7

LEMMA NewStep ==
  ASSUME RegistryInv, NewCallbackHandle, UNCHANGED jobs
  PROVE  RegistryInv'
<1> USE DEF RegistryInv
<1> DEFINE new == issued + 1
<1>1. /\ UNCHANGED <<closing, active, panicked, goErr, woken, pendingCallbackPanics, frame,
                     userdata, job, target, took>>
      /\ issued' = new /\ registered' = registered \union {new}
      /\ value' = [value EXCEPT ![new] = TRUE]
      /\ activeCallbackHandles' = activeCallbackHandles + 1
  BY DEF NewCallbackHandle, frames, jobs
<1>2. issued \in Nat /\ new \in Tokens /\ 1..issued' = 1..issued \union {new}
  BY <1>1, CallersAssumption DEF NewCallbackHandle, RegistryTypeOK, Tokens
<1>3. (ActiveCountsRunning /\ PendingCountsPanics)'
  BY <1>1, OtherCounts DEF frames
<1>4. NamesIssued' /\ GoneIsEmpty'
  BY <1>1, <1>2 DEF NamesIssued, GoneIsEmpty, Settled
<1>5. DeletedOnce'
  <2>1. \A t \in Clients : job[t] \in Deleting => target[t] # new
    BY <1>2 DEF NamesIssued, Deleting
  <2> QED  BY <1>1, <2>1 DEF DeletedOnce
<1>6. RegistryTypeOK'
  <2>1. registered' \subseteq 1..issued' /\ issued' \in 0..MaxToken
    BY <1>1, <1>2, CallersAssumption DEF RegistryTypeOK, Tokens
  <2>2. value' \in [Tokens -> BOOLEAN]
    BY <1>1, <1>2 DEF RegistryTypeOK
  <2>3. activeCallbackHandles' \in Nat
    BY <1>1 DEF RegistryTypeOK
  <2> HIDE DEF new
  <2> QED  BY <1>1, <2>1, <2>2, <2>3 DEF RegistryTypeOK
<1>7. ActiveCountsTokens'
  <2>1. Live' = Live \union {new}
    BY <1>1, <1>2 DEF Live, BeingDeleted
  <2>2. new \notin Live
    BY <1>2 DEF Live, BeingDeleted, NamesIssued, RegistryTypeOK
  <2>3. IsFiniteSet(Live)
    <3>1. Live \in SUBSET Tokens
      BY IssuedAreTokens DEF Live, RegistryTypeOK
    <3> QED  BY <3>1, TokensFinite
  <2>4. Cardinality(Live \union {new}) = Cardinality(Live) + 1
    BY <2>2, <2>3, FS_AddElement
  <2>5. activeCallbackHandles = Cardinality(Live)
    BY DEF ActiveCountsTokens, Live
  <2>6. activeCallbackHandles' = Cardinality(Live')
    BY <1>1, <2>1, <2>4, <2>5
  <2> QED  BY <2>6 DEF ActiveCountsTokens, Live
<1> QED  BY <1>3, <1>4, <1>5, <1>6, <1>7

-----------------------------------------------------------------------------
(* The registry's theorems.                                                *)

LEMMA RegistryNextInv == RegistryInv /\ [RegistryNext]_registryVars => RegistryInv'
<1> SUFFICES ASSUME RegistryInv, [RegistryNext]_registryVars PROVE RegistryInv'
  OBVIOUS
<1>1. ASSUME NEW t \in Clients, ClientStarts(t) PROVE RegistryInv'
  <2>1. CASE NewCallbackHandle /\ UNCHANGED jobs
    BY <2>1, NewStep
  <2>2. ASSUME NEW k \in 1..issued,
               \/ StartDelete(t, k)
               \/ StartTake(t, "findPanic", k) \/ StartTake(t, "findErr", k),
               UNCHANGED <<issued, registered, entries, counters, frames>>
        PROVE  RegistryInv'
    BY <1>1, <2>2, StartStep DEF ClientStarts
  <2> QED  BY <1>1, <2>1, <2>2 DEF ClientStarts
<1>2. ASSUME NEW t \in Clients, JobStep(t) PROVE RegistryInv'
  BY <1>2, LoadAndDeleteStep, CloseStep, UncountStep, FindStep, TakePanicStep DEF JobStep
<1>3. ASSUME NEW a \in Callers, NativeInvokes(a) PROVE RegistryInv'
  <2>1. PICK k \in 1..issued : Invoke(a, k)
    BY <1>3 DEF NativeInvokes
  <2>2. userdata'[a] = k
    BY <2>1 DEF Invoke, RegistryInv, RegistryTypeOK
  <2> QED  BY <2>1, <2>2, PassingStep
<1>4. ASSUME NEW a \in Callers, Dispatch(a) \/ CallbackEnds(a) PROVE RegistryInv'
  BY <1>4, PassingStep, AcquireStep, ReleaseStep, RecordStep DEF Dispatch
<1>5. CASE UNCHANGED registryVars
  <2>1. UNCHANGED <<issued, registered, value, closing, active, panicked, goErr, woken,
                    activeCallbackHandles, pendingCallbackPanics, frame, userdata, job,
                    target, took>>
    BY <1>5 DEF registryVars, entries, counters, frames, jobs
  <2> QED  BY <2>1 DEF RegistryInv, RegistryTypeOK, NamesIssued, DeletedOnce, GoneIsEmpty, Settled,
                       ActiveCountsRunning, PendingCountsPanics, ActiveCountsTokens, Running,
                       BeingDeleted
<1> QED  BY <1>1, <1>2, <1>3, <1>4, <1>5 DEF RegistryNext, Rest

\* The inductive invariant of the registry holds in every reachable state.
THEOREM RegistryInvariant == RegistrySpec => []RegistryInv
BY RegistryInitInv, RegistryNextInv, PTL DEF RegistrySpec

\* Every reachable state of the registry is well typed; in particular no counter
\* goes below zero.
THEOREM RegistryTypesHold == RegistrySpec => []RegistryTypeOK
<1>1. RegistryInv => RegistryTypeOK
  BY DEF RegistryInv
<1> QED  BY <1>1, RegistryInvariant, PTL

LEMMA GoneHasNobody == RegistryInv => NoCallbackAfterDelete
<1> SUFFICES ASSUME RegistryInv, NEW k \in 1..issued, k \notin registered, ~BeingDeleted(k)
             PROVE  Running(k) = {}
  BY DEF NoCallbackAfterDelete
<1>1. Settled(k) /\ k \in Tokens
  BY IssuedAreTokens DEF RegistryInv, Settled, BeingDeleted
<1>2. Cardinality(Running(k)) = 0
  BY <1>1 DEF RegistryInv, GoneIsEmpty, ActiveCountsRunning
<1> QED  BY <1>2, RunningFinite, FS_EmptySet

\* However many goroutines delete a token and native threads invoke it: once the
\* deletion that found it is over, none of them is inside its callback.
THEOREM DeletionIsFinal == RegistrySpec => []NoCallbackAfterDelete
BY GoneHasNobody, RegistryInvariant, PTL

\* The counter that fast paths read without a lock is the number of panics kept.
THEOREM PendingIsExact == RegistrySpec => []PendingCountsPanics
<1>1. RegistryInv => PendingCountsPanics
  BY DEF RegistryInv
<1> QED  BY <1>1, RegistryInvariant, PTL

\* The number of live tokens covers those registered and those being deleted.
THEOREM ActiveIsExact == RegistrySpec => []ActiveCountsTokens
<1>1. RegistryInv => ActiveCountsTokens
  BY DEF RegistryInv
<1> QED  BY <1>1, RegistryInvariant, PTL
-----------------------------------------------------------------------------
(* What the wrappers keep.                                                 *)

Labels   == {"idle", "register", "native", "pending", "panics", "errors", "status", "dispose",
             "cleanup", "deinit"}
\* Its parameter's token is the call's own.
Owning   == {"native", "pending", "panics", "errors", "status"}
\* Taking a token for a native call, and giving back what the call took.
Calling  == {"register"} \union Owning
Leaving  == {"dispose", "cleanup"}
Registering == {"new", "set", "apply"}

WrapperTypes ==
  /\ issued \in Nat
  /\ made \in BOOLEAN /\ closed \in BOOLEAN /\ taken \in BOOLEAN /\ calls \in Nat
  /\ object \in {"none", "live", "freed"}
  /\ slot \in [Slots -> 0..issued] /\ held \in [Slots -> 0..issued]
  /\ pc \in [Clients -> Labels]
  /\ op \in [Clients -> {"none", "new", "set", "run", "apply", "close"}]
  /\ own \in [Clients -> 0..issued] /\ failed \in [Clients -> BOOLEAN]
  /\ sweep \in [Clients -> Seq({"own"} \union Slots)]
  /\ doomed \in [Clients -> Seq(0..issued)]
  /\ stranded \subseteq 1..issued

\* Which operation is where, and what it has under way there.
Course(t) ==
  /\ pc[t] = "idle" <=> op[t] = "none"
  /\ pc[t] = "register" => op[t] \in Registering
  /\ pc[t] \in Owning \union {"dispose"} => op[t] # "close"
  /\ pc[t] \in {"cleanup", "deinit"} => op[t] \notin {"new", "apply"}
  /\ own[t] # NoToken => pc[t] \in Owning /\ op[t] \in Registering
  /\ pc[t] \in Owning /\ op[t] \in Registering => own[t] # NoToken
  /\ doomed[t] # <<>> => pc[t] \in Leaving
  /\ job[t] \in {"findPanic", "takePanic"} => pc[t] = "panics"
  /\ job[t] \in {"findErr", "takeErr"} => pc[t] = "errors"
  /\ job[t] \in {"delete", "close", "wait", "uncount"} => pc[t] \in Leaving

Courses == \A t \in Clients : Course(t)

\* The calls a handle counts.
Pinned == {t \in Clients : OnHandle(t) /\ pc[t] \notin {"cleanup", "deinit"}}

\* One constructor at a time; until it returns there is no handle to use.
MakingInv ==
  /\ \A t, u \in Clients : op[t] = "new" /\ op[u] = "new" => t = u
  /\ \A t \in Clients : op[t] = "new" /\ pc[t] \in Calling =>
       /\ ~made
       /\ held["new"] # NoToken => held["new"] = own[t]
       /\ held["new"] = NoToken => object = "none"
       /\ held["new"] # NoToken => object = "live"
       /\ pc[t] \notin {"register", "native"} /\ ~failed[t] => held["new"] = own[t]
  /\ ~made => calls = 0 /\ ~closed /\ (\A s \in Slots : slot[s] = NoToken)
  /\ made => object # "none"
  /\ object = "none" => held["new"] = NoToken

\* Whoever makes a closed handle's count zero, and nobody else, frees it.
ClosingInv ==
  /\ calls = Cardinality(Pinned)
  /\ taken => closed /\ calls = 0
  /\ closed /\ ~taken => calls # 0
  /\ \A t \in Clients : pc[t] = "deinit" =>
       taken /\ object # "freed" /\ \A u \in Clients : pc[u] = "deinit" => u = t
  /\ object = "freed" => taken
  /\ taken /\ (\A t \in Clients : pc[t] # "deinit") => object = "freed"

\* A handle holds what is in its slots until its resources are taken.
SlotsCount == taken => \E t \in Clients : pc[t] = "deinit"
InSlot(k) == SlotsCount /\ \E s \in Slots : slot[s] = k
Condemned(t, k) == \E i \in DOMAIN doomed[t] : doomed[t][i] = k
Holds(t, k) == own[t] = k \/ Condemned(t, k) \/ (job[t] = "delete" /\ target[t] = k)

\* No token is to be deleted twice.
DoomedOnce(t) ==
  /\ \A i, j \in DOMAIN doomed[t] :
       doomed[t][i] = doomed[t][j] /\ i # j => doomed[t][i] = NoToken
  /\ job[t] = "delete" => ~Condemned(t, target[t])

\* Every registered token is in exactly one place: with the call it was
\* registered for, or one that deletes it, in a slot, or stranded.
OnePlace ==
  /\ \A t \in Clients, k \in 1..issued : Holds(t, k) =>
       k \in registered /\ ~InSlot(k) /\ k \notin stranded
       /\ \A u \in Clients : Holds(u, k) => u = t
  /\ \A k \in 1..issued : InSlot(k) => k \in registered /\ k \notin stranded
  /\ stranded \subseteq registered
  /\ \A k \in registered : InSlot(k) \/ k \in stranded \/ \E t \in Clients : Holds(t, k)
  /\ slot["new"] = slot["set"] => slot["new"] = NoToken
  /\ \A t \in Clients : DoomedOnce(t)

WrapperInv == WrapperTypes /\ Courses /\ MakingInv /\ ClosingInv /\ OnePlace

-----------------------------------------------------------------------------
(* The registry below the wrappers.                                        *)

LEMMA WrapperVars ==
  ASSUME UNCHANGED vars
  PROVE  UNCHANGED <<registryVars, handle, nativeVars, pc, locals, inner, history>>
BY DEF vars

LEMMA RegistryRests ==
  ASSUME RegistryInv, UNCHANGED registryVars
  PROVE  RegistryInv'
BY RegistryNextInv

\* An idle goroutine's answer is forgotten.
LEMMA AnswerForgotten ==
  ASSUME RegistryInv, NEW t \in Clients, job[t] = "none", EndJob(t, FALSE),
         UNCHANGED <<issued, registered, entries, counters, frames>>
  PROVE  RegistryInv'
<1>1. /\ "none" \in Jobs \ Deleting /\ job[t] \notin Deleting
      /\ UNCHANGED <<issued, registered, value, closing, active, woken, goErr, panicked,
                     activeCallbackHandles, pendingCallbackPanics, frame, userdata>>
  BY DEF Jobs, Deleting, entries, counters, frames
<1>2. goErr' \in [Tokens -> BOOLEAN] /\ panicked' \in [Tokens -> BOOLEAN]
      /\ pendingCallbackPanics' \in Nat
  BY <1>1 DEF RegistryInv, RegistryTypeOK
<1>3. /\ job' = [job EXCEPT ![t] = "none"] /\ target' = [target EXCEPT ![t] = NoToken]
      /\ took' = [took EXCEPT ![t] = FALSE]
  BY DEF EndJob
<1>4. PendingCountsPanics'
  BY <1>1 DEF RegistryInv, PendingCountsPanics
<1> QED  BY <1>1, <1>2, <1>3, <1>4, QuietJob DEF RegistryInv

LEMMA KnownInvoked ==
  ASSUME RegistryInv, NEW a \in Callers, NEW k \in 1..issued, Invoke(a, k)
  PROVE  RegistryInv'
<1>1. userdata'[a] = k
  BY DEF Invoke, RegistryInv, RegistryTypeOK
<1> QED  BY <1>1, PassingStep

LEMMA SweepKeepsRegistry ==
  ASSUME RegistryInv, WrapperTypes, NEW t \in Clients,
         SweepPanics(t) \/ SweepErrors(t) \/ DeleteNext(t)
  PROVE  RegistryInv'
<1>1. Free(t) /\ job[t] = "none" /\ UNCHANGED <<issued, registered, entries, counters, frames>>
  BY DEF SweepPanics, SweepErrors, DeleteNext, At, Free
<1>2. CASE UNCHANGED jobs
  BY <1>1, <1>2, RegistryRests DEF registryVars
<1>3. CASE DeleteNext(t) /\ ~UNCHANGED jobs
  <2>1. doomed[t] \in Seq(0..issued) /\ doomed[t] # <<>>
    BY <1>3 DEF WrapperTypes, DeleteNext
  <2>2. PICK k \in 0..issued : k = Head(doomed[t])
    BY <2>1, HeadTailProperties
  <2>3. StartDelete(t, k) /\ k # NoToken
    BY <1>3, <2>2 DEF DeleteNext, StartDelete
  <2>4. k \in 1..issued
    BY <2>3, IssuedAreTokens DEF RegistryInv, NoToken
  <2> QED  BY <1>1, <2>3, <2>4, StartStep
<1>4. ASSUME NEW j \in {"findPanic", "findErr"}, NEW next, SweepOn(t, j, next), ~UNCHANGED jobs
      PROVE  RegistryInv'
  <2>1. sweep[t] \in Seq({"own"} \union Slots) /\ sweep[t] # <<>>
    BY <1>4 DEF WrapperTypes, SweepOn
  <2>2. PICK s \in {"own"} \union Slots : s = Head(sweep[t])
    BY <2>1, HeadTailProperties
  <2>3. PICK k \in 0..issued : k = TokenOf(t, s)
    BY <2>2 DEF WrapperTypes, TokenOf
  <2>4. StartTake(t, j, k)
    BY <1>4, <2>1, <2>2, <2>3 DEF SweepOn
  <2>5. CASE k = NoToken
    BY <1>1, <2>4, <2>5, AnswerForgotten DEF StartTake
  <2>6. CASE k # NoToken
    <3>1. k \in 1..issued
      BY <2>6, IssuedAreTokens DEF RegistryInv, NoToken
    <3> QED  BY <1>1, <2>4, <3>1, StartStep
  <2> QED  BY <2>5, <2>6
<1> QED  BY <1>2, <1>3, <1>4 DEF SweepPanics, SweepErrors

LEMMA WrapperKeepsRegistry ==
  ASSUME RegistryInv, WrapperTypes, [Next]_vars
  PROVE  RegistryInv'
<1>0. CASE UNCHANGED vars
  BY <1>0, RegistryRests DEF vars
<1>1. ASSUME NEW t \in Clients, NEW o \in Operations, Begin(t, o) PROVE RegistryInv'
  BY <1>1, RegistryRests DEF Begin
<1>2. ASSUME NEW t \in Clients, Step(t) PROVE RegistryInv'
  <2>1. CASE \/ NativeReturns(t) \/ Rethrow(t) \/ ReturnError(t) \/ Succeed(t) \/ Release(t)
             \/ Deinit(t)
    BY <2>1, RegistryRests DEF NativeReturns, Rethrow, ReturnError, Succeed, Release, Deinit
  <2>2. CASE PanicPending(t) \/ Return(t)
    BY <2>2, AnswerForgotten DEF PanicPending, Return, At, Free
  <2>3. CASE Register(t)
    BY <2>3, NewStep DEF Register
  <2>4. CASE SweepPanics(t) \/ SweepErrors(t) \/ DeleteNext(t)
    BY <2>4, SweepKeepsRegistry
  <2> QED  BY <1>2, <2>1, <2>2, <2>3, <2>4 DEF Step
<1>3. ASSUME NEW t \in Clients, NativeInvokesInside(t) PROVE RegistryInv'
  <2>1. PICK k \in Reachable(t) : Invoke(t, k)
    BY <1>3 DEF NativeInvokesInside
  <2>2. k \in 1..issued
    BY IssuedAreTokens DEF RegistryInv, NoToken, Reachable, WrapperTypes
  <2> QED  BY <2>1, <2>2, KnownInvoked DEF Callers
<1>4. ASSUME NEW a \in Callers, NativeInvokesOutside(a) PROVE RegistryInv'
  <2>1. PICK s \in Slots : held[s] # NoToken /\ Invoke(a, held[s])
    BY <1>4 DEF NativeInvokesOutside
  <2>2. held[s] \in 1..issued
    BY <2>1, IssuedAreTokens DEF RegistryInv, NoToken, WrapperTypes
  <2> QED  BY <2>1, <2>2, KnownInvoked
<1>5. ASSUME NEW t \in Clients, NativeTakesToken(t) PROVE RegistryInv'
  BY <1>5, RegistryRests DEF NativeTakesToken
<1>6. ASSUME NEW t \in Clients, JobBelow(t) PROVE RegistryInv'
  <2>1. JobStep(t)
    BY <1>6 DEF JobBelow, Below
  <2> QED  BY <2>1, RegistryNextInv DEF RegistryNext
<1>7. ASSUME NEW a \in Callers, FrameBelow(a) PROVE RegistryInv'
  <2>1. Dispatch(a) \/ CallbackEnds(a)
    BY <1>7 DEF FrameBelow, Below
  <2> QED  BY <2>1, RegistryNextInv DEF RegistryNext
<1> QED
  BY OperationsAssumption, <1>0, <1>1, <1>2, <1>3, <1>4, <1>5, <1>6, <1>7
     DEF Next, Call, Reenter, AllRest

-----------------------------------------------------------------------------
(* Types.                                                                  *)

LEMMA HandsType ==
  ASSUME WrapperTypes, NEW t \in Clients
  PROVE  /\ Sources(t) \in Seq({"own"} \union Slots)
         /\ slot["new"] \in 0..issued /\ slot["set"] \in 0..issued /\ own[t] \in 0..issued
         /\ LeftOver(t) \in Seq(0..issued)
         /\ <<own[t]>> \in Seq(0..issued)
         /\ <<slot["new"], slot["set"]>> \in Seq(0..issued)
<1>1. slot["new"] \in 0..issued /\ slot["set"] \in 0..issued /\ own[t] \in 0..issued
  BY DEF WrapperTypes, Slots
<1>2. <<own[t]>> \in Seq(0..issued) /\ <<slot["set"]>> \in Seq(0..issued)
      /\ <<slot["new"], slot["set"]>> \in Seq(0..issued) /\ <<>> \in Seq(0..issued)
  BY <1>1
<1>3. LeftOver(t) \in Seq(0..issued)
  BY <1>2 DEF LeftOver
<1>4. Sources(t) \in Seq({"own"} \union Slots)
  <2>1. <<"own">> \in Seq({"own"} \union Slots) /\ SlotOrder \in Seq({"own"} \union Slots)
        /\ <<>> \in Seq({"own"} \union Slots)
    BY DEF SlotOrder, Slots
  <2>2. \A x, y \in Seq({"own"} \union Slots) : x \o y \in Seq({"own"} \union Slots)
    BY ConcatProperties
  <2> QED  BY <2>1, <2>2 DEF Sources
<1> QED  BY <1>1, <1>2, <1>3, <1>4

LEMMA TypesHold ==
  ASSUME WrapperTypes, UNCHANGED <<issued, handle, nativeVars, pc, locals, stranded>>
  PROVE  WrapperTypes'
BY DEF WrapperTypes, handle, nativeVars, locals

LEMMA BeginTypes ==
  ASSUME WrapperTypes, NEW t \in Clients, NEW o \in Operations, Begin(t, o)
  PROVE  WrapperTypes'
<1>1. UNCHANGED <<issued, made, slot, object, held, own, failed, invoked, sweep, doomed, stranded>>
  BY DEF Begin, registryVars, nativeVars, history
<1>2. op' \in [Clients -> {"none", "new", "set", "run", "apply", "close"}]
  BY OperationsAssumption DEF Begin, WrapperTypes
<1>3. pc' \in [Clients -> Labels]
  BY OperationsAssumption DEF Begin, WrapperTypes, Goto, Labels
<1>4. closed' \in BOOLEAN /\ taken' \in BOOLEAN /\ calls' \in Nat
  BY DEF Begin, WrapperTypes
<1> QED  BY <1>1, <1>2, <1>3, <1>4 DEF WrapperTypes

LEMMA LargerSet ==
  ASSUME NEW S, NEW T, S \subseteq T, NEW s \in Seq(S)
  PROVE  s \in Seq(T)
<1>1. PICK n \in Nat : s \in [1..n -> S]
  BY SeqDef
<1>2. s \in [1..n -> T]
  BY <1>1
<1> QED  BY <1>2, SeqDef

LEMMA RegisterTypes ==
  ASSUME WrapperTypes, NEW t \in Clients, Register(t)
  PROVE  WrapperTypes'
<1>1. UNCHANGED <<made, closed, taken, calls, object, slot, held, op, failed, sweep, doomed,
                  stranded>>
      /\ issued' = issued + 1 /\ issued' \in Nat /\ own' = [own EXCEPT ![t] = issued']
      /\ pc' = [pc EXCEPT ![t] = "native"] /\ issued \in Nat /\ issued' \in Nat
  BY DEF WrapperTypes, Register, NewCallbackHandle, handle, nativeVars, history, Goto
<1>2. 0..issued \subseteq 0..issued' /\ 1..issued \subseteq 1..issued' /\ issued' \in 0..issued'
  BY <1>1
<1>3. \A s \in Seq(0..issued) : s \in Seq(0..issued')
  BY <1>2, LargerSet
<1>4. doomed' \in [Clients -> Seq(0..issued')]
  BY <1>1, <1>3 DEF WrapperTypes
<1>5. own' \in [Clients -> 0..issued'] /\ slot' \in [Slots -> 0..issued']
      /\ held' \in [Slots -> 0..issued']
  BY <1>1, <1>2 DEF WrapperTypes
<1>6. pc' \in [Clients -> Labels]
  BY <1>1 DEF WrapperTypes, Labels
<1>7. stranded' \subseteq 1..issued'
  BY <1>1, <1>2 DEF WrapperTypes
<1> QED  BY <1>1, <1>4, <1>5, <1>6, <1>7 DEF WrapperTypes

LEMMA SweepTypes ==
  ASSUME WrapperTypes, NEW t \in Clients, PanicPending(t) \/ SweepPanics(t) \/ SweepErrors(t)
  PROVE  WrapperTypes'
<1>1. UNCHANGED <<issued, made, closed, taken, calls, object, slot, held, op, own, failed, doomed,
                  stranded>>
  BY DEF PanicPending, SweepPanics, SweepErrors, handle, nativeVars, history
<1>2. pc' \in [Clients -> Labels]
  BY DEF PanicPending, SweepPanics, SweepErrors, SweepOn, WrapperTypes, Labels, Goto
<1>3. sweep' \in [Clients -> Seq({"own"} \union Slots)]
  <2>1. sweep[t] # <<>> => Tail(sweep[t]) \in Seq({"own"} \union Slots)
    BY HeadTailProperties DEF WrapperTypes
  <2>2. Sources(t) \in Seq({"own"} \union Slots) /\ <<>> \in Seq({"own"} \union Slots)
    BY HandsType
  <2>3. PICK s \in Seq({"own"} \union Slots) : sweep' = [sweep EXCEPT ![t] = s]
    BY <2>1, <2>2 DEF PanicPending, SweepPanics, SweepErrors, SweepOn
  <2> QED  BY <2>3 DEF WrapperTypes
<1> QED  BY <1>1, <1>2, <1>3 DEF WrapperTypes

LEMMA DeferTypes ==
  ASSUME WrapperTypes, NEW t \in Clients, NEW s \in Seq(0..issued), Defer(t, s),
         UNCHANGED <<registryVars, calls, closed, taken, nativeVars, op>>,
         made' \in BOOLEAN, slot' \in [Slots -> 0..issued], stranded' \subseteq 1..issued
  PROVE  WrapperTypes'
<1>1. UNCHANGED <<issued, closed, taken, calls, object, held, op>>
  BY DEF registryVars, nativeVars
<1>2. pc' \in [Clients -> Labels] /\ doomed' \in [Clients -> Seq(0..issued)]
      /\ failed' \in [Clients -> BOOLEAN]
  BY DEF Defer, Goto, WrapperTypes, Labels
<1>3. own' \in [Clients -> 0..issued]
  <2>1. NoToken \in 0..issued
    BY DEF NoToken, WrapperTypes
  <2> QED  BY <2>1 DEF Defer, WrapperTypes
<1>4. sweep' \in [Clients -> Seq({"own"} \union Slots)]
  BY DEF Defer, WrapperTypes
<1> QED  BY <1>1, <1>2, <1>3, <1>4 DEF WrapperTypes

LEMMA EndTypes ==
  ASSUME WrapperTypes, NEW t \in Clients, Rethrow(t) \/ ReturnError(t) \/ Succeed(t), Course(t)
  PROVE  WrapperTypes'
<1>1. CASE ReturnError(t)
  BY <1>1, HandsType, DeferTypes DEF ReturnError, Abandon, handle, history, WrapperTypes
<1>2. CASE Rethrow(t) /\ op[t] # "new"
  BY <1>2, HandsType, DeferTypes DEF Rethrow, Abandon, handle, WrapperTypes
<1>3. CASE Rethrow(t) /\ op[t] = "new"
  <2>1. own[t] \in 1..issued
    <3>1. own[t] # NoToken /\ own[t] \in 0..issued
      BY <1>3 DEF Rethrow, Course, At, Registering, Owning, WrapperTypes
    <3> QED  BY <3>1 DEF NoToken
  <2>2. <<>> \in Seq(0..issued)
    OBVIOUS
  <2>3. stranded' \subseteq 1..issued /\ made' \in BOOLEAN /\ slot' \in [Slots -> 0..issued]
    BY <1>3, <2>1 DEF Rethrow, WrapperTypes, handle
  <2>4. Defer(t, <<>>) /\ UNCHANGED <<registryVars, calls, closed, taken, nativeVars, op>>
    BY <1>3 DEF Rethrow, handle
  <2> QED  BY <2>2, <2>3, <2>4, DeferTypes
<1>4. CASE Succeed(t)
  <2>1. slot' \in [Slots -> 0..issued]
    BY <1>4, HandsType DEF Succeed, WrapperTypes
  <2>2. made' \in BOOLEAN /\ stranded' \subseteq 1..issued
    BY <1>4 DEF Succeed, WrapperTypes, history
  <2> QED  BY <1>4, <2>1, <2>2, HandsType, DeferTypes DEF Succeed
<1> QED  BY <1>1, <1>2, <1>3, <1>4

LEMMA LetGoTypes ==
  ASSUME WrapperTypes, NEW t \in Clients,
         DeleteNext(t) \/ Deinit(t) \/ Return(t)
  PROVE  WrapperTypes'
<1>1. UNCHANGED <<issued, made, closed, taken, calls, slot, held, own, failed, sweep, stranded>>
  BY DEF DeleteNext, Deinit, Return, handle, nativeVars, history, registryVars
<1>2. pc' \in [Clients -> Labels] /\ object' \in {"none", "live", "freed"}
  BY DEF DeleteNext, Deinit, Return, WrapperTypes, Labels, Goto, nativeVars
<1>3. op' \in [Clients -> {"none", "new", "set", "run", "apply", "close"}]
  BY DEF DeleteNext, Deinit, Return, WrapperTypes
<1>4. doomed' \in [Clients -> Seq(0..issued)]
  <2>1. doomed[t] # <<>> => Tail(doomed[t]) \in Seq(0..issued)
    BY HeadTailProperties DEF WrapperTypes
  <2>2. \/ doomed' = doomed
        \/ \E s \in Seq(0..issued) : doomed' = [doomed EXCEPT ![t] = s]
    BY <2>1, HandsType DEF DeleteNext, Deinit, Return
  <2> QED  BY <2>2 DEF WrapperTypes
<1> QED  BY <1>1, <1>2, <1>3, <1>4 DEF WrapperTypes

LEMMA NativeTypes ==
  ASSUME WrapperTypes, NEW t \in Clients, NativeTakesToken(t) \/ NativeReturns(t)
  PROVE  WrapperTypes'
<1>1. UNCHANGED <<issued, made, closed, taken, calls, slot, op, own, sweep, doomed, stranded>>
  BY DEF NativeTakesToken, NativeReturns, handle, locals, history, registryVars
<1>2. pc' \in [Clients -> Labels] /\ failed' \in [Clients -> BOOLEAN]
      /\ object' \in {"none", "live", "freed"}
  BY DEF NativeTakesToken, NativeReturns, WrapperTypes, Goto, Labels, locals, nativeVars
<1>3. held' \in [Slots -> 0..issued]
  BY HandsType DEF NativeTakesToken, NativeReturns, WrapperTypes, nativeVars
<1> QED  BY <1>1, <1>2, <1>3 DEF WrapperTypes

LEMMA ReleaseTypes ==
  ASSUME WrapperTypes, NEW t \in Clients, Release(t), calls # 0
  PROVE  WrapperTypes'
<1>1. UNCHANGED <<issued, made, closed, slot, object, held, op, own, failed, sweep, doomed,
                  stranded>>
  BY DEF Release, nativeVars, locals, history, registryVars
<1>2. pc' \in [Clients -> Labels] /\ calls' \in Nat /\ taken' \in BOOLEAN
  BY DEF Release, WrapperTypes, Goto, Labels
<1> QED  BY <1>1, <1>2 DEF WrapperTypes

-----------------------------------------------------------------------------
(* Where an operation is.                                                  *)

LEMMA OtherCourses ==
  ASSUME Courses, NEW t \in Clients, Course(t)',
         \A u \in Clients \ {t} :
           /\ pc'[u] = pc[u] /\ op'[u] = op[u] /\ own'[u] = own[u]
           /\ doomed'[u] = doomed[u] /\ job'[u] = job[u]
  PROVE  Courses'
BY DEF Courses, Course

LEMMA BeginCourse ==
  ASSUME WrapperTypes, Courses, NEW t \in Clients, NEW o \in Operations, Begin(t, o)
  PROVE  Courses'
<1>1. /\ UNCHANGED <<own, doomed, job>> /\ pc[t] = "idle" /\ job[t] = "none"
      /\ op' = [op EXCEPT ![t] = o] /\ \E l \in Labels : pc' = [pc EXCEPT ![t] = l]
  BY OperationsAssumption DEF Begin, registryVars, jobs, Goto, At, Free, Labels
<1>2. own[t] = NoToken /\ doomed[t] = <<>>
  BY <1>1 DEF Courses, Course, Owning, Leaving
<1>3. o \in {"new", "set", "run", "apply", "close"} /\ op'[t] = o
  BY <1>1, OperationsAssumption DEF WrapperTypes
<1>4. pc'[t] = CASE o \in {"new", "set", "apply"} -> "register"
               [] o = "run" -> "native"
               [] o = "close" /\ calls = 0 -> "deinit"
               [] OTHER -> "cleanup"
  BY DEF Begin, Goto, WrapperTypes
<1>5. Course(t)'
  BY <1>1, <1>2, <1>3, <1>4 DEF Course, Owning, Leaving, Registering
<1> QED  BY <1>1, <1>5, OtherCourses DEF WrapperTypes

\* A registry call of goroutine t goes on or is over.
LEMMA JobCourse ==
  ASSUME RegistryTypeOK, WrapperTypes, Courses, NEW t \in Clients,
         UNCHANGED <<pc, op, own, doomed>>, JobStep(t)
  PROVE  Courses'
<1>1. \/ job'[t] = "none"
      \/ job[t] \in {"delete", "close", "wait"} /\ job'[t] \in {"close", "wait", "uncount"}
      \/ job[t] = "findPanic" /\ job'[t] = "takePanic"
      \/ job[t] = "findErr" /\ job'[t] = "takeErr"
  BY DEF JobStep, LoadAndDelete, CloseEntry, Drained, Uncount, FindEntry, TakeCallbackPanic,
         TakeCallbackError, NextJob, EndJob, RegistryTypeOK, jobs
<1>2. \A u \in Clients \ {t} : job'[u] = job[u]
  BY DEF JobStep, LoadAndDelete, CloseEntry, Drained, Uncount, FindEntry, TakeCallbackPanic,
         TakeCallbackError, NextJob, EndJob, RegistryTypeOK, jobs
<1>3. Course(t)'
  BY <1>1 DEF Courses, Course
<1> QED  BY <1>2, <1>3, OtherCourses

LEMMA StepCourse ==
  ASSUME RegistryTypeOK, WrapperTypes, Courses, NEW t \in Clients, Step(t)
  PROVE  Courses'
<1> USE DEF Courses, Course, Goto, At, Free, registryVars, jobs, locals, WrapperTypes
<1> DEFINE Others == \A u \in Clients \ {t} :
             /\ pc'[u] = pc[u] /\ op'[u] = op[u] /\ own'[u] = own[u]
             /\ doomed'[u] = doomed[u] /\ job'[u] = job[u]
<1>1. CASE Register(t)
  <2>1. Others
    BY <1>1 DEF Register
  <2>2. own'[t] # NoToken
    BY <1>1 DEF Register, NoToken
  <2>3. Course(t)'
    BY <1>1, <2>2 DEF Register, Owning, Leaving, Registering
  <2> QED  BY <2>1, <2>3, OtherCourses
<1>2. CASE NativeReturns(t)
  <2>1. Others
    BY <1>2 DEF NativeReturns
  <2>2. Course(t)'
    BY <1>2 DEF NativeReturns, Owning, Leaving, Registering
  <2> QED  BY <2>1, <2>2, OtherCourses
<1>3. CASE PanicPending(t)
  <2>1. Others
    BY <1>3 DEF PanicPending, EndJob, RegistryTypeOK
  <2>2. Course(t)'
    BY <1>3 DEF PanicPending, EndJob, RegistryTypeOK, Owning, Leaving, Registering
  <2> QED  BY <2>1, <2>2, OtherCourses
<1>4. CASE SweepPanics(t) \/ SweepErrors(t)
  <2>1. UNCHANGED <<op, own, doomed>> /\ job[t] = "none" /\ pc[t] \in {"panics", "errors"}
    BY <1>4 DEF SweepPanics, SweepErrors
  <2>2. \/ pc' = pc /\ job' = [job EXCEPT ![t] = "none"]
        \/ pc' = pc /\ pc[t] = "panics" /\ job' = [job EXCEPT ![t] = "findPanic"]
        \/ pc' = pc /\ pc[t] = "errors" /\ job' = [job EXCEPT ![t] = "findErr"]
        \/ pc' = [pc EXCEPT ![t] = "errors"] /\ job' = job
        \/ pc' = [pc EXCEPT ![t] = "status"] /\ job' = job
    BY <1>4 DEF SweepPanics, SweepErrors, SweepOn, StartTake, StartJob, EndJob
  <2>3. Others
    BY <2>1, <2>2 DEF RegistryTypeOK
  <2>4. Course(t)'
    BY <2>1, <2>2 DEF RegistryTypeOK, Owning, Leaving, Registering
  <2> QED  BY <2>3, <2>4, OtherCourses
<1>5. CASE Rethrow(t) \/ ReturnError(t) \/ Succeed(t)
  <2>1. PICK d : Defer(t, d)
    BY <1>5 DEF Rethrow, ReturnError, Succeed, Abandon
  <2>2. UNCHANGED <<op, job>> /\ pc[t] \in Owning /\ job[t] = "none"
    BY <1>5 DEF Rethrow, ReturnError, Succeed, Owning
  <2>3. Others
    BY <2>1, <2>2 DEF Defer
  <2>4. Course(t)'
    <3>1. pc'[t] = "dispose" /\ own'[t] = NoToken /\ op'[t] = op[t] /\ job'[t] = "none"
      BY <2>1, <2>2 DEF Defer
    <3>2. op[t] \notin {"close", "none"}
      BY <2>2 DEF Owning
    <3> QED  BY <3>1, <3>2 DEF Owning, Leaving, Registering
  <2> QED  BY <2>3, <2>4, OtherCourses
<1>6. CASE DeleteNext(t)
  <2>1. UNCHANGED <<pc, op, own>> /\ pc[t] \in Leaving /\ job[t] = "none"
        /\ doomed' = [doomed EXCEPT ![t] = Tail(@)]
    BY <1>6 DEF DeleteNext, Leaving
  <2>2. job' = job \/ job' = [job EXCEPT ![t] = "delete"]
    BY <1>6 DEF DeleteNext, StartDelete, StartJob
  <2>3. Others
    BY <2>1, <2>2 DEF RegistryTypeOK
  <2>4. Course(t)'
    BY <2>1, <2>2 DEF RegistryTypeOK, Owning, Leaving, Registering
  <2> QED  BY <2>3, <2>4, OtherCourses
<1>7. CASE Release(t)
  <2>1. UNCHANGED <<op, own, doomed, job>> /\ pc[t] = "dispose" /\ OnHandle(t) /\ doomed[t] = <<>>
        /\ job[t] = "none"
        /\ (pc' = [pc EXCEPT ![t] = "deinit"] \/ pc' = [pc EXCEPT ![t] = "cleanup"])
    BY <1>7 DEF Release
  <2>2. Others
    BY <2>1
  <2>3. Course(t)'
    BY <2>1 DEF Owning, Leaving, Registering, OnHandle
  <2> QED  BY <2>2, <2>3, OtherCourses
<1>8. CASE Deinit(t)
  <2>1. Others
    BY <1>8 DEF Deinit
  <2>2. Course(t)'
    BY <1>8 DEF Deinit, Owning, Leaving, Registering
  <2> QED  BY <2>1, <2>2, OtherCourses
<1>9. CASE Return(t)
  <2>1. Others
    BY <1>9 DEF Return, EndJob, RegistryTypeOK
  <2>2. Course(t)'
    BY <1>9 DEF Return, EndJob, RegistryTypeOK, Owning, Leaving, Registering
  <2> QED  BY <2>1, <2>2, OtherCourses
<1> QED  BY <1>1, <1>2, <1>3, <1>4, <1>5, <1>6, <1>7, <1>8, <1>9 DEF Step

-----------------------------------------------------------------------------
(* The count of calls, and who frees the handle.                           *)

LEMMA PinnedFinite == IsFiniteSet(Pinned) /\ Cardinality(Pinned) \in Nat
<1>1. IsFiniteSet(Clients) /\ Pinned \in SUBSET Clients
  BY CallersAssumption, FS_Subset DEF Pinned, Callers
<1> QED  BY <1>1, FS_Subset, FS_CardinalityType

LEMMA PinnedIsOpen ==
  ASSUME ClosingInv, MakingInv, NEW t \in Pinned
  PROVE  calls # 0 /\ ~taken /\ made
<1>1. Cardinality(Pinned) # 0
  BY PinnedFinite, FS_EmptySet
<1> QED  BY <1>1 DEF ClosingInv, MakingInv

LEMMA ClosingKept ==
  ASSUME ClosingInv, UNCHANGED <<calls, closed, taken, object, Pinned>>,
         \A u \in Clients : pc'[u] = "deinit" <=> pc[u] = "deinit"
  PROVE  ClosingInv'
BY DEF ClosingInv

\* Between its first check and its last deferred call an operation stays what
\* it is for the handle.
LEMMA ClosingKeptInside ==
  ASSUME WrapperTypes, ClosingInv, NEW t \in Clients, NEW l \in Labels,
         UNCHANGED <<calls, closed, taken, object, op>>, pc' = [pc EXCEPT ![t] = l],
         {pc[t], l} \intersect {"cleanup", "deinit"} = {}
  PROVE  ClosingInv'
<1>1. \A u \in Clients : pc'[u] = IF u = t THEN l ELSE pc[u]
  BY DEF WrapperTypes
<1>2. Pinned' = Pinned
  BY <1>1 DEF Pinned, OnHandle
<1> QED  BY <1>1, <1>2, ClosingKept

LEMMA BeginClosing ==
  ASSUME WrapperTypes, ClosingInv, MakingInv, Courses, NEW t \in Clients, NEW o \in Operations,
         Begin(t, o)
  PROVE  ClosingInv'
<1>1. /\ object' = object /\ pc[t] = "idle" /\ op[t] = "none"
      /\ \A u \in Clients \ {t} : op'[u] = op[u] /\ pc'[u] = pc[u]
      /\ op'[t] = o
      /\ pc'[t] = CASE o \in {"new", "set", "apply"} -> "register"
                    [] o = "run" -> "native"
                    [] o = "close" /\ calls = 0 -> "deinit"
                    [] OTHER -> "cleanup"
  BY DEF Begin, nativeVars, Goto, At, WrapperTypes, Courses, Course
<1>2. t \notin Pinned /\ o \in {"new", "set", "run", "apply", "close"}
  BY <1>1, OperationsAssumption DEF Pinned, OnHandle
<1>3. CASE o \in {"new", "apply"}
  <2>1. Pinned' = Pinned
    BY <1>1, <1>2, <1>3 DEF Pinned, OnHandle
  <2>2. UNCHANGED <<calls, closed, taken>>
    BY <1>3 DEF Begin, Pins, WrapperTypes
  <2> QED  BY <1>1, <1>3, <2>1, <2>2, ClosingKept
<1>4. CASE o \in {"set", "run"}
  <2>1. Pinned' = Pinned \union {t}
    BY <1>1, <1>4 DEF Pinned, OnHandle
  <2>2. Cardinality(Pinned') = Cardinality(Pinned) + 1
    BY <1>2, <2>1, PinnedFinite, FS_AddElement
  <2>3. calls' = calls + 1 /\ ~closed /\ ~closed' /\ ~taken /\ ~taken'
    BY <1>4 DEF Begin, Pins, ClosingInv, WrapperTypes
  <2>4. \A u \in Clients : pc'[u] = "deinit" <=> pc[u] = "deinit"
    BY <1>1, <1>4
  <2> QED  BY <1>1, <2>2, <2>3, <2>4 DEF ClosingInv
<1>5. CASE o = "close"
  <2>1. Pinned' = Pinned
    BY <1>1, <1>2, <1>5 DEF Pinned, OnHandle
  <2>2. /\ calls' = calls /\ closed' /\ (taken' <=> calls = 0) /\ ~taken /\ ~closed
        /\ pc'[t] = "deinit" <=> calls = 0
    BY <1>1, <1>5 DEF Begin, Pins, ClosingInv, WrapperTypes
  <2>3. \A u \in Clients : pc[u] # "deinit"
    BY <2>2 DEF ClosingInv
  <2>4. object # "freed"
    BY <2>2 DEF ClosingInv
  <2> QED  BY <1>1, <2>1, <2>2, <2>3, <2>4 DEF ClosingInv
<1> QED  BY <1>2, <1>3, <1>4, <1>5

LEMMA ReleaseClosing ==
  ASSUME WrapperTypes, ClosingInv, MakingInv, NEW t \in Clients, Release(t)
  PROVE  ClosingInv' /\ calls # 0 /\ t \in Pinned
<1>1. /\ UNCHANGED <<object, closed, op>> /\ pc[t] = "dispose" /\ OnHandle(t)
      /\ \A u \in Clients \ {t} : pc'[u] = pc[u]
      /\ calls' = calls - 1 /\ (taken' <=> taken \/ (closed /\ calls = 1))
      /\ pc'[t] = IF closed /\ calls = 1 /\ ~taken THEN "deinit" ELSE "cleanup"
  BY DEF Release, nativeVars, locals, Goto, At, WrapperTypes
<1>2. t \in Pinned
  BY <1>1 DEF Pinned
<1>3. calls # 0 /\ ~taken
  BY <1>2, PinnedIsOpen
<1>4. Pinned' = Pinned \ {t}
  BY <1>1 DEF Pinned, OnHandle
<1>5. Cardinality(Pinned') = Cardinality(Pinned) - 1
  BY <1>2, <1>4, PinnedFinite, FS_RemoveElement
<1>6. calls \in Nat /\ calls = Cardinality(Pinned)
  BY DEF ClosingInv, WrapperTypes
<1>7. (\A u \in Clients : pc[u] # "deinit") /\ object # "freed"
  BY <1>3 DEF ClosingInv
<1>8. ClosingInv'
  <2>1. calls' = Cardinality(Pinned)'
    BY <1>1, <1>5, <1>6
  <2>2. taken' => closed' /\ calls' = 0
    BY <1>1, <1>3
  <2>3. closed' /\ ~taken' => calls' # 0
    BY <1>1, <1>3, <1>6
  <2>4. pc'[t] = "deinit" <=> taken'
    BY <1>1, <1>3
  <2>5. \A u \in Clients : pc'[u] = "deinit" => u = t
    BY <1>1, <1>7
  <2>6. object' # "freed"
    BY <1>1, <1>7
  <2> QED  BY <2>1, <2>2, <2>3, <2>4, <2>5, <2>6 DEF ClosingInv
<1> QED  BY <1>2, <1>3, <1>8

LEMMA StepClosing ==
  ASSUME WrapperTypes, ClosingInv, MakingInv, Courses, NEW t \in Clients, Step(t)
  PROVE  ClosingInv'
<1>1. CASE \/ Register(t) \/ NativeReturns(t) \/ PanicPending(t)
           \/ Rethrow(t) \/ ReturnError(t) \/ Succeed(t)
  <2>1. UNCHANGED <<calls, closed, taken, object, op>>
    BY <1>1 DEF Register, NativeReturns, PanicPending, Rethrow, ReturnError, Succeed,
                handle, nativeVars, locals
  <2>2. pc[t] \in Calling
    BY <1>1 DEF Register, NativeReturns, PanicPending, Rethrow, ReturnError, Succeed, At,
                Calling, Owning
  <2>3. PICK l \in Labels \ {"cleanup", "deinit"} : pc' = [pc EXCEPT ![t] = l]
    BY <1>1 DEF Register, NativeReturns, PanicPending, Rethrow, ReturnError, Succeed, Abandon,
                Defer, Goto, Labels
  <2>4. {pc[t], l} \intersect {"cleanup", "deinit"} = {}
    BY <2>2, <2>3 DEF Calling, Owning
  <2> QED  BY <2>1, <2>3, <2>4, ClosingKeptInside
<1>2. CASE SweepPanics(t) \/ SweepErrors(t)
  <2>1. UNCHANGED <<calls, closed, taken, object, op>>
    BY <1>2 DEF SweepPanics, SweepErrors, handle, nativeVars
  <2>2. pc[t] \in {"panics", "errors"} /\ pc[t] \in Labels
    BY <1>2 DEF SweepPanics, SweepErrors, At, Labels
  <2>3. pc' = [pc EXCEPT ![t] = pc[t]] \/ \E l \in {"errors", "status"} : pc' = [pc EXCEPT ![t] = l]
    BY <1>2 DEF SweepPanics, SweepErrors, SweepOn, Goto, WrapperTypes
  <2>4. PICK l \in Labels \ {"cleanup", "deinit"} : pc' = [pc EXCEPT ![t] = l]
    BY <2>2, <2>3 DEF Labels
  <2>5. {pc[t], l} \intersect {"cleanup", "deinit"} = {}
    BY <2>2, <2>4
  <2> QED  BY <2>1, <2>4, <2>5, ClosingKeptInside
<1>3. CASE DeleteNext(t)
  <2>1. UNCHANGED <<calls, closed, taken, object, pc, op>>
    BY <1>3 DEF DeleteNext, handle, nativeVars
  <2>2. Pinned' = Pinned
    BY <2>1 DEF Pinned, OnHandle
  <2> QED  BY <2>1, <2>2, ClosingKept
<1>4. CASE Release(t)
  BY <1>4, ReleaseClosing
<1>5. CASE Deinit(t)
  <2>1. UNCHANGED <<calls, closed, taken, op>> /\ object' = "freed" /\ pc[t] = "deinit"
        /\ pc'[t] = "cleanup" /\ \A u \in Clients \ {t} : pc'[u] = pc[u]
    BY <1>5 DEF Deinit, handle, Goto, At, WrapperTypes
  <2>2. Pinned' = Pinned
    BY <2>1 DEF Pinned, OnHandle
  <2>3. \A u \in Clients : pc'[u] # "deinit"
    BY <2>1 DEF ClosingInv
  <2>4. taken
    BY <2>1 DEF ClosingInv
  <2> QED  BY <2>1, <2>2, <2>3, <2>4 DEF ClosingInv
<1>6. CASE Return(t)
  <2>1. UNCHANGED <<calls, closed, taken, object>>
        /\ (pc[t] = "cleanup" \/ (pc[t] = "dispose" /\ ~OnHandle(t)))
        /\ pc'[t] = "idle" /\ op'[t] = "none"
        /\ \A u \in Clients \ {t} : pc'[u] = pc[u] /\ op'[u] = op[u]
    BY <1>6 DEF Return, handle, nativeVars, Goto, At, WrapperTypes
  <2>2. Pinned' = Pinned
    BY <2>1 DEF Pinned, OnHandle
  <2>3. \A u \in Clients : pc'[u] = "deinit" <=> pc[u] = "deinit"
    BY <2>1
  <2> QED  BY <2>1, <2>2, <2>3, ClosingKept
<1> QED  BY <1>1, <1>2, <1>3, <1>4, <1>5, <1>6 DEF Step

\* The object that takes a token over is not one that was freed.
LEMMA TakesTokenClosing ==
  ASSUME WrapperTypes, ClosingInv, MakingInv, Courses, NEW t \in Clients, NativeTakesToken(t)
  PROVE  ClosingInv' /\ object # "freed"
<1>1. UNCHANGED <<calls, closed, taken, pc, op>> /\ object' = "live" /\ pc[t] = "native"
      /\ op[t] \in {"new", "set"}
  BY DEF NativeTakesToken, handle, locals, At, Retains, Slots
<1>2. ~taken
  <2>1. CASE op[t] = "new"
    BY <1>1, <2>1 DEF MakingInv, Calling, Owning, ClosingInv
  <2>2. CASE op[t] = "set"
    <3>1. t \in Pinned
      BY <1>1, <2>2 DEF Pinned, OnHandle
    <3> QED  BY <3>1, PinnedIsOpen
  <2> QED  BY <1>1, <2>1, <2>2
<1>3. Pinned' = Pinned
  BY <1>1 DEF Pinned, OnHandle
<1> QED  BY <1>1, <1>2, <1>3 DEF ClosingInv

-----------------------------------------------------------------------------
(* Constructors.                                                           *)

LEMMA MakingKept ==
  ASSUME MakingInv, NEW t \in Clients, UNCHANGED <<made, closed, calls, slot, object, held, op>>,
         \A u \in Clients \ {t} : pc'[u] = pc[u] /\ own'[u] = own[u] /\ failed'[u] = failed[u],
         op[t] = "new" /\ pc'[t] \in Calling =>
           /\ pc[t] \in Calling \ {"register", "native"}
           /\ own'[t] = own[t] /\ failed'[t] = failed[t]
  PROVE  MakingInv'
<1>1. \A u \in Clients : op[u] = "new" /\ pc'[u] \in Calling =>
        /\ pc[u] \in Calling /\ own'[u] = own[u] /\ failed'[u] = failed[u]
        /\ pc[u] \in {"register", "native"} => pc'[u] = pc[u]
  OBVIOUS
<1> QED  BY <1>1 DEF MakingInv

LEMMA BeginMaking ==
  ASSUME WrapperTypes, MakingInv, Courses, NEW t \in Clients, NEW o \in Operations, Begin(t, o)
  PROVE  MakingInv'
<1>1. /\ UNCHANGED <<made, slot, object, held, own, failed>> /\ pc[t] = "idle" /\ op[t] = "none"
      /\ \A u \in Clients \ {t} : op'[u] = op[u] /\ pc'[u] = pc[u]
      /\ op'[t] = o
  BY DEF Begin, nativeVars, Goto, At, WrapperTypes, Courses, Course
<1>2. own[t] = NoToken
  BY <1>1 DEF Courses, Course, Owning
<1>3. CASE o = "new"
  <2>1. object = "none" /\ (\A u \in Clients : op[u] # "new") /\ pc'[t] = "register"
        /\ UNCHANGED <<calls, closed>>
    BY <1>3 DEF Begin, Goto, Pins, WrapperTypes
  <2>2. ~made /\ held["new"] = NoToken
    BY <2>1 DEF MakingInv
  <2> QED  BY <1>1, <1>3, <2>1, <2>2 DEF MakingInv, Calling, Owning
<1>4. CASE o # "new"
  <2>1. ~made => UNCHANGED <<calls, closed>>
    BY <1>4, OperationsAssumption DEF Begin, Pins, WrapperTypes
  <2> QED  BY <1>1, <1>4, <2>1 DEF MakingInv
<1> QED  BY <1>3, <1>4

LEMMA StepMaking ==
  ASSUME WrapperTypes, ClosingInv, MakingInv, Courses, NEW t \in Clients, Step(t)
  PROVE  MakingInv'
<1>1. CASE Register(t)
  <2>1. /\ UNCHANGED <<made, closed, calls, slot, object, held, op, failed>> /\ pc[t] = "register"
        /\ pc'[t] = "native" /\ own[t] = NoToken
        /\ \A u \in Clients \ {t} : pc'[u] = pc[u] /\ own'[u] = own[u]
    BY <1>1 DEF Register, At, handle, nativeVars, Goto, Courses, Course, Owning, WrapperTypes
  <2>2. op[t] = "new" => held["new"] = NoToken /\ object = "none"
    BY <2>1 DEF MakingInv, Calling
  <2> QED  BY <2>1, <2>2 DEF MakingInv, Calling, Owning
<1>2. CASE NativeReturns(t)
  <2>1. /\ UNCHANGED <<made, closed, calls, slot, object, held, op, own>> /\ pc[t] = "native"
        /\ pc'[t] = "pending"
        /\ \A u \in Clients \ {t} : pc'[u] = pc[u] /\ failed'[u] = failed[u]
        /\ op[t] = "new" => failed'[t] = (held["new"] # own[t])
    BY <1>2 DEF NativeReturns, At, handle, nativeVars, Goto, Retains, Slots, WrapperTypes
  <2> QED  BY <2>1 DEF MakingInv, Calling, Owning
<1>3. CASE PanicPending(t) \/ SweepPanics(t) \/ SweepErrors(t) \/ DeleteNext(t)
  <2>1. /\ UNCHANGED <<made, closed, calls, slot, object, held, op, own, failed>>
        /\ pc[t] \in {"pending", "panics", "errors", "dispose", "cleanup"}
        /\ pc[t] \in {"dispose", "cleanup"} => pc' = pc
        /\ \A u \in Clients \ {t} : pc'[u] = pc[u]
    BY <1>3 DEF PanicPending, SweepPanics, SweepErrors, SweepOn, DeleteNext, At, handle,
                nativeVars, Goto, WrapperTypes
  <2> QED  BY <2>1, MakingKept DEF Calling, Owning
<1>4. CASE Rethrow(t) \/ ReturnError(t)
  <2>1. /\ UNCHANGED <<made, closed, calls, slot, object, held, op>>
        /\ pc'[t] = "dispose"
        /\ \A u \in Clients \ {t} : pc'[u] = pc[u] /\ own'[u] = own[u] /\ failed'[u] = failed[u]
    BY <1>4 DEF Rethrow, ReturnError, Abandon, Defer, handle, nativeVars, Goto, WrapperTypes
  <2> QED  BY <2>1, MakingKept DEF Calling, Owning
<1>5. CASE Succeed(t)
  <2>1. /\ UNCHANGED <<closed, calls, object, held, op>>
        /\ pc[t] = "status" /\ ~failed[t] /\ pc'[t] = "dispose"
        /\ made' = (made \/ op[t] = "new") /\ (~Retains(t) => slot' = slot)
        /\ \A u \in Clients \ {t} : pc'[u] = pc[u] /\ own'[u] = own[u] /\ failed'[u] = failed[u]
    BY <1>5 DEF Succeed, At, Defer, nativeVars, Goto, WrapperTypes
  <2>2. CASE op[t] = "new"
    <3>1. held["new"] = own[t] /\ own[t] # NoToken /\ ~made
      BY <2>1, <2>2 DEF MakingInv, Courses, Course, Owning, Registering, Calling
    <3>2. object = "live"
      BY <2>1, <2>2, <3>1 DEF MakingInv, Calling, Owning
    <3>3. \A u \in Clients : op[u] = "new" /\ pc'[u] \in Calling => FALSE
      BY <2>1, <2>2 DEF MakingInv, Calling, Owning
    <3> QED  BY <2>1, <2>2, <3>1, <3>2, <3>3 DEF MakingInv
  <2>3. CASE op[t] = "set"
    <3>1. t \in Pinned
      BY <2>1, <2>3 DEF Pinned, OnHandle
    <3>2. made /\ made'
      BY <2>1, <3>1, PinnedIsOpen
    <3> QED  BY <2>1, <2>3, <3>2 DEF MakingInv
  <2>4. CASE op[t] \notin {"new", "set"}
    <3>1. slot' = slot /\ made' = made
      BY <2>1, <2>4 DEF Retains, Slots, WrapperTypes
    <3> QED  BY <2>1, <2>4, <3>1, MakingKept
  <2> QED  BY <2>2, <2>3, <2>4
<1>6. CASE Release(t)
  <2>1. made
    BY <1>6, ReleaseClosing, PinnedIsOpen
  <2>2. /\ UNCHANGED <<made, closed, slot, object, held, op, own, failed>>
        /\ pc'[t] \notin Calling /\ \A u \in Clients \ {t} : pc'[u] = pc[u]
    BY <1>6 DEF Release, handle, nativeVars, locals, Goto, WrapperTypes, Calling, Owning
  <2> QED  BY <2>1, <2>2 DEF MakingInv
<1>7. CASE Deinit(t)
  <2>1. pc[t] = "deinit" /\ taken /\ closed
    BY <1>7 DEF Deinit, At, ClosingInv
  <2>2. made
    BY <2>1 DEF MakingInv
  <2>3. /\ UNCHANGED <<made, closed, calls, slot, held, op, own, failed>> /\ object' = "freed"
        /\ pc'[t] = "cleanup" /\ \A u \in Clients \ {t} : pc'[u] = pc[u]
    BY <1>7 DEF Deinit, handle, Goto, WrapperTypes
  <2>4. \A u \in Clients : ~(op'[u] = "new" /\ pc'[u] \in Calling)
    BY <2>2, <2>3 DEF MakingInv, Calling, Owning
  <2> QED  BY <2>2, <2>3, <2>4 DEF MakingInv
<1>8. CASE Return(t)
  <2>1. /\ UNCHANGED <<made, closed, calls, slot, object, held, own, failed>>
        /\ pc'[t] = "idle" /\ op'[t] = "none"
        /\ \A u \in Clients \ {t} : pc'[u] = pc[u] /\ op'[u] = op[u]
    BY <1>8 DEF Return, handle, nativeVars, Goto, WrapperTypes
  <2> QED  BY <2>1 DEF MakingInv
<1> QED  BY <1>1, <1>2, <1>3, <1>4, <1>5, <1>6, <1>7, <1>8 DEF Step

LEMMA TakesTokenMaking ==
  ASSUME WrapperTypes, ClosingInv, MakingInv, Courses, NEW t \in Clients, NativeTakesToken(t)
  PROVE  MakingInv'
<1>1. /\ UNCHANGED <<made, closed, calls, slot, pc, op, own, failed>> /\ object' = "live"
      /\ pc[t] = "native" /\ op[t] \in {"new", "set"} /\ held' = [held EXCEPT ![op[t]] = own[t]]
  BY DEF NativeTakesToken, handle, locals, At, Retains, Slots
<1>2. own[t] # NoToken
  BY <1>1 DEF Courses, Course, Owning, Registering
<1>3. CASE op[t] = "new"
  <2>1. held'["new"] = own[t]
    BY <1>1, <1>3 DEF WrapperTypes, Slots
  <2> QED  BY <1>1, <1>2, <1>3, <2>1 DEF MakingInv
<1>4. CASE op[t] = "set"
  <2>1. t \in Pinned
    BY <1>1, <1>4 DEF Pinned, OnHandle
  <2>2. made
    BY <2>1, PinnedIsOpen
  <2>3. \A u \in Clients : ~(op[u] = "new" /\ pc[u] \in Calling)
    BY <2>2 DEF MakingInv
  <2> QED  BY <1>1, <2>2, <2>3 DEF MakingInv
<1> QED  BY <1>1, <1>3, <1>4

-----------------------------------------------------------------------------
(* Where the tokens are.                                                   *)

\* Goroutine t acts, and what the others hold stays where it is.
Apart(t) == \A u \in Clients \ {t} :
  own'[u] = own[u] /\ doomed'[u] = doomed[u] /\ job'[u] = job[u] /\ target'[u] = target[u]

LEMMA OthersHold ==
  ASSUME NEW t \in Clients, Apart(t)
  PROVE  \A u \in Clients \ {t} : /\ \A k : Holds(u, k)' <=> Holds(u, k)
                                  /\ (DoomedOnce(u)' <=> DoomedOnce(u))
BY DEF Apart, Holds, Condemned, DoomedOnce

LEMMA PlacesKept ==
  ASSUME RegistryTypeOK, OnePlace, NEW t \in Clients, Apart(t),
         UNCHANGED <<issued, registered, stranded, slot, SlotsCount>>,
         \A k \in 1..issued : Holds(t, k)' <=> Holds(t, k), DoomedOnce(t)'
  PROVE  OnePlace'
<1>1. \A u \in Clients, k \in 1..issued : Holds(u, k)' <=> Holds(u, k)
  BY OthersHold
<1>2. \A k : InSlot(k)' = InSlot(k)
  BY DEF InSlot
<1>3. \A u \in Clients : DoomedOnce(u)'
  BY OthersHold DEF OnePlace
<1>4. registered' = registered /\ stranded' = stranded /\ issued' = issued /\ slot' = slot
  OBVIOUS
<1>5. \A u \in Clients, k \in 1..issued' : Holds(u, k)' =>
        k \in registered' /\ ~InSlot(k)' /\ k \notin stranded'
        /\ \A v \in Clients : Holds(v, k)' => v = u
  BY <1>1, <1>2, <1>4 DEF OnePlace
<1>6. \A k \in registered' :
        InSlot(k)' \/ k \in stranded' \/ \E u \in Clients : Holds(u, k)'
  <2> SUFFICES ASSUME NEW k \in registered
               PROVE  InSlot(k)' \/ k \in stranded \/ \E u \in Clients : Holds(u, k)'
    BY <1>4
  <2>1. k \in 1..issued
    BY DEF RegistryTypeOK
  <2> QED  BY <1>1, <1>2, <2>1 DEF OnePlace
<1> QED
  BY <1>2, <1>3, <1>4, <1>5, <1>6 DEF OnePlace

LEMMA DeinitsKept ==
  ASSUME UNCHANGED taken, \A u \in Clients : pc'[u] = "deinit" <=> pc[u] = "deinit"
  PROVE  SlotsCount' = SlotsCount
BY DEF SlotsCount

LEMMA BeginPlaces ==
  ASSUME RegistryTypeOK, WrapperTypes, Courses, ClosingInv, OnePlace,
         NEW t \in Clients, NEW o \in Operations, Begin(t, o)
  PROVE  OnePlace'
<1>1. /\ UNCHANGED <<issued, registered, stranded, slot, own, doomed, job, target>>
      /\ pc[t] = "idle"
      /\ \A u \in Clients \ {t} : pc'[u] = pc[u]
  BY DEF Begin, registryVars, jobs, history, Goto, At, WrapperTypes
<1>2. SlotsCount' = SlotsCount
  <2>1. CASE taken
    <3>1. closed
      BY <2>1 DEF ClosingInv
    <3>2. o \in {"new", "apply"} /\ taken' /\ pc'[t] = "register"
      BY <2>1, <3>1, OperationsAssumption DEF Begin, Goto, WrapperTypes
    <3> QED  BY <1>1, <2>1, <3>2 DEF SlotsCount
  <2>2. CASE ~taken
    <3>1. taken' => pc'[t] = "deinit"
      BY <2>2 DEF Begin, Goto, WrapperTypes
    <3> QED  BY <2>2, <3>1 DEF SlotsCount
  <2> QED  BY <2>1, <2>2
<1>3. Apart(t) /\ (\A k : Holds(t, k)' <=> Holds(t, k)) /\ (DoomedOnce(t)' <=> DoomedOnce(t))
  BY <1>1 DEF Apart, Holds, Condemned, DoomedOnce
<1>4. DoomedOnce(t)'
  BY <1>3 DEF OnePlace
<1> QED  BY <1>1, <1>2, <1>3, <1>4, PlacesKept

\* The new token's name is one that nobody has seen.
LEMMA RegisterPlaces ==
  ASSUME RegistryInv, WrapperTypes, Courses, OnePlace, NEW t \in Clients, Register(t)
  PROVE  OnePlace'
<1> DEFINE new == issued + 1
<1>1. /\ UNCHANGED <<stranded, slot, doomed, job, target, taken>> /\ issued' = new
      /\ registered' = registered \union {new} /\ pc[t] = "register" /\ job[t] = "none"
      /\ own'[t] = new /\ \A u \in Clients \ {t} : own'[u] = own[u]
      /\ \A u \in Clients : pc'[u] = "deinit" <=> pc[u] = "deinit"
  BY DEF Register, NewCallbackHandle, jobs, handle, history, Goto, At, Free, WrapperTypes
<1>2. issued \in Nat /\ 1..new = 1..issued \union {new} /\ new \notin 0..issued
      /\ registered \subseteq 1..issued /\ stranded \subseteq 1..issued
  <2>1. issued \in Nat /\ stranded \subseteq 1..issued
    BY DEF WrapperTypes
  <2>2. registered \subseteq 1..issued
    BY DEF RegistryInv, RegistryTypeOK
  <2> QED  BY <2>1, <2>2
<1>3. own[t] = NoToken /\ doomed[t] = <<>>
  BY <1>1 DEF Courses, Course, Owning, Leaving
<1>4. \A k : InSlot(k)' = InSlot(k)
  BY <1>1, DeinitsKept DEF InSlot
<1>5. ~InSlot(new)
  BY <1>2 DEF InSlot, WrapperTypes
<1>6. \A u \in Clients \ {t} : ~Holds(u, new)
  <2> SUFFICES ASSUME NEW u \in Clients \ {t} PROVE ~Holds(u, new)
    OBVIOUS
  <2>1. own[u] # new
    BY <1>2 DEF WrapperTypes
  <2>2. ~Condemned(u, new)
    BY <1>2 DEF WrapperTypes, Condemned
  <2>3. job[u] = "delete" => target[u] # new
    BY <1>2 DEF RegistryInv, NamesIssued
  <2> QED  BY <2>1, <2>2, <2>3 DEF Holds
<1>7. \A u \in Clients \ {t} :
         (\A k : Holds(u, k)' <=> Holds(u, k)) /\ (DoomedOnce(u)' <=> DoomedOnce(u))
  BY <1>1, OthersHold DEF Apart
<1>8. \A k \in 1..new : (Holds(t, k)' <=> k = new) /\ (k # new => ~Holds(t, k))
  BY <1>1, <1>2, <1>3 DEF Holds, Condemned, NoToken
<1>9. DoomedOnce(t)'
  BY <1>1, <1>3 DEF DoomedOnce
<1> HIDE DEF new
<1>10. \A u \in Clients : DoomedOnce(u)'
  BY <1>7, <1>9 DEF OnePlace
<1>11. \A u \in Clients, k \in 1..new : Holds(u, k)' =>
        k \in registered' /\ ~InSlot(k)' /\ k \notin stranded
        /\ \A v \in Clients : Holds(v, k)' => v = u
  <2> SUFFICES ASSUME NEW u \in Clients, NEW k \in 1..new, Holds(u, k)'
               PROVE  k \in registered' /\ ~InSlot(k)' /\ k \notin stranded
                      /\ \A v \in Clients : Holds(v, k)' => v = u
    OBVIOUS
  <2>1. CASE k = new
    BY <1>1, <1>2, <1>4, <1>5, <1>6, <1>7, <2>1
  <2>2. CASE k # new
    <3>1. u # t /\ Holds(u, k) /\ k \in 1..issued
      BY <1>2, <1>7, <1>8, <2>2
    <3> QED  BY <1>1, <1>4, <1>7, <1>8, <2>2, <3>1 DEF OnePlace
  <2> QED  BY <2>1, <2>2
<1>12. \A k \in registered' :
         InSlot(k)' \/ k \in stranded \/ \E u \in Clients : Holds(u, k)'
  <2> SUFFICES ASSUME NEW k \in registered'
               PROVE  InSlot(k)' \/ k \in stranded \/ \E u \in Clients : Holds(u, k)'
    OBVIOUS
  <2>1. CASE k = new
    BY <1>2, <1>8, <2>1
  <2>2. CASE k # new
    BY <1>1, <1>2, <1>4, <1>7, <1>8, <2>2 DEF OnePlace
  <2> QED  BY <2>1, <2>2
<1>13. \A k \in 1..new : InSlot(k)' => k \in registered' /\ k \notin stranded
  BY <1>1, <1>2, <1>4, <1>5 DEF OnePlace
<1>14. stranded \subseteq registered'
  BY <1>1 DEF OnePlace
<1> QED  BY <1>1, <1>10, <1>11, <1>12, <1>13, <1>14 DEF OnePlace

\* The token of a call that is over moves to what its deferred calls delete.
LEMMA DeferHolds ==
  ASSUME WrapperTypes, Courses, NEW t \in Clients, pc[t] \in Owning, job[t] = "none",
         NEW d \in Seq(0..issued), Defer(t, d), UNCHANGED jobs
  PROVE  /\ Apart(t)
         /\ \A k \in 1..issued : Holds(t, k) <=> own[t] = k
         /\ \A k \in 1..issued : Holds(t, k)' <=> \E i \in DOMAIN d : d[i] = k
         /\ (\A i, j \in DOMAIN d : d[i] = d[j] /\ i # j => d[i] = NoToken) => DoomedOnce(t)'
         /\ \A u \in Clients : pc'[u] = "deinit" <=> pc[u] = "deinit"
<1>1. doomed[t] = <<>>
  BY DEF Courses, Course, Owning, Leaving
<1>2. /\ doomed'[t] = d /\ own'[t] = NoToken /\ job' = job /\ target' = target
      /\ \A u \in Clients \ {t} : own'[u] = own[u] /\ doomed'[u] = doomed[u] /\ pc'[u] = pc[u]
      /\ pc'[t] = "dispose"
  BY DEF Defer, WrapperTypes, jobs, Goto
<1>3. Apart(t)
  BY <1>2 DEF Apart
<1>4. \A k \in 1..issued : Holds(t, k) <=> own[t] = k
  BY <1>1 DEF Holds, Condemned
<1>5. \A k \in 1..issued : Holds(t, k)' <=> \E i \in DOMAIN d : d[i] = k
  BY <1>2 DEF Holds, Condemned, NoToken
<1>6. (\A i, j \in DOMAIN d : d[i] = d[j] /\ i # j => d[i] = NoToken) => DoomedOnce(t)'
  BY <1>2 DEF DoomedOnce
<1>7. \A u \in Clients : pc'[u] = "deinit" <=> pc[u] = "deinit"
  <2>1. pc[t] # "deinit" /\ pc'[t] # "deinit"
    BY <1>2 DEF Owning
  <2> QED  BY <1>2, <2>1
<1> QED  BY <1>3, <1>4, <1>5, <1>6, <1>7

\* Steps that move no token, or only among what their goroutine holds.
LEMMA QuietPlaces ==
  ASSUME RegistryTypeOK, WrapperTypes, Courses, OnePlace, NEW t \in Clients,
         NativeReturns(t) \/ PanicPending(t) \/ SweepPanics(t) \/ SweepErrors(t) \/ Return(t)
  PROVE  OnePlace'
<1>1. /\ UNCHANGED <<issued, registered, stranded, slot, taken, own, doomed>>
      /\ job[t] = "none"
  BY DEF NativeReturns, PanicPending, SweepPanics, SweepErrors, Return, handle, history,
         registryVars, At, Free
<1>2. /\ \A u \in Clients \ {t} : pc'[u] = pc[u] /\ job'[u] = job[u] /\ target'[u] = target[u]
      /\ job'[t] # "delete"
  BY <1>1 DEF NativeReturns, PanicPending, SweepPanics, SweepErrors, SweepOn, Return, registryVars,
         jobs, StartTake, StartJob, EndJob, Goto, WrapperTypes, RegistryTypeOK
<1>3. pc[t] # "deinit" /\ pc'[t] # "deinit"
  BY DEF NativeReturns, PanicPending, SweepPanics, SweepErrors, SweepOn, Return, At, Goto,
         WrapperTypes
<1>4. SlotsCount' = SlotsCount
  BY <1>1, <1>2, <1>3, DeinitsKept
<1>5. (\A k : Holds(t, k)' <=> Holds(t, k)) /\ (DoomedOnce(t)' <=> DoomedOnce(t)) /\ Apart(t)
  BY <1>1, <1>2 DEF Holds, Condemned, DoomedOnce, Apart
<1>6. DoomedOnce(t)'
  BY <1>5 DEF OnePlace
<1> QED  BY <1>1, <1>4, <1>5, <1>6, PlacesKept

\* The call's own token, if any, is what its deferred calls delete.
LEMMA AbandonPlaces ==
  ASSUME RegistryTypeOK, WrapperTypes, Courses, OnePlace, NEW t \in Clients, pc[t] \in Owning,
         job[t] = "none", Abandon(t), UNCHANGED <<registryVars, stranded, slot, taken>>
  PROVE  OnePlace'
<1>1. <<own[t]>> \in Seq(0..issued) /\ DOMAIN <<own[t]>> = {1} /\ <<own[t]>>[1] = own[t]
  BY HandsType
<1>2. Defer(t, <<own[t]>>) /\ UNCHANGED <<issued, registered, jobs>>
  BY DEF Abandon, registryVars
<1>3. PICK d \in Seq(0..issued) : d = <<own[t]>>
  BY <1>1
<1>4. DOMAIN d = {1} /\ d[1] = own[t]
  BY <1>1, <1>3
<1>5. /\ \A i, j \in DOMAIN d : d[i] = d[j] /\ i # j => d[i] = NoToken
      /\ \A k : (\E i \in DOMAIN d : d[i] = k) <=> own[t] = k
  BY <1>4
<1>6. Defer(t, d)
  BY <1>2, <1>3 DEF Defer
<1>7. /\ Apart(t) /\ DoomedOnce(t)'
      /\ \A k \in 1..issued : Holds(t, k)' <=> \E i \in DOMAIN d : d[i] = k
      /\ \A k \in 1..issued : Holds(t, k) <=> own[t] = k
      /\ \A u \in Clients : pc'[u] = "deinit" <=> pc[u] = "deinit"
  BY <1>2, <1>5, <1>6, DeferHolds
<1>8. \A k \in 1..issued : Holds(t, k)' <=> Holds(t, k)
  BY <1>5, <1>7
<1> QED  BY <1>2, <1>7, <1>8, DeinitsKept, PlacesKept

\* A constructor that panics away leaves its token with nobody.
LEMMA StrandedPlaces ==
  ASSUME RegistryTypeOK, WrapperTypes, Courses, OnePlace, NEW t \in Clients, Rethrow(t),
         op[t] = "new"
  PROVE  OnePlace'
<1>1. /\ pc[t] = "panics" /\ job[t] = "none" /\ Defer(t, <<>>)
      /\ UNCHANGED <<issued, registered, slot, taken, jobs>>
      /\ stranded' = stranded \union {own[t]}
  BY DEF Rethrow, At, Free, registryVars, handle
<1>2. own[t] \in 1..issued /\ pc[t] \in Owning
  BY <1>1 DEF Courses, Course, Owning, Registering, WrapperTypes, NoToken
<1>3. <<>> \in Seq(0..issued) /\ DOMAIN <<>> = {}
  OBVIOUS
<1>4. /\ Apart(t) /\ DoomedOnce(t)'
      /\ \A k \in 1..issued : Holds(t, k) <=> own[t] = k
      /\ \A k \in 1..issued : ~Holds(t, k)'
      /\ \A u \in Clients : pc'[u] = "deinit" <=> pc[u] = "deinit"
  BY <1>1, <1>2, <1>3, DeferHolds
<1>5. \A k : InSlot(k)' = InSlot(k)
  BY <1>1, <1>4, DeinitsKept DEF InSlot
<1>6. \A u \in Clients \ {t} :
         (\A k : Holds(u, k)' <=> Holds(u, k)) /\ (DoomedOnce(u)' <=> DoomedOnce(u))
  BY <1>4, OthersHold
<1>7. own[t] \in registered /\ ~InSlot(own[t]) /\ \A u \in Clients \ {t} : ~Holds(u, own[t])
  BY <1>2, <1>4 DEF OnePlace
<1>8. \A u \in Clients : DoomedOnce(u)'
  BY <1>4, <1>6 DEF OnePlace
<1>9. \A u \in Clients, k \in 1..issued : Holds(u, k)' =>
         k \in registered /\ ~InSlot(k)' /\ k \notin stranded'
         /\ \A v \in Clients : Holds(v, k)' => v = u
  <2> SUFFICES ASSUME NEW u \in Clients, NEW k \in 1..issued, Holds(u, k)'
               PROVE  k \in registered /\ ~InSlot(k)' /\ k \notin stranded'
                      /\ \A v \in Clients : Holds(v, k)' => v = u
    OBVIOUS
  <2>1. u # t /\ Holds(u, k) /\ k # own[t]
    BY <1>4, <1>6, <1>7
  <2> QED  BY <1>1, <1>4, <1>5, <1>6, <2>1 DEF OnePlace
<1>10. \A k \in registered : InSlot(k)' \/ k \in stranded' \/ \E u \in Clients : Holds(u, k)'
  <2> SUFFICES ASSUME NEW k \in registered, k # own[t]
               PROVE  InSlot(k)' \/ k \in stranded' \/ \E u \in Clients : Holds(u, k)'
    BY <1>1
  <2>1. k \in 1..issued
    BY DEF RegistryTypeOK
  <2> QED  BY <1>1, <1>4, <1>5, <1>6, <2>1 DEF OnePlace
<1>11. \A k \in 1..issued : InSlot(k)' => k \in registered /\ k \notin stranded'
  BY <1>1, <1>5, <1>7 DEF OnePlace
<1>12. stranded' \subseteq registered
  BY <1>1, <1>7 DEF OnePlace
<1> QED  BY <1>1, <1>8, <1>9, <1>10, <1>11, <1>12 DEF OnePlace

\* The call's token goes into a slot of an open handle, and the call holds what
\* was there before.
LEMMA SwapPlaces ==
  ASSUME RegistryTypeOK, WrapperTypes, Courses, OnePlace, NEW t \in Clients, pc[t] \in Owning,
         job[t] = "none", NEW s \in Slots, ~taken, own[t] # NoToken,
         NEW d \in Seq(0..issued), Defer(t, d),
         \A k \in 1..issued : (\E i \in DOMAIN d : d[i] = k) <=> slot[s] = k,
         \A i, j \in DOMAIN d : d[i] = d[j] /\ i # j => d[i] = NoToken,
         slot' = [slot EXCEPT ![s] = own[t]], UNCHANGED <<registryVars, stranded, taken>>
  PROVE  OnePlace'
<1>1. UNCHANGED <<issued, registered, jobs>> /\ registered \subseteq 1..issued
  BY DEF registryVars, RegistryTypeOK
<1>2. own[t] \in 1..issued
  BY DEF WrapperTypes, NoToken
<1>3. /\ Apart(t) /\ DoomedOnce(t)'
      /\ \A k \in 1..issued : Holds(t, k) <=> own[t] = k
      /\ \A k \in 1..issued : Holds(t, k)' <=> slot[s] = k
  BY <1>1, DeferHolds
<1>4. SlotsCount /\ SlotsCount'
  BY DEF SlotsCount
<1>5. \A r \in Slots : slot'[r] = IF r = s THEN own[t] ELSE slot[r]
  BY DEF WrapperTypes
<1>6. \A r \in Slots, q \in Slots : slot[r] = slot[q] /\ r # q => slot[r] = NoToken
  BY DEF OnePlace, Slots
<1>7. /\ own[t] \in registered /\ own[t] \notin stranded
      /\ \A u \in Clients \ {t} : ~Holds(u, own[t])
      /\ \A r \in Slots : slot[r] # own[t]
  BY <1>2, <1>3, <1>4 DEF OnePlace, InSlot
<1>8. \A u \in Clients \ {t} :
         (\A k : Holds(u, k)' <=> Holds(u, k)) /\ (DoomedOnce(u)' <=> DoomedOnce(u))
  BY <1>3, OthersHold
<1>9. \A u \in Clients : DoomedOnce(u)'
  BY <1>3, <1>8 DEF OnePlace
<1>10. \A k \in 1..issued : InSlot(k)' <=> k = own[t] \/ \E r \in Slots \ {s} : slot[r] = k
  BY <1>4, <1>5 DEF InSlot
<1>11. \A k \in 1..issued : InSlot(k) <=> \E r \in Slots : slot[r] = k
  BY <1>4 DEF InSlot
<1>12. \A u \in Clients, k \in 1..issued : Holds(u, k)' =>
         k \in registered /\ ~InSlot(k)' /\ k \notin stranded
         /\ \A v \in Clients : Holds(v, k)' => v = u
  <2> SUFFICES ASSUME NEW u \in Clients, NEW k \in 1..issued, Holds(u, k)'
               PROVE  k \in registered /\ ~InSlot(k)' /\ k \notin stranded
                      /\ \A v \in Clients : Holds(v, k)' => v = u
    OBVIOUS
  <2>1. CASE u = t
    <3>1. slot[s] = k /\ k # NoToken /\ InSlot(k)
      BY <1>3, <1>11, <2>1 DEF NoToken
    <3>2. ~InSlot(k)'
      BY <1>6, <1>7, <1>10, <3>1
    <3>3. k \in registered /\ k \notin stranded /\ \A v \in Clients : ~Holds(v, k)
      BY <3>1 DEF OnePlace
    <3> QED  BY <1>8, <2>1, <3>2, <3>3
  <2>2. CASE u # t
    <3>1. Holds(u, k) /\ ~InSlot(k) /\ k # own[t]
      BY <1>7, <1>8, <2>2 DEF OnePlace
    <3>2. ~InSlot(k)' /\ ~Holds(t, k)'
      BY <1>3, <1>10, <1>11, <3>1
    <3> QED  BY <1>8, <3>1, <3>2 DEF OnePlace
  <2> QED  BY <2>1, <2>2
<1>13. \A k \in registered : InSlot(k)' \/ k \in stranded \/ \E u \in Clients : Holds(u, k)'
  <2> SUFFICES ASSUME NEW k \in registered
               PROVE  InSlot(k)' \/ k \in stranded \/ \E u \in Clients : Holds(u, k)'
    OBVIOUS
  <2>1. k \in 1..issued
    BY <1>1
  <2>2. CASE InSlot(k)
    BY <1>3, <1>10, <1>11, <2>1, <2>2
  <2>3. CASE \E u \in Clients : Holds(u, k)
    BY <1>3, <1>8, <1>10, <2>1, <2>3
  <2> QED  BY <2>2, <2>3 DEF OnePlace
<1>14. \A k \in 1..issued : InSlot(k)' => k \in registered /\ k \notin stranded
  BY <1>7, <1>10, <1>11 DEF OnePlace
<1>15. slot'["new"] = slot'["set"] => slot'["new"] = NoToken
  BY <1>5, <1>7 DEF Slots
<1>16. stranded \subseteq registered
  BY DEF OnePlace
<1> QED  BY <1>1, <1>9, <1>12, <1>13, <1>14, <1>15, <1>16 DEF OnePlace

LEMMA SucceedPlaces ==
  ASSUME RegistryTypeOK, WrapperTypes, Courses, MakingInv, ClosingInv, OnePlace,
         NEW t \in Clients, Succeed(t)
  PROVE  OnePlace'
<1>1. /\ pc[t] = "status" /\ job[t] = "none" /\ Defer(t, LeftOver(t))
      /\ UNCHANGED <<registryVars, stranded, taken>>
  BY DEF Succeed, At, Free, history
<1>2. pc[t] \in Owning /\ pc[t] \in Calling
  BY <1>1 DEF Owning, Calling
<1>3. CASE op[t] \notin Slots
  <2>1. slot' = slot /\ LeftOver(t) = <<own[t]>>
    BY <1>3 DEF Succeed, Retains, LeftOver, Slots
  <2> QED  BY <1>1, <1>2, <2>1, AbandonPlaces DEF Abandon
<1>4. CASE op[t] \in Slots
  <2>1. slot' = [slot EXCEPT ![op[t]] = own[t]]
    BY <1>4 DEF Succeed, Retains
  <2>2. own[t] # NoToken
    BY <1>2, <1>4 DEF Courses, Course, Registering, Slots
  <2>3. CASE op[t] = "new"
    <3>1. slot["new"] = NoToken /\ ~taken
      BY <1>2, <2>3 DEF MakingInv, ClosingInv, Slots
    <3>2. PICK d \in Seq(0..issued) : d = <<>>
      <4>1. <<>> \in Seq(0..issued)
        OBVIOUS
      <4> QED  BY <4>1
    <3>3. LeftOver(t) = d /\ DOMAIN d = {}
      BY <2>3, <3>2 DEF LeftOver
    <3>4. Defer(t, d)
      BY <1>1, <3>3 DEF Defer
    <3>5. /\ \A i, j \in DOMAIN d : d[i] = d[j] /\ i # j => d[i] = NoToken
          /\ \A k \in 1..issued : (\E i \in DOMAIN d : d[i] = k) <=> slot["new"] = k
      BY <3>1, <3>3 DEF NoToken
    <3> QED  BY <1>1, <1>2, <1>4, <2>1, <2>2, <2>3, <3>1, <3>4, <3>5, SwapPlaces
  <2>4. CASE op[t] = "set"
    <3>1. t \in Pinned
      BY <1>1, <2>4 DEF Pinned, OnHandle
    <3>2. ~taken
      BY <3>1, PinnedIsOpen
    <3>3. PICK d \in Seq(0..issued) : d = <<slot["set"]>>
      <4>1. slot["set"] \in 0..issued
        BY HandsType
      <4>2. <<slot["set"]>> \in Seq(0..issued)
        BY <4>1
      <4> QED  BY <4>2
    <3>4. LeftOver(t) = d /\ DOMAIN d = {1} /\ d[1] = slot["set"]
      BY <2>4, <3>3 DEF LeftOver
    <3>5. Defer(t, d)
      BY <1>1, <3>4 DEF Defer
    <3>6. /\ \A i, j \in DOMAIN d : d[i] = d[j] /\ i # j => d[i] = NoToken
          /\ \A k \in 1..issued : (\E i \in DOMAIN d : d[i] = k) <=> slot["set"] = k
      BY <3>4
    <3> QED  BY <1>1, <1>2, <1>4, <2>1, <2>2, <2>4, <3>2, <3>5, <3>6, SwapPlaces
  <2> QED  BY <1>4, <2>3, <2>4 DEF Slots
<1> QED  BY <1>3, <1>4

LEMMA DeletePlaces ==
  ASSUME RegistryTypeOK, WrapperTypes, Courses, OnePlace, NEW t \in Clients, DeleteNext(t)
  PROVE  OnePlace'
<1>1. /\ UNCHANGED <<issued, registered, stranded, slot, taken, pc, own>>
      /\ job[t] = "none" /\ pc[t] \in Leaving /\ doomed[t] # <<>>
  BY DEF DeleteNext, At, Free, handle, history, Leaving
<1>2. own[t] = NoToken
  BY <1>1 DEF Courses, Course, Owning, Leaving
<1>3. PICK d \in Seq(0..issued) : d = doomed[t]
  BY DEF WrapperTypes
<1>4. PICK n \in Nat \ {0} : n = Len(d) /\ DOMAIN d = 1..n
  BY <1>1, <1>3, EmptySeq, LenProperties
<1>5. /\ Head(d) = d[1] /\ DOMAIN Tail(d) = 1..(n - 1)
      /\ \A i \in 1..(n - 1) : Tail(d)[i] = d[i + 1]
  <2>1. d # <<>>
    BY <1>1, <1>3
  <2>2. /\ Tail(d) \in Seq(0..issued) /\ Len(Tail(d)) = Len(d) - 1
        /\ \A i \in 1..Len(Tail(d)) : Tail(d)[i] = d[i + 1]
    BY <2>1, HeadTailProperties
  <2>3. DOMAIN Tail(d) = 1..Len(Tail(d))
    BY <2>2, LenProperties
  <2>4. Head(d) = d[1]
    BY <2>1
  <2> QED  BY <1>4, <2>2, <2>3, <2>4
<1>6. PICK first, rest : first = d[1] /\ rest = Tail(d)
  OBVIOUS
<1>7. doomed'[t] = rest /\ \A u \in Clients \ {t} : doomed'[u] = doomed[u]
  BY <1>3, <1>6 DEF DeleteNext, WrapperTypes
<1>8. /\ \A u \in Clients \ {t} : job'[u] = job[u] /\ target'[u] = target[u]
      /\ first = NoToken => job'[t] = "none"
      /\ first # NoToken => job'[t] = "delete" /\ target'[t] = first
  BY <1>1, <1>3, <1>5, <1>6 DEF DeleteNext, StartDelete, StartJob, jobs, RegistryTypeOK
<1>9. \A i \in DOMAIN rest : rest[i] = d[i + 1] /\ i + 1 \in DOMAIN d /\ i + 1 # 1
  BY <1>4, <1>5, <1>6
<1>10. \A j \in DOMAIN d \ {1} : j - 1 \in DOMAIN rest /\ rest[j - 1] = d[j]
  BY <1>4, <1>5, <1>6
<1>11. 1 \in DOMAIN d
  BY <1>4
<1>12. \A i, j \in DOMAIN d : d[i] = d[j] /\ i # j => d[i] = NoToken
  BY <1>3 DEF OnePlace, DoomedOnce
<1>13. \A k : Condemned(t, k) <=> k = first \/ \E i \in DOMAIN rest : rest[i] = k
  <2> SUFFICES ASSUME NEW k
               PROVE  Condemned(t, k) <=> k = first \/ \E i \in DOMAIN rest : rest[i] = k
    OBVIOUS
  <2>1. Condemned(t, k) <=> \E j \in DOMAIN d : d[j] = k
    BY <1>3 DEF Condemned
  <2>2. ASSUME NEW j \in DOMAIN d, d[j] = k, j # 1 PROVE \E i \in DOMAIN rest : rest[i] = k
    BY <1>10, <2>2
  <2>3. ASSUME NEW i \in DOMAIN rest, rest[i] = k PROVE \E j \in DOMAIN d : d[j] = k
    BY <1>9, <2>3
  <2> QED  BY <1>6, <1>11, <2>1, <2>2, <2>3
<1>14. \A k : Condemned(t, k)' <=> \E i \in DOMAIN rest : rest[i] = k
  BY <1>7 DEF Condemned
<1>15. \A k \in 1..issued : Holds(t, k)' <=> Holds(t, k)
  BY <1>1, <1>2, <1>8, <1>13, <1>14 DEF Holds, NoToken
<1>16. DoomedOnce(t)'
  <2>1. \A i, j \in DOMAIN rest : rest[i] = rest[j] /\ i # j => rest[i] = NoToken
    <3> SUFFICES ASSUME NEW i \in DOMAIN rest, NEW j \in DOMAIN rest, rest[i] = rest[j], i # j
                 PROVE  rest[i] = NoToken
      OBVIOUS
    <3>1. i \in Nat /\ j \in Nat
      BY <1>5, <1>6
    <3>2. i + 1 # j + 1
      BY <3>1
    <3> QED  BY <1>9, <1>12, <3>2
  <2>2. first # NoToken => \A i \in DOMAIN rest : rest[i] # first
    BY <1>6, <1>9, <1>11, <1>12
  <2> QED  BY <1>7, <1>8, <1>14, <2>1, <2>2 DEF DoomedOnce
<1>17. Apart(t)
  BY <1>1, <1>7, <1>8 DEF Apart
<1> QED  BY <1>1, <1>15, <1>16, <1>17, DeinitsKept, PlacesKept

LEMMA ReleasePlaces ==
  ASSUME RegistryTypeOK, WrapperTypes, ClosingInv, MakingInv, OnePlace, NEW t \in Clients,
         Release(t)
  PROVE  OnePlace'
<1>1. UNCHANGED <<issued, registered, stranded, slot, own, doomed, job, target>>
  BY DEF Release, registryVars, jobs, locals, history
<1>2. ~taken
  BY ReleaseClosing, PinnedIsOpen
<1>3. taken' => pc'[t] = "deinit"
  BY <1>2 DEF Release, Goto, WrapperTypes
<1>4. SlotsCount' = SlotsCount
  BY <1>2, <1>3 DEF SlotsCount
<1>5. Apart(t) /\ (\A k : Holds(t, k)' <=> Holds(t, k)) /\ (DoomedOnce(t)' <=> DoomedOnce(t))
  BY <1>1 DEF Apart, Holds, Condemned, DoomedOnce
<1>6. DoomedOnce(t)'
  BY <1>5 DEF OnePlace
<1> QED  BY <1>1, <1>4, <1>5, <1>6, PlacesKept

\* The slots' tokens pass to the one who frees the handle.
LEMMA DeinitPlaces ==
  ASSUME RegistryTypeOK, WrapperTypes, Courses, ClosingInv, OnePlace, NEW t \in Clients,
         Deinit(t)
  PROVE  OnePlace'
<1>1. /\ UNCHANGED <<issued, registered, stranded, slot, taken, own, job, target>>
      /\ pc[t] = "deinit" /\ job[t] = "none" /\ pc'[t] = "cleanup"
      /\ \A u \in Clients \ {t} : pc'[u] = pc[u] /\ doomed'[u] = doomed[u]
  BY DEF Deinit, registryVars, handle, jobs, history, At, Free, Goto, WrapperTypes
<1>2. taken /\ SlotsCount /\ ~SlotsCount'
  BY <1>1 DEF ClosingInv, SlotsCount
<1>3. own[t] = NoToken /\ doomed[t] = <<>>
  BY <1>1 DEF Courses, Course, Owning, Leaving
<1>4. PICK d \in Seq(0..issued) : d = <<slot["new"], slot["set"]>>
  BY HandsType
<1>5. DOMAIN d = {1, 2} /\ d[1] = slot["new"] /\ d[2] = slot["set"] /\ doomed'[t] = d
  BY <1>4 DEF Deinit, WrapperTypes
<1>6. DoomedOnce(t)'
  BY <1>1, <1>5 DEF DoomedOnce, OnePlace
<1>7. \A k \in 1..issued : ~Holds(t, k)
  BY <1>1, <1>3 DEF Holds, Condemned, NoToken
<1>8. \A k \in 1..issued : Holds(t, k)' <=> InSlot(k)
  BY <1>1, <1>2, <1>3, <1>5 DEF Holds, Condemned, InSlot, Slots, NoToken
<1>9. \A k : ~InSlot(k)'
  BY <1>2 DEF InSlot
<1>10. Apart(t)
  BY <1>1 DEF Apart
<1>11. \A u \in Clients \ {t} :
         (\A k : Holds(u, k)' <=> Holds(u, k)) /\ (DoomedOnce(u)' <=> DoomedOnce(u))
  BY <1>10, OthersHold
<1>12. \A u \in Clients : DoomedOnce(u)'
  BY <1>6, <1>11 DEF OnePlace
<1>13. \A u \in Clients, k \in 1..issued : Holds(u, k)' =>
         k \in registered /\ k \notin stranded /\ \A v \in Clients : Holds(v, k)' => v = u
  BY <1>7, <1>8, <1>11 DEF OnePlace
<1>14. \A k \in registered : k \in stranded \/ \E u \in Clients : Holds(u, k)'
  <2> SUFFICES ASSUME NEW k \in registered
               PROVE  k \in stranded \/ \E u \in Clients : Holds(u, k)'
    OBVIOUS
  <2>1. k \in 1..issued
    BY DEF RegistryTypeOK
  <2> QED  BY <1>7, <1>8, <1>11, <2>1 DEF OnePlace
<1> QED  BY <1>1, <1>9, <1>12, <1>13, <1>14 DEF OnePlace

\* Only the deletion that finds its token takes it out of the map.
LEMMA JobPlaces ==
  ASSUME RegistryInv, WrapperTypes, Courses, OnePlace, NEW t \in Clients, JobStep(t),
         UNCHANGED <<stranded, slot, taken, pc, own, doomed>>
  PROVE  OnePlace'
<1>1. SlotsCount' = SlotsCount /\ issued' = issued /\ RegistryTypeOK
  BY DEF SlotsCount, JobStep, LoadAndDelete, CloseEntry, Drained, Uncount, FindEntry,
         TakeCallbackPanic, TakeCallbackError, RegistryInv
<1>2. Apart(t)
  BY DEF Apart, JobStep, LoadAndDelete, CloseEntry, Drained, Uncount, FindEntry,
         TakeCallbackPanic, TakeCallbackError, NextJob, EndJob, jobs, RegistryInv,
                RegistryTypeOK
<1>3. CASE job[t] # "delete"
  <2>1. registered' = registered /\ job'[t] # "delete"
    BY <1>3 DEF JobStep, LoadAndDelete, CloseEntry, Drained, Uncount, FindEntry,
                TakeCallbackPanic, TakeCallbackError, NextJob, EndJob, jobs, RegistryInv,
                RegistryTypeOK
  <2>2. (\A k : Holds(t, k)' <=> Holds(t, k)) /\ (DoomedOnce(t)' <=> DoomedOnce(t))
    BY <1>3, <2>1 DEF Holds, Condemned, DoomedOnce
  <2>3. DoomedOnce(t)'
    BY <2>2 DEF OnePlace
  <2> QED  BY <1>1, <1>2, <2>1, <2>2, <2>3, PlacesKept
<1>4. CASE job[t] = "delete"
  <2>1. LoadAndDelete(t)
    BY <1>4 DEF JobStep, LoadAndDelete, CloseEntry, Drained, Uncount, FindEntry,
                TakeCallbackPanic, TakeCallbackError
  <2>2. PICK gone \in 1..issued : gone = target[t]
    BY <1>4 DEF RegistryInv, NamesIssued
  <2>3. registered' = registered \ {gone} /\ job'[t] # "delete"
    BY <2>1, <2>2 DEF LoadAndDelete, NextJob, EndJob, RegistryInv, RegistryTypeOK
  <2>4. own[t] = NoToken /\ ~Condemned(t, gone)
    BY <1>4, <2>2 DEF Courses, Course, Owning, Leaving, OnePlace, DoomedOnce
  <2>5. \A k \in 1..issued : Holds(t, k)' <=> Holds(t, k) /\ k # gone
    BY <1>4, <2>2, <2>3, <2>4 DEF Holds, Condemned, NoToken
  <2>6. Holds(t, gone)
    BY <1>4, <2>2 DEF Holds
  <2>7. DoomedOnce(t)'
    BY <2>3 DEF OnePlace, DoomedOnce
  <2>8. \A u \in Clients \ {t} :
          (\A k : Holds(u, k)' <=> Holds(u, k)) /\ (DoomedOnce(u)' <=> DoomedOnce(u))
    BY <1>2, OthersHold
  <2>9. gone \notin stranded /\ ~InSlot(gone) /\ \A u \in Clients \ {t} : ~Holds(u, gone)
    BY <2>6 DEF OnePlace
  <2>10. \A k : InSlot(k)' <=> InSlot(k)
    BY <1>1 DEF InSlot
  <2>11. \A u \in Clients : DoomedOnce(u)'
    BY <2>7, <2>8 DEF OnePlace
  <2>12. \A u \in Clients, k \in 1..issued : Holds(u, k)' <=> Holds(u, k) /\ k # gone
    BY <2>5, <2>8, <2>9
  <2>13. \A u \in Clients, k \in 1..issued : Holds(u, k)' =>
           k \in registered' /\ ~InSlot(k)' /\ k \notin stranded
           /\ \A v \in Clients : Holds(v, k)' => v = u
    BY <2>3, <2>10, <2>12 DEF OnePlace
  <2>14. \A k \in 1..issued : InSlot(k)' => k \in registered' /\ k \notin stranded
    BY <2>3, <2>9, <2>10 DEF OnePlace
  <2>15. \A k \in registered' : InSlot(k)' \/ k \in stranded \/ \E u \in Clients : Holds(u, k)'
    <3> SUFFICES ASSUME NEW k \in registered, k # gone
                 PROVE  InSlot(k)' \/ k \in stranded \/ \E u \in Clients : Holds(u, k)'
      BY <2>3
    <3>1. k \in 1..issued
      BY <1>1 DEF RegistryTypeOK
    <3> QED  BY <2>10, <2>12, <3>1 DEF OnePlace
  <2>16. stranded \subseteq registered'
    BY <2>3, <2>9 DEF OnePlace
  <2> QED  BY <1>1, <2>11, <2>13, <2>14, <2>15, <2>16 DEF OnePlace
<1> QED  BY <1>3, <1>4

-----------------------------------------------------------------------------
(* The wrappers' theorems.                                                 *)

LEMMA WrapperInitInv == Init => WrapperInv
<1> SUFFICES ASSUME Init PROVE WrapperInv
  OBVIOUS
<1>1. issued = 0 /\ registered = {} /\ \A t \in Clients : job[t] = "none"
  BY DEF Init, RegistryInit
<1>2. WrapperTypes
  <2>1. 0 \in 0..issued /\ <<>> \in Seq(0..issued) /\ <<>> \in Seq({"own"} \union Slots)
    BY <1>1
  <2>2. slot \in [Slots -> 0..issued] /\ held \in [Slots -> 0..issued]
        /\ own \in [Clients -> 0..issued]
    BY <2>1 DEF Init, NoToken
  <2>3. sweep \in [Clients -> Seq({"own"} \union Slots)] /\ doomed \in [Clients -> Seq(0..issued)]
    BY <2>1 DEF Init
  <2> QED  BY <1>1, <2>2, <2>3 DEF Init, WrapperTypes, Labels
<1>3. Courses
  BY <1>1 DEF Init, Courses, Course, Owning, Leaving, Registering
<1>4. MakingInv
  BY DEF Init, MakingInv, Slots
<1>5. ClosingInv
  <2>1. Pinned = {}
    BY DEF Init, Pinned, OnHandle
  <2> QED  BY <2>1, FS_EmptySet DEF Init, ClosingInv
<1>6. OnePlace
  <2>1. \A t \in Clients : doomed[t] = <<>> /\ DOMAIN doomed[t] = {}
    BY DEF Init
  <2> QED  BY <1>1, <2>1 DEF Init, OnePlace, DoomedOnce, Slots
<1> QED  BY <1>2, <1>3, <1>4, <1>5, <1>6 DEF WrapperInv

\* Invocations concern the wrappers only through what they record.
LEMMA InvocationStep ==
  ASSUME WrapperInv,
         UNCHANGED <<issued, registered, jobs, handle, nativeVars, pc, op, own, failed, sweep,
                     doomed, stranded>>
  PROVE  WrapperInv'
<1>1. UNCHANGED <<issued, registered, job, target, made, calls, closed, taken, slot, object, held,
                  pc, op, own, failed, sweep, doomed, stranded>>
  BY DEF jobs, handle, nativeVars
<1>2. WrapperTypes' /\ Courses'
  BY <1>1 DEF WrapperInv, WrapperTypes, Courses, Course
<1>3. MakingInv'
  BY <1>1 DEF WrapperInv, MakingInv
<1>4. ClosingInv'
  <2>1. Pinned' = Pinned
    BY <1>1 DEF Pinned, OnHandle
  <2> QED  BY <1>1, <2>1 DEF WrapperInv, ClosingInv
<1>5. OnePlace'
  BY <1>1 DEF WrapperInv, OnePlace, InSlot, SlotsCount, Holds, Condemned, DoomedOnce
<1> QED  BY <1>2, <1>3, <1>4, <1>5 DEF WrapperInv

LEMMA StepInv ==
  ASSUME RegistryInv, WrapperInv, NEW t \in Clients, Step(t)
  PROVE  WrapperInv'
<1> USE DEF WrapperInv
<1>1. RegistryTypeOK
  BY DEF RegistryInv
<1>2. WrapperTypes'
  BY BeginTypes, RegisterTypes, SweepTypes, EndTypes, LetGoTypes, NativeTypes, ReleaseTypes,
     ReleaseClosing DEF Step, Courses
<1>3. Courses' /\ MakingInv' /\ ClosingInv'
  BY <1>1, StepCourse, StepMaking, StepClosing
<1>4. OnePlace'
  <2>1. CASE (Rethrow(t) /\ op[t] # "new") \/ ReturnError(t)
    <3>1. /\ Abandon(t) /\ pc[t] \in Owning /\ job[t] = "none"
          /\ UNCHANGED <<registryVars, stranded, slot, taken>>
      BY <2>1 DEF Rethrow, ReturnError, At, Free, Owning, handle, history
    <3> QED  BY <1>1, <3>1, AbandonPlaces
  <2>2. CASE Rethrow(t) /\ op[t] = "new"
    BY <1>1, <2>2, StrandedPlaces
  <2>3. CASE ~Rethrow(t) /\ ~ReturnError(t)
    BY <1>1, <2>3, RegisterPlaces, QuietPlaces, SucceedPlaces, DeletePlaces, ReleasePlaces,
       DeinitPlaces DEF Step
  <2> QED  BY <2>1, <2>2, <2>3
<1> QED  BY <1>2, <1>3, <1>4

LEMMA WrapperNextInv == RegistryInv /\ WrapperInv /\ [Next]_vars => WrapperInv'
<1> SUFFICES ASSUME RegistryInv, WrapperInv, [Next]_vars PROVE WrapperInv'
  OBVIOUS
<1>0. RegistryTypeOK /\ WrapperTypes /\ Courses /\ MakingInv /\ ClosingInv /\ OnePlace
  BY DEF RegistryInv, WrapperInv
<1>1. ASSUME NEW t \in Clients, NEW o \in Operations, Begin(t, o) PROVE WrapperInv'
  BY <1>0, <1>1, BeginTypes, BeginCourse, BeginMaking, BeginClosing, BeginPlaces DEF WrapperInv
<1>2. ASSUME NEW t \in Clients, Step(t) PROVE WrapperInv'
  BY <1>2, StepInv
<1>3. ASSUME NEW t \in Clients, NativeInvokesInside(t) PROVE WrapperInv'
  BY <1>3, InvocationStep DEF NativeInvokesInside, Invoke, history
<1>4. ASSUME NEW a \in Callers, NativeInvokesOutside(a) PROVE WrapperInv'
  BY <1>4, InvocationStep DEF NativeInvokesOutside, Invoke, history, locals
<1>5. ASSUME NEW t \in Clients, NativeTakesToken(t) PROVE WrapperInv'
  <2>1. WrapperTypes' /\ MakingInv' /\ ClosingInv'
    BY <1>0, <1>5, NativeTypes, TakesTokenMaking, TakesTokenClosing
  <2>2. UNCHANGED <<issued, registered, stranded, slot, taken, pc, op, own, doomed, job, target>>
    BY <1>5 DEF NativeTakesToken, registryVars, jobs, handle, locals, history
  <2>3. Courses'
    BY <1>0, <2>2 DEF Courses, Course
  <2>4. OnePlace'
    BY <1>0, <2>2 DEF OnePlace, InSlot, SlotsCount, Holds, Condemned, DoomedOnce
  <2> QED  BY <2>1, <2>3, <2>4 DEF WrapperInv
<1>6. ASSUME NEW t \in Clients, JobBelow(t) PROVE WrapperInv'
  <2>1. JobStep(t) /\ UNCHANGED <<handle, nativeVars, pc, locals, stranded>>
    BY <1>6 DEF JobBelow, Below
  <2>2. issued' = issued
    BY <2>1 DEF JobStep, LoadAndDelete, CloseEntry, Drained, Uncount, FindEntry,
                TakeCallbackPanic, TakeCallbackError
  <2>3. WrapperTypes'
    BY <1>0, <2>1, <2>2, TypesHold
  <2>4. UNCHANGED <<made, calls, closed, taken, slot, object, held, pc, op, own, failed, doomed,
                    stranded>>
    BY <2>1 DEF handle, nativeVars, locals
  <2>5. Courses' /\ OnePlace'
    BY <1>0, <2>1, <2>4, JobCourse, JobPlaces
  <2>6. MakingInv'
    BY <1>0, <2>4 DEF MakingInv
  <2>7. ClosingInv'
    <3>1. Pinned' = Pinned
      BY <2>4 DEF Pinned, OnHandle
    <3> QED  BY <1>0, <2>4, <3>1 DEF ClosingInv
  <2> QED  BY <2>3, <2>5, <2>6, <2>7 DEF WrapperInv
<1>7. ASSUME NEW a \in Callers, FrameBelow(a) PROVE WrapperInv'
  <2>1. /\ Dispatch(a) \/ CallbackEnds(a)
        /\ UNCHANGED <<handle, nativeVars, pc, op, own, failed, sweep, doomed, stranded>>
    BY <1>7 DEF FrameBelow, Below, locals
  <2>2. UNCHANGED <<issued, registered, jobs>>
    BY <2>1 DEF Dispatch, CallbackEnds, LoadCallback, AcquireCallback, Record, RecordErr,
                ReleaseCallback
  <2> QED  BY <2>1, <2>2, InvocationStep
<1>8. CASE UNCHANGED vars
  BY <1>8, InvocationStep DEF vars, registryVars, locals, history
<1> QED
  BY OperationsAssumption, <1>1, <1>2, <1>3, <1>4, <1>5, <1>6, <1>7, <1>8
     DEF Next, Call, Reenter, AllRest

\* The inductive invariant of the wrappers above the registry's.
THEOREM WrapperInvariant == Spec => [](RegistryInv /\ WrapperInv)
<1>1. Init => RegistryInv /\ WrapperInv
  BY RegistryInitInv, WrapperInitInv DEF Init
<1>2. RegistryInv /\ WrapperInv /\ [Next]_vars => (RegistryInv /\ WrapperInv)'
  <2>1. WrapperInv => WrapperTypes
    BY DEF WrapperInv
  <2> QED  BY <2>1, WrapperKeepsRegistry, WrapperNextInv
<1> QED  BY <1>1, <1>2, PTL DEF Spec

\* The wrappers use the registry as its contract allows: no callback runs in it
\* once the deletion of its token is over, whichever call deleted it.
THEOREM WrapperDeletionIsFinal == Spec => []NoCallbackAfterDelete
BY GoneHasNobody, WrapperInvariant, PTL

\* However setters, calls and Close overlap: what a slot names is registered,
\* and nobody is about to delete it, until the handle's resources are taken.
THEOREM SlotsStayRegistered == Spec => []SlotTokenRegistered
<1>1. RegistryInv /\ WrapperInv => SlotTokenRegistered
  <2> SUFFICES ASSUME RegistryInv, WrapperInv, ~taken, NEW s \in Slots, slot[s] # NoToken
               PROVE  /\ slot[s] \in registered
                      /\ \A t \in Clients : job[t] = "delete" => target[t] # slot[s]
    BY DEF SlotTokenRegistered
  <2>1. PICK k \in 1..issued : k = slot[s]
    BY DEF WrapperInv, WrapperTypes, NoToken
  <2>2. InSlot(k)
    BY <2>1 DEF InSlot, SlotsCount
  <2>3. k \in registered /\ \A t \in Clients : ~Holds(t, k)
    BY <2>2 DEF WrapperInv, OnePlace
  <2> QED  BY <2>1, <2>3 DEF Holds
<1> QED  BY <1>1, WrapperInvariant, PTL

\* Whatever failed, panicked or raced: with no operation under way the registry
\* has exactly the tokens of the slots and those of constructors that rethrew a
\* panic, and a closed handle has been freed.
THEOREM RegistryDrains == Spec => []OnlyPanickedConstructorsLeak
<1>1. RegistryInv /\ WrapperInv => OnlyPanickedConstructorsLeak
  <2> SUFFICES ASSUME RegistryInv, WrapperInv, \A t \in Clients : At(t, "idle")
               PROVE  /\ registered = stranded \union
                           IF taken THEN {} ELSE {slot[s] : s \in Slots} \ {NoToken}
                      /\ closed => object = "freed"
    BY DEF OnlyPanickedConstructorsLeak, SlotTokens
  <2>1. \A t \in Clients : pc[t] = "idle" /\ job[t] = "none"
    BY DEF At, Free
  <2>2. \A t \in Clients : own[t] = NoToken /\ doomed[t] = <<>> /\ op[t] = "none"
    BY <2>1 DEF WrapperInv, Courses, Course, Owning, Leaving
  <2>3. \A t \in Clients, k \in 1..issued : ~Holds(t, k)
    BY <2>1, <2>2 DEF Holds, Condemned, NoToken
  <2>4. SlotsCount <=> ~taken
    BY <2>1 DEF SlotsCount
  <2>5. registered \subseteq 1..issued
    BY DEF RegistryInv, RegistryTypeOK
  <2>6. \A k \in registered : k \in stranded \/ (~taken /\ \E s \in Slots : slot[s] = k)
    BY <2>3, <2>4, <2>5 DEF WrapperInv, OnePlace, InSlot
  <2>7. ASSUME ~taken, NEW s \in Slots, slot[s] # NoToken PROVE slot[s] \in registered
    <3>1. PICK k \in 1..issued : k = slot[s]
      BY <2>7 DEF WrapperInv, WrapperTypes, NoToken
    <3>2. InSlot(k)
      BY <2>4, <2>7, <3>1 DEF InSlot
    <3> QED  BY <3>1, <3>2 DEF WrapperInv, OnePlace
  <2>8. registered = stranded \union IF taken THEN {} ELSE {slot[s] : s \in Slots} \ {NoToken}
    <3>1. stranded \subseteq registered
      BY DEF WrapperInv, OnePlace
    <3>2. NoToken \notin registered
      BY <2>5 DEF NoToken
    <3> QED  BY <2>6, <2>7, <3>1, <3>2
  <2>9. closed => object = "freed"
    <3>1. Pinned = {}
      BY <2>2 DEF Pinned, OnHandle
    <3>2. calls = 0
      BY <3>1, FS_EmptySet DEF WrapperInv, ClosingInv
    <3> QED  BY <2>1, <3>2 DEF WrapperInv, ClosingInv
  <2> QED  BY <2>8, <2>9
<1> QED  BY <1>1, WrapperInvariant, PTL

\* No constructor is under way and none has stranded its token.
NoConstructors == (\A t \in Clients : op[t] # "new") /\ stranded = {}

\* Where no constructor takes a callback, every token drains: with no operation
\* under way the registry has exactly the tokens of the slots.  So a
\* constructor's rethrow is the only way the wrappers lose a token.
THEOREM RegistryDrainsWithoutConstructors ==
  ASSUME "new" \notin Operations
  PROVE  Spec => []TokensDrain
<1>1. Init => NoConstructors
  BY DEF Init, NoConstructors
<1>2. RegistryInv /\ WrapperInv /\ NoConstructors /\ [Next]_vars => NoConstructors'
  <2> SUFFICES ASSUME RegistryInv, WrapperInv, NoConstructors, [Next]_vars
               PROVE  NoConstructors'
    OBVIOUS
  <2>0. WrapperTypes
    BY DEF WrapperInv
  <2>1. ASSUME NEW t \in Clients, NEW o \in Operations, Begin(t, o) PROVE NoConstructors'
    BY <2>0, <2>1 DEF Begin, history, NoConstructors, WrapperTypes
  <2>2. ASSUME NEW t \in Clients, Step(t) PROVE NoConstructors'
    <3>1. CASE Rethrow(t)
      BY <2>0, <3>1 DEF Rethrow, Abandon, Defer, NoConstructors
    <3>2. CASE Return(t)
      BY <2>0, <3>2 DEF Return, NoConstructors, WrapperTypes
    <3> QED
      BY <2>0, <2>2, <3>1, <3>2
         DEF Step, Register, NativeReturns, PanicPending, SweepPanics, SweepErrors, ReturnError,
             Abandon, Defer, Succeed, DeleteNext, Release, Deinit, locals, history,
             NoConstructors
  <2>3. ASSUME UNCHANGED <<op, stranded>> PROVE NoConstructors'
    BY <2>3 DEF NoConstructors
  <2>4. ASSUME NEW t \in Clients, NativeInvokesInside(t) \/ NativeTakesToken(t)
        PROVE UNCHANGED <<op, stranded>>
    BY <2>4 DEF NativeInvokesInside, NativeTakesToken, locals, history
  <2>5. ASSUME NEW a \in Callers, NativeInvokesOutside(a) PROVE UNCHANGED <<op, stranded>>
    BY <2>5 DEF NativeInvokesOutside, locals, history
  <2>6. ASSUME NEW t \in Clients, JobBelow(t) PROVE UNCHANGED <<op, stranded>>
    BY <2>6 DEF JobBelow, Below, locals
  <2>7. ASSUME NEW a \in Callers, FrameBelow(a) PROVE UNCHANGED <<op, stranded>>
    BY <2>7 DEF FrameBelow, Below, locals
  <2>8. CASE UNCHANGED vars
    BY <2>3, <2>8 DEF vars, locals, history
  <2> QED
    BY OperationsAssumption, <2>1, <2>2, <2>3, <2>4, <2>5, <2>6, <2>7, <2>8
       DEF Next, Call, Reenter, AllRest
<1>3. OnlyPanickedConstructorsLeak /\ NoConstructors => TokensDrain
  BY DEF OnlyPanickedConstructorsLeak, NoConstructors, TokensDrain
<1> QED  BY <1>1, <1>2, <1>3, WrapperInvariant, RegistryDrains, PTL DEF Spec
=============================================================================

--------------------------- MODULE CallbackRegistry ---------------------------
(***************************************************************************)
(* The purego callback registry src/src/gen/emit/callbacks.zig prints: the *)
(* sync.Map from userdata tokens to entries, the dispatcher every native   *)
(* invocation enters through, deletion, and the panics and errors an entry *)
(* keeps until a generated caller takes them.                              *)
(*                                                                         *)
(* The map's operations are atomic and so is a section under an entry's    *)
(* mutex; between the two, an entry found in the map may be deleted.       *)
(* Native threads may invoke a token at any time, also a deleted one.      *)
(***************************************************************************)
EXTENDS Integers, FiniteSets

CONSTANTS
  Clients,    \* goroutines that run generated code
  Natives,    \* native threads that invoke callbacks of their own accord
  MaxToken    \* bound on the tokens ever issued

Callers == Clients \union Natives
NoToken == 0
Tokens  == 1..MaxToken

ASSUME CallersAssumption ==
  /\ MaxToken \in Nat
  /\ Clients \intersect Natives = {}
  /\ IsFiniteSet(Callers)

VARIABLES
  issued,      \* nextCallbackToken
  registered,  \* the tokens in callbackRegistry
  \* The fields of an entry; `value` is FALSE when nil, `woken` is a Broadcast.
  value, closing, active, panicked, goErr, woken,
  \* The package counters.
  activeCallbackHandles, pendingCallbackPanics,
  \* A native invocation in the dispatcher: where it is and its token.
  frame, userdata,
  \* A registry call in progress: where it is, its token, and what it took.
  job, target, took

counters  == <<activeCallbackHandles, pendingCallbackPanics>>
entries   == <<value, closing, active, panicked, goErr, woken>>
frames    == <<frame, userdata>>
jobs      == <<job, target, took>>
registryVars == <<issued, registered, entries, counters, frames, jobs>>

Frames == {"out", "load", "acquire", "run", "record", "recordErr", "release"}
Jobs   == {"none", "delete", "close", "wait", "uncount",
           "findPanic", "takePanic", "findErr", "takeErr"}

RegistryTypeOK ==
  /\ issued \in 0..MaxToken /\ registered \subseteq 1..issued
  /\ value \in [Tokens -> BOOLEAN] /\ closing \in [Tokens -> BOOLEAN]
  /\ active \in [Tokens -> Nat] /\ woken \in [Tokens -> BOOLEAN]
  /\ panicked \in [Tokens -> BOOLEAN] /\ goErr \in [Tokens -> BOOLEAN]
  /\ activeCallbackHandles \in Nat /\ pendingCallbackPanics \in Nat
  /\ frame \in [Callers -> Frames] /\ userdata \in [Callers -> Tokens \union {NoToken}]
  /\ job \in [Clients -> Jobs] /\ target \in [Clients -> Tokens \union {NoToken}]
  /\ took \in [Clients -> BOOLEAN]

RegistryInit ==
  /\ issued = 0 /\ registered = {}
  /\ value = [k \in Tokens |-> FALSE] /\ closing = [k \in Tokens |-> FALSE]
  /\ active = [k \in Tokens |-> 0] /\ woken = [k \in Tokens |-> FALSE]
  /\ panicked = [k \in Tokens |-> FALSE] /\ goErr = [k \in Tokens |-> FALSE]
  /\ activeCallbackHandles = 0 /\ pendingCallbackPanics = 0
  /\ frame = [a \in Callers |-> "out"] /\ userdata = [a \in Callers |-> NoToken]
  /\ job = [t \in Clients |-> "none"] /\ target = [t \in Clients |-> NoToken]
  /\ took = [t \in Clients |-> FALSE]

-----------------------------------------------------------------------------
(* Issuing and deleting a token.                                           *)

\* Nobody knows the token before the call returns, so storing the entry and
\* counting it are one step.
NewCallbackHandle ==
  /\ issued < MaxToken
  /\ issued' = issued + 1
  /\ registered' = registered \union {issued + 1}
  /\ value' = [value EXCEPT ![issued + 1] = TRUE]
  /\ activeCallbackHandles' = activeCallbackHandles + 1
  /\ UNCHANGED <<closing, active, panicked, goErr, woken, pendingCallbackPanics, frames>>

StartJob(t, j, k) ==
  /\ job' = [job EXCEPT ![t] = j]
  /\ target' = [target EXCEPT ![t] = k]
  /\ took' = [took EXCEPT ![t] = FALSE]

EndJob(t, success) ==
  /\ job' = [job EXCEPT ![t] = "none"]
  /\ target' = [target EXCEPT ![t] = NoToken]
  /\ took' = [took EXCEPT ![t] = success]

NextJob(t, j) == job' = [job EXCEPT ![t] = j] /\ UNCHANGED <<target, took>>

\* DeleteCallbackHandle of the zero token is a no-op.
StartDelete(t, k) ==
  IF k = NoToken THEN UNCHANGED jobs ELSE StartJob(t, "delete", k)

\* Only the first of several deletions finds the token.
LoadAndDelete(t) ==
  /\ job[t] = "delete"
  /\ registered' = registered \ {target[t]}
  /\ IF target[t] \in registered THEN NextJob(t, "close") ELSE EndJob(t, FALSE)
  /\ UNCHANGED <<issued, entries, counters, frames>>

\* Mutant: deletion leaves the calls in flight alone.
CloseEntryAtOnce(t) ==
  /\ job[t] = "close"
  /\ closing' = [closing EXCEPT ![target[t]] = TRUE]
  /\ value' = [value EXCEPT ![target[t]] = FALSE]
  /\ NextJob(t, "uncount")
  /\ UNCHANGED <<issued, registered, active, panicked, goErr, woken, counters, frames>>

\* Under the entry's mutex: no new call gets in, and the ones inside are waited
\* for. cond.Wait gives the mutex up.
CloseEntry(t) ==
  /\ job[t] = "close"
  /\ LET k == target[t] IN
     /\ closing' = [closing EXCEPT ![k] = TRUE]
     /\ IF active[k] # 0
        THEN NextJob(t, "wait") /\ UNCHANGED value
        ELSE NextJob(t, "uncount") /\ value' = [value EXCEPT ![k] = FALSE]
  /\ UNCHANGED <<issued, registered, active, panicked, goErr, woken, counters, frames>>

\* The Broadcast wakes the deletion, which looks at the count again.
Drained(t) ==
  /\ job[t] = "wait" /\ woken[target[t]]
  /\ LET k == target[t] IN
     /\ woken' = [woken EXCEPT ![k] = FALSE]
     /\ IF active[k] # 0
        THEN UNCHANGED <<jobs, value>>
        ELSE NextJob(t, "uncount") /\ value' = [value EXCEPT ![k] = FALSE]
  /\ UNCHANGED <<issued, registered, closing, active, panicked, goErr, counters, frames>>

\* Mutant: the count of live tokens stays.
UncountNot(t) ==
  /\ job[t] = "uncount"
  /\ EndJob(t, TRUE)
  /\ UNCHANGED <<issued, registered, entries, counters, frames>>

Uncount(t) ==
  /\ job[t] = "uncount"
  /\ activeCallbackHandles' = activeCallbackHandles - 1
  /\ EndJob(t, TRUE)
  /\ UNCHANGED <<issued, registered, entries, pendingCallbackPanics, frames>>

-----------------------------------------------------------------------------
(* Taking what an entry keeps.                                             *)

\* zigoRethrowCallbackPanic and zigoCallbackError skip the zero token.
StartTake(t, j, k) ==
  IF k = NoToken THEN EndJob(t, FALSE) ELSE StartJob(t, j, k)

\* The entry is looked up without a lock; a deleted token has nothing.
FindEntry(t) ==
  /\ job[t] \in {"findPanic", "findErr"}
  /\ IF target[t] \in registered
     THEN NextJob(t, IF job[t] = "findPanic" THEN "takePanic" ELSE "takeErr")
     ELSE EndJob(t, FALSE)
  /\ UNCHANGED <<issued, registered, entries, counters, frames>>

TakeCallbackPanic(t) ==
  /\ job[t] = "takePanic"
  /\ LET k == target[t] IN
     /\ panicked' = [panicked EXCEPT ![k] = FALSE]
     /\ pendingCallbackPanics' = pendingCallbackPanics - IF panicked[k] THEN 1 ELSE 0
     /\ EndJob(t, panicked[k])
  /\ UNCHANGED <<issued, registered, value, closing, active, goErr, woken,
                 activeCallbackHandles, frames>>

TakeCallbackError(t) ==
  /\ job[t] = "takeErr"
  /\ LET k == target[t] IN
     /\ goErr' = [goErr EXCEPT ![k] = FALSE]
     /\ EndJob(t, goErr[k])
  /\ UNCHANGED <<issued, registered, value, closing, active, panicked, woken, counters,
                 frames>>

-----------------------------------------------------------------------------
(* The dispatcher: acquireCallback, the Go callback, releaseCallback.      *)

GotoFrame(a, f) == frame' = [frame EXCEPT ![a] = f] /\ UNCHANGED userdata
LeaveFrame(a) ==
  /\ frame' = [frame EXCEPT ![a] = "out"]
  /\ userdata' = [userdata EXCEPT ![a] = NoToken]

\* Native code invokes the dispatcher with token k.
Invoke(a, k) ==
  /\ frame[a] = "out"
  /\ frame' = [frame EXCEPT ![a] = "load"]
  /\ userdata' = [userdata EXCEPT ![a] = k]
  /\ UNCHANGED <<issued, registered, entries, counters, jobs>>

\* A token that is not in the map is answered with the failure value.
LoadCallback(a) ==
  /\ frame[a] = "load"
  /\ IF userdata[a] \in registered THEN GotoFrame(a, "acquire") ELSE LeaveFrame(a)
  /\ UNCHANGED <<issued, registered, entries, counters, jobs>>

AcquireCallback(a) ==
  /\ frame[a] = "acquire"
  /\ IF closing[userdata[a]]
     THEN LeaveFrame(a) /\ UNCHANGED active
     ELSE /\ active' = [active EXCEPT ![userdata[a]] = @ + 1]
          /\ GotoFrame(a, "run")
  /\ UNCHANGED <<issued, registered, value, closing, panicked, goErr, woken, counters, jobs>>

\* The Go callback returns, returns an error, or panics and is recovered.
CallbackEnds(a) ==
  /\ frame[a] = "run"
  /\ \E f \in {"release", "recordErr", "record"} : GotoFrame(a, f)
  /\ UNCHANGED <<issued, registered, entries, counters, jobs>>

\* Mutant: every panic is counted, the kept one or not.
RecordCountsAll(a) ==
  /\ frame[a] = "record"
  /\ panicked' = [panicked EXCEPT ![userdata[a]] = TRUE]
  /\ pendingCallbackPanics' = pendingCallbackPanics + 1
  /\ GotoFrame(a, "release")
  /\ UNCHANGED <<issued, registered, value, closing, active, goErr, woken,
                 activeCallbackHandles, jobs>>

\* record: the first panic is kept until it is taken.  The flag and the counter
\* change in one section under the entry's mutex.  The counter is also read
\* without it: between the two changes such a reader sees what it would have seen
\* just before the section, and nobody sees the flag, so the section is one step.
Record(a) ==
  /\ frame[a] = "record"
  /\ LET k == userdata[a] IN
     /\ panicked' = [panicked EXCEPT ![k] = TRUE]
     /\ pendingCallbackPanics' = pendingCallbackPanics + IF panicked[k] THEN 0 ELSE 1
  /\ GotoFrame(a, "release")
  /\ UNCHANGED <<issued, registered, value, closing, active, goErr, woken,
                 activeCallbackHandles, jobs>>

\* recordErr: the first error is kept until it is taken.
RecordErr(a) ==
  /\ frame[a] = "recordErr"
  /\ goErr' = [goErr EXCEPT ![userdata[a]] = TRUE]
  /\ GotoFrame(a, "release")
  /\ UNCHANGED <<issued, registered, value, closing, active, panicked, woken, counters, jobs>>

\* Mutant: the last one out wakes nobody.
ReleaseCallbackQuietly(a) ==
  /\ frame[a] = "release"
  /\ active' = [active EXCEPT ![userdata[a]] = @ - 1]
  /\ LeaveFrame(a)
  /\ UNCHANGED <<issued, registered, value, closing, panicked, goErr, woken, counters, jobs>>

\* The last one out of a closing entry broadcasts.
ReleaseCallback(a) ==
  /\ frame[a] = "release"
  /\ LET k == userdata[a] IN
     /\ active' = [active EXCEPT ![k] = @ - 1]
     /\ woken' = [woken EXCEPT ![k] = @ \/ (closing[k] /\ active[k] = 1)]
  /\ LeaveFrame(a)
  /\ UNCHANGED <<issued, registered, value, closing, panicked, goErr, counters, jobs>>

-----------------------------------------------------------------------------
JobStep(t) ==
  \/ LoadAndDelete(t) \/ CloseEntry(t) \/ Drained(t) \/ Uncount(t)
  \/ FindEntry(t) \/ TakeCallbackPanic(t) \/ TakeCallbackError(t)

Dispatch(a) ==
  LoadCallback(a) \/ AcquireCallback(a) \/ Record(a) \/ RecordErr(a) \/ ReleaseCallback(a)

\* A goroutine is between registry calls and not inside native code.
Free(t) == job[t] = "none" /\ frame[t] = "out"

\* Any client: issue a token, delete one, also one that is gone already, or
\* take what one keeps.
ClientStarts(t) ==
  /\ Free(t)
  /\ \/ NewCallbackHandle /\ UNCHANGED jobs
     \/ \E k \in 1..issued :
          /\ StartDelete(t, k) \/ \E j \in {"findPanic", "findErr"} : StartTake(t, j, k)
          /\ UNCHANGED <<issued, registered, entries, counters, frames>>

\* Native code invokes any token ever issued, on a thread of its own or inside
\* the native call of a goroutine.
NativeInvokes(a) ==
  /\ a \in Clients => Free(a)
  /\ \E k \in 1..issued : Invoke(a, k)

Rest == (\A t \in Clients : Free(t)) /\ UNCHANGED registryVars

RegistryNext ==
  \/ \E t \in Clients : ClientStarts(t) \/ JobStep(t)
  \/ \E a \in Callers : NativeInvokes(a) \/ Dispatch(a) \/ CallbackEnds(a)
  \/ Rest

RegistrySpec == RegistryInit /\ [][RegistryNext]_registryVars

\* Threads are scheduled and Go callbacks return.
RegistryFairSpec ==
  /\ RegistrySpec
  /\ \A t \in Clients : WF_registryVars(JobStep(t))
  /\ \A a \in Callers : WF_registryVars(Dispatch(a) \/ CallbackEnds(a))

-----------------------------------------------------------------------------
(* What must hold.                                                         *)

\* The callback of token k is running, or is about to report how it ended.
Running(k) == {a \in Callers : userdata[a] = k /\ frame[a] \in {"run", "record", "recordErr", "release"}}

\* A deletion of k that found the token and has not returned yet.
BeingDeleted(k) == \E t \in Clients : job[t] \in {"close", "wait", "uncount"} /\ target[t] = k

\* "Nothing may run a callback after Delete has returned": once the deletion
\* that found the token is over, no invocation is inside its callback.
NoCallbackAfterDelete ==
  \A k \in 1..issued : k \notin registered /\ ~BeingDeleted(k) => Running(k) = {}

\* "pendingCallbackPanics counts recorded panics no caller has taken yet": the
\* fast path of a call may trust it, whoever records and takes concurrently.
PendingCountsPanics ==
  pendingCallbackPanics = Cardinality({k \in Tokens : panicked[k]})

\* "every token must drain": the count of live tokens covers exactly those
\* registered and those a deletion is still waiting for.
ActiveCountsTokens ==
  activeCallbackHandles = Cardinality(registered \union {k \in Tokens : BeingDeleted(k)})

\* A deletion waits for the invocations that got in, and for no others: however
\* native code keeps invoking the token, DeleteCallbackHandle returns.
EveryDeletionReturns ==
  \A t \in Clients : job[t] = "delete" ~> job[t] = "none"
=============================================================================

-------------------------------- MODULE Session --------------------------------
(***************************************************************************)
(* The session src/src/gen/plugins/session.zig generates: a Go object that *)
(* adopts a primary handle and the dependent children it handed out, and   *)
(* closes the children, then the primary, once. The members are handles of *)
(* HandleLifecycle, whose goroutines also call them and close them         *)
(* directly. The program holds on to its handles here: what the collector  *)
(* does with forgotten ones is HandleLifecycle's matter.                   *)
(***************************************************************************)
EXTENDS HandleLifecycle, SequencesExt

CONSTANTS
  Primary,    \* the primary handle
  Kinds,      \* the child types, in declaration order
  KindOf,     \* the type of a child
  AddArgs,    \* argument lists of Add: children of one type, or nil
  MaxAdds     \* bound on the calls of Add

ASSUME SessionAssumption ==
  /\ Primary \in Roots
  /\ Kinds \in Seq(ToSet(Kinds)) /\ KindOf \in [Dependents -> ToSet(Kinds)]
  /\ AddArgs \subseteq Seq(Dependents \union {NoHandle})
  /\ MaxAdds \in Nat

VARIABLES
  \* The Go struct: one slice per child type, the flag, the once, its error.
  adopted, shut, once, closeErr,
  \* A goroutine: its session operation, the handles it has yet to adopt or
  \* close, and those that refused.
  task, todo, failures,
  \* History: calls of Add, every handle a slice ever held, what Close answered.
  adds, members, answers

sessionVars == <<adopted, shut, once, closeErr, task, todo, failures, adds, members, answers>>
locals  == <<task, todo, failures>>
history == <<adds, members, answers>>
allVars == <<vars, sessionVars>>

\* NewSession: the primary is there, the children still to be adopted.
SessionInit ==
  /\ Init
  /\ adopted = [kind \in ToSet(Kinds) |-> <<>>]
  /\ shut = FALSE /\ once = "new" /\ closeErr = {}
  /\ task = [t \in Threads |-> "none"] /\ todo = [t \in Threads |-> <<>>]
  /\ failures = [t \in Threads |-> {}]
  /\ adds = 0 /\ members = {} /\ answers = {}

-----------------------------------------------------------------------------
\* Goroutine t is at a step of the session, with no handle operation under way.
Doing(t, label) == task[t] = label /\ Idle(t)

Turn(t, label) == task' = [task EXCEPT ![t] = label]
Advance(t)     == todo' = [todo EXCEPT ![t] = Tail(@)]

Open(h)    == ~closed[h]
Refuses(h) == Open(h) /\ ~MayClose(h)

\* The session calls Close of handle h: already closed, closed by this call,
\* or refused, with `refused` saying which.
CallClose(t, h, refused) ==
  /\ refused = Refuses(h)
  /\ IF Open(h) /\ ~refused
     THEN Close(t) /\ closed'[h]
     ELSE UNCHANGED vars

-----------------------------------------------------------------------------
(* Add.                                                                    *)

BeginAdd(t) ==
  /\ Doing(t, "none") /\ adds < MaxAdds
  /\ \E s \in AddArgs :
       /\ ToSet(s) \subseteq made \union {NoHandle}
       /\ todo' = [todo EXCEPT ![t] = s]
  /\ Turn(t, "add")
  /\ adds' = adds + 1
  /\ UNCHANGED <<vars, adopted, shut, once, closeErr, failures, members, answers>>

\* Mutant: Add asks whether Close is over, not whether it has begun.
AdoptUntilDone(t) ==
  /\ Doing(t, "add") /\ todo[t] # <<>> /\ Head(todo[t]) # NoHandle
  /\ LET h == Head(todo[t]) IN
     IF once = "done"
     THEN Turn(t, "late") /\ UNCHANGED <<adopted, todo, members>>
     ELSE /\ adopted' = [adopted EXCEPT ![KindOf[h]] = Append(@, h)]
          /\ members' = members \union {h}
          /\ Advance(t) /\ UNCHANGED task
  /\ UNCHANGED <<vars, shut, once, closeErr, failures, adds, answers>>

SkipNil(t) ==
  /\ Doing(t, "add") /\ todo[t] # <<>> /\ Head(todo[t]) = NoHandle
  /\ Advance(t)
  /\ UNCHANGED <<vars, adopted, shut, once, closeErr, task, failures, history>>

\* One handle: appended, or, when Close has begun, left to be closed here.
Adopt(t) ==
  /\ Doing(t, "add") /\ todo[t] # <<>> /\ Head(todo[t]) # NoHandle
  /\ LET h == Head(todo[t]) IN
     IF shut
     THEN Turn(t, "late") /\ UNCHANGED <<adopted, todo, members>>
     ELSE /\ adopted' = [adopted EXCEPT ![KindOf[h]] = Append(@, h)]
          /\ members' = members \union {h}
          /\ Advance(t) /\ UNCHANGED task
  /\ UNCHANGED <<vars, shut, once, closeErr, failures, adds, answers>>

\* The lock is dropped, the handle closed, and its error dropped too.
CloseLate(t) ==
  /\ Doing(t, "late")
  /\ \E refused \in BOOLEAN : CallClose(t, Head(todo[t]), refused)
  /\ Turn(t, "add") /\ Advance(t)
  /\ UNCHANGED <<adopted, shut, once, closeErr, failures, history>>

ReturnFromAdd(t) ==
  /\ Doing(t, "add") /\ todo[t] = <<>>
  /\ Turn(t, "none")
  /\ UNCHANGED <<vars, adopted, shut, once, closeErr, todo, failures, history>>

-----------------------------------------------------------------------------
(* Close.                                                                  *)

\* Mutant: a flag instead of the once, which a second call does not wait for.
EnterOnceNoWait(t) ==
  /\ Doing(t, "none")
  /\ once' = IF once = "new" THEN "running" ELSE once
  /\ Turn(t, IF once = "new" THEN "shut" ELSE "none")
  /\ answers' = IF once = "new" THEN answers ELSE answers \union {closeErr}
  /\ UNCHANGED <<vars, adopted, shut, closeErr, todo, failures, adds, members>>

\* Close: sync.Once lets the first call run the body and the others wait for
\* its end.
EnterOnce(t) ==
  /\ Doing(t, "none")
  /\ once' = IF once = "new" THEN "running" ELSE once
  /\ Turn(t, IF once = "new" THEN "shut" ELSE "wait")
  /\ UNCHANGED <<vars, adopted, shut, closeErr, todo, failures, history>>

\* Mutant: the primary goes first.
CloseOrderPrimaryFirst ==
  <<Primary>> \o FlattenSeq([i \in DOMAIN Kinds |-> Reverse(adopted[Kinds[i]])])

\* Type after type, the most recent of each first, then the primary.
CloseOrder ==
  FlattenSeq([i \in DOMAIN Kinds |-> Reverse(adopted[Kinds[i]])]) \o <<Primary>>

\* One locked section marks the session and takes the slices away from it.
TakeSlices(t) ==
  /\ Doing(t, "shut")
  /\ shut' = TRUE
  /\ todo' = [todo EXCEPT ![t] = CloseOrder]
  /\ adopted' = [kind \in DOMAIN adopted |-> <<>>]
  /\ Turn(t, "close")
  /\ UNCHANGED <<vars, once, closeErr, failures, history>>

\* A member that refuses does not stop the others.
CloseMember(t) ==
  /\ Doing(t, "close") /\ todo[t] # <<>>
  /\ LET h == Head(todo[t]) IN \E refused \in BOOLEAN :
       /\ CallClose(t, h, refused)
       /\ failures' = [failures EXCEPT ![t] = IF refused THEN @ \union {h} ELSE @]
  /\ Advance(t)
  /\ UNCHANGED <<adopted, shut, once, closeErr, task, history>>

\* Mutant: the once is never marked done.
LeaveOnceRunning(t) ==
  /\ Doing(t, "close") /\ todo[t] = <<>>
  /\ closeErr' = failures[t]
  /\ answers' = answers \union {closeErr'}
  /\ Turn(t, "none")
  /\ failures' = [failures EXCEPT ![t] = {}]
  /\ UNCHANGED <<vars, adopted, shut, once, todo, adds, members>>

\* The failures are joined, the once is done, and the call answers.
LeaveOnce(t) ==
  /\ Doing(t, "close") /\ todo[t] = <<>>
  /\ closeErr' = failures[t]
  /\ once' = "done"
  /\ answers' = answers \union {closeErr'}
  /\ Turn(t, "none")
  /\ failures' = [failures EXCEPT ![t] = {}]
  /\ UNCHANGED <<vars, adopted, shut, todo, adds, members>>

AnswerAgain(t) ==
  /\ Doing(t, "wait") /\ once = "done"
  /\ answers' = answers \union {closeErr}
  /\ Turn(t, "none")
  /\ UNCHANGED <<vars, adopted, shut, once, closeErr, todo, failures, adds, members>>

-----------------------------------------------------------------------------
\* The program on its own: it calls handles and closes them between the
\* operations of the session.
Direct(t) ==
  /\ task[t] = "none" /\ (Start(t) \/ Close(t) \/ CloseView(t))
  /\ UNCHANGED sessionVars

\* Whatever operation on a handle is under way goes on.
Underway(t) == Proceed(t) /\ UNCHANGED sessionVars

SessionStep(t) ==
  \/ SkipNil(t) \/ Adopt(t) \/ CloseLate(t) \/ ReturnFromAdd(t)
  \/ TakeSlices(t) \/ CloseMember(t) \/ LeaveOnce(t) \/ AnswerAgain(t)

SessionRest == Rest /\ (\A t \in Threads : task[t] = "none") /\ UNCHANGED sessionVars

SessionNext ==
  \/ \E t \in Threads : Direct(t) \/ Underway(t) \/ BeginAdd(t) \/ EnterOnce(t) \/ SessionStep(t)
  \/ SessionRest

SessionSpec == SessionInit /\ [][SessionNext]_allVars

\* Goroutines are scheduled and native calls return. Go's Once and Mutex wake
\* whoever waits; nothing makes the program call Add or Close.
FairSessionSpec ==
  /\ SessionSpec
  /\ \A t \in Threads : WF_allVars(Underway(t) \/ SessionStep(t))

-----------------------------------------------------------------------------
(* What must hold.                                                         *)

\* "A member that fails to close does not stop the others, and the failures
\* are reported together": once Close is over, the primary and every child the
\* session ever adopted, by an Add that raced it too, is closed or in the error.
MembersClosedOrReported ==
  once = "done" => \A h \in members \union {Primary} : closed[h] \/ h \in closeErr

\* "a later call returns the first result": no two calls of Close, however they
\* overlap, answer differently.
AnswersAgree == Cardinality(answers) <= 1

\* The order is the contract: when the primary refuses, it is not for a child
\* the session took and could have closed first. Some child was never adopted,
\* refused itself, is inside a call, or is being made or torn down by another
\* goroutine; or a call is inside the primary, and its type hands out views.
RefusedForOthersOnly ==
  [][\A t \in Threads : Primary \in failures'[t] \ failures[t] =>
       \/ ReturnsBorrowedViews(Primary) /\ active[Primary] > 0
       \/ \E c \in Dependents :
            /\ up[c] = Primary
            /\ c \notin members \/ c \in failures[t] \/ active[c] > 0
       \/ \E u \in Threads \ {t} : Primary \in {reservation[u], orphan[u]}]_allVars

\* Close and Add return: nobody waits for the once for ever, and no member's
\* Close waits for a call.
SessionReturns == \A t \in Threads : task[t] # "none" ~> task[t] = "none"
=============================================================================

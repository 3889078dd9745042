------------------------------ MODULE MCRetained ------------------------------
(***************************************************************************)
(* RetainedCallback on small instances: which operations the goroutines    *)
(* call, and which of them a callback calls back, is each run's question.  *)
(***************************************************************************)
EXTENDS RetainedCallback, TLC

Everything == {"new", "set", "run", "apply", "close"}
OnlySet    == {"set"}
SetAndRun  == {"set", "run"}
OnlyApply  == {"apply"}
None       == {}

\* Goroutines are interchangeable; the runs with symmetry check invariants only.
AnyGoroutine == Permutations(Clients)
=============================================================================

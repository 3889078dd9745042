---------------------------- MODULE MCHandleNested ----------------------------
(***************************************************************************)
(* HandleLifecycle on a forest three deep: a child that itself makes       *)
(* a dependent child. The generator accepts such a binding.                *)
(***************************************************************************)
EXTENDS HandleLifecycle, TLC

CONSTANTS hParent, hChild, hGrandchild        \* handles
CONSTANTS t1, t2, gc     \* goroutines

NestedHandles == {hParent, hChild, hGrandchild}
NestedThreads == {t1, t2}
NestedCreator == (hParent :> NoHandle) @@ (hChild :> hParent) @@ (hGrandchild :> hChild)
NestedCalls   == {<<hParent>>}

NestedSymmetry == Permutations(NestedThreads)
=============================================================================

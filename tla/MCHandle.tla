------------------------------- MODULE MCHandle -------------------------------
(***************************************************************************)
(* Small instances of HandleLifecycle on flat forests, one for each shape  *)
(* the generator knows.                                                    *)
(***************************************************************************)
EXTENDS HandleFlat, HandleTypes, TLC

CONSTANTS hParent, hView, hChild, hSibling    \* handles
CONSTANTS t1, t2, t3, gc   \* goroutines

TwoThreads == {t1, t2}
ThreeThreads == {t1, t2, t3}

\* A BorrowBox, a BorrowView of it, and a BorrowChild made through the view.
ViewTypes ==
  (hParent :> BorrowBoxHandle) @@ (hView :> BorrowViewHandle) @@ (hChild :> BorrowChildHandle)
ViewHandles == DOMAIN ViewTypes
ViewViews   == ViewsAmong(ViewTypes)
ViewBorrowable == BorrowableAmong(ViewTypes)
ViewRetains == RetainingAmong(ViewTypes)
ViewCreator == (hParent :> NoHandle) @@ (hView :> hParent) @@ (hChild :> hView)
ViewCalls   == {<<hView>>, <<hChild>>}

\* An EventQueue and two of its Streams.
FamilyTypes ==
  (hParent :> EventQueueHandle) @@ (hChild :> StreamHandle) @@ (hSibling :> StreamHandle)
FamilyHandles == DOMAIN FamilyTypes
FamilyBorrowable == BorrowableAmong(FamilyTypes)
FamilyRetains == RetainingAmong(FamilyTypes)
FamilyCreator == (hParent :> NoHandle) @@ (hChild :> hParent) @@ (hSibling :> hParent)
FamilyCalls   == {<<hParent>>, <<hChild, hSibling>>}

ASSUME ForestsAreGenerated ==
  /\ ForestOf(ViewCreator, ViewTypes, NoHandle)
  /\ ForestOf(FamilyCreator, FamilyTypes, NoHandle)

\* How deep the handles of these forests lie, and which of them make children.
MCDepth  == [h \in Handles |-> IF h = hParent THEN 0 ELSE 1]
MCMakers == Handles \intersect {hParent, hView}

ThreeSymmetry == Permutations(ThreeThreads)
=============================================================================

-------------------------------- MODULE MCCalls --------------------------------
(***************************************************************************)
(* Public calls of one function, for TLC: each run calls the function its  *)
(* question is about.  MCBoundary calls them all.                          *)
(***************************************************************************)
EXTENDS PublicCallTables

\* A constructor whose callback may panic or return an error.
Constructor == {CallbackCalls["NewCallbackContext"]}

\* A setter, whose handle a native panic should poison.
Setter == {EventQueueCalls["EventQueue_SetObserver"]}
=============================================================================

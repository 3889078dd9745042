------------------------------- MODULE MCSession -------------------------------
(***************************************************************************)
(* A session over a parent with children of two types. A stream hands out  *)
(* a view, so it refuses to close while it is in use.                      *)
(***************************************************************************)
EXTENDS Session

CONSTANTS hPrimary, hStream, hView, hCursor   \* handles
CONSTANTS t1, t2, gc                          \* goroutines

MCHandles  == {hPrimary, hStream, hView, hCursor}
MCThreads  == {t1, t2}
MCCreator  == (hPrimary :> NoHandle) @@ (hStream :> hPrimary) @@ (hView :> hStream)
                @@ (hCursor :> hPrimary)
MCCalls    == {<<hCursor>>}
MCViews    == {hView}
MCKinds    == <<"stream", "cursor">>
MCKindOf   == (hStream :> "stream") @@ (hCursor :> "cursor")
MCAddArgs  == {<<NoHandle, hStream>>, <<hCursor>>}
=============================================================================

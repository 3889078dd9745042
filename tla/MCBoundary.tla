------------------------------- MODULE MCBoundary ------------------------------
(***************************************************************************)
(* One model of the parts that stand beside the handles, for TLC.  Around   *)
(* a native call: the library is loaded, public calls are made, the raw    *)
(* layer lays their frames out, streams and scratch buffers are lent.      *)
(* Around the generator: the table of error codes is kept, the generated   *)
(* tree is published.  The parts share no variable, so a behaviour runs    *)
(* one of them and leaves the others where they start.                     *)
(***************************************************************************)
EXTENDS LibraryLoader, NativeTables, PublicCallTables, Streams, ScratchBuffers,
        HandleTypes, ErrorCodes, Publishing, TLC

VARIABLE part  \* the part that runs

boundaryVars ==
  <<part, loaderVars, callVars, frameVarsAll, streamVars, scratchVars,
    lockVars, publishVars>>

\* The wrappers with the widest frames of the event queue, and those of the
\* materialized results, which a caller decodes and then releases.
WidestWrappers ==
  {w \in FramedCalls(EventQueueLibrary) \union FramedCalls(MaterializedLibrary) :
     w.args = 3}

\* The one search path resolves to another file than the default name.
OneSearchPath == <<CHOOSE p \in Paths : p # DefaultLibraryName>>

\* Where in the order a symbol is missing makes no difference: the first four of
\* a generated order stand for it.
FirstOfOrder == SubSeq(OpaqueOrder, 1, 4)

ReaderOrWriterOrBoth == {{"r"}, {"w"}, {"r", "w"}}

\* What the cleanup of a handle calls is a symbol its package loads, for every
\* package with a loader.
CgoDestructors ==
  {HandleTypes[n].destroys :
     n \in {"Pipeline", "IntBatch", "FloatBatch", "Counter", "Accumulator"}}

ASSUME DestructorsAreLoaded ==
  \A n \in HandleTypeNames :
    HandleTypes[n].owns =>
      HandleTypes[n].destroys \in
        CgoDestructors \union
        UNION {{l.order[i] : i \in 1..Len(l.order)} : l \in Libraries}

\* The handles a call is passed are interchangeable.
AnyHandle == Permutations(PassedHandles)

BoundaryInit ==
  /\ part \in {"loader", "calls", "frames", "streams", "scratch", "codes", "publish"}
  /\ PublishInit /\ (part # "publish" => Present(Outputs) = {})
  /\ LoaderInit /\ CallInit /\ FramesInit /\ StreamsInit /\ ScratchInit /\ LockInit

BoundaryNext ==
  \/ /\ part = "loader" /\ LoaderNext
     /\ UNCHANGED <<part, callVars, frameVarsAll, streamVars,
                    scratchVars, lockVars, publishVars>>
  \/ /\ part = "calls" /\ CallNext
     /\ UNCHANGED <<part, loaderVars, frameVarsAll, streamVars,
                    scratchVars, lockVars, publishVars>>
  \/ /\ part = "frames" /\ FramesNext
     /\ UNCHANGED <<part, loaderVars, callVars, streamVars,
                    scratchVars, lockVars, publishVars>>
  \/ /\ part = "streams" /\ StreamsNext
     /\ UNCHANGED <<part, loaderVars, callVars, frameVarsAll,
                    scratchVars, lockVars, publishVars>>
  \/ /\ part = "scratch" /\ ScratchNext
     /\ UNCHANGED <<part, loaderVars, callVars, frameVarsAll,
                    streamVars, lockVars, publishVars>>
  \/ /\ part = "codes" /\ LockNext
     /\ UNCHANGED <<part, loaderVars, callVars, frameVarsAll,
                    streamVars, scratchVars, publishVars>>
  \/ /\ part = "publish" /\ PublishNext
     /\ UNCHANGED <<part, loaderVars, callVars, frameVarsAll,
                    streamVars, scratchVars, lockVars>>

BoundarySpec == BoundaryInit /\ [][BoundaryNext]_boundaryVars
=============================================================================

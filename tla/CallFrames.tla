------------------------------ MODULE CallFrames ------------------------------
(***************************************************************************)
(* The calls of a purego package into its native library: the fn* methods  *)
(* and the wrappers below them in the generated *_gen.go under internal/.  *)
(*                                                                         *)
(* An fn* method lays its arguments out in a zigoCallFrame from a pool,    *)
(* points the out parameters at slots of that frame, lets native code run, *)
(* reads the slots back and returns the frame.  A wrapper turns what came  *)
(* back into a Go value, and frees a native buffer it was given.  A        *)
(* callback that runs inside native code calls further functions on the    *)
(* same goroutine while the frame of the first is in use.                  *)
(*                                                                         *)
(* NativeTables holds the signatures; this module takes the calls a        *)
(* program makes from them.                                                *)
(***************************************************************************)
EXTENDS Integers, Sequences, FiniteSets, TLC

-----------------------------------------------------------------------------
(* Signatures.                                                             *)

\* The functions named take `args` arguments, the last `outs` of them the
\* addresses of out slots.
Takes(names, args, outs) == [n \in names |-> [args |-> args, outs |-> outs]]

\* What the wrappers named do with what came back: "status" and "value" have no
\* out slot, "scalar" returns the slots as they are, "copied" copies the memory
\* they point at, "owned" copies and frees it with the function `frees`, "view"
\* hands it up to a caller that decodes and then releases it with `frees`.
Raw(names, how)          == [n \in names |-> [how |-> how, frees |-> "none"]]
Freeing(names, how, fn)  == [n \in names |-> [how |-> how, frees |-> fn]]

WrapperKinds == {"status", "value", "scalar", "copied", "owned", "view"}

\* A wrapper together with the functions it calls.
WrapperCall(fn, how, freeArgs) ==
  [args |-> fn.args, outs |-> fn.outs, how |-> how, freeArgs |-> freeArgs]

CONSTANTS
  FrameGoroutines,  \* the goroutines that call
  CallFrame,        \* the frames sync.Pool can hand out or make
  WrappersCalled,   \* the wrappers the program calls, as WrapperCalls
  MaxNested,        \* bound on calls inside callbacks of calls
  FrameArgs,        \* the room of a frame
  FrameOuts

ASSUME FramesAssumption ==
  /\ MaxNested \in Nat \ {0} /\ FrameArgs \in Nat /\ FrameOuts \in Nat
  /\ \A w \in WrappersCalled :
       /\ w.args \in 0..FrameArgs /\ w.freeArgs \in 0..FrameArgs
       /\ w.outs \in 0..FrameOuts /\ w.outs <= w.args
       /\ w.how \in WrapperKinds
       /\ w.how \in {"copied", "owned", "view"} => w.outs > 0

VARIABLES
  pool,    \* the frames no call uses
  args,    \* per frame, whose value each argument slot holds
  outs,    \* per frame, what each out slot holds
  stack,   \* per goroutine, its calls, the innermost last
  buffers  \* the calls whose native buffer has been allocated and not freed

frameVarsAll == <<pool, args, outs, stack, buffers>>

\* A call is known by its goroutine and depth.  Stale is whatever another call
\* left behind, Zero what the Go variables start with.
CallIds == FrameGoroutines \X (1..MaxNested)
Stale == <<"stale", 0>>
Zero  == <<"zero", 0>>

Depth(g)  == Len(stack[g])
Top(g)    == stack[g][Depth(g)]
Self(g)   == <<g, Depth(g)>>
TopAt(g, stages) == Depth(g) > 0 /\ Top(g).stage \in stages
SetTop(g, call) == stack' = [stack EXCEPT ![g][Depth(g)] = call]

FramesInit ==
  /\ pool = CallFrame
  /\ args = [f \in CallFrame |-> [i \in 1..FrameArgs |-> Stale]]
  /\ outs = [f \in CallFrame |-> [i \in 1..FrameOuts |-> Stale]]
  /\ stack = [g \in FrameGoroutines |-> <<>>]
  /\ buffers = {}

-----------------------------------------------------------------------------
(* The fn* methods.                                                        *)

\* The program, or a callback inside the innermost call, calls a wrapper, whose
\* result variables are zero.
CallWrapper(g) ==
  /\ Depth(g) < MaxNested
  /\ Depth(g) > 0 => Top(g).stage = "native"
  /\ \E w \in WrappersCalled :
       stack' = [stack EXCEPT ![g] = Append(@,
         [call |-> w, stage |-> "enter", frame |-> "none", ok |-> FALSE,
          got |-> [i \in 1..w.outs |-> Zero]])]
  /\ UNCHANGED <<pool, args, outs, buffers>>

\* Mutant: the out slots keep what they held.
LayOutWithoutSlots(g, f, n, got) ==
  /\ args' = [args EXCEPT ![f] = [i \in 1..FrameArgs |-> IF i <= n THEN Self(g) ELSE @[i]]]
  /\ UNCHANGED outs

\* zigoCallFrames.Get() gave f; the arguments and the out slots are set.
LayOut(g, f, n, got) ==
  /\ args' = [args EXCEPT ![f] = [i \in 1..FrameArgs |-> IF i <= n THEN Self(g) ELSE @[i]]]
  /\ outs' = [outs EXCEPT ![f] =
                [i \in 1..FrameOuts |-> IF i <= Len(got) THEN got[i] ELSE @[i]]]

EnterFn(g) ==
  /\ TopAt(g, {"enter"})
  /\ \E f \in pool :
       /\ pool' = pool \ {f}
       /\ LayOut(g, f, Top(g).call.args, Top(g).got)
       /\ SetTop(g, [Top(g) EXCEPT !.stage = "native", !.frame = f])
  /\ UNCHANGED buffers

\* Native code is done: it failed, and the shim returned its code before it had
\* written a result, or the results are written; one that returns memory has
\* allocated it.
NativeDone(g) ==
  /\ TopAt(g, {"native"})
  /\ LET call == Top(g).call  f == Top(g).frame IN
     \/ /\ call.how \notin {"value"}
        /\ UNCHANGED <<outs, buffers>>
        /\ SetTop(g, [Top(g) EXCEPT !.stage = "readBack", !.ok = FALSE])
     \/ /\ outs' = [outs EXCEPT ![f] =
                      [i \in 1..FrameOuts |-> IF i <= call.outs THEN Self(g) ELSE @[i]]]
        /\ buffers' = IF call.how \in {"owned", "view"} THEN buffers \union {Self(g)} ELSE buffers
        /\ SetTop(g, [Top(g) EXCEPT !.stage = "readBack", !.ok = TRUE])
  /\ UNCHANGED <<pool, args>>

\* zigoCallFrames.Put(f).  What it holds is some other call's from now on.
Forget(f) ==
  /\ pool' = pool \union {f}
  /\ args' = [args EXCEPT ![f] = [i \in 1..FrameArgs |-> Stale]]
  /\ outs' = [outs EXCEPT ![f] = [i \in 1..FrameOuts |-> Stale]]

\* Mutant: the frame is returned first, so that another call has used it since.
ReadBackAfterPut(g) ==
  /\ TopAt(g, {"readBack"})
  /\ Forget(Top(g).frame)
  /\ SetTop(g, [Top(g) EXCEPT !.stage = "put",
                  !.got = [i \in DOMAIN @ |-> outs'[Top(g).frame][i]]])
  /\ UNCHANGED buffers

\* The out slots are read back into the variables of the wrapper.
ReadBack(g) ==
  /\ TopAt(g, {"readBack"})
  /\ SetTop(g, [Top(g) EXCEPT !.stage = "put",
                  !.got = [i \in DOMAIN @ |-> outs[Top(g).frame][i]]])
  /\ UNCHANGED <<pool, args, outs, buffers>>

PutFrame(g) ==
  /\ TopAt(g, {"put"})
  /\ Forget(Top(g).frame)
  /\ SetTop(g, [Top(g) EXCEPT !.stage = "decode", !.frame = "none"])
  /\ UNCHANGED buffers

-----------------------------------------------------------------------------
(* The wrappers.                                                           *)

\* Mutant: nobody releases a view.
FinishView(g) ==
  /\ TopAt(g, {"decode"})
  /\ ~Top(g).ok \/ Top(g).call.how # "owned"
  /\ SetTop(g, [Top(g) EXCEPT !.stage = "return"])
  /\ UNCHANGED <<pool, args, outs, buffers>>

\* The wrapper returns at once: a failure, or a result without memory to free.
Finish(g) ==
  /\ TopAt(g, {"decode"})
  /\ ~Top(g).ok \/ Top(g).call.how \notin {"owned", "view"}
  /\ SetTop(g, [Top(g) EXCEPT !.stage = "return"])
  /\ UNCHANGED <<pool, args, outs, buffers>>

\* The copy, or the decoding of a view, which may panic, is done; the call that
\* frees the memory takes a frame of its own.
CopyThenFree(g) ==
  /\ TopAt(g, {"decode"}) /\ Top(g).ok /\ Top(g).call.how \in {"owned", "view"}
  /\ \E f \in pool :
       /\ pool' = pool \ {f}
       /\ LayOut(g, f, Top(g).call.freeArgs, <<>>)
       /\ SetTop(g, [Top(g) EXCEPT !.stage = "freeing", !.frame = f])
  /\ UNCHANGED buffers

\* Native code frees the buffer whose address the wrapper read back.
Free(g) ==
  /\ TopAt(g, {"freeing"})
  /\ buffers' = buffers \ {Top(g).got[1]}
  /\ Forget(Top(g).frame)
  /\ SetTop(g, [Top(g) EXCEPT !.stage = "return", !.frame = "none"])

ReturnWrapper(g) ==
  /\ TopAt(g, {"return"})
  /\ stack' = [stack EXCEPT ![g] = SubSeq(@, 1, Len(@) - 1)]
  /\ UNCHANGED <<pool, args, outs, buffers>>

FramesNext ==
  \E g \in FrameGoroutines :
    \/ CallWrapper(g) \/ EnterFn(g) \/ NativeDone(g) \/ ReadBack(g) \/ PutFrame(g)
    \/ Finish(g) \/ CopyThenFree(g) \/ Free(g) \/ ReturnWrapper(g)

FramesSpec == FramesInit /\ [][FramesNext]_frameVarsAll

-----------------------------------------------------------------------------
(* Properties.                                                             *)

CallsIn(g) == {<<g, d>> : d \in 1..Depth(g)}
CallOf(id) == stack[id[1]][id[2]]
Underway == UNION {CallsIn(g) : g \in FrameGoroutines}

\* As long as native code may look at a frame, it finds its own arguments there
\* and slots that nobody else has written: not a call on another goroutine, not
\* one a callback made inside this call, and not a call before it.
NativeSeesItsFrame ==
  \A id \in Underway :
    CallOf(id).stage \in {"native", "readBack", "freeing"} =>
      LET call == CallOf(id)  f == call.frame
          n == IF call.stage = "freeing" THEN call.call.freeArgs ELSE call.call.args IN
      /\ f \notin pool
      /\ \A i \in 1..n : args[f][i] = id
      /\ call.stage # "freeing" => \A i \in 1..call.call.outs : outs[f][i] \in {id, Zero}

\* A wrapper returns the results of its own call, zero where native code wrote
\* none, and reads only memory that has not been freed.
ResultsAreOwn ==
  \A id \in Underway :
    LET call == CallOf(id) IN
    call.stage \in {"decode", "freeing", "return"} =>
      /\ \A i \in 1..call.call.outs : call.got[i] = IF call.ok THEN id ELSE Zero
      /\ call.stage \in {"decode", "freeing"} /\ call.ok /\ call.call.how \in {"owned", "view"}
           => id \in buffers

\* A buffer native code allocated for a call is freed when the call returns.
BuffersAreFreed ==
  \A id \in CallIds :
    id \in buffers => id \in Underway /\ CallOf(id).stage # "return"
=============================================================================

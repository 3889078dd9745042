-------------------------------- MODULE Streams --------------------------------
(***************************************************************************)
(* A call that lends native code an io.Reader, an io.Writer or both: Load, *)
(* Dump and Tee of a generated streams package, the two dispatchers and    *)
(* readStream of its raw layer, and the adapters of stream_adapter.zig     *)
(* through which the library reads and writes.                             *)
(*                                                                         *)
(* The bytes the reader hands out are 1, 2, 3, ... in order, and so are    *)
(* the bytes the library writes.  A reader may misbehave in every way the  *)
(* code looks for: an impossible count, bytes together with an error,      *)
(* nothing without an error, more bytes after its end.  The library        *)
(* reads and writes as it likes and may ignore a failure it is told of.    *)
(***************************************************************************)
EXTENDS Integers, Sequences

CONSTANTS
  StreamUses,     \* which streams a call takes: sets of "r" and "w"
  ReaderBytes,    \* bytes the reader has, a bound
  WrittenBytes,   \* bytes the library writes at most, a bound
  ReadRoom,       \* the room native code offers a read at most, a bound
  StageSize,      \* the size of the writer adapter's buffer
  MaxEmptyReads   \* empty reads readStream tolerates, 100 in the code

ASSUME StreamsAssumption ==
  /\ StreamUses \subseteq (SUBSET {"r", "w"}) \ {{}}
  /\ ReaderBytes \in Nat /\ WrittenBytes \in Nat
  /\ ReadRoom \in Nat \ {0} /\ StageSize \in Nat \ {0} /\ MaxEmptyReads \in Nat \ {0}

VARIABLES
  lentStreams,   \* the streams the call under way takes
  whole,         \* the reader's bytes are passed as one slice
  progress,      \* where the call is
  room, attempt, \* of the read under way: what was offered, empty reads so far
  handed,        \* bytes the reader has handed out before its first error
  readerEnded,   \* the reader has answered an error
  readTerminal,  \* callbackEntry.readTerminal
  goErr,         \* per stream, callbackEntry.goErr
  panicked,      \* the streams whose entry recorded a panic
  adapterFailed, \* the adapters with `failed` set
  got,           \* the bytes native code read
  wrote,         \* how many bytes the library wrote
  staged,        \* the writer adapter's buffer
  outbox,        \* what the write or flush under way has yet to send
  taken,         \* the bytes the io.Writer took
  libraryFailed, \* the native call reported an error
  streamAnswer   \* what the Go call answered

readVars  == <<whole, room, attempt, handed, readerEnded, readTerminal, got>>
writeVars == <<wrote, staged, outbox, taken>>
crossVars == <<goErr, panicked, adapterFailed>>
callEnds  == <<lentStreams, libraryFailed, streamAnswer>>
streamVars == <<progress, readVars, writeVars, crossVars, callEnds>>

Late == "late"  \* a byte the reader handed out after its error

StreamsInit ==
  /\ lentStreams = {} /\ whole = FALSE /\ progress = "idle"
  /\ room = 0 /\ attempt = 0 /\ handed = 0 /\ readerEnded = FALSE
  /\ readTerminal = "none"
  /\ goErr = [s \in {"r", "w"} |-> "none"]
  /\ panicked = {} /\ adapterFailed = {}
  /\ got = <<>> /\ wrote = 0 /\ staged = <<>> /\ outbox = <<>> /\ taken = <<>>
  /\ libraryFailed = FALSE /\ streamAnswer = "none"

From(first, n) == [i \in 1..n |-> first + i]

\* Load, Dump and Tee up to the native call: a nil stream is refused, the others
\* get a token each, and zigoReaderBytes takes the reader's bytes if it can.
CallWithStreams(used) ==
  /\ progress = "idle"
  /\ lentStreams' = used
  /\ \/ progress' = "refused" /\ streamAnswer' = "nil stream" /\ UNCHANGED whole
     \/ /\ progress' = "native" /\ UNCHANGED streamAnswer
        /\ whole' \in {FALSE, "r" \in used}
  /\ UNCHANGED <<room, attempt, handed, readerEnded, readTerminal, got, writeVars,
                 crossVars, libraryFailed>>

-----------------------------------------------------------------------------
(* Reading.                                                                *)

\* A slice is a reader of its own, the Go reader is never asked.
ReadFixed(n) ==
  /\ progress = "native" /\ whole /\ handed + n <= ReaderBytes
  /\ handed' = handed + n
  /\ got' = got \o From(handed, n)
  /\ UNCHANGED <<progress, whole, room, attempt, readerEnded, readTerminal, writeVars,
                 crossVars, callEnds>>

\* ZigoReaderAdapter.stream: a failed reader is not asked again, an ended one may
\* be.
StartRead(n) ==
  /\ progress = "native" /\ "r" \in lentStreams /\ ~whole /\ "r" \notin adapterFailed
  /\ progress' = "reading" /\ room' = n /\ attempt' = 0
  /\ UNCHANGED <<whole, handed, readerEnded, readTerminal, got, writeVars, crossVars,
                 callEnds>>

\* Mutant: an error drops the bytes that came with it.
AnswerReadErrorFirst(bytes, err) ==
  /\ progress' = "native"
  /\ goErr' = IF err \in {"none", "EOF"} \/ goErr["r"] # "none" THEN goErr
              ELSE [goErr EXCEPT !["r"] = err]
  /\ got' = IF err = "none" THEN got \o bytes ELSE got
  /\ adapterFailed' = IF err \notin {"none", "EOF"} THEN adapterFailed \union {"r"}
                      ELSE adapterFailed

\* The reader dispatcher after readStream answered n bytes and err: an error
\* other than EOF is recorded, the first one stays; bytes come before errors.
AnswerRead(bytes, err) ==
  /\ progress' = "native"
  /\ goErr' = IF err \in {"none", "EOF"} \/ goErr["r"] # "none" THEN goErr
              ELSE [goErr EXCEPT !["r"] = err]
  /\ got' = got \o bytes
  /\ adapterFailed' =
       IF bytes = <<>> /\ err # "EOF" THEN adapterFailed \union {"r"} ELSE adapterFailed

TerminalIsKnown == readTerminal # "none"

\* readStream with a terminal error: it is the answer, without a read.
ReadTerminal ==
  /\ progress = "reading" /\ TerminalIsKnown
  /\ AnswerRead(<<>>, readTerminal)
  /\ UNCHANGED <<whole, room, attempt, handed, readerEnded, readTerminal, panicked,
                 writeVars, callEnds>>

\* The bytes of a read: those of the reader, or whatever one that has ended
\* makes up.
Bytes(n) == IF readerEnded THEN [i \in 1..n |-> Late] ELSE From(handed, n)

\* One reader.Read of at most `room` bytes that readStream returns from: some
\* bytes, an error or both; an impossible count is no bytes and ErrShortBuffer.
ReadSome(n, err) ==
  /\ progress = "reading" /\ ~TerminalIsKnown
  /\ n > 0 \/ err # "none"
  /\ n <= room /\ handed + n <= ReaderBytes
  /\ readTerminal' = IF err # "none" THEN err ELSE readTerminal
  /\ readerEnded' = (readerEnded \/ err # "none")
  /\ handed' = IF readerEnded THEN handed ELSE handed + n
  /\ AnswerRead(Bytes(n), err)
  /\ UNCHANGED <<whole, room, attempt, panicked, writeVars, callEnds>>

\* Nothing without an error: tried again, and given up after MaxEmptyReads.
ReadNothing ==
  /\ progress = "reading" /\ ~TerminalIsKnown
  /\ IF attempt + 1 < MaxEmptyReads
     THEN /\ attempt' = attempt + 1
          /\ UNCHANGED <<progress, goErr, got, adapterFailed, readTerminal>>
     ELSE /\ readTerminal' = "ErrNoProgress" /\ UNCHANGED attempt
          /\ AnswerRead(<<>>, "ErrNoProgress")
  /\ UNCHANGED <<whole, room, handed, readerEnded, panicked, writeVars, callEnds>>

\* The reader panics: recorded, and -3 for native code.
ReadPanics ==
  /\ progress = "reading" /\ ~TerminalIsKnown
  /\ progress' = "native"
  /\ panicked' = panicked \union {"r"}
  /\ adapterFailed' = adapterFailed \union {"r"}
  /\ UNCHANGED <<readVars, goErr, writeVars, callEnds>>

-----------------------------------------------------------------------------
(* Writing.                                                                *)

NoEmpty(s) == IF s = <<>> THEN <<>> ELSE <<s>>

\* ZigoWriterAdapter.push of n bytes: a slice as large as the buffer goes out
\* after what is buffered, one that does not fit behind it makes it go out.  What
\* a failed send leaves in the buffer is not kept here: it is never sent.
Push(n) ==
  /\ progress = "native" /\ "w" \in lentStreams /\ wrote + n <= WrittenBytes
  /\ wrote' = wrote + n
  /\ LET bytes == From(wrote, n)
         large == n >= StageSize
         sends == large \/ Len(staged) + n > StageSize IN
       IF sends /\ "w" \in adapterFailed
       THEN UNCHANGED <<progress, outbox, staged>>
       ELSE /\ outbox' = IF large THEN NoEmpty(staged) \o <<bytes>>
                         ELSE IF sends THEN NoEmpty(staged) ELSE <<>>
            /\ staged' = IF large THEN <<>>
                         ELSE IF sends THEN bytes ELSE staged \o bytes
            /\ progress' = IF outbox' = <<>> THEN "native" ELSE "writing"
  /\ UNCHANGED <<readVars, taken, crossVars, callEnds>>

\* The library flushes, as it may at any moment.
FlushWriter ==
  /\ progress = "native" /\ "w" \in lentStreams \ adapterFailed /\ staged # <<>>
  /\ progress' = "writing" /\ outbox' = <<staged>> /\ staged' = <<>>
  /\ UNCHANGED <<readVars, wrote, taken, crossVars, callEnds>>

\* Where a send leaves the call: in the library, or past the deferred flush.
AfterSend == IF progress = "writing" THEN "native" ELSE "back"

\* The writer takes all it was handed.
Send ==
  /\ progress \in {"writing", "flushing"} /\ outbox # <<>>
  /\ taken' = taken \o Head(outbox)
  /\ outbox' = Tail(outbox)
  /\ progress' = IF Tail(outbox) = <<>> THEN AfterSend ELSE progress
  /\ UNCHANGED <<readVars, wrote, staged, crossVars, callEnds>>

\* The writer dispatcher on a write that failed: fewer bytes than all without an
\* error is ErrShortWrite.
RefuseWrite(err) ==
  LET reported == IF err = "none" THEN "ErrShortWrite" ELSE err IN
    goErr' = IF goErr["w"] # "none" THEN goErr ELSE [goErr EXCEPT !["w"] = reported]

\* The writer takes n bytes and fails, or takes too few without saying why, or
\* panics: the rest of the write is dropped, and the adapter never sends again.
SendFails(n, err) ==
  /\ progress \in {"writing", "flushing"} /\ outbox # <<>>
  /\ n <= Len(Head(outbox)) /\ (err = "none" => n < Len(Head(outbox)))
  /\ taken' = taken \o SubSeq(Head(outbox), 1, n)
  /\ RefuseWrite(err)
  /\ outbox' = <<>> /\ adapterFailed' = adapterFailed \union {"w"}
  /\ progress' = AfterSend
  /\ UNCHANGED <<readVars, wrote, staged, panicked, callEnds>>

SendPanics ==
  /\ progress \in {"writing", "flushing"} /\ outbox # <<>>
  /\ panicked' = panicked \union {"w"}
  /\ outbox' = <<>> /\ adapterFailed' = adapterFailed \union {"w"}
  /\ progress' = AfterSend
  /\ UNCHANGED <<readVars, wrote, staged, taken, goErr, callEnds>>

-----------------------------------------------------------------------------
(* The end of the call.                                                    *)

\* The target function returns, with an error or without, whatever it was told;
\* the deferred flush sends what is still buffered.
LibraryReturns(fails) ==
  /\ progress = "native"
  /\ libraryFailed' = fails
  /\ IF "w" \in adapterFailed \/ staged = <<>>
     THEN progress' = "back" /\ UNCHANGED <<outbox, staged>>
     ELSE progress' = "flushing" /\ outbox' = <<staged>> /\ staged' = <<>>
  /\ UNCHANGED <<readVars, wrote, taken, crossVars, lentStreams, streamAnswer>>

\* Mutant: the recorded errors are looked at only when the call failed.
AnswerOfCode ==
  IF panicked # {} THEN "panic"
  ELSE IF ~libraryFailed THEN "ok"
  ELSE IF goErr["r"] # "none" THEN goErr["r"]
  ELSE IF goErr["w"] # "none" THEN goErr["w"] ELSE "native error"

\* The wrapper: a panic of the reader or the writer, else the error the reader
\* or the writer recorded, else the code of the call.
AnswerOf ==
  IF panicked # {} THEN "panic"
  ELSE IF goErr["r"] # "none" THEN goErr["r"]
  ELSE IF goErr["w"] # "none" THEN goErr["w"]
  ELSE IF libraryFailed THEN "native error" ELSE "ok"

AnswerStreams ==
  /\ progress = "back"
  /\ streamAnswer' = AnswerOf
  /\ progress' = "answered"
  /\ UNCHANGED <<readVars, writeVars, crossVars, lentStreams, libraryFailed>>

StreamsNext ==
  \/ \E used \in StreamUses : CallWithStreams(used)
  \/ \E n \in 1..ReadRoom : ReadFixed(n) \/ StartRead(n)
  \/ ReadTerminal \/ ReadNothing \/ ReadPanics
  \/ \E n \in 0..ReadRoom, err \in {"none", "EOF", "failure"} : ReadSome(n, err)
  \/ \E n \in 1..WrittenBytes : Push(n)
  \/ FlushWriter \/ Send \/ SendPanics
  \/ \E n \in 0..WrittenBytes, err \in {"none", "failure"} : SendFails(n, err)
  \/ \E fails \in BOOLEAN : LibraryReturns(fails)
  \/ AnswerStreams

StreamsSpec == StreamsInit /\ [][StreamsNext]_streamVars

-----------------------------------------------------------------------------
(* Properties.                                                             *)

\* No byte is lost, repeated, reordered or made up on either way: native code has
\* read exactly what the reader handed out before its first error, bytes that
\* came with that error included, and the writer has taken a prefix of what the
\* library wrote, all of it when the call succeeded.
BytesArriveInOrder ==
  /\ got = From(0, handed)
  /\ taken = From(0, Len(taken)) /\ Len(taken) <= wrote
  /\ streamAnswer = "ok" => Len(taken) = wrote

\* Whatever the library made of it, a reader that failed, a writer that failed or
\* took too little, and a panic of either are what the call answers; without
\* one it answers what the native call did.
StreamFailuresSurface ==
  progress = "answered" =>
    /\ (streamAnswer = "panic") = (panicked # {})
    /\ streamAnswer \in {"ok", "native error"} =>
         /\ adapterFailed = {}
         /\ readTerminal \in {"none", "EOF"}
         /\ (streamAnswer = "ok") = ~libraryFailed
=============================================================================

------------------------------ MODULE StreamReader ------------------------------
(***************************************************************************)
(* RPCStreamReader (streaming.go) under a StreamManager: the goroutine that *)
(* feeds the reader, one program that reads, and calls of CloseStream and   *)
(* CloseAllStreams.  A chunk that arrives is copied into the reader's       *)
(* buffer and handed out in pieces of ChunkSize, slices of that buffer; the *)
(* feeding goroutine stands in for a peer that is not written yet and sends *)
(* Chunks chunks of one size and an empty one, so every chunk is in the     *)
(* array that the first one left.                                           *)
(***************************************************************************)
EXTENDS Integers, Sequences

CONSTANTS
  Closers,   \* calls of CloseStream and CloseAllStreams
  Chunks,    \* chunks the feeder sends
  Pieces,    \* ChunkSize pieces in a chunk
  ChanCap    \* room in dataCh

ASSUME StreamReaderAssumption ==
  Chunks \in Nat /\ Pieces \in Nat \ {0} /\ Chunks < ChanCap /\ ChanCap \in Nat

VARIABLES
  dataCh, errorCh, closeCh,
  closed, rerr,       \* the reader's flags, read and written without a lock
  buffer, bufferPos,  \* the chunk in the buffer's array, 0 for none, and the pieces handed out
  feeder,             \* streamReader's goroutine and the chunks it has sent
  read,               \* where Read is: "idle", "wait", "dead"
  got,                \* the pieces handed to the program, as Read returned them
  ended,              \* how Reads ended without data: "eof", "error", "cancelled"
  rsecond,            \* a second has passed since StartTime
  streams,            \* the manager still has the reader in its table
  closer,             \* per closing call: where it is
  closings            \* how often closeCh was closed

readerVars == <<dataCh, errorCh, closeCh, closed, rerr, buffer, bufferPos, feeder, read,
                got, ended, rsecond, streams, closer, closings>>
channels == <<dataCh, errorCh, closeCh>>
readerState == <<buffer, bufferPos, read, got, ended>>
managerState == <<streams, closer, closings>>

EndOfStream == 0

ReaderInit ==
  /\ dataCh = <<>> /\ errorCh = 0 /\ closeCh = "open"
  /\ closed = FALSE /\ rerr = FALSE
  /\ buffer = 0 /\ bufferPos = Pieces
  /\ feeder = [pc |-> "init", sent |-> 0]
  /\ read = "idle" /\ got = <<>> /\ ended = {}
  /\ rsecond = FALSE
  /\ streams = TRUE
  /\ closer = [c \in Closers |-> "idle"]
  /\ closings = 0

-----------------------------------------------------------------------------
(* The feeding goroutine.                                                  *)

\* The init request goes out, or its error is left for Read.
StreamInit ==
  /\ feeder.pc = "init"
  /\ \/ feeder' = [feeder EXCEPT !.pc = "feed"] /\ UNCHANGED errorCh
     \/ feeder' = [feeder EXCEPT !.pc = "ended"] /\ errorCh' = 1
  /\ UNCHANGED <<dataCh, closeCh, closed, rerr, readerState, rsecond, managerState>>

\* Mutant: the end of the stream is announced one chunk too early.
FeedShort ==
  /\ feeder.pc = "feed"
  /\ \/ /\ feeder.sent + 1 < Chunks
        /\ Len(dataCh) < ChanCap
        /\ dataCh' = Append(dataCh, feeder.sent + 1)
        /\ feeder' = [feeder EXCEPT !.sent = @ + 1]
     \/ /\ feeder.sent + 1 < Chunks
        /\ closeCh = "closed"
        /\ feeder' = [feeder EXCEPT !.pc = "ended"]
        /\ UNCHANGED dataCh
     \/ /\ feeder.sent + 1 >= Chunks
        /\ Len(dataCh) < ChanCap
        /\ dataCh' = Append(dataCh, EndOfStream)
        /\ feeder' = [feeder EXCEPT !.pc = "ended"]
  /\ UNCHANGED <<errorCh, closeCh, closed, rerr, readerState, rsecond, managerState>>

\* Each chunk waits for room or for Close; the end of the stream only for room.
Feed ==
  /\ feeder.pc = "feed"
  /\ \/ /\ feeder.sent < Chunks
        /\ Len(dataCh) < ChanCap
        /\ dataCh' = Append(dataCh, feeder.sent + 1)
        /\ feeder' = [feeder EXCEPT !.sent = @ + 1]
     \/ /\ feeder.sent < Chunks
        /\ closeCh = "closed"
        /\ feeder' = [feeder EXCEPT !.pc = "ended"]
        /\ UNCHANGED dataCh
     \/ /\ feeder.sent = Chunks
        /\ Len(dataCh) < ChanCap
        /\ dataCh' = Append(dataCh, EndOfStream)
        /\ feeder' = [feeder EXCEPT !.pc = "ended"]
  /\ UNCHANGED <<errorCh, closeCh, closed, rerr, readerState, rsecond, managerState>>

-----------------------------------------------------------------------------
(* Read.                                                                   *)

\* A piece of the buffer is handed out, and updateStats divides by the whole
\* seconds passed.
HandOut(chunk, pos) ==
  /\ buffer' = chunk
  /\ bufferPos' = pos
  /\ got' = Append(got, <<chunk, pos>>)
  /\ read' = IF rsecond THEN "idle" ELSE "dead"

\* Read looks at the flags and the buffer, and waits if there is nothing.
ReadBegin ==
  /\ read = "idle"
  /\ \/ closed /\ ended' = ended \cup {"eof"} /\ UNCHANGED <<buffer, bufferPos, got, read>>
     \/ ~closed /\ rerr /\ ended' = ended \cup {"error"} /\ UNCHANGED <<buffer, bufferPos, got, read>>
     \/ ~closed /\ ~rerr /\ bufferPos < Pieces /\ HandOut(buffer, bufferPos + 1) /\ UNCHANGED ended
     \/ ~closed /\ ~rerr /\ bufferPos = Pieces /\ read' = "wait"
        /\ UNCHANGED <<buffer, bufferPos, got, ended>>
  /\ UNCHANGED <<channels, closed, rerr, feeder, rsecond, managerState>>

\* The select of Read: a chunk, the end, the error, or Close.
ReadWait ==
  /\ read = "wait"
  /\ \/ /\ dataCh # <<>> /\ Head(dataCh) # EndOfStream
        /\ HandOut(Head(dataCh), 1)
        /\ dataCh' = Tail(dataCh)
        /\ UNCHANGED <<errorCh, rerr, ended>>
     \/ /\ dataCh # <<>> /\ Head(dataCh) = EndOfStream
        /\ dataCh' = Tail(dataCh)
        /\ read' = "idle" /\ ended' = ended \cup {"eof"}
        /\ UNCHANGED <<errorCh, rerr, buffer, bufferPos, got>>
     \/ /\ errorCh = 1
        /\ errorCh' = 0 /\ rerr' = TRUE
        /\ read' = "idle" /\ ended' = ended \cup {"error"}
        /\ UNCHANGED <<dataCh, buffer, bufferPos, got>>
     \/ /\ closeCh = "closed"
        /\ read' = "idle" /\ ended' = ended \cup {"eof"}
        /\ UNCHANGED <<dataCh, errorCh, rerr, buffer, bufferPos, got>>
  /\ UNCHANGED <<closeCh, closed, feeder, rsecond, managerState>>

\* The context of a Read that waits is cancelled.
ReadCancelled ==
  /\ read = "wait"
  /\ read' = "idle"
  /\ ended' = ended \cup {"cancelled"}
  /\ UNCHANGED <<channels, closed, rerr, buffer, bufferPos, got, feeder, rsecond, managerState>>

-----------------------------------------------------------------------------
(* Close, by way of the manager.                                           *)

\* Mutant: the stream is looked up and left in the table.
CloseStreamKeeping(c) ==
  /\ closer[c] = "idle"
  /\ closer' = [closer EXCEPT ![c] = IF streams THEN "check" ELSE "done"]
  /\ UNCHANGED <<channels, closed, rerr, readerState, feeder, rsecond, streams, closings>>

\* CloseStream takes the stream out of the table; CloseAllStreams does the
\* same for each ID it has listed.
CloseStream(c) ==
  /\ closer[c] = "idle"
  /\ closer' = [closer EXCEPT ![c] = IF streams THEN "check" ELSE "done"]
  /\ streams' = FALSE
  /\ UNCHANGED <<channels, closed, rerr, readerState, feeder, rsecond, closings>>

CloseCheck(c) ==
  /\ closer[c] = "check"
  /\ closer' = [closer EXCEPT ![c] = IF closed THEN "done" ELSE "mark"]
  /\ UNCHANGED <<channels, closed, rerr, readerState, feeder, rsecond, streams, closings>>

\* Mutant: Close marks the reader and wakes nobody.
CloseMarkQuietly(c) ==
  /\ closer[c] = "mark"
  /\ closed' = TRUE
  /\ closings' = closings + 1
  /\ closer' = [closer EXCEPT ![c] = "done"]
  /\ UNCHANGED <<channels, rerr, readerState, feeder, rsecond, streams>>

\* closed is set and closeCh closed; the message to the peer and the final
\* statistics follow.
CloseMark(c) ==
  /\ closer[c] = "mark"
  /\ closed' = TRUE
  /\ closeCh' = "closed"
  /\ closings' = closings + 1
  /\ closer' = [closer EXCEPT ![c] = "done"]
  /\ UNCHANGED <<dataCh, errorCh, rerr, readerState, feeder, rsecond, streams>>

ReaderSecond ==
  /\ ~rsecond
  /\ rsecond' = TRUE
  /\ UNCHANGED <<channels, closed, rerr, readerState, feeder, managerState>>

FeederStep == StreamInit \/ Feed

ReaderNext ==
  \/ StreamInit \/ Feed
  \/ ReadBegin \/ ReadWait \/ ReadCancelled
  \/ \E c \in Closers : CloseStream(c) \/ CloseCheck(c) \/ CloseMark(c)
  \/ ReaderSecond

ReaderFairness ==
  /\ WF_readerVars(FeederStep)
  /\ WF_readerVars(ReadWait)
  /\ \A c \in Closers : WF_readerVars(CloseCheck(c) \/ CloseMark(c))

ReaderSpec == ReaderInit /\ [][ReaderNext]_readerVars /\ ReaderFairness

-----------------------------------------------------------------------------
(* Properties.                                                             *)

\* What the n-th piece shows now: its place in whatever the array holds.
Shows(n) == <<buffer, got[n][2]>>

\* Read returns the stream's pieces in order, none twice and none left out; the
\* pieces of the chunk in the buffer still show what Read returned, while the
\* older ones, slices of the same array, were overwritten by that chunk; and a
\* Read that says EOF has either been closed or delivered everything
\* (streaming.go:145-205, 273-297).
ReadsInOrder ==
  /\ \A n \in DOMAIN got : got[n] = <<1 + (n - 1) \div Pieces, 1 + ((n - 1) % Pieces)>>
  /\ \A n \in DOMAIN got : Shows(n) = got[n] <=> n > Len(got) - bufferPos
  /\ "eof" \in ended => closed \/ Len(got) = Chunks * Pieces

\* Closing a stream through the manager closes its channel at most once,
\* however many calls of CloseStream and CloseAllStreams race: a second close
\* of the channel would panic (streaming.go:208-214, 606-646).
ChannelClosedOnce == closings <= 1

\* A Read that waits when the stream is closed returns, and the goroutine that
\* feeds the stream ends, read or not (streaming.go:202-204, 273-297).
ReaderReleased ==
  /\ (closed /\ read = "wait") ~> read # "wait"
  /\ feeder.pc = "feed" ~> feeder.pc = "ended"
=============================================================================

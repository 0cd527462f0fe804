------------------------------ MODULE StreamWriter ------------------------------
(***************************************************************************)
(* RPCStreamWriter (streaming.go): one goroutine writes, flushes and        *)
(* closes; with a FlushInterval a second one flushes on every tick.  The    *)
(* buffer has no lock.  Data are numbered in the order they are written.    *)
(*                                                                         *)
(* SendRequest delivers what it is given or fails.  During the first second *)
(* the throughput is divided by zero, which ends the writing goroutine.     *)
(***************************************************************************)
EXTENDS Integers, Sequences

CONSTANTS
  AutoFlush,   \* the choices for FlushInterval > 0
  ChunkSize,   \* data that fill a chunk
  MaxWrites    \* bound: data written

ASSUME StreamWriterAssumption ==
  AutoFlush \subseteq BOOLEAN /\ ChunkSize \in Nat \ {0} /\ MaxWrites \in Nat

VARIABLES
  array, length,  \* the buffer: its array and how much of it is used
  wclosed, werr, wcloseCh,
  flusher,        \* per goroutine: where its Flush is, what it saw, what follows
  auto,           \* the autoFlush goroutine: "running" or "ended"
  wsecond,        \* a second has passed since StartTime
  written,        \* data accepted into the buffer so far
  sent,           \* data sent, in order
  finalized,      \* Close sent streamFinalize
  overlapped      \* a goroutine came to the buffer between another's look and clear

writerVars == <<array, length, wclosed, werr, wcloseCh, flusher, auto, wsecond,
                written, sent, finalized, overlapped>>

Goroutines == {"user", "auto"}

NoFlush == [pc |-> "idle", saw |-> 0, then |-> "none"]

WriterInit ==
  /\ array = [i \in 1..MaxWrites |-> 0]
  /\ length = 0
  /\ wclosed = FALSE /\ werr = FALSE /\ wcloseCh = "open"
  /\ flusher = [g \in Goroutines |-> NoFlush]
  /\ auto \in {IF f THEN "running" ELSE "none" : f \in AutoFlush}
  /\ wsecond = FALSE
  /\ written = 0
  /\ sent = <<>>
  /\ finalized = FALSE /\ overlapped = FALSE

Overlaps(g) == overlapped \/ \E h \in Goroutines \ {g} : flusher[h].pc \in {"send", "clear"}

-----------------------------------------------------------------------------
\* Write appends, and flushes when a chunk is full; otherwise it updates the
\* statistics.  A writer that is closed or has failed refuses.
Write ==
  /\ flusher["user"].pc = "idle"
  /\ ~wclosed /\ ~werr
  /\ written < MaxWrites
  /\ written' = written + 1
  /\ array' = [array EXCEPT ![length + 1] = written']
  /\ length' = length + 1
  /\ flusher' = [flusher EXCEPT !["user"] =
       IF length' >= ChunkSize THEN [pc |-> "flush", saw |-> 0, then |-> "write"]
       ELSE [pc |-> IF wsecond THEN "idle" ELSE "dead", saw |-> 0, then |-> "none"]]
  /\ overlapped' = Overlaps("user")
  /\ UNCHANGED <<wclosed, werr, wcloseCh, auto, wsecond, sent, finalized>>

UserFlush ==
  /\ flusher["user"].pc = "idle"
  /\ flusher' = [flusher EXCEPT !["user"] = [pc |-> "flush", saw |-> 0, then |-> "flush"]]
  /\ UNCHANGED <<array, length, wclosed, werr, wcloseCh, auto, wsecond, written, sent, finalized, overlapped>>

\* Close marks the writer closed, stops the ticker and flushes what is left.
CloseWriter ==
  /\ flusher["user"].pc = "idle"
  /\ ~wclosed
  /\ wclosed' = TRUE
  /\ wcloseCh' = "closed"
  /\ flusher' = [flusher EXCEPT !["user"] = [pc |-> "flush", saw |-> 0, then |-> "close"]]
  /\ UNCHANGED <<array, length, werr, auto, wsecond, written, sent, finalized, overlapped>>

\* The ticker of autoFlush, which Close stops, or its closeCh.
AutoTick ==
  /\ auto = "running"
  /\ flusher["auto"].pc = "idle"
  /\ \/ flusher' = [flusher EXCEPT !["auto"] = [pc |-> "flush", saw |-> 0, then |-> "tick"]]
        /\ UNCHANGED auto
     \/ wcloseCh = "closed" /\ auto' = "ended" /\ UNCHANGED flusher
  /\ UNCHANGED <<array, length, wclosed, werr, wcloseCh, wsecond, written, sent, finalized, overlapped>>

\* How a Flush that succeeded or failed goes on.
AfterFlush(g, ok) ==
  IF flusher[g].then = "close" /\ ok THEN [pc |-> "finalize", saw |-> 0, then |-> "none"]
  ELSE NoFlush

\* Flush begins by looking at the buffer: if it is empty there is nothing to do.
FlushBegin(g) ==
  /\ flusher[g].pc = "flush"
  /\ flusher' = [flusher EXCEPT ![g] =
       IF length = 0 THEN AfterFlush(g, TRUE) ELSE [@ EXCEPT !.pc = "send", !.saw = length]]
  /\ overlapped' = Overlaps(g)
  /\ UNCHANGED <<array, length, wclosed, werr, wcloseCh, auto, wsecond, written, sent, finalized>>

\* Mutant: a failed send is treated like one that succeeded.
FlushSendIgnoring(g) ==
  /\ flusher[g].pc = "send"
  /\ \/ sent' = sent \o SubSeq(array, 1, flusher[g].saw)
     \/ UNCHANGED sent
  /\ flusher' = [flusher EXCEPT ![g].pc = "clear"]
  /\ UNCHANGED <<array, length, wclosed, werr, wcloseCh, auto, wsecond, written, finalized, overlapped>>

\* The request takes what the buffer holds now, as far as Flush saw it; if it
\* fails the writer has failed.
FlushSend(g) ==
  /\ flusher[g].pc = "send"
  /\ \/ /\ sent' = sent \o SubSeq(array, 1, flusher[g].saw)
        /\ flusher' = [flusher EXCEPT ![g].pc = "clear"]
        /\ UNCHANGED werr
     \/ /\ werr' = TRUE
        /\ flusher' = [flusher EXCEPT ![g] = AfterFlush(g, FALSE)]
        /\ UNCHANGED sent
  /\ UNCHANGED <<array, length, wclosed, wcloseCh, auto, wsecond, written, finalized, overlapped>>

FlushClear(g) ==
  /\ flusher[g].pc = "clear"
  /\ length' = 0
  /\ flusher' = [flusher EXCEPT ![g] = AfterFlush(g, TRUE)]
  /\ UNCHANGED <<array, wclosed, werr, wcloseCh, auto, wsecond, written, sent, finalized, overlapped>>

\* Close ends with streamFinalize and the final statistics.
Finalize ==
  /\ flusher["user"].pc = "finalize"
  /\ finalized' \in BOOLEAN
  /\ flusher' = [flusher EXCEPT !["user"] = IF wsecond THEN NoFlush ELSE [NoFlush EXCEPT !.pc = "dead"]]
  /\ UNCHANGED <<array, length, wclosed, werr, wcloseCh, auto, wsecond, written, sent, overlapped>>

WriterSecond ==
  /\ ~wsecond
  /\ wsecond' = TRUE
  /\ UNCHANGED <<array, length, wclosed, werr, wcloseCh, flusher, auto, written, sent, finalized, overlapped>>

WriterNext ==
  \/ Write \/ UserFlush \/ CloseWriter \/ Finalize
  \/ AutoTick
  \/ \E g \in Goroutines : FlushBegin(g) \/ FlushSend(g) \/ FlushClear(g)
  \/ WriterSecond

WriterSpec == WriterInit /\ [][WriterNext]_writerVars

-----------------------------------------------------------------------------
(* Properties.                                                             *)

\* What is in the buffer, in the order it was written.
Buffered == SubSeq(array, 1, length)

\* What was sent and what is still buffered are what was written, each datum
\* once and in order: across failed sends, which keep the buffer for Close to
\* try again, nothing is lost or sent twice, as long as no goroutine comes to
\* the buffer between another's look at it and its clear; and a stream that was
\* finalized has then sent everything (streaming.go:412-522).
SentThenBuffered ==
  ~overlapped =>
    /\ (\A g \in Goroutines : flusher[g].pc # "clear") => sent \o Buffered = [n \in 1..written |-> n]
    /\ finalized => Len(sent) = written
=============================================================================

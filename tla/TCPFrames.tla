------------------------------- MODULE TCPFrames -------------------------------
(***************************************************************************)
(* TCPTransport (custom_transports.go): two transports over one byte        *)
(* stream.  The write pump of one end writes a length prefix and a message  *)
(* with two calls of Write, the read pump of the other reads them with two  *)
(* calls of Read, each of which may return fewer bytes than it was asked    *)
(* for.                                                                     *)
(***************************************************************************)
EXTENDS Integers, Sequences, SequencesExt, FiniteSetsExt

CONSTANTS
  Base,            \* values of a byte
  FrameSize,       \* bytes of the length prefix
  MaxMessageSize,
  Payloads,        \* messages: sequences of bytes
  ChannelSize,     \* capacity of sendCh and of receiveCh
  MaxSends         \* bound: messages that Send takes

ASSUME TCPFramesAssumption ==
  /\ Base \in Nat \ {0, 1} /\ FrameSize \in {2, 4} /\ MaxMessageSize \in Nat
  /\ FrameSize = 4 => MaxMessageSize < Base * Base * Base * Base
  /\ Payloads \subseteq Seq(0..(Base - 1))
  /\ ChannelSize \in Nat \ {0} /\ MaxSends \in Nat

Ends == {"writer", "reader"}

VARIABLES
  tcpConnected, tcpClosed,   \* per end
  reconnecting,        \* per end: its reconnect goroutine runs
  tcpSendCh,              \* of the writer
  tcpWritePump,           \* "none", "prefix", "body" with the message, or "ended"
  stream,              \* the bytes on their way
  tcpReadPump,            \* per end: "none", "prefix", "body" with its length, or "ended"
  tcpReceiveCh,           \* how many messages the reader's holds
  accepted,            \* the messages Send took, in order
  arrived,             \* the messages the read pump made of the stream, in order
  short                \* a Read returned too few bytes

tcpVars == <<tcpConnected, tcpClosed, reconnecting, tcpSendCh, tcpWritePump, stream, tcpReadPump, tcpReceiveCh,
             accepted, arrived, short>>
lifeVars == <<tcpConnected, tcpClosed, reconnecting>>

At(pc) == [pc |-> pc, data |-> <<>>, length |-> 0]

TCPInit ==
  /\ tcpConnected = [e \in Ends |-> FALSE]
  /\ tcpClosed = [e \in Ends |-> FALSE]
  /\ reconnecting = [e \in Ends |-> FALSE]
  /\ tcpSendCh = <<>> /\ stream = <<>> /\ tcpReceiveCh = 0
  /\ tcpWritePump = At("none")
  /\ tcpReadPump = [e \in Ends |-> At("none")]
  /\ accepted = <<>> /\ arrived = <<>> /\ short = FALSE

\* The connection is closed by either end.
Down == \E e \in Ends : tcpClosed[e]

-----------------------------------------------------------------------------
(* The connection.                                                         *)

\* Connect: the dial succeeds and both ends start their pumps.  A dial that
\* fails changes nothing, and neither does Connect on a transport that is
\* connected or closed.
ConnectTCP ==
  /\ \A e \in Ends : ~tcpConnected[e] /\ ~tcpClosed[e]
  /\ tcpConnected' = [e \in Ends |-> TRUE]
  /\ tcpWritePump' = At("prefix")
  /\ tcpReadPump' = [e \in Ends |-> At("prefix")]
  /\ UNCHANGED <<tcpClosed, reconnecting, tcpSendCh, stream, tcpReceiveCh, accepted, arrived, short>>

CloseTCP(e) ==
  /\ tcpConnected[e] /\ ~tcpClosed[e]
  /\ tcpClosed' = [tcpClosed EXCEPT ![e] = TRUE]
  /\ tcpConnected' = [tcpConnected EXCEPT ![e] = FALSE]
  /\ UNCHANGED <<reconnecting, tcpSendCh, tcpWritePump, stream, tcpReadPump, tcpReceiveCh, accepted, arrived, short>>

\* reconnect finds the transport connected until the read pump has closed it,
\* and closed from then on.
ReconnectTCP(e) ==
  /\ reconnecting[e] /\ tcpClosed[e]
  /\ reconnecting' = [reconnecting EXCEPT ![e] = FALSE]
  /\ UNCHANGED <<tcpConnected, tcpClosed, tcpSendCh, tcpWritePump, stream, tcpReadPump, tcpReceiveCh, accepted, arrived, short>>

-----------------------------------------------------------------------------
(* The write pump.                                                         *)

SendTCP(m) ==
  /\ tcpConnected["writer"] /\ ~tcpClosed["writer"]
  /\ Len(m) <= MaxMessageSize
  /\ Len(tcpSendCh) < ChannelSize /\ Len(accepted) < MaxSends
  /\ tcpSendCh' = Append(tcpSendCh, m)
  /\ accepted' = Append(accepted, m)
  /\ UNCHANGED <<lifeVars, tcpWritePump, stream, tcpReadPump, tcpReceiveCh, arrived, short>>

\* n, shifted to the right by k bytes.
Shifted(n) ==
  LET shifted[k \in 0..FrameSize] == IF k = 0 THEN n ELSE shifted[k - 1] \div Base
  IN shifted

\* Mutant: the bytes of the prefix go out in the wrong order.
PrefixReversed(n) == [k \in 1..FrameSize |-> Shifted(n)[k - 1] % Base]

\* The bytes of a length, the highest first.
Prefix(n) == [k \in 1..FrameSize |-> Shifted(n)[FrameSize - k] % Base]

\* writeFrame: the prefix first.  A message too long for two bytes, or an error,
\* ends the pump and nothing else.
WritePrefix ==
  /\ tcpWritePump.pc = "prefix" /\ tcpSendCh # <<>>
  /\ LET m == Head(tcpSendCh) IN
     \/ /\ FrameSize = 4 \/ Len(m) < Base * Base
        /\ ~Down
        /\ stream' = stream \o Prefix(Len(m))
        /\ tcpWritePump' = [At("body") EXCEPT !.data = m]
     \/ /\ Down \/ (FrameSize = 2 /\ Len(m) >= Base * Base)
        /\ tcpWritePump' = At("ended")
        /\ UNCHANGED stream
  /\ tcpSendCh' = Tail(tcpSendCh)
  /\ UNCHANGED <<lifeVars, tcpReadPump, tcpReceiveCh, accepted, arrived, short>>

WriteBody ==
  /\ tcpWritePump.pc = "body"
  /\ \/ ~Down /\ stream' = stream \o tcpWritePump.data /\ tcpWritePump' = At("prefix")
     \/ Down /\ tcpWritePump' = At("ended") /\ UNCHANGED stream
  /\ UNCHANGED <<lifeVars, tcpSendCh, tcpReadPump, tcpReceiveCh, accepted, arrived, short>>

WriterStops ==
  /\ tcpWritePump.pc = "prefix" /\ tcpClosed["writer"]
  /\ tcpWritePump' = At("ended")
  /\ UNCHANGED <<lifeVars, tcpSendCh, stream, tcpReadPump, tcpReceiveCh, accepted, arrived, short>>

-----------------------------------------------------------------------------
(* The read pump.                                                          *)

\* A Read of n bytes yields at least one of those that are there; the rest of
\* the buffer stays zero.
Reads(n) ==
  {[buffer |-> SubSeq(stream, 1, k) \o [i \in 1..(n - k) |-> 0], got |-> k] :
     k \in 1..Min({n, Len(stream)})}

\* The number the bytes make.
LengthOf(bytes) ==
  LET number[k \in 0..FrameSize] == IF k = 0 THEN 0 ELSE number[k - 1] * Base + bytes[k]
  IN number[FrameSize]

\* An error, or a frame that cannot be: reconnect is started, and the deferred
\* Close follows.
PumpReturns(e) ==
  /\ tcpReadPump' = [tcpReadPump EXCEPT ![e] = At("ended")]
  /\ reconnecting' = [reconnecting EXCEPT ![e] = ~tcpClosed[e]]
  /\ tcpClosed' = [tcpClosed EXCEPT ![e] = TRUE]
  /\ tcpConnected' = [tcpConnected EXCEPT ![e] = FALSE]

ReadPrefix ==
  /\ tcpReadPump["reader"].pc = "prefix" /\ stream # <<>> /\ ~tcpClosed["reader"]
  /\ \E r \in Reads(FrameSize) :
       /\ stream' = SubSeq(stream, r.got + 1, Len(stream))
       /\ short' = (short \/ r.got < FrameSize)
       /\ \/ /\ LengthOf(r.buffer) \in 1..MaxMessageSize
             /\ tcpReadPump' = [tcpReadPump EXCEPT !["reader"] = [At("body") EXCEPT !.length = LengthOf(r.buffer)]]
             /\ UNCHANGED lifeVars
          \/ /\ LengthOf(r.buffer) \notin 1..MaxMessageSize
             /\ PumpReturns("reader")
  /\ UNCHANGED <<tcpSendCh, tcpWritePump, tcpReceiveCh, accepted, arrived>>

\* The message goes to receiveCh, or is dropped when that is full.
ReadBody ==
  LET n == tcpReadPump["reader"].length IN
  /\ tcpReadPump["reader"].pc = "body" /\ stream # <<>> /\ ~tcpClosed["reader"]
  /\ \E r \in Reads(n) :
       /\ stream' = SubSeq(stream, r.got + 1, Len(stream))
       /\ short' = (short \/ r.got < n)
       /\ arrived' = Append(arrived, r.buffer)
  /\ tcpReceiveCh' = Min({tcpReceiveCh + 1, ChannelSize})
  /\ tcpReadPump' = [tcpReadPump EXCEPT !["reader"] = At("prefix")]
  /\ UNCHANGED <<lifeVars, tcpSendCh, tcpWritePump, accepted>>

\* The read deadline passes, or the connection is gone; what is left of the
\* stream is never read.
ReadFails(e) ==
  /\ tcpReadPump[e].pc \in {"prefix", "body"}
  /\ PumpReturns(e)
  /\ UNCHANGED <<tcpSendCh, tcpWritePump, stream, tcpReceiveCh, accepted, arrived, short>>

ReceiveTCP ==
  /\ tcpReceiveCh > 0
  /\ tcpReceiveCh' = tcpReceiveCh - 1
  /\ UNCHANGED <<lifeVars, tcpSendCh, tcpWritePump, stream, tcpReadPump, accepted, arrived, short>>

TCPNext ==
  \/ ConnectTCP \/ WritePrefix \/ WriteBody \/ WriterStops \/ ReadPrefix \/ ReadBody \/ ReceiveTCP
  \/ \E m \in Payloads : SendTCP(m)
  \/ \E e \in Ends : CloseTCP(e) \/ ReconnectTCP(e) \/ ReadFails(e)

TCPSpec == TCPInit /\ [][TCPNext]_tcpVars

-----------------------------------------------------------------------------
(* Properties.                                                             *)

\* As long as every Read returns all it was asked for, the messages that arrive
\* are the messages Send took, in their order and none left out before the last:
\* an empty message or one too long for the prefix ends the stream and never
\* shifts it (custom_transports.go:219-358).
FramesIntact == short \/ IsPrefix(arrived, accepted)
=============================================================================

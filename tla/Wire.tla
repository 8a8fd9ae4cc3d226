-------------------------------- MODULE Wire --------------------------------
(***************************************************************************)
(* The framing of every stream (banc-host/src/net/mod.rs): a header that   *)
(* says how long the body is, then the body.  A stream is the sequence of  *)
(* cells in flight.  A frame is written in one go, and may be cut anywhere,*)
(* in its header as in its body, by a connection that breaks.              *)
(***************************************************************************)
EXTENDS Integers, Sequences

CONSTANTS
    MaxFrame,    \* MAX_FRAME, in cells
    HeaderSize,  \* the cells of a length
    BodySize     \* the cells of a body

ASSUME FrameAssumption == MaxFrame \in Nat /\ HeaderSize \in Nat \ {0} /\ BodySize \in 1..MaxFrame

Header(size) == [n \in 1..HeaderSize |-> [cell |-> "header", size |-> size, part |-> n]]
Body(msg) == [n \in 1..BodySize |-> [cell |-> "body", msg |-> msg, part |-> n]]
Frame(msg) == Header(BodySize) \o Body(msg)

WriteFrame(stream, msg) == stream \o Frame(msg)

\* What read_exact takes for a length when it has all the cells of one.  Cells
\* that are not those of one header are a length like any other.
HasLength(stream) == Len(stream) >= HeaderSize
Length(stream) ==
    IF stream[1].cell = "header" /\ SubSeq(stream, 1, HeaderSize) = Header(stream[1].size)
    THEN stream[1].size
    ELSE 0

\* read_frame looks at the length before it reads the body, and read_exact
\* waits for all of it.
Oversized(stream) == HasLength(stream) /\ Length(stream) > MaxFrame
Complete(stream) ==
    HasLength(stream) /\ ~Oversized(stream) /\ Len(stream) >= HeaderSize + Length(stream)

\* The message of a complete frame.  What is not the body of one frame does not
\* decode.
Garbage == [type |-> "garbage"]
FrameOf(stream) ==
    LET body == SubSeq(stream, HeaderSize + 1, HeaderSize + Length(stream))
    IN  IF body # <<>> /\ body[1].cell = "body" /\ body = Body(body[1].msg) THEN body[1].msg ELSE Garbage

\* A mutant: the frame is read through a buffer that goes with the reader.
BufferedRest(stream) == <<>>

\* What the next reader finds.
RestOf(stream) == SubSeq(stream, HeaderSize + Length(stream) + 1, Len(stream))
=============================================================================

------------------------------ MODULE RttLines ------------------------------
(***************************************************************************)
(* How the reader thread cuts the bytes of an RTT channel into lines       *)
(* (poll_rtt, banc-probe/src/local.rs), as operators: `pending` is what it *)
(* keeps between two polls.                                                *)
(***************************************************************************)
EXTENDS Integers, Sequences, SequencesExt

CONSTANTS
    Newline,
    Spaces,    \* the bytes trim_end removes, Newline among them
    Alphabet,  \* the bytes a device sends
    ReadSize,  \* the size of poll_rtt's buffer
    MaxLine    \* MAX_LINE

ASSUME BytesAssumption ==
    /\ Newline \in Spaces /\ Spaces \subseteq Alphabet
    /\ ReadSize \in Nat /\ MaxLine \in Nat

\* What one read may return.
Chunks == UNION {[1..n -> Alphabet] : n \in 0..ReadSize}

TrimEnd(line) == SubSeq(line, 1, Max({0} \union {i \in DOMAIN line : line[i] \notin Spaces}))

\* The complete lines of a buffer, and what follows its last newline.
Split(buffer) ==
    LET newlines == {i \in DOMAIN buffer : buffer[i] = Newline}
        before(i) == Max({0} \union {j \in newlines : j < i})
        end(k) == CHOOSE i \in newlines : Cardinality({j \in newlines : j <= i}) = k
    IN  [lines |-> [k \in 1..Cardinality(newlines) |-> SubSeq(buffer, before(end(k)) + 1, end(k))],
         rest |-> SubSeq(buffer, before(Len(buffer) + 1) + 1, Len(buffer))]

\* A mutant: a read that completes a line forgets the partial one after it.
ReadKeepsNoRest(pending, chunk) ==
    LET parts == Split(pending \o chunk)
    IN  [lines |-> [k \in DOMAIN parts.lines |-> TrimEnd(parts.lines[k])],
         pending |-> IF parts.lines # <<>> \/ Len(parts.rest) > MaxLine THEN <<>> ELSE parts.rest]

\* Complete lines go to the sink, and the partial one stays, unless it is
\* oversized: then it is flushed as a line of its own.
Read(pending, chunk) ==
    LET parts == Split(pending \o chunk)
        oversized == Len(parts.rest) > MaxLine
        lines == IF oversized THEN Append(parts.lines, parts.rest) ELSE parts.lines
    IN  [lines |-> [k \in DOMAIN lines |-> TrimEnd(lines[k])],
         pending |-> IF oversized THEN <<>> ELSE parts.rest]

-----------------------------------------------------------------------------
\* What the sink is given, and what is pending, after a sequence of reads.
After(pending, chunks) ==
    FoldLeft(LAMBDA sofar, chunk :
                LET r == Read(sofar.pending, chunk)
                IN  [lines |-> sofar.lines \o r.lines, pending |-> r.pending],
             [lines |-> <<>>, pending |-> pending], chunks)

Visible(bytes) == SelectSeq(bytes, LAMBDA b : b \notin Spaces)

\* However the device's text is cut into reads: no visible byte is lost,
\* repeated or moved, "`pending`" never exceeds the limit, every newline ends a
\* line, and a text whose lines all fit comes out as exactly its own lines.
Faithful(pending, chunks) ==
    LET text == pending \o FlattenSeq(chunks)
        whole == Split(text)
        got == After(pending, chunks)
    IN  /\ Visible(FlattenSeq(got.lines) \o got.pending) = Visible(text)
        /\ Len(got.pending) <= MaxLine
        /\ Len(got.lines) >= Len(whole.lines)
        /\ (\A line \in ToSet(whole.lines) : Len(line) <= MaxLine + 1) /\ Len(whole.rest) <= MaxLine =>
              /\ got.lines = [k \in DOMAIN whole.lines |-> TrimEnd(whole.lines[k])]
              /\ got.pending = whole.rest
=============================================================================

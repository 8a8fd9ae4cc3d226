--------------------------- MODULE ObserveProofs ----------------------------
(***************************************************************************)
(* Proofs about Observe, for any captures, bytes, bounds and budget: it is *)
(* ProbeWorker with a watcher, whose lines stay well-formed, and a verdict *)
(* drawn from silence is drawn while the capture is being read.            *)
(***************************************************************************)
EXTENDS Observe, ProbeWorkerProofs, FiniteSetTheorems, WellFoundedInduction

-----------------------------------------------------------------------------
\* Minima and maxima of sets of natural numbers.
Less == {pair \in Nat \X Nat : pair[1] < pair[2]}

\* The usual order on Nat, as a set of pairs, is well-founded.
LEMMA LessWellFounded == IsWellFoundedOn(Less, Nat)
  BY NatLessThanWellFounded DEF OpToRel, Less

\* Min, with which a poll finds the first match, is the least element.
LEMMA MinIsLeast ==
    ASSUME NEW S, S \subseteq Nat, S # {}
    PROVE  Min(S) \in S /\ \A n \in S : Min(S) <= n
<1>1. PICK n \in S : \A m \in S : ~(<<m, n>> \in Less)
  BY WFMin, LessWellFounded
<1>2. \A m \in S : ~(m < n)
  BY <1>1 DEF Less
<1>3. n \in S /\ \A m \in S : n <= m
  BY <1>2
<1> QED
  BY <1>3 DEF Min

\* Max, with which a line's beginning is found, is the greatest element.
LEMMA MaxIsGreatest ==
    ASSUME NEW S, S \subseteq Nat, S # {}, NEW b \in Nat, \A n \in S : n <= b
    PROVE  Max(S) \in S /\ \A n \in S : n <= Max(S)
<1> DEFINE B == {m \in Nat : \A n \in S : n <= m}
<1>1. PICK m \in B : \A k \in B : ~(<<k, m>> \in Less)
  <2>1. b \in B /\ B \subseteq Nat
    OBVIOUS
  <2> QED
    BY <2>1, WFMin, LessWellFounded
<1>2. \A k \in B : m <= k
  <2>1. \A k \in B : ~(k < m)
    BY <1>1 DEF Less
  <2> QED
    BY <2>1
<1>3. m \in S
  <2> SUFFICES ASSUME m \notin S PROVE FALSE
    OBVIOUS
  <2>1. m # 0
    <3>1. PICK n \in S : TRUE
      OBVIOUS
    <3> QED
      BY <3>1
  <2>2. m - 1 \in B
    BY <2>1
  <2> QED
    BY <1>2, <2>2
<1> QED
  BY <1>3 DEF Max

-----------------------------------------------------------------------------
\* The reader thread's lines.

\* The bytes of a capture that wait for their newline.
PartialLines == {p \in Seq(Alphabet \ {Newline}) : Len(p) <= MaxLine}

\* Cutting a buffer leaves what follows its last newline, and as many lines as
\* it has newlines.
LEMMA SplitParts ==
    ASSUME NEW buffer \in Seq(Alphabet)
    PROVE  LET parts == Split(buffer)
           IN  /\ parts.rest \in Seq(Alphabet \ {Newline})
               /\ Len(parts.lines) \in Nat /\ DOMAIN parts.lines = 1..Len(parts.lines)
<1> DEFINE newlines == {i \in DOMAIN buffer : buffer[i] = Newline}
           bound == Len(buffer) + 1
           ends == {0} \union {j \in newlines : j < bound}
<1>1. /\ Len(buffer) \in Nat /\ DOMAIN buffer = 1..Len(buffer)
      /\ \A i \in DOMAIN buffer : buffer[i] \in Alphabet
  BY LenProperties, ElementOfSeq
<1>2. ends \subseteq Nat /\ (\A j \in ends : j <= Len(buffer)) /\ 0 \in ends
  BY <1>1
<1>3. Max(ends) \in 0..Len(buffer) /\ \A j \in newlines : j <= Max(ends)
  <2> HIDE DEF ends
  <2>1. Max(ends) \in ends /\ \A j \in ends : j <= Max(ends)
    BY <1>1, <1>2, MaxIsGreatest
  <2> QED
    BY <1>1, <1>2, <2>1 DEF ends
<1>4. SubSeq(buffer, Max(ends) + 1, Len(buffer)) \in Seq(Alphabet \ {Newline})
  <2> DEFINE m == Max(ends)
             rest == SubSeq(buffer, m + 1, Len(buffer))
  <2> HIDE DEF m
  <2>1. m \in 0..Len(buffer) /\ \A j \in newlines : j <= m
    BY <1>3 DEF m
  <2>2. rest = [i \in 1..(Len(buffer) - m) |-> buffer[i + m]]
    BY <1>1, <2>1
  <2>3. \A i \in 1..(Len(buffer) - m) : buffer[i + m] \in Alphabet \ {Newline}
    BY <1>1, <2>1
  <2>4. rest \in Seq(Alphabet \ {Newline})
    BY <1>1, <2>1, <2>2, <2>3
  <2> QED
    BY <2>4 DEF m
<1>5. Cardinality(newlines) \in Nat
  <2>1. IsFiniteSet(newlines)
    <3>1. IsFiniteSet(1..Len(buffer)) /\ newlines \in SUBSET (1..Len(buffer))
      BY <1>1, FS_Interval
    <3> QED
      BY <3>1, FS_Subset
  <2> QED
    BY <2>1, FS_CardinalityType
<1>6. Split(buffer).rest = SubSeq(buffer, Max(ends) + 1, Len(buffer))
  BY DEF Split
<1>7. DOMAIN Split(buffer).lines = 1..Cardinality(newlines)
  BY DEF Split
<1>8. Len(Split(buffer).lines) = Cardinality(newlines)
  BY <1>5, <1>7
<1> QED
  BY <1>4, <1>5, <1>6, <1>7, <1>8

\* A read leaves a partial line without a newline and within the limit, and
\* gives a sequence of lines.
LEMMA ReadParts ==
    ASSUME NEW p \in PartialLines, NEW chunk \in Chunks
    PROVE  LET r == Read(p, chunk)
           IN  /\ r.pending \in PartialLines
               /\ Len(r.lines) \in Nat /\ DOMAIN r.lines = 1..Len(r.lines)
<1> DEFINE buffer == p \o chunk
           parts == Split(buffer)
           oversized == Len(parts.rest) > MaxLine
           lines_ == IF oversized THEN Append(parts.lines, parts.rest) ELSE parts.lines
<1>1. buffer \in Seq(Alphabet)
  <2>1. chunk \in Seq(Alphabet)
    BY DEF Chunks
  <2>2. p \in Seq(Alphabet)
    BY DEF PartialLines
  <2> QED
    BY <2>1, <2>2, ConcatProperties
<1>2. /\ parts.rest \in Seq(Alphabet \ {Newline})
      /\ Len(parts.lines) \in Nat /\ DOMAIN parts.lines = 1..Len(parts.lines)
  BY <1>1, SplitParts
<1>3. Len(lines_) \in Nat /\ DOMAIN lines_ = 1..Len(lines_)
  <2> HIDE DEF parts
  <2> QED
    BY <1>2
<1>4. (IF oversized THEN <<>> ELSE parts.rest) \in PartialLines
  <2> HIDE DEF parts
  <2>1. Len(parts.rest) \in Nat
    BY <1>2, LenProperties
  <2>2. <<>> \in PartialLines
    BY BytesAssumption, EmptySeq DEF PartialLines
  <2> QED
    BY <1>2, <2>1, <2>2, BytesAssumption DEF PartialLines
<1>5. /\ Read(p, chunk).pending = IF oversized THEN <<>> ELSE parts.rest
      /\ Read(p, chunk).lines = [k \in DOMAIN lines_ |-> TrimEnd(lines_[k])]
  BY DEF Read
<1>6. Len(Read(p, chunk).lines) = Len(lines_) /\ DOMAIN Read(p, chunk).lines = DOMAIN lines_
  <2> HIDE DEF lines_
  <2> QED
    BY <1>3, <1>5
<1> QED
  BY <1>3, <1>4, <1>5, <1>6

\* What reaches the channel with a read.
LEMMA FedLines ==
    ASSUME NEW q \in Seq(BOOLEAN), NEW r, Len(r) \in Nat, DOMAIN r = 1..Len(r)
    PROVE  q \o [k \in DOMAIN r |-> Matches(r[k])] \in Seq(BOOLEAN)
<1>1. [k \in DOMAIN r |-> Matches(r[k])] \in Seq(BOOLEAN)
  <2>1. \A k \in DOMAIN r : Matches(r[k]) \in BOOLEAN
    BY DEF Matches
  <2>2. [k \in 1..Len(r) |-> Matches(r[k])] \in [1..Len(r) -> BOOLEAN]
    BY <2>1
  <2> QED
    BY <2>2, SeqDef
<1> QED
  BY <1>1, ConcatProperties

\* What a poll of a helper leaves in the channel is the end of what was there.
LEMMA PollLeaves ==
    ASSUME NEW q \in Seq(BOOLEAN), NEW isOpen
    PROVE  Poll(q, isOpen).left \in Seq(BOOLEAN)
<1> DEFINE hits == {n \in DOMAIN q : q[n] /\ n <= Budget}
           rest(n) == SubSeq(q, n + 1, Len(q))
<1>1. Len(q) \in Nat /\ DOMAIN q = 1..Len(q)
  BY LenProperties
<1>2. ASSUME NEW n \in 0..Len(q) PROVE rest(n) \in Seq(BOOLEAN)
  <2>1. /\ rest(n) = [i \in 1..(Len(q) - n) |-> q[i + n]]
        /\ \A i \in 1..(Len(q) - n) : q[i + n] \in BOOLEAN
    BY <1>1, ElementOfSeq
  <2> QED
    BY <1>1, <2>1
<1>3. CASE hits # {}
  <2>1. hits \subseteq Nat /\ hits \subseteq 0..Len(q)
    BY <1>1
  <2>2. Min(hits) \in 0..Len(q)
    <3> HIDE DEF hits
    <3> QED
      BY <1>3, <2>1, MinIsLeast
  <2>3. Poll(q, isOpen).left = rest(Min(hits))
    BY <1>3 DEF Poll
  <2> HIDE DEF hits
  <2> QED
    BY <1>2, <2>2, <2>3
<1>4. CASE hits = {} /\ Len(q) >= Budget
  <2>1. Poll(q, isOpen).left = rest(Budget)
    BY <1>4 DEF Poll
  <2> QED
    BY <1>1, <1>2, <1>4, <2>1, BudgetAssumption
<1>5. CASE hits = {} /\ ~(Len(q) >= Budget)
  <2>1. Poll(q, isOpen).left = <<>>
    BY <1>5 DEF Poll
  <2> QED
    BY <2>1, EmptySeq
<1> QED
  BY <1>3, <1>4, <1>5

-----------------------------------------------------------------------------
\* Every step of the probe under observation is a step of the probe, or none.
LEMMA ObserveNextIsNext == [ObserveNext]_allVars => [Next]_vars
<1>1. ASSUME NEW chunk \in Chunks, Reads(chunk) PROVE Next
  BY <1>1 DEF Reads, Next, WorkerStep
<1> QED
  BY <1>1 DEF ObserveNext, Elsewhere, Expect, Elapse, PollExpect, allVars, vars

\* A test that expects lines neither helps nor hinders the probe: what is shown
\* of the probe alone holds of the probe under observation.
THEOREM ObserveImplementsProbe == ObserveSpec => Spec
<1>1. ObserveInit => Init
  BY DEF ObserveInit
<1> QED
  BY <1>1, ObserveNextIsNext, PTL DEF ObserveSpec, Spec

\* The observed probe keeps its types.
COROLLARY ObservedTypeCorrect == ObserveSpec => []TypeOK
  BY ObserveImplementsProbe, TypeCorrect, PTL

\* The observed probe is silenced by commands only.
COROLLARY ObservedOnlyCommandsSilence == ObserveSpec => SilencedByCommandOnly
  BY ObserveImplementsProbe, OnlyCommandsSilence, PTL

-----------------------------------------------------------------------------
\* While a helper waits, its test's capture has been started.
HelperHasCapture == helper # "none" => handle[Watched] \in {"live", "dropped"}

\* The inductive invariant of the watcher, over the probe's.
WatchInv ==
    /\ WorkerInv
    /\ pending \in PartialLines
    /\ lines \in Seq(BOOLEAN)
    /\ HelperHasCapture

\* A capture that was handed over stays handed over: no late reply to a start
\* touches it, nor does a dropped future.
LEMMA HeldStays ==
    ASSUME WorkerInv, Next, NEW k \in Captures, handle[k] \in {"live", "dropped"}
    PROVE  handle'[k] \in {"live", "dropped"}
<1>1. handle \in [Captures -> {"unused", "starting", "live", "dropped", "cancelled", "failed"}]
  BY DEF WorkerInv, TypeOK
<1>2. ASSUME NEW j \in Captures, CallStart(j) \/ DropCapture(j) PROVE handle'[k] \in {"live", "dropped"}
  BY <1>1, <1>2 DEF CallStart, DropCapture
<1>3. CASE Cancel
  BY <1>1, <1>3 DEF Cancel
<1>4. CASE DoStart \/ DoStartFails
  <2>1. PICK result : Receive("start") /\ StartReturns(result)
    BY <1>4 DEF DoStart, DoStartFails
  <2>2. /\ Head(queue) = queue[1] /\ queue[1] \in Commands /\ queue[1].op = "start"
        /\ 1 \in DOMAIN queue
    BY <2>1, ReceiveStep
  <2>3. queue[1].cap \in Captures
    BY <2>2, CommandFacts
  <2>4. ~(k = queue[1].cap /\ queue[1].wanted)
    BY <2>2, <2>3 DEF WorkerInv, StartsPending
  <2> QED
    BY <2>1, <2>2, <2>4 DEF StartReturns
<1>5. CASE UNCHANGED handle
  BY <1>5
<1> QED
  BY <1>2, <1>3, <1>4, <1>5
     DEF Next, WorkerStep, Open, CallFlash, CallReset, Close, Attach, DoFlash, DoReset, Timeout,
         Disconnected, PollIdle, PollStopped, PollReads, PollFaults

\* The watcher's invariant holds at the start.
LEMMA WatchInvInit == ObserveInit => WatchInv
<1>1. <<>> \in PartialLines /\ <<>> \in Seq(BOOLEAN)
  BY BytesAssumption, EmptySeq DEF PartialLines
<1> QED
  BY <1>1, WorkerInvInit DEF ObserveInit, WatchInv, HelperHasCapture

\* Every step keeps the watcher's invariant.
LEMMA WatchInvNext == WatchInv /\ [ObserveNext]_allVars => WatchInv'
<1> SUFFICES ASSUME WatchInv, [ObserveNext]_allVars PROVE WatchInv'
  OBVIOUS
<1>1. WorkerInv'
  BY ObserveNextIsNext, WorkerInvNext DEF WatchInv
<1>2. <<>> \in PartialLines
  BY BytesAssumption, EmptySeq DEF PartialLines
<1>3. ASSUME NEW chunk \in Chunks, Reads(chunk) PROVE WatchInv'
  <2> DEFINE r == Read(pending, chunk)
  <2>1. r.pending \in PartialLines /\ Len(r.lines) \in Nat /\ DOMAIN r.lines = 1..Len(r.lines)
    BY ReadParts DEF WatchInv
  <2>2. /\ pending' = r.pending
        /\ lines' = lines \o [k \in DOMAIN r.lines |-> Matches(r.lines[k])]
        /\ UNCHANGED <<helper, handle>>
    BY <1>3 DEF Reads, PollReads
  <2>3. lines' \in Seq(BOOLEAN)
    <3> HIDE DEF r
    <3> QED
      BY <2>1, <2>2, FedLines DEF WatchInv
  <2>4. HelperHasCapture'
    BY <2>2 DEF WatchInv, HelperHasCapture
  <2> QED
    BY <1>1, <2>1, <2>2, <2>3, <2>4 DEF WatchInv
<1>4. CASE Elsewhere
  <2>1. Next /\ pending' \in {pending, <<>>} /\ UNCHANGED <<lines, helper>>
    BY <1>4 DEF Elsewhere
  <2>2. HelperHasCapture'
    BY <2>1, HeldStays, WatchedAssumption DEF WatchInv, HelperHasCapture
  <2> QED
    BY <1>1, <1>2, <2>1, <2>2 DEF WatchInv
<1>5. ASSUME NEW h \in {"matching", "quiet"}, Expect(h) PROVE WatchInv'
  BY <1>1, <1>5 DEF Expect, vars, WatchInv, HelperHasCapture
<1>6. CASE Elapse \/ UNCHANGED allVars
  BY <1>1, <1>6 DEF Elapse, allVars, vars, WatchInv, HelperHasCapture
<1>7. ASSUME NEW v \in Verdicts \union {"waiting"}, PollExpect(v) PROVE WatchInv'
  <2>1. lines' = Poll(lines, SourceOpen).left /\ helper' \in {helper, "none"}
        /\ UNCHANGED <<vars, pending>>
    BY <1>7 DEF PollExpect
  <2>2. lines' \in Seq(BOOLEAN)
    BY <2>1, PollLeaves DEF WatchInv
  <2> QED
    BY <1>1, <2>1, <2>2 DEF vars, WatchInv, HelperHasCapture
<1> QED
  BY <1>3, <1>4, <1>5, <1>6, <1>7 DEF ObserveNext

\* The watcher's invariant holds always.
LEMMA WatchInvariant == ObserveSpec => []WatchInv
  BY WatchInvInit, WatchInvNext, PTL DEF ObserveSpec

\* `pending` holds one partial line at a time, "so a target streaming bytes
\* without newlines can't grow `pending` without limit": between two polls it
\* has no newline and never more than MAX_LINE bytes.
THEOREM PendingIsBounded == ObserveSpec => [](pending \in PartialLines)
<1>1. WatchInv => pending \in PartialLines
  BY DEF WatchInv
<1> QED
  BY <1>1, WatchInvariant, PTL

\* While a helper waits no start of its capture is in the channel, so that the
\* source of its events is open only if the capture is read.
LEMMA OpenIsRead ==
    ASSUME WatchInv, helper # "none", SourceOpen
    PROVE  rtt = Watched
<1>1. \A n \in DOMAIN queue : queue[n].cap # Watched
  BY WatchedAssumption DEF WatchInv, WorkerInv, StartsPending, HelperHasCapture
<1> QED
  BY <1>1 DEF SourceOpen

\* "silence is a verdict, but loss of observation is not": for any captures,
\* uses and bounds, an expect_quiet that passes, or an expect_matching that
\* reports its deadline, does so while the capture is read, with no matching
\* line in the channel, unless one poll's budget was spent before the end of it.
THEOREM SilentVerdictIsWatched == ObserveSpec => SilenceIsWatched
<1> DEFINE Seen == \/ Len(lines) >= Budget
                   \/ rtt = Watched /\ \A n \in DOMAIN lines : ~lines[n]
           Goal == \A v \in {"ok", "deadline"} :
                      PollExpect(v) /\ (v = "ok" => helper = "quiet") => Seen
<1>1. ASSUME WatchInv, NEW v \in {"ok", "deadline"}, PollExpect(v), v = "ok" => helper = "quiet",
             ~(Len(lines) >= Budget)
      PROVE  rtt = Watched /\ \A n \in DOMAIN lines : ~lines[n]
  <2> DEFINE p == Poll(lines, SourceOpen)
  <2>1. helper # "none" /\ v = Verdict(helper, p.says, elapsed)
    BY <1>1 DEF PollExpect
  <2>2. p.says \notin {"match", "closed"}
    <3> HIDE DEF p
    <3> QED
      BY <1>1, <2>1 DEF Verdict
  <2>3. {n \in DOMAIN lines : lines[n] /\ n <= Budget} = {} /\ SourceOpen
    BY <1>1, <2>2 DEF Poll
  <2>4. Len(lines) \in Nat /\ DOMAIN lines = 1..Len(lines)
    BY <1>1, LenProperties DEF WatchInv
  <2>5. \A n \in DOMAIN lines : n <= Budget
    BY <1>1, <2>4, BudgetAssumption
  <2> QED
    BY <1>1, <2>1, <2>3, <2>5, OpenIsRead
<1>2. WatchInv => Goal
  BY <1>1
<1>3. WatchInv /\ [ObserveNext]_allVars => [Goal]_allVars
  BY <1>2
<1> QED
  BY <1>3, WatchInvariant, PTL DEF ObserveSpec, SilenceIsWatched

=============================================================================

------------------------------ MODULE Observe -------------------------------
(***************************************************************************)
(* A test that expects lines, or silence, of a capture: the probe worker   *)
(* reads bytes, cuts them into lines and hands them to a sink that feeds a *)
(* channel; expect_matching or expect_quiet waits at its other end.  The   *)
(* test goes on using the probe meanwhile (join!, select!).                *)
(***************************************************************************)
EXTENDS ProbeWorker, RttLines, Expect

CONSTANTS
    Watched,  \* the capture whose lines are expected
    MaxChan   \* bound: lines in the channel

ASSUME WatchedAssumption == Watched \in Captures /\ MaxChan \in Nat

VARIABLES
    pending,  \* RttState::pending of the watched capture
    lines,    \* the channel: for every line, does it match
    helper,   \* the helper that waits: "none", "matching" or "quiet"
    elapsed   \* has its deadline passed

allVars == <<vars, pending, lines, helper, elapsed>>

\* What a test looks for is a byte "m".
Matches(line) == "m" \in ToSet(line)

\* The sink, with the sender in it, goes with the command, then with the RttState.
SourceOpen == rtt = Watched \/ \E n \in DOMAIN queue : queue[n].cap = Watched

\* PollReads of the watched capture, with what it reads.
Reads(chunk) ==
    /\ PollReads /\ rtt = Watched
    /\ LET r == Read(pending, chunk)
       IN  /\ pending' = r.pending
           /\ lines' = lines \o [k \in DOMAIN r.lines |-> Matches(r.lines[k])]
    /\ Len(lines') <= MaxChan
    /\ UNCHANGED <<helper, elapsed>>

\* Any other step of the probe.  A capture that ends drops its partial line.
Elsewhere ==
    /\ Next
    /\ ~(PollReads /\ rtt = Watched)
    /\ pending' = IF rtt' = Watched THEN pending ELSE <<>>
    /\ UNCHANGED <<lines, helper, elapsed>>

\* The test has its capture, or has dropped it, and waits on the channel.
Expect(h) ==
    /\ helper = "none" /\ handle[Watched] \in {"live", "dropped"}
    /\ helper' = h /\ elapsed' = FALSE
    /\ UNCHANGED <<vars, pending, lines>>

Elapse ==
    /\ helper # "none" /\ ~elapsed
    /\ elapsed' = TRUE
    /\ UNCHANGED <<vars, pending, lines, helper>>

\* A poll of the helper that comes to verdict v.
PollExpect(v) ==
    /\ helper # "none"
    /\ LET p == Poll(lines, SourceOpen)
       IN  /\ v = Verdict(helper, p.says, elapsed)
           /\ lines' = p.left
    /\ helper' = IF v = "waiting" THEN helper ELSE "none"
    /\ elapsed' = (elapsed /\ v = "waiting")
    /\ UNCHANGED <<vars, pending>>

Verdicts == {"ok", "deadline", "closed", "unexpected"}

ObserveInit ==
    /\ Init
    /\ pending = <<>> /\ lines = <<>> /\ helper = "none" /\ elapsed = FALSE

ObserveNext ==
    \/ \E chunk \in Chunks : Reads(chunk)
    \/ Elsewhere
    \/ \E h \in {"matching", "quiet"} : Expect(h)
    \/ Elapse
    \/ \E v \in Verdicts \union {"waiting"} : PollExpect(v)

ObserveSpec == ObserveInit /\ [][ObserveNext]_allVars

\* The worker thread is scheduled, as in ProbeWorker.
FairObserveSpec == ObserveSpec /\ WF_vars(WorkerStep)

-----------------------------------------------------------------------------
\* "silence is a verdict, but loss of observation is not": when expect_quiet
\* passes, or expect_matching reports its deadline, the worker is still reading
\* the capture (no flash, fault, drop or second start has ended it), and no
\* matching line that reached the channel is left unseen.  The exception is a
\* test so far behind that one poll's budget of receives was spent first.
SilenceIsWatched ==
    [][\A v \in {"ok", "deadline"} : PollExpect(v) /\ (v = "ok" => helper = "quiet") =>
          \/ Len(lines) >= Budget
          \/ rtt = Watched /\ \A n \in DOMAIN lines : ~lines[n]]_allVars

\* From the start of a capture on, the text the device sends is the text the
\* test reads, however it is cut into (up to three) reads: see Faithful.
LinesAreTheText ==
    [][DoStart /\ rtt' = Watched =>
          \A chunks \in BoundedSeq(Chunks, 3) : Faithful(pending', chunks)]_allVars
=============================================================================

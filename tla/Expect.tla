------------------------------- MODULE Expect -------------------------------
(***************************************************************************)
(* expect_matching and expect_quiet (banc-host/src/expect.rs), as operators*)
(* on an event source: the queued events, of which only whether they match *)
(* is told, and whether the source is open.                                *)
(***************************************************************************)
EXTENDS Integers, Sequences, FiniteSetsExt

\* tokio lets one poll of a task receive so many events before it must yield,
\* and a timeout that finds the budget spent looks at its deadline all the same.
CONSTANT Budget

ASSUME BudgetAssumption == Budget \in Nat \ {0}

\* One poll of the loop both helpers share: it discards what does not match,
\* until a match, the end of the source, an empty queue or a spent budget.
Poll(events, open) ==
    LET hits == {n \in DOMAIN events : events[n] /\ n <= Budget}
        rest(n) == SubSeq(events, n + 1, Len(events))
    IN  IF hits # {} THEN [says |-> "match", left |-> rest(Min(hits))]
        ELSE IF Len(events) >= Budget THEN [says |-> "pending", left |-> rest(Budget)]
        ELSE [says |-> IF open THEN "pending" ELSE "closed", left |-> <<>>]

\* A mutant: a source that has closed is quiet.
ClosedIsQuiet(helper, says, elapsed) ==
    IF says = "match" THEN IF helper = "matching" THEN "ok" ELSE "unexpected"
    ELSE IF says = "closed" THEN IF helper = "quiet" THEN "ok" ELSE "closed"
    ELSE IF ~elapsed THEN "waiting"
    ELSE IF helper = "quiet" THEN "ok" ELSE "deadline"

\* What the helper returns: the loop's word goes before the deadline's.
Verdict(helper, says, elapsed) ==
    IF says = "match" THEN IF helper = "matching" THEN "ok" ELSE "unexpected"
    ELSE IF says = "closed" THEN "closed"
    ELSE IF ~elapsed THEN "waiting"
    ELSE IF helper = "quiet" THEN "ok" ELSE "deadline"
=============================================================================

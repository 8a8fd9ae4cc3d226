---------------------------- MODULE TrialProofs -----------------------------
(***************************************************************************)
(* Proofs about Trial, for any number of trials, attempts, children, lines *)
(* and log entries: an attempt passes only with its device half, and       *)
(* leaves the results and the evidence it should.                          *)
(***************************************************************************)
EXTENDS Trial, SequenceTheorems, TLAPS

-----------------------------------------------------------------------------
\* The entries of an evidence log.
Entries == [what : {"line", "failed", "marker"}, attempt : Attempts, line : Nat]

\* A log has a length within its cap, and counts what it dropped.
Logs == {l \in [entries : Seq(Entries), dropped : Nat] : Len(l.entries) <= MaxEntries}

\* The entries a record makes of the ones before: those in the same order, or
\* all but the oldest, and the new one at the end.
LEMMA RecordStep ==
    ASSUME NEW l \in Logs, NEW e \in Entries
    PROVE  LET r == Record(l, e)
               s == l.entries
               n == Len(r.entries)
           IN  /\ r \in Logs
               /\ n \in Nat /\ n > 0 /\ DOMAIN r.entries = 1..n /\ r.entries[n] = e
               /\ Len(s) \in Nat /\ DOMAIN s = 1..Len(s)
               /\ \E d \in {0, 1} : \A i \in 1..(n - 1) : i + d \in DOMAIN s /\ r.entries[i] = s[i + d]
               /\ r.dropped = 0 =>
                     l.dropped = 0 /\ n = Len(s) + 1 /\ \A i \in DOMAIN s : r.entries[i] = s[i]
<1> DEFINE s == l.entries
           r == Record(l, e)
           full == Len(s) >= MaxEntries
           base == IF full THEN Tail(s) ELSE s
<1>1. s \in Seq(Entries) /\ l.dropped \in Nat /\ Len(s) <= MaxEntries
  BY DEF Logs
<1>2. Len(s) \in Nat /\ DOMAIN s = 1..Len(s)
  BY <1>1, LenProperties
<1>3. r = [entries |-> Append(base, e), dropped |-> IF full THEN l.dropped + 1 ELSE l.dropped]
  BY DEF Record
<1>4. /\ base \in Seq(Entries) /\ Len(base) \in Nat /\ Len(base) < MaxEntries
      /\ \E d \in {0, 1} : \A i \in 1..Len(base) : i + d \in DOMAIN s /\ base[i] = s[i + d]
  <2>1. CASE full
    <3>1. s # <<>>
      BY <1>2, <2>1, CapAssumption
    <3>2. /\ Tail(s) \in Seq(Entries) /\ Len(Tail(s)) = Len(s) - 1
          /\ \A i \in 1..Len(Tail(s)) : Tail(s)[i] = s[i + 1]
      BY <1>1, <3>1, HeadTailProperties
    <3>3. \A i \in 1..Len(Tail(s)) : i + 1 \in DOMAIN s /\ Tail(s)[i] = s[i + 1]
      BY <1>2, <3>2
    <3> QED
      BY <1>1, <1>2, <2>1, <3>1, <3>2, <3>3, EmptySeq, CapAssumption
  <2>2. CASE ~full
    BY <1>1, <1>2, <2>2, CapAssumption
  <2> QED
    BY <2>1, <2>2
<1>5. /\ r.entries \in Seq(Entries) /\ Len(r.entries) = Len(base) + 1
      /\ \A i \in 1..Len(base) : r.entries[i] = base[i]
      /\ r.entries[Len(base) + 1] = e
  BY <1>3, <1>4, AppendProperties
<1>6. r \in Logs
  BY <1>1, <1>3, <1>4, <1>5, CapAssumption DEF Logs
<1>7. DOMAIN r.entries = 1..Len(r.entries)
  BY <1>5, LenProperties
<1>8. r.dropped = 0 => l.dropped = 0 /\ base = s
  BY <1>1, <1>3
<1> HIDE DEF r, base, s
<1>9. \E d \in {0, 1} : \A i \in 1..(Len(r.entries) - 1) : i + d \in DOMAIN s /\ r.entries[i] = s[i + d]
  BY <1>4, <1>5
<1>10. r.dropped = 0 =>
          l.dropped = 0 /\ Len(r.entries) = Len(s) + 1 /\ \A i \in DOMAIN s : r.entries[i] = s[i]
  BY <1>2, <1>5, <1>8
<1>11. Len(r.entries) \in Nat /\ Len(r.entries) > 0 /\ r.entries[Len(r.entries)] = e
  BY <1>4, <1>5
<1> QED
  BY <1>2, <1>6, <1>7, <1>9, <1>10, <1>11 DEF r, s

-----------------------------------------------------------------------------
\* A line of the results.
Lines == [test : 1..Trials, outcome : {"passed", "failed", "skipped"},
          attempts : Attempts, evidence : BOOLEAN]

\* The log has its type, and there is a file for every trial.
StoreOK ==
    /\ log \in Logs
    /\ DOMAIN files = {LogName(t) : t \in 1..Trials}

\* What each phase of a trial goes with.
StageOK ==
    /\ phase = "between" =>
          /\ attempt = 1 /\ log = NewEvidence /\ talk = Silence
          /\ state = "idle" /\ child = NoChildren /\ mine = 0
    /\ phase # "between" => rig = "ready" /\ trial <= Trials
    /\ rig = "unset" => trial = 1
    /\ phase \in {"midAwait", "endAwait"} => state = "idle"
    /\ phase = "retry" => attempt < MaxAttempts
    /\ phase = "passed" => VerdictIsOk
    /\ VerdictIsOk => \E k \in Children : child[k] = "ok"

\* Trials run one after the other: those before the current one are over.
TrialsInTurn ==
    /\ \A t \in 1..Trials : outcome[t] = "none" <=> t >= trial
    /\ \A n \in DOMAIN results : results[n].test < trial

\* The first part of the inductive invariant.
StageInv == TypeOK /\ StoreOK /\ StageOK /\ TrialsInTurn

\* The invariant holds at the start.
LEMMA StageInvInit == Init => StageInv
<1> SUFFICES ASSUME Init PROVE StageInv
  OBVIOUS
<1> USE TrialsAssumption
<1>1. /\ NewEvidence.entries = <<>> /\ NewEvidence.dropped = 0 /\ NewEvidence \in Logs
      /\ Len(NewEvidence.entries) <= MaxEntries
  BY EmptySeq, CapAssumption DEF NewEvidence, Logs
<1>2. results = <<>> /\ results \in Seq(Lines) /\ DOMAIN results = {}
  BY EmptySeq, LenProperties DEF Init
<1>3. talk \in [Attempts -> 0..MaxLines]
  BY DEF Init, Silence
<1>4. TypeOK
  <2> 0 \notin Children
    BY DEF Children
  <2> QED
    BY <1>1, <1>2, <1>3 DEF Init, TypeOK, NoChildren, Lines
<1>5. StoreOK
  BY <1>1 DEF Init, StoreOK
<1>6. StageOK
  BY DEF Init, StageOK, VerdictIsOk
<1>7. TrialsInTurn
  BY <1>2 DEF Init, TrialsInTurn
<1> QED
  BY <1>4, <1>5, <1>6, <1>7 DEF StageInv

\* What the body and its children leave alone.
LEMMA BodyFrame ==
    ASSUME Body \/ OnTarget
    PROVE  /\ UNCHANGED <<override, rig, trial, attempt, store, log, talk>>
           /\ phase = "between" <=> phase' = "between"
           /\ phase' # "retry" \/ phase' = phase
  BY DEF Body, OnTarget, RunnerStarts, ChildExits, StrayExits, rest, Start, StartTwice, Consult, ConsultMidBody, ConsultAtEnd, MidVerdict,
         EndVerdict, VerdictCancelled, BodyOk, BodyErr, BodyPanics, Trailing

\* A trial comes to its end: without a rig, passed, failed or panicked.
Concluding ==
    \/ Begin /\ phase' = "between"
    \/ AttemptPasses \/ AttemptFails \/ Panics

\* All that a trial's end does: it counts the trial and its outcome, records at
\* most one line, the trial's own, and leaves nothing of it running.
LEMMA ConcludingStep ==
    ASSUME StageInv, Concluding
    PROVE  \E o \in {"passed", "failed", "skipped"}, line \in Lines :
              /\ trial \in 1..Trials /\ trial' = trial + 1 /\ attempt' = 1 /\ phase' = "between"
              /\ outcome' = [outcome EXCEPT ![trial] = o]
              /\ line.test = trial /\ line.outcome = o /\ (line.evidence => AttemptFails)
              /\ line.evidence =>
                    /\ o = "failed" /\ disk = "ok" /\ phase = "failed"
                    /\ line.attempts = attempt /\ attempt = MaxAttempts
                    /\ files' = [files EXCEPT ![LogName(trial)] = LogFile(trial, log)]
              /\ results' = IF HasResultsDir(rig') /\ disk = "ok" /\ phase # "panic"
                             THEN Append(results, line) ELSE results
              /\ log' = NewEvidence /\ talk' = Silence
              /\ state' = "idle" /\ child' = NoChildren /\ mine' = 0 /\ device' \in {"ok", "err"}
              /\ probe' \in {0, Stray}
              /\ rig' \in {"ready", "skip", "fail"} /\ (rig # "unset" => rig' = rig)
              /\ phase = "panic" => o = "failed"
              /\ \/ files' = files
                 \/ /\ o = "failed"
                    /\ \E l : files' = [files EXCEPT ![LogName(trial)] = LogFile(trial, l)]
              /\ UNCHANGED <<override, disk>>
<1> USE TrialsAssumption
<1> DEFINE Line(o, used, linked) == [test |-> trial, outcome |-> o, attempts |-> used, evidence |-> linked]
<1>1. CASE Begin /\ phase' = "between"
  <2>1. PICK r \in {"skip", "fail"} :
            /\ rig' = r /\ (rig # "unset" => rig' = rig) /\ trial <= Trials /\ phase = "between"
            /\ Conclude(r, IF r = "skip" THEN "skipped" ELSE "failed", 1, FALSE)
            /\ UNCHANGED <<talk, override, deviceVars, files, disk>>
    BY <1>1 DEF Begin, StageInv, TypeOK
  <2> DEFINE o == IF r = "skip" THEN "skipped" ELSE "failed"
  <2>2. trial \in 1..Trials
    BY <2>1 DEF StageInv, TypeOK
  <2>6. Line(o, 1, FALSE) \in Lines
    BY <2>2 DEF Lines, Attempts
  <2>3. /\ trial' = trial + 1 /\ attempt' = 1 /\ phase' = "between" /\ log' = NewEvidence
        /\ outcome' = [outcome EXCEPT ![trial] = o]
        /\ results' = IF HasResultsDir(rig') /\ disk = "ok"
                       THEN Append(results, Line(o, 1, FALSE)) ELSE results
    BY <2>1 DEF Conclude
  <2>4. /\ talk' = Silence /\ state' = "idle" /\ child' = NoChildren /\ mine' = 0
        /\ device' \in {"ok", "err"} /\ probe' \in {0, Stray}
    <3>1. talk = Silence /\ state = "idle" /\ child = NoChildren /\ mine = 0 /\ device \in {"ok", "err"}
      BY <2>1 DEF StageInv, StageOK, TypeOK
    <3>2. probe \in {0, Stray}
      BY <3>1 DEF StageInv, TypeOK, NoChildren
    <3> QED
      BY <2>1, <3>1, <3>2 DEF deviceVars
  <2> WITNESS o \in {"passed", "failed", "skipped"}, Line(o, 1, FALSE) \in Lines
  <2> HIDE DEF o
  <2> QED
    BY <2>1, <2>2, <2>3, <2>4
<1>2. CASE AttemptPasses \/ AttemptFails \/ Panics
  <2>1. /\ rig = "ready" /\ rig' = rig /\ trial \in 1..Trials /\ attempt \in Attempts
        /\ UNCHANGED <<override, disk>> /\ phase # "between"
        /\ state' = "idle" /\ child' = NoChildren /\ mine' = 0 /\ device' = "err" /\ talk' = Silence
        /\ probe' \in {0, Stray}
    <3>1. /\ phase # "between" /\ UNCHANGED <<override, rig, disk>> /\ EndAttempt
      BY <1>2 DEF AttemptPasses, AttemptFails, Panics
    <3>2. rig = "ready" /\ trial <= Trials /\ trial \in 1..(Trials + 1) /\ attempt \in Attempts
      BY <3>1 DEF StageInv, StageOK, TypeOK, Attempts
    <3>3. probe \in Children \union {0, Stray}
      BY DEF StageInv, TypeOK
    <3> QED
      BY <3>1, <3>2, <3>3 DEF EndAttempt, KillChildren
  <2>2. CASE AttemptPasses
    <3>1. Line("passed", attempt, FALSE) \in Lines
      BY <2>1 DEF Lines
    <3>2. /\ trial' = trial + 1 /\ attempt' = 1 /\ phase' = "between" /\ log' = NewEvidence
          /\ outcome' = [outcome EXCEPT ![trial] = "passed"]
          /\ results' = IF HasResultsDir(rig') /\ disk = "ok" /\ phase # "panic"
                         THEN Append(results, Line("passed", attempt, FALSE)) ELSE results
          /\ UNCHANGED files
          /\ phase # "panic"
      BY <2>1, <2>2 DEF AttemptPasses, Conclude
    <3> WITNESS "passed" \in {"passed", "failed", "skipped"}, Line("passed", attempt, FALSE) \in Lines
    <3> QED
      BY <2>1, <3>2
  <2>3. CASE AttemptFails
    <3> DEFINE linked == log.entries # <<>> /\ disk = "ok"
               line == Line("failed", attempt, linked)
    <3>1. line \in Lines
      BY <2>1 DEF Lines
    <3>2. /\ trial' = trial + 1 /\ attempt' = 1 /\ phase' = "between" /\ log' = NewEvidence
          /\ outcome' = [outcome EXCEPT ![trial] = "failed"]
          /\ results' = IF HasResultsDir(rig') /\ disk = "ok" /\ phase # "panic"
                         THEN Append(results, line) ELSE results
          /\ phase = "failed" /\ attempt = MaxAttempts
      BY <2>1, <2>3 DEF AttemptFails, Conclude
    <3>3. /\ linked => files' = [files EXCEPT ![LogName(trial)] = LogFile(trial, log)]
          /\ \/ files' = files
             \/ \E l : files' = [files EXCEPT ![LogName(trial)] = LogFile(trial, l)]
      BY <2>3 DEF AttemptFails
    <3>4. line.test = trial /\ line.outcome = "failed" /\ line.evidence = linked /\ line.attempts = attempt
      OBVIOUS
    <3>5. linked => disk = "ok"
      OBVIOUS
    <3> HIDE DEF line, linked
    <3> WITNESS "failed" \in {"passed", "failed", "skipped"}, line \in Lines
    <3> QED
      BY <2>1, <2>3, <3>1, <3>2, <3>3, <3>4, <3>5
  <2>4. CASE Panics
    <3>1. Line("failed", attempt, FALSE) \in Lines
      BY <2>1 DEF Lines
    <3>2. /\ trial' = trial + 1 /\ attempt' = 1 /\ phase' = "between" /\ log' = NewEvidence
          /\ outcome' = [outcome EXCEPT ![trial] = "failed"]
          /\ phase = "panic" /\ UNCHANGED <<results, files>>
      BY <2>4 DEF Panics
    <3> WITNESS "failed" \in {"passed", "failed", "skipped"}, Line("failed", attempt, FALSE) \in Lines
    <3> QED
      BY <2>1, <3>2
  <2> QED
    BY <1>2, <2>2, <2>3, <2>4
<1> QED
  BY <1>1, <1>2 DEF Concluding

\* A trial's end keeps the invariant.
LEMMA ConcludingKeepsStages == StageInv /\ Concluding => StageInv'
<1> SUFFICES ASSUME StageInv, Concluding PROVE StageInv'
  OBVIOUS
<1> USE TrialsAssumption
<1>1. PICK o \in {"passed", "failed", "skipped"}, line \in Lines :
         /\ trial \in 1..Trials /\ trial' = trial + 1 /\ attempt' = 1 /\ phase' = "between"
         /\ outcome' = [outcome EXCEPT ![trial] = o]
         /\ line.test = trial
         /\ results' \in {results, Append(results, line)}
         /\ log' = NewEvidence /\ talk' = Silence
         /\ state' = "idle" /\ child' = NoChildren /\ mine' = 0 /\ device' \in {"ok", "err"}
         /\ probe' \in {0, Stray}
         /\ rig' \in {"ready", "skip", "fail"}
         /\ DOMAIN files' = DOMAIN files
         /\ UNCHANGED <<override, disk>>
  BY ConcludingStep
<1>2. results \in Seq(Lines) /\ Len(results) \in Nat /\ DOMAIN results = 1..Len(results)
  BY LenProperties DEF StageInv, TypeOK, Lines
<1>3. /\ results' \in Seq(Lines)
      /\ \A n \in DOMAIN results' : (n \in DOMAIN results /\ results'[n] = results[n]) \/ results'[n] = line
  <2>1. CASE results' = Append(results, line)
    <3>1. /\ results' \in Seq(Lines) /\ Len(results') = Len(results) + 1
          /\ \A n \in 1..Len(results) : results'[n] = results[n]
          /\ results'[Len(results) + 1] = line
      BY <1>2, <2>1, AppendProperties
    <3>2. DOMAIN results' = 1..(Len(results) + 1)
      BY <3>1, LenProperties
    <3> QED
      BY <1>2, <3>1, <3>2
  <2> QED
    BY <1>1, <1>2, <2>1
<1>4. NewEvidence \in Logs /\ NewEvidence.dropped = 0 /\ Len(NewEvidence.entries) <= MaxEntries
  BY EmptySeq, CapAssumption DEF NewEvidence, Logs
<1>5. TypeOK'
  <2>1. talk' \in [Attempts -> 0..MaxLines] /\ child' \in [Children -> {"none", "running", "ok", "err"}]
    BY <1>1 DEF Silence, NoChildren
  <2>2. probe' \in Children \union {0, Stray} /\ probe' \notin Children
    BY <1>1 DEF Children, Stray
  <2> QED
    BY <1>1, <1>3, <1>4, <2>1, <2>2 DEF StageInv, TypeOK, Lines
<1>6. StoreOK'
  BY <1>1, <1>4 DEF StageInv, StoreOK
<1>7. StageOK'
  BY <1>1 DEF StageOK, VerdictIsOk
<1>8. TrialsInTurn'
  <2>1. \A t \in 1..Trials : outcome'[t] = "none" <=> t >= trial'
    BY <1>1 DEF StageInv, TypeOK, TrialsInTurn
  <2>2. \A n \in DOMAIN results' : results'[n].test < trial'
    <3> SUFFICES ASSUME NEW n \in DOMAIN results' PROVE results'[n].test < trial'
      OBVIOUS
    <3>1. CASE results'[n] = line
      BY <1>1, <3>1
    <3>2. CASE n \in DOMAIN results /\ results'[n] = results[n]
      <4>1. results[n].test < trial /\ results[n].test \in 1..Trials
        <5>1. results[n] \in Lines
          BY <1>2, <3>2, ElementOfSeq
        <5> QED
          BY <3>2, <5>1 DEF StageInv, TrialsInTurn, Lines
      <4> QED
        BY <1>1, <3>2, <4>1
    <3> QED
      BY <1>3, <3>1, <3>2
  <2> QED
    BY <2>1, <2>2 DEF TrialsInTurn
<1> QED
  BY <1>5, <1>6, <1>7, <1>8 DEF StageInv

\* The steps of Next, by what they do to a trial.
LEMMA NextCases ==
    ASSUME Next
    PROVE  \/ Concluding
           \/ Begin /\ phase' = "body"
           \/ AttemptFailed \/ Retry
           \/ Body \/ OnTarget
           \/ (\E k \in Attempts : Speak(k))
           \/ DiskFills \/ UNCHANGED vars
<1>1. Begin => phase' \in {"body", "between"}
  BY DEF Begin, Conclude
<1> QED
  BY <1>1 DEF Next, Runner, Concluding, Done

\* The steps of the body and its children keep the invariant.
LEMMA BodyKeepsStages ==
    ASSUME StageInv, Body \/ OnTarget
    PROVE  StageInv'
<1>1. /\ UNCHANGED <<override, rig, trial, attempt, store, log, talk>>
      /\ phase = "between" <=> phase' = "between"
      /\ phase' # "retry" \/ phase' = phase
  BY BodyFrame
<1>2. /\ state \in {"idle", "running", "done"}
      /\ child \in [Children -> {"none", "running", "ok", "err"}]
      /\ mine \in Children \union {0} /\ device \in {"ok", "err"}
      /\ phase \in {"between", "body", "midAwait", "trailing", "endAwait", "passed", "failed", "retry", "panic"}
      /\ (state = "running" \/ phase \in {"midAwait", "endAwait"}) => mine # 0 /\ child[mine] # "none"
      /\ phase \in {"midAwait", "endAwait"} => state = "idle"
      /\ probe \in Children \union {0, Stray} /\ (probe \in Children => child[probe] = "running")
      /\ phase = "passed" => VerdictIsOk
      /\ VerdictIsOk => \E k \in Children : child[k] = "ok"
  BY DEF StageInv, StageOK, TypeOK
<1> DEFINE Device ==
      /\ state \in {"idle", "running", "done"}
      /\ child \in [Children -> {"none", "running", "ok", "err"}]
      /\ mine \in Children \union {0} /\ device \in {"ok", "err"}
      /\ phase \in {"between", "body", "midAwait", "trailing", "endAwait", "passed", "failed", "retry", "panic"}
      /\ (state = "running" \/ phase \in {"midAwait", "endAwait"}) => mine # 0 /\ child[mine] # "none"
      /\ phase \in {"midAwait", "endAwait"} => state = "idle"
      /\ probe \in Children \union {0, Stray} /\ (probe \in Children => child[probe] = "running")
      /\ phase = "passed" => VerdictIsOk
      /\ VerdictIsOk => \E k \in Children : child[k] = "ok"
<1>3. Device'
  <2> 0 \notin Children
    BY DEF Children
  <2>1. CASE Start
    BY <1>2, <2>1 DEF Start, VerdictIsOk
  <2>2. CASE StartTwice \/ BodyOk \/ BodyPanics
    BY <1>2, <2>2 DEF StartTwice, BodyOk, BodyPanics, deviceVars, VerdictIsOk
  <2>3. CASE ConsultMidBody \/ ConsultAtEnd
    BY <1>2, <2>3 DEF Consult, ConsultMidBody, ConsultAtEnd, VerdictIsOk
  <2>4. CASE MidVerdict \/ EndVerdict
    BY <1>2, <2>4 DEF MidVerdict, EndVerdict, Awaited, VerdictIsOk
  <2>5. CASE VerdictCancelled
    BY <1>2, <2>5 DEF VerdictCancelled, VerdictIsOk
  <2>6. CASE BodyErr
    BY <1>2, <2>6 DEF BodyErr, FailureContext, Awaited, VerdictIsOk
  <2>7. CASE Trailing
    BY <1>2, <2>7 DEF Trailing, deviceVars, VerdictIsOk
  <2>8. ASSUME NEW k \in Children, ChildExits(k) PROVE Device'
    BY <1>2, <2>8 DEF ChildExits, rest, VerdictIsOk
  <2>9. ASSUME NEW k \in Children, RunnerStarts(k) PROVE Device'
    BY <1>2, <2>9 DEF RunnerStarts, rest, VerdictIsOk
  <2>10. CASE StrayExits
    BY <1>2, <2>10 DEF StrayExits, rest, VerdictIsOk
  <2> QED
    BY <2>1, <2>2, <2>3, <2>4, <2>5, <2>6, <2>7, <2>8, <2>9, <2>10 DEF Body, OnTarget
<1>4. phase' = "between" => UNCHANGED <<state, child, mine>>
  <2>1. phase' = "between" => phase = "between" /\ child = NoChildren
    BY <1>1 DEF StageInv, StageOK
  <2>2. phase = "between" => ~Body
    BY DEF Body, Start, StartTwice, Consult, ConsultMidBody, ConsultAtEnd, MidVerdict,
           EndVerdict, VerdictCancelled, BodyOk, BodyErr, BodyPanics, Trailing
  <2>3. child = NoChildren /\ OnTarget => UNCHANGED <<state, child, mine>>
    BY DEF OnTarget, RunnerStarts, ChildExits, StrayExits, rest, NoChildren
  <2> QED
    BY <2>1, <2>2, <2>3
<1>5. TypeOK'
  BY <1>1, <1>3 DEF StageInv, TypeOK, store
<1>6. StageOK'
  <2> HIDE DEF Device
  <2>1. /\ phase' \in {"midAwait", "endAwait"} => state' = "idle"
        /\ phase' = "passed" => VerdictIsOk'
        /\ VerdictIsOk' => \E k \in Children : child'[k] = "ok"
    BY <1>3 DEF Device
  <2>2. StageOK /\ UNCHANGED <<attempt, log, talk, rig, trial>>
    BY <1>1 DEF StageInv
  <2> QED
    BY <1>1, <1>4, <2>1, <2>2 DEF StageOK
<1> QED
  BY <1>1, <1>5, <1>6 DEF StageInv, StoreOK, TrialsInTurn, store

\* An entry of the current attempt, or the marker of the next one.
LEMMA EntryFacts ==
    /\ \A what \in {"line", "failed"}, k \in Attempts, n \in Nat : Entry(what, k, n) \in Entries
    /\ attempt \in Attempts /\ attempt < MaxAttempts =>
          Entry("marker", attempt + 1, 0) \in Entries
  BY TrialsAssumption DEF Entry, Entries, Attempts

\* Every step keeps the invariant.
LEMMA StageInvNext == StageInv /\ [Next]_vars => StageInv'
<1> SUFFICES ASSUME StageInv, [Next]_vars PROVE StageInv'
  OBVIOUS
<1> USE TrialsAssumption
<1>1. CASE Concluding
  BY <1>1, ConcludingKeepsStages
<1>2. CASE Body \/ OnTarget
  BY <1>2, BodyKeepsStages
<1>3. CASE UNCHANGED vars
  BY <1>3 DEF vars, deviceVars, store, StageInv, TypeOK, StoreOK, StageOK, TrialsInTurn, VerdictIsOk
<1>4. CASE DiskFills
  <2>1. disk' = "full"
        /\ UNCHANGED <<override, rig, trial, phase, attempt, deviceVars, outcome, results, files, log, talk>>
    BY <1>4 DEF DiskFills
  <2>2. TypeOK'
    BY <2>1 DEF deviceVars, StageInv, TypeOK
  <2>3. StageOK'
    BY <2>1 DEF deviceVars, StageInv, StageOK, VerdictIsOk
  <2> QED
    BY <2>1, <2>2, <2>3 DEF StageInv, StoreOK, TrialsInTurn
<1>5. CASE Begin /\ phase' = "body"
  <2>1. /\ phase = "between" /\ trial <= Trials /\ rig' = "ready" /\ (rig # "unset" => rig' = rig)
        /\ log' = NewEvidence /\ talk' = [Silence EXCEPT ![1] = MaxLines]
        /\ UNCHANGED <<override, trial, attempt, outcome, results, deviceVars, files, disk>>
    BY <1>5 DEF Begin, Conclude
  <2>2. log' = log /\ state = "idle" /\ state' = state
    BY <2>1 DEF StageInv, StageOK, deviceVars
  <2>3. talk' \in [Attempts -> 0..MaxLines]
    BY <2>1 DEF Silence, Attempts
  <2>4. TypeOK' /\ StoreOK' /\ TrialsInTurn'
    BY <1>5, <2>1, <2>2, <2>3 DEF StageInv, TypeOK, StoreOK, TrialsInTurn, deviceVars
  <2>5. StageOK'
    BY <1>5, <2>1, <2>2 DEF StageInv, StageOK, VerdictIsOk, deviceVars
  <2> QED
    BY <2>4, <2>5 DEF StageInv
<1>6. ASSUME NEW e \in Entries, log' = Record(log, e)
      PROVE  log' \in Logs /\ Len(log'.entries) <= MaxEntries /\ log'.dropped \in Nat
  <2>1. log' \in Logs
    BY <1>6, RecordStep DEF StageInv, StoreOK
  <2> QED
    BY <2>1 DEF Logs
<1>7. CASE AttemptFailed
  <2>1. Entry("failed", attempt, 0) \in Entries
    BY EntryFacts DEF StageInv, TypeOK, Attempts
  <2>2. /\ phase = "failed" /\ attempt < MaxAttempts /\ log' = Record(log, Entry("failed", attempt, 0))
        /\ phase' = "retry"
        /\ UNCHANGED <<override, rig, trial, attempt, deviceVars, store, talk>>
    BY <1>7 DEF AttemptFailed
  <2>3. TypeOK' /\ StoreOK' /\ TrialsInTurn'
    BY <1>6, <2>1, <2>2 DEF StageInv, TypeOK, StoreOK, TrialsInTurn, deviceVars, store
  <2>4. StageOK'
    BY <2>2 DEF StageInv, StageOK, VerdictIsOk, deviceVars
  <2> QED
    BY <2>3, <2>4 DEF StageInv
<1>8. CASE Retry
  <2>1. attempt \in Attempts /\ attempt < MaxAttempts
    BY <1>8 DEF Retry, StageInv, StageOK, TypeOK, Attempts
  <2>2. /\ phase = "retry" /\ attempt' = attempt + 1 /\ phase' = "body"
        /\ log' = Record(log, Entry("marker", attempt + 1, 0))
        /\ state' = "idle" /\ child' = NoChildren /\ mine' = 0 /\ device' = "err"
        /\ probe' = IF probe \in Children THEN Stray ELSE probe
        /\ talk' = [Silence EXCEPT ![attempt + 1] = MaxLines]
        /\ UNCHANGED <<override, rig, trial, store>>
    BY <1>8 DEF Retry, KillChildren
  <2>3. /\ attempt' \in Attempts /\ talk' \in [Attempts -> 0..MaxLines] /\ child' \in [Children -> {"none"}]
        /\ probe' \in Children \union {0, Stray} /\ probe' \notin Children
    BY <2>1, <2>2 DEF Silence, Attempts, NoChildren, Children, Stray, StageInv, TypeOK
  <2>4. TypeOK' /\ StoreOK' /\ TrialsInTurn'
    BY <1>6, <2>1, <2>2, <2>3, EntryFacts DEF StageInv, TypeOK, StoreOK, TrialsInTurn, store, Attempts
  <2>5. StageOK'
    BY <2>2 DEF StageInv, StageOK, VerdictIsOk
  <2> QED
    BY <2>4, <2>5 DEF StageInv
<1>9. ASSUME NEW k \in Attempts, Speak(k) PROVE StageInv'
  <2>1. talk[k] \in 1..MaxLines /\ talk \in [Attempts -> 0..MaxLines]
    BY <1>9 DEF Speak, StageInv, TypeOK
  <2>2. Entry("line", k, MaxLines - talk[k] + 1) \in Entries
    BY <2>1, EntryFacts
  <2>3. /\ talk' = [talk EXCEPT ![k] = @ - 1]
        /\ log' = Record(log, Entry("line", k, MaxLines - talk[k] + 1))
        /\ UNCHANGED <<override, rig, trial, phase, attempt, deviceVars, store>>
    BY <1>9 DEF Speak
  <2>4. phase # "between"
    BY <1>9, <2>1 DEF StageInv, StageOK, Silence
  <2>5. talk' \in [Attempts -> 0..MaxLines]
    BY <2>1, <2>3
  <2>6. TypeOK' /\ StoreOK' /\ TrialsInTurn'
    BY <1>6, <2>2, <2>3, <2>5 DEF StageInv, TypeOK, StoreOK, TrialsInTurn, deviceVars, store
  <2>7. StageOK'
    BY <2>3, <2>4 DEF StageInv, StageOK, VerdictIsOk, deviceVars
  <2> QED
    BY <2>6, <2>7 DEF StageInv
<1> QED
  BY <1>1, <1>2, <1>3, <1>4, <1>5, <1>7, <1>8, <1>9, NextCases

\* The first part of the invariant holds always.
LEMMA StageInvariant == Spec => []StageInv
  BY StageInvInit, StageInvNext, PTL DEF Spec

\* The runner, the DeviceTest and the stores keep their types, and a child that
\* is awaited was spawned, for any numbers of trials, attempts and children.
THEOREM TypeCorrect == Spec => []TypeOK
<1>1. StageInv => TypeOK
  BY DEF StageInv
<1> QED
  BY <1>1, StageInvariant, PTL

\* "no scenario can pass without its device half agreeing": whatever the body
\* does with the verdict, and however its children end.
THEOREM PassIsPaired == Spec => []PassNeedsDevice
<1>1. StageInv => PassNeedsDevice
  BY DEF StageInv, StageOK, PassNeedsDevice
<1> QED
  BY <1>1, StageInvariant, PTL

-----------------------------------------------------------------------------
\* The lines of results before the end of the current trial.
LEMMA LineFacts ==
    ASSUME StageInv
    PROVE  /\ results \in Seq(Lines) /\ Len(results) \in Nat /\ DOMAIN results = 1..Len(results)
           /\ \A n \in DOMAIN results :
                 results[n] \in Lines /\ results[n].test \in 1..Trials /\ results[n].test < trial
<1>1. results \in Seq(Lines)
  BY DEF StageInv, TypeOK, Lines
<1>2. Len(results) \in Nat /\ DOMAIN results = 1..Len(results)
  BY <1>1, LenProperties
<1>3. \A n \in DOMAIN results : results[n] \in Lines
  BY <1>1, <1>2, ElementOfSeq
<1>4. \A n \in DOMAIN results : results[n].test \in 1..Trials
  BY <1>3 DEF Lines
<1> QED
  BY <1>1, <1>2, <1>3, <1>4 DEF StageInv, TrialsInTurn

\* The results after a trial's end, line by line.
LEMMA ResultsStep ==
    ASSUME StageInv, NEW line \in Lines, line.test = trial, trial \in 1..Trials,
           results' = Append(results, line)
    PROVE  /\ \A n \in DOMAIN results : /\ n \in DOMAIN results' /\ results'[n] = results[n]
                                        /\ results[n].test \in 1..Trials /\ results[n].test < trial
           /\ \E last \in DOMAIN results' :
                 /\ results'[last] = line
                 /\ \A n \in DOMAIN results' : (n \in DOMAIN results /\ n < last) \/ n = last
           /\ DOMAIN results' \subseteq Nat
<1>1. /\ results \in Seq(Lines) /\ Len(results) \in Nat /\ DOMAIN results = 1..Len(results)
      /\ \A n \in DOMAIN results : results[n] \in Lines
  BY LineFacts
<1>2. /\ results' \in Seq(Lines) /\ Len(results') = Len(results) + 1
      /\ \A n \in 1..Len(results) : results'[n] = results[n]
      /\ results'[Len(results) + 1] = line
  BY <1>1, AppendProperties
<1>3. DOMAIN results' = 1..(Len(results) + 1)
  BY <1>2, LenProperties
<1>4. \A n \in DOMAIN results : results[n].test \in 1..Trials /\ results[n].test < trial
  BY LineFacts
<1>5. \E last \in DOMAIN results' :
         /\ results'[last] = line
         /\ \A n \in DOMAIN results' : (n \in DOMAIN results /\ n < last) \/ n = last
  <2>1. Len(results) + 1 \in DOMAIN results'
    BY <1>1, <1>3
  <2>2. \A n \in DOMAIN results' : (n \in DOMAIN results /\ n < Len(results) + 1) \/ n = Len(results) + 1
    BY <1>1, <1>3
  <2> QED
    BY <1>2, <2>1, <2>2
<1> QED
  BY <1>1, <1>2, <1>3, <1>4, <1>5

\* Every step keeps the results in agreement with what libtest reports.
LEMMA LinePerTrialNext == StageInv /\ LinePerTrial /\ [Next]_vars => LinePerTrial'
<1> SUFFICES ASSUME StageInv, LinePerTrial, [Next]_vars PROVE LinePerTrial'
  OBVIOUS
<1>1. CASE Concluding
  <2>1. PICK o \in {"passed", "failed", "skipped"}, line \in Lines :
           /\ trial \in 1..Trials
           /\ outcome' = [outcome EXCEPT ![trial] = o]
           /\ line.test = trial /\ line.outcome = o /\ (line.evidence => o = "failed")
           /\ results' = IF HasResultsDir(rig') /\ disk = "ok" /\ phase # "panic"
                          THEN Append(results, line) ELSE results
           /\ rig' \in {"ready", "skip", "fail"} /\ (rig # "unset" => rig' = rig)
           /\ phase = "panic" => o = "failed"
           /\ UNCHANGED <<override, disk>>
    BY <1>1, ConcludingStep
  <2>2. /\ outcome'[trial] = o
        /\ \A t \in 1..Trials : t # trial => outcome'[t] = outcome[t]
    BY <2>1 DEF StageInv, TypeOK
  <2>3. \A n \in DOMAIN results : results[n].test \in 1..Trials /\ results[n].test < trial
    BY LineFacts
  <2>4. rig = "unset" => results = <<>> /\ \A t \in 1..Trials : outcome[t] = "none"
    <3> SUFFICES ASSUME rig = "unset" PROVE results = <<>> /\ \A t \in 1..Trials : outcome[t] = "none"
      OBVIOUS
    <3>1. trial = 1 /\ \A t \in 1..Trials : outcome[t] = "none" <=> t >= trial
      BY DEF StageInv, StageOK, TrialsInTurn
    <3>2. DOMAIN results = {}
      <4>1. \A t \in 1..Trials : ~(t < 1)
        OBVIOUS
      <4> QED
        BY <2>3, <3>1, <4>1
    <3>3. results = <<>>
      BY <3>2, LineFacts, EmptySeq
    <3> QED
      BY <3>1, <3>3
  <2>5. phase = "panic" => rig = "ready"
    BY DEF StageInv, StageOK
  <2>6. CASE results' = results /\ ~(HasResultsDir(rig') /\ disk = "ok" /\ phase # "panic")
    <3>1. \A t \in 1..Trials :
             disk' = "ok" /\ outcome'[t] # "none" /\ (outcome'[t] = "failed" => rig' = "fail") =>
                ((\E n \in DOMAIN results' : results'[n].test = t) <=> HasResultsDir(rig'))
      BY <2>1, <2>2, <2>3, <2>4, <2>5, <2>6 DEF LinePerTrial, HasResultsDir
    <3>2. results' # <<>> => HasResultsDir(rig')
      BY <2>1, <2>4, <2>6 DEF LinePerTrial, HasResultsDir
    <3>3. \A n \in DOMAIN results' : /\ results'[n].outcome = outcome'[results'[n].test]
                                     /\ results'[n].evidence => results'[n].outcome = "failed"
      BY <2>2, <2>3, <2>6 DEF LinePerTrial
    <3> QED
      BY <2>1, <2>6, <3>1, <3>2, <3>3 DEF LinePerTrial, HasResultsDir
  <2>7. CASE results' = Append(results, line) /\ HasResultsDir(rig') /\ disk = "ok" /\ phase # "panic"
    <3>1. /\ \A n \in DOMAIN results : n \in DOMAIN results' /\ results'[n] = results[n]
          /\ DOMAIN results' \subseteq Nat
      BY <2>1, <2>7, ResultsStep
    <3>2. PICK last \in DOMAIN results' :
             /\ results'[last] = line
             /\ \A n \in DOMAIN results' : (n \in DOMAIN results /\ n < last) \/ n = last
      BY <2>1, <2>7, ResultsStep
    <3>3. \A t \in 1..Trials :
             disk' = "ok" /\ outcome'[t] # "none" /\ (outcome'[t] = "failed" => rig' = "fail") =>
                ((\E n \in DOMAIN results' : results'[n].test = t) <=> HasResultsDir(rig'))
      BY <2>1, <2>2, <2>4, <2>7, <3>1, <3>2 DEF LinePerTrial, HasResultsDir
    <3>4. \A n, p \in DOMAIN results' : n < p => results'[n].test < results'[p].test
      <4> SUFFICES ASSUME NEW n \in DOMAIN results', NEW p \in DOMAIN results', n < p
                   PROVE  results'[n].test < results'[p].test
        OBVIOUS
      <4>1. n \in DOMAIN results
        BY <3>1, <3>2
      <4>2. CASE p = last
        BY <2>1, <2>3, <3>1, <3>2, <4>1, <4>2
      <4>3. CASE p \in DOMAIN results
        BY <3>1, <4>1, <4>3 DEF LinePerTrial
      <4> QED
        BY <3>2, <4>2, <4>3
    <3>5. \A n \in DOMAIN results' : /\ results'[n].outcome = outcome'[results'[n].test]
                                     /\ results'[n].evidence => results'[n].outcome = "failed"
      BY <2>1, <2>2, <2>3, <3>1, <3>2 DEF LinePerTrial
    <3> QED
      BY <2>1, <2>7, <3>3, <3>4, <3>5 DEF LinePerTrial, HasResultsDir
  <2> QED
    BY <2>1, <2>6, <2>7
<1>2. CASE Begin /\ phase' = "body"
  <2>1. /\ rig' = "ready" /\ (rig # "unset" => rig' = rig)
        /\ UNCHANGED <<override, outcome, results, disk>>
    BY <1>2 DEF Begin, Conclude
  <2>2. rig = "unset" => \A t \in 1..Trials : outcome[t] = "none"
    BY DEF StageInv, StageOK, TrialsInTurn
  <2> QED
    BY <2>1, <2>2 DEF LinePerTrial, HasResultsDir
<1>3. CASE DiskFills
  BY <1>3 DEF DiskFills, LinePerTrial, HasResultsDir
<1>4. CASE AttemptFailed \/ Retry \/ (\E k \in Attempts : Speak(k)) \/ UNCHANGED vars
  BY <1>4 DEF AttemptFailed, Retry, Speak, vars, store, LinePerTrial, HasResultsDir
<1>5. CASE Body \/ OnTarget
  <2>1. UNCHANGED <<override, rig, outcome, results, disk>>
    BY <1>5, BodyFrame DEF store
  <2> QED
    BY <2>1 DEF LinePerTrial, HasResultsDir
<1> QED
  BY <1>1, <1>2, <1>3, <1>4, <1>5, NextCases

\* "one line per executed trial": for any number of trials and attempts, with
\* or without room on the disk, and in the order of the trials.
THEOREM ResultsTellOutcomes == Spec => []LinePerTrial
<1>1. Init => LinePerTrial
  <2>1. results = <<>> => DOMAIN results = {}
    OBVIOUS
  <2> QED
    BY <2>1 DEF Init, LinePerTrial
<1> QED
  BY <1>1, LinePerTrialNext, StageInvariant, PTL DEF Spec

-----------------------------------------------------------------------------
\* A record keeps the log in order, if its entry comes after those before it.
LEMMA RecordInOrder ==
    ASSUME NEW l \in Logs, NEW e \in Entries, InOrder(l.entries),
           \A i \in DOMAIN l.entries :
              IF e.what = "marker" THEN l.entries[i].attempt < e.attempt
                                   ELSE l.entries[i].attempt <= e.attempt
    PROVE  LET s == Record(l, e).entries
           IN  InOrder(s) /\ \A i \in DOMAIN s : s[i].attempt <= e.attempt
<1> DEFINE old == l.entries
           s == Record(l, e).entries
           n == Len(s)
<1> HIDE DEF old, s
<1>1. /\ n \in Nat /\ n > 0 /\ DOMAIN s = 1..n /\ s[n] = e
      /\ Len(old) \in Nat /\ DOMAIN old = 1..Len(old)
  BY RecordStep DEF s, old
<1>2. PICK d \in {0, 1} : \A i \in 1..(n - 1) : i + d \in DOMAIN old /\ s[i] = old[i + d]
  BY RecordStep DEF s, old
<1>3. \A i \in DOMAIN old :
              IF e.what = "marker" THEN old[i].attempt < e.attempt
                                   ELSE old[i].attempt <= e.attempt
  BY DEF old
<1>4. /\ \A i \in DOMAIN old : old[i].attempt \in Nat
      /\ e.attempt \in Nat
  <2>1. \A i \in DOMAIN old : old[i] \in Entries
    BY LenProperties, ElementOfSeq DEF Logs, old
  <2>2. Attempts \subseteq Nat
    BY DEF Attempts
  <2> QED
    BY <2>1, <2>2 DEF Entries
<1>5. \A i \in 1..(n - 1) : /\ s[i].attempt <= e.attempt
                            /\ e.what = "marker" => s[i].attempt < e.attempt
  <2> SUFFICES ASSUME NEW i \in 1..(n - 1)
               PROVE  s[i].attempt <= e.attempt /\ (e.what = "marker" => s[i].attempt < e.attempt)
    OBVIOUS
  <2>1. i + d \in DOMAIN old /\ s[i] = old[i + d]
    BY <1>2
  <2> QED
    BY <1>3, <1>4, <2>1
<1>6. ASSUME NEW i \in DOMAIN s, NEW j \in DOMAIN s, i < j
      PROVE  IF s[j].what = "marker" THEN s[i].attempt < s[j].attempt
                                     ELSE s[i].attempt <= s[j].attempt
  <2>1. CASE j = n
    <3>1. i \in 1..(n - 1)
      BY <1>1, <1>6, <2>1
    <3> QED
      BY <1>1, <1>5, <2>1, <3>1
  <2>2. CASE j # n
    <3>1. i \in 1..(n - 1) /\ j \in 1..(n - 1) /\ i + d < j + d
      BY <1>1, <1>6, <2>2
    <3>2. /\ i + d \in DOMAIN old /\ s[i] = old[i + d]
          /\ j + d \in DOMAIN old /\ s[j] = old[j + d]
      BY <1>2, <3>1
    <3>3. InOrder(old)
      BY DEF old
    <3> QED
      BY <3>1, <3>2, <3>3 DEF InOrder
  <2> QED
    BY <2>1, <2>2
<1>7. \A i \in DOMAIN s : s[i].attempt <= e.attempt
  <2> SUFFICES ASSUME NEW i \in DOMAIN s PROVE s[i].attempt <= e.attempt
    OBVIOUS
  <2>1. i = n \/ i \in 1..(n - 1)
    BY <1>1
  <2> QED
    BY <1>1, <1>4, <1>5, <2>1
<1> QED
  BY <1>6, <1>7 DEF InOrder, s

\* A record that drops nothing keeps the log whole, if its entry is no line or
\* the line before it is there.
LEMMA RecordWhole ==
    ASSUME NEW l \in Logs, NEW e \in Entries, Record(l, e).dropped = 0,
           NEW used \in Nat, Whole(l.entries, used),
           e.what = "line" /\ e.line > 1 =>
              \E i \in DOMAIN l.entries : l.entries[i] = Entry("line", e.attempt, e.line - 1)
    PROVE  LET s == Record(l, e).entries
           IN  /\ l.dropped = 0 /\ Whole(s, used)
               /\ \A i \in DOMAIN l.entries : i \in DOMAIN s /\ s[i] = l.entries[i]
               /\ \E n \in DOMAIN s : s[n] = e /\ \A i \in DOMAIN l.entries : i < n
<1> DEFINE old == l.entries
           s == Record(l, e).entries
           n == Len(s)
<1> HIDE DEF old, s
<1>1. /\ n \in Nat /\ DOMAIN s = 1..n /\ s[n] = e /\ l.dropped = 0
      /\ Len(old) \in Nat /\ DOMAIN old = 1..Len(old) /\ n = Len(old) + 1
      /\ \A i \in DOMAIN old : s[i] = old[i]
  BY RecordStep DEF s, old
<1>2. /\ \A i \in DOMAIN old : i \in DOMAIN s /\ i < n /\ s[i] = old[i]
      /\ n \in DOMAIN s /\ \A i \in DOMAIN s : i \in DOMAIN old \/ i = n
  BY <1>1
<1>3. Whole(old, used)
  BY DEF old
<1>4. \A k \in 1..(used - 1) : \E i, j \in DOMAIN s :
          i < j /\ s[i] = Entry("failed", k, 0) /\ s[j] = Entry("marker", k + 1, 0)
  BY <1>2, <1>3 DEF Whole
<1>5. ASSUME NEW j \in DOMAIN s, s[j].what = "line", s[j].line > 1
      PROVE  \E i \in 1..(j - 1) : s[i] = Entry("line", s[j].attempt, s[j].line - 1)
  <2>1. CASE j = n
    <3>1. PICK i \in DOMAIN old : old[i] = Entry("line", e.attempt, e.line - 1)
      BY <1>1, <1>5, <2>1 DEF old
    <3>2. i \in 1..(j - 1) /\ s[i] = old[i] /\ s[j] = e
      BY <1>1, <2>1, <3>1
    <3> QED
      BY <3>1, <3>2
  <2>2. CASE j \in DOMAIN old
    <3>1. s[j] = old[j] /\ old[j].what = "line" /\ old[j].line > 1
      BY <1>2, <1>5, <2>2
    <3>2. PICK i \in 1..(j - 1) : old[i] = Entry("line", old[j].attempt, old[j].line - 1)
      BY <1>3, <2>2, <3>1 DEF Whole
    <3>3. i \in DOMAIN old
      BY <1>1, <2>2, <3>2
    <3> QED
      BY <1>2, <3>1, <3>2, <3>3
  <2> QED
    BY <1>2, <2>1, <2>2
<1>6. Whole(s, used)
  BY <1>4, <1>5 DEF Whole
<1> QED
  BY <1>1, <1>2, <1>6 DEF s, old

\* What the log of the trial in progress tells: its entries are of the attempts
\* so far, in order; only the current attempt's tasks still speak; and as long
\* as nothing was dropped it is whole, with the failure of an attempt that is
\* to be retried, and the line last recorded by the current one.
LogTells ==
    /\ \A i \in DOMAIN log.entries : log.entries[i].attempt <= attempt
    /\ InOrder(log.entries)
    /\ \A k \in Attempts : talk[k] > 0 => k = attempt
    /\ log.dropped = 0 =>
          /\ Whole(log.entries, attempt)
          /\ phase = "retry" =>
                \E i \in DOMAIN log.entries : log.entries[i] = Entry("failed", attempt, 0)
          /\ phase # "between" /\ talk[attempt] < MaxLines =>
                \E i \in DOMAIN log.entries :
                   log.entries[i] = Entry("line", attempt, MaxLines - talk[attempt])

\* Every step keeps what the log tells.
LEMMA LogTellsNext == StageInv /\ LogTells /\ [Next]_vars => LogTells'
<1> SUFFICES ASSUME StageInv, LogTells, [Next]_vars PROVE LogTells'
  OBVIOUS
<1> USE TrialsAssumption
<1>0. log \in Logs /\ attempt \in Attempts /\ attempt \in Nat /\ talk \in [Attempts -> 0..MaxLines]
  BY DEF StageInv, TypeOK, StoreOK, Attempts
<1>1. CASE Concluding
  <2>1. log' = NewEvidence /\ attempt' = 1 /\ phase' = "between" /\ talk' = Silence
    BY <1>1, ConcludingStep
  <2>2. \A k \in Attempts : ~(talk'[k] > 0)
    BY <2>1 DEF Silence
  <2>3. DOMAIN log'.entries = {} /\ \A k \in 1..(attempt' - 1) : FALSE
    BY <2>1, EmptySeq, LenProperties DEF NewEvidence
  <2> QED
    BY <2>1, <2>2, <2>3 DEF LogTells, InOrder, Whole
<1>2. CASE Begin /\ phase' = "body"
  <2>1. /\ log' = NewEvidence /\ attempt' = 1 /\ talk' = [Silence EXCEPT ![1] = MaxLines]
    BY <1>2 DEF Begin, Conclude, StageInv, StageOK
  <2>2. (\A k \in Attempts : talk'[k] > 0 => k = 1) /\ talk'[1] = MaxLines
    BY <2>1 DEF Silence, Attempts
  <2>3. DOMAIN log'.entries = {} /\ \A k \in 1..(attempt' - 1) : FALSE
    BY <2>1, EmptySeq, LenProperties DEF NewEvidence
  <2> QED
    BY <1>2, <2>1, <2>2, <2>3 DEF LogTells, InOrder, Whole
<1>3. CASE AttemptFailed
  <2> DEFINE e == Entry("failed", attempt, 0)
  <2>1. /\ log' = Record(log, e) /\ phase = "failed" /\ phase' = "retry"
        /\ UNCHANGED <<attempt, talk>>
    BY <1>3 DEF AttemptFailed
  <2>2. e \in Entries /\ e.what = "failed" /\ e.attempt = attempt
    BY <1>0, EntryFacts DEF Entry
  <2> HIDE DEF e
  <2>3. InOrder(log'.entries) /\ \A i \in DOMAIN log'.entries : log'.entries[i].attempt <= attempt'
    BY <1>0, <2>1, <2>2, RecordInOrder DEF LogTells
  <2>4. ASSUME log'.dropped = 0
        PROVE  /\ Whole(log'.entries, attempt')
               /\ \E i \in DOMAIN log'.entries : log'.entries[i] = Entry("failed", attempt', 0)
               /\ talk'[attempt'] < MaxLines =>
                     \E i \in DOMAIN log'.entries :
                        log'.entries[i] = Entry("line", attempt', MaxLines - talk'[attempt'])
    <3>1. log.dropped = 0
      BY <1>0, <2>1, <2>2, <2>4, RecordStep
    <3>2. Whole(log.entries, attempt)
      BY <3>1 DEF LogTells
    <3>3. /\ Whole(log'.entries, attempt)
          /\ \A i \in DOMAIN log.entries : i \in DOMAIN log'.entries /\ log'.entries[i] = log.entries[i]
          /\ \E n \in DOMAIN log'.entries : log'.entries[n] = e
      BY <1>0, <2>1, <2>2, <2>4, <3>2, RecordWhole
    <3>4. talk[attempt] < MaxLines =>
             \E i \in DOMAIN log.entries : log.entries[i] = Entry("line", attempt, MaxLines - talk[attempt])
      BY <2>1, <3>1 DEF LogTells
    <3> QED
      BY <2>1, <3>3, <3>4 DEF e
  <2> QED
    BY <2>1, <2>3, <2>4 DEF LogTells
<1>4. CASE Retry
  <2> DEFINE e == Entry("marker", attempt + 1, 0)
  <2>1. /\ log' = Record(log, e) /\ phase = "retry" /\ phase' = "body"
        /\ attempt' = attempt + 1 /\ talk' = [Silence EXCEPT ![attempt + 1] = MaxLines]
        /\ attempt < MaxAttempts
    BY <1>4 DEF Retry, StageInv, StageOK
  <2>2. e \in Entries /\ e.what = "marker" /\ e.attempt = attempt + 1
    BY <1>0, <2>1, EntryFacts DEF Entry
  <2> HIDE DEF e
  <2>3. \A i \in DOMAIN log.entries : log.entries[i].attempt < attempt + 1
    <3>1. \A i \in DOMAIN log.entries : log.entries[i].attempt \in Nat
      <4>1. \A i \in DOMAIN log.entries : log.entries[i] \in Entries
        BY <1>0, LenProperties, ElementOfSeq DEF Logs
      <4> QED
        BY <4>1 DEF Entries, Attempts
    <3> QED
      BY <1>0, <3>1 DEF LogTells
  <2>4. InOrder(log'.entries) /\ \A i \in DOMAIN log'.entries : log'.entries[i].attempt <= attempt'
    BY <1>0, <2>1, <2>2, <2>3, RecordInOrder DEF LogTells
  <2>5. (\A k \in Attempts : talk'[k] > 0 => k = attempt') /\ talk'[attempt'] = MaxLines
    BY <1>0, <2>1 DEF Silence, Attempts
  <2>6. ASSUME log'.dropped = 0 PROVE Whole(log'.entries, attempt')
    <3>1. log.dropped = 0
      BY <1>0, <2>1, <2>2, <2>6, RecordStep
    <3>2. /\ Whole(log.entries, attempt)
          /\ \E i \in DOMAIN log.entries : log.entries[i] = Entry("failed", attempt, 0)
      BY <2>1, <3>1 DEF LogTells
    <3>3. /\ Whole(log'.entries, attempt)
          /\ \A i \in DOMAIN log.entries : i \in DOMAIN log'.entries /\ log'.entries[i] = log.entries[i]
          /\ \E n \in DOMAIN log'.entries : log'.entries[n] = e /\ \A i \in DOMAIN log.entries : i < n
      BY <1>0, <2>1, <2>2, <2>6, <3>2, RecordWhole
    <3>4. \E i, j \in DOMAIN log'.entries :
             i < j /\ log'.entries[i] = Entry("failed", attempt, 0)
                   /\ log'.entries[j] = Entry("marker", attempt + 1, 0)
      BY <3>2, <3>3 DEF e
    <3>5. \A k \in 1..(attempt' - 1) : k \in 1..(attempt - 1) \/ k = attempt
      BY <1>0, <2>1
    <3> QED
      BY <3>3, <3>4, <3>5 DEF Whole
  <2> QED
    BY <2>1, <2>4, <2>5, <2>6 DEF LogTells
<1>5. ASSUME NEW k \in Attempts, Speak(k) PROVE LogTells'
  <2> DEFINE e == Entry("line", k, MaxLines - talk[k] + 1)
  <2>1. /\ log' = Record(log, e) /\ talk[k] > 0 /\ talk' = [talk EXCEPT ![k] = talk[k] - 1]
        /\ UNCHANGED <<attempt, phase>>
    BY <1>5 DEF Speak
  <2>2. k = attempt /\ talk[k] \in 1..MaxLines /\ phase # "between" /\ talk'[k] = talk[k] - 1
    BY <1>0, <2>1 DEF LogTells, StageInv, StageOK, Silence
  <2>3. e \in Entries /\ e.what = "line" /\ e.attempt = attempt /\ e.line = MaxLines - talk[k] + 1
    BY <2>2, EntryFacts DEF Entry
  <2> HIDE DEF e
  <2>4. InOrder(log'.entries) /\ \A i \in DOMAIN log'.entries : log'.entries[i].attempt <= attempt'
    BY <1>0, <2>1, <2>3, RecordInOrder DEF LogTells
  <2>5. \A j \in Attempts : talk'[j] > 0 => j = attempt'
    BY <1>0, <2>1, <2>2 DEF LogTells
  <2>6. ASSUME log'.dropped = 0
        PROVE  /\ Whole(log'.entries, attempt')
               /\ phase' = "retry" =>
                     \E i \in DOMAIN log'.entries : log'.entries[i] = Entry("failed", attempt', 0)
               /\ \E i \in DOMAIN log'.entries :
                     log'.entries[i] = Entry("line", attempt', MaxLines - talk'[attempt'])
    <3>1. log.dropped = 0
      BY <1>0, <2>1, <2>3, <2>6, RecordStep
    <3>2. Whole(log.entries, attempt)
      BY <3>1 DEF LogTells
    <3>3. e.line > 1 => \E i \in DOMAIN log.entries : log.entries[i] = Entry("line", e.attempt, e.line - 1)
      <4>1. e.line > 1 => talk[attempt] < MaxLines /\ e.line - 1 = MaxLines - talk[attempt]
        BY <2>2, <2>3
      <4> QED
        BY <2>2, <2>3, <3>1, <4>1 DEF LogTells
    <3>4. /\ Whole(log'.entries, attempt)
          /\ \A i \in DOMAIN log.entries : i \in DOMAIN log'.entries /\ log'.entries[i] = log.entries[i]
          /\ \E n \in DOMAIN log'.entries : log'.entries[n] = e
      BY <1>0, <2>1, <2>3, <2>6, <3>2, <3>3, RecordWhole
    <3>5. phase = "retry" => \E i \in DOMAIN log.entries : log.entries[i] = Entry("failed", attempt, 0)
      BY <3>1 DEF LogTells
    <3>6. e = Entry("line", attempt', MaxLines - talk'[attempt'])
      <4>1. MaxLines - talk[k] + 1 = MaxLines - talk'[k]
        BY <2>2
      <4> QED
        BY <2>1, <2>2, <4>1 DEF e
    <3> QED
      BY <2>1, <3>4, <3>5, <3>6
  <2> QED
    BY <2>4, <2>5, <2>6 DEF LogTells
<1>6. CASE DiskFills \/ UNCHANGED vars
  BY <1>6 DEF DiskFills, vars, LogTells
<1>7. CASE Body \/ OnTarget
  <2>1. /\ UNCHANGED <<attempt, log, talk>>
        /\ phase' # "between" => phase # "between"
        /\ phase' = "retry" => phase = "retry"
    BY <1>7, BodyFrame
  <2> QED
    BY <2>1 DEF LogTells
<1> QED
  BY <1>1, <1>2, <1>3, <1>4, <1>5, <1>6, <1>7, NextCases

\* Every step keeps what the linked files tell.
LEMMA EvidenceTellsNext == StageInv /\ LogTells /\ EvidenceTells /\ [Next]_vars => EvidenceTells'
<1> SUFFICES ASSUME StageInv, LogTells, EvidenceTells, [Next]_vars PROVE EvidenceTells'
  OBVIOUS
<1> DEFINE Told(f, t, used) ==
              /\ f.test = t
              /\ InOrder(f.content.entries)
              /\ f.content.truncated \/ Whole(f.content.entries, used)
           Replaced(t) == \E u \in (t + 1)..Trials : outcome[u] = "failed" /\ LogName(u) = LogName(t)
           NowReplaced(t) == \E u \in (t + 1)..Trials : outcome'[u] = "failed" /\ LogName(u) = LogName(t)
<1>1. CASE Concluding
  <2>1. PICK o \in {"passed", "failed", "skipped"}, line \in Lines :
           /\ trial \in 1..Trials
           /\ outcome' = [outcome EXCEPT ![trial] = o]
           /\ line.test = trial
           /\ line.evidence => /\ o = "failed" /\ line.attempts = attempt
                               /\ files' = [files EXCEPT ![LogName(trial)] = LogFile(trial, log)]
           /\ results' = IF HasResultsDir(rig') /\ disk = "ok" /\ phase # "panic"
                          THEN Append(results, line) ELSE results
           /\ \/ files' = files
              \/ /\ o = "failed"
                 /\ \E l : files' = [files EXCEPT ![LogName(trial)] = LogFile(trial, l)]
    BY <1>1, ConcludingStep
  <2>2. /\ outcome'[trial] = o
        /\ \A t \in 1..Trials : t # trial => outcome'[t] = outcome[t]
    BY <2>1 DEF StageInv, TypeOK
  <2>3. \A f \in DOMAIN files : f # LogName(trial) \/ o # "failed" => files'[f] = files[f]
    BY <2>1
  <2>4. \A t \in 1..Trials : LogName(t) \in DOMAIN files
    BY DEF StageInv, StoreOK
  <2>5. ASSUME NEW n \in DOMAIN results, results[n].evidence
        PROVE  \/ Told(files'[LogName(results[n].test)], results[n].test, results[n].attempts)
               \/ NowReplaced(results[n].test)
    <3> DEFINE t == results[n].test
    <3>1. t \in 1..Trials /\ t < trial
      BY LineFacts
    <3>2. CASE Replaced(t)
      <4>1. PICK u \in (t + 1)..Trials : outcome[u] = "failed" /\ LogName(u) = LogName(t)
        BY <3>2
      <4>2. u \in 1..Trials /\ u < trial
        <5>1. u \in 1..Trials
          BY <3>1
        <5>2. ~(u >= trial)
          BY <4>1, <5>1 DEF StageInv, TrialsInTurn
        <5> QED
          BY <2>1, <5>1, <5>2
      <4>3. outcome'[u] = "failed"
        BY <2>1, <2>2, <4>1, <4>2
      <4> QED
        BY <4>1, <4>3
    <3>3. CASE Told(files[LogName(t)], t, results[n].attempts)
      <4>1. CASE LogName(t) = LogName(trial) /\ o = "failed"
        <5>1. trial \in (t + 1)..Trials /\ outcome'[trial] = "failed"
          BY <2>1, <2>2, <3>1, <4>1
        <5> QED
          BY <4>1, <5>1
      <4>2. CASE ~(LogName(t) = LogName(trial) /\ o = "failed")
        <5>1. files'[LogName(t)] = files[LogName(t)]
          BY <2>3, <2>4, <3>1, <4>2
        <5> QED
          BY <3>3, <5>1
      <4> QED
        BY <4>1, <4>2
    <3> QED
      BY <2>5, <3>2, <3>3 DEF EvidenceTells
  <2>6. line.evidence => Told(files'[LogName(trial)], trial, line.attempts)
    <3> SUFFICES ASSUME line.evidence PROVE Told(files'[LogName(trial)], trial, line.attempts)
      OBVIOUS
    <3>1. files'[LogName(trial)] = LogFile(trial, log)
      BY <2>1, <2>4
    <3>2. /\ LogFile(trial, log).test = trial
          /\ LogFile(trial, log).content.entries = log.entries
          /\ LogFile(trial, log).content.truncated = (log.dropped > 0)
      BY DEF LogFile, Persisted
    <3>3. log.dropped \in Nat
      BY DEF StageInv, StoreOK, Logs
    <3>4. InOrder(log.entries) /\ (log.dropped > 0 \/ Whole(log.entries, attempt))
      BY <3>3 DEF LogTells
    <3>5. line.attempts = attempt
      BY <2>1
    <3> QED
      BY <3>1, <3>2, <3>4, <3>5
  <2>7. CASE results' = results
    BY <2>5, <2>7 DEF EvidenceTells
  <2>8. CASE results' = Append(results, line)
    <3>1. \A n \in DOMAIN results' :
             (n \in DOMAIN results /\ results'[n] = results[n]) \/ results'[n] = line
      BY <2>1, <2>8, ResultsStep
    <3>2. ASSUME NEW n \in DOMAIN results', results'[n].evidence
          PROVE  \/ Told(files'[LogName(results'[n].test)], results'[n].test, results'[n].attempts)
                 \/ NowReplaced(results'[n].test)
      <4>1. CASE results'[n] = line
        BY <2>1, <2>6, <3>2, <4>1
      <4>2. CASE n \in DOMAIN results /\ results'[n] = results[n]
        BY <2>5, <3>2, <4>2
      <4> QED
        BY <3>1, <4>1, <4>2
    <3> QED
      BY <3>2 DEF EvidenceTells
  <2> QED
    BY <2>1, <2>7, <2>8
<1>2. CASE UNCHANGED <<outcome, results, files>>
  BY <1>2 DEF EvidenceTells
<1>3. (Body \/ OnTarget) => UNCHANGED <<outcome, results, files>>
  BY BodyFrame DEF store
<1>4. Begin /\ phase' = "body" => UNCHANGED <<outcome, results, files>>
  BY DEF Begin, Conclude
<1>5. AttemptFailed \/ Retry \/ (\E k \in Attempts : Speak(k)) \/ DiskFills \/ UNCHANGED vars
         => UNCHANGED <<outcome, results, files>>
  BY DEF AttemptFailed, Retry, Speak, DiskFills, vars, store
<1> QED
  BY <1>1, <1>2, <1>3, <1>4, <1>5, NextCases

\* What is told of the log and of the files at the start.
LEMMA EvidenceInit == Init => LogTells /\ EvidenceTells
<1> SUFFICES ASSUME Init PROVE LogTells /\ EvidenceTells
  OBVIOUS
<1>1. DOMAIN results = {} /\ DOMAIN log.entries = {} /\ \A k \in 1..(attempt - 1) : FALSE
  BY EmptySeq, LenProperties DEF Init, NewEvidence
<1>2. (\A k \in Attempts : ~(talk[k] > 0)) /\ phase = "between"
  BY DEF Init, Silence
<1> QED
  BY <1>1, <1>2 DEF LogTells, InOrder, Whole, EvidenceTells

\* "the file never reads as complete when it is not": for any numbers of
\* attempts and lines, any cap on the log and any file names, the evidence that
\* a line of results links is its trial's, in order and whole, or says that it
\* is not, unless a later failure took the file's name.
THEOREM LinkedEvidenceTells == Spec => []EvidenceTells
  BY EvidenceInit, LogTellsNext, EvidenceTellsNext, StageInvariant, PTL DEF Spec

=============================================================================

------------------------------- MODULE Trial -------------------------------
(***************************************************************************)
(* The runner (banc-host/src/runner.rs) executing a suite of paired        *)
(* scenarios (banc-host/src/device.rs): trials one after the other, each   *)
(* with up to MaxAttempts attempts on a runtime of its own; in every       *)
(* attempt the scenario's body drives a DeviceTest, whose on-target half   *)
(* is a child process: a cargo that builds the firmware and then starts    *)
(* its runner, the process that holds the debug probe.                     *)
(***************************************************************************)
EXTENDS Evidence, FiniteSets

CONSTANTS
    Trials,       \* the number of trials
    MaxAttempts,  \* BancTest::attempts
    MaxChildren,  \* bound: children one attempt spawns
    MaxLines,     \* bound: lines of evidence one attempt records
    Names,        \* the trials' names
    Faults,       \* may the disk fill up
    Bodies        \* what scenario bodies do besides start, wait and return

ASSUME TrialsAssumption ==
    /\ Trials \in Nat /\ MaxAttempts \in Nat /\ MaxChildren \in Nat
    /\ MaxAttempts > 0
    /\ MaxLines \in Nat
    /\ DOMAIN Names = 1..Trials
    /\ Faults \in BOOLEAN
    /\ Bodies \subseteq {"cancel", "panic"}

VARIABLES
    override, \* is BANC_ARTIFACTS set; it does not change
    rig,      \* RigState, acquired by the first trial: "unset", "ready", "skip", "fail"
    trial,    \* the trial being run
    phase,    \* where it is
    attempt,  \* its attempt
    state,    \* DeviceTest.state: "idle", "running" or "done"
    child,    \* the status of each child, a cargo, of this attempt's runtime
    mine,     \* the child whose JoinHandle the DeviceTest, or its verdict, has; 0: none
    device,   \* what the DeviceTest knows of its device half: "ok" or "err"
    probe,    \* the child whose runner has the debug probe, Stray, or 0: nobody
    outcome,  \* the outcome libtest reports for each finished trial
    results,  \* results.jsonl, as a sequence of records
    log,      \* the trial's Evidence
    talk,     \* how many lines tasks of each attempt's runtime have yet to record
    files,    \* the evidence files, by sanitized name
    disk      \* "ok" or "full"

deviceVars == <<state, child, mine, device, probe>>
store == <<outcome, results, files, disk>>
vars == <<override, rig, trial, phase, attempt, deviceVars, store, log, talk>>

Children == 1..MaxChildren
NoChildren == [k \in Children |-> "none"]
Stray == MaxChildren + 1  \* a runner that outlived the cargo that started it

Attempts == 1..MaxAttempts
Silence == [k \in Attempts |-> 0]

\* An entry of the log: a line of an attempt, its failure, or the marker that
\* opens it.
Entry(what, k, n) == [what |-> what, attempt |-> k, line |-> n]

LogName(t) == Sanitize(Names[t])
LogFile(t, l) == [test |-> t, content |-> Persisted(l)]

(***************************************************************************)
(* The runner.                                                             *)
(***************************************************************************)
\* results_dir: BANC_ARTIFACTS, else the rig's directory.
HasResultsDir(r) == override \/ r = "ready"

\* A mutant: skipped and failed acquisitions are not recorded.
RecordsOnlyRuns(r, o, used, linked) ==
    /\ outcome' = [outcome EXCEPT ![trial] = o]
    /\ results' = IF r = "ready"
                   THEN Append(results, [test |-> trial, outcome |-> o, attempts |-> used, evidence |-> linked])
                   ELSE results
    /\ phase' = "between" /\ trial' = trial + 1 /\ attempt' = 1
    /\ log' = NewEvidence

\* The trial ends with outcome o, the rig being r; record_trial appends its
\* line, best effort.  The trial's Evidence is dropped.
Conclude(r, o, used, linked) ==
    /\ outcome' = [outcome EXCEPT ![trial] = o]
    /\ results' = IF HasResultsDir(r) /\ disk = "ok"
                   THEN Append(results, [test |-> trial, outcome |-> o, attempts |-> used, evidence |-> linked])
                   ELSE results
    /\ phase' = "between" /\ trial' = trial + 1 /\ attempt' = 1
    /\ log' = NewEvidence

\* The attempt's DeviceTest and its runtime are dropped.  kill_on_drop kills
\* the cargos, which nobody waits for; a runner that a cargo had started is not
\* killed with it, and keeps the probe if it has it.
KillChildren ==
    /\ state' = "idle" /\ child' = NoChildren /\ mine' = 0 /\ device' = "err"
    /\ probe' = IF probe \in Children THEN Stray ELSE probe

\* With the runtime its tasks end.
EndAttempt == KillChildren /\ talk' = Silence

\* get_or_init: the first trial acquires the rig for all of them.
Begin ==
    /\ phase = "between" /\ trial <= Trials
    /\ \E r \in IF rig = "unset" THEN {"ready", "skip", "fail"} ELSE {rig} :
          /\ rig' = r
          /\ \/ /\ r = "ready"
                /\ phase' = "body" /\ log' = NewEvidence
                /\ talk' = [Silence EXCEPT ![1] = MaxLines]
                /\ UNCHANGED <<trial, attempt, outcome, results>>
             \/ r = "skip" /\ Conclude(r, "skipped", 1, FALSE) /\ UNCHANGED talk
             \/ r = "fail" /\ Conclude(r, "failed", 1, FALSE) /\ UNCHANGED talk
    /\ UNCHANGED <<override, deviceVars, files, disk>>

\* The attempt returned Ok.
AttemptPasses ==
    /\ phase = "passed"
    /\ Conclude(rig, "passed", attempt, FALSE) /\ EndAttempt
    /\ UNCHANGED <<override, rig, files, disk>>

\* A mutant: one attempt too many.
OneAttemptMore ==
    /\ phase = "failed" /\ attempt <= MaxAttempts
    /\ log' = Record(log, Entry("failed", attempt, 0))
    /\ phase' = "retry"
    /\ UNCHANGED <<override, rig, trial, attempt, deviceVars, store, talk>>

\* It returned Err, and there are attempts left.  Its runtime is still there.
AttemptFailed ==
    /\ phase = "failed" /\ attempt < MaxAttempts
    /\ log' = Record(log, Entry("failed", attempt, 0))
    /\ phase' = "retry"
    /\ UNCHANGED <<override, rig, trial, attempt, deviceVars, store, talk>>

\* A mutant: attempts that are not counted, each with a log of its own.
AttemptsNotCounted ==
    /\ phase = "retry"
    /\ phase' = "body"
    /\ log' = NewEvidence
    /\ EndAttempt
    /\ UNCHANGED <<override, rig, trial, attempt, store>>

\* The old runtime is dropped, and the next attempt gets a fresh one.
Retry ==
    /\ phase = "retry"
    /\ attempt' = attempt + 1 /\ phase' = "body"
    /\ log' = Record(log, Entry("marker", attempt + 1, 0))
    /\ KillChildren
    /\ talk' = [Silence EXCEPT ![attempt + 1] = MaxLines]
    /\ UNCHANGED <<override, rig, trial, store>>

\* No attempts are left: the evidence, if any, is persisted and linked.  On a
\* full disk the old file stays, or is cut to nothing.
AttemptFails ==
    /\ phase = "failed" /\ attempt = MaxAttempts
    /\ LET some == log.entries # <<>>
       IN  /\ files' \in (IF ~some THEN {files}
                          ELSE IF disk = "ok" THEN {[files EXCEPT ![LogName(trial)] = LogFile(trial, log)]}
                          ELSE {files, [files EXCEPT ![LogName(trial)] = LogFile(trial, NewEvidence)]})
           /\ Conclude(rig, "failed", attempt, some /\ disk = "ok")
    /\ EndAttempt
    /\ UNCHANGED <<override, rig, disk>>

\* The attempt panics: libtest_mimic catches it outside the runner's closure,
\* so there is neither a retry, nor a line, nor a file.
Panics ==
    /\ phase = "panic"
    /\ outcome' = [outcome EXCEPT ![trial] = "failed"]
    /\ phase' = "between" /\ trial' = trial + 1 /\ attempt' = 1
    /\ log' = NewEvidence
    /\ EndAttempt
    /\ UNCHANGED <<override, rig, results, files, disk>>

\* A task of an attempt's runtime records a line of evidence, until the
\* runtime is dropped.
Speak(k) ==
    /\ talk[k] > 0
    /\ talk' = [talk EXCEPT ![k] = @ - 1]
    /\ log' = Record(log, Entry("line", k, MaxLines - talk[k] + 1))
    /\ UNCHANGED <<override, rig, trial, phase, attempt, deviceVars, store>>

DiskFills ==
    /\ Faults /\ disk = "ok"
    /\ disk' = "full"
    /\ UNCHANGED <<override, rig, trial, phase, attempt, deviceVars, outcome, results, files, log, talk>>

(***************************************************************************)
(* The body and its DeviceTest.                                            *)
(***************************************************************************)
\* start: the crate directory is missing, or a child is spawned.
Start ==
    /\ phase = "body" /\ state = "idle"
    /\ \/ /\ state' = "done" /\ device' = "err"
          /\ UNCHANGED <<child, mine>>
       \/ \E k \in Children :
             /\ \A j \in Children : child[j] = "none" <=> j >= k
             /\ child' = [child EXCEPT ![k] = "running"]
             /\ mine' = k /\ state' = "running" /\ UNCHANGED device
    /\ UNCHANGED <<override, rig, trial, phase, attempt, probe, store, log, talk>>

\* start: "panics if started twice"
StartTwice ==
    /\ phase = "body" /\ state # "idle" /\ "panic" \in Bodies
    /\ phase' = "panic"
    /\ UNCHANGED <<override, rig, trial, attempt, deviceVars, store, log, talk>>

\* verdict called from phase `from`; its await continues in phase `to`.
\* mem::replace leaves Idle behind until the child has been awaited.
Consult(from, to) ==
    /\ phase = from /\ state = "running"
    /\ state' = "idle"
    /\ phase' = to
    /\ UNCHANGED <<override, rig, trial, attempt, child, mine, device, probe, store, log, talk>>

ConsultMidBody == Consult("body", "midAwait")
ConsultAtEnd   == Consult("trailing", "endAwait")

Awaited == child[mine] \in {"ok", "err"}

\* The child is done: its result is cached.
MidVerdict ==
    /\ phase = "midAwait" /\ Awaited
    /\ state' = "done" /\ device' = child[mine]
    /\ phase' = "body"
    /\ UNCHANGED <<override, rig, trial, attempt, child, mine, probe, store, log, talk>>

EndVerdict ==
    /\ phase = "endAwait" /\ Awaited
    /\ state' = "done" /\ device' = child[mine]
    /\ phase' = "trailing"
    /\ UNCHANGED <<override, rig, trial, attempt, child, mine, probe, store, log, talk>>

\* The body gives up on a verdict it waited for (a select or a timeout): the
\* JoinHandle is dropped, which does not stop the child.
VerdictCancelled ==
    /\ "cancel" \in Bodies /\ phase = "midAwait"
    /\ phase' = "body" /\ mine' = 0
    /\ UNCHANGED <<override, rig, trial, attempt, state, child, device, probe, store, log, talk>>

\* The body returns Ok: paired_suite! goes on to the trailing verdict.
BodyOk ==
    /\ phase = "body"
    /\ phase' = "trailing"
    /\ UNCHANGED <<override, rig, trial, attempt, deviceVars, store, log, talk>>

\* The body returns Err: failure_context asks for the verdict only of a device
\* that has finished, so it does not wait.
FailureContext ==
    IF state = "running" /\ Awaited
    THEN state' = "done" /\ device' = child[mine]
    ELSE UNCHANGED <<state, device>>

BodyErr ==
    /\ phase = "body"
    /\ FailureContext
    /\ phase' = "failed"
    /\ UNCHANGED <<override, rig, trial, attempt, child, mine, probe, store, log, talk>>

BodyPanics ==
    /\ phase = "body" /\ "panic" \in Bodies
    /\ phase' = "panic"
    /\ UNCHANGED <<override, rig, trial, attempt, deviceVars, store, log, talk>>

\* A mutant: a device test that was never started is no reason to fail.
IdleIsFine == state \in {"idle", "done"} /\ (state = "done" => device = "ok")

\* verdict returns Ok at once: cached, and good.
VerdictIsOk == state = "done" /\ device = "ok"

\* The trailing verdict returns what is cached; "Never started => failure".
Trailing ==
    /\ phase = "trailing" /\ state # "running"
    /\ phase' = IF VerdictIsOk THEN "passed" ELSE "failed"
    /\ UNCHANGED <<override, rig, trial, attempt, deviceVars, store, log, talk>>

(***************************************************************************)
(* The on-target half: cargo, the runner it starts, and the probe.         *)
(***************************************************************************)
rest == <<override, rig, trial, phase, attempt, state, mine, device, store, log, talk>>

\* The build is done and cargo's runner opens the probe.  One that finds it
\* busy fails, and its cargo with it.
RunnerStarts(k) ==
    /\ child[k] = "running" /\ probe = 0
    /\ probe' = k
    /\ UNCHANGED <<child, rest>>

\* A build or a test fails; or the test passes, for which it had the probe.
ChildExits(k) ==
    /\ child[k] = "running"
    /\ \E s \in {"ok", "err"} : /\ s = "ok" => probe = k
                               /\ child' = [child EXCEPT ![k] = s]
    /\ probe' = IF probe = k THEN 0 ELSE probe
    /\ UNCHANGED rest

StrayExits ==
    /\ probe = Stray
    /\ probe' = 0
    /\ UNCHANGED <<child, rest>>

OnTarget == StrayExits \/ \E k \in Children : RunnerStarts(k) \/ ChildExits(k)

Finished == phase = "between" /\ trial > Trials

Done == Finished /\ UNCHANGED vars

Init ==
    /\ override \in BOOLEAN
    /\ rig = "unset" /\ trial = 1 /\ phase = "between" /\ attempt = 1
    /\ state = "idle" /\ child = NoChildren /\ mine = 0 /\ device = "err"
    /\ probe = 0
    /\ outcome = [t \in 1..Trials |-> "none"]
    /\ results = <<>> /\ log = NewEvidence /\ talk = Silence
    /\ files = [f \in {LogName(t) : t \in 1..Trials} |-> LogFile(0, NewEvidence)]
    /\ disk = "ok"

Body ==
    \/ Start \/ StartTwice \/ ConsultMidBody \/ MidVerdict \/ VerdictCancelled
    \/ BodyOk \/ BodyErr \/ BodyPanics \/ ConsultAtEnd \/ EndVerdict \/ Trailing

Runner == Begin \/ AttemptPasses \/ AttemptFailed \/ Retry \/ AttemptFails \/ Panics

Next ==
    \/ Runner \/ Body \/ OnTarget \/ (\E k \in Attempts : Speak(k))
    \/ DiskFills \/ Done

Spec == Init /\ [][Next]_vars

\* The runner and the scenario run, and on-target tests come to an end.
FairSpec == Spec /\ WF_vars(Runner) /\ WF_vars(Body) /\ \A k \in Children : WF_vars(ChildExits(k))

-----------------------------------------------------------------------------
\* Every variable has its type, an awaited child is one that was spawned, and
\* the probe's holder, unless it is a stray, belongs to a running one.
TypeOK ==
    /\ override \in BOOLEAN
    /\ rig \in {"unset", "ready", "skip", "fail"}
    /\ trial \in 1..(Trials + 1)
    /\ phase \in {"between", "body", "midAwait", "trailing", "endAwait", "passed", "failed", "retry", "panic"}
    /\ attempt \in 1..MaxAttempts
    /\ state \in {"idle", "running", "done"}
    /\ child \in [Children -> {"none", "running", "ok", "err"}]
    /\ mine \in Children \union {0}
    /\ device \in {"ok", "err"}
    /\ outcome \in [1..Trials -> {"none", "passed", "failed", "skipped"}]
    /\ results \in Seq([test : 1..Trials, outcome : {"passed", "failed", "skipped"},
                         attempts : Attempts, evidence : BOOLEAN])
    /\ log.dropped \in Nat /\ Len(log.entries) <= MaxEntries
    /\ talk \in [Attempts -> 0..MaxLines]
    /\ disk \in {"ok", "full"}
    /\ (state = "running" \/ phase \in {"midAwait", "endAwait"}) => mine # 0 /\ child[mine] # "none"
    /\ probe \in Children \union {0, Stray} /\ (probe \in Children => child[probe] = "running")

\* "no scenario can pass without its device half agreeing": whatever the body
\* does with the verdict, an attempt passes only if a child of that same
\* attempt reported success.
PassNeedsDevice == phase = "passed" => \E k \in Children : child[k] = "ok"

\* "a host-side scenario that fails early takes the build/flash child down with
\* its trial runtime instead of leaving the probe busy for the next scenario":
\* until an attempt starts a child of its own the probe is free.
NoBusyProbe == phase = "body" /\ child = NoChildren => probe = 0

\* "one line per executed trial": as long as the disk has room a trial that
\* passes, is skipped, or fails for want of a rig has exactly one, retries or
\* not, and any other failure has at most one (a panic leaves none); without a
\* directory there is none.  Every line says what libtest reports, and only a
\* failure links evidence.
LinePerTrial ==
    /\ \A t \in 1..Trials : disk = "ok" /\ outcome[t] # "none" /\ (outcome[t] = "failed" => rig = "fail") =>
          ((\E n \in DOMAIN results : results[n].test = t) <=> HasResultsDir(rig))
    /\ results # <<>> => HasResultsDir(rig)
    /\ \A n, p \in DOMAIN results : n < p => results[n].test < results[p].test
    /\ \A n \in DOMAIN results :
          /\ results[n].outcome = outcome[results[n].test]
          /\ results[n].evidence => results[n].outcome = "failed"

\* The entries of attempt k stand between its marker and the next one.
InOrder(entries) ==
    \A i, j \in DOMAIN entries : i < j =>
        IF entries[j].what = "marker"
        THEN entries[i].attempt < entries[j].attempt
        ELSE entries[i].attempt <= entries[j].attempt

\* Nothing is missing of a log of `used` attempts, up to its last line.
Whole(entries, used) ==
    /\ \A k \in 1..(used - 1) : \E i, j \in DOMAIN entries :
          i < j /\ entries[i] = Entry("failed", k, 0) /\ entries[j] = Entry("marker", k + 1, 0)
    /\ \A j \in DOMAIN entries : entries[j].what = "line" /\ entries[j].line > 1 =>
          \E i \in 1..(j - 1) : entries[i] = Entry("line", entries[j].attempt, entries[j].line - 1)

\* "the file never reads as complete when it is not" and "evidence accumulates
\* across attempts with a boundary marker": the log a line of results links is
\* that trial's, with every line on its attempt's side of the markers, and
\* whole unless it says otherwise.  Only a later failure of a test whose name
\* becomes the same file name can have replaced it.
EvidenceTells ==
    \A n \in DOMAIN results : results[n].evidence =>
        LET t == results[n].test
            f == files[LogName(t)]
        IN  \/ /\ f.test = t
               /\ InOrder(f.content.entries)
               /\ f.content.truncated \/ Whole(f.content.entries, results[n].attempts)
            \/ \E u \in (t + 1)..Trials : outcome[u] = "failed" /\ LogName(u) = LogName(t)

\* verdict is "Idempotent: awaits the child on first call, cached afterwards":
\* a DeviceTest that was started is never taken for one that was not.
StartedIsRemembered ==
    phase \in {"body", "trailing"} /\ state = "idle" => \A k \in Children : child[k] = "none"

\* The suite comes to its end.
SuiteEnds == <>Finished
=============================================================================

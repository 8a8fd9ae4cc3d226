# BANC in TLA+

BANC runs hardware tests on a bench: a test process on the host, an assistant
board it talks to over USB, a target board it reaches through a debug probe,
and a daemon that shares one bench between machines. This directory models the
parts of BANC in which processes, threads, tasks, timeouts and failures
interleave, checks them with TLC on small instances, and proves their safety
properties with TLAPS for every value of the constants; the one exception, and
the liveness properties, are listed at the end of section 5.

Paths below are relative to `src/` at the root of the repository.

## 1. The system

| Component | Source | State | Operations |
|---|---|---|---|
| Rig lease, server | `banc-host/src/net/lease.rs` 315-415 | one slot: the held lease (id, holder, expiry, ttl) or none | Acquire, Renew, Release, Status; expiry is lazy, at the start of each request |
| Rig lease, client | `lease.rs` 150-302 | the renew thread: stream, lease id, stop channel | acquire with patience, renewal every ttl/3, reacquire after Gone or a failed roundtrip, release or detach on drop |
| Rig flock | `banc-host/src/rig.rs` 196-295 | the lock file: its flock, and the holder's note in it | take (try, wait, sign), drop (erase, unlock), `flock_status` |
| Rig | `rig.rs` 50-195 | which of the two it holds | acquire, dispatching on local or remote; drop |
| Assistant firmware | `banc-assistant/src/main.rs` | the table of pins, one stop signal per pin, a pool of monitor tasks | gpio config, set, get; monitor enable and disable; reset |
| Local debug probe | `banc-probe/src/local.rs`, `lib.rs` | worker thread, command channel, the capture being polled, its health | open, flash, reset, start_rtt, drop of any of them |
| Remote debug probe | `banc-probe/src/remote.rs` | an RPC session | the same commands, remotely |
| Test runner | `banc-host/src/runner.rs` | the rig, acquired once per process; trial and attempt | run the attempts of a trial on fresh runtimes, record the outcome |
| Paired device tests | `banc-host/src/device.rs` | Idle, Running(child) or Done(verdict) | start, verdict, failure_context; the child, cargo, is killed when the attempt is dropped, what it started is not |
| Results, evidence | `banc-host/src/results.rs`, `evidence.rs` | a file of lines; a capped log and the file it is written to | append; record, persist |
| Expect helpers | `banc-host/src/expect.rs` | a deadline, an event source | expect_matching, expect_quiet |
| Framing and handshake | `banc-host/src/net/mod.rs` | a stream | length-prefixed frames; Hello with version, role and token; HelloOk or Denied |
| Node connections | `banc-host/src/node.rs` | a client and its node's identity | connect over USB or TCP, identify, reset |
| Rig configuration | `banc-host/src/config.rs` | none | locate, load, validate, lookups |
| Command line | `banc/src/bin/banc.rs` | none | doctor, rig status, probe |
| Wire types, instruments | `banc-icd`, `banc-instrument` | none | declarations, traits |

How they interact. `runner` acquires a `Rig` once and runs scenarios on it; a
`Rig` holds either the flock of a local bench or the lease of a remote one
(both promise the same thing, `RigMutex`). A scenario's host half drives the
assistant over postcard-rpc and awaits its device half, a child process that
flashes and runs the target through the probe. Three kinds of concurrency meet:
operating-system processes (runners, `banc rig status`, the daemon), threads
and futures inside one process (the renew thread, the probe worker, futures
that a `select!` or a timeout drops halfway), and tasks of a cooperative
executor on the assistant, which interleave only at awaits that really wait.

What is hard, and what correctness means in each part:

* **Lease.** Requests and replies of several clients, expiry, crashes, broken
  or stalled streams and daemon restarts in any order. Correct means: an id is
  the capability of one client; nothing but expiry (or a restart) takes a lease
  from a Rig in use; a renewing client keeps its lease as long as its delays
  fit in the slack of ttl/3; acquire and drop return; what nobody renews lapses.
* **Flock.** The lock belongs to an inode and the note is looked up by path;
  processes are killed and writes fail between the steps. Correct means: one
  user per file, and a note that names the holder or someone who is gone.
* **Pin monitors.** A disable handled while the enable's reply is being sent, a
  host that leaves, a pool at its limit. Correct means: a pin is in the table or
  with one monitor; a stop is neither stale nor lost, and after it a monitor
  takes up no further edge; the pool suffices.
* **Probe worker.** Commands queued behind a capture, futures dropped while the
  command is queued, the handle dropped. Correct means: silence of a healthy
  capture can be trusted, the thread ends, calls return.
* **Runner and device tests.** A state that is taken out before an await and put
  back after it, panics, retries over a probe that is still in use. Correct
  means: no pass without the device half of the same attempt, and at most one
  line of results per trial. A free probe at every attempt would be part of it,
  but is not what the code ensures (`Trial_probe`, section 4).
* **Evidence and results.** A log at its cap, tasks of a failed attempt that are
  still logging, a disk that fills up, names that collide as file names.
  Correct means: a line agrees with what libtest reports, and a file it links
  is that trial's, in order, and says when something is missing.
* **Expect helpers over a capture.** The capture may end, or a matching line
  arrive, while a deadline passes. Correct means: silence passes only while the
  channel is watched, and the text a device sends is the text a test reads,
  however it is cut into reads.
* **Connecting.** Wrong or reused tokens, other benches, strangers, streams that
  break inside a header or a body. Correct means: a node that a test gets is the
  one the config means, both ends of a handshake agree on it and lose no frame,
  a suite skips where `banc doctor` finds no rig, and where it ends in any other
  way for a reason that doctor looks into, doctor has failed. What doctor does
  not look into (a node's handshake and identity, USB devices, names, waits, and
  a few more) is listed by `BeyondDoctor`.

`PROJECT.json` lists these hazards line by line with the properties aimed at
each, and the ones no property covers yet.

## 2. Modules

| Module | What it is |
|---|---|
| `RigMutex` | abstract: each arbitrated thing has one user at a time |
| `Lease`, `MCLease`, `LeaseProofs`, `LeaseRegimeProofs` | `net/lease.rs`, client and server together; proofs for all faults, and for the regime the timing constants are chosen for |
| `RigLock`, `MCRigLock`, `RigLockProofs` | the flock and its note in `rig.rs` |
| `PinMonitor`, `MCPinMonitor`, `PinMonitorProofs` | the assistant's pins |
| `ProbeWorker`, `ProbeWorkerProofs` | the local probe: handle, worker thread, captures |
| `RttLines`, `Expect` | operators: how bytes become lines; the two expect helpers |
| `Observe`, `MCProbeWorker`, `ObserveProofs` | composition of the three: a test that watches a capture |
| `Evidence` | operators: the capped log and its file |
| `Trial`, `MCTrial`, `TrialProofs` | runner, paired device tests, evidence and results |
| `RigConfig` | operators: the configuration, and what doctor and rig status make of it |
| `Wire` | operators: frames on a stream that may be cut anywhere |
| `Connect`, `MCConnect`, `ConnectProofs` | composition of the two: a test process on its way to a node |

`MC*` modules only give TLC what a `.cfg` cannot (symmetry, worlds and names);
every constant is set in the `.cfg`. No module has a RECURSIVE operator: what
iterates is a fold or a set. Definitions commented "A mutant" are deliberate mistakes:
each property has one that breaks it, listed in `PROJECT.json`. They are not
part of any specification.

### Lease

Time is counted in ticks and every deadline is a countdown: `held.left` is what
remains of the lease, `clk[c]` of the client's current wait, `deadline[c]` of
its patience in acquire or of the join in drop. `Tick` lowers all of them and
lets no client that has something to do (`Due`) wait more than `MaxPause` ticks
in a row.

`pc[c]` is the place of client c in `LeaseClient::acquire`, `renew_loop` or
`reacquire`; `rig[c]` is what the owning process does with its Rig (`none`,
`acquiring`, `live`, `dropping` in the join, `detached` after it timed out). A
stream is two queues: requests towards the server, replies back; a reply does
not say which request it answers, as in the code. `conn[c]` is the stream of
the renew loop and `fresh[c]` that of an acquire or a reconnect, so that a
reconnect that fails really goes back to the old stream, late replies included
(line 277). A stream its client drops may leave its requests in `orphan`, to
arrive at any later time or never.

The server is `HeldAfter` and `ReplyTo` applied to `Expire(held)`, one request
per step, as `LeaseServer::handle` runs under its mutex. `mint_lease_id` draws
64 random bits: the model draws an id nobody has (`MintChoices`). That two
draws never collide is the one probabilistic assumption.

What can go wrong is chosen by the constant `Faults`: crashes, stalled streams
(time passes while requests are in flight), broken streams, refused connects,
daemon restarts.

### RigLock

An inode has an `owner` (the flock) and a `note`; `path` is the inode the lock
path names. `Open`, `TryLock`, `TryRefused`, `Truncate`, `WriteNote`, `GiveUp`
are the system calls of `RigLock::take` in their order, `Erase` and `Unlock`
those of its Drop, `Probe*` those of `flock_status`, each a step of its own
because another process can act between any two of them. `Kill` strikes
anywhere (processes in `Mortals`); the kernel then releases the flock and the
note stays. Reads and writes of the note may fail for processes in `Unlucky`.
`DeleteLockFile` is the user who removes the file: the next `Open` makes a new
inode.

### PinMonitor

One step is one activation of a task: what it does from one await that really
waits to the next. The handler of a PinMonitor request is `Spawn`ed from the
pool, then runs `OutOfRange`, `Disable`, `EnableBusy` or `Enable`; an enabled
monitor awaits its reply (`AckSent`, `AckFails`), then loops over `Edge`,
`Published` and `StopSeen`. `asked` is a history variable: was a disable handled
since the pin was last taken.

### ProbeWorker

`queue` is the mpsc channel; a command carries the sender of its reply, of use
only while its future is wanted. `Cancel` drops the waiting future and leaves
the command queued. The worker is a loop over `recv` and `poll`.

### Observe

`Observe` adds to every step of `ProbeWorker` what it does to the bytes and
lines of one capture, `Watched`. `Reads(chunk)` is `PollReads` with the bytes it
reads: `RttLines!Read` cuts `pending` and the chunk into lines, flushes an
oversized partial one, and the sink puts them into the channel `lines`, of
which only whether they match is kept. `SourceOpen` says where the sender is:
in the command while it is queued, then in the RttState; with it goes the
channel. A capture that ends drops its partial line.

A helper (`helper`, `elapsed`) is polled at any time: `Expect!Poll` receives
until a match, the end of the source, an empty channel, or the executor's
budget (`Budget`: tokio makes a task yield after so many receives, and its
timeout then looks at the deadline all the same), and `Verdict` is what the
helper returns. The test may use its probe meanwhile, as with `join!` or
`select!`. `SilenceIsWatched` is about both verdicts that are drawn from
silence. `LinesAreTheText` states `Faithful` at the start of every capture: for
every sequence of up to three reads the lines and the rest together are the
text, and when all lines fit they are exactly the text's own lines, which
`Split` finds in the whole of it.

### Trial

One process: `Begin` acquires the rig once, then every attempt has a fresh
`DeviceTest` and fresh children. The body is nondeterministic: it may start,
start late or twice, consult the verdict midway, have that future dropped,
return Ok or Err, or panic.

A child is a cargo, which builds, then starts a runner that opens the probe
(`RunnerStarts`), and ends with it, well or badly (`ChildExits`): well only if
its own runner had the probe. `probe` says which child's runner that is. When
an attempt ends `KillChildren` drops its cargos, as `kill_on_drop` does; a runner
that is on the probe is not killed with its cargo and stays there as a `Stray`,
until it ends by itself (`StrayExits`) or for ever.

A failed attempt first records its failure (`AttemptFailed`), then its runtime
is dropped and the next marker recorded (`Retry`); between the two, and at any
time before, the tasks of the attempt's runtime may `Speak`. `log` is an
`Evidence`; a last failure persists it to `files`, by sanitized name, and
`Conclude` appends to `results`, if there is a directory for it (`override`:
`BANC_ARTIFACTS` is set). `DiskFills` makes both fail: results are best
effort, and a failed persist leaves the old file or an empty one and no link.

### Connect

`world` is what a process finds on the machine and the network: where the
config is and what it says, token files, who listens where, USB devices, the
lock file. It does not change during a run. `at` is the place in
`Rig::acquire`, `Rig::assistant` and `Node::connect`, `outcome` why it came to
an end. The lease's part in the middle is `Lease`'s subject: `LeaseAnswered`
takes it as answered, timed out or broken.

`c2s` and `s2c` are the two directions of the stream as sequences of cells, a
frame being the `HeaderSize` cells of a header and the `BodySize` cells of its
body. `Wire!Complete` and `RestOf` are `read_frame`: the whole length is waited
for, a length out of bounds fails at once, a body is waited for, and exactly one
frame is taken. `Break` cuts both directions anywhere. The server
is `handshake_server` (`ServeHello`) with the token, version and rig that
`world` gives it, or a stranger that sends what does not parse. After the
handshake a node may publish before it answers, so frames follow the handshake
closely.

`Doctor` and `RigStatus` are the exit codes of the two commands in that same
world; `DoctorForesees` compares them with the process's outcome, whatever it
is: either doctor has said so, or the outcome is one of `BeyondDoctor`.

## 3. Runs

| Run | Question | States |
|---|---|---|
| `Lease_prompt` | with a prompt network, crashes, refused connects and pauses within the slack: `Exclusive`, `LiveRigHoldsLease`, and the refinement of `RigMutex` | 23 900 |
| `Lease_late` | one client: requests and pauses that outlast timeouts and leases, with crashes, breaks, refusals and restarts: `GoneMeansGone`, `DisplacedOnlyByExpiry`, `DropReturns` | 189 000 |
| `Lease_live` | two runners, with crashes, refused connects and Acquires that stall: `CapabilityUnique`, `NoLateRelease`, `DisplacedOnlyByExpiry`, `AcquireReturns`, `LeaseFreesItself` | 38 800 |
| `Lease_break` | violation: one broken connection breaks `Exclusive` | |
| `RigLock` | `NoteIsHolderOrGone`, `HolderIsNamed`, every file refines `RigMutex` | 73 800 |
| `PinMonitor` | `PinInOnePlace`, `StopSignalIsExact`, `HeadroomSuffices`, `QuietAfterDisable`, `DisableFreesPin` | 68 700 |
| `ProbeWorker` | a test watching a capture (`Observe`): `LinesAreTheText`, `SilenceIsWatched`, `SilencedByCommandOnly`, `DroppedCaptureStops`, `WorkerEnds`, `CallsReturn` | 212 000 |
| `ProbeWorker_flash` | violation: `SilenceIsHonest` | |
| `Trial` | `PassNeedsDevice`, `LinePerTrial`, `EvidenceTells`, `SuiteEnds` | 494 700 |
| `Trial_cancel` | violation: `StartedIsRemembered` | |
| `Trial_probe` | violation: `NoBusyProbe` | |
| `Connect` | from 2 235 worlds: `NodeIsConfigured`, `HandshakeAgrees`, `DoctorForesees` | 27 700 |

The passing runs of `RigLock`, `PinMonitor`, `ProbeWorker`, `Trial` and `Connect`
and `Lease_live` also have their module's `TypeOK`. What the safety properties of
`Lease` say of two clients under broken streams and restarts, whose combinations
have millions of states, is proved and not run.

Bounds, and why they are enough.

* Two clients and one orphan slot in the lease: a lease is a relation between
  one holder and one contender, and the hazards (a late Release, a ghost of
  one's own lease, an id reused) each need two parties and one stray request.
  `MaxIds` is larger than the number of ids that can be in use at once, so
  minting never runs dry. TTL is 3 where only order matters (period 1) and 6 in
  `Lease_prompt`, where the slack matters: two clients pausing up to 3 ticks,
  with one tick for each wait. 3 is the largest pause that run tolerates;
  the code's numbers are ttl 60 s, period 20 s, timeouts of 5 s.
  `Lease_late` has one client, so that its renewals and releases can stall too
  (`MaxPipe` 1: one request of a stream may wait for ever, a second one makes the
  server move); its own earlier lives are the others it can harm.
  What the safety invariants claim of other sizes is proved (section 5).
* Three runners, one probe and three inodes for the flock: a holder, a
  contender and one that is refused, with two deletions.
* One pin and so three tasks for the monitors: two enables and a disable
  contend; more pins only multiply it, and the proofs cover any number.
* Two captures and two queued commands for the probe: one capture that is
  replaced and one that replaces it. Reads of at most two bytes, of a byte that
  matches, a newline and a space; `MaxLine` 2, so that a third byte makes a line
  oversized, alone or together with the end of another; two lines in the channel
  (`MaxChan`), and a `Budget` of two receives, so that it is spent exactly when
  the channel is full. What a poll of a helper discards can only be seen by
  another poll, so a poll is one step.
* Two trials of two attempts with up to two children, whose names become the same
  file name. Two lines of each attempt (`MaxLines`) and `MaxEntries` 3: a first
  attempt fills the log, and a second one drops its marker. `LinePerTrial` and
  the order of lines need no third trial, since a trial only meets what the one
  before left behind.
* One node or device is asked for per process, in worlds that vary one or two
  things at a time: each config entry against each daemon and token; each kind of
  lease; each USB entry against each set of four devices; the state of the
  machine. `HeaderSize` 2 and `BodySize` 2 make a stream break before, inside and
  after a header and a body (the code's header has 4 bytes: that a cut after its
  first, second or third byte makes no difference is proved, for every
  `HeaderSize`); a length of `MaxFrame` + 1 is out of bounds. Two published frames
  (`MaxPublished`) come before, between and after the answer.

Deadlock is checked except in `ProbeWorker*`, where a test that has closed its
target and used its captures stops, and in `Connect`, where a process ends or
waits for a peer that says nothing (`connect_node` has no timeout). `Trial` has
an explicit `Done` step.

### Fairness

* `Lease`: strong fairness of `Tick` (time passes: a run in which clients
  connect for ever without a tick is no execution), weak fairness of each
  client's own steps and of `Detach` (threads are scheduled, their I/O has
  timeouts), and of the service of a stream only once more than `MaxPipe`
  requests wait on it. The server need never answer an Acquire for
  `AcquireReturns` (`Lease_live`) to hold, nor a single Renew or Release for
  `DropReturns` (`Lease_late`).
* `PinMonitor`: weak fairness of each task. The executor polls every task that
  is ready, and a USB write ends or fails. Nothing is assumed of hosts.
* `ProbeWorker`: weak fairness of the worker's steps (`FairObserveSpec`), whose
  waits end with a command, a closed channel or 10 ms. Nothing is assumed of the
  test: while `MaxChan` lines are in the channel the device completes no more,
  but the worker goes on polling.
* `Trial`: the runner and the body go on, and a child comes to its end. Tasks
  need not speak, and a stray runner need never let go of the probe.
* `Connect` claims no liveness, for the reason just given.
* `RigLock` claims no liveness: flock waits by polling, so a runner can lose to
  others for ever, and `take` gives up after its timeout.

## 4. What the code does otherwise than it says

Four runs show a disagreement between the code and its documentation.

* `Lease_break`: after one broken connection `reacquire` sends an Acquire that
  the server refuses with Busy, because the client's own lease has not lapsed.
  The client keeps the broken stream, cannot renew, retries once per period
  until the lease has lapsed, and may then find it with somebody else. Two Rigs
  are live in the meantime, without partition or pause (`lease.rs` 5-8,
  227-234 and 272).
* `ProbeWorker_flash`: a flash drops the running capture without recording
  anything, so `error()` keeps saying that it is healthy (`local.rs` 162,
  `lib.rs` 118-119).
* `Trial_cancel`: a `verdict` future that is dropped while it waits leaves
  `Idle` behind with the child still running (`device.rs` 130-134).
* `Trial_probe`: a scenario that fails early is said to take "the build/flash
  child down with its trial runtime instead of leaving the probe busy for the next
  scenario" (`device.rs` 7-9). `kill_on_drop` (104) sends SIGKILL to cargo only
  and nobody waits for it; the runner it has started may keep the probe while the
  next attempt begins, whose own device half then finds it busy.

Seen while modelling, with no run of their own:

* after a timed-out roundtrip and a failed reconnect the loop goes on with the
  old stream, on which the late reply is still to come, so every later answer is
  one request behind (`lease.rs` 277, against the comment at 31);
* the timeouts of one failed renewal and reconnect can add up to more than
  `JOIN_TIMEOUT` (`lease.rs` 37-38 and 211), so a drop can detach a thread that
  is doing well;
* `flock_status`, which reports "without contending" for the lock (`rig.rs`
  201-202), takes it for an instant if it is free (220): a `take` that tries just
  then is refused, and with its deadline passed it fails for a rig that nobody
  uses;
* a `take` waits for the inode it has opened, but quotes the note by path
  (`rig.rs` 271): when the file is deleted and made anew meanwhile, its error
  names the holder of the new file, whose end would not release the lock that is
  waited for (276-277);
* evidence is persisted only when the last attempt fails: that of a test which
  fails, is retried and passes is discarded with the marker and the failure in
  it (`runner.rs` 160-164), although attempts exist so that flakes show
  (`runner.rs` 51-54);
* the tasks of a failed attempt are torn down before the retry (`runner.rs`
  131-132), but a probe's reader is a thread: it may record one more poll's lines
  behind the next marker;
* two tests whose names sanitize to the same file name share one evidence file,
  and an earlier line of results then links to the later test's (`evidence.rs`
  97 and 124; `EvidenceTells` allows exactly that);
* more matching events queued than the executor's budget lets one poll receive
  (128 receives in tokio) and `expect_quiet` may pass with a match unread, if it is
  not polled until its window is over (`expect.rs` 73-85); `SilenceIsWatched`
  states the exception;
* `tcp_reach` accepts `scheme://host:port` where `connect_node` needs a bare
  address, so such an assistant passes doctor and fails its suite (`banc.rs`
  334-340, `net/mod.rs` 137); a lock file that cannot be created is also unseen,
  since doctor takes a missing one for free. Of a network node doctor reads the
  token and opens a connection, and that is all: a wrong token, rig, protocol
  version or unique id is found by the suite only, as is a USB device that is
  missing. `BeyondDoctor` lists these, with the ends no check could foresee (a
  wait that times out, a stream that breaks, a name that is not in the config);
* "on failure the peer got `Denied`" (`net/mod.rs` 186-187) holds for a wrong
  version or token; a Hello that cannot be read gets no answer (194);
* the rig's name is compared for nodes only: a lease taken from another rig's
  daemon with the same token is not noticed (`net/mod.rs` 228, `node.rs` 38-46);
* a panic in a body leaves no line of results (`runner.rs` 142, `results.rs`
  6-8); `LinePerTrial` says what does hold.

## 5. Proofs

`tlapm` proves every theorem to the last leaf, with no bound on processes,
clients, pins, inodes or times. Assumptions are the named ASSUMEs of the
modules, which the runs evaluate.

**LeaseProofs.** The invariant the theorems rest on is

    LeaseInv == Types /\ (\A c : Core(c)) /\ CapabilityUnique /\ OrphanReleases

`CapabilityUnique` is not inductive alone: whether a step can give an id away
depends on what is in flight. `Core(c)` says for each client where it can be
(`Ctl`), that the stream of an acquire carries nothing, the request or one
answer (`FreshMail`), and that the stream of the renew loop only carries
requests about the id the client has, a Release only while it is releasing
(`ConnMail`). `OrphanReleases` says that a Release on a dropped stream names an
id that nobody has, or that only a releasing client still has. The proof has
one case per action; `CapsStep` collects what a step can do to the ids (they
shrink, or one client gets one unused id) and `OrphanStep` where stray requests
come from. From it follow `TypeCorrect`, `IdsAreCapabilities`,
`LateReleasesHarmless`, and `NoEarlyDisplacement`: a request that finds time
left on a lease changes its id only if it is a Release with that id, which no
pending Release has while the Rig is in use. `GoneIsTrue` needs one more
invariant, `GoneInv`: a Gone in the client's stream means that its id is not the
server's, which no later step undoes because a grant mints an unused id. They hold under every set of
faults and all timings.

**RigLockProofs.** `LockInv` adds to the types which places have the file open,
that who is in the critical part owns the flock, and that an owner is somewhere
in it. From it `NoteIsTrue`, `HolderNamed`; `Serialized`: while nobody deletes
the lock file, a rig has at most one holder (`~Deletes` is assumed there and
nowhere else); and `FilesAreMutexes`: every step of `RigLock` is, for each
inode, a step of `RigMutex` or a stutter.

**PinMonitorProofs.** `PinInv`, the conjunction of `TypeOK`, `PinInOnePlace` and
`StopSignalIsExact`, is inductive. `DisabledMonitorsAreQuiet` follows from the
order in which a monitor looks at its futures: it takes an edge only when its
stop signal is not set, and by `StopSignalIsExact` the signal is set as soon as
a disable has been handled. `PoolSizing` is proved by counting: tasks that own a
pin inject into the pins, so a pool of NUM_PINS + Headroom with none free has at
least Headroom tasks in a short request.

**LeaseRegimeProofs.** `Exclusive` is not true of every timing (`Lease_break` is
the proof of that), so its theorems assume the regime

    Prompt == Faults \subseteq {"crash", "refuse"} /\ IoTimeout > 0 /\ Period + MaxPause < TTL

which `Lease_prompt` instantiates, and the code's 60 s, 20 s and 5 s satisfy for
pauses below 40 s. Neither property is inductive, because neither says how much
of a lease is left. `RegimeInv`, over `LeaseInv`, does, at each point of the
renew loop: while a client waits for its next renewal,
`held.left + Period + late >= TTL + clk` (`Waits`); while its Renew is in flight
no tick passes (`Asks`); once it is answered, `held.left + late >= TTL`
(`Told`); and the same of a grant that a client has not read yet (`Promised`).
A tick takes one from the left side, and one from `clk` or adds one to `late`.
That no other step takes anything away is `OwnedKept`: a lease with time left
whose id somebody has, or will read, survives every request, by
`CapabilityUnique` and `OrphanReleases`. From `RegimeInv`, `LeaseIsHeld` and
`RenewalsSucceed` (a Rig in use is never told Gone and never reacquires); with
`CapabilityUnique`, `OneHolder`; and `LeaseIsMutex`, the refinement of `RigMutex`
step by step: a grant is read only while nobody uses the rig, a drop or a death
frees it, and every other step is a stutter.

**ProbeWorkerProofs.** `WorkerInv` adds to the types how the channel, the future
that is awaited and the handles agree: a command whose future is wanted is the
last in the channel (`OneWanted`), a start in the channel is the only one of its
capture and the capture is `starting` or, its future dropped, `cancelled`
(`StartsPending`), and what the thread reads was started (`ReadWasStarted`).
Without these the answer to a command could belong to somebody else's capture.
From it `TypeCorrect` and `OnlyCommandsSilence`.

**ObserveProofs.** `ObserveImplementsProbe`: a step of the composition is a step
of `ProbeWorker` or a stutter, so that what is proved of the probe holds while
it is observed. `WatchInv` adds that `pending` is a partial line
(`PartialLines`: no newline, at most MAX_LINE bytes), which rests on the lemmas
about `Split` and `Read`, and that a helper waits only on a capture that was
handed over (`HelperHasCapture`). From it `PendingIsBounded`, and
`SilentVerdictIsWatched`, the property `SilenceIsWatched`: an open source means
that the capture is read, because a start that is still in the channel excludes
a handle that is live or dropped.

**TrialProofs.** `StageInv` says what each phase of a trial goes with (a verdict
is Ok only if some child was, the state is taken out only during an await) and
that trials come one after the other, and gives `TypeCorrect`, `PassIsPaired`
and `ResultsTellOutcomes`. `LogTells` is what the evidence needs: entries are in
the order of the attempts, only the current attempt's tasks still speak, and
while nothing was dropped the log has every marker, failure and line so far.
`RecordStep` says what one `record` does to such a log, at its cap or below it.
From both, `LinkedEvidenceTells`.

**ConnectProofs.** A stream `Carries` n messages when its cells are those of
their frames, perhaps without the end of the last, which may be cut in its
header; the stream lemmas say what sending, cutting and `read_frame` do to that,
for any sizes of header and body. `Carries` speaks of positions, cell j of frame
k, so that no induction over frames is needed; what is found first (an entry by
its name, and in `ObserveProofs` a match in the channel) is the least element of
a set of numbers (`WFMin`). `ConnectInv` combines where the process is
(`Places`), that what it uses is what its config says (`Configured`), what
client and server know of each other (`Met`), what each direction of the stream
carries (`ToServer`, `ToClient`, in which `Counted` numbers the published
frames) and that frames are received in sequence. From it `TypeCorrect`,
`NodesAreConfigured`, `HandshakesAgree` and `DoctorIsRight`, for all worlds,
frame sizes and breaks. `DoctorIsRight` splits on every way to come to an end:
it is in `BeyondDoctor`, or the world has what `AllIsWell` excludes.
`WorldsAssumption` types the worlds (what a machine and its network may look
like), `PublishedAssumption` and `FrameAssumption` the bounds.

**Only model-checked.** All liveness: `AcquireReturns`, `DropReturns`,
`LeaseFreesItself`, `DisableFreesPin`, `DroppedCaptureStops`, `WorkerEnds`,
`CallsReturn`, `SuiteEnds` (fairness and ENABLED are beyond the prover). And
`LinesAreTheText`, which speaks of what folds over sequences compute
(`FoldLeft`, `FlattenSeq`, `SelectSeq`) for every text: that is induction over data,
which the prover cannot do with operators as parameters. What is proved of that
code is one read: `SplitParts` and the lemmas behind `PendingIsBounded`.

## 6. Not modelled

The encoding of messages (a frame's body decodes to what was encoded, or does
not decode), the TOML parser, the conversion of invalid UTF-8 in RTT lines, and
all wording. The remote probe and `banc probe`, which run an external binary's
commands in sequence and keep no state. Code without state: wire types,
instrument traits, firmware set-up and its constant answers. A hub's `accept`
loop, which a rig daemon writes for itself from the pieces in `net/`. Threads
outside an attempt's runtime as producers of evidence, and results appended by
several processes (each line is one `O_APPEND` write). The children that device
tests spawn, the file system, the kernel's flock, TCP and the postcard-rpc server
are modelled from how the code uses them and marked external.

## 7. Plan

Done, in this order: `RigMutex`, `Lease` and `RigLock` (exclusive use of the
bench is what everything else relies on, and each is shown to implement the same
abstract mutex), `PinMonitor`, `ProbeWorker` and `Trial`, and the proofs above;
then `Evidence` with the results and retries of `Trial`, `RttLines`, `Expect` and
their composition `Observe`, and `RigConfig`, `Wire` and their composition
`Connect`. Then the proofs of section 5, one module after the other:
`LeaseProofs`, `RigLockProofs`, `PinMonitorProofs`, `ProbeWorkerProofs`,
`ObserveProofs`, `TrialProofs`, `ConnectProofs` and `LeaseRegimeProofs`. Every
safety invariant that a run checks, both refinements of `RigMutex`, and every
action property but `LinesAreTheText` are theorems. What is left
concerns `RttLines`: that the lines and the rest of a single read are, in order, the
visible bytes of what was pending and what was read, by positions instead of
folds.

----------------------------- MODULE PinMonitor -----------------------------
(***************************************************************************)
(* The pins of the reference assistant (banc-assistant/src/main.rs): the   *)
(* GPIO endpoints and the pin monitors, which are tasks of a cooperative   *)
(* executor.  A task runs without interruption from one await that really  *)
(* waits to the next; the pin table's lock is never held over such an      *)
(* await, so taking it does not wait.  Replies and published edges do wait *)
(* (for the USB link), and fail when the host is gone.                     *)
(***************************************************************************)
EXTENDS Integers, FiniteSets

CONSTANTS
    Pins,      \* the pins of the table, 0..NUM_PINS-1
    BadPin,    \* a pin number out of range
    Headroom,  \* pool_size - NUM_PINS: 2
    NoPin,
    Modes,     \* the PinModes hosts ask for
    Levels     \* the levels they set

ASSUME PinsAssumption ==
    IsFiniteSet(Pins) /\ BadPin \notin Pins /\ NoPin \notin Pins \union {BadPin}
ASSUME HeadroomAssumption == Headroom \in Nat

\* A mutant: one task per pin and none to spare.
PoolWithoutHeadroom == 1..Cardinality(Pins)

\* pin_monitor_handler's pool of task slots
Tasks == 1..(Cardinality(Pins) + Headroom)

VARIABLES
    slot,    \* is the pin in the PinSlots table
    mode,    \* how the pin is configured
    latch,   \* its output level
    stop,    \* MONITOR_STOP: is the pin's stop signal set
    st,      \* where each task of the pool is
    arg,     \* the pin it was asked for
    link,    \* is the host there
    reset,   \* where reset_handler is
    asked    \* history: was a stop asked for since the pin was last taken

vars == <<slot, mode, latch, stop, st, arg, link, reset, asked>>
taskVars == <<st, arg>>

\* The states in which a task owns its pin, and those of a short request.
OwnerStates == {"ack", "watch", "publish"}
BriefStates == {"enable", "disable", "reply"}

Owns(t, p) == st[t] \in OwnerStates /\ arg[t] = p
Idle(t) == st[t] = "free"
Finish(t) == st' = [st EXCEPT ![t] = "free"] /\ arg' = [arg EXCEPT ![t] = NoPin]
Goto(t, s) == st' = [st EXCEPT ![t] = s] /\ UNCHANGED arg

(***************************************************************************)
(* Requests.  The dispatcher runs the GPIO handlers itself and spawns a    *)
(* task for a PinMonitor request; when the pool has none left, or the pin  *)
(* is not in the table, it answers with an error and nothing changes.      *)
(***************************************************************************)
\* gpio_config_handler: Busy, and no effect, while a monitor owns the pin.
GpioConfig(p, m) ==
    /\ link /\ slot[p]
    /\ mode' = [mode EXCEPT ![p] = m]
    /\ UNCHANGED <<slot, latch, stop, st, arg, link, reset, asked>>

GpioSet(p, l) ==
    /\ link /\ slot[p]
    /\ latch' = [latch EXCEPT ![p] = l]
    /\ UNCHANGED <<slot, mode, stop, st, arg, link, reset, asked>>

Spawn(t, p, enable) ==
    /\ link /\ Idle(t) /\ \A u \in Tasks : u < t => ~Idle(u)
    /\ st' = [st EXCEPT ![t] = IF enable THEN "enable" ELSE "disable"]
    /\ arg' = [arg EXCEPT ![t] = p]
    /\ UNCHANGED <<slot, mode, latch, stop, link, reset, asked>>

(***************************************************************************)
(* pin_monitor_handler                                                     *)
(***************************************************************************)
\* A mutant: a pin out of range is monitored like any other.
OutOfRangeTaken(t) ==
    /\ st[t] \in {"enable", "disable"} /\ arg[t] = BadPin
    /\ Goto(t, "ack")
    /\ UNCHANGED <<slot, mode, latch, stop, link, reset, asked>>

\* pin_index is None: reply Unsupported.
OutOfRange(t) ==
    /\ st[t] \in {"enable", "disable"} /\ arg[t] = BadPin
    /\ Goto(t, "reply")
    /\ UNCHANGED <<slot, mode, latch, stop, link, reset, asked>>

\* A mutant: only a monitor that waits for its next edge is signalled.
DisableWhileWatching(t) ==
    /\ st[t] = "disable" /\ arg[t] \in Pins
    /\ stop' = [stop EXCEPT ![arg[t]] = @ \/ \E u \in Tasks : st[u] = "watch" /\ arg[u] = arg[t]]
    /\ asked' = [asked EXCEPT ![arg[t]] = TRUE]
    /\ Goto(t, "reply")
    /\ UNCHANGED <<slot, mode, latch, link, reset>>

\* Signal the monitor, if there is one, and reply Ok without waiting for it.
Disable(t) ==
    /\ st[t] = "disable" /\ arg[t] \in Pins
    /\ stop' = [stop EXCEPT ![arg[t]] = TRUE]
    /\ asked' = [asked EXCEPT ![arg[t]] = TRUE]
    /\ Goto(t, "reply")
    /\ UNCHANGED <<slot, mode, latch, link, reset>>

\* The slot is empty: reply Busy.
EnableBusy(t) ==
    /\ st[t] = "enable" /\ arg[t] \in Pins /\ ~slot[arg[t]]
    /\ Goto(t, "reply")
    /\ UNCHANGED <<slot, mode, latch, stop, link, reset, asked>>

\* Take the pin and clear a stale stop signal, before the reply is awaited.
Enable(t) ==
    /\ st[t] = "enable" /\ arg[t] \in Pins /\ slot[arg[t]]
    /\ slot' = [slot EXCEPT ![arg[t]] = FALSE]
    /\ stop' = [stop EXCEPT ![arg[t]] = FALSE]
    /\ asked' = [asked EXCEPT ![arg[t]] = FALSE]
    /\ Goto(t, "ack")
    /\ UNCHANGED <<mode, latch, link, reset>>

\* A short request has been answered, or the host is gone.
Replied(t) ==
    /\ st[t] = "reply"
    /\ Finish(t)
    /\ UNCHANGED <<slot, mode, latch, stop, link, reset, asked>>

\* A mutant: the stop signal is cleared only when monitoring starts.
AckThenReset(t) ==
    /\ st[t] = "ack" /\ link
    /\ stop' = [stop EXCEPT ![arg[t]] = FALSE]
    /\ Goto(t, "watch")
    /\ UNCHANGED <<slot, mode, latch, link, reset, asked>>

AckSent(t) ==
    /\ st[t] = "ack" /\ link
    /\ Goto(t, "watch")
    /\ UNCHANGED <<slot, mode, latch, stop, link, reset, asked>>

\* A mutant: the pin is dropped with the task.
AckFailsLosingPin(t) ==
    /\ st[t] = "ack" /\ ~link
    /\ Finish(t)
    /\ UNCHANGED <<slot, mode, latch, stop, link, reset, asked>>

AckFails(t) ==
    /\ st[t] = "ack" /\ ~link
    /\ slot' = [slot EXCEPT ![arg[t]] = TRUE]
    /\ Finish(t)
    /\ UNCHANGED <<mode, latch, stop, link, reset, asked>>

\* A mutant: the edge is polled before the stop signal.
EdgeFirst(t) ==
    /\ st[t] = "watch"
    /\ Goto(t, "publish")
    /\ UNCHANGED <<slot, mode, latch, stop, link, reset, asked>>

\* select polls the stop signal first.
Edge(t) ==
    /\ st[t] = "watch" /\ ~stop[arg[t]]
    /\ Goto(t, "publish")
    /\ UNCHANGED <<slot, mode, latch, stop, link, reset, asked>>

\* The outcome of publish is ignored.
Published(t) ==
    /\ st[t] = "publish"
    /\ Goto(t, "watch")
    /\ UNCHANGED <<slot, mode, latch, stop, link, reset, asked>>

\* wait() consumes the signal; the pin goes back to the table.
StopSeen(t) ==
    /\ st[t] = "watch" /\ stop[arg[t]]
    /\ stop' = [stop EXCEPT ![arg[t]] = FALSE]
    /\ slot' = [slot EXCEPT ![arg[t]] = TRUE]
    /\ Finish(t)
    /\ UNCHANGED <<mode, latch, link, reset, asked>>

(***************************************************************************)
(* reset_handler (a pool of one), the host and start-up.                   *)
(***************************************************************************)
ResetAsked ==
    /\ link /\ reset = "none"
    /\ reset' = "reply"
    /\ UNCHANGED <<slot, mode, latch, stop, st, arg, link, asked>>

ResetReplied ==
    /\ reset = "reply"
    /\ reset' = "timer"
    /\ UNCHANGED <<slot, mode, latch, stop, st, arg, link, asked>>

PowerOn ==
    [slot |-> [p \in Pins |-> TRUE], mode |-> [p \in Pins |-> "floating"],
     latch |-> [p \in Pins |-> "low"], stop |-> [p \in Pins |-> FALSE],
     st |-> [t \in Tasks |-> "free"], arg |-> [t \in Tasks |-> NoPin]]

\* sys_reset: the firmware starts over, and the host must enumerate again.
SysReset ==
    /\ reset = "timer"
    /\ slot' = PowerOn.slot /\ mode' = PowerOn.mode /\ latch' = PowerOn.latch
    /\ stop' = PowerOn.stop /\ st' = PowerOn.st /\ arg' = PowerOn.arg
    /\ reset' = "none" /\ link' = FALSE
    /\ asked' = [p \in Pins |-> FALSE]

\* Monitors outlive the host's session.
HostLeaves ==
    /\ link /\ link' = FALSE
    /\ UNCHANGED <<slot, mode, latch, stop, st, arg, reset, asked>>

HostConnects ==
    /\ ~link /\ link' = TRUE
    /\ UNCHANGED <<slot, mode, latch, stop, st, arg, reset, asked>>

Init ==
    /\ slot = PowerOn.slot /\ mode = PowerOn.mode /\ latch = PowerOn.latch
    /\ stop = PowerOn.stop /\ st = PowerOn.st /\ arg = PowerOn.arg
    /\ reset = "none" /\ link = FALSE
    /\ asked = [p \in Pins |-> FALSE]

Request ==
    \/ \E p \in Pins : \/ \E m \in Modes : GpioConfig(p, m)
                       \/ \E l \in Levels : GpioSet(p, l)
    \/ \E t \in Tasks, p \in Pins \union {BadPin}, e \in BOOLEAN : Spawn(t, p, e)
    \/ ResetAsked

\* One activation of a task by the executor.
Run(t) ==
    \/ OutOfRange(t) \/ Disable(t) \/ EnableBusy(t) \/ Enable(t) \/ Replied(t)
    \/ AckSent(t) \/ AckFails(t) \/ Edge(t) \/ Published(t) \/ StopSeen(t)

Next ==
    \/ Request
    \/ \E t \in Tasks : Run(t)
    \/ ResetReplied \/ SysReset
    \/ HostLeaves \/ HostConnects

Spec == Init /\ [][Next]_vars

\* The executor polls every task that can run, and a reply or a published
\* edge is sent or fails: the USB link does not block a task for ever.
FairSpec == Spec /\ \A t \in Tasks : WF_vars(Run(t))

-----------------------------------------------------------------------------
\* Every variable has its type, and a task that owns a pin owns a real one.
TypeOK ==
    /\ slot \in [Pins -> BOOLEAN]
    /\ mode \in [Pins -> Modes \union {"floating"}]
    /\ latch \in [Pins -> Levels \union {"low"}]
    /\ stop \in [Pins -> BOOLEAN]
    /\ st \in [Tasks -> {"free"} \union OwnerStates \union BriefStates]
    /\ arg \in [Tasks -> Pins \union {BadPin, NoPin}]
    /\ link \in BOOLEAN
    /\ reset \in {"none", "reply", "timer"}
    /\ asked \in [Pins -> BOOLEAN]
    /\ \A t \in Tasks : st[t] \in OwnerStates => arg[t] \in Pins

\* PinSlots: "`None` means the pin is currently owned by a monitor task".  A
\* pin is never lost, never in two places, and never owned by two monitors,
\* through every reply that fails and every host that leaves.
PinInOnePlace ==
    \A p \in Pins :
        /\ slot[p] <=> \A t \in Tasks : ~Owns(t, p)
        /\ \A t, u \in Tasks : Owns(t, p) /\ Owns(u, p) => t = u

\* A monitor's stop signal is set exactly when a disable came in after its
\* enable took the pin: an older disable does not end it, and no disable is
\* lost, not even one handled while the enable's reply is still being sent.
StopSignalIsExact ==
    \A p \in Pins : ~slot[p] => (stop[p] <=> asked[p])

\* "Pool sizing: up to NUM_PINS long-running monitors plus headroom for
\* short-lived disable/out-of-range requests": a PinMonitor request is refused
\* for want of a task only when Headroom others are waiting for their reply.
HeadroomSuffices ==
    (\A t \in Tasks : ~Idle(t)) =>
        Cardinality({t \in Tasks : st[t] \in BriefStates}) >= Headroom

\* "false: stop": once a disable has been handled, which its reply does not wait
\* for, the pin's monitor takes up no further edge, in this session of the host
\* or a later one, however the disable fell in with its edges and its reply;
\* only the edge it was publishing is still delivered.
QuietAfterDisable ==
    [][\A t \in Tasks : st[t] = "watch" /\ st'[t] = "publish" => ~asked[arg[t]]]_vars

\* A monitor that was told to stop gives its pin back, however many edges it
\* sees and whether or not the host is still there.
DisableFreesPin == \A p \in Pins : (stop[p] /\ ~slot[p]) ~> slot[p]
=============================================================================

---------------------------- MODULE ProbeWorker ----------------------------
(***************************************************************************)
(* The local debug probe (banc-probe/src/local.rs): a LocalTarget handle   *)
(* that sends commands to a worker thread, which owns the probe session    *)
(* and polls at most one RTT capture between two commands.  Every future   *)
(* of the handle can be dropped while it waits (a test's timeout), and the *)
(* command it had sent is then carried out all the same.                   *)
(***************************************************************************)
EXTENDS Integers, Sequences

CONSTANTS
    Captures,   \* RttCapture handles a test asks for, one after the other
    NoCapture,
    MaxQueue,   \* bound: commands sent and not yet received
    Uses        \* what the test does besides one capture and resets

ASSUME UsesAssumption == Uses \subseteq {"flash", "again", "close", "cancel"}
ASSUME QueueAssumption == MaxQueue \in Nat /\ NoCapture \notin Captures

VARIABLES
    target,   \* the LocalTarget: "none", "opening", "open" or "closed"
    await,    \* is a future of the handle waiting for its reply
    queue,    \* the mpsc channel
    worker,   \* where the thread is: "off", "attach", "recv", "poll", "gone"
    rtt,      \* the capture it polls, or NoCapture
    handle,   \* the life of each capture's handle
    health    \* its CaptureHealth: "ok" or "fault"

vars == <<target, await, queue, worker, rtt, handle, health>>

\* A command carries the sender of its reply, which is of use only as long as
\* the future that waits for it is wanted.
Command(op, k) == [op |-> op, cap |-> k, wanted |-> TRUE]
Flash == Command("flash", NoCapture)
Reset == Command("reset", NoCapture)

\* A mutant: the command does not carry the capture's channels.
StartWithoutChannels(k) == Command("start", NoCapture)

StartRtt(k) == Command("start", k)

Commands ==
    [op : {"flash", "reset"}, cap : {NoCapture}, wanted : BOOLEAN]
        \union [op : {"start"}, cap : Captures, wanted : BOOLEAN]

(***************************************************************************)
(* The handle.                                                             *)
(***************************************************************************)
\* LocalTarget::open spawns the worker and waits for it.
Open ==
    /\ target = "none"
    /\ target' = "opening" /\ worker' = "attach"
    /\ UNCHANGED <<await, queue, rtt, handle, health>>

\* flash, reset and start_rtt send their command and wait; `&mut self` allows
\* one at a time.  If the worker is gone the send fails, and nothing changes.
Call(c) ==
    /\ target = "open" /\ ~await /\ worker # "gone"
    /\ Len(queue) < MaxQueue
    /\ queue' = Append(queue, c)
    /\ await' = TRUE
    /\ UNCHANGED <<target, worker, rtt, health>>

CallFlash == "flash" \in Uses /\ Call(Flash) /\ UNCHANGED handle

CallReset == Call(Reset) /\ UNCHANGED handle

CallStart(k) ==
    /\ handle[k] = "unused"
    /\ "again" \in Uses \/ \A j \in Captures : handle[j] \notin {"starting", "live"}
    /\ Call(StartRtt(k))
    /\ handle' = [handle EXCEPT ![k] = "starting"]

\* The future is dropped: nobody receives the reply any more, and a start
\* loses its stop channel's sender.
Cancel ==
    /\ "cancel" \in Uses /\ await
    /\ await' = FALSE
    /\ queue' = [n \in DOMAIN queue |-> [queue[n] EXCEPT !.wanted = FALSE]]
    /\ handle' = [k \in Captures |-> IF handle[k] = "starting" THEN "cancelled" ELSE handle[k]]
    /\ UNCHANGED <<target, worker, rtt, health>>

\* Drop for RttCapture
DropCapture(k) ==
    /\ handle[k] = "live"
    /\ handle' = [handle EXCEPT ![k] = "dropped"]
    /\ UNCHANGED <<target, await, queue, worker, rtt, health>>

\* The LocalTarget is dropped, or its open is cancelled.
Close ==
    /\ "close" \in Uses
    /\ target = "open" \/ (target = "opening" /\ "cancel" \in Uses)
    /\ ~await
    /\ target' = "closed"
    /\ UNCHANGED <<await, queue, worker, rtt, handle, health>>

(***************************************************************************)
(* The worker.                                                             *)
(***************************************************************************)
\* open_session
Attach ==
    /\ worker = "attach"
    /\ \/ /\ worker' = "recv"
          /\ target' = IF target = "opening" THEN "open" ELSE target
       \/ /\ worker' = "gone"
          /\ target' = IF target = "opening" THEN "closed" ELSE target
    /\ UNCHANGED <<await, queue, rtt, handle, health>>

\* A mutant: commands wait until the running capture is over.
ReceiveWhenIdle(op) ==
    /\ worker = "recv" /\ rtt = NoCapture /\ queue # <<>> /\ Head(queue).op = op
    /\ queue' = Tail(queue)
    /\ await' = (await /\ ~Head(queue).wanted)
    /\ worker' = "poll"
    /\ UNCHANGED <<target, health>>

\* The worker receives the oldest command, carries it out and replies.
Receive(op) ==
    /\ worker = "recv" /\ queue # <<>> /\ Head(queue).op = op
    /\ queue' = Tail(queue)
    /\ await' = (await /\ ~Head(queue).wanted)
    /\ worker' = "poll"
    /\ UNCHANGED <<target, health>>

\* What start_rtt returns, if it is still there to return.
StartReturns(result) ==
    handle' = [k \in Captures |->
        IF k = Head(queue).cap /\ Head(queue).wanted THEN result ELSE handle[k]]

\* Flashing ends any capture; its outcome only goes into the reply.
DoFlash == Receive("flash") /\ rtt' = NoCapture /\ UNCHANGED handle

DoReset == Receive("reset") /\ UNCHANGED <<rtt, handle>>

\* attach_rtt works: the capture replaces the one before it.
DoStart == Receive("start") /\ rtt' = Head(queue).cap /\ StartReturns("live")

\* attach_rtt fails: the one before it goes on.
DoStartFails == Receive("start") /\ StartReturns("failed") /\ UNCHANGED rtt

\* recv_timeout passes without a command; without a capture recv only blocks.
Timeout ==
    /\ worker = "recv" /\ queue = <<>> /\ target # "closed" /\ rtt # NoCapture
    /\ worker' = "poll"
    /\ UNCHANGED <<target, await, queue, rtt, handle, health>>

\* A mutant: with a capture running, a closed channel looks like a timeout.
DisconnectedOnlyWhenIdle ==
    /\ worker = "recv" /\ queue = <<>> /\ target = "closed" /\ rtt = NoCapture
    /\ worker' = "gone"
    /\ UNCHANGED <<target, await, queue, rtt, handle, health>>

\* The channel is empty and closed: the thread ends, and the capture with it.
Disconnected ==
    /\ worker = "recv" /\ queue = <<>> /\ target = "closed"
    /\ worker' = "gone" /\ rtt' = NoCapture
    /\ UNCHANGED <<target, await, queue, handle, health>>

\* A mutant: only an explicit stop counts, not a sender that is gone.
StoppedExplicitly(k) == handle[k] = "dropped"

\* stop.try_recv() is not Empty: a stop was sent, or the sender is gone.
StopReceived(k) == handle[k] \in {"dropped", "cancelled"}

PollIdle ==
    /\ worker = "poll" /\ rtt = NoCapture
    /\ worker' = "recv"
    /\ UNCHANGED <<target, await, queue, rtt, handle, health>>

PollStopped ==
    /\ worker = "poll" /\ rtt # NoCapture /\ StopReceived(rtt)
    /\ rtt' = NoCapture /\ worker' = "recv"
    /\ UNCHANGED <<target, await, queue, handle, health>>

\* poll_rtt reads what there is.
PollReads ==
    /\ worker = "poll" /\ rtt # NoCapture /\ ~StopReceived(rtt)
    /\ worker' = "recv"
    /\ UNCHANGED <<target, await, queue, rtt, handle, health>>

\* A mutant: the fault is not recorded.
PollFaultsSilently ==
    /\ worker = "poll" /\ rtt # NoCapture /\ ~StopReceived(rtt)
    /\ rtt' = NoCapture /\ worker' = "recv"
    /\ UNCHANGED <<target, await, queue, handle, health>>

\* A read fault is recorded in the capture's health, and ends it.
PollFaults ==
    /\ worker = "poll" /\ rtt # NoCapture /\ ~StopReceived(rtt)
    /\ health' = [health EXCEPT ![rtt] = "fault"]
    /\ rtt' = NoCapture /\ worker' = "recv"
    /\ UNCHANGED <<target, await, queue, handle>>

Init ==
    /\ target = "none" /\ await = FALSE /\ queue = <<>>
    /\ worker = "off" /\ rtt = NoCapture
    /\ handle = [k \in Captures |-> "unused"]
    /\ health = [k \in Captures |-> "ok"]

WorkerStep ==
    \/ Attach \/ DoFlash \/ DoReset \/ DoStart \/ DoStartFails
    \/ Timeout \/ Disconnected
    \/ PollIdle \/ PollStopped \/ PollReads \/ PollFaults

Next ==
    \/ Open \/ CallFlash \/ CallReset \/ (\E k \in Captures : CallStart(k) \/ DropCapture(k))
    \/ Cancel \/ Close
    \/ WorkerStep

Spec == Init /\ [][Next]_vars

\* The worker thread is scheduled: its waits are bounded by recv_timeout.
FairSpec == Spec /\ WF_vars(WorkerStep)

-----------------------------------------------------------------------------
\* Every variable has its type.
TypeOK ==
    /\ target \in {"none", "opening", "open", "closed"}
    /\ await \in BOOLEAN
    /\ queue \in Seq(Commands)
    /\ worker \in {"off", "attach", "recv", "poll", "gone"}
    /\ rtt \in Captures \union {NoCapture}
    /\ handle \in [Captures -> {"unused", "starting", "live", "dropped", "cancelled", "failed"}]
    /\ health \in [Captures -> {"ok", "fault"}]

\* RttCapture::error is "`None` while the capture is healthy or was stopped
\* normally by dropping the handle": silence can be trusted as long as it is.
SilenceIsHonest ==
    \A k \in Captures : handle[k] = "live" /\ health[k] = "ok" => rtt = k

\* "callers asserting on RTT output should check [`RttCapture::error`] before
\* trusting silence": a capture that its owner still has and that reports no
\* fault stops being read only when a command of the same test, a flash or
\* another start_rtt, replaces it, or the target is closed.
SilencedByCommandOnly ==
    [][\A k \in Captures :
          (rtt = k /\ rtt' # k /\ handle[k] \in {"starting", "live"} /\ health'[k] = "ok")
              => DoFlash \/ DoStart \/ Disconnected]_vars

\* Dropping a capture, or the future of a start_rtt that waits for it, stops
\* the reader, although nobody sends a command any more.
DroppedCaptureStops ==
    \A k \in Captures :
        handle[k] \in {"dropped", "cancelled"} ~> [](rtt # k)

\* Dropping the LocalTarget ends the worker thread, with commands still queued
\* or a capture still running.
WorkerEnds == target = "closed" ~> worker = "gone"

\* Every flash, reset and start_rtt returns.
CallsReturn == await ~> ~await
=============================================================================

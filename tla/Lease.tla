------------------------------- MODULE Lease -------------------------------
(***************************************************************************)
(* The rig lease of banc-host/src/net/lease.rs: a single-slot lease server *)
(* with lazy expiry, and test runners that acquire the lease, renew it     *)
(* from a background thread and release it when their Rig is dropped, over *)
(* TCP streams that can stall, break, or be refused.                       *)
(*                                                                         *)
(* Time is counted in ticks and every deadline is a countdown, so nothing  *)
(* grows without bound.  The network and the daemon are prompt (no tick    *)
(* passes while a request is in flight) unless Faults says otherwise; a    *)
(* client may be at most MaxPause ticks late between two requests.         *)
(***************************************************************************)
EXTENDS Integers, Sequences, FiniteSets, Functions

CONSTANTS
    Clients,         \* test runner processes
    NoClient,        \* the holder of no lease
    Slots,           \* abandoned streams whose requests may still arrive
    MaxIds,          \* size of the pool of lease ids (2^64 in the code)
    TTL,             \* DEFAULT_TTL
    ClampMin,        \* the server's bounds on a requested ttl
    ClampMax,
    IoTimeout,       \* IO_TIMEOUT
    ConnectTimeout,  \* CONNECT_TIMEOUT and the IO_TIMEOUT of the handshake
    Backoff,         \* the sleep between two Acquire attempts
    LockTimeout,     \* the caller's patience: BANC_LOCK_TIMEOUT_SECS
    JoinTimeout,     \* JOIN_TIMEOUT
    MaxPause,        \* bound: ticks a client may lose between two requests
    MaxPipe,         \* bound: requests left unanswered on a stalled stream
    Faults           \* what may go wrong

FaultKinds == {"crash", "stall", "break", "refuse", "restart"}

ASSUME FaultsAssumption == Faults \subseteq FaultKinds
ASSUME TimesAssumption ==
    /\ TTL \in Nat /\ TTL >= 3
    /\ ClampMin \in Nat /\ ClampMax \in Nat
    /\ 0 < ClampMin /\ ClampMin <= TTL /\ TTL <= ClampMax
    /\ IoTimeout \in Nat /\ ConnectTimeout \in Nat /\ Backoff \in Nat
    /\ LockTimeout \in Nat /\ JoinTimeout \in Nat
    /\ MaxPause \in Nat /\ MaxPipe \in Nat /\ MaxIds \in Nat
ASSUME IdsAssumption == MaxIds > 1 + 2 * Cardinality(Clients) + Cardinality(Slots)
ASSUME NoClientAssumption == NoClient \notin Clients

VARIABLES
    held,      \* LeaseServer.state: the lease, or NoLease
    pc,        \* where each client's acquire or renew_loop is
    rig,       \* what the process that owns the client is doing with its Rig
    id,        \* the lease id the client presents
    clk,       \* ticks left of the client's current wait
    late,      \* ticks the client has lost since its last request
    deadline,  \* ticks left before acquire gives up, or drop detaches
    conn,      \* the stream the renew loop uses
    fresh,     \* the stream of an acquire or reacquire in progress
    orphan     \* requests still in flight on streams their client dropped

vars == <<held, pc, rig, id, clk, late, deadline, conn, fresh, orphan>>

NoId == 0
Ids == 1..MaxIds

NoLease == [id |-> NoId, holder |-> NoClient, left |-> 0, ttl |-> 0]

(***************************************************************************)
(* Messages and streams.  A stream carries requests one way and replies    *)
(* the other, each in order; a reply does not say what it answers.         *)
(***************************************************************************)
Acquire(c) == [op |-> "Acquire", id |-> NoId, from |-> c]
Renew(c)   == [op |-> "Renew",   id |-> id[c], from |-> c]
Release(c) == [op |-> "Release", id |-> id[c], from |-> c]

Requests == [op : {"Acquire", "Renew", "Release"}, id : Ids \union {NoId}, from : Clients]
Replies  == [op : {"Granted", "Busy", "Ok", "Gone"}, id : Ids \union {NoId}]
Leases   == [id : Ids \union {NoId}, holder : Clients \union {NoClient},
             left : 0..ClampMax, ttl : 0..ClampMax]
Streams  == [up : BOOLEAN, toSrv : Seq(Requests), toCli : Seq(Replies)]

Closed == [up |-> FALSE, toSrv |-> <<>>, toCli |-> <<>>]
Opened == [up |-> TRUE,  toSrv |-> <<>>, toCli |-> <<>>]

\* write_frame_sync: a write on a broken stream goes nowhere.
Send(s, m) == IF s.up THEN [s EXCEPT !.toSrv = Append(@, m)] ELSE s

\* read_frame_sync
Receive(s) == [s EXCEPT !.toCli = Tail(@)]

\* The client drops a stream: what it had sent is lost, or arrives later.
Orphan(o, q) == {o} \union {[o EXCEPT ![s] = q] : s \in {t \in Slots : o[t] = <<>>}}

(***************************************************************************)
(* The server: LeaseServer::handle, as a function of the lease it finds.   *)
(***************************************************************************)
Clamp(t) == IF t < ClampMin THEN ClampMin ELSE IF t > ClampMax THEN ClampMax ELSE t

\* A mutant: leases never lapse.
NeverExpire(h) == h

\* A mutant: a lease lapses one tick early.
ExpireEarly(h) == IF h.left <= 1 THEN NoLease ELSE h

\* Lazy expiry at the start of every request.
Expire(h) == IF h.left = 0 THEN NoLease ELSE h

IdsIn(q) == {q[k].id : k \in DOMAIN q}

UsedIds == {held.id} \union {id[c] : c \in Clients}
    \union (UNION {IdsIn(conn[c].toSrv) : c \in Clients})
    \union (UNION {IdsIn(fresh[c].toCli) : c \in Clients})
    \union (UNION {IdsIn(orphan[s]) : s \in Slots})

\* A mutant: a counter that starts over with each lease.
MintsTheSameId == {1}

\* mint_lease_id draws 64 random bits: an id nobody else has.  Ids are only
\* compared for equality, so which unused one is drawn does not matter.
MintChoices == LET free == Ids \ UsedIds IN {i \in free : \A j \in free : i <= j}

\* Mutants: a renewal is added to what is left, or does not extend the lease.
RenewalAdds(h) == [h EXCEPT !.left = h.left + h.ttl]
RenewalDoesNothing(h) == h

Renewed(h) == [h EXCEPT !.left = h.ttl]

\* A mutant: whoever asks owns the lease.
AnyoneOwns(h, r) == h.id # NoId

Owns(h, r) == h.id # NoId /\ h.id = r.id

HeldAfter(h, r, i) ==
    CASE r.op = "Acquire" -> IF h = NoLease
                             THEN [id |-> i, holder |-> r.from,
                                   left |-> Clamp(TTL), ttl |-> Clamp(TTL)]
                             ELSE h
      [] r.op = "Renew"   -> IF Owns(h, r) THEN Renewed(h) ELSE h
      [] r.op = "Release" -> IF Owns(h, r) THEN NoLease ELSE h

ReplyTo(h, r, i) ==
    CASE r.op = "Acquire" -> IF h = NoLease THEN [op |-> "Granted", id |-> i]
                                            ELSE [op |-> "Busy", id |-> NoId]
      [] r.op = "Renew"   -> [op |-> IF Owns(h, r) THEN "Ok" ELSE "Gone", id |-> NoId]
      [] r.op = "Release" -> [op |-> "Ok", id |-> NoId]

\* serve_conn: the oldest request of a stream is handled and answered.
Served(s, h, i) == [s EXCEPT !.toSrv = Tail(@),
                             !.toCli = Append(@, ReplyTo(h, Head(s.toSrv), i))]

ServeConn(c) ==
    /\ conn[c].toSrv # <<>>
    /\ \E i \in MintChoices :
          /\ held' = HeldAfter(Expire(held), Head(conn[c].toSrv), i)
          /\ conn' = [conn EXCEPT ![c] = Served(conn[c], Expire(held), i)]
    /\ UNCHANGED <<pc, rig, id, clk, late, deadline, fresh, orphan>>

ServeFresh(c) ==
    /\ fresh[c].toSrv # <<>>
    /\ \E i \in MintChoices :
          /\ held' = HeldAfter(Expire(held), Head(fresh[c].toSrv), i)
          /\ fresh' = [fresh EXCEPT ![c] = Served(fresh[c], Expire(held), i)]
    /\ UNCHANGED <<pc, rig, id, clk, late, deadline, conn, orphan>>

\* A request that outlived its stream is handled all the same; the reply is lost.
ServeOrphan(s) ==
    /\ orphan[s] # <<>>
    /\ \E i \in MintChoices : held' = HeldAfter(Expire(held), Head(orphan[s]), i)
    /\ orphan' = [orphan EXCEPT ![s] = Tail(@)]
    /\ UNCHANGED <<pc, rig, id, clk, late, deadline, conn, fresh>>

\* query_status: a Status request changes the state only by lazy expiry.
Status ==
    /\ held # Expire(held)
    /\ held' = Expire(held)
    /\ UNCHANGED <<pc, rig, id, clk, late, deadline, conn, fresh, orphan>>

(***************************************************************************)
(* The client.                                                             *)
(***************************************************************************)
\* A mutant: half of the lease's life between two renewals.
HalfPeriod == TTL \div 2

Period == TTL \div 3

Goto(c, p, t) == pc' = [pc EXCEPT ![c] = p] /\ clk' = [clk EXCEPT ![c] = t]

\* The stream a roundtrip is waiting on, its answer, and the ways it fails.
Awaited(c)  == IF pc[c] = "acquire" THEN fresh[c] ELSE conn[c]
Waiting(c)  == pc[c] \in {"acquire", "renew", "release"}
Answered(c) == Awaited(c).toCli # <<>>
Answer(c)   == Head(Awaited(c).toCli)

\* A mutant: no read timeout on the stream.
NoIoTimeout(c) == ~Answered(c) /\ ~Awaited(c).up

IoFails(c) == ~Answered(c) /\ (~Awaited(c).up \/ clk[c] = 0)

\* A mutant: a timeout of the stop channel is taken for the stop.
TimeoutIsStop(c) == rig[c] \in {"live", "dropping", "detached"}

\* The Rig's LeaseClient was dropped, and with it the stop channel's sender.
StopRequested(c) == rig[c] \in {"dropping", "detached"}

\* LeaseClient::acquire, up to its first connect
Start(c) ==
    /\ rig[c] = "none" /\ pc[c] = "idle"
    /\ rig' = [rig EXCEPT ![c] = "acquiring"]
    /\ deadline' = [deadline EXCEPT ![c] = LockTimeout]
    /\ Goto(c, "connect", ConnectTimeout)
    /\ late' = [late EXCEPT ![c] = 0]
    /\ UNCHANGED <<held, id, conn, fresh, orphan>>

ConnectOk(c) ==
    /\ pc[c] = "connect"
    /\ fresh' = [fresh EXCEPT ![c] = Send(Opened, Acquire(c))]
    /\ Goto(c, "acquire", IoTimeout)
    /\ late' = [late EXCEPT ![c] = 0]
    /\ UNCHANGED <<held, rig, id, deadline, conn, orphan>>

\* The first acquire fails: the process has no Rig.
GiveUp(c) ==
    /\ rig[c] = "acquiring"
    /\ rig' = [rig EXCEPT ![c] = "none"]
    /\ deadline' = [deadline EXCEPT ![c] = 0]
    /\ Goto(c, "idle", 0)

\* A reacquire fails: the loop goes on with its old stream and its old id.
KeepOldLease(c) ==
    /\ rig[c] # "acquiring"
    /\ Goto(c, "hold", Period)
    /\ UNCHANGED <<rig, deadline>>

AttemptFails(c) ==
    /\ GiveUp(c) \/ KeepOldLease(c)
    /\ fresh' = [fresh EXCEPT ![c] = Closed]
    /\ orphan' \in Orphan(orphan, fresh[c].toSrv)
    /\ UNCHANGED <<held, id, late, conn>>

ConnectErr(c) ==
    /\ pc[c] = "connect"
    /\ clk[c] = 0 \/ "refuse" \in Faults
    /\ AttemptFails(c)

AcquireErr(c) ==
    /\ pc[c] = "acquire" /\ IoFails(c)
    /\ AttemptFails(c)

Granted(c) ==
    /\ pc[c] = "acquire" /\ Answered(c) /\ Answer(c).op = "Granted"
    /\ id' = [id EXCEPT ![c] = Answer(c).id]
    /\ conn' = [conn EXCEPT ![c] = Receive(fresh[c])]
    /\ fresh' = [fresh EXCEPT ![c] = Closed]
    /\ orphan' \in Orphan(orphan, conn[c].toSrv)
    /\ Goto(c, "hold", Period)
    /\ \/ /\ rig[c] = "acquiring"
          /\ rig' = [rig EXCEPT ![c] = "live"]
          /\ deadline' = [deadline EXCEPT ![c] = 0]
       \/ /\ rig[c] # "acquiring"
          /\ UNCHANGED <<rig, deadline>>
    /\ UNCHANGED <<held, late>>

\* A mutant: acquire never gives up.
PatienceForever(c) == TRUE

\* acquire looks at its deadline only when the answer is Busy.
PatienceLeft(c) == deadline[c] > 0

BusyRetry(c) ==
    /\ pc[c] = "acquire" /\ Answered(c) /\ Answer(c).op = "Busy"
    /\ rig[c] = "acquiring" /\ PatienceLeft(c)
    /\ fresh' = [fresh EXCEPT ![c] = Receive(@)]
    /\ Goto(c, "backoff", Backoff)
    /\ UNCHANGED <<held, rig, id, late, deadline, conn, orphan>>

BusyFail(c) ==
    /\ pc[c] = "acquire" /\ Answered(c) /\ Answer(c).op = "Busy"
    /\ ~(rig[c] = "acquiring" /\ PatienceLeft(c))
    /\ AttemptFails(c)

Retry(c) ==
    /\ pc[c] = "backoff" /\ clk[c] = 0
    /\ fresh' = [fresh EXCEPT ![c] = Send(@, Acquire(c))]
    /\ Goto(c, "acquire", IoTimeout)
    /\ late' = [late EXCEPT ![c] = 0]
    /\ UNCHANGED <<held, rig, id, deadline, conn, orphan>>

\* recv_timeout reports a stop that is there whenever it looks, before its
\* timeout; one that comes between that look and the write commutes with the write.
SendRenew(c) ==
    /\ pc[c] = "hold" /\ clk[c] = 0 /\ ~StopRequested(c)
    /\ conn' = [conn EXCEPT ![c] = Send(@, Renew(c))]
    /\ Goto(c, "renew", IoTimeout)
    /\ late' = [late EXCEPT ![c] = 0]
    /\ UNCHANGED <<held, rig, id, deadline, fresh, orphan>>

RenewOk(c) ==
    /\ pc[c] = "renew" /\ Answered(c) /\ Answer(c).op = "Ok"
    /\ conn' = [conn EXCEPT ![c] = Receive(@)]
    /\ Goto(c, "hold", Period)
    /\ UNCHANGED <<held, rig, id, late, deadline, fresh, orphan>>

RenewGone(c) ==
    /\ pc[c] = "renew" /\ Answered(c) /\ Answer(c).op = "Gone"
    /\ conn' = [conn EXCEPT ![c] = Receive(@)]
    /\ Goto(c, "connect", ConnectTimeout)
    /\ UNCHANGED <<held, rig, id, late, deadline, fresh, orphan>>

RenewErr(c) ==
    /\ pc[c] = "renew" /\ IoFails(c)
    /\ Goto(c, "connect", ConnectTimeout)
    /\ UNCHANGED <<held, rig, id, late, deadline, conn, fresh, orphan>>

SeeStop(c) ==
    /\ pc[c] = "hold" /\ StopRequested(c)
    /\ conn' = [conn EXCEPT ![c] = Send(@, Release(c))]
    /\ Goto(c, "release", IoTimeout)
    /\ late' = [late EXCEPT ![c] = 0]
    /\ UNCHANGED <<held, rig, id, deadline, fresh, orphan>>

\* The renew thread ends, and everything it owned with it.
ThreadEnds(c) ==
    /\ rig' = [rig EXCEPT ![c] = "none"]
    /\ id' = [id EXCEPT ![c] = NoId]
    /\ deadline' = [deadline EXCEPT ![c] = 0]
    /\ late' = [late EXCEPT ![c] = 0]
    /\ conn' = [conn EXCEPT ![c] = Closed]
    /\ fresh' = [fresh EXCEPT ![c] = Closed]
    /\ orphan' \in UNION {Orphan(o, fresh[c].toSrv) : o \in Orphan(orphan, conn[c].toSrv)}
    /\ Goto(c, "idle", 0)

\* The outcome of the Release roundtrip is ignored.
Released(c) ==
    /\ pc[c] = "release" /\ (Answered(c) \/ IoFails(c))
    /\ ThreadEnds(c)
    /\ UNCHANGED held

\* Drop for LeaseClient
Drop(c) ==
    /\ rig[c] = "live"
    /\ rig' = [rig EXCEPT ![c] = "dropping"]
    /\ deadline' = [deadline EXCEPT ![c] = JoinTimeout]
    /\ UNCHANGED <<held, pc, id, clk, late, conn, fresh, orphan>>

\* The join times out: the process goes on, or exits, without the thread.
Detach(c) ==
    /\ rig[c] = "dropping" /\ deadline[c] = 0
    /\ rig' = [rig EXCEPT ![c] = "detached"]
    /\ UNCHANGED <<held, pc, id, clk, late, deadline, conn, fresh, orphan>>

\* The process is killed, or exits leaving a detached thread behind.
Die(c) ==
    /\ pc[c] # "idle"
    /\ "crash" \in Faults \/ rig[c] = "detached"
    /\ ThreadEnds(c)
    /\ UNCHANGED held

(***************************************************************************)
(* The network, the daemon's life and time.                                *)
(***************************************************************************)
Broken(s) == [s EXCEPT !.up = FALSE, !.toSrv = <<>>, !.toCli = <<>>]

BreakConn(c) ==
    /\ "break" \in Faults /\ conn[c].up
    /\ conn' = [conn EXCEPT ![c] = Broken(@)]
    /\ orphan' \in Orphan(orphan, conn[c].toSrv)
    /\ UNCHANGED <<held, pc, rig, id, clk, late, deadline, fresh>>

BreakFresh(c) ==
    /\ "break" \in Faults /\ fresh[c].up
    /\ fresh' = [fresh EXCEPT ![c] = Broken(@)]
    /\ orphan' \in Orphan(orphan, fresh[c].toSrv)
    /\ UNCHANGED <<held, pc, rig, id, clk, late, deadline, conn>>

LoseOrphan(s) ==
    /\ orphan[s] # <<>>
    /\ orphan' = [orphan EXCEPT ![s] = <<>>]
    /\ UNCHANGED <<held, pc, rig, id, clk, late, deadline, conn, fresh>>

\* The daemon restarts: LeaseServer::new, and no stream survives.
Restart ==
    /\ "restart" \in Faults
    /\ held' = NoLease
    /\ conn' = [c \in Clients |-> Broken(conn[c])]
    /\ fresh' = [c \in Clients |-> Broken(fresh[c])]
    /\ orphan' = [s \in Slots |-> <<>>]
    /\ UNCHANGED <<pc, rig, id, clk, late, deadline>>

\* The client has something to do now.
Due(c) ==
    \/ Waiting(c) /\ (Answered(c) \/ IoFails(c))
    \/ pc[c] \in {"connect", "backoff", "hold"} /\ clk[c] = 0
    \/ pc[c] = "hold" /\ StopRequested(c)

Quiet ==
    /\ \A c \in Clients : pc[c] # "connect" /\ conn[c].toSrv = <<>> /\ fresh[c].toSrv = <<>>
    /\ \A s \in Slots : orphan[s] = <<>>

Less(n) == IF n = 0 THEN 0 ELSE n - 1

Tick ==
    /\ Quiet \/ ("stall" \in Faults /\ \A c \in Clients : Len(conn[c].toSrv) <= MaxPipe)
    /\ \A c \in Clients : Due(c) => late[c] < MaxPause
    /\ held' = [held EXCEPT !.left = Less(@)]
    /\ clk' = [c \in Clients |-> Less(clk[c])]
    /\ deadline' = [c \in Clients |-> Less(deadline[c])]
    /\ late' = [c \in Clients |-> IF Due(c) THEN late[c] + 1 ELSE late[c]]
    /\ UNCHANGED <<pc, rig, id, conn, fresh, orphan>>

Init ==
    /\ held = NoLease
    /\ pc = [c \in Clients |-> "idle"]
    /\ rig = [c \in Clients |-> "none"]
    /\ id = [c \in Clients |-> NoId]
    /\ clk = [c \in Clients |-> 0]
    /\ late = [c \in Clients |-> 0]
    /\ deadline = [c \in Clients |-> 0]
    /\ conn = [c \in Clients |-> Closed]
    /\ fresh = [c \in Clients |-> Closed]
    /\ orphan = [s \in Slots |-> <<>>]

\* What the client's own threads do.
ClientStep(c) ==
    \/ ConnectOk(c) \/ ConnectErr(c) \/ AcquireErr(c)
    \/ Granted(c) \/ BusyRetry(c) \/ BusyFail(c) \/ Retry(c)
    \/ SendRenew(c) \/ RenewOk(c) \/ RenewGone(c) \/ RenewErr(c)
    \/ SeeStop(c) \/ Released(c)

ServerStep ==
    \/ \E c \in Clients : ServeConn(c) \/ ServeFresh(c)
    \/ \E s \in Slots : ServeOrphan(s)

Next ==
    \/ \E c \in Clients : ClientStep(c) \/ Start(c) \/ Drop(c) \/ Detach(c) \/ Die(c)
    \/ ServerStep
    \/ Status
    \/ \E c \in Clients : BreakConn(c) \/ BreakFresh(c)
    \/ \E s \in Slots : LoseOrphan(s)
    \/ Restart
    \/ Tick

Spec == Init /\ [][Next]_vars

(***************************************************************************)
(* Time always passes (the clients' waits are all bounded, and a Zeno run  *)
(* of connects is no execution), runnable threads run, and a stall ends    *)
(* once more than MaxPipe requests wait on one stream.                     *)
(***************************************************************************)
Fairness ==
    /\ SF_vars(Tick)
    /\ \A c \in Clients :
          /\ WF_vars(ClientStep(c))
          /\ WF_vars(Detach(c))
          /\ WF_vars(ServeConn(c) /\ Len(conn[c].toSrv) > MaxPipe)

FairSpec == Spec /\ Fairness

-----------------------------------------------------------------------------
(***************************************************************************)
(* Properties.                                                             *)
(***************************************************************************)
Types ==
    /\ held \in Leases
    /\ pc \in [Clients -> {"idle", "connect", "acquire", "backoff", "hold", "renew", "release"}]
    /\ rig \in [Clients -> {"none", "acquiring", "live", "dropping", "detached"}]
    /\ id \in [Clients -> Ids \union {NoId}]
    /\ clk \in [Clients -> Nat]
    /\ late \in [Clients -> 0..MaxPause]
    /\ deadline \in [Clients -> Nat]
    /\ conn \in [Clients -> Streams]
    /\ fresh \in [Clients -> Streams]
    /\ orphan \in [Slots -> Seq(Requests)]

\* Every variable has its type; no reply to a Renew is one of the kinds that
\* renew_loop calls unexpected, and none to an Acquire is Ok or Gone.
TypeOK ==
    /\ Types
    /\ \A c \in Clients : /\ \A m \in Range(conn[c].toCli) : m.op \in {"Ok", "Gone"}
                          /\ \A m \in Range(fresh[c].toCli) : m.op \in {"Granted", "Busy"}

Live(c) == rig[c] = "live"

\* The lease ids client c can present now, or once it reads its mail.
Caps(c) == ({id[c]} \union IdsIn(fresh[c].toCli)) \ {NoId}

\* A lease id is a capability (mint_lease_id): no two clients ever have the
\* same one, a grant still on the wire included, whatever crashes, stalls,
\* broken streams and daemon restarts do.
CapabilityUnique ==
    \A c, d \in Clients : c # d => Caps(c) \intersect Caps(d) = {}

PendingReleases ==
    {r \in UNION ({Range(conn[c].toSrv) : c \in Clients} \union {Range(orphan[s]) : s \in Slots}) :
        r.op = "Release"}

\* A Release that arrives late (its client gave up on it, crashed, or was
\* detached) never frees the lease of a Rig that is in use.
NoLateRelease ==
    \A r \in PendingReleases : \A c \in Clients : Live(c) => id[c] # r.id

\* LeaseServer::handle displaces the lease of a Rig in use only after it has
\* expired: no request of anyone, prompt or late, takes it away before, and
\* only a daemon restart forgets it.
DisplacedOnlyByExpiry ==
    [][\A c \in Clients :
          (Live(c) /\ held.id = id[c] /\ held.left > 0 /\ held'.id # held.id) => Restart]_vars

\* A Gone on its way to a client is the truth when it arrives, however late:
\* the client does not have the lease again under the id it renewed, so that
\* to acquire anew (renew_loop) is not to contend with itself.
GoneMeansGone ==
    \A c \in Clients : (\E m \in Range(conn[c].toCli) : m.op = "Gone") => held.id # id[c]

\* "Semantics mirror the flock: one holder at a time" (module comment), while
\* the network is prompt and no pause eats up the slack of the ttl/3 period.
Exclusive == \A c, d \in Clients : Live(c) /\ Live(d) => c = d

\* In the same regime a Rig in use holds the server's unexpired lease, for as
\* long as it is in use: the renewals of renew_loop never come too late.
LiveRigHoldsLease == \A c \in Clients : Live(c) => held.id = id[c] /\ held.left > 0

\* In the same regime the lease does what the flock does: RigMutex.
InUse == {c \in Clients : Live(c)}
User == IF InUse = {} THEN NoClient ELSE CHOOSE c \in InUse : TRUE
Mutex == INSTANCE RigMutex
    WITH Procs <- Clients, Nobody <- NoClient, Rigs <- {"rig"}, user <- [r \in {"rig"} |-> User]
ImplementsRigMutex == Mutex!Spec

\* LeaseClient::acquire returns, whatever stalls or crashes: with the lease,
\* or with an error after its timeout.
AcquireReturns == \A c \in Clients : rig[c] = "acquiring" ~> rig[c] # "acquiring"

\* After Drop the renew thread ends, its I/O being bounded, and the Drop
\* itself returns, by a join or by detaching.
DropReturns ==
    \A c \in Clients : /\ rig[c] = "dropping" ~> rig[c] # "dropping"
                       /\ rig[c] \in {"dropping", "detached"} ~> pc[c] = "idle"

\* "rig lease will free itself after its TTL": the lease of a client that is
\* gone (crashed, detached, or whose grant it never saw) does not stay.
LeaseFreesItself ==
    \A c \in Clients :
        (Expire(held).holder = c /\ pc[c] = "idle")
            ~> (Expire(held).holder # c \/ pc[c] # "idle")
=============================================================================

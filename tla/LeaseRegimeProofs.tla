------------------------- MODULE LeaseRegimeProofs -------------------------
(***************************************************************************)
(* Proofs about Lease in the regime its timing constants are chosen for:   *)
(* the network is prompt, a client may crash at any moment, and no client  *)
(* is paused for what is left of the ttl after one period of ttl/3.  There *)
(* the lease does what the flock does: one user at a time, who has the     *)
(* server's unexpired lease for as long as it uses the rig.                *)
(***************************************************************************)
EXTENDS LeaseProofs

\* The regime: clients may crash and connects be refused, but streams neither
\* stall nor break, the daemon stays up, a roundtrip has some time to finish, and
\* the slack of the period exceeds the pauses.
Prompt ==
    /\ Faults \subseteq {"crash", "refuse"}
    /\ IoTimeout > 0
    /\ Period + MaxPause < TTL

-----------------------------------------------------------------------------
(***************************************************************************)
(* The inductive invariant: how much of the ttl is left at each point of   *)
(* the renew loop.  A tick takes one from what is left, and either one     *)
(* from the wait of the client or adds one to its lateness.                *)
(***************************************************************************)
\* Every lease is given, and renewed, for the whole TTL.
WholeTtl == held.id # NoId => held.ttl = TTL /\ held.left <= TTL

\* A grant on its way to an acquire is of the lease the server holds, which
\* has lost no more than the client's lateness.
Promised(c) ==
    /\ pc[c] \in {"acquire", "backoff"} => fresh[c].up
    /\ \A m \in Range(fresh[c].toCli) :
          m.op = "Granted" /\ rig[c] = "acquiring" =>
             held.id = m.id /\ held.left + late[c] >= TTL

\* The renew loop waits for its next renewal; it has asked for it; it has the answer.
Waits(c) ==
    /\ pc[c] = "hold" /\ conn[c].toSrv = <<>> /\ conn[c].toCli = <<>>
    /\ held.left + Period + late[c] >= TTL + clk[c]
Asks(c) ==
    /\ pc[c] = "renew" /\ conn[c].toSrv = <<Renew(c)>> /\ conn[c].toCli = <<>>
    /\ clk[c] > 0 /\ held.left > 0
Told(c) ==
    /\ pc[c] = "renew" /\ conn[c].toSrv = <<>>
    /\ conn[c].toCli = <<[op |-> "Ok", id |-> NoId]>>
    /\ held.left + late[c] >= TTL

\* A client in use of its Rig has the lease, and its renewals are in time.
Keeps(c) ==
    Live(c) => /\ held.id = id[c] /\ conn[c].up
               /\ Waits(c) \/ Asks(c) \/ Told(c)

\* The inductive invariant, over LeaseInv.
RegimeInv == WholeTtl /\ \A c \in Clients : Promised(c) /\ Keeps(c)

\* What the types and the assumptions say of the times.
LEMMA Times ==
    ASSUME Types
    PROVE  /\ TTL \in Nat /\ Period \in Nat /\ MaxPause \in Nat /\ IoTimeout \in Nat
           /\ Clamp(TTL) = TTL
           /\ held.left \in Nat
           /\ \A c \in Clients : clk[c] \in Nat /\ late[c] \in 0..MaxPause
<1>1. TTL \in Nat /\ Period \in Nat /\ MaxPause \in Nat /\ IoTimeout \in Nat
  BY TimesAssumption, TimeTypes
<1>2. Clamp(TTL) = TTL
  BY TimesAssumption DEF Clamp
<1>3. held.left \in Nat
  BY TimesAssumption DEF Types, Leases
<1>4. ASSUME NEW c \in Clients PROVE clk[c] \in Nat /\ late[c] \in 0..MaxPause
  BY DEF Types
<1> QED
  BY <1>1, <1>2, <1>3, <1>4

\* In the regime every lease that is promised or in use has time left.
LEMMA TimeLeft ==
    ASSUME Prompt, Types, NEW c \in Clients
    PROVE  /\ Waits(c) \/ Asks(c) \/ Told(c) => held.left > 0
           /\ held.left + late[c] >= TTL => held.left > 0
<1> DEFINE left == held.left
           l == late[c]
           k == clk[c]
           p == Period
<1>1. /\ TTL \in Nat /\ p \in Nat /\ MaxPause \in Nat /\ left \in Nat /\ k \in Nat
      /\ l \in 0..MaxPause /\ p + MaxPause < TTL
  BY Times DEF Prompt
<1> HIDE DEF left, l, k, p
<1>2. left + l >= TTL => left > 0
  BY <1>1
<1>3. left + p + l >= TTL + k => left > 0
  BY <1>1
<1> QED
  BY <1>2, <1>3 DEF Waits, Asks, Told, left, l, k, p

\* A client in use of its Rig waits or renews, and one with a grant on its way
\* waits for that.
LEMMA WhereTheyAre ==
    ASSUME NEW c, Core(c), Keeps(c)
    PROVE  /\ Live(c) => pc[c] \in {"hold", "renew"} /\ id[c] # NoId
           /\ fresh[c].toCli # <<>> => pc[c] = "acquire"
BY DEF Core, Ctl, FreshMail, Keeps, Waits, Asks, Told, Live

-----------------------------------------------------------------------------
(***************************************************************************)
(* What a step does to the lease.                                          *)
(***************************************************************************)
\* A request is handled: any, but a Release only if it was pending.
Handles(r, i) ==
    /\ held' = HeldAfter(Expire(held), r, i)
    /\ r.op = "Release" => r \in PendingReleases

\* A step handles a request, lets the lease lapse or lose a tick, restarts the
\* daemon, or leaves the lease alone.
LEMMA HeldCases ==
    ASSUME LeaseInv, [Next]_vars
    PROVE  \/ \E r \in Requests, i \in MintChoices : Handles(r, i)
           \/ held' = Expire(held)
           \/ Tick /\ held' = [held EXCEPT !.left = Less(@)]
           \/ Restart
           \/ held' = held
<1> DEFINE Some == \E r \in Requests, i \in MintChoices : Handles(r, i)
<1>1. Types /\ \A c \in Clients : Core(c)
  BY DEF LeaseInv
<1>2. ASSUME NEW c \in Clients, ServeConn(c) PROVE Some
  <2>1. PICK i \in MintChoices : held' = HeldAfter(Expire(held), Head(conn[c].toSrv), i)
    BY <1>2 DEF ServeConn
  <2>2. Head(conn[c].toSrv) \in Range(conn[c].toSrv) /\ Head(conn[c].toSrv) \in Requests
    BY <1>1, <1>2, ClientTypes, TailFacts, RangeFacts DEF ServeConn
  <2>3. Handles(Head(conn[c].toSrv), i)
    BY <2>1, <2>2 DEF Handles, PendingReleases
  <2> QED
    BY <2>2, <2>3
<1>3. ASSUME NEW c \in Clients, ServeFresh(c) PROVE Some
  <2>1. PICK i \in MintChoices : held' = HeldAfter(Expire(held), Head(fresh[c].toSrv), i)
    BY <1>3 DEF ServeFresh
  <2>2. fresh[c].toSrv = <<Acquire(c)>>
    BY <1>1, <1>3 DEF ServeFresh, Core, FreshMail
  <2>3. Head(fresh[c].toSrv) = Acquire(c) /\ Acquire(c) \in Requests
    BY <1>1, <2>2, SingleFacts, ClientTypes
  <2>4. Handles(Acquire(c), i)
    BY <2>1, <2>3 DEF Handles, Acquire
  <2> QED
    BY <2>3, <2>4
<1>4. ASSUME NEW s \in Slots, ServeOrphan(s) PROVE Some
  <2>1. PICK i \in MintChoices : held' = HeldAfter(Expire(held), Head(orphan[s]), i)
    BY <1>4 DEF ServeOrphan
  <2>2. orphan[s] # <<>> /\ orphan[s] \in Seq(Requests)
    BY <1>1, <1>4 DEF ServeOrphan, Types
  <2>3. Head(orphan[s]) \in Range(orphan[s]) /\ Head(orphan[s]) \in Requests
    BY <2>2, TailFacts, RangeFacts
  <2>4. Handles(Head(orphan[s]), i)
    BY <2>1, <2>3 DEF Handles, PendingReleases
  <2> QED
    BY <2>3, <2>4
<1>5. CASE Status \/ Tick
  BY <1>5 DEF Status, Tick
<1>6. CASE Restart
  BY <1>6
<1>7. CASE UNCHANGED held
  BY <1>7
<1> QED
  BY <1>2, <1>3, <1>4, <1>5, <1>6, <1>7
  DEF Next, ServerStep, ClientStep, ConnectOk, ConnectErr, AcquireErr, AttemptFails, Granted,
      BusyRetry, BusyFail, Retry, SendRenew, RenewOk, RenewGone, RenewErr, SeeStop, Released,
      Start, Drop, Detach, Die, BreakConn, BreakFresh, LoseOrphan, vars

\* Leases are given for the whole TTL, whatever the regime.
LEMMA WholeTtlStep ==
    ASSUME LeaseInv, WholeTtl, [Next]_vars
    PROVE  WholeTtl'
<1>1. Types /\ held \in Leases /\ TTL \in Nat /\ Clamp(TTL) = TTL /\ NoLease.id = NoId
  BY Times DEF LeaseInv, Types, NoLease
<1>2. Expire(held).id # NoId => Expire(held).ttl = TTL /\ Expire(held).left <= TTL
  BY <1>1 DEF WholeTtl, Expire
<1>3. Expire(held) \in Leases
  BY <1>1, TimesAssumption DEF Expire, NoLease, Leases
<1>4. ASSUME NEW r \in Requests, NEW i \in MintChoices, Handles(r, i) PROVE WholeTtl'
  <2> DEFINE h == Expire(held)
  <2>1. r.op \in {"Acquire", "Renew", "Release"}
    BY DEF Requests
  <2>2. \/ held' = h \/ held' = NoLease
        \/ held' = Renewed(h) /\ h.id # NoId
        \/ held' = [id |-> i, holder |-> r.from, left |-> TTL, ttl |-> TTL]
    BY <1>1, <1>4, <2>1 DEF Handles, HeldAfter, Owns
  <2>3. ASSUME h.id # NoId PROVE Renewed(h).ttl = TTL /\ Renewed(h).left = TTL
    BY <1>2, <1>3, <2>3 DEF Renewed, Leases
  <2> QED
    BY <1>1, <1>2, <2>2, <2>3 DEF WholeTtl
<1>5. CASE held' = [held EXCEPT !.left = Less(@)]
  <2>1. held'.id = held.id /\ held'.ttl = held.ttl /\ held'.left <= held.left
    BY <1>1, <1>5 DEF Leases, Less
  <2>2. held'.left \in Nat /\ held.left \in Nat
    BY <1>1, <1>5 DEF Leases, Less
  <2> QED
    BY <1>1, <2>1, <2>2 DEF WholeTtl
<1>6. CASE Restart
  BY <1>1, <1>6 DEF Restart, WholeTtl
<1> QED
  BY <1>2, <1>4, <1>5, <1>6, HeldCases DEF WholeTtl

\* No request that is pending gives up an id that a client has, or that is on
\* its way to it, unless the client itself is releasing.
LEMMA NoReleaseOf ==
    ASSUME LeaseInv, NEW c \in Clients, pc[c] # "release", NEW i \in Caps(c),
           NEW r \in PendingReleases
    PROVE  r.id # i
<1>1. CASE \E s \in Slots : r \in Range(orphan[s])
  BY <1>1 DEF PendingReleases, LeaseInv, OrphanReleases
<1>2. ASSUME NEW d \in Clients, r \in Range(conn[d].toSrv) PROVE r.id # i
  <2>1. r.id = id[d] /\ r.id \in Ids /\ pc[d] = "release"
    BY <1>2 DEF LeaseInv, Core, ConnMail, PendingReleases
  <2>2. r.id \in Caps(d) /\ c # d
    BY <2>1 DEF Caps, Ids, NoId
  <2> QED
    BY <2>2 DEF LeaseInv, CapabilityUnique
<1> QED
  BY <1>1, <1>2 DEF PendingReleases

\* A lease with time left, whose id a client has or will read, loses nothing but
\* to the clock.
LEMMA OwnedKept ==
    ASSUME LeaseInv, WholeTtl, [Next]_vars, ~Tick, ~Restart,
           NEW c \in Clients, pc[c] # "release", held.id \in Caps(c), held.left > 0
    PROVE  held'.id = held.id /\ held'.left >= held.left
<1>1. Types /\ held \in Leases /\ held.left \in Nat /\ TTL \in Nat
  BY Times DEF LeaseInv, Types
<1>2. Expire(held) = held /\ held # NoLease /\ held.id # NoId
  BY DEF Expire, NoLease, Caps
<1>3. ASSUME NEW r \in Requests, NEW i \in MintChoices, Handles(r, i)
      PROVE  held'.id = held.id /\ held'.left >= held.left
  <2>1. r.op = "Release" => held.id # r.id
    BY <1>3, NoReleaseOf DEF Handles
  <2>2. held' = held \/ held' = Renewed(held)
    BY <1>2, <1>3, <2>1 DEF Handles, HeldAfter, Owns, Requests
  <2>3. Renewed(held).id = held.id /\ Renewed(held).left = TTL /\ held.left <= TTL
    BY <1>1, <1>2 DEF WholeTtl, Renewed, Leases
  <2> QED
    BY <1>1, <2>2, <2>3
<1> QED
  BY <1>1, <1>2, <1>3, HeldCases

-----------------------------------------------------------------------------
(***************************************************************************)
(* The invariant is kept by the steps that do not concern a client.        *)
(***************************************************************************)
\* Nothing that the invariant says of c changes, but the lease.
Undisturbed(c) ==
    /\ pc'[c] = pc[c] /\ rig'[c] = rig[c] /\ id'[c] = id[c]
    /\ clk'[c] = clk[c] /\ late'[c] = late[c]
    /\ conn'[c] = conn[c] /\ fresh'[c] = fresh[c]

\* The steps of one client, and of the server for it, leave the others alone.
LEMMA OthersUndisturbed ==
    ASSUME Types, NEW d \in Clients, NEW c \in Clients, c # d,
           \/ ClientStep(d)
           \/ Start(d) \/ Drop(d) \/ Detach(d) \/ Die(d)
           \/ BreakConn(d) \/ BreakFresh(d) \/ ServeConn(d) \/ ServeFresh(d)
    PROVE  Undisturbed(c)
<1> USE DEF Undisturbed, Types, Goto
<1>1. ASSUME ThreadEnds(d) PROVE Undisturbed(c)
  BY <1>1 DEF ThreadEnds
<1>2. ASSUME AttemptFails(d) PROVE Undisturbed(c)
  BY <1>2 DEF AttemptFails, GiveUp, KeepOldLease
<1>3. CASE ConnectOk(d) \/ Retry(d) \/ BusyRetry(d)
  BY <1>3 DEF ConnectOk, Retry, BusyRetry
<1>4. CASE Granted(d)
  BY <1>4 DEF Granted
<1>5. CASE SendRenew(d) \/ RenewOk(d) \/ RenewGone(d) \/ RenewErr(d) \/ SeeStop(d)
  BY <1>5 DEF SendRenew, RenewOk, RenewGone, RenewErr, SeeStop
<1>6. CASE Start(d) \/ Drop(d) \/ Detach(d) \/ BreakConn(d) \/ BreakFresh(d)
  BY <1>6 DEF Start, Drop, Detach, BreakConn, BreakFresh
<1>7. CASE ServeConn(d) \/ ServeFresh(d)
  BY <1>7 DEF ServeConn, ServeFresh
<1>8. CASE ConnectErr(d) \/ AcquireErr(d) \/ BusyFail(d) \/ Released(d) \/ Die(d)
  BY <1>1, <1>2, <1>8 DEF ConnectErr, AcquireErr, BusyFail, Released, Die
<1> QED
  BY <1>3, <1>4, <1>5, <1>6, <1>7, <1>8 DEF ClientStep

\* A grant on its way is of an id that its client has a claim to.
LEMMA GrantsAreCaps ==
    ASSUME NEW c, Core(c), NEW m \in Range(fresh[c].toCli), m.op = "Granted"
    PROVE  m.id \in Caps(c) /\ pc[c] = "acquire"
<1>1. fresh[c].toCli # <<>>
  BY RangeFacts
<1>2. PICK n : /\ fresh[c].toCli = <<n>> /\ pc[c] = "acquire"
               /\ \/ n.op = "Granted" /\ n.id \in Ids
                  \/ n.op = "Busy" /\ n.id = NoId
  BY <1>1 DEF Core, FreshMail
<1>3. n = m
  BY <1>2, RangeFacts
<1>4. m.id \in IdsIn(fresh[c].toCli)
  BY IdsInFacts
<1> QED
  BY <1>2, <1>3, <1>4 DEF Caps, Ids, NoId

\* Whatever is left of a lease is enough after a step that takes nothing from it.
LEMMA KeptUndisturbed ==
    ASSUME Prompt, LeaseInv, RegimeInv, [Next]_vars, ~Tick, ~Restart,
           NEW c \in Clients, Undisturbed(c)
    PROVE  Promised(c)' /\ Keeps(c)'
<1>1. Types /\ Types' /\ Core(c) /\ WholeTtl /\ Promised(c) /\ Keeps(c)
  BY LeaseInvStep DEF LeaseInv, RegimeInv
<1>2. /\ TTL \in Nat /\ Period \in Nat /\ held.left \in Nat /\ held'.left \in Nat
      /\ clk[c] \in Nat /\ late[c] \in 0..MaxPause /\ MaxPause \in Nat
  <2>1. held'.left \in Nat
    BY <1>1 DEF Types, Leases
  <2> QED
    BY <1>1, <2>1, Times
<1>3. Promised(c)'
  <2>1. pc'[c] \in {"acquire", "backoff"} => fresh'[c].up
    BY <1>1 DEF Undisturbed, Promised
  <2>2. ASSUME NEW m \in Range(fresh'[c].toCli), m.op = "Granted", rig'[c] = "acquiring"
        PROVE  held'.id = m.id /\ held'.left + late'[c] >= TTL
    <3>1. m \in Range(fresh[c].toCli) /\ rig[c] = "acquiring"
      BY <2>2 DEF Undisturbed
    <3>2. held.id = m.id /\ held.left + late[c] >= TTL
      BY <1>1, <2>2, <3>1 DEF Promised
    <3>3. m.id \in Caps(c) /\ pc[c] # "release" /\ held.left > 0
      BY <1>1, <2>2, <3>1, <3>2, GrantsAreCaps, TimeLeft
    <3>4. held'.id = held.id /\ held'.left >= held.left
      BY <1>1, <3>2, <3>3, OwnedKept
    <3>5. late'[c] = late[c]
      BY DEF Undisturbed
    <3> QED
      BY <1>2, <3>2, <3>4, <3>5
  <2> QED
    BY <2>1, <2>2 DEF Promised
<1>4. ASSUME Live(c)' PROVE /\ held'.id = id'[c] /\ conn'[c].up
                            /\ Waits(c)' \/ Asks(c)' \/ Told(c)'
  <2>1. Live(c)
    BY <1>4 DEF Live, Undisturbed
  <2>2. /\ held.id = id[c] /\ conn[c].up /\ (Waits(c) \/ Asks(c) \/ Told(c))
        /\ pc[c] \in {"hold", "renew"} /\ id[c] # NoId
    BY <1>1, <2>1, WhereTheyAre DEF Keeps
  <2>3. held.id \in Caps(c) /\ pc[c] # "release" /\ held.left > 0
    BY <1>1, <2>2, TimeLeft DEF Caps
  <2>4. held'.id = held.id /\ held'.left >= held.left
    BY <1>1, <2>3, OwnedKept
  <2>5. ASSUME Waits(c) PROVE Waits(c)'
    <3>1. pc'[c] = "hold" /\ conn'[c].toSrv = <<>> /\ conn'[c].toCli = <<>>
      BY <2>5 DEF Waits, Undisturbed
    <3>2. held.left + Period + late[c] >= TTL + clk[c] /\ late'[c] = late[c] /\ clk'[c] = clk[c]
      BY <2>5 DEF Waits, Undisturbed
    <3>3. held'.left + Period + late'[c] >= TTL + clk'[c]
      BY <1>2, <2>4, <3>2
    <3> QED
      BY <3>1, <3>3 DEF Waits
  <2>6. Asks(c) => Asks(c)'
    BY <1>2, <2>3, <2>4 DEF Asks, Undisturbed, Renew
  <2>7. ASSUME Told(c) PROVE Told(c)'
    <3>1. held.left + late[c] >= TTL /\ held'.left + late'[c] >= TTL
      <4>1. held.left + late[c] >= TTL /\ late'[c] = late[c]
        BY <2>7 DEF Told, Undisturbed
      <4> QED
        BY <1>2, <2>4, <4>1
    <3> QED
      BY <2>7, <3>1 DEF Told, Undisturbed
  <2> QED
    BY <2>2, <2>4, <2>5, <2>6, <2>7 DEF Undisturbed
<1> QED
  BY <1>3, <1>4 DEF Keeps

\* A tick takes from the lease of a client what it takes from the client's wait,
\* or adds to its lateness; there is none while a renewal is in flight.
LEMMA KeptByTick ==
    ASSUME Prompt, LeaseInv, RegimeInv, Tick, NEW c \in Clients
    PROVE  Promised(c)' /\ Keeps(c)'
<1>1. Types /\ Core(c) /\ Promised(c) /\ Keeps(c)
  BY DEF LeaseInv, RegimeInv
<1>2. /\ TTL \in Nat /\ Period \in Nat /\ held.left \in Nat
      /\ clk[c] \in Nat /\ late[c] \in 0..MaxPause /\ MaxPause \in Nat
  BY <1>1, Times
<1>3. /\ conn[c].toSrv = <<>> /\ fresh[c].toSrv = <<>>
      /\ UNCHANGED <<pc, rig, id, conn, fresh>>
      /\ held'.id = held.id /\ held'.left = Less(held.left)
      /\ clk'[c] = Less(clk[c])
      /\ late'[c] = IF Due(c) THEN late[c] + 1 ELSE late[c]
  BY <1>1 DEF Tick, Quiet, Prompt, Types, Leases
<1>4. ASSUME Due(c), held.left + late[c] >= TTL PROVE held'.left + late'[c] >= TTL
  <2>1. held.left > 0
    BY <1>1, <1>4, TimeLeft
  <2> QED
    BY <1>2, <1>3, <1>4, <2>1 DEF Less
<1>5. Promised(c)'
  <2>1. pc'[c] \in {"acquire", "backoff"} => fresh'[c].up
    BY <1>1, <1>3 DEF Promised
  <2>2. ASSUME NEW m \in Range(fresh'[c].toCli), m.op = "Granted", rig'[c] = "acquiring"
        PROVE  held'.id = m.id /\ held'.left + late'[c] >= TTL
    <3>1. m \in Range(fresh[c].toCli) /\ rig[c] = "acquiring"
      BY <1>3, <2>2
    <3>2. held.id = m.id /\ held.left + late[c] >= TTL
      BY <1>1, <2>2, <3>1 DEF Promised
    <3>3. fresh[c].toCli # <<>> /\ pc[c] = "acquire"
      BY <1>1, <2>2, <3>1, GrantsAreCaps, RangeFacts
    <3>4. Due(c)
      BY <3>3 DEF Due, Waiting, Answered, Awaited
    <3> QED
      BY <1>3, <1>4, <3>2, <3>4
  <2> QED
    BY <2>1, <2>2 DEF Promised
<1>6. ASSUME Live(c)' PROVE /\ held'.id = id'[c] /\ conn'[c].up
                            /\ Waits(c)' \/ Asks(c)' \/ Told(c)'
  <2>1. Live(c)
    BY <1>3, <1>6 DEF Live
  <2>2. held.id = id[c] /\ conn[c].up /\ (Waits(c) \/ Asks(c) \/ Told(c))
    BY <1>1, <2>1 DEF Keeps
  <2>3. held.left > 0
    BY <1>1, <2>2, TimeLeft
  <2>4. CASE Waits(c)
    <3>1. Due(c) <=> clk[c] = 0
      BY <2>1, <2>4 DEF Waits, Live, Due, Waiting, StopRequested
    <3>2. held'.left + Period + late'[c] >= TTL + clk'[c]
      <4>1. held.left + Period + late[c] >= TTL + clk[c]
        BY <2>4 DEF Waits
      <4>2. held'.left = held.left - 1
        BY <1>2, <1>3, <2>3 DEF Less
      <4>3. \/ clk[c] = 0 /\ clk'[c] = 0 /\ late'[c] = late[c] + 1
            \/ clk[c] > 0 /\ clk'[c] = clk[c] - 1 /\ late'[c] = late[c]
        BY <1>2, <1>3, <3>1 DEF Less
      <4> QED
        BY <1>2, <4>1, <4>2, <4>3
    <3>3. Waits(c)'
      BY <1>3, <2>4, <3>2 DEF Waits
    <3> QED
      BY <1>3, <2>2, <3>3
  <2>5. CASE Asks(c)
    BY <1>3, <2>5, SingleFacts DEF Asks
  <2>6. CASE Told(c)
    <3>1. Due(c)
      BY <2>6, SingleFacts DEF Told, Due, Waiting, Answered, Awaited
    <3>2. Told(c)'
      BY <1>3, <1>4, <2>6, <3>1 DEF Told
    <3> QED
      BY <1>3, <2>2, <3>2
  <2> QED
    BY <2>2, <2>4, <2>5, <2>6
<1> QED
  BY <1>5, <1>6 DEF Keeps

-----------------------------------------------------------------------------
(***************************************************************************)
(* The invariant is kept by the steps of a client and of the server for it.*)
(***************************************************************************)
\* No grant is on its way to a client whose stream brings it nothing.
LEMMA NothingPromised ==
    ASSUME NEW c, fresh'[c].toCli = <<>>,
           pc'[c] \in {"acquire", "backoff"} => fresh'[c].up
    PROVE  Promised(c)'
BY RangeFacts DEF Promised

\* A client without a Rig in use has nothing to keep.
LEMMA NothingKept ==
    ASSUME NEW c, rig'[c] # "live"
    PROVE  Keeps(c)'
BY DEF Keeps, Live

\* A thread that ends leaves no grant, and no Rig in use.
LEMMA KeptByEnd ==
    ASSUME Types, NEW c \in Clients, ThreadEnds(c)
    PROVE  Promised(c)' /\ Keeps(c)'
<1>1. fresh'[c] = Closed /\ pc'[c] = "idle" /\ rig'[c] = "none"
  BY DEF ThreadEnds, Goto, Types
<1> QED
  BY <1>1, StreamMail, NothingPromised, NothingKept

\* Neither does an attempt to acquire that fails: it was not made in use.
LEMMA KeptByFailure ==
    ASSUME Types, NEW c \in Clients, Core(c), Keeps(c), pc[c] \in {"connect", "acquire"},
           AttemptFails(c)
    PROVE  Promised(c)' /\ Keeps(c)'
<1>1. /\ fresh'[c] = Closed /\ pc'[c] \in {"idle", "hold"} /\ rig'[c] \in {"none", rig[c]}
  BY DEF AttemptFails, GiveUp, KeepOldLease, Goto, Types
<1>2. rig[c] # "live"
  BY WhereTheyAre DEF Live
<1> QED
  BY <1>1, <1>2, StreamMail, NothingPromised, NothingKept

\* The invariant is kept by the steps of LeaseClient::acquire.
LEMMA KeptByAcquire ==
    ASSUME Prompt, LeaseInv, RegimeInv, NEW c \in Clients,
           \/ ConnectOk(c) \/ ConnectErr(c) \/ AcquireErr(c)
           \/ Granted(c) \/ BusyRetry(c) \/ BusyFail(c) \/ Retry(c)
    PROVE  Promised(c)' /\ Keeps(c)'
<1>1. Types /\ Core(c) /\ Promised(c) /\ Keeps(c)
  BY DEF LeaseInv, RegimeInv
<1>2. conn[c] \in Streams /\ fresh[c] \in Streams
  BY <1>1, ClientTypes
<1>3. /\ pc[c] \in {"connect", "acquire", "backoff"} /\ rig[c] # "live"
  BY <1>1, WhereTheyAre
  DEF Live, ConnectOk, ConnectErr, AcquireErr, Granted, BusyRetry, BusyFail, Retry
<1>4. CASE ConnectOk(c)
  <2>1. fresh'[c] = Send(Opened, Acquire(c)) /\ rig'[c] = rig[c]
    BY <1>1, <1>4 DEF ConnectOk, Types
  <2>2. fresh'[c].toCli = <<>> /\ fresh'[c].up
    BY <2>1 DEF Send, Opened
  <2> QED
    BY <1>3, <2>1, <2>2, NothingPromised, NothingKept
<1>5. CASE ConnectErr(c) \/ AcquireErr(c) \/ BusyFail(c)
  BY <1>1, <1>5, KeptByFailure DEF ConnectErr, AcquireErr, BusyFail
<1>6. CASE Granted(c)
  <2>1. /\ pc[c] = "acquire" /\ Answered(c) /\ Answer(c).op = "Granted"
        /\ pc'[c] = "hold" /\ clk'[c] = Period /\ late'[c] = late[c]
        /\ id'[c] = Answer(c).id /\ held' = held
        /\ conn'[c] = Receive(fresh[c]) /\ fresh'[c] = Closed
        /\ rig[c] # "acquiring" => rig'[c] = rig[c]
    BY <1>1, <1>6 DEF Granted, Goto, Types
  <2>2. Promised(c)'
    BY <2>1, StreamMail, NothingPromised
  <2>3. CASE rig[c] # "acquiring"
    BY <1>3, <2>1, <2>2, <2>3, NothingKept
  <2>4. CASE rig[c] = "acquiring"
    <3>1. /\ Receive(fresh[c]).toSrv = <<>> /\ Receive(fresh[c]).toCli = <<>>
          /\ fresh[c].toCli = <<Answer(c)>>
      BY <1>1, <2>1, AcquireAnswer
    <3>2. held.id = Answer(c).id /\ held.left + late[c] >= TTL /\ fresh[c].up
      BY <1>1, <2>1, <2>4, <3>1, RangeFacts DEF Promised
    <3>3. Receive(fresh[c]).up
      BY <1>2, <3>2 DEF Receive, Streams
    <3>4. held'.left + Period + late'[c] >= TTL + clk'[c]
      <4>1. TTL \in Nat /\ Period \in Nat /\ held.left \in Nat /\ late[c] \in Nat
        BY <1>1, Times
      <4> QED
        BY <2>1, <3>2, <4>1
    <3>5. Waits(c)'
      BY <2>1, <3>1, <3>4 DEF Waits
    <3>6. Keeps(c)'
      BY <2>1, <3>2, <3>3, <3>5 DEF Keeps
    <3> QED
      BY <2>2, <3>6
  <2> QED
    BY <2>3, <2>4
<1>7. CASE BusyRetry(c)
  <2>1. /\ pc[c] = "acquire" /\ Answered(c) /\ rig'[c] = rig[c]
        /\ fresh'[c] = Receive(fresh[c])
    BY <1>1, <1>7 DEF BusyRetry, Types
  <2>2. fresh'[c].toCli = <<>>
    BY <1>1, <2>1, AcquireAnswer
  <2>3. fresh'[c].up
    BY <1>1, <1>2, <2>1 DEF Promised, Receive, Streams
  <2> QED
    BY <1>3, <2>1, <2>2, <2>3, NothingPromised, NothingKept
<1>8. CASE Retry(c)
  <2>1. pc[c] = "backoff" /\ rig'[c] = rig[c] /\ fresh'[c] = Send(fresh[c], Acquire(c))
    BY <1>1, <1>8 DEF Retry, Types
  <2>2. fresh'[c].toCli = <<>>
    BY <1>1, <1>2, <2>1, StreamMail, NoFreshMail
  <2>3. fresh'[c].up
    BY <1>1, <1>2, <2>1 DEF Promised, Send, Streams
  <2> QED
    BY <1>3, <2>1, <2>2, <2>3, NothingPromised, NothingKept
<1> QED
  BY <1>4, <1>5, <1>6, <1>7, <1>8

\* It is kept by those of renew_loop.
LEMMA KeptByRenewal ==
    ASSUME Prompt, LeaseInv, RegimeInv, NEW c \in Clients,
           \/ SendRenew(c) \/ RenewOk(c) \/ RenewGone(c) \/ RenewErr(c)
           \/ SeeStop(c) \/ Released(c)
    PROVE  Promised(c)' /\ Keeps(c)'
<1>1. Types /\ Core(c) /\ Promised(c) /\ Keeps(c)
  BY DEF LeaseInv, RegimeInv
<1>2. conn[c] \in Streams /\ fresh[c] \in Streams
  BY <1>1, ClientTypes
<1>3. ASSUME fresh'[c] = fresh[c], pc'[c] \notin {"acquire", "backoff"}, pc[c] # "acquire"
      PROVE  Promised(c)'
  BY <1>1, <1>3, NoFreshMail, NothingPromised
<1>4. CASE SendRenew(c)
  <2>1. /\ pc[c] = "hold" /\ clk[c] = 0
        /\ pc'[c] = "renew" /\ clk'[c] = IoTimeout
        /\ conn'[c] = Send(conn[c], Renew(c))
        /\ rig'[c] = rig[c] /\ id'[c] = id[c] /\ fresh'[c] = fresh[c] /\ held' = held
    BY <1>1, <1>4 DEF SendRenew, Goto, Types
  <2>2. ASSUME Live(c)' PROVE held'.id = id'[c] /\ conn'[c].up /\ Asks(c)'
    <3>1. held.id = id[c] /\ conn[c].up /\ (Waits(c) \/ Asks(c) \/ Told(c))
      BY <1>1, <2>1, <2>2 DEF Keeps, Live
    <3>2. /\ conn[c].toSrv = <<>> /\ conn[c].toCli = <<>> /\ held.left > 0
      BY <1>1, <2>1, <3>1, TimeLeft DEF Waits, Asks, Told
    <3>3. /\ conn'[c].toSrv = <<Renew(c)>> /\ conn'[c].toCli = <<>> /\ conn'[c].up
      BY <1>2, <2>1, <3>1, <3>2, SingleFacts DEF Send, Streams
    <3>4. Renew(c)' = Renew(c)
      BY <2>1 DEF Renew
    <3> QED
      BY <2>1, <3>1, <3>2, <3>3, <3>4 DEF Asks, Prompt
  <2> QED
    BY <1>3, <2>1, <2>2 DEF Keeps
<1>5. CASE RenewOk(c)
  <2>1. /\ pc[c] = "renew" /\ conn[c].toCli # <<>>
        /\ pc'[c] = "hold" /\ clk'[c] = Period /\ late'[c] = late[c]
        /\ conn'[c] = Receive(conn[c])
        /\ rig'[c] = rig[c] /\ id'[c] = id[c] /\ fresh'[c] = fresh[c] /\ held' = held
    BY <1>1, <1>5 DEF RenewOk, Answered, Awaited, Goto, Types
  <2>2. ASSUME Live(c)' PROVE held'.id = id'[c] /\ conn'[c].up /\ Waits(c)'
    <3>1. held.id = id[c] /\ conn[c].up /\ (Waits(c) \/ Asks(c) \/ Told(c))
      BY <1>1, <2>1, <2>2 DEF Keeps, Live
    <3>2. Told(c)
      BY <2>1, <3>1 DEF Waits, Asks
    <3>3. conn'[c].toSrv = <<>> /\ conn'[c].toCli = <<>> /\ conn'[c].up
      BY <1>2, <2>1, <3>1, <3>2, SingleFacts DEF Told, Receive, Streams
    <3>4. held'.left + Period + late'[c] >= TTL + clk'[c]
      <4>1. TTL \in Nat /\ Period \in Nat /\ held.left \in Nat /\ late[c] \in Nat
        BY <1>1, Times
      <4> QED
        BY <2>1, <3>2, <4>1 DEF Told
    <3> QED
      BY <2>1, <3>1, <3>3, <3>4 DEF Waits
  <2> QED
    BY <1>3, <2>1, <2>2 DEF Keeps
<1>6. CASE RenewGone(c) \/ RenewErr(c)
  <2>1. /\ pc[c] = "renew" /\ pc'[c] = "connect"
        /\ rig'[c] = rig[c] /\ fresh'[c] = fresh[c]
        /\ \/ conn[c].toCli # <<>> /\ Head(conn[c].toCli).op = "Gone"
           \/ conn[c].toCli = <<>> /\ (~conn[c].up \/ clk[c] = 0)
    BY <1>1, <1>6 DEF RenewGone, RenewErr, Answered, Answer, Awaited, IoFails, Goto, Types
  <2>2. ASSUME Live(c) PROVE FALSE
    <3>1. conn[c].up /\ (Asks(c) \/ Told(c))
      BY <1>1, <2>1, <2>2 DEF Keeps, Waits
    <3>2. CASE Asks(c)
      BY <1>1, <2>1, <3>1, <3>2, Times DEF Asks
    <3>3. CASE Told(c)
      BY <2>1, <3>3, SingleFacts DEF Told
    <3> QED
      BY <3>1, <3>2, <3>3
  <2> QED
    BY <1>3, <2>1, <2>2, NothingKept DEF Live
<1>7. CASE SeeStop(c)
  <2>1. /\ pc[c] = "hold" /\ pc'[c] = "release" /\ fresh'[c] = fresh[c]
        /\ rig'[c] # "live"
    BY <1>1, <1>7 DEF SeeStop, StopRequested, Goto, Types
  <2> QED
    BY <1>3, <2>1, NothingKept
<1>8. CASE Released(c)
  BY <1>1, <1>8, KeptByEnd DEF Released
<1> QED
  BY <1>4, <1>5, <1>6, <1>7, <1>8

\* It is kept by the server: a client in use is told Ok and has the whole TTL
\* again, and one that acquires is told Granted only of a whole new lease.
LEMMA KeptByServer ==
    ASSUME Prompt, LeaseInv, RegimeInv, [Next]_vars, ~Tick, ~Restart,
           NEW c \in Clients, ServeConn(c) \/ ServeFresh(c)
    PROVE  Promised(c)' /\ Keeps(c)'
<1>1. Types /\ Core(c) /\ Promised(c) /\ Keeps(c) /\ WholeTtl
  BY DEF LeaseInv, RegimeInv
<1>2. conn[c] \in Streams /\ fresh[c] \in Streams
  BY <1>1, ClientTypes
<1>3. CASE ServeConn(c)
  <2> DEFINE r == Head(conn[c].toSrv)
  <2>1. PICK i \in MintChoices :
           /\ held' = HeldAfter(Expire(held), r, i)
           /\ conn' = [conn EXCEPT ![c] = Served(conn[c], Expire(held), i)]
    BY <1>3 DEF ServeConn
  <2>2. /\ conn[c].toSrv # <<>> /\ conn'[c] = Served(conn[c], Expire(held), i)
        /\ pc'[c] = pc[c] /\ rig'[c] = rig[c] /\ id'[c] = id[c]
        /\ clk'[c] = clk[c] /\ late'[c] = late[c] /\ fresh'[c] = fresh[c]
    BY <1>1, <1>3, <2>1 DEF ServeConn, Types
  <2>3. Promised(c)'
    <3>1. conn[c].toSrv \in Seq(Requests)
      BY <1>1, ClientTypes
    <3>2. r \in Range(conn[c].toSrv)
      BY <2>2, <3>1, TailFacts
    <3>3. id[c] # NoId
      BY <1>1, <3>2 DEF Core, ConnMail, Ids, NoId
    <3>4. rig[c] # "acquiring"
      BY <1>1, <3>3 DEF Core, Ctl
    <3> QED
      BY <1>1, <2>2, <3>4 DEF Promised
  <2>4. ASSUME Live(c)' PROVE held'.id = id'[c] /\ conn'[c].up /\ Told(c)'
    <3>1. /\ held.id = id[c] /\ conn[c].up /\ id[c] # NoId
          /\ Waits(c) \/ Asks(c) \/ Told(c)
      BY <1>1, <2>2, <2>4, WhereTheyAre DEF Keeps, Live
    <3>2. Asks(c)
      BY <2>2, <3>1 DEF Waits, Told
    <3>3. r = Renew(c) /\ Tail(conn[c].toSrv) = <<>> /\ conn[c].toCli = <<>>
      BY <3>2, SingleFacts DEF Asks
    <3>4. Expire(held) = held /\ Owns(held, r) /\ r.op = "Renew"
      BY <3>1, <3>2, <3>3 DEF Asks, Expire, Owns, Renew
    <3>5. held' = Renewed(held) /\ ReplyTo(held, r, i) = [op |-> "Ok", id |-> NoId]
      BY <2>1, <3>4 DEF HeldAfter, ReplyTo
    <3>6. held'.id = held.id /\ held'.left = TTL
      BY <1>1, <3>1, <3>5 DEF WholeTtl, Renewed, Types, Leases
    <3>7. /\ conn'[c].toSrv = <<>> /\ conn'[c].toCli = <<[op |-> "Ok", id |-> NoId]>>
      <4>1. /\ conn'[c].toSrv = Tail(conn[c].toSrv)
            /\ conn'[c].toCli = Append(conn[c].toCli, ReplyTo(held, r, i))
        BY ONLY <1>2, <2>2, <3>4, StreamMail
      <4> QED
        BY ONLY <3>3, <3>5, <4>1, SingleFacts
    <3>8. conn'[c].up
      BY <1>2, <2>2, <3>1 DEF Served, Streams
    <3>9. held'.left + late'[c] >= TTL
      BY <1>1, <2>2, <3>6, Times
    <3> QED
      BY <2>2, <3>1, <3>2, <3>6, <3>7, <3>8, <3>9 DEF Asks, Told
  <2> QED
    BY <2>3, <2>4 DEF Keeps
<1>4. CASE ServeFresh(c)
  <2>1. PICK i \in MintChoices :
           /\ held' = HeldAfter(Expire(held), Head(fresh[c].toSrv), i)
           /\ fresh' = [fresh EXCEPT ![c] = Served(fresh[c], Expire(held), i)]
    BY <1>4 DEF ServeFresh
  <2>2. /\ fresh[c].toSrv # <<>> /\ fresh'[c] = Served(fresh[c], Expire(held), i)
        /\ pc'[c] = pc[c] /\ rig'[c] = rig[c] /\ late'[c] = late[c]
    BY <1>1, <1>4, <2>1 DEF ServeFresh, Types
  <2>3. pc[c] = "acquire" /\ fresh[c].toSrv = <<Acquire(c)>> /\ fresh[c].toCli = <<>>
    BY <1>1, <2>2 DEF Core, FreshMail
  <2>4. Keeps(c)'
    BY <1>1, <2>2, <2>3, WhereTheyAre, NothingKept DEF Live
  <2>5. fresh'[c].up
    BY <1>1, <1>2, <2>2, <2>3 DEF Promised, Served, Streams
  <2>6. fresh'[c].toCli = <<ReplyTo(Expire(held), Acquire(c), i)>>
    BY <1>2, <2>2, <2>3, StreamMail, SingleFacts
  <2>7. ASSUME ReplyTo(Expire(held), Acquire(c), i).op = "Granted"
        PROVE  /\ held'.id = ReplyTo(Expire(held), Acquire(c), i).id
               /\ held'.left + late'[c] >= TTL
    <3>1. Expire(held) = NoLease
      BY <2>7 DEF ReplyTo, Acquire
    <3>2. held'.id = i /\ held'.left = TTL /\ ReplyTo(Expire(held), Acquire(c), i).id = i
      BY <1>1, <2>1, <2>3, <3>1, SingleFacts, Times DEF HeldAfter, ReplyTo, Acquire
    <3> QED
      BY <1>1, <2>2, <3>2, Times
  <2>8. Promised(c)'
    BY <2>5, <2>6, <2>7, RangeFacts DEF Promised
  <2> QED
    BY <2>4, <2>8
<1> QED
  BY <1>3, <1>4

\* It is kept by what the process does with its Rig, and by its death.
LEMMA KeptByProcess ==
    ASSUME LeaseInv, RegimeInv, NEW c \in Clients,
           Start(c) \/ Drop(c) \/ Detach(c) \/ Die(c)
    PROVE  Promised(c)' /\ Keeps(c)'
<1>1. Types /\ Core(c) /\ Promised(c)
  BY DEF LeaseInv, RegimeInv
<1>2. CASE Start(c)
  <2>1. /\ pc[c] = "idle" /\ pc'[c] = "connect" /\ rig'[c] = "acquiring"
        /\ fresh'[c] = fresh[c]
    BY <1>1, <1>2 DEF Start, Goto, Types
  <2> QED
    BY <1>1, <2>1, NoFreshMail, NothingPromised, NothingKept
<1>3. CASE Drop(c) \/ Detach(c)
  <2>1. /\ pc'[c] = pc[c] /\ fresh'[c] = fresh[c] /\ rig'[c] \in {"dropping", "detached"}
    BY <1>1, <1>3 DEF Drop, Detach, Types
  <2>2. Promised(c)'
    BY <1>1, <2>1 DEF Promised
  <2> QED
    BY <2>1, <2>2, NothingKept
<1>4. CASE Die(c)
  BY <1>1, <1>4, KeptByEnd DEF Die
<1> QED
  BY <1>2, <1>3, <1>4

-----------------------------------------------------------------------------
(***************************************************************************)
(* The invariant holds always.                                             *)
(***************************************************************************)
\* It holds when the daemon starts.
LEMMA RegimeInit == Init => RegimeInv
<1> SUFFICES ASSUME Init PROVE RegimeInv
  OBVIOUS
<1>1. WholeTtl
  BY DEF Init, NoLease, WholeTtl
<1>2. ASSUME NEW c \in Clients PROVE Promised(c) /\ Keeps(c)
  <2>1. pc[c] = "idle" /\ rig[c] = "none" /\ fresh[c].toCli = <<>>
    BY DEF Init, Closed
  <2> QED
    BY <2>1, RangeFacts DEF Promised, Keeps, Live
<1> QED
  BY <1>1, <1>2 DEF RegimeInv

\* It is inductive in the regime, given LeaseInv.
LEMMA RegimeStep == Prompt /\ LeaseInv /\ RegimeInv /\ [Next]_vars => RegimeInv'
<1> SUFFICES ASSUME Prompt, LeaseInv, RegimeInv, [Next]_vars PROVE RegimeInv'
  OBVIOUS
<1>1. Types /\ WholeTtl
  BY DEF LeaseInv, RegimeInv
<1>2. WholeTtl'
  BY <1>1, WholeTtlStep
<1>3. ~Restart /\ \A c \in Clients : ~BreakConn(c) /\ ~BreakFresh(c)
  BY DEF Prompt, Restart, BreakConn, BreakFresh
<1>4. ASSUME NEW c \in Clients PROVE Promised(c)' /\ Keeps(c)'
  <2>1. CASE Tick
    BY <2>1, KeptByTick
  <2>2. CASE ~Tick
    <3>1. ASSUME NEW d \in Clients, d # c,
                 \/ ClientStep(d)
                 \/ Start(d) \/ Drop(d) \/ Detach(d) \/ Die(d)
                 \/ BreakConn(d) \/ BreakFresh(d) \/ ServeConn(d) \/ ServeFresh(d)
          PROVE  Promised(c)' /\ Keeps(c)'
      BY <1>1, <1>3, <2>2, <3>1, OthersUndisturbed, KeptUndisturbed
    <3>2. CASE ClientStep(c)
      BY <3>2, KeptByAcquire, KeptByRenewal DEF ClientStep
    <3>3. CASE Start(c) \/ Drop(c) \/ Detach(c) \/ Die(c)
      BY <3>3, KeptByProcess
    <3>4. CASE ServeConn(c) \/ ServeFresh(c)
      BY <1>3, <2>2, <3>4, KeptByServer
    <3>5. CASE Aside
      <4>1. Undisturbed(c)
        BY <2>2, <3>5 DEF Aside, ServeOrphan, LoseOrphan, Status, vars, Undisturbed
      <4> QED
        BY <1>3, <2>2, <4>1, KeptUndisturbed
    <3> QED
      BY <1>3, <3>1, <3>2, <3>3, <3>4, <3>5, NextCases
  <2> QED
    BY <2>1, <2>2
<1> QED
  BY <1>2, <1>4 DEF RegimeInv

\* It is an invariant of the regime.
LEMMA RegimeAlways == ASSUME Prompt PROVE Spec => [](LeaseInv /\ RegimeInv)
<1>1. LeaseInv /\ RegimeInv /\ [Next]_vars => RegimeInv'
  BY RegimeStep
<1> QED
  BY <1>1, RegimeInit, LeaseInvAlways, PTL DEF Spec

-----------------------------------------------------------------------------
(***************************************************************************)
(* The theorems.                                                           *)
(***************************************************************************)
\* A client that uses its Rig has the lease, with time left.
LEMMA LiveHolds == Prompt /\ LeaseInv /\ RegimeInv => LiveRigHoldsLease
<1> SUFFICES ASSUME Prompt, LeaseInv, RegimeInv, NEW c \in Clients, Live(c)
             PROVE  held.id = id[c] /\ held.left > 0
  BY DEF LiveRigHoldsLease
<1>1. Types /\ Keeps(c)
  BY DEF LeaseInv, RegimeInv
<1> QED
  BY <1>1, TimeLeft DEF Keeps

\* Two clients that use their Rigs would have the same id.
LEMMA OneLives == Prompt /\ LeaseInv /\ RegimeInv => Exclusive
<1> SUFFICES ASSUME Prompt, LeaseInv, RegimeInv, NEW c \in Clients, NEW d \in Clients,
                    Live(c), Live(d), c # d
             PROVE  FALSE
  BY DEF Exclusive
<1>1. held.id = id[c] /\ held.id = id[d]
  BY LiveHolds DEF LiveRigHoldsLease
<1>2. id[c] # NoId
  BY DEF LeaseInv, Core, Ctl, Live
<1>3. id[c] \in Caps(c) /\ id[d] \in Caps(d)
  BY <1>1, <1>2 DEF Caps
<1> QED
  BY <1>1, <1>3 DEF LeaseInv, CapabilityUnique

\* While the network is prompt and pauses are short, a Rig in use holds the
\* server's unexpired lease at every moment: renew_loop is never late.
THEOREM LeaseIsHeld == ASSUME Prompt PROVE Spec => []LiveRigHoldsLease
<1>1. LeaseInv /\ RegimeInv => LiveRigHoldsLease
  BY LiveHolds
<1> QED
  BY <1>1, RegimeAlways, PTL

\* renew_loop's way out, "expired (long pause)", and its reconnect are not taken
\* there while the Rig is in use: it waits or renews, and is not told Gone.
THEOREM RenewalsSucceed ==
    ASSUME Prompt
    PROVE  Spec => [](\A c \in Clients : Live(c) => pc[c] \in {"hold", "renew"} /\ ~GoneTold(c))
<1>1. LeaseInv /\ RegimeInv =>
         \A c \in Clients : Live(c) => pc[c] \in {"hold", "renew"} /\ ~GoneTold(c)
  <2> SUFFICES ASSUME LeaseInv, RegimeInv, NEW c \in Clients, Live(c)
               PROVE  pc[c] \in {"hold", "renew"} /\ ~GoneTold(c)
    OBVIOUS
  <2>1. Core(c) /\ Keeps(c)
    BY DEF LeaseInv, RegimeInv
  <2>2. conn[c].toCli \in {<<>>, <<[op |-> "Ok", id |-> NoId]>>}
    BY <2>1 DEF Keeps, Waits, Asks, Told
  <2>3. ~GoneTold(c)
    BY <2>2, RangeFacts DEF GoneTold
  <2> QED
    BY <2>1, <2>3, WhereTheyAre
<1> QED
  BY <1>1, RegimeAlways, PTL

\* "Semantics mirror the flock: one holder at a time": in that regime no two
\* clients of LeaseClient::acquire ever use the rig together.
THEOREM OneHolder == ASSUME Prompt PROVE Spec => []Exclusive
<1>1. LeaseInv /\ RegimeInv => Exclusive
  BY OneLives
<1> QED
  BY <1>1, RegimeAlways, PTL

-----------------------------------------------------------------------------
(***************************************************************************)
(* The lease implements RigMutex.                                          *)
(***************************************************************************)
\* User, the refinement mapping, says who uses the rig.
UserRight ==
    /\ \A c \in Clients : Live(c) => User = c
    /\ (\A c \in Clients : ~Live(c)) => User = NoClient

\* It does when one client at most uses the rig.
LEMMA UserIs == Exclusive => UserRight
<1> SUFFICES ASSUME Exclusive PROVE UserRight
  OBVIOUS
<1>1. ASSUME NEW c \in Clients, Live(c) PROVE User = c
  <2>1. InUse = {c}
    BY <1>1 DEF InUse, Exclusive
  <2> QED
    BY <2>1 DEF User
<1>2. ASSUME \A c \in Clients : ~Live(c) PROVE User = NoClient
  <2>1. InUse = {}
    BY <1>2 DEF InUse
  <2> QED
    BY <2>1 DEF User
<1> QED
  BY <1>1, <1>2 DEF UserRight

\* The same after a step.
LEMMA UserIsNext == Exclusive' => UserRight'
BY UserIs, PTL

\* The value of RigMutex's variable.
Users == [r \in {"rig"} |-> User]

\* Initial states map to initial states.
LEMMA MutexInit == Init => Mutex!Init
<1> SUFFICES ASSUME Init PROVE Mutex!Init
  OBVIOUS
<1>1. InUse = {}
  BY DEF Init, InUse, Live
<1> QED
  BY <1>1 DEF Mutex!Init, User

\* A step that changes who uses the rig takes it when nobody does, or frees it.
UseStep ==
    \/ \A c \in Clients : Live(c)' <=> Live(c)
    \/ \E c \in Clients :
          /\ \A d \in Clients : ~Live(d)
          /\ \A d \in Clients : Live(d)' <=> (d = c)
    \/ \E c \in Clients :
          /\ Live(c)
          /\ \A d \in Clients : Live(d)' <=> (Live(d) /\ d # c)

\* Such a step is one of RigMutex, or a stutter.
LEMMA UseStepMaps ==
    ASSUME Exclusive, Exclusive', UseStep
    PROVE  Mutex!Next \/ UNCHANGED Users
<1>0. UserRight /\ UserRight'
  BY UserIs, UserIsNext
<1>1. CASE \A c \in Clients : Live(c)' <=> Live(c)
  <2>1. User' = User
    BY <1>0, <1>1 DEF UserRight
  <2> QED
    BY <2>1 DEF Users
<1>2. ASSUME NEW c \in Clients, \A d \in Clients : ~Live(d),
             \A d \in Clients : Live(d)' <=> (d = c)
      PROVE  Mutex!Next
  <2>1. User = NoClient /\ User' = c
    BY <1>0, <1>2 DEF UserRight
  <2>2. Mutex!Take("rig", c)
    BY <2>1 DEF Mutex!Take
  <2> QED
    BY <2>2 DEF Mutex!Next
<1>3. ASSUME NEW c \in Clients, Live(c), \A d \in Clients : Live(d)' <=> (Live(d) /\ d # c)
      PROVE  Mutex!Next
  <2>1. \A d \in Clients : ~Live(d)'
    BY <1>3 DEF Exclusive
  <2>2. User = c /\ User' = NoClient
    BY <1>0, <1>3, <2>1 DEF UserRight
  <2>3. Mutex!Free("rig", c)
    BY <2>2 DEF Mutex!Free
  <2> QED
    BY <2>3 DEF Mutex!Next
<1> QED
  BY <1>1, <1>2, <1>3 DEF UseStep

\* A grant is only read while nobody uses the rig.
LEMMA GrantsMeetNobody ==
    ASSUME Prompt, LeaseInv, RegimeInv, NEW c \in Clients, Granted(c), rig[c] = "acquiring",
           NEW d \in Clients
    PROVE  ~Live(d)
<1> SUFFICES ASSUME Live(d) PROVE FALSE
  OBVIOUS
<1>1. Types /\ Core(c) /\ Core(d) /\ Promised(c)
  BY DEF LeaseInv, RegimeInv
<1>2. fresh[c].toCli = <<Answer(c)>> /\ Answer(c).op = "Granted"
  BY <1>1, AcquireAnswer DEF Granted
<1>3. Answer(c) \in Range(fresh[c].toCli)
  BY <1>2, RangeFacts
<1>4. held.id = Answer(c).id /\ held.id \in Caps(c)
  BY <1>1, <1>2, <1>3, GrantsAreCaps DEF Promised
<1>5. held.id = id[d] /\ id[d] # NoId
  BY <1>1, LiveHolds DEF LiveRigHoldsLease, Core, Ctl, Live
<1>6. held.id \in Caps(d) /\ c # d
  BY <1>5 DEF Caps, Live
<1> QED
  BY <1>4, <1>6 DEF LeaseInv, CapabilityUnique

\* The steps that change who uses the rig are the grant to an acquire, the drop
\* of the Rig and the death of its process.
LEMMA UseSteps ==
    ASSUME Prompt, LeaseInv, RegimeInv, [Next]_vars
    PROVE  UseStep
<1>1. Types
  BY DEF LeaseInv
<1>2. ASSUME NEW c \in Clients,
             \A d \in Clients : d # c => rig'[d] = rig[d],
             rig'[c] = rig[c] \/ (rig[c] # "live" /\ rig'[c] # "live")
      PROVE  UseStep
  BY <1>2 DEF UseStep, Live
<1>3. ASSUME NEW c \in Clients, ThreadEnds(c) PROVE UseStep
  <2>1. rig'[c] = "none" /\ \A d \in Clients : d # c => rig'[d] = rig[d]
    BY <1>1, <1>3 DEF ThreadEnds, Types
  <2>2. CASE Live(c)
    <3>1. \A d \in Clients : Live(d)' <=> (Live(d) /\ d # c)
      BY <2>1 DEF Live
    <3> QED
      BY <2>2, <3>1 DEF UseStep
  <2>3. CASE ~Live(c)
    BY <1>2, <2>1, <2>3 DEF Live
  <2> QED
    BY <2>2, <2>3
<1>4. ASSUME NEW c \in Clients, AttemptFails(c) PROVE UseStep
  <2>1. /\ \A d \in Clients : d # c => rig'[d] = rig[d]
        /\ \/ rig'[c] = rig[c]
           \/ rig[c] = "acquiring" /\ rig'[c] = "none"
    BY <1>1, <1>4 DEF AttemptFails, GiveUp, KeepOldLease, Types
  <2> QED
    BY ONLY <1>2, <2>1, c \in Clients
<1>5. ASSUME NEW c \in Clients, Granted(c) PROVE UseStep
  <2>1. CASE rig[c] = "acquiring"
    <3>1. rig' = [rig EXCEPT ![c] = "live"]
      BY <1>5, <2>1 DEF Granted
    <3>2. \A d \in Clients : ~Live(d)
      BY <1>5, <2>1, GrantsMeetNobody
    <3>3. \A d \in Clients : Live(d)' <=> (d = c)
      BY <1>1, <3>1, <3>2 DEF Live, Types
    <3> QED
      BY <3>2, <3>3 DEF UseStep
  <2>2. CASE rig[c] # "acquiring"
    BY <1>5, <2>2 DEF Granted, UseStep, Live
  <2> QED
    BY <2>1, <2>2
<1>6. ASSUME NEW c \in Clients, Drop(c) PROVE UseStep
  <2>1. \A d \in Clients : Live(d)' <=> (Live(d) /\ d # c)
    BY <1>1, <1>6 DEF Drop, Live, Types
  <2> QED
    BY <1>6, <2>1 DEF Drop, Live, UseStep
<1>7. ASSUME NEW c \in Clients, Start(c) \/ Detach(c) PROVE UseStep
  <2>1. /\ \A d \in Clients : d # c => rig'[d] = rig[d]
        /\ rig[c] # "live" /\ rig'[c] # "live"
    BY <1>1, <1>7 DEF Start, Detach, Types
  <2> QED
    BY <1>2, <2>1
<1>8. CASE UNCHANGED rig
  BY <1>8 DEF UseStep, Live
<1> QED
  BY <1>3, <1>4, <1>5, <1>6, <1>7, <1>8
  DEF Next, ServerStep, ClientStep, ConnectOk, ConnectErr, AcquireErr, BusyRetry, BusyFail, Retry,
      SendRenew, RenewOk, RenewGone, RenewErr, SeeStop, Released, Die, ServeConn, ServeFresh,
      ServeOrphan, Status, BreakConn, BreakFresh, LoseOrphan, Restart, Tick, vars

\* "Semantics mirror the flock": in the regime the network lease implements the
\* same RigMutex as the lock files do.
THEOREM LeaseIsMutex == ASSUME Prompt PROVE Spec => ImplementsRigMutex
<1>1. LeaseInv /\ RegimeInv => Exclusive
  BY OneLives
<1>2. LeaseInv /\ RegimeInv /\ [Next]_vars => UseStep
  BY UseSteps
<1>3. Exclusive /\ Exclusive' /\ UseStep => [Mutex!Next]_Users
  BY UseStepMaps
<1> QED
  BY <1>1, <1>2, <1>3, RegimeAlways, MutexInit, PTL DEF Spec, ImplementsRigMutex, Mutex!Spec, Users
=============================================================================

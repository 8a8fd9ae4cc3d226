---------------------------- MODULE LeaseProofs ----------------------------
(***************************************************************************)
(* Proofs about Lease, for any number of clients, any timing and any set   *)
(* of faults: its types, that lease ids are capabilities of one client,    *)
(* that no late request frees a lease in use, and that a lease in use is   *)
(* only displaced after it has expired.                                    *)
(***************************************************************************)
EXTENDS Lease, SequenceTheorems, TLAPS

-----------------------------------------------------------------------------
(***************************************************************************)
(* Sequences, messages and streams.                                        *)
(***************************************************************************)
\* A queue with a message appended, and its elements.
LEMMA AppendFacts ==
    ASSUME NEW S, NEW q \in Seq(S), NEW m \in S
    PROVE  Append(q, m) \in Seq(S) /\ Range(Append(q, m)) = Range(q) \union {m}
<1>1. /\ Append(q, m) \in Seq(S)
      /\ Len(Append(q, m)) = Len(q) + 1
      /\ \A i \in 1..Len(q) : Append(q, m)[i] = q[i]
      /\ Append(q, m)[Len(q) + 1] = m
  BY AppendProperties
<1>2. Range(q) = {q[i] : i \in 1..Len(q)}
  BY RangeEquality
<1>3. Range(Append(q, m)) = {Append(q, m)[i] : i \in 1..(Len(q) + 1)}
  BY <1>1, RangeEquality
<1>4. Len(q) \in Nat
  BY LenProperties
<1> QED
  BY <1>1, <1>2, <1>3, <1>4

\* The head of a queue is one of its elements, and its tail has no others.
LEMMA TailFacts ==
    ASSUME NEW S, NEW q \in Seq(S), q # <<>>
    PROVE  /\ Head(q) \in Range(q)
           /\ Tail(q) \in Seq(S)
           /\ Range(Tail(q)) \subseteq Range(q)
BY DEF Range

\* The elements of an empty queue, of a queue of one, and of a queue over S.
LEMMA RangeFacts ==
    /\ Range(<<>>) = {}
    /\ \A m : Range(<<m>>) = {m}
    /\ \A S : \A q \in Seq(S) : Range(q) \subseteq S
<1>1. Range(<<>>) = {} /\ \A m : Range(<<m>>) = {m}
  BY DEF Range
<1>2. ASSUME NEW S, NEW q \in Seq(S) PROVE Range(q) \subseteq S
  BY RangeOfSeq
<1> QED
  BY <1>1, <1>2

\* IdsIn in terms of the elements of a queue.
LEMMA IdsInFacts == \A q : IdsIn(q) = {r.id : r \in Range(q)}
BY DEF IdsIn, Range

\* A queue of one, and an append to the empty queue.
LEMMA SingleFacts ==
    \A m : /\ <<m>> # <<>> /\ Head(<<m>>) = m /\ Tail(<<m>>) = <<>>
           /\ Append(<<>>, m) = <<m>>
OBVIOUS

\* LeaseServer::handle answers every request with a reply.
LEMMA ReplyType ==
    ASSUME NEW h, NEW r \in Requests, NEW i \in Ids
    PROVE  ReplyTo(h, r, i) \in Replies
BY DEF ReplyTo, Replies, Requests

\* What the client, the server and the network do to a stream leaves a stream.
LEMMA StreamTypes ==
    /\ Closed \in Streams /\ Opened \in Streams
    /\ \A s \in Streams : Broken(s) \in Streams
    /\ \A s \in Streams, m \in Requests : Send(s, m) \in Streams
    /\ \A s \in Streams : s.toCli # <<>> => Receive(s) \in Streams
    /\ \A h : \A s \in Streams, i \in Ids : s.toSrv # <<>> => Served(s, h, i) \in Streams
<1> USE EmptySeq
<1>1. Closed \in Streams /\ Opened \in Streams
  BY DEF Closed, Opened, Streams
<1>5. ASSUME NEW s \in Streams PROVE Broken(s) \in Streams
  BY DEF Broken, Streams
<1>2. ASSUME NEW s \in Streams, NEW m \in Requests PROVE Send(s, m) \in Streams
  BY AppendFacts DEF Send, Streams
<1>3. ASSUME NEW s \in Streams, s.toCli # <<>> PROVE Receive(s) \in Streams
  BY <1>3, TailFacts DEF Receive, Streams
<1>4. ASSUME NEW s \in Streams, NEW h, NEW i \in Ids, s.toSrv # <<>>
      PROVE  Served(s, h, i) \in Streams
  <2>1. s.toSrv \in Seq(Requests) /\ s.toCli \in Seq(Replies)
    BY DEF Streams
  <2>2. Head(s.toSrv) \in Requests /\ Tail(s.toSrv) \in Seq(Requests)
    BY <1>4, <2>1, TailFacts, RangeFacts
  <2>3. Append(s.toCli, ReplyTo(h, Head(s.toSrv), i)) \in Seq(Replies)
    BY <2>1, <2>2, ReplyType, AppendFacts
  <2> QED
    BY <2>2, <2>3 DEF Served, Streams
<1> QED
  BY <1>1, <1>2, <1>3, <1>4, <1>5

\* What becomes of the requests on a stream that is dropped.
LEMMA OrphanFacts ==
    ASSUME NEW o \in [Slots -> Seq(Requests)], NEW q \in Seq(Requests), NEW o2 \in Orphan(o, q)
    PROVE  /\ o2 \in [Slots -> Seq(Requests)]
           /\ \A s \in Slots : o2[s] = o[s] \/ o2[s] = q
BY DEF Orphan

\* mint_lease_id returns an id that is not in use.
LEMMA MintFacts ==
    ASSUME NEW i \in MintChoices
    PROVE  i \in Ids /\ i \notin UsedIds
BY DEF MintChoices

\* The server's state is a lease, or none, after every request.
LEMMA HeldTypes ==
    ASSUME NEW h \in Leases, NEW r \in Requests, NEW i \in Ids
    PROVE  Expire(h) \in Leases /\ HeldAfter(Expire(h), r, i) \in Leases
<1> USE TimesAssumption
<1>1. NoLease \in Leases
  BY DEF NoLease, Leases
<1>2. Expire(h) \in Leases
  BY <1>1 DEF Expire
<1>3. Clamp(TTL) \in 0..ClampMax
  BY DEF Clamp
<1>4. Renewed(Expire(h)) \in Leases
  BY <1>2 DEF Renewed, Leases
<1>5. [id |-> i, holder |-> r.from, left |-> Clamp(TTL), ttl |-> Clamp(TTL)] \in Leases
  BY <1>3 DEF Leases, Requests
<1>6. r.op \in {"Acquire", "Renew", "Release"}
  BY DEF Requests
<1> QED
  BY <1>1, <1>2, <1>4, <1>5, <1>6 DEF HeldAfter

-----------------------------------------------------------------------------
(***************************************************************************)
(* Types.                                                                  *)
(***************************************************************************)
\* What the types say of one client, its requests and its streams.
LEMMA ClientTypes ==
    ASSUME Types, NEW c \in Clients
    PROVE  /\ Acquire(c) \in Requests /\ Renew(c) \in Requests /\ Release(c) \in Requests
           /\ conn[c] \in Streams /\ fresh[c] \in Streams
           /\ conn[c].toSrv \in Seq(Requests) /\ fresh[c].toSrv \in Seq(Requests)
           /\ conn[c].toCli \in Seq(Replies) /\ fresh[c].toCli \in Seq(Replies)
BY DEF Types, Acquire, Renew, Release, Requests, Streams

\* The countdowns are natural numbers.
LEMMA TimeTypes ==
    /\ \A n \in Nat : Less(n) \in Nat
    /\ Period \in Nat
    /\ \A h \in Leases : [h EXCEPT !.left = Less(@)] \in Leases
BY TimesAssumption DEF Less, Period, Leases

\* The types hold when the daemon starts.
LEMMA TypesInit == Init => Types
<1>1. NoLease \in Leases
  BY TimesAssumption DEF NoLease, Leases
<1> QED
  BY <1>1, StreamTypes, EmptySeq, TimesAssumption DEF Init, Types

\* The types are kept by the handling of a request, whatever stream it is on.
LEMMA ServerTypes ==
    ASSUME Types, ServerStep
    PROVE  Types'
<1>1. ASSUME NEW c \in Clients, ServeConn(c) PROVE Types'
  <2>1. PICK i \in MintChoices :
           /\ held' = HeldAfter(Expire(held), Head(conn[c].toSrv), i)
           /\ conn' = [conn EXCEPT ![c] = Served(conn[c], Expire(held), i)]
    BY <1>1 DEF ServeConn
  <2>2. Head(conn[c].toSrv) \in Requests
    BY <1>1, ClientTypes, TailFacts, RangeFacts DEF ServeConn
  <2>3. held' \in Leases
    BY <2>1, <2>2, HeldTypes, MintFacts DEF Types
  <2>4. Served(conn[c], Expire(held), i) \in Streams
    BY <1>1, MintFacts, StreamTypes, ClientTypes DEF ServeConn
  <2> QED
    BY <1>1, <2>1, <2>3, <2>4 DEF ServeConn, Types
<1>2. ASSUME NEW c \in Clients, ServeFresh(c) PROVE Types'
  <2>1. PICK i \in MintChoices :
           /\ held' = HeldAfter(Expire(held), Head(fresh[c].toSrv), i)
           /\ fresh' = [fresh EXCEPT ![c] = Served(fresh[c], Expire(held), i)]
    BY <1>2 DEF ServeFresh
  <2>2. Head(fresh[c].toSrv) \in Requests
    BY <1>2, ClientTypes, TailFacts, RangeFacts DEF ServeFresh
  <2>3. held' \in Leases
    BY <2>1, <2>2, HeldTypes, MintFacts DEF Types
  <2>4. Served(fresh[c], Expire(held), i) \in Streams
    BY <1>2, MintFacts, StreamTypes, ClientTypes DEF ServeFresh
  <2> QED
    BY <1>2, <2>1, <2>3, <2>4 DEF ServeFresh, Types
<1>3. ASSUME NEW s \in Slots, ServeOrphan(s) PROVE Types'
  <2>1. PICK i \in MintChoices : held' = HeldAfter(Expire(held), Head(orphan[s]), i)
    BY <1>3 DEF ServeOrphan
  <2>2. Head(orphan[s]) \in Requests /\ Tail(orphan[s]) \in Seq(Requests)
    BY <1>3, TailFacts, RangeFacts DEF ServeOrphan, Types
  <2>3. held' \in Leases
    BY <2>1, <2>2, HeldTypes, MintFacts DEF Types
  <2> QED
    BY <1>3, <2>2, <2>3 DEF ServeOrphan, Types
<1> QED
  BY <1>1, <1>2, <1>3 DEF ServerStep

\* Moving a client's program counter, and replacing one of its streams.
LEMMA MoveTypes ==
    ASSUME Types, NEW c \in Clients, NEW t \in Nat,
           NEW p \in {"idle", "connect", "acquire", "backoff", "hold", "renew", "release"},
           Goto(c, p, t)
    PROVE  /\ pc' \in [Clients -> {"idle", "connect", "acquire", "backoff", "hold", "renew", "release"}]
           /\ clk' \in [Clients -> Nat]
BY DEF Types, Goto

\* Putting another stream in the place of a client's stream.
LEMMA ReplaceTypes ==
    ASSUME Types, NEW c \in Clients, NEW s \in Streams
    PROVE  /\ [conn EXCEPT ![c] = s] \in [Clients -> Streams]
           /\ [fresh EXCEPT ![c] = s] \in [Clients -> Streams]
BY DEF Types

\* Resetting a client's lateness, deadline, Rig or id.
LEMMA ResetTypes ==
    ASSUME Types, NEW c \in Clients
    PROVE  /\ [late EXCEPT ![c] = 0] \in [Clients -> 0..MaxPause]
           /\ \A t \in Nat : [deadline EXCEPT ![c] = t] \in [Clients -> Nat]
           /\ \A r \in {"none", "acquiring", "live", "dropping", "detached"} :
                 [rig EXCEPT ![c] = r] \in [Clients -> {"none", "acquiring", "live", "dropping", "detached"}]
           /\ \A i \in Ids \union {NoId} : [id EXCEPT ![c] = i] \in [Clients -> Ids \union {NoId}]
BY TimesAssumption DEF Types

\* The types are kept when a renew thread ends.
LEMMA ThreadEndsTypes ==
    ASSUME Types, NEW c \in Clients, ThreadEnds(c), UNCHANGED held
    PROVE  Types'
<1> USE ClientTypes, TimesAssumption
<1>1. PICK o \in Orphan(orphan, conn[c].toSrv) : orphan' \in Orphan(o, fresh[c].toSrv)
  BY DEF ThreadEnds
<1>2. o \in [Slots -> Seq(Requests)]
  BY OrphanFacts DEF Types
<1>3. orphan' \in [Slots -> Seq(Requests)]
  BY <1>1, <1>2, OrphanFacts
<1>4. /\ pc' \in [Clients -> {"idle", "connect", "acquire", "backoff", "hold", "renew", "release"}]
      /\ clk' \in [Clients -> Nat]
  BY MoveTypes DEF ThreadEnds
<1>5. conn' \in [Clients -> Streams] /\ fresh' \in [Clients -> Streams]
  BY ReplaceTypes, StreamTypes DEF ThreadEnds
<1>6. /\ rig' \in [Clients -> {"none", "acquiring", "live", "dropping", "detached"}]
      /\ id' \in [Clients -> Ids \union {NoId}]
      /\ late' \in [Clients -> 0..MaxPause] /\ deadline' \in [Clients -> Nat]
  BY ResetTypes DEF ThreadEnds
<1> QED
  BY <1>3, <1>4, <1>5, <1>6 DEF ThreadEnds, Types

\* The types are kept by every step of acquire and of renew_loop.
LEMMA ClientStepTypes ==
    ASSUME Types, NEW c \in Clients, ClientStep(c)
    PROVE  Types'
<1> USE ClientTypes, MoveTypes, ReplaceTypes, ResetTypes, StreamTypes, TimesAssumption, TimeTypes
<1> DEFINE PcOK == /\ pc' \in [Clients -> {"idle", "connect", "acquire", "backoff", "hold", "renew", "release"}]
                   /\ clk' \in [Clients -> Nat]
           RigOK == /\ rig' \in [Clients -> {"none", "acquiring", "live", "dropping", "detached"}]
                    /\ deadline' \in [Clients -> Nat]
           ConnOK == conn' \in [Clients -> Streams]
           FreshOK == fresh' \in [Clients -> Streams]
           LateOK == late' \in [Clients -> 0..MaxPause]
<1>1. CASE ConnectOk(c)
  <2>1. PcOK
    BY <1>1 DEF ConnectOk
  <2>2. FreshOK
    BY <1>1 DEF ConnectOk
  <2>3. LateOK
    BY <1>1 DEF ConnectOk
  <2> QED
    BY <1>1, <2>1, <2>2, <2>3 DEF ConnectOk, Types
<1>2. ASSUME AttemptFails(c) PROVE Types'
  <2>1. orphan' \in [Slots -> Seq(Requests)]
    BY <1>2, OrphanFacts DEF AttemptFails, Types
  <2>2. PcOK
    BY <1>2 DEF AttemptFails, GiveUp, KeepOldLease
  <2>3. FreshOK
    BY <1>2 DEF AttemptFails
  <2>4. RigOK
    <3>1. CASE GiveUp(c)
      BY <3>1 DEF GiveUp
    <3>2. CASE KeepOldLease(c)
      BY <3>2 DEF KeepOldLease, Types
    <3> QED
      BY <1>2, <3>1, <3>2 DEF AttemptFails
  <2> QED
    BY <1>2, <2>1, <2>2, <2>3, <2>4 DEF AttemptFails, Types
<1>3. CASE Granted(c)
  <2>1. orphan' \in [Slots -> Seq(Requests)]
    <3>1. orphan' \in Orphan(orphan, conn[c].toSrv)
      BY <1>3 DEF Granted
    <3>2. orphan \in [Slots -> Seq(Requests)]
      BY DEF Types
    <3>3. conn[c].toSrv \in Seq(Requests)
      BY ClientTypes
    <3> QED
      BY ONLY <3>1, <3>2, <3>3, OrphanFacts
  <2>2. Answer(c) \in Replies
    BY <1>3, TailFacts, RangeFacts DEF Granted, Answered, Answer, Awaited
  <2>3. Receive(fresh[c]) \in Streams
    BY <1>3 DEF Granted, Answered, Awaited
  <2>4. PcOK
    BY <1>3 DEF Granted
  <2>5. ConnOK /\ FreshOK
    BY <1>3, <2>3 DEF Granted
  <2>6. RigOK
    <3>1. CASE rig[c] = "acquiring"
      <4>1. rig' = [rig EXCEPT ![c] = "live"] /\ deadline' = [deadline EXCEPT ![c] = 0]
        BY <1>3, <3>1 DEF Granted
      <4> QED
        BY <4>1
    <3>2. CASE rig[c] # "acquiring"
      BY <1>3, <3>2 DEF Granted, Types
    <3> QED
      BY <3>1, <3>2
  <2>7. id' \in [Clients -> Ids \union {NoId}]
    BY <1>3, <2>2 DEF Granted, Replies
  <2> QED
    BY <1>3, <2>1, <2>4, <2>5, <2>6, <2>7 DEF Granted, Types
<1>4. CASE BusyRetry(c)
  <2>1. Receive(fresh[c]) \in Streams
    BY <1>4 DEF BusyRetry, Answered, Awaited
  <2>2. PcOK
    BY <1>4 DEF BusyRetry
  <2>3. FreshOK
    BY <1>4, <2>1 DEF BusyRetry
  <2> QED
    BY <1>4, <2>2, <2>3 DEF BusyRetry, Types
<1>5. CASE Retry(c)
  <2>1. PcOK
    BY <1>5 DEF Retry
  <2>2. FreshOK
    BY <1>5 DEF Retry
  <2>3. LateOK
    BY <1>5 DEF Retry
  <2> QED
    BY <1>5, <2>1, <2>2, <2>3 DEF Retry, Types
<1>6. CASE SendRenew(c)
  <2>1. PcOK
    BY <1>6 DEF SendRenew
  <2>2. ConnOK
    BY <1>6 DEF SendRenew
  <2>3. LateOK
    BY <1>6 DEF SendRenew
  <2> QED
    BY <1>6, <2>1, <2>2, <2>3 DEF SendRenew, Types
<1>7. CASE RenewOk(c) \/ RenewGone(c)
  <2>1. Receive(conn[c]) \in Streams
    BY <1>7 DEF RenewOk, RenewGone, Answered, Awaited
  <2>2. PcOK
    BY <1>7 DEF RenewOk, RenewGone
  <2>3. conn' = [conn EXCEPT ![c] = Receive(conn[c])]
    BY <1>7 DEF RenewOk, RenewGone
  <2>4. ConnOK
    BY <2>1, <2>3
  <2> QED
    BY <1>7, <2>2, <2>4 DEF RenewOk, RenewGone, Types
<1>10. CASE SeeStop(c)
  <2>1. PcOK
    BY <1>10 DEF SeeStop
  <2>2. ConnOK
    BY <1>10 DEF SeeStop
  <2>3. LateOK
    BY <1>10 DEF SeeStop
  <2> QED
    BY <1>10, <2>1, <2>2, <2>3 DEF SeeStop, Types
<1>8. CASE RenewErr(c)
  <2>1. PcOK
    BY <1>8 DEF RenewErr
  <2> QED
    BY <1>8, <2>1 DEF RenewErr, Types
<1>9. CASE Released(c)
  BY <1>9, ThreadEndsTypes DEF Released
<1> QED
  BY <1>1, <1>2, <1>3, <1>4, <1>5, <1>6, <1>7, <1>8, <1>9, <1>10
  DEF ClientStep, ConnectErr, AcquireErr, BusyFail

\* The types are kept by the start, the drop, the death of a client and by the
\* loss of its streams.
LEMMA OtherTypes ==
    ASSUME Types, NEW c \in Clients,
           Start(c) \/ Drop(c) \/ Detach(c) \/ Die(c) \/ BreakConn(c) \/ BreakFresh(c)
    PROVE  Types'
<1> USE ClientTypes, MoveTypes, ReplaceTypes, ResetTypes, StreamTypes, TimesAssumption
<1>1. CASE Start(c)
  <2>1. /\ pc' \in [Clients -> {"idle", "connect", "acquire", "backoff", "hold", "renew", "release"}]
        /\ clk' \in [Clients -> Nat]
    BY <1>1 DEF Start
  <2>2. /\ rig' \in [Clients -> {"none", "acquiring", "live", "dropping", "detached"}]
        /\ deadline' \in [Clients -> Nat] /\ late' \in [Clients -> 0..MaxPause]
    BY <1>1 DEF Start
  <2> QED
    BY <1>1, <2>1, <2>2 DEF Start, Types
<1>2. CASE Drop(c)
  BY <1>2 DEF Drop, Types
<1>6. CASE Detach(c)
  BY <1>6 DEF Detach, Types
<1>3. CASE Die(c)
  BY <1>3, ThreadEndsTypes DEF Die
<1>4. CASE BreakConn(c)
  <2>1. orphan' \in [Slots -> Seq(Requests)]
    <3>1. orphan' \in Orphan(orphan, conn[c].toSrv)
      BY <1>4 DEF BreakConn
    <3>2. orphan \in [Slots -> Seq(Requests)]
      BY DEF Types
    <3>3. conn[c].toSrv \in Seq(Requests)
      BY ClientTypes
    <3> QED
      BY ONLY <3>1, <3>2, <3>3, OrphanFacts
  <2>2. conn' \in [Clients -> Streams]
    BY <1>4 DEF BreakConn
  <2> QED
    BY <1>4, <2>1, <2>2 DEF BreakConn, Types
<1>5. CASE BreakFresh(c)
  <2>1. orphan' \in [Slots -> Seq(Requests)]
    <3>1. orphan' \in Orphan(orphan, fresh[c].toSrv)
      BY <1>5 DEF BreakFresh
    <3>2. orphan \in [Slots -> Seq(Requests)]
      BY DEF Types
    <3>3. fresh[c].toSrv \in Seq(Requests)
      BY ClientTypes
    <3> QED
      BY ONLY <3>1, <3>2, <3>3, OrphanFacts
  <2>2. fresh' \in [Clients -> Streams]
    BY <1>5 DEF BreakFresh
  <2> QED
    BY <1>5, <2>1, <2>2 DEF BreakFresh, Types
<1> QED
  BY <1>1, <1>2, <1>3, <1>4, <1>5, <1>6

\* Types is inductive by itself.
LEMMA TypesStep == Types /\ [Next]_vars => Types'
<1> SUFFICES ASSUME Types, [Next]_vars PROVE Types'
  OBVIOUS
<1>1. CASE ServerStep
  BY <1>1, ServerTypes
<1>2. ASSUME NEW c \in Clients, ClientStep(c) PROVE Types'
  BY <1>2, ClientStepTypes
<1>3. ASSUME NEW c \in Clients,
             Start(c) \/ Drop(c) \/ Detach(c) \/ Die(c) \/ BreakConn(c) \/ BreakFresh(c)
      PROVE  Types'
  BY <1>3, OtherTypes
<1>4. CASE Status
  <2>1. Expire(held) \in Leases
    BY TimesAssumption DEF Types, Expire, NoLease, Leases
  <2> QED
    BY <1>4, <2>1 DEF Status, Types
<1>5. ASSUME NEW s \in Slots, LoseOrphan(s) PROVE Types'
  BY <1>5, EmptySeq DEF LoseOrphan, Types
<1>6. CASE Restart
  <2>1. NoLease \in Leases
    BY TimesAssumption DEF NoLease, Leases
  <2>2. /\ [c \in Clients |-> Broken(conn[c])] \in [Clients -> Streams]
        /\ [c \in Clients |-> Broken(fresh[c])] \in [Clients -> Streams]
    BY StreamTypes DEF Types
  <2>3. [s \in Slots |-> <<>>] \in [Slots -> Seq(Requests)]
    BY EmptySeq
  <2> QED
    BY <1>6, <2>1, <2>2, <2>3 DEF Restart, Types
<1>7. CASE Tick
  <2>1. held' \in Leases
    BY <1>7, TimeTypes DEF Tick, Types
  <2>2. clk' \in [Clients -> Nat] /\ deadline' \in [Clients -> Nat]
    BY <1>7, TimeTypes DEF Tick, Types
  <2>3. late' \in [Clients -> 0..MaxPause]
    BY <1>7, TimesAssumption DEF Tick, Types
  <2>4. UNCHANGED <<pc, rig, id, conn, fresh, orphan>>
    BY <1>7 DEF Tick
  <2> QED
    BY <2>1, <2>2, <2>3, <2>4 DEF Types
<1>8. CASE UNCHANGED vars
  BY <1>8 DEF vars, Types
<1> QED
  BY <1>1, <1>2, <1>3, <1>4, <1>5, <1>6, <1>7, <1>8 DEF Next

-----------------------------------------------------------------------------
(***************************************************************************)
(* Control: where a client can be, and what can be on its two streams.     *)
(***************************************************************************)
\* Where a client is, given what its process does with its Rig; an id comes with it.
Ctl(c) ==
    /\ pc[c] = "idle" <=> rig[c] = "none"
    /\ rig[c] = "acquiring" => pc[c] \in {"connect", "acquire", "backoff"}
    /\ pc[c] = "backoff" => rig[c] = "acquiring"
    /\ pc[c] = "release" => rig[c] \in {"dropping", "detached"}
    /\ id[c] = NoId <=> rig[c] \in {"none", "acquiring"}

\* On the stream of an acquire: nothing, the request, or its answer.
FreshMail(c) ==
    \/ fresh[c].toSrv = <<>> /\ fresh[c].toCli = <<>>
    \/ pc[c] = "acquire" /\ fresh[c].toSrv = <<Acquire(c)>> /\ fresh[c].toCli = <<>>
    \/ /\ pc[c] = "acquire" /\ fresh[c].toSrv = <<>>
       /\ \E m : /\ fresh[c].toCli = <<m>>
                 /\ \/ m.op = "Granted" /\ m.id \in Ids
                    \/ m.op = "Busy" /\ m.id = NoId

\* On the stream of the renew loop: requests about the lease it has.
ConnMail(c) ==
    /\ \A r \in Range(conn[c].toSrv) :
          /\ r.op \in {"Renew", "Release"}
          /\ r.id = id[c] /\ r.id \in Ids
          /\ r.op = "Release" => pc[c] = "release"
    /\ \A m \in Range(conn[c].toCli) : m.op \in {"Ok", "Gone"}

\* What is said of each client.
Core(c) == Ctl(c) /\ FreshMail(c) /\ ConnMail(c)

\* What a request of a client that holds an id, and a dropped stream, look like.
LEMMA CoreTypes ==
    ASSUME Types, NEW c \in Clients
    PROVE  /\ pc[c] \in {"idle", "connect", "acquire", "backoff", "hold", "renew", "release"}
           /\ rig[c] \in {"none", "acquiring", "live", "dropping", "detached"}
           /\ id[c] \in Ids \union {NoId}
BY DEF Types

\* What the operations on streams do to the mail in each direction.
LEMMA StreamMail ==
    /\ Closed.toSrv = <<>> /\ Closed.toCli = <<>>
    /\ \A s \in Streams : Broken(s).toSrv = <<>> /\ Broken(s).toCli = <<>>
    /\ \A s \in Streams : s.toCli # <<>> =>
          Receive(s).toSrv = s.toSrv /\ Receive(s).toCli = Tail(s.toCli)
    /\ \A m : \A s \in Streams :
          /\ Send(s, m).toCli = s.toCli
          /\ Send(s, m).toSrv = s.toSrv \/ Send(s, m).toSrv = Append(s.toSrv, m)
    /\ \A h, i : \A s \in Streams :
          /\ Served(s, h, i).toSrv = Tail(s.toSrv)
          /\ Served(s, h, i).toCli = Append(s.toCli, ReplyTo(h, Head(s.toSrv), i))
<1>1. Closed.toSrv = <<>> /\ Closed.toCli = <<>>
  BY DEF Closed
<1>2. ASSUME NEW s \in Streams PROVE Broken(s).toSrv = <<>> /\ Broken(s).toCli = <<>>
  BY DEF Broken, Streams
<1> QED
  BY <1>1, <1>2 DEF Receive, Send, Served, Streams

\* A client nothing happens to.
LEMMA CoreKept ==
    ASSUME NEW c, Core(c),
           pc'[c] = pc[c], rig'[c] = rig[c], id'[c] = id[c],
           conn'[c] = conn[c], fresh'[c] = fresh[c]
    PROVE  Core(c)'
BY DEF Core, Ctl, FreshMail, ConnMail, Acquire

\* The steps of one client: everybody else keeps what Core speaks of.
Elsewhere(c) ==
    \A d \in Clients \ {c} :
        /\ pc'[d] = pc[d] /\ rig'[d] = rig[d] /\ id'[d] = id[d]
        /\ conn'[d] = conn[d] /\ fresh'[d] = fresh[d]

\* An action of ThreadEnds, Released or Die leaves an idle client behind.
LEMMA ThreadEndsCore ==
    ASSUME Types, NEW c \in Clients, ThreadEnds(c)
    PROVE  Elsewhere(c) /\ Core(c)'
<1>1. Elsewhere(c)
  BY DEF ThreadEnds, Goto, Elsewhere, Types
<1>2. /\ pc'[c] = "idle" /\ rig'[c] = "none" /\ id'[c] = NoId
      /\ conn'[c] = Closed /\ fresh'[c] = Closed
  BY DEF ThreadEnds, Goto, Types
<1>3. Ctl(c)' /\ FreshMail(c)'
  BY <1>2, StreamMail DEF Ctl, FreshMail
<1>4. ConnMail(c)'
  BY <1>2, StreamMail, RangeFacts DEF ConnMail
<1> QED
  BY <1>1, <1>3, <1>4 DEF Core

\* A failed attempt leaves the client without a Rig, or with its old lease.
LEMMA AttemptFailsCore ==
    ASSUME Types, NEW c \in Clients, Core(c), pc[c] \in {"connect", "acquire"}, AttemptFails(c)
    PROVE  Elsewhere(c) /\ Core(c)'
<1>1. Elsewhere(c)
  BY DEF AttemptFails, GiveUp, KeepOldLease, Goto, Elsewhere, Types
<1>2. /\ id'[c] = id[c] /\ conn'[c] = conn[c] /\ fresh'[c] = Closed
      /\ \/ rig[c] = "acquiring" /\ rig'[c] = "none" /\ pc'[c] = "idle"
         \/ rig[c] # "acquiring" /\ rig'[c] = rig[c] /\ pc'[c] = "hold"
  BY DEF AttemptFails, GiveUp, KeepOldLease, Goto, Types
<1>3. Ctl(c)'
  BY <1>2 DEF Core, Ctl
<1>4. FreshMail(c)'
  BY <1>2, StreamMail DEF FreshMail
<1>5. ConnMail(c)'
  BY <1>2 DEF ConnMail, Core
<1> QED
  BY <1>1, <1>3, <1>4, <1>5 DEF Core

\* A client whose program counter is not at acquire has nothing on fresh[c].
LEMMA NoFreshMail ==
    ASSUME NEW c, Core(c), pc[c] # "acquire"
    PROVE  fresh[c].toSrv = <<>> /\ fresh[c].toCli = <<>>
BY DEF Core, FreshMail

\* The answer an acquire gets leaves its stream empty.
LEMMA AcquireAnswer ==
    ASSUME Types, NEW c \in Clients, Core(c), pc[c] = "acquire", Answered(c)
    PROVE  /\ Receive(fresh[c]).toSrv = <<>> /\ Receive(fresh[c]).toCli = <<>>
           /\ \/ Answer(c).op = "Granted" /\ Answer(c).id \in Ids
              \/ Answer(c).op = "Busy" /\ Answer(c).id = NoId
           /\ fresh[c].toCli = <<Answer(c)>>
<1>1. fresh[c].toCli # <<>> /\ Answer(c) = Head(fresh[c].toCli)
  BY DEF Answered, Answer, Awaited
<1>2. PICK m : /\ fresh[c].toCli = <<m>> /\ fresh[c].toSrv = <<>>
               /\ \/ m.op = "Granted" /\ m.id \in Ids
                  \/ m.op = "Busy" /\ m.id = NoId
  BY <1>1 DEF Core, FreshMail
<1>3. Answer(c) = m /\ Tail(fresh[c].toCli) = <<>>
  BY <1>1, <1>2, SingleFacts
<1> QED
  BY <1>1, <1>2, <1>3, StreamMail, ClientTypes

\* Every step of acquire and of renew_loop keeps its client's control and mail.
LEMMA ClientStepCore ==
    ASSUME Types, NEW c \in Clients, Core(c), ClientStep(c)
    PROVE  Elsewhere(c) /\ Core(c)'
<1> USE ClientTypes, CoreTypes
<1>0. NoId \notin Ids
  BY DEF NoId, Ids
<1>1. CASE ConnectOk(c)
  <2>1. /\ Elsewhere(c) /\ pc[c] = "connect" /\ pc'[c] = "acquire"
        /\ rig'[c] = rig[c] /\ id'[c] = id[c] /\ conn'[c] = conn[c]
        /\ fresh'[c] = Send(Opened, Acquire(c))
    BY <1>1 DEF ConnectOk, Goto, Elsewhere, Types
  <2>2. fresh'[c].toSrv = <<Acquire(c)>> /\ fresh'[c].toCli = <<>>
    BY <2>1, SingleFacts DEF Send, Opened
  <2>3. Ctl(c)'
    BY <2>1 DEF Core, Ctl
  <2>4. FreshMail(c)'
    BY <2>1, <2>2 DEF FreshMail, Acquire
  <2>5. ConnMail(c)'
    BY <2>1 DEF Core, ConnMail
  <2> QED
    BY <2>1, <2>3, <2>4, <2>5 DEF Core
<1>2. CASE ConnectErr(c) \/ AcquireErr(c) \/ BusyFail(c)
  BY <1>2, AttemptFailsCore DEF ConnectErr, AcquireErr, BusyFail
<1>3. CASE Granted(c)
  <2>1. /\ Elsewhere(c) /\ pc[c] = "acquire" /\ Answered(c) /\ Answer(c).op = "Granted"
        /\ pc'[c] = "hold" /\ id'[c] = Answer(c).id
        /\ rig'[c] = IF rig[c] = "acquiring" THEN "live" ELSE rig[c]
        /\ conn'[c] = Receive(fresh[c]) /\ fresh'[c] = Closed
    BY <1>3 DEF Granted, Goto, Elsewhere, Types
  <2>2. /\ Receive(fresh[c]).toSrv = <<>> /\ Receive(fresh[c]).toCli = <<>>
        /\ Answer(c).id \in Ids
    BY <2>1, AcquireAnswer
  <2>3. Ctl(c)'
    BY <1>0, <2>1, <2>2 DEF Core, Ctl
  <2>4. FreshMail(c)'
    BY <2>1, StreamMail DEF FreshMail
  <2>5. ConnMail(c)'
    BY <2>1, <2>2, RangeFacts DEF ConnMail
  <2> QED
    BY <2>1, <2>3, <2>4, <2>5 DEF Core
<1>4. CASE BusyRetry(c)
  <2>1. /\ Elsewhere(c) /\ pc[c] = "acquire" /\ Answered(c)
        /\ pc'[c] = "backoff" /\ id'[c] = id[c]
        /\ rig[c] = "acquiring" /\ rig'[c] = rig[c] /\ conn'[c] = conn[c]
        /\ fresh'[c] = Receive(fresh[c])
    BY <1>4 DEF BusyRetry, Goto, Elsewhere, Types
  <2>2. FreshMail(c)'
    BY <2>1, AcquireAnswer DEF FreshMail
  <2>3. Ctl(c)' /\ ConnMail(c)'
    BY <2>1 DEF Core, Ctl, ConnMail
  <2> QED
    BY <2>1, <2>2, <2>3 DEF Core
<1>5. CASE Retry(c)
  <2>1. /\ Elsewhere(c) /\ pc[c] = "backoff" /\ pc'[c] = "acquire" /\ id'[c] = id[c]
        /\ rig'[c] = rig[c] /\ conn'[c] = conn[c]
        /\ fresh'[c] = Send(fresh[c], Acquire(c))
    BY <1>5 DEF Retry, Goto, Elsewhere, Types
  <2>2. /\ fresh'[c].toCli = <<>>
        /\ fresh'[c].toSrv = <<>> \/ fresh'[c].toSrv = <<Acquire(c)>>
    BY <2>1, NoFreshMail, StreamMail, SingleFacts
  <2>3. FreshMail(c)'
    BY <2>1, <2>2 DEF FreshMail, Acquire
  <2>4. Ctl(c)' /\ ConnMail(c)'
    BY <2>1 DEF Core, Ctl, ConnMail
  <2> QED
    BY <2>1, <2>3, <2>4 DEF Core
<1>6. CASE SendRenew(c) \/ SeeStop(c)
  <2>1. /\ Elsewhere(c) /\ pc[c] = "hold" /\ id'[c] = id[c]
        /\ rig'[c] = rig[c] /\ fresh'[c] = fresh[c]
        /\ \/ pc'[c] = "renew" /\ conn'[c] = Send(conn[c], Renew(c))
           \/ /\ rig[c] \in {"dropping", "detached"} /\ pc'[c] = "release"
              /\ conn'[c] = Send(conn[c], Release(c))
    BY <1>6 DEF SendRenew, SeeStop, StopRequested, Goto, Elsewhere, Types
  <2>2. Ctl(c)'
    BY <2>1 DEF Core, Ctl
  <2>3. FreshMail(c)'
    BY <2>1, NoFreshMail DEF FreshMail
  <2>4. id[c] \in Ids
    BY <2>1 DEF Core, Ctl
  <2>5. ConnMail(c)'
    <3>1. PICK m \in {Renew(c), Release(c)} :
             conn'[c] = Send(conn[c], m) /\ (m = Release(c) => pc'[c] = "release")
      BY <2>1 DEF Renew, Release
    <3>2. m \in Requests
      OBVIOUS
    <3>3. Range(Append(conn[c].toSrv, m)) = Range(conn[c].toSrv) \union {m}
      BY <3>2, AppendFacts
    <3>4. /\ conn'[c].toCli = conn[c].toCli
          /\ Range(conn'[c].toSrv) \subseteq Range(conn[c].toSrv) \union {m}
      <4>1. /\ conn'[c].toCli = conn[c].toCli
            /\ \/ conn'[c].toSrv = conn[c].toSrv
               \/ conn'[c].toSrv = Append(conn[c].toSrv, m)
        BY ONLY <3>1, StreamMail, ClientTypes, Types
      <4> QED
        BY ONLY <3>3, <4>1
    <3>5. /\ m.op \in {"Renew", "Release"} /\ m.id = id[c]
          /\ m.op = "Release" => pc'[c] = "release"
      BY <3>1 DEF Renew, Release
    <3>6. \A r \in Range(conn[c].toSrv) : r.op # "Release"
      BY <2>1 DEF Core, ConnMail
    <3> QED
      BY <2>1, <2>4, <3>4, <3>5, <3>6 DEF Core, ConnMail
  <2> QED
    BY <2>1, <2>2, <2>3, <2>5 DEF Core
<1>7. CASE RenewOk(c) \/ RenewGone(c) \/ RenewErr(c)
  <2>1. /\ Elsewhere(c) /\ pc[c] = "renew" /\ id'[c] = id[c]
        /\ rig'[c] = rig[c] /\ fresh'[c] = fresh[c]
        /\ pc'[c] \in {"hold", "connect"}
        /\ \/ conn[c].toCli # <<>> /\ conn'[c] = Receive(conn[c])
           \/ conn'[c] = conn[c]
    BY <1>7 DEF RenewOk, RenewGone, RenewErr, Answered, Awaited, Goto, Elsewhere, Types
  <2>2. Ctl(c)'
    BY <2>1 DEF Core, Ctl
  <2>3. FreshMail(c)'
    BY <2>1, NoFreshMail DEF FreshMail
  <2>4. /\ conn'[c].toSrv = conn[c].toSrv
        /\ Range(conn'[c].toCli) \subseteq Range(conn[c].toCli)
    BY <2>1, StreamMail, TailFacts
  <2>5. ConnMail(c)'
    BY <2>1, <2>4 DEF Core, ConnMail
  <2> QED
    BY <2>1, <2>2, <2>3, <2>5 DEF Core
<1>8. CASE Released(c)
  BY <1>8, ThreadEndsCore DEF Released
<1> QED
  BY <1>1, <1>2, <1>3, <1>4, <1>5, <1>6, <1>7, <1>8 DEF ClientStep

\* The server answers a Renew or a Release with Ok or Gone, an Acquire with
\* Granted and a fresh id or with Busy.
LEMMA ServedMail ==
    ASSUME Types, NEW c \in Clients, Core(c), NEW i \in Ids, NEW h
    PROVE  /\ conn[c].toSrv # <<>> =>
                /\ Range(Served(conn[c], h, i).toSrv) \subseteq Range(conn[c].toSrv)
                /\ \A m \in Range(Served(conn[c], h, i).toCli) : m.op \in {"Ok", "Gone"}
           /\ fresh[c].toSrv # <<>> =>
                /\ pc[c] = "acquire" /\ Head(fresh[c].toSrv) = Acquire(c)
                /\ fresh[c].toCli = <<>>
                /\ Served(fresh[c], h, i).toSrv = <<>>
                /\ \/ Served(fresh[c], h, i).toCli = <<[op |-> "Granted", id |-> i]>>
                   \/ Served(fresh[c], h, i).toCli = <<[op |-> "Busy", id |-> NoId]>>
<1> USE ClientTypes
<1>1. ASSUME conn[c].toSrv # <<>>
      PROVE  /\ Range(Served(conn[c], h, i).toSrv) \subseteq Range(conn[c].toSrv)
             /\ \A m \in Range(Served(conn[c], h, i).toCli) : m.op \in {"Ok", "Gone"}
  <2> DEFINE r == Head(conn[c].toSrv)
  <2>1. r \in Range(conn[c].toSrv) /\ Range(Tail(conn[c].toSrv)) \subseteq Range(conn[c].toSrv)
    BY <1>1, TailFacts
  <2>2. r.op \in {"Renew", "Release"} /\ r \in Requests
    BY <2>1, RangeFacts DEF Core, ConnMail
  <2>3. ReplyTo(h, r, i).op \in {"Ok", "Gone"}
    BY <2>2 DEF ReplyTo
  <2>4. ReplyTo(h, r, i) \in Replies
    BY <2>2, ReplyType
  <2>5. Range(Append(conn[c].toCli, ReplyTo(h, r, i))) = Range(conn[c].toCli) \union {ReplyTo(h, r, i)}
    BY <2>4, AppendFacts
  <2>6. \A m \in Range(conn[c].toCli) : m.op \in {"Ok", "Gone"}
    BY DEF Core, ConnMail
  <2>7. /\ Served(conn[c], h, i).toSrv = Tail(conn[c].toSrv)
        /\ Served(conn[c], h, i).toCli = Append(conn[c].toCli, ReplyTo(h, r, i))
    BY StreamMail
  <2> QED
    BY <2>1, <2>3, <2>5, <2>6, <2>7
<1>2. ASSUME fresh[c].toSrv # <<>>
      PROVE  /\ pc[c] = "acquire" /\ Head(fresh[c].toSrv) = Acquire(c)
             /\ fresh[c].toCli = <<>>
             /\ Served(fresh[c], h, i).toSrv = <<>>
             /\ \/ Served(fresh[c], h, i).toCli = <<[op |-> "Granted", id |-> i]>>
                \/ Served(fresh[c], h, i).toCli = <<[op |-> "Busy", id |-> NoId]>>
  <2>1. pc[c] = "acquire" /\ fresh[c].toSrv = <<Acquire(c)>> /\ fresh[c].toCli = <<>>
    BY <1>2 DEF Core, FreshMail
  <2>2. Head(fresh[c].toSrv) = Acquire(c) /\ Tail(fresh[c].toSrv) = <<>>
    BY <2>1, SingleFacts
  <2>3. \/ ReplyTo(h, Acquire(c), i) = [op |-> "Granted", id |-> i]
        \/ ReplyTo(h, Acquire(c), i) = [op |-> "Busy", id |-> NoId]
    BY DEF ReplyTo, Acquire
  <2>4. /\ Served(fresh[c], h, i).toSrv = Tail(fresh[c].toSrv)
        /\ Served(fresh[c], h, i).toCli = Append(fresh[c].toCli, ReplyTo(h, Head(fresh[c].toSrv), i))
    BY StreamMail
  <2> QED
    BY ONLY <2>1, <2>2, <2>3, <2>4, SingleFacts
<1> QED
  BY <1>1, <1>2

\* So do the other steps that concern one client.
LEMMA OtherCore ==
    ASSUME Types, NEW c \in Clients, Core(c),
           Start(c) \/ Drop(c) \/ Detach(c) \/ Die(c) \/ BreakConn(c) \/ BreakFresh(c)
             \/ ServeConn(c) \/ ServeFresh(c)
    PROVE  Elsewhere(c) /\ Core(c)'
<1> USE ClientTypes, CoreTypes
<1>1. CASE Start(c)
  <2>1. /\ Elsewhere(c) /\ rig[c] = "none" /\ pc[c] = "idle"
        /\ rig'[c] = "acquiring" /\ pc'[c] = "connect" /\ id'[c] = id[c]
        /\ conn'[c] = conn[c] /\ fresh'[c] = fresh[c]
    BY <1>1 DEF Start, Goto, Elsewhere, Types
  <2>2. Ctl(c)' /\ ConnMail(c)'
    BY <2>1 DEF Core, Ctl, ConnMail
  <2>3. FreshMail(c)'
    BY <2>1, NoFreshMail DEF FreshMail
  <2> QED
    BY <2>1, <2>2, <2>3 DEF Core
<1>2. CASE Drop(c) \/ Detach(c)
  <2>1. /\ Elsewhere(c) /\ pc'[c] = pc[c] /\ id'[c] = id[c]
        /\ conn'[c] = conn[c] /\ fresh'[c] = fresh[c]
        /\ \/ rig[c] = "live" /\ rig'[c] = "dropping"
           \/ rig[c] = "dropping" /\ rig'[c] = "detached"
    BY <1>2 DEF Drop, Detach, Elsewhere, Types
  <2>2. Ctl(c)'
    BY <2>1 DEF Core, Ctl
  <2>3. FreshMail(c)' /\ ConnMail(c)'
    BY <2>1 DEF Core, FreshMail, ConnMail, Acquire
  <2> QED
    BY <2>1, <2>2, <2>3 DEF Core
<1>3. CASE Die(c)
  BY <1>3, ThreadEndsCore DEF Die
<1>4. CASE BreakConn(c)
  <2>1. /\ Elsewhere(c) /\ pc'[c] = pc[c] /\ id'[c] = id[c] /\ rig'[c] = rig[c]
        /\ conn'[c] = Broken(conn[c]) /\ fresh'[c] = fresh[c]
    BY <1>4 DEF BreakConn, Elsewhere, Types
  <2>2. Ctl(c)' /\ FreshMail(c)'
    BY <2>1 DEF Core, Ctl, FreshMail, Acquire
  <2>3. ConnMail(c)'
    BY <2>1, StreamMail, RangeFacts DEF ConnMail
  <2> QED
    BY <2>1, <2>2, <2>3 DEF Core
<1>5. CASE BreakFresh(c)
  <2>1. /\ Elsewhere(c) /\ pc'[c] = pc[c] /\ id'[c] = id[c] /\ rig'[c] = rig[c]
        /\ conn'[c] = conn[c] /\ fresh'[c] = Broken(fresh[c])
    BY <1>5 DEF BreakFresh, Elsewhere, Types
  <2>2. Ctl(c)' /\ ConnMail(c)'
    BY <2>1 DEF Core, Ctl, ConnMail
  <2>3. FreshMail(c)'
    BY <2>1, StreamMail DEF FreshMail
  <2> QED
    BY <2>1, <2>2, <2>3 DEF Core
<1>6. CASE ServeConn(c)
  <2>1. PICK i \in MintChoices : conn' = [conn EXCEPT ![c] = Served(conn[c], Expire(held), i)]
    BY <1>6 DEF ServeConn
  <2>2. /\ Elsewhere(c) /\ pc'[c] = pc[c] /\ id'[c] = id[c] /\ rig'[c] = rig[c]
        /\ conn'[c] = Served(conn[c], Expire(held), i) /\ fresh'[c] = fresh[c]
    BY <1>6, <2>1 DEF ServeConn, Elsewhere, Types
  <2>3. /\ Range(conn'[c].toSrv) \subseteq Range(conn[c].toSrv)
        /\ \A m \in Range(conn'[c].toCli) : m.op \in {"Ok", "Gone"}
    <3>1. i \in Ids /\ conn[c].toSrv # <<>>
      BY <1>6, MintFacts DEF ServeConn
    <3>2. /\ Range(Served(conn[c], Expire(held), i).toSrv) \subseteq Range(conn[c].toSrv)
          /\ \A m \in Range(Served(conn[c], Expire(held), i).toCli) : m.op \in {"Ok", "Gone"}
      BY ONLY <3>1, Types, Core(c), c \in Clients, ServedMail
    <3> QED
      BY <2>2, <3>2
  <2>4. Ctl(c)' /\ FreshMail(c)'
    BY <2>2 DEF Core, Ctl, FreshMail, Acquire
  <2>5. ConnMail(c)'
    BY <2>2, <2>3 DEF Core, ConnMail
  <2> QED
    BY <2>2, <2>4, <2>5 DEF Core
<1>7. CASE ServeFresh(c)
  <2>1. PICK i \in MintChoices : fresh' = [fresh EXCEPT ![c] = Served(fresh[c], Expire(held), i)]
    BY <1>7 DEF ServeFresh
  <2>2. /\ Elsewhere(c) /\ pc'[c] = pc[c] /\ id'[c] = id[c] /\ rig'[c] = rig[c]
        /\ fresh'[c] = Served(fresh[c], Expire(held), i) /\ conn'[c] = conn[c]
    BY <1>7, <2>1 DEF ServeFresh, Elsewhere, Types
  <2>3. /\ pc[c] = "acquire" /\ fresh'[c].toSrv = <<>>
        /\ \/ fresh'[c].toCli = <<[op |-> "Granted", id |-> i]>>
           \/ fresh'[c].toCli = <<[op |-> "Busy", id |-> NoId]>>
    <3>1. i \in Ids /\ fresh[c].toSrv # <<>>
      BY <1>7, MintFacts DEF ServeFresh
    <3>2. /\ pc[c] = "acquire"
          /\ Served(fresh[c], Expire(held), i).toSrv = <<>>
          /\ \/ Served(fresh[c], Expire(held), i).toCli = <<[op |-> "Granted", id |-> i]>>
             \/ Served(fresh[c], Expire(held), i).toCli = <<[op |-> "Busy", id |-> NoId]>>
      BY ONLY <3>1, Types, Core(c), ServedMail
    <3> QED
      BY ONLY <3>2, <2>2
  <2>4. FreshMail(c)'
    BY <2>2, <2>3, MintFacts DEF FreshMail
  <2>5. Ctl(c)' /\ ConnMail(c)'
    BY <2>2 DEF Core, Ctl, ConnMail
  <2> QED
    BY <2>2, <2>4, <2>5 DEF Core
<1> QED
  BY <1>1, <1>2, <1>3, <1>4, <1>5, <1>6, <1>7

\* The steps that touch no client at all.
Aside ==
    \/ \E s \in Slots : ServeOrphan(s) \/ LoseOrphan(s)
    \/ Status \/ Tick \/ UNCHANGED vars

\* The four kinds of steps.
LEMMA NextCases ==
    ASSUME [Next]_vars
    PROVE  \/ \E c \in Clients : ClientStep(c)
           \/ \E c \in Clients : \/ Start(c) \/ Drop(c) \/ Detach(c) \/ Die(c)
                                 \/ BreakConn(c) \/ BreakFresh(c) \/ ServeConn(c) \/ ServeFresh(c)
           \/ Aside \/ Restart
BY DEF Next, ServerStep, Aside

\* A step aside leaves the clients and their streams alone.
LEMMA AsideKeeps == Aside => UNCHANGED <<pc, rig, id, conn, fresh>>
BY DEF Aside, ServeOrphan, LoseOrphan, Status, Tick, vars

\* Core holds of every client at the start.
LEMMA CoreInit == Init => \A c \in Clients : Core(c)
<1>1. 0 \notin Ids
  BY DEF Ids
<1> QED
  BY <1>1, StreamMail, RangeFacts DEF Init, Core, Ctl, FreshMail, ConnMail, NoId

\* Core is kept, for every client, by every step.
LEMMA CoreStep ==
    ASSUME Types, \A c \in Clients : Core(c), [Next]_vars
    PROVE  \A c \in Clients : Core(c)'
<1>1. ASSUME NEW c \in Clients, Elsewhere(c), Core(c)' PROVE \A d \in Clients : Core(d)'
  BY <1>1, CoreKept DEF Elsewhere
<1>2. ASSUME NEW c \in Clients, ClientStep(c) PROVE \A d \in Clients : Core(d)'
  BY <1>1, <1>2, ClientStepCore
<1>3. ASSUME NEW c \in Clients,
             \/ Start(c) \/ Drop(c) \/ Detach(c) \/ Die(c)
             \/ BreakConn(c) \/ BreakFresh(c) \/ ServeConn(c) \/ ServeFresh(c)
      PROVE  \A d \in Clients : Core(d)'
  BY <1>1, <1>3, OtherCore
<1>4. CASE Aside
  BY <1>4, AsideKeeps, CoreKept
<1>5. CASE Restart
  <2> SUFFICES ASSUME NEW c \in Clients PROVE Core(c)'
    OBVIOUS
  <2>1. /\ pc'[c] = pc[c] /\ id'[c] = id[c] /\ rig'[c] = rig[c]
        /\ fresh'[c] = Broken(fresh[c]) /\ conn'[c] = Broken(conn[c])
    BY <1>5 DEF Restart
  <2>2. Ctl(c)'
    BY <2>1 DEF Core, Ctl
  <2>3. FreshMail(c)' /\ ConnMail(c)'
    BY <2>1, ClientTypes, StreamMail, RangeFacts DEF FreshMail, ConnMail
  <2> QED
    BY <2>2, <2>3 DEF Core
<1> QED
  BY <1>2, <1>3, <1>4, <1>5, NextCases

-----------------------------------------------------------------------------
(***************************************************************************)
(* Lease ids are capabilities.                                             *)
(***************************************************************************)
\* A Release on a dropped stream names an id that nobody has, or that only a
\* client which is itself releasing still has.
OrphanReleases ==
    \A s \in Slots : \A r \in Range(orphan[s]) :
        r.op = "Release" =>
            /\ r.id \in Ids
            /\ \A c \in Clients : r.id \in Caps(c) => pc[c] = "release"

\* The inductive invariant.
LeaseInv ==
    /\ Types
    /\ \A c \in Clients : Core(c)
    /\ CapabilityUnique
    /\ OrphanReleases

\* The ids on a stream of at most one reply.
LEMMA FewIds == IdsIn(<<>>) = {} /\ \A m : IdsIn(<<m>>) = {m.id}
BY IdsInFacts, RangeFacts

\* A client that loses its thread loses its ids.
LEMMA ThreadEndsCaps ==
    ASSUME Types, NEW c \in Clients, ThreadEnds(c)
    PROVE  Caps(c)' = {}
<1>1. id'[c] = NoId /\ fresh'[c].toCli = <<>>
  BY DEF ThreadEnds, Types, Closed
<1> QED
  BY <1>1, FewIds DEF Caps

\* A client that keeps its id and gets no grant has no new id.
LEMMA CapsSame ==
    ASSUME NEW c, id'[c] = id[c], fresh'[c].toCli = fresh[c].toCli \/ fresh'[c].toCli = <<>>
    PROVE  Caps(c)' \subseteq Caps(c)
BY FewIds DEF Caps

\* Nothing a client does by itself gives it a new id.
LEMMA ClientStepCaps ==
    ASSUME Types, NEW c \in Clients, Core(c), ClientStep(c)
    PROVE  /\ Caps(c)' \subseteq Caps(c)
           /\ pc[c] = "release" => Caps(c)' = {}
<1> USE ClientTypes
<1>1. CASE Granted(c)
  <2>1. /\ pc[c] = "acquire" /\ Answered(c)
        /\ id'[c] = Answer(c).id /\ fresh'[c].toCli = <<>>
    BY <1>1 DEF Granted, Types, Closed
  <2>2. fresh[c].toCli = <<Answer(c)>>
    BY <2>1, AcquireAnswer
  <2>3. Caps(c) = ({id[c]} \union {Answer(c).id}) \ {NoId}
    BY <2>2, FewIds DEF Caps
  <2>4. Caps(c)' = {Answer(c).id} \ {NoId}
    BY <2>1, FewIds DEF Caps
  <2> QED
    BY <2>1, <2>3, <2>4
<1>2. CASE Released(c)
  BY <1>2, ThreadEndsCaps DEF Released
<1>3. CASE ConnectOk(c) \/ Retry(c)
  <2>1. /\ pc[c] \in {"connect", "backoff"} /\ id'[c] = id[c]
        /\ \/ fresh'[c] = Send(Opened, Acquire(c))
           \/ fresh'[c] = Send(fresh[c], Acquire(c))
    BY <1>3 DEF ConnectOk, Retry, Types
  <2>2. Opened \in Streams /\ Opened.toCli = <<>>
    BY StreamTypes DEF Opened
  <2>3. fresh'[c].toCli = fresh[c].toCli \/ fresh'[c].toCli = <<>>
    BY <2>1, <2>2, StreamMail
  <2> QED
    BY <2>1, <2>3, CapsSame
<1>4. CASE BusyRetry(c)
  <2>1. /\ pc[c] = "acquire" /\ Answered(c) /\ id'[c] = id[c]
        /\ fresh'[c] = Receive(fresh[c])
    BY <1>4 DEF BusyRetry, Types
  <2>2. fresh'[c].toCli = <<>>
    BY <2>1, AcquireAnswer
  <2> QED
    BY <2>1, <2>2, CapsSame
<1>5. CASE ConnectErr(c) \/ AcquireErr(c) \/ BusyFail(c)
  <2>1. /\ pc[c] # "release" /\ id'[c] = id[c] /\ fresh'[c].toCli = <<>>
    BY <1>5 DEF ConnectErr, AcquireErr, BusyFail, AttemptFails, Types, Closed
  <2> QED
    BY <2>1, CapsSame
<1>6. CASE SendRenew(c) \/ RenewOk(c) \/ RenewGone(c) \/ RenewErr(c) \/ SeeStop(c)
  <2>1. pc[c] # "release" /\ id'[c] = id[c] /\ fresh'[c] = fresh[c]
    BY <1>6 DEF SendRenew, RenewOk, RenewGone, RenewErr, SeeStop
  <2> QED
    BY <2>1, CapsSame
<1> QED
  BY <1>1, <1>2, <1>3, <1>4, <1>5, <1>6 DEF ClientStep

\* Only the server gives out an id, and it is one that nobody has.
LEMMA OtherCaps ==
    ASSUME Types, NEW c \in Clients, Core(c),
           Start(c) \/ Drop(c) \/ Detach(c) \/ Die(c) \/ BreakConn(c) \/ BreakFresh(c)
             \/ ServeConn(c) \/ ServeFresh(c)
    PROVE  /\ \/ Caps(c)' \subseteq Caps(c)
              \/ \E i \in MintChoices : Caps(c)' \subseteq Caps(c) \union {i}
           /\ pc[c] = "release" => pc'[c] = "release" \/ Caps(c)' = {}
<1> USE ClientTypes
<1>1. CASE Die(c)
  BY <1>1, ThreadEndsCaps DEF Die
<1>2. CASE ServeFresh(c)
  <2>1. PICK i \in MintChoices : fresh' = [fresh EXCEPT ![c] = Served(fresh[c], Expire(held), i)]
    BY <1>2 DEF ServeFresh
  <2>2. /\ pc'[c] = pc[c] /\ id'[c] = id[c]
        /\ fresh'[c] = Served(fresh[c], Expire(held), i)
        /\ fresh[c].toSrv # <<>> /\ i \in Ids
    BY <1>2, <2>1, MintFacts DEF ServeFresh, Types
  <2>3. \/ fresh'[c].toCli = <<[op |-> "Granted", id |-> i]>>
        \/ fresh'[c].toCli = <<[op |-> "Busy", id |-> NoId]>>
    <3>1. \/ Served(fresh[c], Expire(held), i).toCli = <<[op |-> "Granted", id |-> i]>>
          \/ Served(fresh[c], Expire(held), i).toCli = <<[op |-> "Busy", id |-> NoId]>>
      BY ONLY <2>2, Types, Core(c), ServedMail
    <3> QED
      BY ONLY <3>1, <2>2
  <2>4. IdsIn(fresh'[c].toCli) \subseteq {i, NoId}
    BY <2>3, FewIds
  <2>5. Caps(c)' \subseteq Caps(c) \union {i}
    BY <2>2, <2>4 DEF Caps
  <2> QED
    BY <2>2, <2>5
<1>3. CASE BreakFresh(c)
  <2>1. pc'[c] = pc[c] /\ id'[c] = id[c] /\ fresh'[c].toCli = <<>>
    BY <1>3, StreamMail DEF BreakFresh, Types
  <2> QED
    BY <2>1, CapsSame
<1>4. CASE Start(c) \/ Drop(c) \/ Detach(c) \/ BreakConn(c) \/ ServeConn(c)
  <2>1. /\ id'[c] = id[c] /\ fresh'[c] = fresh[c]
        /\ pc[c] = "release" => pc'[c] = "release"
    BY <1>4 DEF Start, Drop, Detach, BreakConn, ServeConn
  <2> QED
    BY <2>1, CapsSame
<1> QED
  BY <1>1, <1>2, <1>3, <1>4

\* What a step does to the ids of the clients.
LEMMA CapsStep ==
    ASSUME LeaseInv, [Next]_vars
    PROVE  /\ \/ \A c \in Clients : Caps(c)' \subseteq Caps(c)
              \/ \E c \in Clients, i \in MintChoices :
                    /\ Caps(c)' \subseteq Caps(c) \union {i}
                    /\ \A d \in Clients \ {c} : Caps(d)' \subseteq Caps(d)
           /\ \A c \in Clients : pc[c] = "release" => pc'[c] = "release" \/ Caps(c)' = {}
<1> DEFINE Grows == \/ \A c \in Clients : Caps(c)' \subseteq Caps(c)
                    \/ \E c \in Clients, i \in MintChoices :
                          /\ Caps(c)' \subseteq Caps(c) \union {i}
                          /\ \A d \in Clients \ {c} : Caps(d)' \subseteq Caps(d)
           Stays == \A c \in Clients : pc[c] = "release" => pc'[c] = "release" \/ Caps(c)' = {}
<1> SUFFICES Grows /\ Stays
  OBVIOUS
<1>1. Types /\ \A c \in Clients : Core(c)
  BY DEF LeaseInv
<1>2. ASSUME NEW c \in Clients, Elsewhere(c)
      PROVE  \A d \in Clients \ {c} : Caps(d)' \subseteq Caps(d) /\ pc'[d] = pc[d]
  BY <1>2, CapsSame DEF Elsewhere
<1>3. ASSUME NEW c \in Clients, ClientStep(c) PROVE Grows /\ Stays
  <2>1. Elsewhere(c) /\ Caps(c)' \subseteq Caps(c) /\ (pc[c] = "release" => Caps(c)' = {})
    BY <1>1, <1>3, ClientStepCore, ClientStepCaps
  <2> QED
    BY <1>2, <2>1
<1>4. ASSUME NEW c \in Clients,
             \/ Start(c) \/ Drop(c) \/ Detach(c) \/ Die(c)
             \/ BreakConn(c) \/ BreakFresh(c) \/ ServeConn(c) \/ ServeFresh(c)
      PROVE  Grows /\ Stays
  <2>1. Elsewhere(c)
    BY <1>1, <1>4, OtherCore
  <2>2. /\ \/ Caps(c)' \subseteq Caps(c)
           \/ \E i \in MintChoices : Caps(c)' \subseteq Caps(c) \union {i}
        /\ pc[c] = "release" => pc'[c] = "release" \/ Caps(c)' = {}
    BY <1>1, <1>4, OtherCaps
  <2>3. \A d \in Clients \ {c} : Caps(d)' \subseteq Caps(d) /\ pc'[d] = pc[d]
    BY <1>2, <2>1
  <2> QED
    BY ONLY <2>2, <2>3, c \in Clients
<1>5. CASE Aside
  BY <1>5, AsideKeeps, CapsSame
<1>6. CASE Restart
  <2>1. \A c \in Clients : pc'[c] = pc[c] /\ id'[c] = id[c] /\ fresh'[c].toCli = <<>>
    BY <1>1, <1>6, StreamMail, ClientTypes DEF Restart
  <2> QED
    BY <2>1, CapsSame
<1> QED
  BY <1>3, <1>4, <1>5, <1>6, NextCases

\* Where a request on a dropped stream comes from.
FromWhere(r) ==
    \/ \E s \in Slots : r \in Range(orphan[s])
    \/ \E c \in Clients : r \in Range(conn[c].toSrv) \union Range(fresh[c].toSrv)

\* A request on a dropped stream was there before, or was on the stream that is
\* being dropped.
LEMMA OrphanOf ==
    ASSUME NEW o \in [Slots -> Seq(Requests)], NEW q \in Seq(Requests), NEW o2 \in Orphan(o, q),
           NEW s \in Slots, NEW r \in Range(o2[s])
    PROVE  (\E t \in Slots : r \in Range(o[t])) \/ r \in Range(q)
<1>1. o2[s] = o[s] \/ o2[s] = q
  BY OrphanFacts
<1> QED
  BY ONLY <1>1, r \in Range(o2[s]), s \in Slots

\* Every request on a dropped stream was on a stream before the step.
LEMMA OrphanStep ==
    ASSUME Types, [Next]_vars, NEW s \in Slots, NEW r \in Range(orphan'[s])
    PROVE  FromWhere(r)
<1>0. orphan \in [Slots -> Seq(Requests)]
  BY DEF Types
<1>1. ASSUME NEW c \in Clients, NEW q \in {conn[c].toSrv, fresh[c].toSrv},
             orphan' \in Orphan(orphan, q)
      PROVE  FromWhere(r)
  <2>1. q \in Seq(Requests)
    BY ClientTypes
  <2>2. (\E t \in Slots : r \in Range(orphan[t])) \/ r \in Range(q)
    BY <1>0, <1>1, <2>1, OrphanOf
  <2> QED
    BY <2>2 DEF FromWhere
<1>2. ASSUME NEW c \in Clients, ThreadEnds(c) PROVE FromWhere(r)
  <2>1. PICK o \in Orphan(orphan, conn[c].toSrv) : orphan' \in Orphan(o, fresh[c].toSrv)
    BY <1>2 DEF ThreadEnds
  <2>2. conn[c].toSrv \in Seq(Requests) /\ fresh[c].toSrv \in Seq(Requests)
    BY ClientTypes
  <2>3. o \in [Slots -> Seq(Requests)]
    BY <1>0, <2>2, OrphanFacts
  <2>4. (\E t \in Slots : r \in Range(o[t])) \/ r \in Range(fresh[c].toSrv)
    BY <2>1, <2>2, <2>3, OrphanOf
  <2>5. \A t \in Slots : r \in Range(o[t]) =>
           (\E u \in Slots : r \in Range(orphan[u])) \/ r \in Range(conn[c].toSrv)
    BY <1>0, <2>2, OrphanOf
  <2> QED
    BY <2>4, <2>5 DEF FromWhere
<1>3. ASSUME UNCHANGED orphan PROVE FromWhere(r)
  BY <1>3 DEF FromWhere
<1>4. ASSUME NEW c \in Clients, ClientStep(c) PROVE FromWhere(r)
  BY <1>1, <1>2, <1>3, <1>4
  DEF ClientStep, ConnectOk, ConnectErr, AcquireErr, AttemptFails, Granted, BusyRetry, BusyFail,
      Retry, SendRenew, RenewOk, RenewGone, RenewErr, SeeStop, Released
<1>5. ASSUME NEW c \in Clients,
             \/ Start(c) \/ Drop(c) \/ Detach(c) \/ Die(c)
             \/ BreakConn(c) \/ BreakFresh(c) \/ ServeConn(c) \/ ServeFresh(c)
      PROVE  FromWhere(r)
  BY <1>1, <1>2, <1>3, <1>5
  DEF Start, Drop, Detach, Die, BreakConn, BreakFresh, ServeConn, ServeFresh
<1>6. CASE Aside
  <2>1. ASSUME NEW t \in Slots, ServeOrphan(t) \/ LoseOrphan(t) PROVE FromWhere(r)
    <3>1. orphan[t] # <<>> /\ orphan[t] \in Seq(Requests)
      BY <1>0, <2>1 DEF ServeOrphan, LoseOrphan
    <3>2. Range(Tail(orphan[t])) \subseteq Range(orphan[t]) /\ Range(<<>>) = {}
      BY <3>1, TailFacts, RangeFacts
    <3>3. \/ orphan'[s] = orphan[s]
          \/ s = t /\ (orphan'[s] = Tail(orphan[t]) \/ orphan'[s] = <<>>)
      BY <1>0, <2>1 DEF ServeOrphan, LoseOrphan
    <3> QED
      BY <3>2, <3>3 DEF FromWhere
  <2> QED
    BY <1>3, <1>6, <2>1 DEF Aside, Status, Tick, vars
<1>7. CASE Restart
  BY <1>7, RangeFacts DEF Restart
<1> QED
  BY <1>4, <1>5, <1>6, <1>7, NextCases

\* Every id in use, and every one a pending request names, is in UsedIds.
LEMMA UsedFacts ==
    ASSUME LeaseInv
    PROVE  /\ \A c \in Clients : Caps(c) \subseteq UsedIds
           /\ \A c \in Clients : \A r \in Range(conn[c].toSrv) : r.id \in UsedIds
           /\ \A s \in Slots : \A r \in Range(orphan[s]) : r.id \in UsedIds
<1>1. ASSUME NEW c \in Clients PROVE Caps(c) \subseteq UsedIds
  <2>1. IdsIn(fresh[c].toCli) \subseteq UNION {IdsIn(fresh[d].toCli) : d \in Clients}
    OBVIOUS
  <2>2. id[c] \in {id[d] : d \in Clients}
    OBVIOUS
  <2> QED
    BY <2>1, <2>2 DEF UsedIds, Caps
<1>2. ASSUME NEW c \in Clients, NEW r \in Range(conn[c].toSrv) PROVE r.id \in UsedIds
  <2>1. r.id \in IdsIn(conn[c].toSrv)
    BY IdsInFacts
  <2> QED
    BY <2>1 DEF UsedIds
<1>3. ASSUME NEW s \in Slots, NEW r \in Range(orphan[s]) PROVE r.id \in UsedIds
  <2>1. r.id \in IdsIn(orphan[s])
    BY IdsInFacts
  <2>2. r.id \in UNION {IdsIn(orphan[t]) : t \in Slots}
    BY ONLY <2>1, s \in Slots
  <2> QED
    BY ONLY <2>2 DEF UsedIds
<1> QED
  BY <1>1, <1>2, <1>3

\* LeaseInv holds at the start.
LEMMA LeaseInvInit == Init => LeaseInv
<1> SUFFICES ASSUME Init PROVE LeaseInv
  OBVIOUS
<1>1. \A c \in Clients : id[c] = NoId /\ fresh[c].toCli = <<>>
  BY DEF Init, Closed
<1>2. CapabilityUnique
  BY <1>1, FewIds DEF CapabilityUnique, Caps
<1>3. OrphanReleases
  BY RangeFacts DEF Init, OrphanReleases
<1> QED
  BY <1>2, <1>3, TypesInit, CoreInit DEF LeaseInv

\* LeaseInv is inductive.
LEMMA LeaseInvStep == LeaseInv /\ [Next]_vars => LeaseInv'
<1> SUFFICES ASSUME LeaseInv, [Next]_vars PROVE LeaseInv'
  OBVIOUS
<1>1. Types /\ (\A c \in Clients : Core(c)) /\ CapabilityUnique /\ OrphanReleases
  BY DEF LeaseInv
<1>2. Types' /\ \A c \in Clients : Core(c)'
  BY <1>1, TypesStep, CoreStep
<1>3. \A i \in MintChoices : i \notin UsedIds
  BY MintFacts
<1>4. CapabilityUnique'
  <2> SUFFICES ASSUME NEW c \in Clients, NEW d \in Clients, c # d
               PROVE  Caps(c)' \intersect Caps(d)' = {}
    BY DEF CapabilityUnique
  <2>1. Caps(c) \intersect Caps(d) = {}
    BY <1>1 DEF CapabilityUnique
  <2>2. Caps(c) \subseteq UsedIds /\ Caps(d) \subseteq UsedIds
    BY UsedFacts
  <2>3. \/ Caps(c)' \subseteq Caps(c) /\ Caps(d)' \subseteq Caps(d)
        \/ \E i \in MintChoices :
              \/ Caps(c)' \subseteq Caps(c) \union {i} /\ Caps(d)' \subseteq Caps(d)
              \/ Caps(d)' \subseteq Caps(d) \union {i} /\ Caps(c)' \subseteq Caps(c)
    <3>1. CASE \A e \in Clients : Caps(e)' \subseteq Caps(e)
      BY ONLY <3>1, c \in Clients, d \in Clients
    <3>2. ASSUME NEW e \in Clients, NEW i \in MintChoices,
                 Caps(e)' \subseteq Caps(e) \union {i},
                 \A f \in Clients \ {e} : Caps(f)' \subseteq Caps(f)
          PROVE  \E j \in MintChoices :
                    \/ Caps(c)' \subseteq Caps(c) \union {j} /\ Caps(d)' \subseteq Caps(d)
                    \/ Caps(d)' \subseteq Caps(d) \union {j} /\ Caps(c)' \subseteq Caps(c)
      <4>1. CASE e = d
        BY ONLY <3>2, <4>1, c # d, c \in Clients
      <4>2. CASE e # d
        <5>1. Caps(d)' \subseteq Caps(d) /\ Caps(c)' \subseteq Caps(c) \union {i}
          BY ONLY <3>2, <4>2, c \in Clients, d \in Clients
        <5> QED
          BY <5>1
      <4> QED
        BY <4>1, <4>2
    <3>3. \/ \A e \in Clients : Caps(e)' \subseteq Caps(e)
          \/ \E e \in Clients, i \in MintChoices :
                /\ Caps(e)' \subseteq Caps(e) \union {i}
                /\ \A f \in Clients \ {e} : Caps(f)' \subseteq Caps(f)
      BY CapsStep
    <3> QED
      BY ONLY <3>1, <3>2, <3>3
  <2> QED
    BY ONLY <1>3, <2>1, <2>2, <2>3
<1>5. OrphanReleases'
  <2> SUFFICES ASSUME NEW s \in Slots, NEW r \in Range(orphan'[s]), r.op = "Release"
               PROVE  /\ r.id \in Ids
                      /\ \A c \in Clients : r.id \in Caps(c)' => pc'[c] = "release"
    BY DEF OrphanReleases
  <2>1. \A c \in Clients : \A m \in Range(fresh[c].toSrv) : m.op = "Acquire"
    <3> SUFFICES ASSUME NEW c \in Clients
                 PROVE  \A m \in Range(fresh[c].toSrv) : m.op = "Acquire"
      OBVIOUS
    <3>1. fresh[c].toSrv = <<>> \/ fresh[c].toSrv = <<Acquire(c)>>
      BY <1>1 DEF Core, FreshMail
    <3>2. Range(fresh[c].toSrv) \subseteq {Acquire(c)}
      BY ONLY <3>1, RangeFacts
    <3> QED
      BY ONLY <3>2 DEF Acquire
  <2>2. \/ \E t \in Slots : r \in Range(orphan[t])
        \/ \E c \in Clients : r \in Range(conn[c].toSrv)
    BY <1>1, <2>1, OrphanStep DEF FromWhere
  <2>3. /\ r.id \in Ids /\ r.id \in UsedIds
        /\ \A c \in Clients : r.id \in Caps(c) => pc[c] = "release"
    <3>1. CASE \E t \in Slots : r \in Range(orphan[t])
      BY <1>1, <3>1, UsedFacts DEF OrphanReleases
    <3>2. ASSUME NEW c \in Clients, r \in Range(conn[c].toSrv)
          PROVE  /\ r.id \in Ids /\ r.id \in UsedIds
                 /\ \A d \in Clients : r.id \in Caps(d) => pc[d] = "release"
      <4>1. r.id = id[c] /\ r.id \in Ids /\ pc[c] = "release"
        BY <1>1, <3>2 DEF Core, ConnMail
      <4>2. r.id \in Caps(c)
        BY <4>1 DEF Caps, Ids, NoId
      <4> QED
        BY <1>1, <3>2, <4>1, <4>2, UsedFacts DEF CapabilityUnique
    <3> QED
      BY <2>2, <3>1, <3>2
  <2>4. ASSUME NEW c \in Clients, r.id \in Caps(c)' PROVE pc'[c] = "release"
    <3>1. r.id \in Caps(c)
      BY <1>3, <2>3, <2>4, CapsStep
    <3> QED
      BY <2>3, <2>4, <3>1, CapsStep
  <2> QED
    BY <2>3, <2>4
<1> QED
  BY <1>2, <1>4, <1>5 DEF LeaseInv

\* LeaseInv is an invariant.
LEMMA LeaseInvAlways == Spec => []LeaseInv
BY LeaseInvInit, LeaseInvStep, PTL DEF Spec

-----------------------------------------------------------------------------
(***************************************************************************)
(* The theorems.                                                           *)
(***************************************************************************)
\* Every variable of the lease protocol has its type, and a client is never
\* sent a reply of a kind its loop calls unexpected.
THEOREM TypeCorrect == Spec => []TypeOK
<1>1. LeaseInv => TypeOK
  <2> SUFFICES ASSUME LeaseInv, NEW c \in Clients
               PROVE  /\ \A m \in Range(conn[c].toCli) : m.op \in {"Ok", "Gone"}
                      /\ \A m \in Range(fresh[c].toCli) : m.op \in {"Granted", "Busy"}
    BY DEF LeaseInv, TypeOK
  <2>1. Core(c)
    BY DEF LeaseInv
  <2>2. \A m \in Range(conn[c].toCli) : m.op \in {"Ok", "Gone"}
    BY <2>1 DEF Core, ConnMail
  <2>3. fresh[c].toCli = <<>> \/ \E m : fresh[c].toCli = <<m>> /\ m.op \in {"Granted", "Busy"}
    BY <2>1 DEF Core, FreshMail
  <2>4. \A m \in Range(fresh[c].toCli) : m.op \in {"Granted", "Busy"}
    BY ONLY <2>3, RangeFacts
  <2> QED
    BY <2>2, <2>4
<1> QED
  BY <1>1, LeaseInvAlways, PTL

\* A lease id (mint_lease_id) is in the hands of one client at most, whatever
\* the crashes, stalls, lost streams and restarts.
THEOREM IdsAreCapabilities == Spec => []CapabilityUnique
<1>1. LeaseInv => CapabilityUnique
  BY DEF LeaseInv
<1> QED
  BY <1>1, LeaseInvAlways, PTL

\* A pending Release names the id of a client that is releasing, or of nobody.
LEMMA ReleasesAreLate == LeaseInv => NoLateRelease
<1> SUFFICES ASSUME LeaseInv, NEW r \in PendingReleases, NEW c \in Clients, Live(c)
             PROVE  id[c] # r.id
  BY DEF NoLateRelease
<1>1. Core(c) /\ Types /\ r.op = "Release"
  BY DEF LeaseInv, PendingReleases
<1>2. pc[c] # "release" /\ id[c] # NoId
  BY <1>1 DEF Core, Ctl, Live
<1>3. id[c] \in Caps(c)
  BY <1>2 DEF Caps
<1>4. CASE \E s \in Slots : r \in Range(orphan[s])
  BY <1>1, <1>2, <1>3, <1>4 DEF LeaseInv, OrphanReleases
<1>5. ASSUME NEW d \in Clients, r \in Range(conn[d].toSrv) PROVE id[c] # r.id
  <2>1. r.id = id[d] /\ r.id \in Ids /\ pc[d] = "release"
    BY <1>1, <1>5 DEF LeaseInv, Core, ConnMail
  <2>2. r.id \in Caps(d) /\ c # d
    BY <1>2, <2>1 DEF Caps, Ids, NoId
  <2> QED
    BY <1>3, <2>2 DEF LeaseInv, CapabilityUnique
<1> QED
  BY <1>4, <1>5 DEF PendingReleases

\* A Release on its way, even one whose client is long gone, never names the
\* lease of a Rig in use (LeaseServer::handle compares ids).
THEOREM LateReleasesHarmless == Spec => []NoLateRelease
BY ReleasesAreLate, LeaseInvAlways, PTL

\* One request handled while a lease has time left leaves it in place, unless
\* it is a Release with the lease's id.
LEMMA HandleKeeps ==
    ASSUME NEW h, h.left # 0, NEW r \in Requests, NEW i,
           h.id = r.id => r.op # "Release"
    PROVE  HeldAfter(Expire(h), r, i).id = h.id
<1>1. Expire(h) = h /\ h # NoLease
  BY DEF Expire, NoLease
<1> QED
  BY <1>1 DEF HeldAfter, Owns, Renewed, Requests

\* A lease with time left is taken from the Rig that uses it by a restart of
\* the daemon, and by no request, tick or failure.
THEOREM NoEarlyDisplacement == Spec => DisplacedOnlyByExpiry
<1>1. LeaseInv /\ [Next]_vars =>
        [\A c \in Clients :
            (Live(c) /\ held.id = id[c] /\ held.left > 0 /\ held'.id # held.id) => Restart]_vars
  <2> SUFFICES ASSUME LeaseInv, [Next]_vars, NEW c \in Clients,
                      Live(c), held.id = id[c], held.left > 0, ~Restart
               PROVE  held'.id = held.id
    OBVIOUS
  <2>1. Types /\ held \in Leases /\ held.left # 0 /\ NoLateRelease
    BY ReleasesAreLate DEF LeaseInv, Types, Leases
  <2>2. ASSUME NEW d \in Clients, ServeConn(d) PROVE held'.id = held.id
    <3>1. conn[d].toSrv # <<>> /\ conn[d].toSrv \in Seq(Requests)
      BY <2>1, <2>2, ClientTypes DEF ServeConn
    <3>2. Head(conn[d].toSrv) \in Range(conn[d].toSrv) /\ Head(conn[d].toSrv) \in Requests
      BY <3>1, TailFacts, RangeFacts
    <3>3. held.id = Head(conn[d].toSrv).id => Head(conn[d].toSrv).op # "Release"
      BY <2>1, <3>2 DEF NoLateRelease, PendingReleases
    <3> QED
      BY <2>1, <2>2, <3>2, <3>3, HandleKeeps DEF ServeConn
  <2>3. ASSUME NEW d \in Clients, ServeFresh(d) PROVE held'.id = held.id
    <3>1. fresh[d].toSrv # <<>> /\ Core(d)
      BY <2>3 DEF ServeFresh, LeaseInv
    <3>2. fresh[d].toSrv = <<Acquire(d)>>
      BY <3>1 DEF Core, FreshMail
    <3>3. Head(fresh[d].toSrv) = Acquire(d) /\ Acquire(d) \in Requests /\ Acquire(d).op # "Release"
      BY <2>1, <3>2, SingleFacts, ClientTypes DEF Acquire
    <3> QED
      BY <2>1, <2>3, <3>3, HandleKeeps DEF ServeFresh
  <2>4. ASSUME NEW s \in Slots, ServeOrphan(s) PROVE held'.id = held.id
    <3>1. orphan[s] # <<>> /\ orphan[s] \in Seq(Requests)
      BY <2>1, <2>4 DEF ServeOrphan, Types
    <3>2. Head(orphan[s]) \in Range(orphan[s]) /\ Head(orphan[s]) \in Requests
      BY <3>1, TailFacts, RangeFacts
    <3>3. held.id = Head(orphan[s]).id => Head(orphan[s]).op # "Release"
      BY <2>1, <3>2 DEF NoLateRelease, PendingReleases
    <3> QED
      BY <2>1, <2>4, <3>2, <3>3, HandleKeeps DEF ServeOrphan
  <2>5. CASE Status
    BY <2>1, <2>5 DEF Status, Expire
  <2>6. CASE Tick
    BY <2>1, <2>6 DEF Tick, Leases
  <2>7. CASE UNCHANGED held
    BY <2>7
  <2> QED
    BY <2>2, <2>3, <2>4, <2>5, <2>6, <2>7
    DEF Next, ServerStep, ClientStep, ConnectOk, ConnectErr, AcquireErr, AttemptFails, Granted,
        BusyRetry, BusyFail, Retry, SendRenew, RenewOk, RenewGone, RenewErr, SeeStop, Released,
        Start, Drop, Detach, Die, BreakConn, BreakFresh, LoseOrphan, vars
<1> QED
  BY <1>1, LeaseInvAlways, PTL DEF Spec, DisplacedOnlyByExpiry

-----------------------------------------------------------------------------
(***************************************************************************)
(* What a Gone says.                                                       *)
(***************************************************************************)
\* A Gone is on its way to client c.
GoneTold(c) == \E m \in Range(conn[c].toCli) : m.op = "Gone"

\* GoneMeansGone, for clients that have an id, which all those told Gone do.
GoneInv == \A c \in Clients : GoneTold(c) => id[c] \in Ids /\ held.id # id[c]

\* The lease that is held after a request is the one before, none, or a new one.
LEMMA HandleIds ==
    ASSUME NEW h \in Leases, NEW r \in Requests, NEW i
    PROVE  HeldAfter(Expire(h), r, i).id \in {h.id, NoId, i}
<1>1. Expire(h).id \in {h.id, NoId} /\ NoLease.id = NoId
  BY DEF Expire, NoLease
<1>2. Renewed(Expire(h)).id \in {h.id, NoId} \/ ~Owns(Expire(h), r)
  BY <1>1 DEF Renewed, Expire, Owns, NoLease, Leases
<1> QED
  BY <1>1, <1>2 DEF HeldAfter, Requests

\* So is the lease that is held after any step.
LEMMA HeldIds ==
    ASSUME LeaseInv, [Next]_vars
    PROVE  held'.id \in {held.id, NoId} \union MintChoices
<1>1. Types /\ held \in Leases
  BY DEF LeaseInv, Types
<1>2. ASSUME NEW r \in Requests, NEW i \in MintChoices, held' = HeldAfter(Expire(held), r, i)
      PROVE  held'.id \in {held.id, NoId} \union MintChoices
  BY <1>1, <1>2, HandleIds
<1>3. ASSUME NEW c \in Clients, ServeConn(c) PROVE held'.id \in {held.id, NoId} \union MintChoices
  <2>1. Head(conn[c].toSrv) \in Requests
    BY <1>1, <1>3, ClientTypes, TailFacts, RangeFacts DEF ServeConn
  <2> QED
    BY <1>2, <1>3, <2>1 DEF ServeConn
<1>4. ASSUME NEW c \in Clients, ServeFresh(c) PROVE held'.id \in {held.id, NoId} \union MintChoices
  <2>1. Head(fresh[c].toSrv) \in Requests
    BY <1>1, <1>4, ClientTypes, TailFacts, RangeFacts DEF ServeFresh
  <2> QED
    BY <1>2, <1>4, <2>1 DEF ServeFresh
<1>5. ASSUME NEW s \in Slots, ServeOrphan(s) PROVE held'.id \in {held.id, NoId} \union MintChoices
  <2>1. Head(orphan[s]) \in Requests
    BY <1>1, <1>5, TailFacts, RangeFacts DEF ServeOrphan, Types
  <2> QED
    BY <1>2, <1>5, <2>1 DEF ServeOrphan
<1>6. CASE Status \/ Restart
  BY <1>6 DEF Status, Restart, Expire, NoLease
<1>7. CASE Tick
  BY <1>1, <1>7 DEF Tick, Leases
<1>8. CASE UNCHANGED held
  BY <1>8
<1> QED
  BY <1>3, <1>4, <1>5, <1>6, <1>7, <1>8
  DEF Next, ServerStep, ClientStep, ConnectOk, ConnectErr, AcquireErr, AttemptFails, Granted,
      BusyRetry, BusyFail, Retry, SendRenew, RenewOk, RenewGone, RenewErr, SeeStop, Released,
      Start, Drop, Detach, Die, BreakConn, BreakFresh, LoseOrphan, vars

\* A step other than the service of c's own stream tells c nothing new, and c
\* keeps its id as long as there is an answer to read.
Untold(c) ==
    \/ Range(conn'[c].toCli) = {}
    \/ Range(conn'[c].toCli) \subseteq Range(conn[c].toCli) /\ id'[c] = id[c]

\* A thread that ends reads nothing more.
LEMMA ThreadEndsUntold ==
    ASSUME Types, NEW c \in Clients, ThreadEnds(c)
    PROVE  Untold(c)
<1>1. conn'[c] = Closed
  BY DEF ThreadEnds, Types
<1> QED
  BY <1>1, RangeFacts, StreamMail DEF Untold

\* Nothing a client does by itself tells it that its lease is gone.
LEMMA ClientStepUntold ==
    ASSUME Types, NEW c \in Clients, Core(c), ClientStep(c)
    PROVE  Untold(c)
<1> USE ClientTypes
<1>1. CASE Granted(c)
  <2>1. conn'[c] = Receive(fresh[c]) /\ pc[c] = "acquire" /\ Answered(c)
    BY <1>1 DEF Granted, Types
  <2> QED
    BY <2>1, AcquireAnswer, RangeFacts DEF Untold
<1>2. CASE Released(c)
  BY <1>2, ThreadEndsUntold DEF Released
<1>3. CASE SendRenew(c) \/ SeeStop(c)
  <2>1. id'[c] = id[c] /\ \E m : conn'[c] = Send(conn[c], m)
    BY <1>3 DEF SendRenew, SeeStop, Types
  <2>2. conn'[c].toCli = conn[c].toCli
    BY <2>1, StreamMail
  <2> QED
    BY <2>1, <2>2 DEF Untold
<1>4. CASE RenewOk(c) \/ RenewGone(c)
  <2>1. id'[c] = id[c] /\ conn[c].toCli # <<>> /\ conn'[c] = Receive(conn[c])
    BY <1>4 DEF RenewOk, RenewGone, Answered, Awaited, Types
  <2>2. Range(conn'[c].toCli) \subseteq Range(conn[c].toCli)
    BY <2>1, StreamMail, TailFacts
  <2> QED
    BY <2>1, <2>2 DEF Untold
<1>5. CASE ConnectOk(c) \/ ConnectErr(c) \/ AcquireErr(c) \/ BusyRetry(c) \/ BusyFail(c)
             \/ Retry(c) \/ RenewErr(c)
  BY <1>5 DEF ConnectOk, ConnectErr, AcquireErr, BusyRetry, BusyFail, Retry, RenewErr,
              AttemptFails, Untold
<1> QED
  BY <1>1, <1>2, <1>3, <1>4, <1>5 DEF ClientStep

\* The server says Gone only to a client whose id it does not have, and has not
\* after the request.
LEMMA ServedGone ==
    ASSUME LeaseInv, NEW c \in Clients, ServeConn(c)
    PROVE  /\ id'[c] = id[c]
           /\ \A m \in Range(conn'[c].toCli) :
                 m \notin Range(conn[c].toCli) /\ m.op = "Gone" => id[c] \in Ids /\ held'.id # id[c]
<1> DEFINE h == Expire(held)
           r == Head(conn[c].toSrv)
<1>1. Types /\ Core(c)
  BY DEF LeaseInv
<1>2. PICK i \in MintChoices :
         /\ held' = HeldAfter(h, r, i)
         /\ conn' = [conn EXCEPT ![c] = Served(conn[c], h, i)]
  BY DEF ServeConn
<1>3. id'[c] = id[c] /\ conn'[c] = Served(conn[c], h, i)
  BY <1>1, <1>2 DEF ServeConn, Types
<1>4. r \in Range(conn[c].toSrv) /\ r \in Requests
  BY <1>1, ClientTypes, TailFacts, RangeFacts DEF ServeConn
<1>5. r.op \in {"Renew", "Release"} /\ r.id = id[c] /\ r.id \in Ids
  BY <1>1, <1>4 DEF Core, ConnMail
<1>6. Range(conn'[c].toCli) = Range(conn[c].toCli) \union {ReplyTo(h, r, i)}
  <2>1. ReplyTo(h, r, i) \in Replies
    BY <1>4, MintFacts, ReplyType
  <2>2. conn'[c].toCli = Append(conn[c].toCli, ReplyTo(h, r, i))
    BY <1>1, <1>3, ClientTypes, StreamMail
  <2>3. conn[c].toCli \in Seq(Replies)
    BY <1>1, ClientTypes
  <2> QED
    BY <2>1, <2>2, <2>3, AppendFacts
<1>7. ASSUME ReplyTo(h, r, i).op = "Gone" PROVE held'.id # id[c]
  <2>1. r.op = "Renew" /\ ~Owns(h, r)
    BY <1>5, <1>7 DEF ReplyTo
  <2>2. held' = h
    BY <1>2, <2>1 DEF HeldAfter
  <2> QED
    BY <1>5, <2>1, <2>2 DEF Owns, Ids, NoId
<1> QED
  BY <1>3, <1>5, <1>6, <1>7

\* GoneInv is inductive, given LeaseInv.
LEMMA GoneInvStep == LeaseInv /\ GoneInv /\ [Next]_vars => GoneInv'
<1> SUFFICES ASSUME LeaseInv, GoneInv, [Next]_vars, NEW c \in Clients,
                    NEW m \in Range(conn'[c].toCli), m.op = "Gone"
             PROVE  id'[c] \in Ids /\ held'.id # id'[c]
  BY DEF GoneInv, GoneTold
<1>1. Types /\ \A d \in Clients : Core(d)
  BY DEF LeaseInv
<1>2. ASSUME m \in Range(conn[c].toCli), id'[c] = id[c] PROVE id'[c] \in Ids /\ held'.id # id'[c]
  <2>1. id[c] \in Ids /\ held.id # id[c]
    BY <1>2 DEF GoneInv, GoneTold
  <2>2. id[c] \in UsedIds
    BY DEF UsedIds
  <2>3. id[c] \notin MintChoices /\ id[c] # NoId
    BY <2>1, <2>2, MintFacts DEF Ids, NoId
  <2> QED
    BY <1>2, <2>1, <2>3, HeldIds
<1>3. ASSUME Untold(c) PROVE id'[c] \in Ids /\ held'.id # id'[c]
  BY <1>2, <1>3 DEF Untold
<1>4. ASSUME NEW d \in Clients, Elsewhere(d), d # c PROVE Untold(c)
  BY <1>4 DEF Elsewhere, Untold
<1>5. ASSUME NEW d \in Clients, ClientStep(d) PROVE Untold(c)
  BY <1>1, <1>4, <1>5, ClientStepCore, ClientStepUntold
<1>6. ASSUME NEW d \in Clients,
             \/ Start(d) \/ Drop(d) \/ Detach(d) \/ Die(d)
             \/ BreakConn(d) \/ BreakFresh(d) \/ ServeConn(d) \/ ServeFresh(d)
      PROVE  Untold(c) \/ ServeConn(c)
  <2>1. CASE d # c
    BY <1>1, <1>4, <1>6, <2>1, OtherCore
  <2>2. CASE Die(c)
    BY <1>1, <2>2, ThreadEndsUntold DEF Die
  <2>3. CASE BreakConn(c)
    <3>1. conn'[c] = Broken(conn[c])
      BY <1>1, <2>3 DEF BreakConn, Types
    <3> QED
      BY <1>1, <3>1, ClientTypes, StreamMail, RangeFacts DEF Untold
  <2>4. CASE Start(c) \/ Drop(c) \/ Detach(c) \/ BreakFresh(c) \/ ServeFresh(c)
    BY <2>4 DEF Start, Drop, Detach, BreakFresh, ServeFresh, Untold
  <2> QED
    BY <1>6, <2>1, <2>2, <2>3, <2>4
<1>7. CASE ServeConn(c)
  BY <1>2, <1>7, ServedGone
<1>8. CASE Aside
  BY <1>3, <1>8, AsideKeeps DEF Untold
<1>9. CASE Restart
  <2>1. conn'[c] = Broken(conn[c])
    BY <1>9 DEF Restart
  <2> QED
    BY <1>1, <1>3, <2>1, ClientTypes, StreamMail, RangeFacts DEF Untold
<1> QED
  BY <1>3, <1>5, <1>6, <1>7, <1>8, <1>9, NextCases

\* A Gone that reaches a renew loop is true when it is read, under any timing
\* and any faults: the server does not hold the lease under the client's id.
THEOREM GoneIsTrue == Spec => []GoneMeansGone
<1>1. Init => GoneInv
  <2> SUFFICES ASSUME Init, NEW c \in Clients PROVE ~GoneTold(c)
    BY DEF GoneInv
  <2>1. conn[c].toCli = <<>>
    BY DEF Init, Closed
  <2> QED
    BY <2>1, RangeFacts DEF GoneTold
<1>2. GoneInv => GoneMeansGone
  BY DEF GoneInv, GoneTold, GoneMeansGone
<1> QED
  BY <1>1, <1>2, GoneInvStep, LeaseInvAlways, PTL DEF Spec
=============================================================================

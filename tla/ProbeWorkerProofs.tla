------------------------- MODULE ProbeWorkerProofs --------------------------
(***************************************************************************)
(* Proofs about ProbeWorker, for any captures, queue bound and uses: the   *)
(* commands in the channel agree with the captures' handles, and only a    *)
(* command silences a healthy capture.                                     *)
(***************************************************************************)
EXTENDS ProbeWorker, SequenceTheorems, TLAPS

\* A command in the channel whose future is wanted is the last one, and the one
\* that is awaited.
OneWanted ==
    \A n \in DOMAIN queue : queue[n].wanted => await /\ n = Len(queue)

\* A start in the channel is the only one of its capture, which is starting, or
\* cancelled if the start's future was dropped.
StartsPending ==
    \A n \in DOMAIN queue : queue[n].cap \in Captures =>
        /\ handle[queue[n].cap] = IF queue[n].wanted THEN "starting" ELSE "cancelled"
        /\ \A m \in DOMAIN queue : queue[m].cap = queue[n].cap => m = n

\* What is read was started, for somebody or for nobody any more.
ReadWasStarted == rtt \in Captures => handle[rtt] \in {"live", "dropped", "cancelled"}

\* The inductive invariant.
WorkerInv == TypeOK /\ OneWanted /\ StartsPending /\ ReadWasStarted

\* Changing the elements of a channel one by one leaves a channel.
LEMMA MappedQueue ==
    ASSUME NEW S, NEW q \in Seq(S), NEW T, NEW r,
           r = [n \in DOMAIN q |-> r[n]], \A n \in DOMAIN q : r[n] \in T
    PROVE  r \in Seq(T) /\ Len(r) = Len(q) /\ DOMAIN r = DOMAIN q
<1>1. Len(q) \in Nat /\ DOMAIN q = 1..Len(q)
  BY LenProperties
<1>2. r \in [1..Len(q) -> T]
  BY <1>1
<1>3. r \in Seq(T)
  BY <1>1, <1>2, SeqDef
<1> QED
  BY <1>1, <1>2, <1>3, LenProperties

\* The invariant holds at the start.
LEMMA WorkerInvInit == Init => WorkerInv
<1> SUFFICES ASSUME Init PROVE WorkerInv
  OBVIOUS
<1>1. queue = <<>> /\ queue \in Seq(Commands) /\ DOMAIN queue = {}
  BY EmptySeq, LenProperties DEF Init
<1>2. TypeOK
  BY <1>1 DEF Init, TypeOK
<1>3. OneWanted /\ StartsPending
  BY <1>1 DEF OneWanted, StartsPending
<1>4. ReadWasStarted
  BY QueueAssumption DEF Init, ReadWasStarted
<1> QED
  BY <1>2, <1>3, <1>4 DEF WorkerInv

\* What the commands of the channel are.
LEMMA CommandFacts ==
    /\ \A c \in Commands : /\ c.op \in {"flash", "reset", "start"}
                           /\ c.cap \in Captures \union {NoCapture} /\ c.wanted \in BOOLEAN
                           /\ c.op = "start" <=> c.cap \in Captures
                           /\ [c EXCEPT !.wanted = FALSE] \in Commands
    /\ \A k \in Captures : StartRtt(k) \in Commands
    /\ Flash \in Commands /\ Reset \in Commands
  BY QueueAssumption DEF Commands, StartRtt, Flash, Reset, Command

\* The worker takes the head of the channel.
LEMMA ReceiveStep ==
    ASSUME WorkerInv, NEW op, Receive(op)
    PROVE  /\ queue' \in Seq(Commands) /\ Len(queue') = Len(queue) - 1
           /\ Len(queue) \in Nat /\ Len(queue) > 0 /\ DOMAIN queue = 1..Len(queue)
           /\ DOMAIN queue' = 1..Len(queue')
           /\ \A n \in DOMAIN queue' : n + 1 \in DOMAIN queue /\ queue'[n] = queue[n + 1]
           /\ Head(queue) = queue[1] /\ queue[1] \in Commands /\ queue[1].op = op
           /\ await' \in BOOLEAN /\ OneWanted'
<1>1. /\ queue \in Seq(Commands) /\ queue # <<>> /\ queue' = Tail(queue) /\ await \in BOOLEAN
      /\ await' = (await /\ ~Head(queue).wanted) /\ Head(queue).op = op
  BY DEF Receive, WorkerInv, TypeOK
<1>2. /\ queue' \in Seq(Commands) /\ Len(queue') = Len(queue) - 1
      /\ Len(queue) \in Nat /\ Len(queue) > 0 /\ DOMAIN queue = 1..Len(queue)
      /\ DOMAIN queue' = 1..Len(queue')
      /\ \A n \in DOMAIN queue' : n + 1 \in DOMAIN queue /\ queue'[n] = queue[n + 1]
      /\ Head(queue) = queue[1] /\ queue[1] \in Commands
  <2>1. /\ queue' \in Seq(Commands) /\ Len(queue') = Len(queue) - 1
        /\ \A n \in 1..Len(queue') : queue'[n] = queue[n + 1]
        /\ Head(queue) \in Commands
    BY <1>1, HeadTailProperties
  <2>2. /\ Len(queue) \in Nat /\ DOMAIN queue = 1..Len(queue) /\ Len(queue) # 0
        /\ DOMAIN queue' = 1..Len(queue')
    BY <1>1, <2>1, LenProperties, EmptySeq
  <2> QED
    BY <1>1, <2>1, <2>2, CommandFacts
<1>3. ASSUME NEW n \in DOMAIN queue', queue'[n].wanted PROVE await' /\ n = Len(queue')
  <2>1. await /\ n + 1 = Len(queue)
    BY <1>2, <1>3 DEF WorkerInv, OneWanted
  <2>2. ~queue[1].wanted
    <3> SUFFICES ASSUME queue[1].wanted PROVE FALSE
      OBVIOUS
    <3>1. 1 = Len(queue)
      BY <1>2 DEF WorkerInv, OneWanted
    <3> QED
      BY <2>1, <3>1, <1>2
  <2> QED
    <3>1. ~Head(queue).wanted /\ await
      BY <1>2, <2>1, <2>2
    <3>2. await'
      BY <1>1, <3>1, Zenon
    <3>3. n = Len(queue')
      BY <1>2, <2>1
    <3> QED
      BY <3>2, <3>3
<1> QED
  BY <1>1, <1>2, <1>3 DEF OneWanted

\* A call appends its command, which nobody else waits for.
LEMMA CallStep ==
    ASSUME WorkerInv, NEW c \in Commands, c.wanted, Call(c)
    PROVE  /\ queue' \in Seq(Commands) /\ await' = TRUE
           /\ Len(queue) \in Nat /\ DOMAIN queue = 1..Len(queue) /\ Len(queue') = Len(queue) + 1
           /\ DOMAIN queue' = 1..(Len(queue) + 1)
           /\ \A n \in DOMAIN queue : queue'[n] = queue[n] /\ ~queue[n].wanted
           /\ queue'[Len(queue) + 1] = c
           /\ OneWanted'
<1>1. queue \in Seq(Commands) /\ queue' = Append(queue, c) /\ ~await /\ await' = TRUE
  BY DEF Call, WorkerInv, TypeOK
<1>2. /\ queue' \in Seq(Commands) /\ Len(queue') = Len(queue) + 1
      /\ \A n \in 1..Len(queue) : queue'[n] = queue[n]
      /\ queue'[Len(queue) + 1] = c
  BY <1>1, AppendProperties
<1>3. /\ Len(queue) \in Nat /\ DOMAIN queue = 1..Len(queue) /\ DOMAIN queue' = 1..Len(queue')
  BY <1>1, <1>2, LenProperties
<1>4. \A n \in DOMAIN queue : ~queue[n].wanted
  BY <1>1 DEF WorkerInv, OneWanted
<1>5. OneWanted'
  BY <1>1, <1>2, <1>3, <1>4 DEF OneWanted
<1> QED
  BY <1>1, <1>2, <1>3, <1>4, <1>5

\* Every step keeps the invariant: the steps of the handle.
LEMMA HandleStep ==
    ASSUME WorkerInv,
           \/ Open \/ CallFlash \/ CallReset \/ (\E k \in Captures : CallStart(k) \/ DropCapture(k))
           \/ Cancel \/ Close
    PROVE  WorkerInv'
<1> USE QueueAssumption
<1>1. CASE Open \/ Close
  BY <1>1 DEF Open, Close, WorkerInv, TypeOK, OneWanted, StartsPending, ReadWasStarted
<1>2. CASE CallFlash \/ CallReset
  <2>1. PICK c \in {Flash, Reset} : Call(c) /\ UNCHANGED handle
    BY <1>2 DEF CallFlash, CallReset
  <2>2. c \in Commands /\ c.wanted /\ c.cap \notin Captures
    BY CommandFacts DEF Flash, Reset, Command
  <2>3. UNCHANGED <<target, worker, rtt, health>>
    BY <2>1 DEF Call
  <2>4. TypeOK' /\ OneWanted' /\ ReadWasStarted'
    BY <2>1, <2>2, <2>3, CallStep DEF WorkerInv, TypeOK, ReadWasStarted
  <2>5. StartsPending'
    <3>0. /\ Len(queue) \in Nat /\ DOMAIN queue = 1..Len(queue)
          /\ DOMAIN queue' = 1..(Len(queue) + 1)
          /\ \A n \in DOMAIN queue : queue'[n] = queue[n]
          /\ queue'[Len(queue) + 1] = c
      BY <2>1, <2>2, CallStep
    <3>1. /\ \A n \in DOMAIN queue : n \in DOMAIN queue' /\ queue'[n] = queue[n]
          /\ \A n \in DOMAIN queue' : queue'[n].cap \in Captures => n \in DOMAIN queue
      <4>1. \A n \in DOMAIN queue' : n \in DOMAIN queue \/ n = Len(queue) + 1
        BY <3>0
      <4>2. \A n \in DOMAIN queue : n \in DOMAIN queue'
        BY <3>0
      <4> QED
        BY <2>2, <3>0, <4>1, <4>2
    <3>2. StartsPending /\ handle' = handle
      BY <2>1 DEF WorkerInv
    <3> QED
      BY <3>1, <3>2 DEF StartsPending
  <2> QED
    BY <2>4, <2>5 DEF WorkerInv
<1>3. ASSUME NEW k \in Captures, CallStart(k) PROVE WorkerInv'
  <2>1. /\ Call(StartRtt(k)) /\ handle[k] = "unused" /\ handle' = [handle EXCEPT ![k] = "starting"]
        /\ StartRtt(k) \in Commands /\ StartRtt(k).wanted /\ StartRtt(k).cap = k
    BY <1>3, CommandFacts DEF CallStart, StartRtt, Command
  <2>2. UNCHANGED <<target, worker, rtt, health>>
    BY <2>1 DEF Call
  <2>3. TypeOK' /\ OneWanted' /\ ReadWasStarted'
    BY <2>1, <2>2, CallStep DEF WorkerInv, TypeOK, ReadWasStarted
  <2>4. \A n \in DOMAIN queue : queue[n].cap # k
    BY <2>1, CallStep DEF WorkerInv, StartsPending
  <2>5. StartsPending'
    <3> DEFINE last == Len(queue) + 1
    <3>0. /\ Len(queue) \in Nat /\ DOMAIN queue = 1..Len(queue) /\ DOMAIN queue' = 1..last
          /\ \A n \in DOMAIN queue : queue'[n] = queue[n]
          /\ queue'[last] = StartRtt(k)
      BY <2>1, CallStep
    <3>1. /\ \A n \in DOMAIN queue : queue'[n] = queue[n]
          /\ queue'[last] = StartRtt(k)
          /\ \A n \in DOMAIN queue' : n \in DOMAIN queue \/ n = last
      BY <3>0
    <3>2. /\ StartsPending
          /\ handle \in [Captures -> {"unused", "starting", "live", "dropped", "cancelled", "failed"}]
      BY DEF WorkerInv, TypeOK
    <3>3. ASSUME NEW n \in DOMAIN queue', queue'[n].cap \in Captures, n # last
          PROVE  /\ handle'[queue'[n].cap] = IF queue'[n].wanted THEN "starting" ELSE "cancelled"
                 /\ \A m \in DOMAIN queue' : queue'[m].cap = queue'[n].cap => m = n
      <4> HIDE DEF last
      <4>1. n \in DOMAIN queue /\ queue'[n] = queue[n] /\ queue[n].cap # k
        BY <3>1, <3>3, <2>4
      <4>2. handle'[queue[n].cap] = handle[queue[n].cap]
        BY <2>1, <4>1, <3>2, <3>3
      <4>3. \A m \in DOMAIN queue' : queue'[m].cap = queue[n].cap => m \in DOMAIN queue
        BY <2>1, <3>1, <4>1
      <4> QED
        BY <3>1, <3>2, <3>3, <4>1, <4>2, <4>3 DEF StartsPending
    <3>4. /\ handle'[k] = "starting"
          /\ \A m \in DOMAIN queue' : queue'[m].cap = k => m = last
      BY <2>1, <2>4, <3>1, <3>2
    <3> QED
      BY <2>1, <3>1, <3>3, <3>4 DEF StartsPending
  <2> QED
    BY <2>3, <2>5 DEF WorkerInv
<1>4. ASSUME NEW k \in Captures, DropCapture(k) PROVE WorkerInv'
  <2>1. /\ handle[k] = "live" /\ handle' = [handle EXCEPT ![k] = "dropped"]
        /\ UNCHANGED <<target, await, queue, worker, rtt, health>>
    BY <1>4 DEF DropCapture
  <2>2. TypeOK' /\ OneWanted' /\ ReadWasStarted'
    BY <2>1 DEF WorkerInv, TypeOK, OneWanted, ReadWasStarted
  <2>3. \A n \in DOMAIN queue : queue[n].cap # k
    BY <2>1 DEF WorkerInv, StartsPending
  <2>4. StartsPending'
    BY <2>1, <2>3 DEF WorkerInv, TypeOK, StartsPending
  <2> QED
    BY <2>2, <2>4 DEF WorkerInv
<1>5. CASE Cancel
  <2>1. /\ await' = FALSE /\ UNCHANGED <<target, worker, rtt, health>>
        /\ queue' = [n \in DOMAIN queue |-> [queue[n] EXCEPT !.wanted = FALSE]]
        /\ handle' = [k \in Captures |-> IF handle[k] = "starting" THEN "cancelled" ELSE handle[k]]
    BY <1>5 DEF Cancel
  <2>2. queue \in Seq(Commands) /\ \A n \in DOMAIN queue : queue[n] \in Commands
    BY LenProperties, ElementOfSeq DEF WorkerInv, TypeOK
  <2>3. /\ DOMAIN queue' = DOMAIN queue
        /\ \A n \in DOMAIN queue : /\ queue'[n] \in Commands /\ ~queue'[n].wanted
                                  /\ queue'[n].cap = queue[n].cap
    BY <2>1, <2>2, CommandFacts DEF Commands
  <2>4. queue' \in Seq(Commands)
    BY <2>1, <2>2, <2>3, MappedQueue
  <2>5. TypeOK' /\ OneWanted' /\ ReadWasStarted'
    BY <2>1, <2>3, <2>4 DEF WorkerInv, TypeOK, OneWanted, ReadWasStarted
  <2>6. StartsPending'
    BY <2>1, <2>3 DEF WorkerInv, StartsPending
  <2> QED
    BY <2>5, <2>6 DEF WorkerInv
<1> QED
  BY <1>1, <1>2, <1>3, <1>4, <1>5

\* Every step keeps the invariant: the steps of the thread.
LEMMA ThreadStep ==
    ASSUME WorkerInv, WorkerStep
    PROVE  WorkerInv'
<1> USE QueueAssumption
<1>1. CASE Attach \/ Timeout \/ PollIdle \/ PollReads
  BY <1>1 DEF Attach, Timeout, PollIdle, PollReads, WorkerInv, TypeOK, OneWanted, StartsPending,
     ReadWasStarted
<1>2. CASE Disconnected \/ PollStopped \/ PollFaults
  BY <1>2 DEF Disconnected, PollStopped, PollFaults, WorkerInv, TypeOK, OneWanted, StartsPending,
     ReadWasStarted
<1>3. ASSUME NEW op, Receive(op), UNCHANGED handle, rtt' \in {rtt, NoCapture}
      PROVE  WorkerInv'
  <2>1. TypeOK' /\ OneWanted'
    BY <1>3, ReceiveStep DEF WorkerInv, TypeOK, Receive
  <2>2. StartsPending' /\ ReadWasStarted'
    BY <1>3, ReceiveStep DEF WorkerInv, StartsPending, ReadWasStarted
  <2> QED
    BY <2>1, <2>2 DEF WorkerInv
<1>4. ASSUME NEW result \in {"live", "failed"}, Receive("start"), StartReturns(result),
             rtt' = IF result = "live" THEN Head(queue).cap ELSE rtt
      PROVE  WorkerInv'
  <2> DEFINE k == queue[1].cap
  <2>1. /\ k \in Captures /\ Head(queue) = queue[1] /\ queue[1].wanted \in BOOLEAN
        /\ 1 \in DOMAIN queue
    <3>1. /\ Head(queue) = queue[1] /\ queue[1] \in Commands /\ queue[1].op = "start"
          /\ 1 \in DOMAIN queue
      BY <1>4, ReceiveStep
    <3> QED
      BY <3>1, CommandFacts
  <2>2. /\ handle[k] = IF queue[1].wanted THEN "starting" ELSE "cancelled"
        /\ \A m \in DOMAIN queue : queue[m].cap = k => m = 1
    BY <2>1 DEF WorkerInv, StartsPending
  <2>3. handle' = [j \in Captures |-> IF j = k /\ queue[1].wanted THEN result ELSE handle[j]]
    BY <1>4, <2>1 DEF StartReturns
  <2>4. TypeOK' /\ OneWanted'
    BY <1>4, <2>1, <2>3, ReceiveStep DEF WorkerInv, TypeOK, Receive
  <2>5. \A n \in DOMAIN queue' : queue'[n].cap # k
    BY <1>4, <2>2, ReceiveStep
  <2>6. StartsPending'
    BY <1>4, <2>3, <2>5, ReceiveStep DEF WorkerInv, StartsPending
  <2>7. ReadWasStarted'
    BY <1>4, <2>1, <2>2, <2>3 DEF WorkerInv, ReadWasStarted
  <2> QED
    BY <2>4, <2>6, <2>7 DEF WorkerInv
<1>5. CASE DoFlash \/ DoReset
  BY <1>3, <1>5 DEF DoFlash, DoReset
<1>6. CASE DoStart \/ DoStartFails
  BY <1>4, <1>6 DEF DoStart, DoStartFails
<1> QED
  BY <1>1, <1>2, <1>5, <1>6 DEF WorkerStep

\* WorkerInv is inductive.
LEMMA WorkerInvNext == WorkerInv /\ [Next]_vars => WorkerInv'
<1>1. WorkerInv /\ UNCHANGED vars => WorkerInv'
  BY DEF vars, WorkerInv, TypeOK, OneWanted, StartsPending, ReadWasStarted
<1> QED
  BY <1>1, HandleStep, ThreadStep DEF Next

\* WorkerInv is an invariant.
LEMMA WorkerInvariant == Spec => []WorkerInv
  BY WorkerInvInit, WorkerInvNext, PTL DEF Spec

\* The variables of the probe, its handle and its thread keep their types,
\* whatever futures are dropped and whatever fails.
THEOREM TypeCorrect == Spec => []TypeOK
<1>1. WorkerInv => TypeOK
  BY DEF WorkerInv
<1> QED
  BY <1>1, WorkerInvariant, PTL

\* "callers asserting on RTT output should check [`RttCapture::error`] before
\* trusting silence": for any number of captures, a capture its owner still has
\* and that reports no fault goes silent only by a command of the same test, or
\* by closing the target.
THEOREM OnlyCommandsSilence == Spec => SilencedByCommandOnly
<1> DEFINE Goal == \A k \in Captures :
              (rtt = k /\ rtt' # k /\ handle[k] \in {"starting", "live"} /\ health'[k] = "ok")
                  => DoFlash \/ DoStart \/ Disconnected
<1>1. ASSUME WorkerInv, Next PROVE Goal
  <2>1. CASE PollFaults
    <3>1. \A k \in Captures : rtt = k => health'[k] = "fault"
      BY <1>1, <2>1 DEF PollFaults, WorkerInv, TypeOK
    <3> QED
      BY <3>1
  <2>2. CASE PollStopped
    BY <2>2 DEF PollStopped, StopReceived
  <2>3. CASE DoFlash \/ DoStart \/ Disconnected
    BY <2>3
  <2>4. CASE UNCHANGED rtt
    BY <2>4
  <2> QED
    BY <1>1, <2>1, <2>2, <2>3, <2>4
       DEF Next, WorkerStep, Open, CallFlash, CallReset, CallStart, DropCapture, Cancel, Close, Call,
           Attach, DoReset, DoStartFails, Timeout, PollIdle, PollReads
<1>2. ASSUME UNCHANGED vars PROVE Goal
  BY <1>2 DEF vars
<1>3. WorkerInv /\ [Next]_vars => [Goal]_vars
  BY <1>1, <1>2
<1> QED
  BY <1>3, WorkerInvariant, PTL DEF Spec, SilencedByCommandOnly
=============================================================================

-------------------------- MODULE PinMonitorProofs --------------------------
(***************************************************************************)
(* Proofs about PinMonitor, for any set of pins and any headroom: the pin  *)
(* table and the monitors agree on who owns each pin, a stop signal means  *)
(* a stop that was asked for, and the pool of tasks is large enough.       *)
(***************************************************************************)
EXTENDS PinMonitor, FiniteSetTheorems, Functions, TLAPS

\* The inductive invariant.
PinInv == TypeOK /\ PinInOnePlace /\ StopSignalIsExact

\* The invariant holds at power on.
LEMMA PinInvInit == Init => PinInv
<1> SUFFICES ASSUME Init PROVE PinInv
  OBVIOUS
<1>1. TypeOK
  BY DEF Init, PowerOn, TypeOK, OwnerStates
<1>2. PinInOnePlace /\ StopSignalIsExact
  BY DEF Init, PowerOn, PinInOnePlace, StopSignalIsExact, Owns, OwnerStates
<1> QED
  BY <1>1, <1>2 DEF PinInv

\* A request changes no pin's owner and no stop signal, and wakes no monitor.
LEMMA RequestStep ==
    ASSUME PinInv, Request
    PROVE  PinInv' /\ \A t \in Tasks : st[t] = "watch" => st'[t] = "watch"
<1> DEFINE Goal == PinInv' /\ \A t \in Tasks : st[t] = "watch" => st'[t] = "watch"
<1> USE DEF PinInv
<1>1. ASSUME NEW p \in Pins, NEW m \in Modes, GpioConfig(p, m) PROVE Goal
  <2>1. TypeOK' /\ st' = st
    BY <1>1 DEF GpioConfig, TypeOK
  <2>2. PinInOnePlace' /\ StopSignalIsExact'
    BY <1>1 DEF GpioConfig, PinInOnePlace, StopSignalIsExact, Owns
  <2> QED
    BY <2>1, <2>2
<1>2. ASSUME NEW p \in Pins, NEW l \in Levels, GpioSet(p, l) PROVE Goal
  <2>1. TypeOK' /\ st' = st
    BY <1>2 DEF GpioSet, TypeOK
  <2>2. PinInOnePlace' /\ StopSignalIsExact'
    BY <1>2 DEF GpioSet, PinInOnePlace, StopSignalIsExact, Owns
  <2> QED
    BY <2>1, <2>2
<1>3. ASSUME NEW t \in Tasks, NEW p \in Pins \union {BadPin}, NEW e \in BOOLEAN, Spawn(t, p, e)
      PROVE  Goal
  <2>1. /\ UNCHANGED <<slot, mode, latch, stop, link, reset, asked>>
        /\ st[t] = "free" /\ st'[t] \in BriefStates
        /\ st' \in [Tasks -> {"free"} \union OwnerStates \union BriefStates]
        /\ arg' \in [Tasks -> Pins \union {BadPin, NoPin}]
        /\ \A u \in Tasks \ {t} : st'[u] = st[u] /\ arg'[u] = arg[u]
    BY <1>3 DEF Spawn, Idle, TypeOK, BriefStates
  <2>2. st[t] \notin OwnerStates /\ st'[t] \notin OwnerStates
    BY <2>1 DEF OwnerStates, BriefStates
  <2>3. TypeOK'
    BY <2>1, <2>2 DEF TypeOK
  <2>4. \A u \in Tasks, q \in Pins : Owns(u, q)' <=> Owns(u, q)
    BY <2>1, <2>2 DEF Owns
  <2>5. PinInOnePlace' /\ StopSignalIsExact'
    BY <2>1, <2>4 DEF PinInOnePlace, StopSignalIsExact
  <2> QED
    BY <2>1, <2>3, <2>5
<1>4. CASE ResetAsked
  BY <1>4 DEF ResetAsked, TypeOK, PinInOnePlace, StopSignalIsExact, Owns
<1> QED
  BY <1>1, <1>2, <1>3, <1>4 DEF Request

\* A task takes a free pin, gives back its own, or moves no pin at all.
LEMMA RunStep ==
    ASSUME PinInv, NEW t \in Tasks, Run(t)
    PROVE  PinInv'
<1> USE DEF PinInv, Goto, Finish
<1>1. UNCHANGED <<mode, latch>>
  BY DEF Run, OutOfRange, Disable, EnableBusy, Enable, Replied, AckSent, AckFails, Edge,
         Published, StopSeen
<1>2. CASE OutOfRange(t) \/ EnableBusy(t) \/ Replied(t)
  <2>1. /\ UNCHANGED <<slot, mode, latch, stop, link, reset, asked>>
        /\ st[t] \in BriefStates /\ st'[t] \in {"reply", "free"}
        /\ st' \in [Tasks -> {"free"} \union OwnerStates \union BriefStates]
        /\ arg' \in [Tasks -> Pins \union {BadPin, NoPin}]
        /\ \A u \in Tasks \ {t} : st'[u] = st[u] /\ arg'[u] = arg[u]
    BY <1>2 DEF OutOfRange, EnableBusy, Replied, TypeOK, BriefStates
  <2>2. st[t] \notin OwnerStates /\ st'[t] \notin OwnerStates
    BY <2>1 DEF OwnerStates, BriefStates
  <2>3. TypeOK'
    BY <2>1, <2>2 DEF TypeOK
  <2>4. \A u \in Tasks, q \in Pins : Owns(u, q)' <=> Owns(u, q)
    BY <2>1, <2>2 DEF Owns
  <2> QED
    BY <1>1, <2>1, <2>3, <2>4 DEF PinInOnePlace, StopSignalIsExact
<1>3. CASE Disable(t)
  <2>1. /\ UNCHANGED <<slot, mode, latch, arg, link, reset>>
        /\ st[t] = "disable" /\ st' = [st EXCEPT ![t] = "reply"] /\ arg[t] \in Pins
        /\ stop' = [stop EXCEPT ![arg[t]] = TRUE] /\ asked' = [asked EXCEPT ![arg[t]] = TRUE]
    BY <1>3 DEF Disable
  <2>2. TypeOK'
    BY <2>1 DEF TypeOK, OwnerStates, BriefStates
  <2>3. \A u \in Tasks, q \in Pins : Owns(u, q)' <=> Owns(u, q)
    BY <2>1 DEF Owns, OwnerStates, TypeOK
  <2>4. PinInOnePlace'
    BY <2>1, <2>3 DEF PinInOnePlace
  <2>5. StopSignalIsExact'
    BY <2>1 DEF StopSignalIsExact, TypeOK
  <2> QED
    BY <2>2, <2>4, <2>5, <1>1
<1>4. CASE Enable(t)
  <2>1. /\ UNCHANGED <<mode, latch, arg, link, reset>>
        /\ st[t] = "enable" /\ st' = [st EXCEPT ![t] = "ack"] /\ arg[t] \in Pins /\ slot[arg[t]]
        /\ slot' = [slot EXCEPT ![arg[t]] = FALSE]
        /\ stop' = [stop EXCEPT ![arg[t]] = FALSE] /\ asked' = [asked EXCEPT ![arg[t]] = FALSE]
    BY <1>4 DEF Enable
  <2>2. TypeOK'
    BY <2>1 DEF TypeOK, OwnerStates, BriefStates
  <2>3. \A u \in Tasks, q \in Pins : Owns(u, q)' <=> (Owns(u, q) \/ (u = t /\ q = arg[t]))
    BY <2>1 DEF Owns, OwnerStates, TypeOK
  <2>4. \A u \in Tasks : ~Owns(u, arg[t])
    BY <2>1 DEF PinInOnePlace
  <2>5. \A q \in Pins : slot'[q] <=> slot[q] /\ q # arg[t]
    BY <2>1 DEF TypeOK
  <2>6. PinInOnePlace'
    BY <2>1, <2>3, <2>4, <2>5 DEF PinInOnePlace
  <2>7. StopSignalIsExact'
    BY <2>1 DEF StopSignalIsExact, TypeOK
  <2> QED
    BY <2>2, <2>6, <2>7, <1>1
<1>5. CASE AckSent(t) \/ Edge(t) \/ Published(t)
  <2>1. /\ UNCHANGED <<slot, mode, latch, stop, arg, link, reset, asked>>
        /\ st[t] \in OwnerStates /\ \E x \in OwnerStates : st' = [st EXCEPT ![t] = x]
    BY <1>5 DEF AckSent, Edge, Published, OwnerStates
  <2>2. TypeOK'
    BY <2>1 DEF TypeOK
  <2>3. \A u \in Tasks, q \in Pins : Owns(u, q)' <=> Owns(u, q)
    BY <2>1 DEF Owns, TypeOK
  <2> QED
    BY <1>1, <2>1, <2>2, <2>3 DEF PinInOnePlace, StopSignalIsExact
<1>6. CASE AckFails(t) \/ StopSeen(t)
  <2>1. /\ UNCHANGED <<mode, latch, link, reset, asked>>
        /\ st[t] \in OwnerStates
        /\ st' = [st EXCEPT ![t] = "free"] /\ arg' = [arg EXCEPT ![t] = NoPin]
        /\ slot' = [slot EXCEPT ![arg[t]] = TRUE]
        /\ stop' = stop \/ stop' = [stop EXCEPT ![arg[t]] = FALSE]
    BY <1>6 DEF AckFails, StopSeen, OwnerStates
  <2>2. arg[t] \in Pins
    BY <2>1 DEF TypeOK
  <2>3. TypeOK'
    <3>1. stop' \in [Pins -> BOOLEAN]
      BY <2>1 DEF TypeOK
    <3>2. \A u \in Tasks : st'[u] \in OwnerStates => arg'[u] \in Pins
      BY <2>1 DEF TypeOK, OwnerStates
    <3> QED
      BY <2>1, <3>1, <3>2 DEF TypeOK
  <2>4. \A u \in Tasks, q \in Pins : Owns(u, q)' <=> (Owns(u, q) /\ u # t)
    BY <2>1 DEF Owns, OwnerStates, TypeOK
  <2>5. \A u \in Tasks : Owns(u, arg[t]) <=> u = t
    BY <2>1, <2>2 DEF Owns, PinInOnePlace
  <2>6. \A q \in Pins : slot'[q] <=> slot[q] \/ q = arg[t]
    BY <2>1 DEF TypeOK
  <2>7. \A q \in Pins : Owns(t, q) => q = arg[t]
    BY DEF Owns
  <2>8. PinInOnePlace'
    BY <2>2, <2>4, <2>5, <2>6, <2>7 DEF PinInOnePlace
  <2>9. StopSignalIsExact'
    BY <2>1, <2>2 DEF StopSignalIsExact, TypeOK
  <2> QED
    BY <2>3, <2>8, <2>9, <1>1
<1> QED
  BY <1>2, <1>3, <1>4, <1>5, <1>6 DEF Run

\* Every step keeps the invariant.
LEMMA PinInvStep == PinInv /\ [Next]_vars => PinInv'
<1> SUFFICES ASSUME PinInv, [Next]_vars PROVE PinInv'
  OBVIOUS
<1>1. CASE Request
  BY <1>1, RequestStep
<1>2. ASSUME NEW t \in Tasks, Run(t) PROVE PinInv'
  BY <1>2, RunStep
<1>3. CASE ResetReplied \/ HostLeaves \/ HostConnects \/ UNCHANGED vars
  <2>1. /\ UNCHANGED <<slot, mode, latch, stop, st, arg, asked>>
        /\ link' \in BOOLEAN /\ reset' \in {"none", "reply", "timer"}
    BY <1>3 DEF ResetReplied, HostLeaves, HostConnects, vars, PinInv, TypeOK
  <2> QED
    BY <2>1 DEF PinInv, TypeOK, PinInOnePlace, StopSignalIsExact, Owns
<1>4. CASE SysReset
  <2>1. /\ slot' = [p \in Pins |-> TRUE] /\ st' = [t \in Tasks |-> "free"]
        /\ TypeOK'
    BY <1>4 DEF SysReset, PowerOn, TypeOK, OwnerStates
  <2>2. PinInOnePlace' /\ StopSignalIsExact'
    BY <2>1 DEF PinInOnePlace, StopSignalIsExact, Owns, OwnerStates
  <2> QED
    BY <2>1, <2>2 DEF PinInv
<1> QED
  BY <1>1, <1>2, <1>3, <1>4 DEF Next

\* PinInv is an invariant.
LEMMA PinInvAlways == Spec => []PinInv
BY PinInvInit, PinInvStep, PTL DEF Spec

-----------------------------------------------------------------------------
\* Every variable has its type, and an owner's pin is a pin of the table.
THEOREM TypeCorrect == Spec => []TypeOK
<1>1. PinInv => TypeOK
  BY DEF PinInv
<1> QED
  BY <1>1, PinInvAlways, PTL

\* `None` in PinSlots means that exactly one monitor owns the pin; the pin is
\* in the table otherwise.
THEOREM PinsAccountedFor == Spec => []PinInOnePlace
<1>1. PinInv => PinInOnePlace
  BY DEF PinInv
<1> QED
  BY <1>1, PinInvAlways, PTL

\* The reset of MONITOR_STOP at the take neither loses a disable nor leaves an
\* older one behind.
THEOREM StopsAreExact == Spec => []StopSignalIsExact
<1>1. PinInv => StopSignalIsExact
  BY DEF PinInv
<1> QED
  BY <1>1, PinInvAlways, PTL

\* An edge is taken up only by a monitor that nobody has told to stop: its stop
\* signal is off, and the signal is exact.
LEMMA EdgeStep ==
    ASSUME PinInv, [Next]_vars, NEW t \in Tasks, st[t] = "watch", st'[t] = "publish"
    PROVE  ~asked[arg[t]]
<1>1. Edge(t)
  <2>1. ASSUME NEW u \in Tasks, Run(u) PROVE Edge(t)
    <3>1. u = t
      BY <2>1 DEF Run, OutOfRange, Disable, EnableBusy, Enable, Replied, AckSent, AckFails, Edge,
                  Published, StopSeen, Goto, Finish, PinInv, TypeOK
    <3> QED
      BY <2>1, <3>1 DEF Run, OutOfRange, Disable, EnableBusy, Enable, Replied, AckSent, AckFails,
                        Published, StopSeen, Finish, PinInv, TypeOK
  <2>2. ~Request
    BY RequestStep
  <2>3. ~(ResetReplied \/ SysReset \/ HostLeaves \/ HostConnects \/ UNCHANGED vars)
    BY DEF ResetReplied, SysReset, PowerOn, HostLeaves, HostConnects, vars
  <2> QED
    BY <2>1, <2>2, <2>3 DEF Next
<1>2. arg[t] \in Pins /\ Owns(t, arg[t])
  BY DEF Owns, OwnerStates, PinInv, TypeOK
<1>3. ~slot[arg[t]]
  BY <1>2 DEF PinInv, PinInOnePlace
<1> QED
  BY <1>1, <1>2, <1>3 DEF Edge, PinInv, StopSignalIsExact

\* A disable that was handled while the monitor's own reply was being sent, or
\* while it published an edge, is its last word all the same.
THEOREM DisabledMonitorsAreQuiet == Spec => QuietAfterDisable
<1>1. PinInv /\ [Next]_vars =>
        [\A t \in Tasks : st[t] = "watch" /\ st'[t] = "publish" => ~asked[arg[t]]]_vars
  BY EdgeStep
<1> QED
  BY <1>1, PinInvAlways, PTL DEF Spec, QuietAfterDisable

\* With pool_size = NUM_PINS + Headroom, the pool runs out only while Headroom
\* tasks are busy with short requests: the owners are no more than the pins.
LEMMA PoolSuffices == PinInv => HeadroomSuffices
<1> SUFFICES ASSUME PinInv, \A t \in Tasks : ~Idle(t)
             PROVE  Cardinality({t \in Tasks : st[t] \in BriefStates}) >= Headroom
  BY DEF HeadroomSuffices
<1> DEFINE Owners == {t \in Tasks : st[t] \in OwnerStates}
           Brief == {t \in Tasks : st[t] \in BriefStates}
           pin == [t \in Owners |-> arg[t]]
<1>1. IsFiniteSet(Pins) /\ Cardinality(Pins) \in Nat /\ Headroom \in Nat
  BY PinsAssumption, HeadroomAssumption, FS_CardinalityType
<1>2. IsFiniteSet(Tasks) /\ Cardinality(Tasks) = Cardinality(Pins) + Headroom
  <2> DEFINE n == Cardinality(Pins) + Headroom
  <2>1. n \in Nat
    BY <1>1
  <2> HIDE DEF n
  <2>2. \A m \in Nat : IsFiniteSet(1..m) /\ Cardinality(1..m) = IF 1 > m THEN 0 ELSE m - 1 + 1
    BY FS_Interval
  <2>3. IsFiniteSet(1..n) /\ Cardinality(1..n) = n
    BY <2>1, <2>2
  <2> QED
    BY <2>3 DEF Tasks, n
<1>3. IsFiniteSet(Owners) /\ IsFiniteSet(Brief)
      /\ Cardinality(Owners) \in Nat /\ Cardinality(Brief) \in Nat
  BY <1>2, FS_Subset, FS_CardinalityType
<1>4. Tasks = Owners \union Brief /\ Owners \intersect Brief = {}
  BY DEF PinInv, TypeOK, Idle, OwnerStates, BriefStates
<1>5. Cardinality(Owners) <= Cardinality(Pins)
  <2>1. pin \in [Owners -> Pins]
    BY DEF PinInv, TypeOK
  <2>2. \A t, u \in Owners : pin[t] = pin[u] => t = u
    BY <2>1 DEF PinInv, PinInOnePlace, Owns
  <2>3. pin \in Injection(Owners, Pins)
    BY <2>1, <2>2 DEF Injection, IsInjective
  <2> QED
    BY <1>1, <2>3, FS_Injection
<1>6. Cardinality(Tasks) = Cardinality(Owners) + Cardinality(Brief)
  BY <1>3, <1>4, FS_Union, FS_EmptySet
<1> QED
  BY <1>1, <1>2, <1>3, <1>5, <1>6

\* "Pool sizing" (pin_monitor_handler): Headroom spare tasks are enough for any
\* number of pins.
THEOREM PoolSizing == Spec => []HeadroomSuffices
BY PoolSuffices, PinInvAlways, PTL
=============================================================================

--------------------------- MODULE RigLockProofs ---------------------------
(***************************************************************************)
(* Proofs about RigLock, for any number of runners, probes and lock files: *)
(* its types; that an flock has the owner that believes to have it; what   *)
(* the note says while I/O works; and that the flock implements RigMutex   *)
(* unless someone deletes the lock file.                                   *)
(***************************************************************************)
EXTENDS RigLock, TLAPS

\* The places where a process has the flock of the file it opened.
Lockers == {"stamp", "write", "held", "erase", "probing"}

\* Runners and probes keep to their own code, and have a file open while they
\* need one.
Places ==
    \A p \in Procs :
        /\ pc[p] \in {"stamp", "write", "held", "erase", "expired"} => p \in Runners
        /\ pc[p] \in {"probing", "read"} => p \in Probers
        /\ pc[p] \notin {"idle", "dead"} => fd[p] \in Inodes

\* Who is at a place where it has the flock has it, and nobody else does.
LockersOwn == \A p \in Procs : pc[p] \in Lockers => owner[fd[p]] = p
\* Who has the flock of a file is at such a place, with that file.
OwnersLock ==
    \A i \in Inodes : owner[i] # Nobody => pc[owner[i]] \in Lockers /\ fd[owner[i]] = i

\* The inductive invariant of the flock.
LockInv == TypeOK /\ Places /\ LockersOwn /\ OwnersLock

\* LockInv holds before anybody has opened a lock file.
LEMMA LockInvInit == Init => LockInv
BY RigLockAssumption DEF Init, LockInv, TypeOK, Places, LockersOwn, OwnersLock, Lockers, Procs

\* Every step preserves the types and the agreement of flocks and owners.
LEMMA LockInvStep == LockInv /\ [Next]_vars => LockInv'
<1> SUFFICES ASSUME LockInv, [Next]_vars PROVE LockInv'
  OBVIOUS
<1> USE RigLockAssumption DEF LockInv, TypeOK, Places, LockersOwn, OwnersLock, Lockers, Procs
<1>1. ASSUME NEW p \in Runners, Open(p) PROVE LockInv'
  BY <1>1 DEF Open, Unused
<1>2. ASSUME NEW p \in Runners, TryLock(p) PROVE LockInv'
  BY <1>2 DEF TryLock
<1>3. ASSUME NEW p \in Runners, TryRefused(p) PROVE LockInv'
  BY <1>3 DEF TryRefused
<1>4. ASSUME NEW p \in Runners, Truncate(p) PROVE LockInv'
  BY <1>4 DEF Truncate, SetNote
<1>5. ASSUME NEW p \in Runners, WriteNote(p) PROVE LockInv'
  BY <1>5 DEF WriteNote, SetNote
<1>6. ASSUME NEW p \in Runners, GiveUp(p) PROVE LockInv'
  BY <1>6 DEF GiveUp
<1>7. ASSUME NEW p \in Runners, Erase(p) PROVE LockInv'
  BY <1>7 DEF Erase, SetNote
<1>8. ASSUME NEW p \in Runners, Unlock(p) PROVE LockInv'
  BY <1>8 DEF Unlock
<1>9. ASSUME NEW p \in Probers, ProbeOpen(p) PROVE LockInv'
  BY <1>9 DEF ProbeOpen
<1>10. ASSUME NEW p \in Probers, ProbeLock(p) PROVE LockInv'
  BY <1>10 DEF ProbeLock
<1>11. ASSUME NEW p \in Probers, ProbeUnlock(p) PROVE LockInv'
  BY <1>11 DEF ProbeUnlock
<1>12. ASSUME NEW p \in Probers, ProbeHeld(p) PROVE LockInv'
  BY <1>12 DEF ProbeHeld
<1>13. ASSUME NEW p \in Probers, ProbeRead(p) PROVE LockInv'
  BY <1>13 DEF ProbeRead
<1>14. ASSUME NEW p \in Procs, TryErr(p) PROVE LockInv'
  BY <1>14 DEF TryErr
<1>15. ASSUME NEW p \in Procs, Kill(p) PROVE LockInv'
  BY <1>15 DEF Kill
<1>16. CASE DeleteLockFile
  BY <1>16 DEF DeleteLockFile
<1>17. CASE UNCHANGED vars
  BY <1>17 DEF vars
<1> QED
  BY <1>1, <1>2, <1>3, <1>4, <1>5, <1>6, <1>7, <1>8, <1>9, <1>10, <1>11, <1>12, <1>13,
     <1>14, <1>15, <1>16, <1>17 DEF Next, Take, Drop, FlockStatus

\* LockInv is an invariant.
LEMMA LockInvAlways == Spec => []LockInv
BY LockInvInit, LockInvStep, PTL DEF Spec

\* Every variable of the flock's model keeps its type; only runners sign.
THEOREM TypeCorrect == Spec => []TypeOK
<1>1. LockInv => TypeOK
  BY DEF LockInv
<1> QED
  BY <1>1, LockInvAlways, PTL

-----------------------------------------------------------------------------
(***************************************************************************)
(* The note.  A runner whose I/O works finds the file without a note when  *)
(* it writes its own, keeps that while it has its Rig, and erases it.      *)
(***************************************************************************)
NoteFollows ==
    \A p \in Runners \ Unlucky :
        /\ pc[p] = "held" => note[fd[p]] = p
        /\ pc[p] \in {"write", "erase"} => note[fd[p]] = Empty

\* The inductive invariant of the note, over LockInv.
NoteInv == NoteFollows /\ NoteIsHolderOrGone

\* NoteInv holds at the start, when there are no notes.
LEMMA NoteInvInit == Init => NoteInv
BY RigLockAssumption DEF Init, NoteInv, NoteFollows, NoteIsHolderOrGone, Procs

\* NoteInv is inductive, given LockInv.
LEMMA NoteInvStep == LockInv /\ NoteInv /\ [Next]_vars => NoteInv'
<1> SUFFICES ASSUME LockInv, NoteInv, [Next]_vars PROVE NoteInv'
  OBVIOUS
<1> USE RigLockAssumption DEF LockInv, TypeOK, Places, LockersOwn, OwnersLock, Lockers, Procs,
        NoteInv, NoteFollows, NoteIsHolderOrGone
<1>1. ASSUME NEW p \in Runners, Open(p) PROVE NoteInv'
  BY <1>1 DEF Open, Unused
<1>2. ASSUME NEW p \in Runners, TryLock(p) PROVE NoteInv'
  BY <1>2 DEF TryLock
<1>3. ASSUME NEW p \in Runners, TryRefused(p) PROVE NoteInv'
  BY <1>3 DEF TryRefused
<1>4. ASSUME NEW p \in Runners, Truncate(p) PROVE NoteInv'
  BY <1>4 DEF Truncate, SetNote
<1>5. ASSUME NEW p \in Runners, WriteNote(p) PROVE NoteInv'
  BY <1>5 DEF WriteNote, SetNote
<1>6. ASSUME NEW p \in Runners, GiveUp(p) PROVE NoteInv'
  BY <1>6 DEF GiveUp
<1>7. ASSUME NEW p \in Runners, Erase(p) PROVE NoteInv'
  BY <1>7 DEF Erase, SetNote
<1>8. ASSUME NEW p \in Runners, Unlock(p) PROVE NoteInv'
  BY <1>8 DEF Unlock
<1>9. ASSUME NEW p \in Probers, ProbeOpen(p) PROVE NoteInv'
  BY <1>9 DEF ProbeOpen
<1>10. ASSUME NEW p \in Probers, ProbeLock(p) PROVE NoteInv'
  BY <1>10 DEF ProbeLock
<1>11. ASSUME NEW p \in Probers, ProbeUnlock(p) PROVE NoteInv'
  BY <1>11 DEF ProbeUnlock
<1>12. ASSUME NEW p \in Probers, ProbeHeld(p) PROVE NoteInv'
  BY <1>12 DEF ProbeHeld
<1>13. ASSUME NEW p \in Probers, ProbeRead(p) PROVE NoteInv'
  BY <1>13 DEF ProbeRead
<1>14. ASSUME NEW p \in Procs, TryErr(p) PROVE NoteInv'
  BY <1>14 DEF TryErr
<1>15. ASSUME NEW p \in Procs, Kill(p) PROVE NoteInv'
  BY <1>15 DEF Kill
<1>16. CASE DeleteLockFile
  BY <1>16 DEF DeleteLockFile
<1>17. CASE UNCHANGED vars
  BY <1>17 DEF vars
<1> QED
  BY <1>1, <1>2, <1>3, <1>4, <1>5, <1>6, <1>7, <1>8, <1>9, <1>10, <1>11, <1>12, <1>13,
     <1>14, <1>15, <1>16, <1>17 DEF Next, Take, Drop, FlockStatus

\* RigLock::take, its Drop and flock_status: a note never outlives its writer's
\* flock unless the writer was killed or its I/O failed.
THEOREM NoteIsTrue == Spec => []NoteIsHolderOrGone
<1>1. NoteInv => NoteIsHolderOrGone
  BY DEF NoteInv
<1> QED
  BY <1>1, NoteInvInit, NoteInvStep, LockInvAlways, PTL DEF Spec

\* RigLock::take: a runner that has its Rig is the one its lock file names.
THEOREM HolderNamed == Spec => []HolderIsNamed
<1>1. NoteInv => HolderIsNamed
  BY DEF NoteInv, NoteFollows, HolderIsNamed
<1> QED
  BY <1>1, NoteInvInit, NoteInvStep, LockInvAlways, PTL DEF Spec

-----------------------------------------------------------------------------
(***************************************************************************)
(* Mutual exclusion.                                                       *)
(***************************************************************************)
\* With the lock file left alone every process has the same file open.
OneFile == \A p \in Procs : fd[p] # NoFile => fd[p] = path

\* Without deletions there is one lock file per rig.
LEMMA OneFileAlways == ASSUME ~Deletes PROVE Spec => []OneFile
<1>1. Init => OneFile
  BY DEF Init, OneFile
<1>2. LockInv /\ OneFile /\ [Next]_vars => OneFile'
  <2> SUFFICES ASSUME LockInv, OneFile, [Next]_vars PROVE OneFile'
    OBVIOUS
  <2> USE RigLockAssumption DEF OneFile, LockInv, TypeOK, Procs
  <2>1. ASSUME NEW p \in Runners, Take(p) PROVE OneFile'
    BY <2>1 DEF Take, Open, TryLock, TryRefused, Truncate, WriteNote, GiveUp
  <2>2. ASSUME NEW p \in Runners, Drop(p) PROVE OneFile'
    BY <2>2 DEF Drop, Erase, Unlock
  <2>3. ASSUME NEW p \in Probers, FlockStatus(p) PROVE OneFile'
    BY <2>3 DEF FlockStatus, ProbeOpen, ProbeLock, ProbeUnlock, ProbeHeld, ProbeRead
  <2>4. ASSUME NEW p \in Procs, TryErr(p) \/ Kill(p) PROVE OneFile'
    BY <2>4 DEF TryErr, Kill
  <2>5. CASE DeleteLockFile
    BY <2>5 DEF DeleteLockFile
  <2>6. CASE UNCHANGED vars
    BY <2>6 DEF vars
  <2> QED
    BY <2>1, <2>2, <2>3, <2>4, <2>5, <2>6 DEF Next
<1> QED
  BY <1>1, <1>2, LockInvAlways, PTL DEF Spec

\* "Advisory file lock serializing rig access across processes": as long as
\* nobody deletes the lock file, no two runners have the rig.
OneHolder == \A p, q \in Runners : Holding(p) /\ Holding(q) => p = q

\* The flock serializes the runners of a rig, provided nobody deletes its lock
\* file.
THEOREM Serialized == ASSUME ~Deletes PROVE Spec => []OneHolder
<1>1. LockInv /\ OneFile => OneHolder
  BY RigLockAssumption
  DEF LockInv, TypeOK, Places, LockersOwn, Lockers, OneFile, OneHolder, Holding, Procs
<1> QED
  BY <1>1, LockInvAlways, OneFileAlways, PTL

-----------------------------------------------------------------------------
(***************************************************************************)
(* Refinement: every lock file is a RigMutex.                              *)
(***************************************************************************)
\* RigMutex's variable, and what it stands for: runner p uses file i.
Users == [i \in Inodes |-> User(UsersOf(i))]
Uses(p, i) == Holding(p) /\ fd[p] = i

\* The user of a file is the runner among its lockers.
UserRight ==
    /\ Users \in [Inodes -> Runners \union {Nobody}]
    /\ \A i \in Inodes :
          /\ \A p \in Runners : Uses(p, i) => Users[i] = p
          /\ (\A p \in Runners : ~Uses(p, i)) => Users[i] = Nobody

\* The holder of a file, when there is one, is what CHOOSE picks.
LEMMA UserIs == LockInv => UserRight
<1> SUFFICES ASSUME LockInv PROVE UserRight
  OBVIOUS
<1>1. ASSUME NEW i \in Inodes, NEW p \in Runners, Uses(p, i) PROVE User(UsersOf(i)) = p
  <2>1. UsersOf(i) = {p}
    BY <1>1 DEF UsersOf, Uses, LockInv, LockersOwn, Lockers, Holding, Procs
  <2> QED
    BY <2>1 DEF User
<1>2. ASSUME NEW i \in Inodes, \A p \in Runners : ~Uses(p, i) PROVE User(UsersOf(i)) = Nobody
  <2>1. UsersOf(i) = {}
    BY <1>2 DEF UsersOf, Uses
  <2> QED
    BY <2>1 DEF User
<1>3. \A i \in Inodes : User(UsersOf(i)) \in Runners \union {Nobody}
  BY <1>1, <1>2
<1> QED
  BY <1>1, <1>2, <1>3 DEF UserRight, Users

\* The same after a step.
LEMMA UserIsNext == LockInv' => UserRight'
BY UserIs, PTL

\* A step after which the same runners use the same files.
SameUses == \A p \in Runners, i \in Inodes : Uses(p, i)' <=> Uses(p, i)

\* A step that keeps who uses which file stutters in RigMutex.
LEMMA UsersKept == ASSUME UserRight, UserRight', SameUses PROVE UNCHANGED Users
<1>1. \A i \in Inodes : Users'[i] = Users[i]
  BY DEF UserRight, SameUses
<1> QED
  BY <1>1 DEF UserRight

\* Initial states map to initial states.
LEMMA MutexInit == Init => Mutex!Init
<1> SUFFICES ASSUME Init PROVE Mutex!Init
  OBVIOUS
<1>1. \A j \in Inodes : User(UsersOf(j)) = Nobody
  <2>1. \A j \in Inodes : UsersOf(j) = {}
    BY DEF Init, UsersOf, Holding, Procs
  <2> QED
    BY <2>1 DEF User
<1> QED
  BY <1>1 DEF Mutex!Init

\* Runner p leaves the file it had locked.
LEMMA MutexFree ==
    ASSUME UserRight, UserRight', NEW p \in Runners, NEW i \in Inodes, Uses(p, i),
           \A q \in Runners, j \in Inodes : Uses(q, j)' <=> (Uses(q, j) /\ q # p)
    PROVE  Mutex!Next
<1>1. Users[i] = p
  BY DEF UserRight
<1>2. \A q \in Runners : ~Uses(q, i)'
  BY <1>1 DEF UserRight
<1>3. Users'[i] = Nobody
  BY <1>2 DEF UserRight
<1>4. ASSUME NEW j \in Inodes, j # i PROVE Users'[j] = Users[j]
  <2>1. ~Uses(p, j)
    BY <1>4 DEF Uses
  <2> QED
    BY <2>1 DEF UserRight
<1>5. Users' = [Users EXCEPT ![i] = Nobody]
  BY <1>3, <1>4 DEF UserRight
<1>6. Mutex!Free(i, p)
  BY <1>1, <1>5 DEF Mutex!Free, Users
<1> QED
  BY <1>6 DEF Mutex!Next

\* Runner p locks a file nobody uses.
LEMMA MutexTake ==
    ASSUME UserRight, UserRight', NEW p \in Runners, NEW i \in Inodes,
           \A q \in Runners : ~Uses(q, i),
           \A q \in Runners, j \in Inodes : Uses(q, j)' <=> (Uses(q, j) \/ (q = p /\ j = i))
    PROVE  Mutex!Next
<1>1. Users[i] = Nobody /\ Users'[i] = p
  BY DEF UserRight
<1>2. \A j \in Inodes : j # i => Users'[j] = Users[j]
  BY DEF UserRight
<1>3. Users' = [Users EXCEPT ![i] = p]
  BY <1>1, <1>2 DEF UserRight
<1>4. Mutex!Take(i, p)
  BY <1>1, <1>3 DEF Mutex!Take, Users
<1> QED
  BY <1>4 DEF Mutex!Next

\* Every step maps to a step of RigMutex or a stutter.
LEMMA MutexStep == LockInv /\ [Next]_vars => [Mutex!Next]_Users
<1> SUFFICES ASSUME LockInv, [Next]_vars PROVE Mutex!Next \/ UNCHANGED Users
  OBVIOUS
<1>0. UserRight /\ UserRight'
  BY UserIs, UserIsNext, LockInvStep
<1> USE RigLockAssumption DEF LockInv, TypeOK, Places, Procs, Uses, Holding, SameUses
<1>1. ASSUME NEW p \in Runners, Open(p) PROVE SameUses
  BY <1>1 DEF Open
<1>2. ASSUME NEW p \in Runners, TryLock(p) PROVE Mutex!Next
  <2>1. fd[p] \in Inodes /\ \A q \in Runners : ~Uses(q, fd[p])
    BY <1>2 DEF TryLock, LockersOwn, Lockers
  <2>2. \A q \in Runners, j \in Inodes : Uses(q, j)' <=> (Uses(q, j) \/ (q = p /\ j = fd[p]))
    BY <1>2 DEF TryLock
  <2> QED
    BY ONLY <1>0, <2>1, <2>2, MutexTake
<1>3. ASSUME NEW p \in Runners, TryRefused(p) \/ GiveUp(p) PROVE SameUses
  BY <1>3 DEF TryRefused, GiveUp
<1>4. ASSUME NEW p \in Runners, Truncate(p) \/ WriteNote(p) \/ Erase(p) PROVE SameUses
  BY <1>4 DEF Truncate, WriteNote, Erase
<1>5. ASSUME NEW p \in Runners, Unlock(p) PROVE Mutex!Next
  <2>1. fd[p] \in Inodes /\ Uses(p, fd[p])
    BY <1>5 DEF Unlock
  <2>2. \A q \in Runners, j \in Inodes : Uses(q, j)' <=> (Uses(q, j) /\ q # p)
    BY <1>5 DEF Unlock
  <2> QED
    BY ONLY <1>0, <2>1, <2>2, MutexFree
<1>6. ASSUME NEW p \in Probers, FlockStatus(p) PROVE SameUses
  BY <1>6 DEF FlockStatus, ProbeOpen, ProbeLock, ProbeUnlock, ProbeHeld, ProbeRead
<1>7. ASSUME NEW p \in Procs, TryErr(p) PROVE SameUses
  BY <1>7 DEF TryErr
<1>8. ASSUME NEW p \in Procs, Kill(p) PROVE Mutex!Next \/ SameUses
  <2>1. CASE p \in Runners /\ Holding(p)
    <3>1. fd[p] \in Inodes /\ Uses(p, fd[p])
      BY <2>1
    <3>2. \A q \in Runners, j \in Inodes : Uses(q, j)' <=> (Uses(q, j) /\ q # p)
      BY <1>8 DEF Kill
    <3> QED
      BY ONLY <1>0, <2>1, <3>1, <3>2, MutexFree
  <2>2. CASE ~(p \in Runners /\ Holding(p))
    BY <1>8, <2>2 DEF Kill
  <2> QED
    BY <2>1, <2>2
<1>9. DeleteLockFile \/ UNCHANGED vars => SameUses
  BY DEF DeleteLockFile, vars
<1>10. Mutex!Next \/ SameUses
  BY <1>1, <1>2, <1>3, <1>4, <1>5, <1>6, <1>7, <1>8, <1>9 DEF Next, Take, Drop
<1> QED
  BY ONLY <1>0, <1>10, UsersKept

\* Rig's exclusivity: whatever fails or is killed or deleted, every lock file
\* implements RigMutex.
THEOREM FilesAreMutexes == Spec => FilesImplementRigMutex
BY MutexInit, MutexStep, LockInvAlways, PTL DEF Spec, FilesImplementRigMutex, Mutex!Spec, Users
=============================================================================

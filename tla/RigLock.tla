------------------------------ MODULE RigLock ------------------------------
(***************************************************************************)
(* The advisory lock of a single-machine rig (banc-host/src/rig.rs):       *)
(* RigLock::take and its Drop, the note the holder leaves in the lock      *)
(* file, and flock_status, which `banc rig status` runs.  An flock belongs *)
(* to an inode, while the note is looked up by path.                       *)
(***************************************************************************)
EXTENDS Integers, FiniteSets

CONSTANTS
    Runners,     \* processes that take the rig
    Probers,     \* processes that run flock_status
    Inodes,      \* lock files, named by the path one after the other
    Nobody, NoFile, Empty,
    Mortals,     \* the processes that may be killed
    Unlucky,     \* the processes whose I/O on the lock file may fail
    Deletes      \* whether someone removes the lock file

Procs == Runners \union Probers

ASSUME RigLockAssumption ==
    /\ Runners \intersect Probers = {}
    /\ Mortals \subseteq Procs /\ Unlucky \subseteq Procs
    /\ Deletes \in BOOLEAN
    /\ Nobody \notin Procs /\ Empty \notin Procs /\ NoFile \notin Inodes

VARIABLES
    path,   \* the inode the lock path names, or NoFile
    owner,  \* who has the flock of each inode
    note,   \* whose LockHolder note is in each inode, or Empty
    pc,     \* where each process is
    fd      \* the inode each process has open, or NoFile

vars == <<path, owner, note, pc, fd>>

(***************************************************************************)
(* RigLock::take                                                           *)
(***************************************************************************)
\* An inode nobody can reach any more.
Unused == {i \in Inodes : i # path /\ \A p \in Procs : fd[p] # i}

\* A mutant: open truncates the file.
OpenTruncating(p) ==
    /\ pc[p] = "idle"
    /\ pc' = [pc EXCEPT ![p] = "try"]
    /\ \E i \in Inodes :
          /\ i = path \/ (path = NoFile /\ i \in Unused)
          /\ path' = i
          /\ note' = [note EXCEPT ![i] = Empty]
          /\ fd' = [fd EXCEPT ![p] = i]
    /\ UNCHANGED owner

\* open with create(true).truncate(false)
Open(p) ==
    /\ pc[p] = "idle"
    /\ pc' = [pc EXCEPT ![p] = "try"]
    /\ \/ /\ path # NoFile
          /\ fd' = [fd EXCEPT ![p] = path]
          /\ UNCHANGED <<path, note>>
       \/ /\ path = NoFile
          /\ \E i \in Unused :
                /\ path' = i
                /\ note' = [note EXCEPT ![i] = Empty]
                /\ fd' = [fd EXCEPT ![p] = i]
    /\ UNCHANGED owner

\* A mutant: the lock is a shared one.
TryLockShared(p) ==
    /\ pc[p] = "try"
    /\ owner' = [owner EXCEPT ![fd[p]] = p]
    /\ pc' = [pc EXCEPT ![p] = "stamp"]
    /\ UNCHANGED <<path, note, fd>>

\* try_lock_exclusive succeeds.
TryLock(p) ==
    /\ pc[p] = "try" /\ owner[fd[p]] = Nobody
    /\ owner' = [owner EXCEPT ![fd[p]] = p]
    /\ pc' = [pc EXCEPT ![p] = "stamp"]
    /\ UNCHANGED <<path, note, fd>>

\* It does not: sleep and try again, or the deadline has passed.
TryRefused(p) ==
    /\ pc[p] = "try" /\ owner[fd[p]] # Nobody
    /\ \/ pc' = pc
       \/ pc' = [pc EXCEPT ![p] = "expired"]
    /\ UNCHANGED <<path, owner, note, fd>>

\* try_lock_exclusive fails for another reason, and so does its caller.
TryErr(p) ==
    /\ p \in Unlucky /\ pc[p] = "try"
    /\ pc' = [pc EXCEPT ![p] = "idle"]
    /\ fd' = [fd EXCEPT ![p] = NoFile]
    /\ UNCHANGED <<path, owner, note>>

\* The note of an open file becomes n: best effort.
SetNote(p, n) ==
    \/ note' = [note EXCEPT ![fd[p]] = n]
    \/ p \in Unlucky /\ note' = note

\* set_len(0) and seek
Truncate(p) ==
    /\ pc[p] = "stamp"
    /\ SetNote(p, Empty)
    /\ pc' = [pc EXCEPT ![p] = "write"]
    /\ UNCHANGED <<path, owner, fd>>

\* write_all; take returns.
WriteNote(p) ==
    /\ pc[p] = "write"
    /\ SetNote(p, p)
    /\ pc' = [pc EXCEPT ![p] = "held"]
    /\ UNCHANGED <<path, owner, fd>>

\* take gives up.  The note its error quotes, which it looks up by path, is
\* wording only.
GiveUp(p) ==
    /\ pc[p] = "expired"
    /\ pc' = [pc EXCEPT ![p] = "idle"]
    /\ fd' = [fd EXCEPT ![p] = NoFile]
    /\ UNCHANGED <<path, owner, note>>

(***************************************************************************)
(* Drop for RigLock: erase the note, then unlock and close.                *)
(***************************************************************************)
\* A mutant: the note is left behind.
DropWithoutErase(p) ==
    /\ pc[p] = "held"
    /\ pc' = [pc EXCEPT ![p] = "erase"]
    /\ UNCHANGED <<path, owner, note, fd>>

Erase(p) ==
    /\ pc[p] = "held"
    /\ SetNote(p, Empty)
    /\ pc' = [pc EXCEPT ![p] = "erase"]
    /\ UNCHANGED <<path, owner, fd>>

Unlock(p) ==
    /\ pc[p] = "erase"
    /\ owner' = [owner EXCEPT ![fd[p]] = Nobody]
    /\ pc' = [pc EXCEPT ![p] = "idle"]
    /\ fd' = [fd EXCEPT ![p] = NoFile]
    /\ UNCHANGED <<path, note>>

(***************************************************************************)
(* flock_status                                                            *)
(***************************************************************************)
\* With no file the answer is Free at once.
ProbeOpen(p) ==
    /\ pc[p] = "idle" /\ path # NoFile
    /\ fd' = [fd EXCEPT ![p] = path]
    /\ pc' = [pc EXCEPT ![p] = "try"]
    /\ UNCHANGED <<path, owner, note>>

\* A mutant: the probe signs the file as a holder would.
ProbeStamps(p) ==
    /\ pc[p] = "try" /\ owner[fd[p]] = Nobody
    /\ owner' = [owner EXCEPT ![fd[p]] = p]
    /\ note' = [note EXCEPT ![fd[p]] = p]
    /\ pc' = [pc EXCEPT ![p] = "probing"]
    /\ UNCHANGED <<path, fd>>

ProbeLock(p) ==
    /\ pc[p] = "try" /\ owner[fd[p]] = Nobody
    /\ owner' = [owner EXCEPT ![fd[p]] = p]
    /\ pc' = [pc EXCEPT ![p] = "probing"]
    /\ UNCHANGED <<path, note, fd>>

\* Free
ProbeUnlock(p) ==
    /\ pc[p] = "probing"
    /\ owner' = [owner EXCEPT ![fd[p]] = Nobody]
    /\ pc' = [pc EXCEPT ![p] = "idle"]
    /\ fd' = [fd EXCEPT ![p] = NoFile]
    /\ UNCHANGED <<path, note>>

\* Held: the note is read afterwards.
ProbeHeld(p) ==
    /\ pc[p] = "try" /\ owner[fd[p]] # Nobody
    /\ pc' = [pc EXCEPT ![p] = "read"]
    /\ UNCHANGED <<path, owner, note, fd>>

ProbeRead(p) ==
    /\ pc[p] = "read"
    /\ pc' = [pc EXCEPT ![p] = "idle"]
    /\ fd' = [fd EXCEPT ![p] = NoFile]
    /\ UNCHANGED <<path, owner, note>>

(***************************************************************************)
(* The operating system and its users.                                     *)
(***************************************************************************)
\* A killed process loses its flock; its note stays.
Kill(p) ==
    /\ p \in Mortals /\ pc[p] # "dead"
    /\ owner' = [i \in Inodes |-> IF owner[i] = p THEN Nobody ELSE owner[i]]
    /\ pc' = [pc EXCEPT ![p] = "dead"]
    /\ fd' = [fd EXCEPT ![p] = NoFile]
    /\ UNCHANGED <<path, note>>

DeleteLockFile ==
    /\ Deletes /\ path # NoFile
    /\ path' = NoFile
    /\ UNCHANGED <<owner, note, pc, fd>>

Init ==
    /\ path = NoFile
    /\ owner = [i \in Inodes |-> Nobody]
    /\ note = [i \in Inodes |-> Empty]
    /\ pc = [p \in Procs |-> "idle"]
    /\ fd = [p \in Procs |-> NoFile]

Take(p) ==
    Open(p) \/ TryLock(p) \/ TryRefused(p) \/ Truncate(p) \/ WriteNote(p) \/ GiveUp(p)
Drop(p) == Erase(p) \/ Unlock(p)
FlockStatus(p) ==
    ProbeOpen(p) \/ ProbeLock(p) \/ ProbeUnlock(p) \/ ProbeHeld(p) \/ ProbeRead(p)

Next ==
    \/ \E p \in Runners : Take(p) \/ Drop(p)
    \/ \E p \in Probers : FlockStatus(p)
    \/ \E p \in Procs : TryErr(p) \/ Kill(p)
    \/ DeleteLockFile

Spec == Init /\ [][Next]_vars

-----------------------------------------------------------------------------
\* Every variable has its type: only runners ever sign the lock file.
TypeOK ==
    /\ path \in Inodes \union {NoFile}
    /\ owner \in [Inodes -> Procs \union {Nobody}]
    /\ note \in [Inodes -> Runners \union {Empty}]
    /\ pc \in [Procs -> {"idle", "try", "expired", "stamp", "write", "held", "erase",
                         "probing", "read", "dead"}]
    /\ fd \in [Procs -> Inodes \union {NoFile}]

\* Process p is inside take's critical part, has a Rig, or is dropping it.
Holding(p) == pc[p] \in {"stamp", "write", "held", "erase"}

\* A note names the process that has the flock of its inode, one that was
\* killed, or one that could not erase it: "a freed lock does not advertise a
\* dead holder. A killed process skips this".
NoteIsHolderOrGone ==
    \A i \in Inodes : note[i] # Empty =>
        owner[i] = note[i] \/ pc[note[i]] = "dead" \/ note[i] \in Unlucky

\* While a runner has its Rig, the file it locked bears its own note: no
\* contender, no probe and no earlier holder on its way out clobbers it.
HolderIsNamed == \A p \in Runners \ Unlucky : pc[p] = "held" => note[fd[p]] = p

\* Every lock file implements RigMutex: one user at a time, for the life of
\* its Rig, whatever is killed or fails.  Deleting the file "frees nothing",
\* and gives the next runner another file.
User(S) == IF S = {} THEN Nobody ELSE CHOOSE p \in S : TRUE
UsersOf(i) == {p \in Runners : Holding(p) /\ fd[p] = i}
Mutex == INSTANCE RigMutex
    WITH Procs <- Runners, Rigs <- Inodes, user <- [i \in Inodes |-> User(UsersOf(i))]
FilesImplementRigMutex == Mutex!Spec
=============================================================================

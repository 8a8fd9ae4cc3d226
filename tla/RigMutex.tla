------------------------------ MODULE RigMutex ------------------------------
(***************************************************************************)
(* What Rig promises of its exclusivity (banc-host/src/rig.rs), whether it *)
(* is an flock or a network lease that enforces it: whatever is arbitrated *)
(* (a lock file, the slot of a lease server) has one user at a time, who   *)
(* has it for the whole life of its Rig.                                   *)
(***************************************************************************)
CONSTANTS Procs, Nobody, Rigs

VARIABLE user   \* who uses each rig

\* Rig::acquire returns a Rig.
Take(r, p) == user[r] = Nobody /\ user' = [user EXCEPT ![r] = p]

\* The Rig is dropped, or its process dies.
Free(r, p) == user[r] = p /\ user' = [user EXCEPT ![r] = Nobody]

Init == user = [r \in Rigs |-> Nobody]
Next == \E r \in Rigs, p \in Procs : Take(r, p) \/ Free(r, p)
Spec == Init /\ [][Next]_user
=============================================================================

----------------------------- MODULE MCRigLock -----------------------------
(* Instances of RigLock for TLC. *)
EXTENDS RigLock, TLC

\* The processes that may be killed are interchangeable, and so are the files.
Symmetry == Permutations(Mortals \intersect Runners) \union Permutations(Inodes)
=============================================================================

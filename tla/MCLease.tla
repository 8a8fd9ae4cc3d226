------------------------------ MODULE MCLease ------------------------------
(* Instances of Lease for TLC. *)
EXTENDS Lease, TLC

\* Runners, and abandoned streams, are interchangeable.
Symmetry == Permutations(Clients) \union Permutations(Slots)
=============================================================================

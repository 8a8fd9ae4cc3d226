------------------------------ MODULE MCTrial ------------------------------
(* Instances of Trial for TLC. *)
EXTENDS Trial

\* "a:" and "a_": their evidence goes to one file.
MCNames == << <<"a", ":">>, <<"a", "_">> >>
=============================================================================

-------------------------- MODULE MCAdministrators --------------------------
(* Administrators for TLC. *)
EXTENDS Administrators, TLC

Symmetric == Permutations(Requests) \cup Permutations(Root)
=============================================================================

----------------------------- MODULE MCRegistry -----------------------------
(* Every connection may be of any user, so users are interchangeable. *)
EXTENDS Registry, TLC

Permuted == Permutations(Users)
=============================================================================

--------------------------- MODULE MCPermissions ---------------------------
(***************************************************************************)
(* A small instance of Permissions for TLC: one override is asked for and  *)
(* reviewed twice.  Edits and decisions do not matter to it.               *)
(***************************************************************************)
EXTENDS Permissions, TLC

\* Requests that only review.
Reviews == \A j \in Jobs : memo[j].kind \in {"none", "approve", "reject"}

Interchangeable == Permutations(Jobs) \cup Permutations(Admins)
=============================================================================

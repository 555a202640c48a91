----------------------------- MODULE MCShifts -----------------------------
(* Small instances of Shifts for TLC. *)
EXTENDS Shifts, TLC

\* Requests are interchangeable.
Symmetry == Permutations(Callers)
=============================================================================

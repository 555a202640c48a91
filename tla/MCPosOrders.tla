---------------------------- MODULE MCPosOrders ----------------------------
(* Small instances of PosOrders for TLC. *)
EXTENDS PosOrders, TLC

\* Requests are interchangeable, and so are tables.
Symmetry == Permutations(Sessions) \cup Permutations(Tables)
=============================================================================

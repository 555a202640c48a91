--------------------------- MODULE MCStockOrders ---------------------------
(* Small instances of StockOrders for TLC. *)
EXTENDS StockOrders, TLC

\* What clients send as a quantity: one that is refused, two that are taken.
SomeQuantities == {-1, 1, 2}

\* Requests are interchangeable, and so are ingredients.
Symmetry == Permutations(Sessions) \cup Permutations(Ingredients)
=============================================================================

------------------------------ MODULE MCStores -----------------------------
(***************************************************************************)
(* Small instances, for TLC, of stock purchases and of the master data.    *)
(* They share nothing here, so one run checks them side by side: a         *)
(* behaviour is a behaviour of one of them, and the other stays where it   *)
(* starts.                                                                 *)
(***************************************************************************)
EXTENDS StockOrders, MasterData, TLC

VARIABLE part   \* the module that runs

cast == <<part, vars, dataVars>>

StockOnly == part = "stock" /\ UNCHANGED <<part, dataVars>>
DataOnly  == part = "data" /\ UNCHANGED <<part, vars>>

\* What clients send as a quantity: one that is refused, two that are taken.
SomeQuantities == {-1, 1, 2}

\* Two kinds of rows of which one refers to the other, or names that differ in
\* case only; what a process keeps copies of, if of anything.
Scene(ks, ns, copied) == [kinds |-> ks, names |-> ns, keeps |-> copied]
Pair(below, above, copied) == Scene({below, above}, {"tea"}, copied)
SomeScenes ==
    {Pair("category", "product", "name"), Pair("toppingGroup", "product", "none"), Pair("unit", "product", "none"),
     Pair("category", "topping", "none"), Pair("toppingGroup", "topping", "none"),
     Pair("product", "sale", "single"), Pair("delivery", "sale", "list"), Pair("discount", "sale", "name"),
     Pair("method", "sale", "single"),
     Pair("stockUnit", "ingredient", "single"), Pair("stockCategory", "ingredient", "none"),
     Pair("ingredient", "purchase", "name"), Scene({"stockCategory"}, {"tea", "Tea"}, "name")}
FoldCase(name) == IF name = "Tea" THEN "tea" ELSE name

CastInit ==
    /\ part \in {"stock", "data"}
    /\ Init /\ DataInit
    /\ part = "stock" => /\ scene = CHOOSE s \in Scenes : TRUE
                         /\ shelf = [i \in Things |-> NoThing]

CastNext ==
    \/ StockOnly /\ Next
    \/ DataOnly /\ DataNext

CastSpec == CastInit /\ [][CastNext]_cast

\* Requests and editors are interchangeable, and so are ingredients and things.
Interchangeable == Permutations(Sessions) \cup Permutations(Ingredients)
=============================================================================

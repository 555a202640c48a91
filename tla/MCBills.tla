------------------------------ MODULE MCBills ------------------------------
(***************************************************************************)
(* Small instances of PosOrders for TLC: the bills, and the tables that    *)
(* they are for.  In one scene two sessions pay one order twice, add to it *)
(* and cancel its lines, and edit the first payment; in the other they     *)
(* seat two orders of a line each at two tables.                           *)
(***************************************************************************)
EXTENDS PosOrders, TLC

Asked == {arg[s] : s \in Sessions}

\* The tables that an order or a request names.
InUse == ({order[o].table : o \in Orders} \cup {a.tab : a \in Asked}) \ {NoTable}

OneBill ==
    /\ Cardinality(InUse) <= 1
    /\ \A o \in Orders : order[o].status # "Completed" /\ (o > 1 => order[o] = NoOrder)
    /\ \A a \in Asked : /\ a.op \in {"none", "createFull", "add", "itemCancel", "pay", "editPay", "dropPay"}
                        /\ a.ord <= 1 /\ a.st # "Completed"
                        /\ a.op \in {"editPay", "dropPay"} => a.pay = 1

TwoTables ==
    /\ \A i \in Items : i > 1 => item[i] = NoItem
    /\ \A p \in Pays : p > 1 => pay[p] = NoPay
    /\ \A a \in Asked : /\ a.op \in {"none", "create", "submit", "append", "update", "pay", "delete"}
                        /\ a.item <= 1 /\ a.pay <= 1

Scenes == OneBill \/ TwoTables

\* Requests are interchangeable, and so are tables.
Symmetry == Permutations(Sessions) \cup Permutations(Tables)
=============================================================================

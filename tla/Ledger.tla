------------------------------ MODULE Ledger ------------------------------
(***************************************************************************)
(* What the orders and payments services promise about their rows: every   *)
(* request that ends well amounts to one step, taken on the rows as they   *)
(* are at that moment and allowed by them, whatever runs beside it.        *)
(*                                                                         *)
(* The one exception is a payment that is edited or removed: what becomes  *)
(* of its order is computed from an order and payments read earlier.       *)
(*                                                                         *)
(* PosOrders adds the sessions, their locks and their statements, and      *)
(* implements LedgerSpec.  The rows, and what is computed from them, are   *)
(* the same in both.                                                       *)
(*                                                                         *)
(* Money is a natural number of one currency unit; an amount received is   *)
(* the amount paid (no change is given); every order carries the same      *)
(* fixed discount.                                                         *)
(***************************************************************************)
EXTENDS Naturals, FiniteSets, Functions

CONSTANTS
    MaxOrders, MaxItems, MaxPays,   \* how many rows of each kind may exist
    Tables,                         \* the tables of the branch
    Amounts,                        \* prices of lines and amounts of payments
    Discount,                       \* the active discount of every order, or 0
    NoTable                         \* null table

ASSUME BoundsAssumption ==
    MaxOrders \in Nat /\ MaxItems \in Nat /\ MaxPays \in Nat
ASSUME MoneyAssumption == Amounts \subseteq Nat \ {0} /\ Discount \in Nat

Orders == 1 .. MaxOrders
Items  == 1 .. MaxItems
Pays   == 1 .. MaxPays

(***************************************************************************)
(* Statuses, after normalizeOrderStatus.                                   *)
(***************************************************************************)
Statuses    == {"Pending", "WaitingForPayment", "Paid", "Completed", "Cancelled"}
PayStatuses == {"Pending", "Success", "Failed"}

Closed  == {"Completed", "Cancelled"}         \* the table is given back
Settled == {"Completed", "Paid", "Cancelled"} \* no payment is taken

VARIABLES
    order,    \* sales_orders
    item,     \* sales_order_item
    pay,      \* payments
    table,    \* tables.status
    snap      \* order_summary_snapshots

rows == <<order, item, pay, table, snap>>

(***************************************************************************)
(* Rows and what the code computes from them.                              *)
(***************************************************************************)
NoOrder == [status |-> "Absent", total |-> 0, received |-> 0, table |-> NoTable]
NoItem  == [ord |-> 0, status |-> "Absent", amt |-> 0]
NoPay   == [ord |-> 0, status |-> "Absent", amt |-> 0]

\* Number(x || 0): what is not an amount counts as nothing.
Money(x) == IF x \in Nat THEN x ELSE 0

Lines(itm, o)     == {i \in Items : itm[i].ord = o}
LiveLines(itm, o) == {i \in Lines(itm, o) : itm[i].status # "Cancelled"}
SubTotal(itm, o)  == Money(SumFunction([i \in LiveLines(itm, o) |-> itm[i].amt]))

Lesser(a, b) == IF a < b THEN a ELSE b

WrongOrderTotal(itm, o) == SubTotal(itm, o) - Discount  \* discount not capped

\* recalculateOrderTotal: the live lines, less a discount that never exceeds them.
OrderTotal(itm, o) ==
    LET sub == SubTotal(itm, o) IN sub - Lesser(Discount, sub)

\* syncOrderStatusFromItems with deriveOrderStatusFromItems.
SyncedStatus(st, itm, o) ==
    IF st # "Pending" \/ Lines(itm, o) = {} THEN st
    ELSE IF LiveLines(itm, o) = {} THEN "Cancelled" ELSE "Pending"

WrongReconciled(row, itm, o) ==  \* the total is not recalculated
    [row EXCEPT !.status = SyncedStatus(row.status, itm, o)]

Reconciled(row, itm, o) ==
    [row EXCEPT !.total = OrderTotal(itm, o),
                !.status = SyncedStatus(row.status, itm, o)]

\* The row that syncOrder writes for an order.
Summary(ord, itm, o) ==
    [status |-> ord[o].status, total |-> ord[o].total, table |-> ord[o].table,
     count |-> Cardinality(LiveLines(itm, o))]

Success(pays, o) == {p \in Pays : pays[p].ord = o /\ pays[p].status = "Success"}
Paid(pays, o) == Money(SumFunction([p \in Success(pays, o) |-> pays[p].amt]))

Exists(o) == order[o].status # "Absent"

Available(t) == t # NoTable => table[t] = "Available"
WrongDue(o, amt) == amt <= order[o].total  \* earlier payments are not counted
Due(o, amt) == Paid(pay, o) + amt <= order[o].total

WrongSaveOrder(o, row, itm) ==  \* the snapshot is synced before the order is saved
    /\ item' = itm
    /\ order' = [order EXCEPT ![o] = row]
    /\ snap' = [snap EXCEPT ![o] = Summary(order, itm, o)]

SaveOrder(o, row, itm) ==
    /\ item' = itm
    /\ order' = [order EXCEPT ![o] = row]
    /\ snap' = [snap EXCEPT ![o] = Summary(order', itm, o)]

(***************************************************************************)
(* The steps.                                                              *)
(***************************************************************************)
NewOrder(t, st, total) == [NoOrder EXCEPT !.status = st, !.table = t, !.total = total]
WithLine(i, o, amt) == [item EXCEPT ![i] = [ord |-> o, status |-> "Pending", amt |-> amt]]
TablesBecome(T, st) == table' = [t \in Tables |-> IF t \in T THEN st ELSE table[t]]

\* A new order, at a table that is free now; a header keeps the total it is sent.
PlaceHeader(o, t, st, total) ==
    /\ ~Exists(o) /\ Available(t)
    /\ SaveOrder(o, NewOrder(t, st, total), item)
    /\ TablesBecome({t}, "Unavailable")
    /\ UNCHANGED pay

PlaceOrder(o, t, st, i, amt) ==
    LET itm == WithLine(i, o, amt)
    IN  /\ ~Exists(o) /\ Available(t) /\ item[i] = NoItem
        /\ SaveOrder(o, Reconciled(NewOrder(t, st, 0), itm, o), itm)
        /\ TablesBecome({t}, "Unavailable")
        /\ UNCHANGED pay

\* A line for an order that is there now.
AddLine(o, i, amt) ==
    LET itm == WithLine(i, o, amt)
    IN  /\ Exists(o) /\ item[i] = NoItem
        /\ SaveOrder(o, Reconciled(order[o], itm, o), itm)
        /\ UNCHANGED <<pay, table>>

\* Another status or price for a line that is there now, with its order.
NewStatuses(line) == [ord: {line.ord}, status: Statuses, amt: {line.amt}]
NewPrices(line)   == [ord: {line.ord}, status: {line.status}, amt: Amounts]

ChangeLine(i) ==
    LET o == item[i].ord
    IN  /\ item[i] # NoItem /\ Exists(o)
        /\ \E line \in NewStatuses(item[i]) \cup NewPrices(item[i]) :
              LET itm == [item EXCEPT ![i] = line]
              IN  SaveOrder(o, Reconciled(order[o], itm, o), itm)
        /\ UNCHANGED <<pay, table>>

\* Another table, free now if it is another one, and another status ("keep": the
\* same); a cancelled order cancels its lines.
ReviseOrder(o, t, st) ==
    LET itm == [i \in Items |-> IF st = "Cancelled" /\ item[i].ord = o
                                THEN [item[i] EXCEPT !.status = "Cancelled"] ELSE item[i]]
        row == Reconciled([order[o] EXCEPT !.table = t,
                                           !.status = IF st = "keep" THEN @ ELSE st], itm, o)
    IN  /\ Exists(o) /\ (t # order[o].table => Available(t))
        /\ SaveOrder(o, row, itm)
        /\ table' = [x \in Tables |->
                        IF x = t THEN IF row.status \in Closed THEN "Available" ELSE "Unavailable"
                        ELSE IF x = order[o].table THEN "Available" ELSE table[x]]
        /\ UNCHANGED pay

\* An order goes with everything that is its own now.
RemoveOrder(o) ==
    /\ Exists(o)
    /\ SaveOrder(o, NoOrder, [i \in Items |-> IF item[i].ord = o THEN NoItem ELSE item[i]])
    /\ pay' = [p \in Pays |-> IF pay[p].ord = o THEN NoPay ELSE pay[p]]
    /\ TablesBecome({order[o].table}, "Available")

\* The payments change, and the order with them: a completed one has its live
\* lines paid, and the table t is given back.
Refreshed(o, pays, st, received, t) ==
    LET done == st = "Completed"
        itm  == [i \in Items |-> IF done /\ i \in LiveLines(item, o)
                                 THEN [item[i] EXCEPT !.status = "Paid"] ELSE item[i]]
    IN  /\ pay' = pays
        /\ SaveOrder(o, [order[o] EXCEPT !.status = st, !.received = received], itm)
        /\ TablesBecome(IF done THEN {t} ELSE {}, "Available")

\* A payment for an order that is open now, within what is due now, settles it if
\* it covers what is due now.
ChargeOrder(o, p, st, amt) ==
    LET paid == Paid(pay, o) + (IF st = "Success" THEN amt ELSE 0)
    IN  /\ Exists(o) /\ order[o].status \notin Settled
        /\ pay[p] = NoPay /\ (st = "Success" => Due(o, amt))
        /\ Refreshed(o, [pay EXCEPT ![p] = [ord |-> o, status |-> st, amt |-> amt]],
                     IF paid >= order[o].total THEN "Completed" ELSE order[o].status,
                     paid, order[o].table)

\* A payment that is there now changes or goes, and its order gets a status, an
\* amount received and a freed table that depend on an earlier state.
AmendPayment(p) ==
    LET o == pay[p].ord
    IN  /\ pay[p] # NoPay /\ Exists(o) /\ order'[o].received \in Nat
        /\ \E new \in {NoPay} \cup [ord: {o}, status: PayStatuses, amt: Amounts],
              st \in Statuses, t \in Tables \cup {NoTable} :
                 Refreshed(o, [pay EXCEPT ![p] = new], st, order'[o].received, t)

\* What the second of two removals of one payment does, which finds no payment: the
\* order is refreshed all the same; of an order that is gone too, only the table is
\* given back.
RefreshAgain(o) ==
    \E st \in Statuses, t \in Tables \cup {NoTable} :
        \/ /\ Exists(o) /\ order'[o].received \in Nat
           /\ Refreshed(o, pay, st, order'[o].received, t)
        \/ /\ ~Exists(o) /\ TablesBecome({t}, "Available")
           /\ UNCHANGED <<order, item, pay, snap>>

(***************************************************************************)
(* The specification.                                                      *)
(***************************************************************************)
LedgerInit ==
    /\ order = [o \in Orders |-> NoOrder]
    /\ item = [i \in Items |-> NoItem]
    /\ pay = [p \in Pays |-> NoPay]
    /\ table = [t \in Tables |-> "Available"]
    /\ snap = [o \in Orders |-> Summary(order, item, o)]

Operation ==
    \/ \E o \in Orders, t \in Tables \cup {NoTable}, st \in Statuses, amt \in Amounts :
          PlaceHeader(o, t, st, amt) \/ \E i \in Items : PlaceOrder(o, t, st, i, amt)
    \/ \E o \in Orders, t \in Tables \cup {NoTable}, st \in Statuses \cup {"keep"} :
          ReviseOrder(o, t, st)
    \/ \E o \in Orders, i \in Items, amt \in Amounts : AddLine(o, i, amt)
    \/ \E i \in Items : ChangeLine(i)
    \/ \E o \in Orders : RemoveOrder(o)
    \/ \E o \in Orders, p \in Pays, st \in PayStatuses, amt \in Amounts :
          ChargeOrder(o, p, st, amt)
    \/ \E p \in Pays : AmendPayment(p)
    \/ \E o \in Orders : RefreshAgain(o)

\* An operation that leaves every row as it was is no step.
LedgerNext == rows' # rows /\ Operation

\* Whatever sessions do side by side, the rows change as if one request after the
\* other had run at its COMMIT: no table is taken that is taken by then, no line
\* goes to an order that is gone, no payment settles less than is due by then.
LedgerSpec == LedgerInit /\ [][LedgerNext]_rows
=============================================================================

---------------------------- MODULE PosOrders ----------------------------
(***************************************************************************)
(* Orders, order lines, payments and tables of the point of sale, as       *)
(* PostgreSQL transactions under READ COMMITTED with row locks.            *)
(*                                                                         *)
(* A request runs in a session.  A statement that takes row locks (SELECT  *)
(* ... FOR UPDATE, UPDATE, DELETE) is a step that waits until no other     *)
(* session holds those rows; the locks are kept until the session commits  *)
(* or rolls back.  The writes of a transaction become visible in its last  *)
(* step, which is its COMMIT; statements that only touch rows already      *)
(* locked are merged with the step before them.  A plain SELECT is a step  *)
(* of its own wherever another session may commit before its result is     *)
(* used.                                                                   *)
(*                                                                         *)
(* The rows, and what the code computes from them, are those of Ledger.    *)
(* A request adds one line.                                                *)
(*                                                                         *)
(* A definition named Wrong... is a mistake the definition after it could  *)
(* contain.  It is used nowhere: the properties are tested by putting it   *)
(* in the place of that definition and finding them violated.              *)
(***************************************************************************)
EXTENDS Ledger

CONSTANTS
    Sessions,                       \* the concurrent requests
    StatusInputs, PayInputs,        \* statuses that clients send
    Ops,                            \* the endpoints that clients call
    Free                            \* unlocked row

AllOps == {"create", "createFull", "submit", "add", "update", "delete",
           "itemStatus", "itemDetails", "itemCancel",
           "pay", "editPay", "dropPay"}

ASSUME NamesAssumption == NoTable \notin Tables /\ Free \notin Sessions
ASSUME OpsAssumption == Ops \subseteq AllOps

(***************************************************************************)
(* Statuses.  Clients may send any member of the enum; every write goes    *)
(* through normalizeOrderStatus, which folds the old workflow states.      *)
(***************************************************************************)
RawStatuses == {"Pending", "Cooking", "Served", "WaitingForPayment", "Paid",
                "Completed", "Cancelled", "pending", "completed", "cancelled"}

ASSUME StatusAssumption ==
    StatusInputs \subseteq RawStatuses /\ PayInputs \subseteq PayStatuses

Normalize(raw) ==
    CASE raw \in {"pending", "Cooking", "Served"} -> "Pending"
      [] raw = "completed"                        -> "Completed"
      [] raw = "cancelled"                        -> "Cancelled"
      [] OTHER                                    -> raw

ActiveView == {"Pending", "WaitingForPayment"}   \* a table's current bill
Addable    == {"Pending"}                        \* a customer may add lines

VARIABLES
    created,  \* how many order ids were handed out: a larger id is younger
    lock,     \* the session that holds each row lock, or Free
    pc,       \* where each session is in its request
    arg,      \* the request's arguments and the ids it generated
    seen      \* what the session read and will use in a later statement

vars == <<order, item, pay, table, snap, created, lock, pc, arg, seen>>

NoArg   == [op |-> "none", ord |-> 0, tab |-> NoTable, item |-> 0, pay |-> 0,
            st |-> "none", amt |-> 0]
NoSeen  == [status |-> "Absent", total |-> 0, table |-> NoTable, paid |-> 0]

\* The youngest order of a table among those a customer sees as its bill.
Bills(t) == {o \in Orders : order[o].table = t /\ order[o].status \in ActiveView}
LatestBill(t, o) == o \in Bills(t) /\ \A x \in Bills(t) : x <= o

(***************************************************************************)
(* Row locks.                                                              *)
(***************************************************************************)
OrderRow(o)   == <<"order", o>>
ItemRows(S)   == {<<"item", i>> : i \in S}
PayRows(S)    == {<<"pay", p>> : p \in S}
TableRows(S)  == {<<"table", t>> : t \in S \ {NoTable}}
Rows == {OrderRow(o) : o \in Orders} \cup ItemRows(Items) \cup PayRows(Pays)
            \cup TableRows(Tables)

Take(s, R) ==
    /\ \A r \in R : lock[r] \in {Free, s}
    /\ lock' = [r \in Rows |-> IF r \in R THEN s ELSE lock[r]]

\* A waiting statement that can be granted its rows; the transaction ends with it.
Granted(s, R) == \A r \in R : lock[r] \in {Free, s}

Begin(s, next, a) ==
    /\ pc[s] = "idle"
    /\ pc' = [pc EXCEPT ![s] = next]
    /\ arg' = [arg EXCEPT ![s] = a]

Advance(s, next) == pc' = [pc EXCEPT ![s] = next]

WrongEnd(s) ==  \* the transaction is left open
    /\ lock' = lock
    /\ pc' = [pc EXCEPT ![s] = "idle"]
    /\ arg' = [arg EXCEPT ![s] = NoArg]
    /\ seen' = [seen EXCEPT ![s] = NoSeen]

\* COMMIT or ROLLBACK: every lock of the session is released.
End(s) ==
    /\ lock' = [r \in Rows |-> IF lock[r] = s THEN Free ELSE lock[r]]
    /\ pc' = [pc EXCEPT ![s] = "idle"]
    /\ arg' = [arg EXCEPT ![s] = NoArg]
    /\ seen' = [seen EXCEPT ![s] = NoSeen]

\* Fresh ids: the smallest row that no row and no session uses.
FreshItem(i) ==
    LET unused == {x \in Items : item[x] = NoItem
                                   /\ \A s \in Sessions : arg[s].item # x}
    IN  i \in unused /\ \A x \in unused : i <= x
FreshPay(p) ==
    LET unused == {x \in Pays : pay[x] = NoPay
                                  /\ \A s \in Sessions : arg[s].pay # x}
    IN  p \in unused /\ \A x \in unused : p <= x
FreshOrder(o) == o = created + 1 /\ o <= MaxOrders

(***************************************************************************)
(* create and createFullOrder: lock the table, refuse it when occupied,    *)
(* insert the order (and its line), take the table.  A header-only order   *)
(* keeps the total that the client sent.                                   *)
(***************************************************************************)
CreateLock(s) ==
    \E t \in Tables \cup {NoTable}, raw \in StatusInputs, amt \in Amounts, o \in Orders :
        /\ "create" \in Ops
        /\ FreshOrder(o)
        /\ Begin(s, "create", [NoArg EXCEPT !.op = "create", !.ord = o, !.tab = t,
                                            !.st = Normalize(raw), !.amt = amt])
        /\ Take(s, TableRows({t}))
        /\ Available(t)
        /\ created' = o
        /\ UNCHANGED <<rows, seen>>

CreateFullLock(s) ==
    \E t \in Tables \cup {NoTable}, raw \in StatusInputs, amt \in Amounts,
       o \in Orders, i \in Items :
        /\ "createFull" \in Ops
        /\ FreshOrder(o) /\ FreshItem(i)
        /\ Begin(s, "create", [NoArg EXCEPT !.op = "createFull", !.ord = o, !.tab = t,
                                            !.item = i, !.st = Normalize(raw), !.amt = amt])
        /\ Take(s, TableRows({t}))
        /\ Available(t)
        /\ created' = o
        /\ UNCHANGED <<rows, seen>>

NewLine(s) == [ord |-> arg[s].ord, status |-> "Pending", amt |-> arg[s].amt]

CreateCommit(s) ==
    LET a    == arg[s]
        full == a.op # "create"
        itm  == IF full THEN [item EXCEPT ![a.item] = NewLine(s)] ELSE item
        row  == [NoOrder EXCEPT !.status = a.st, !.table = a.tab,
                                !.total = IF full THEN 0 ELSE a.amt]
    IN  /\ pc[s] = "create"
        /\ SaveOrder(a.ord, IF full THEN Reconciled(row, itm, a.ord) ELSE row, itm)
        /\ table' = IF a.tab = NoTable THEN table ELSE [table EXCEPT ![a.tab] = "Unavailable"]
        /\ End(s)
        /\ UNCHANGED <<pay, created>>

(***************************************************************************)
(* submitByToken: a customer at a table.  The table row is locked, the     *)
(* latest bill is read without a lock, and the lines go to it if it is     *)
(* open, to a new order if there is none; a locked bill refuses them.      *)
(***************************************************************************)
SubmitAppend(s) ==
    \E t \in Tables, amt \in Amounts, o \in Orders, i \in Items :
        /\ "submit" \in Ops
        /\ FreshItem(i)
        /\ LatestBill(t, o) /\ order[o].status \in Addable
        /\ Begin(s, "append", [NoArg EXCEPT !.op = "append", !.ord = o, !.tab = t,
                                            !.item = i, !.amt = amt])
        /\ Take(s, TableRows({t}))
        /\ UNCHANGED <<rows, created, seen>>

SubmitCreate(s) ==
    \E t \in Tables, amt \in Amounts, o \in Orders, i \in Items :
        /\ "submit" \in Ops
        /\ FreshOrder(o) /\ FreshItem(i)
        /\ Bills(t) = {} /\ Available(t)
        /\ Begin(s, "create", [NoArg EXCEPT !.op = "submit", !.ord = o, !.tab = t,
                                            !.item = i, !.st = "Pending", !.amt = amt])
        /\ Take(s, TableRows({t}))
        /\ created' = o
        /\ UNCHANGED <<rows, seen>>

\* addItems called inside the customer's transaction: now it locks the order.
AppendLock(s) ==
    /\ pc[s] = "append"
    /\ Exists(arg[s].ord)
    /\ Take(s, {OrderRow(arg[s].ord)})
    /\ Advance(s, "add")
    /\ UNCHANGED <<rows, created, arg, seen>>

(***************************************************************************)
(* addItems: lock the order, insert the line, reconcile.  The status of    *)
(* the order is not looked at.                                             *)
(***************************************************************************)
WrongAddLock(s) ==  \* the order is looked up without being locked
    \E o \in Orders, amt \in Amounts, i \in Items :
        /\ "add" \in Ops
        /\ Exists(o) /\ FreshItem(i)
        /\ Begin(s, "add", [NoArg EXCEPT !.op = "add", !.ord = o, !.item = i, !.amt = amt])
        /\ Take(s, {})
        /\ UNCHANGED <<rows, created, seen>>

AddLock(s) ==
    \E o \in Orders, amt \in Amounts, i \in Items :
        /\ "add" \in Ops
        /\ Exists(o) /\ FreshItem(i)
        /\ Begin(s, "add", [NoArg EXCEPT !.op = "add", !.ord = o, !.item = i, !.amt = amt])
        /\ Take(s, {OrderRow(o)})
        /\ UNCHANGED <<rows, created, seen>>

AddCommit(s) ==
    LET o   == arg[s].ord
        itm == [item EXCEPT ![arg[s].item] = NewLine(s)]
    IN  /\ pc[s] = "add"
        /\ SaveOrder(o, Reconciled(order[o], itm, o), itm)
        /\ End(s)
        /\ UNCHANGED <<pay, table, created>>

(***************************************************************************)
(* update: lock the order, then its table and the next one; refuse an      *)
(* occupied next table; write the order, cancel its lines if it is being   *)
(* cancelled, reconcile, and set the tables from the final status.         *)
(***************************************************************************)
UpdateLock(s) ==
    \E o \in Orders, t \in Tables \cup {NoTable}, raw \in StatusInputs \cup {"keep"} :
        /\ "update" \in Ops
        /\ Exists(o)
        /\ Begin(s, "update", [NoArg EXCEPT !.op = "update", !.ord = o, !.tab = t,
                                            !.st = Normalize(raw)])
        /\ Take(s, {OrderRow(o)})
        /\ UNCHANGED <<rows, created, seen>>

UpdateTablesRows(s) == TableRows({order[arg[s].ord].table, arg[s].tab})
WrongNextTableFree(s) == TRUE  \* a moved order is not checked
NextTableFree(s) == arg[s].tab # order[arg[s].ord].table => Available(arg[s].tab)

UpdateTables(s) ==
    /\ pc[s] = "update"
    /\ Take(s, UpdateTablesRows(s))
    /\ NextTableFree(s)
    /\ Advance(s, "update.write")
    /\ UNCHANGED <<rows, created, arg, seen>>

UpdateReject(s) ==
    /\ pc[s] = "update"
    /\ Granted(s, UpdateTablesRows(s))
    /\ ~NextTableFree(s)
    /\ End(s)
    /\ UNCHANGED <<rows, created>>

CancelledRows(s) ==
    IF arg[s].st = "Cancelled" THEN ItemRows(Lines(item, arg[s].ord)) ELSE {}

UpdateWrite(s) ==
    LET a    == arg[s]
        o    == a.ord
        prev == order[o].table
        itm  == [i \in Items |-> IF a.st = "Cancelled" /\ item[i].ord = o
                                 THEN [item[i] EXCEPT !.status = "Cancelled"]
                                 ELSE item[i]]
        row  == Reconciled([order[o] EXCEPT !.table = a.tab,
                                            !.status = IF a.st = "keep" THEN @ ELSE a.st],
                           itm, o)
    IN  /\ pc[s] = "update.write"
        /\ Granted(s, CancelledRows(s))
        /\ SaveOrder(o, row, itm)
        /\ table' = [t \in Tables |->
                        IF t = a.tab THEN IF row.status \in Closed THEN "Available"
                                                                   ELSE "Unavailable"
                        ELSE IF t = prev THEN "Available" ELSE table[t]]
        /\ End(s)
        /\ UNCHANGED <<pay, created>>

(***************************************************************************)
(* delete: lock the order, free its table whatever the order's status is,  *)
(* and delete payments, lines and order; the snapshot goes by cascade.     *)
(***************************************************************************)
DeleteLock(s) ==
    \E o \in Orders :
        /\ "delete" \in Ops
        /\ Exists(o)
        /\ Begin(s, "delete", [NoArg EXCEPT !.op = "delete", !.ord = o])
        /\ Take(s, {OrderRow(o)})
        /\ UNCHANGED <<rows, created, seen>>

WrongDeletedRows(o) ==  \* lines are deleted without waiting for their editors
    TableRows({order[o].table}) \cup PayRows({p \in Pays : pay[p].ord = o})

DeletedRows(o) ==
    TableRows({order[o].table}) \cup ItemRows(Lines(item, o))
        \cup PayRows({p \in Pays : pay[p].ord = o})

DeleteCommit(s) ==
    LET o == arg[s].ord
    IN  /\ pc[s] = "delete"
        /\ Granted(s, DeletedRows(o))
        /\ SaveOrder(o, NoOrder, [i \in Items |-> IF item[i].ord = o THEN NoItem ELSE item[i]])
        /\ pay' = [p \in Pays |-> IF pay[p].ord = o THEN NoPay ELSE pay[p]]
        /\ table' = [t \in Tables |-> IF t = order[o].table THEN "Available" ELSE table[t]]
        /\ End(s)
        /\ UNCHANGED created

(***************************************************************************)
(* updateItemStatus, updateItemDetails and deleteItem: lock the line, then *)
(* its order, change the line, reconcile.  deleteItem only cancels.        *)
(***************************************************************************)
ItemChanges ==
    [op: {"itemStatus"} \cap Ops, st: {Normalize(raw) : raw \in StatusInputs}, amt: {0}]
    \cup [op: {"itemDetails"} \cap Ops, st: {"none"}, amt: Amounts]
    \cup [op: {"itemCancel"} \cap Ops, st: {"none"}, amt: {0}]

ItemLock(s) ==
    \E i \in Items, c \in ItemChanges :
        /\ item[i] # NoItem
        /\ Begin(s, "item", [NoArg EXCEPT !.op = c.op, !.ord = item[i].ord, !.item = i,
                                          !.st = c.st, !.amt = c.amt])
        /\ Take(s, ItemRows({i}))
        /\ UNCHANGED <<rows, created, seen>>

ChangedLine(a, line) ==
    CASE a.op = "itemStatus"  -> [line EXCEPT !.status = a.st]
      [] a.op = "itemDetails" -> [line EXCEPT !.amt = a.amt]
      [] a.op = "itemCancel"  -> [line EXCEPT !.status = "Cancelled"]

ItemCommit(s) ==
    LET o   == arg[s].ord
        itm == [item EXCEPT ![arg[s].item] = ChangedLine(arg[s], @)]
    IN  /\ pc[s] = "item"
        /\ Granted(s, {OrderRow(o)})
        /\ SaveOrder(o, Reconciled(order[o], itm, o), itm)
        /\ End(s)
        /\ UNCHANGED <<pay, table, created>>

(***************************************************************************)
(* Payments.  create locks the order, refuses a settled one and an amount  *)
(* above the outstanding balance, inserts the payment and refreshes the    *)
(* order.  update and delete read the payment, the order and its payments  *)
(* without a lock; the rows are only locked by the statements that write   *)
(* them, which do nothing to a row that is gone by then.                   *)
(***************************************************************************)
PayLock(s) ==
    \E o \in Orders, p \in Pays, amt \in Amounts, st \in PayInputs :
        /\ "pay" \in Ops
        /\ Exists(o) /\ FreshPay(p)
        /\ order[o].status \notin Settled
        /\ st = "Success" => Due(o, amt)
        /\ Begin(s, "refresh", [NoArg EXCEPT !.op = "pay", !.ord = o, !.pay = p,
                                             !.st = st, !.amt = amt])
        /\ Take(s, {OrderRow(o)})
        /\ seen' = [seen EXCEPT ![s] =
                      [status |-> order[o].status, total |-> order[o].total,
                       table |-> order[o].table,
                       paid |-> Paid(pay, o) + (IF st = "Success" THEN amt ELSE 0)]]
        /\ UNCHANGED <<rows, created>>

PayChanges ==
    [op: {"editPay"} \cap Ops, st: PayInputs, amt: Amounts]
    \cup [op: {"dropPay"} \cap Ops, st: {"none"}, amt: {0}]

\* findAccessiblePayment
EditFind(s) ==
    \E p \in Pays, c \in PayChanges :
        /\ pay[p] # NoPay
        /\ Begin(s, "edit.find", [NoArg EXCEPT !.op = c.op, !.ord = pay[p].ord, !.pay = p,
                                               !.st = c.st, !.amt = c.amt])
        /\ UNCHANGED <<rows, created, lock, seen>>

\* The UPDATE or the DELETE of the payment.
EditLock(s) ==
    /\ pc[s] = "edit.find"
    /\ pay[arg[s].pay] # NoPay
    /\ Take(s, PayRows({arg[s].pay}))
    /\ Advance(s, "edit")
    /\ UNCHANGED <<rows, created, arg, seen>>

\* Another session removed the payment: update reads it once more and fails, delete
\* goes on as if it had removed it.
EditMissed(s) ==
    /\ pc[s] = "edit.find"
    /\ pay[arg[s].pay] = NoPay
    /\ IF arg[s].op = "dropPay" THEN Advance(s, "edit") /\ UNCHANGED <<lock, arg, seen>> ELSE End(s)
    /\ UNCHANGED <<rows, created>>

\* The payments as this session will leave them.
NewPays(s) ==
    [pay EXCEPT ![arg[s].pay] =
        IF arg[s].op = "dropPay" THEN NoPay
        ELSE [ord |-> arg[s].ord, status |-> arg[s].st, amt |-> arg[s].amt]]

EditReadOrder(s) ==
    LET o == arg[s].ord
    IN  /\ pc[s] = "edit"
        /\ Exists(o)
        /\ seen' = [seen EXCEPT ![s] = [status |-> order[o].status, total |-> order[o].total,
                                        table |-> order[o].table, paid |-> 0]]
        /\ Advance(s, "edit.sum")
        /\ UNCHANGED <<rows, created, lock, arg>>

\* The order went with the payment that the other session removed: nothing to refresh.
EditNoOrder(s) ==
    /\ pc[s] = "edit"
    /\ ~Exists(arg[s].ord)
    /\ End(s)
    /\ UNCHANGED <<rows, created>>

EditReadPays(s) ==
    /\ pc[s] = "edit.sum"
    /\ seen' = [seen EXCEPT ![s].paid = Paid(NewPays(s), arg[s].ord)]
    /\ Advance(s, "edit.order")
    /\ UNCHANGED <<rows, created, lock, arg>>

EditLockOrder(s) ==
    /\ pc[s] = "edit.order"
    /\ Exists(arg[s].ord)
    /\ Take(s, {OrderRow(arg[s].ord)})
    /\ Advance(s, "refresh")
    /\ UNCHANGED <<rows, created, arg, seen>>

WrongNextStatus(s) ==  \* a payment of any amount settles the order
    IF seen[s].status = "Cancelled" THEN "Cancelled"
    ELSE IF seen[s].paid > 0 THEN "Completed" ELSE seen[s].status

\* refreshOrderPaymentSummary, from what it read.
NextStatus(s) ==
    IF seen[s].status = "Cancelled" THEN "Cancelled"
    ELSE IF seen[s].paid >= seen[s].total THEN "Completed" ELSE seen[s].status

SettledRows(s) ==
    IF NextStatus(s) = "Completed"
    THEN ItemRows(LiveLines(item, arg[s].ord)) \cup TableRows({seen[s].table}) ELSE {}

RefreshCommit(s) ==
    LET o    == arg[s].ord
        done == NextStatus(s) = "Completed"
        itm  == [i \in Items |-> IF done /\ i \in LiveLines(item, o)
                                 THEN [item[i] EXCEPT !.status = "Paid"] ELSE item[i]]
        row  == [order[o] EXCEPT !.status = NextStatus(s), !.received = seen[s].paid]
    IN  /\ pc[s] = "refresh"
        /\ Granted(s, SettledRows(s))
        /\ pay' = NewPays(s)
        /\ SaveOrder(o, row, itm)
        /\ table' = [t \in Tables |-> IF done /\ t = seen[s].table THEN "Available" ELSE table[t]]
        /\ End(s)
        /\ UNCHANGED created

\* The order went after it was read: its table is given back all the same.
RefreshMissed(s) ==
    LET done == NextStatus(s) = "Completed"
    IN  /\ pc[s] = "edit.order"
        /\ ~Exists(arg[s].ord)
        /\ Granted(s, SettledRows(s))
        /\ table' = [t \in Tables |-> IF done /\ t = seen[s].table THEN "Available" ELSE table[t]]
        /\ End(s)
        /\ UNCHANGED <<order, item, pay, snap, created>>

(***************************************************************************)
(* Rollbacks.  PostgreSQL aborts a session whose wait closes a cycle; a    *)
(* process that dies or loses its connection rolls back what it was doing. *)
(***************************************************************************)
Wanted(s) ==
    LET a == arg[s]
    IN  CASE pc[s] = "update"       -> UpdateTablesRows(s)
          [] pc[s] = "update.write" -> CancelledRows(s)
          [] pc[s] = "delete"       -> DeletedRows(a.ord)
          [] pc[s] = "refresh"      -> SettledRows(s)
          [] pc[s] = "edit.find"    -> PayRows({a.pay})
          [] pc[s] = "edit.order"   -> IF Exists(a.ord) THEN {OrderRow(a.ord)} ELSE SettledRows(s)
          [] pc[s] \in {"append", "item"} -> {OrderRow(a.ord)}
          [] OTHER -> {}

WaitsFor(s, x) == x # s /\ \E r \in Wanted(s) : lock[r] = x

\* s is in a set of sessions each of which waits for, and blocks, another one.
Deadlocked(s) ==
    \E S \in SUBSET Sessions :
        /\ s \in S
        /\ \A x \in S : (\E y \in S : WaitsFor(x, y)) /\ (\E y \in S : WaitsFor(y, x))

DeadlockVictim(s) ==
    /\ pc[s] # "idle"
    /\ Deadlocked(s)
    /\ End(s)
    /\ UNCHANGED <<rows, created>>

Crash(s) ==
    /\ pc[s] # "idle"
    /\ End(s)
    /\ UNCHANGED <<rows, created>>

(***************************************************************************)
(* The specification.                                                      *)
(***************************************************************************)
Init ==
    /\ LedgerInit
    /\ created = 0
    /\ lock = [r \in Rows |-> Free]
    /\ pc = [s \in Sessions |-> "idle"]
    /\ arg = [s \in Sessions |-> NoArg]
    /\ seen = [s \in Sessions |-> NoSeen]

\* A request arrives and gets its first locks.
Request(s) ==
    \/ CreateLock(s) \/ CreateFullLock(s) \/ SubmitAppend(s) \/ SubmitCreate(s)
    \/ AddLock(s) \/ UpdateLock(s) \/ DeleteLock(s) \/ ItemLock(s)
    \/ PayLock(s) \/ EditFind(s)

\* A request goes on.
Continue(s) ==
    \/ CreateCommit(s) \/ AppendLock(s) \/ AddCommit(s)
    \/ UpdateTables(s) \/ UpdateReject(s) \/ UpdateWrite(s)
    \/ DeleteCommit(s) \/ ItemCommit(s)
    \/ EditLock(s) \/ EditMissed(s) \/ EditReadOrder(s) \/ EditNoOrder(s) \/ EditReadPays(s)
    \/ EditLockOrder(s) \/ RefreshCommit(s) \/ RefreshMissed(s)

Next == \E s \in Sessions : Request(s) \/ Continue(s) \/ DeadlockVictim(s) \/ Crash(s)

Spec == Init /\ [][Next]_vars

\* PostgreSQL queues lock waiters, so a request that is granted its rows again
\* and again gets them; deadlock detection runs after deadlock_timeout.
FairSpec == Spec /\ \A s \in Sessions : SF_vars(Continue(s)) /\ WF_vars(DeadlockVictim(s))

(***************************************************************************)
(* Properties.                                                             *)
(***************************************************************************)
OrderStatuses == Statuses \cup {"Absent"}
OrderRecord == [status: OrderStatuses, total: Nat, received: Nat, table: Tables \cup {NoTable}]
LineRecord == [ord: Orders \cup {0}, status: OrderStatuses, amt: Nat]
SummaryRecord == [status: OrderStatuses, total: Nat, table: Tables \cup {NoTable}, count: Nat]
PaymentRecord == [ord: Orders \cup {0}, status: PayStatuses \cup {"Absent"}, amt: Nat]
Phases == {"idle", "create", "append", "add", "update", "update.write", "delete", "item",
           "edit.find", "edit", "edit.sum", "edit.order", "refresh"}
Arguments == [op: AllOps \cup {"none", "append"}, ord: Orders \cup {0},
              tab: Tables \cup {NoTable}, item: Items \cup {0}, pay: Pays \cup {0},
              st: Statuses \cup PayStatuses \cup {"none", "keep"}, amt: Nat]
Reads == [status: OrderStatuses, total: Nat, table: Tables \cup {NoTable}, paid: Nat]

\* Every row and every session's private state has its type: amounts never go
\* below zero, statuses are those of the enum after normalisation.
TypeOK ==
    /\ order \in [Orders -> OrderRecord]
    /\ item \in [Items -> LineRecord]
    /\ pay \in [Pays -> PaymentRecord]
    /\ table \in [Tables -> {"Available", "Unavailable"}]
    /\ snap \in [Orders -> SummaryRecord]
    /\ created \in 0 .. MaxOrders
    /\ lock \in [Rows -> Sessions \cup {Free}]
    /\ pc \in [Sessions -> Phases]
    /\ arg \in [Sessions -> Arguments]
    /\ seen \in [Sessions -> Reads]

\* The list a cashier reads (order_summary_snapshots) shows each committed order
\* as it is: status, total, table and number of live lines, after every
\* operation of the orders and payments services.
SnapshotAgrees == \A o \in Orders : snap[o] = Summary(order, item, o)

\* The amount a customer is asked for is that of the order's live lines, however
\* line edits, cancellations and payments of several sessions interleave.
TotalMatchesLines ==
    \A o \in Orders : Lines(item, o) # {} => order[o].total = OrderTotal(item, o)

\* No line or payment outlives its order, though an order may be deleted while
\* other sessions wait to add lines to it or to change its payments.
NoOrphans ==
    /\ \A i \in Items : item[i] # NoItem => item[i].ord \in Orders /\ Exists(item[i].ord)
    /\ \A p \in Pays : pay[p] # NoPay => pay[p].ord \in Orders /\ Exists(pay[p].ord)

NewCharge(p) == pay[p] = NoPay /\ pay'[p].status = "Success"

\* A new successful payment goes to an order that is still open and fits what is
\* outstanding at the moment it commits: two cashiers do not charge a bill twice.
ChargeIsDue ==
    [][\A p \in Pays : NewCharge(p) =>
          LET o == pay'[p].ord
          IN  /\ order[o].status \notin Settled
              /\ Paid(pay, o) + pay'[p].amt <= order[o].total]_vars

\* The payment that completes an order leaves it fully settled in the same
\* transaction: live lines paid, table given back, received amount that of the
\* earlier payments and this one, and covering the total.
SettlementClosesBill ==
    [][\A p \in Pays : LET o == pay'[p].ord IN
          NewCharge(p) /\ order'[o].status = "Completed" =>
             /\ \A i \in LiveLines(item', o) : item'[i].status = "Paid"
             /\ order'[o].table # NoTable => table'[order'[o].table] = "Available"
             /\ order'[o].received = Paid(pay, o) + pay'[p].amt
             /\ order'[o].received >= order'[o].total]_vars

Seated(o, t) == order[o].table # t /\ order'[o].table = t

\* An order is put at a table only when the table is free at that moment, and
\* an open order takes it: two sessions do not seat two parties at once.
SeatOnlyFreeTable ==
    [][\A o \in Orders, t \in Tables : Seated(o, t) =>
          /\ table[t] = "Available"
          /\ order'[o].status \in ActiveView => table'[t] = "Unavailable"]_vars

\* Every request that has begun ends: waits that close a cycle (line
\* then order against order then line, table then order against order then
\* table) are broken, and nothing else blocks for ever.
EveryRequestEnds == \A s \in Sessions : pc[s] # "idle" ~> pc[s] = "idle"

(***************************************************************************)
(* What the repository says and the code does not do.                      *)
(***************************************************************************)

\* A customer's lines go to an open bill only (test: "rejects submit when the
\* latest table bill is locked").
CustomerAddsToOpenBill ==
    [][\A s \in Sessions :
          arg[s].op = "append" /\ pc[s] = "add" /\ item' # item /\ pc'[s] = "idle"
             => order[arg[s].ord].status \in Addable]_vars

\* A table with an open bill is refused to a new order ("Table is already
\* occupied").
OccupiedTableRefused ==
    [][\A o \in Orders, t \in Tables :
          ~Exists(o) /\ Exists(o)' /\ Seated(o, t) => Bills(t) = {}]_vars

(***************************************************************************)
(* The inductive invariant behind SnapshotAgrees, TotalMatchesLines,       *)
(* NoOrphans and ChargeIsDue: what the row locks of a session in flight    *)
(* protect.                                                                *)
(***************************************************************************)
OrderPhases == {"add", "update", "update.write", "delete", "refresh"}
EditPhases  == {"edit", "edit.sum", "edit.order"}

\* Past its lock on an order, a session still owns the row, and it exists.
OrderHeld(s) ==
    pc[s] \in OrderPhases =>
        /\ arg[s].ord \in Orders
        /\ lock[OrderRow(arg[s].ord)] = s
        /\ Exists(arg[s].ord)

\* A session that changes a line owns the line's row, and the line is of its order.
LineHeld(s) ==
    pc[s] = "item" =>
        /\ arg[s].ord \in Orders /\ arg[s].item \in Items
        /\ lock[<<"item", arg[s].item>>] = s
        /\ item[arg[s].item].ord = arg[s].ord

\* So does one that changes or deletes a payment, unless another one has removed it:
\* then it is gone for good.
Editing(s) == pc[s] \in EditPhases \/ (pc[s] = "refresh" /\ arg[s].op # "pay")
PaymentHeld(s) ==
    /\ pc[s] = "edit.find" \/ Editing(s) =>
        /\ arg[s].op \in {"editPay", "dropPay"}
        /\ arg[s].ord \in Orders /\ arg[s].pay \in Pays
        /\ pay[arg[s].pay].ord = arg[s].ord \/ pay[arg[s].pay] = NoPay
    /\ Editing(s) => IF pay[arg[s].pay] = NoPay THEN arg[s].op = "dropPay"
                     ELSE lock[<<"pay", arg[s].pay>>] = s

\* What a new payment was checked against is still so when it is inserted.
Paying(s) == pc[s] = "refresh" /\ arg[s].op = "pay"
ChargeChecked(s) ==
    Paying(s) =>
        /\ order[arg[s].ord].status \notin Settled
        /\ arg[s].st = "Success" => Due(arg[s].ord, arg[s].amt)

\* The id of an order being created is its session's alone, and no row has it.
IdFresh(s) ==
    pc[s] = "create" =>
        /\ arg[s].ord \in 1 .. created
        /\ ~Exists(arg[s].ord)
        /\ \A x \in Sessions \ {s} : pc[x] = "create" => arg[x].ord # arg[s].ord

\* So are the ids of a new line and of a new payment.
Inserting(s) == pc[s] \in {"add", "append"} \/ (pc[s] = "create" /\ arg[s].op # "create")
LineFresh(s) ==
    Inserting(s) =>
        /\ arg[s].item \in Items
        /\ item[arg[s].item] = NoItem
        /\ \A x \in Sessions \ {s} : arg[x].item # arg[s].item
PayFresh(s) ==
    Paying(s) =>
        /\ arg[s].pay \in Pays
        /\ pay[arg[s].pay] = NoPay
        /\ \A x \in Sessions \ {s} : arg[x].pay # arg[s].pay

\* Arguments have the shape of their phase.
ArgsOK(s) ==
    /\ pc[s] = "create" => arg[s].op \in {"create", "createFull", "submit"}
                             /\ arg[s].st \in Statuses
    /\ pc[s] = "append" => arg[s].ord \in Orders
    /\ pc[s] \in {"update", "update.write"} => arg[s].st \in Statuses \cup {"keep"}
    /\ pc[s] = "item" => \/ arg[s].op = "itemStatus" /\ arg[s].st \in Statuses
                         \/ arg[s].op \in {"itemDetails", "itemCancel"}
    /\ pc[s] = "refresh" => /\ arg[s].op \in {"pay", "editPay", "dropPay"}
                            /\ seen[s].status \in Statuses
    /\ pc[s] \in {"edit.sum", "edit.order"} => seen[s].status \in Statuses
    /\ pc[s] \in EditPhases \cup {"edit.find", "refresh"} /\ arg[s].op # "dropPay"
          => arg[s].st \in PayStatuses

Held(s) ==
    /\ OrderHeld(s) /\ LineHeld(s) /\ PaymentHeld(s) /\ ChargeChecked(s)
    /\ IdFresh(s) /\ LineFresh(s) /\ PayFresh(s) /\ ArgsOK(s)

\* Order ids are handed out in order.
IdsInOrder == \A o \in Orders : o > created => ~Exists(o)

IInv ==
    /\ TypeOK /\ SnapshotAgrees /\ TotalMatchesLines /\ NoOrphans /\ IdsInOrder
    /\ \A s \in Sessions : Held(s)

(***************************************************************************)
(* What SettlementClosesBill and SeatOnlyFreeTable need besides: what was  *)
(* read under a lock is still so in the statement that uses it.            *)
(***************************************************************************)
SeenStill(s) ==
    Paying(s) =>
        /\ seen[s].status = order[arg[s].ord].status
        /\ seen[s].total = order[arg[s].ord].total
        /\ seen[s].table = order[arg[s].ord].table
        /\ seen[s].paid = Paid(pay, arg[s].ord) + (IF arg[s].st = "Success" THEN arg[s].amt ELSE 0)

\* A session that seats an order owns the tables concerned, and the next one is free.
TablesHeld(s) ==
    /\ pc[s] = "create" =>
          /\ \A r \in TableRows({arg[s].tab}) : lock[r] = s
          /\ Available(arg[s].tab)
    /\ pc[s] = "update.write" =>
          /\ \A r \in UpdateTablesRows(s) : lock[r] = s
          /\ NextTableFree(s)

SeatInv == IInv /\ \A s \in Sessions : SeenStill(s) /\ TablesHeld(s)

(***************************************************************************)
(* What LedgerSpec needs besides: the amount in a request is one that      *)
(* clients send.                                                           *)
(***************************************************************************)
Meant(s) ==
    pc[s] \in {"create", "append", "add"} \/ arg[s].op \in {"itemDetails", "pay", "editPay"}
        => arg[s].amt \in Amounts

LedgerInv == SeatInv /\ \A s \in Sessions : Meant(s)
=============================================================================

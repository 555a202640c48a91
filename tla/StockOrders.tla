---------------------------- MODULE StockOrders ----------------------------
(***************************************************************************)
(* Stock purchase orders: creation, the edit of an order's items, changes  *)
(* of status, the confirmation of a purchase, deletion.                    *)
(*                                                                         *)
(* confirmPurchase locks the order for its whole transaction.  The edit    *)
(* runs in a transaction but locks nothing that it reads; updateStatus     *)
(* reads, checks and saves in three statements.  PostgreSQL runs at READ   *)
(* COMMITTED, and a row that is inserted under a foreign key shares a lock *)
(* on the row it refers to.  TypeORM's save reads the row by id once more  *)
(* and decides by that between INSERT, UPDATE of what differs and nothing. *)
(*                                                                         *)
(* A transaction's writes appear at its COMMIT; until then `held', `back'  *)
(* and `new' say which rows it has written.  Locks follow from them.  A    *)
(* deleted row keeps its columns for those who have read it.               *)
(*                                                                         *)
(* A definition named Wrong... is a mistake that the next one could        *)
(* contain; it is used to test the properties.                             *)
(***************************************************************************)
EXTENDS Integers

CONSTANTS
    MaxOrders, MaxItems,  \* how many rows may be created
    Ingredients,          \* the active ingredients of the branch
    Quantities,           \* quantities that clients send
    StatusInputs,         \* statuses that clients send
    Sessions,             \* the concurrent requests
    Ops,                  \* the endpoints that clients call
    Nobody                \* purchased_by of no purchase

ASSUME StockBounds == MaxOrders \in Nat /\ MaxItems \in Nat
ASSUME StockInputs ==
    /\ Quantities \subseteq Int
    /\ StatusInputs \subseteq {"pending", "completed", "cancelled"}
ASSUME NobodyIsNoSession == Nobody \notin Sessions

Orders == 1 .. MaxOrders
Items  == 1 .. MaxItems

VARIABLES
    order,   \* stock_orders: the status, or "absent", or "deleted"
    item,    \* stock_orders_item
    detail,  \* stock_orders_detail, at most one per item (unique orders_item_id)
    pc,      \* where each session is in its request
    seen     \* what the session was asked, has read, and has written so far

vars == <<order, item, detail, pc, seen>>

Statuses == {"pending", "completed", "cancelled"}
Exists(o) == order[o] \in Statuses

NoItem   == [state |-> "absent", ord |-> 0, ing |-> "none", qty |-> 0]
NoDetail == [qty |-> 0, by |-> Nobody]
NoSeen   == [ord |-> 0, st |-> "none", want |-> <<>>,
             gone |-> {}, todo |-> {}, add |-> {}, cur |-> 0,
             held |-> {}, back |-> {}, new |-> {}]

\* A request names a quantity for some ingredients, one for each once the
\* repeated ones are added up; normalizeOrderItems refuses what is not positive,
\* normalizePurchaseItems takes it for nothing bought.
Requests == UNION {[S -> Quantities] : S \in (SUBSET Ingredients) \ {{}}}
Payloads == {f \in Requests : \A g \in DOMAIN f : f[g] > 0}

AtLeastZero(n) == IF n > 0 THEN n ELSE 0

Live(i) == item[i].state = "live"
Rows(o) == {i \in Items : Live(i) /\ item[i].ord = o}
IngredientsOf(S) == {item[i].ing : i \in S}

\* existingItems.find(...): one row per ingredient, whichever comes first.
FirstRows(S) ==
    {T \in SUBSET S : /\ IngredientsOf(T) = IngredientsOf(S)
                      /\ \A i, j \in T : item[i].ing = item[j].ing => i = j}

(***************************************************************************)
(* Locks.                                                                  *)
(***************************************************************************)
WrongConfirming(o, s) == FALSE  \* the order is read without pessimistic_write
\* Another session's confirmPurchase has the order FOR UPDATE.
Confirming(o, s) ==
    \E x \in Sessions \ {s} : pc[x] \in {"confirm.find", "confirm.write"} /\ seen[x].ord = o

WrongSharing(o, s) == FALSE  \* no foreign key from the items to the order
\* Another session has inserted an item of the order and not committed.
Sharing(o, s) ==
    \E x \in Sessions \ {s} : seen[x].ord = o /\ (seen[x].new # {} \/ seen[x].back # {})

\* Another session has updated, deleted or inserted the item and not committed.
Written(i, s) == \E x \in Sessions \ {s} : i \in seen[x].held \cup seen[x].back

\* Another session has deleted it (an update does not stop those who refer to it).
Removing(i, s) == \E x \in Sessions \ {s} : i \in seen[x].held /\ i \in seen[x].gone

Begin(s, next, read) ==
    /\ pc[s] = "idle"
    /\ pc' = [pc EXCEPT ![s] = next]
    /\ seen' = [seen EXCEPT ![s] = read]
Advance(s, next, read) ==
    /\ pc' = [pc EXCEPT ![s] = next]
    /\ seen' = [seen EXCEPT ![s] = read]
End(s) ==
    /\ pc' = [pc EXCEPT ![s] = "idle"]
    /\ seen' = [seen EXCEPT ![s] = NoSeen]

(***************************************************************************)
(* createOrderWithItems: one transaction that nobody can meet before its   *)
(* COMMIT.  NewRows gives every ingredient its new row, lowest ids first.  *)
(***************************************************************************)
Fresh(i) == item[i] = NoItem
NewRows(ings) ==
    {f \in [ings -> Items] : /\ \A g \in ings : Fresh(f[g])
                             /\ \A g, h \in ings : f[g] = f[h] => g = h
                             /\ \A g \in ings, i \in Items :
                                    i < f[g] /\ Fresh(i) => \E h \in ings : f[h] = i}
\* The rows of f, filled in from a payload.
Inserted(f, o, want) ==
    [i \in Items |->
        IF \E g \in DOMAIN f : f[g] = i
        THEN LET g == CHOOSE g \in DOMAIN f : f[g] = i
             IN  [state |-> "live", ord |-> o, ing |-> g, qty |-> want[g]]
        ELSE item[i]]

CreateOrder(s) ==
    \E o \in Orders, want \in Payloads : \E f \in NewRows(DOMAIN want) :
        /\ "create" \in Ops
        /\ pc[s] = "idle"
        /\ order[o] = "absent" /\ \A x \in 1 .. (o - 1) : order[x] # "absent"
        /\ order' = [order EXCEPT ![o] = "pending"]
        /\ item' = Inserted(f, o, want)
        /\ UNCHANGED <<detail, pc, seen>>

(***************************************************************************)
(* updateOrderItems: check the order, find its items, delete, then update  *)
(* or insert one item after the other, COMMIT.                             *)
(***************************************************************************)
EditCheck(s) ==
    \E o \in Orders, want \in Payloads :
        /\ "edit" \in Ops
        /\ order[o] = "pending"
        /\ Begin(s, "edit.find", [NoSeen EXCEPT !.ord = o, !.want = want])
        /\ UNCHANGED <<order, item, detail>>

EditFind(s) ==
    LET want == seen[s].want
        rows == Rows(seen[s].ord)
    IN  \E T \in FirstRows({i \in rows : item[i].ing \in DOMAIN want}) :
            /\ pc[s] = "edit.find"
            /\ Advance(s, "edit.remove",
                  [seen[s] EXCEPT !.gone = {i \in rows : item[i].ing \notin DOMAIN want},
                                  !.todo = {i \in T : item[i].qty # want[item[i].ing]},
                                  !.add = DOMAIN want \ IngredientsOf(rows)])
            /\ UNCHANGED <<order, item, detail>>

\* One DELETE for all items that are not wanted any more.
EditRemove(s) ==
    /\ pc[s] = "edit.remove"
    /\ \A i \in seen[s].gone : ~Written(i, s)
    /\ Advance(s, "edit.save", [seen[s] EXCEPT !.held = {i \in seen[s].gone : Live(i)}])
    /\ UNCHANGED <<order, item, detail>>

\* save(existingItem) reads the item again.
EditReload(s) ==
    \E i \in seen[s].todo :
        LET rest == [seen[s] EXCEPT !.todo = @ \ {i}]
            same == item[i].qty = seen[s].want[item[i].ing]
        IN  /\ pc[s] = "edit.save"
            /\ \/ Live(i) /\ same /\ Advance(s, "edit.save", rest)
               \/ Live(i) /\ ~same /\ Advance(s, "edit.update", [rest EXCEPT !.cur = i])
               \/ ~Live(i) /\ Advance(s, "edit.insert", [rest EXCEPT !.cur = i])
            /\ UNCHANGED <<order, item, detail>>

EditUpdate(s) ==
    /\ pc[s] = "edit.update"
    /\ ~Written(seen[s].cur, s)
    /\ Advance(s, "edit.save", [seen[s] EXCEPT !.held = @ \cup {i \in {seen[s].cur} : Live(i)},
                                               !.cur = 0])
    /\ UNCHANGED <<order, item, detail>>

\* The item was deleted meanwhile: save inserts it again, under its old id.
EditReinsert(s) ==
    /\ pc[s] = "edit.insert"
    /\ ~Written(seen[s].cur, s) /\ ~Confirming(seen[s].ord, s)
    /\ IF ~Live(seen[s].cur) /\ Exists(seen[s].ord)
       THEN Advance(s, "edit.save", [seen[s] EXCEPT !.back = @ \cup {seen[s].cur}, !.cur = 0])
       ELSE End(s)
    /\ UNCHANGED <<order, item, detail>>

\* save(createdItem): the foreign key fails when the order is gone.
EditInsert(s) ==
    \E g \in seen[s].add :
        /\ pc[s] = "edit.save"
        /\ ~Confirming(seen[s].ord, s)
        /\ IF Exists(seen[s].ord)
           THEN Advance(s, "edit.save", [seen[s] EXCEPT !.add = @ \ {g}, !.new = @ \cup {g}])
           ELSE End(s)
        /\ UNCHANGED <<order, item, detail>>

\* The items after the COMMIT: deleted, updated or inserted again, inserted.
Edited(s, f) ==
    [i \in Items |->
        IF i \in seen[s].held \cap seen[s].gone THEN [item[i] EXCEPT !.state = "deleted"]
        ELSE IF i \in seen[s].held \cup seen[s].back
        THEN [item[i] EXCEPT !.state = "live", !.qty = seen[s].want[item[i].ing]]
        ELSE Inserted(f, seen[s].ord, seen[s].want)[i]]

EditCommit(s) ==
    \E f \in NewRows(seen[s].new) :
        /\ pc[s] = "edit.save"
        /\ seen[s].todo = {} /\ seen[s].add = {}
        /\ item' = Edited(s, f)
        /\ detail' = [i \in Items |-> IF i \in seen[s].held \cap seen[s].gone THEN NoDetail
                                    ELSE detail[i]]
        /\ End(s)
        /\ UNCHANGED order

(***************************************************************************)
(* updateStatus: read and check; save reads again; save writes.            *)
(***************************************************************************)
StatusRead(s) ==
    \E o \in Orders, st \in StatusInputs :
        /\ "status" \in Ops
        /\ order[o] \in {"pending", st}
        /\ Begin(s, "status.save", [NoSeen EXCEPT !.ord = o, !.st = st])
        /\ UNCHANGED <<order, item, detail>>

StatusReload(s) ==
    LET now == order[seen[s].ord] IN
        /\ pc[s] = "status.save"
        /\ \/ now = seen[s].st /\ End(s)
           \/ now = "deleted" /\ Advance(s, "status.insert", seen[s])
           \/ now \in Statuses \ {seen[s].st} /\ Advance(s, "status.update", seen[s])
        /\ UNCHANGED <<order, item, detail>>

\* UPDATE ... WHERE id: nothing happens when the order is gone by now.
StatusUpdate(s) ==
    LET o == seen[s].ord IN
        /\ pc[s] = "status.update"
        /\ ~Confirming(o, s)
        /\ order' = [order EXCEPT ![o] = IF Exists(o) THEN seen[s].st ELSE @]
        /\ End(s)
        /\ UNCHANGED <<item, detail>>

\* The order was deleted before save read it: save inserts it again.
StatusInsert(s) ==
    LET o == seen[s].ord IN
        /\ pc[s] = "status.insert"
        /\ ~Confirming(o, s)
        /\ order' = [order EXCEPT ![o] = IF Exists(o) THEN @ ELSE seen[s].st]
        /\ End(s)
        /\ UNCHANGED <<item, detail>>

(***************************************************************************)
(* delete: one statement; items and details go by ON DELETE CASCADE.       *)
(***************************************************************************)
DeleteOrder(s) ==
    \E o \in Orders :
        /\ "delete" \in Ops
        /\ pc[s] = "idle"
        /\ Exists(o)
        /\ ~Confirming(o, s) /\ ~Sharing(o, s)
        /\ \A i \in Rows(o) : ~Written(i, s)
        /\ order' = [order EXCEPT ![o] = "deleted"]
        /\ item' = [i \in Items |-> IF i \in Rows(o) THEN [item[i] EXCEPT !.state = "deleted"]
                                    ELSE item[i]]
        /\ detail' = [i \in Items |-> IF i \in Rows(o) THEN NoDetail ELSE detail[i]]
        /\ UNCHANGED <<pc, seen>>

(***************************************************************************)
(* confirmPurchase: lock and check the order, find its items, write one    *)
(* detail per item, complete the order, COMMIT.                            *)
(***************************************************************************)
WrongConfirmable(o) == Exists(o)  \* the status of the order is not checked
Confirmable(o) == order[o] = "pending"

ConfirmLock(s) ==
    \E o \in Orders, bought \in Requests :
        /\ "confirm" \in Ops
        /\ Confirmable(o)
        /\ ~Confirming(o, s) /\ ~Sharing(o, s)
        /\ Begin(s, "confirm.find", [NoSeen EXCEPT !.ord = o, !.want = bought])
        /\ UNCHANGED <<order, item, detail>>

\* The items that get a detail: the first of every ingredient of the payload
\* and all of those that the payload does not name.
ConfirmFind(s) ==
    LET rows == Rows(seen[s].ord)
        said == {i \in rows : item[i].ing \in DOMAIN seen[s].want}
    IN  /\ pc[s] = "confirm.find"
        /\ IF rows # {} /\ DOMAIN seen[s].want \subseteq IngredientsOf(rows)
           THEN \E T \in FirstRows(said) :
                    Advance(s, "confirm.write", [seen[s] EXCEPT !.todo = T \cup (rows \ said)])
           ELSE End(s)
        /\ UNCHANGED <<order, item, detail>>

Bought(s, i) ==
    [qty |-> IF item[i].ing \in DOMAIN seen[s].want
             THEN AtLeastZero(seen[s].want[item[i].ing]) ELSE 0,
     by |-> s]

\* The foreign key of a detail waits for a DELETE of its item and fails after it.
ConfirmCommit(s) ==
    LET o == seen[s].ord IN
        /\ pc[s] = "confirm.write"
        /\ \A i \in seen[s].todo : ~Removing(i, s)
        /\ IF \A i \in seen[s].todo : Live(i)
           THEN /\ detail' = [i \in Items |-> IF i \in seen[s].todo THEN Bought(s, i)
                                              ELSE detail[i]]
                /\ order' = [order EXCEPT ![o] = "completed"]
           ELSE UNCHANGED <<order, detail>>
        /\ End(s)
        /\ UNCHANGED item

\* A dead process, a lost connection or a victim of the deadlock detector: the
\* transaction is rolled back.
Crash(s) ==
    /\ pc[s] # "idle"
    /\ End(s)
    /\ UNCHANGED <<order, item, detail>>

(***************************************************************************)
(* The specification.                                                      *)
(***************************************************************************)
Init ==
    /\ order = [o \in Orders |-> "absent"]
    /\ item = [i \in Items |-> NoItem]
    /\ detail = [i \in Items |-> NoDetail]
    /\ pc = [s \in Sessions |-> "idle"]
    /\ seen = [s \in Sessions |-> NoSeen]

Request(s) ==
    \/ CreateOrder(s) \/ DeleteOrder(s)
    \/ EditCheck(s) \/ EditFind(s) \/ EditRemove(s) \/ EditReload(s) \/ EditUpdate(s)
    \/ EditReinsert(s) \/ EditInsert(s) \/ EditCommit(s)
    \/ StatusRead(s) \/ StatusReload(s) \/ StatusUpdate(s) \/ StatusInsert(s)
    \/ ConfirmLock(s) \/ ConfirmFind(s) \/ ConfirmCommit(s)
    \/ Crash(s)

Next == \E s \in Sessions : Request(s)

Spec == Init /\ [][Next]_vars

(***************************************************************************)
(* Properties.                                                             *)
(***************************************************************************)
EditPhases    == {"edit.find", "edit.remove", "edit.save", "edit.update", "edit.insert"}
ConfirmPhases == {"confirm.find", "confirm.write"}
Phases == {"idle", "status.save", "status.update", "status.insert"}
              \cup EditPhases \cup ConfirmPhases

ItemRecord == [state: {"absent", "live", "deleted"}, ord: Orders \cup {0},
               ing: Ingredients \cup {"none"}, qty: Int]
DetailRecord == [qty: Nat, by: Sessions \cup {Nobody}]
SeenRecord == [ord: Orders \cup {0}, st: Statuses \cup {"none"}, want: Requests \cup {<<>>},
               gone: SUBSET Items, todo: SUBSET Items, add: SUBSET Ingredients,
               cur: Items \cup {0}, held: SUBSET Items, back: SUBSET Items,
               new: SUBSET Ingredients]

\* Rows and session state have their types; what was bought is not negative.
TypeOK ==
    /\ order \in [Orders -> Statuses \cup {"absent", "deleted"}]
    /\ item \in [Items -> ItemRecord]
    /\ detail \in [Items -> DetailRecord]
    /\ pc \in [Sessions -> Phases]
    /\ seen \in [Sessions -> SeenRecord]

\* No item outlives its order and no detail its item, whatever edits, deletions
\* and confirmations run at once.
NoOrphans ==
    \A i \in Items : /\ Live(i) => item[i].ord \in Orders /\ Exists(item[i].ord)
                     /\ detail[i] # NoDetail => Live(i)

\* Confirmations of one order take turns, and its status stays pending until
\* the one that runs commits ("Serialize purchase confirmation per order").
OneConfirmation ==
    \A s \in Sessions : pc[s] \in ConfirmPhases =>
        /\ order[seen[s].ord] = "pending"
        /\ ~Confirming(seen[s].ord, s)

\* What was bought for an item is recorded once: the record goes only with its
\* item, and it is written over only by a confirmation that commits while the
\* order is pending and that completes it.  A client that asks for the status
\* pending (the schema takes it) can open a confirmed order again, and then a
\* new confirmation records again; nothing else does.
PurchaseStands ==
    [][\A i \in Items : detail[i] # NoDetail =>
          \/ detail'[i] = detail[i]
          \/ detail'[i] = NoDetail /\ ~Live(i)'
          \/ order[item[i].ord] = "pending" /\ order'[item[i].ord] = "completed"]_vars

(***************************************************************************)
(* What the repository says and the code does not do.                      *)
(***************************************************************************)

\* "Only pending orders can change status" (updateStatus).
OnlyPendingChanges ==
    [][\A o \in Orders : order[o] \in {"completed", "cancelled"}
          => order'[o] \in {order[o], "deleted"}]_vars

(***************************************************************************)
(* The inductive invariant behind TypeOK, NoOrphans, OneConfirmation and   *)
(* PurchaseStands.                                                         *)
(***************************************************************************)
SavePhases == {"edit.save", "edit.update", "edit.insert"}

\* A session that is at work has an order that was created, and what its
\* endpoint asks for.
Asked(s) ==
    /\ pc[s] # "idle" => seen[s].ord \in Orders /\ order[seen[s].ord] # "absent"
    /\ pc[s] \in {"status.save", "status.update", "status.insert"} => seen[s].st \in StatusInputs
    /\ pc[s] \in EditPhases \cup ConfirmPhases => seen[s].want \in Requests

\* Rows it has in hand are rows of its order; those it will write have a
\* quantity in its request.
InHand(s) ==
    /\ \A i \in seen[s].todo \cup seen[s].back \cup (seen[s].held \ seen[s].gone) :
           item[i].state # "absent" /\ item[i].ord = seen[s].ord
    /\ pc[s] \in EditPhases =>
          /\ \A i \in seen[s].todo \cup seen[s].back \cup (seen[s].held \ seen[s].gone) :
                 item[i].ing \in DOMAIN seen[s].want
          /\ seen[s].add \cup seen[s].new \subseteq DOMAIN seen[s].want
    /\ pc[s] \in {"edit.update", "edit.insert"} =>
          /\ seen[s].cur \in Items
          /\ item[seen[s].cur].state # "absent" /\ item[seen[s].cur].ord = seen[s].ord
          /\ item[seen[s].cur].ing \in DOMAIN seen[s].want

\* What it has written is locked: nobody else writes those items, they stay, and
\* so does the order of those that it inserted.
Protected(s) ==
    /\ pc[s] \notin SavePhases => seen[s].held \cup seen[s].back = {} /\ seen[s].new = {}
    /\ \A i \in seen[s].held : Live(i) /\ ~Written(i, s)
    /\ seen[s].new # {} \/ seen[s].back # {} => Exists(seen[s].ord)

Facts(s) == Asked(s) /\ InHand(s) /\ Protected(s)

IInv == TypeOK /\ NoOrphans /\ OneConfirmation /\ \A s \in Sessions : Facts(s)
=============================================================================

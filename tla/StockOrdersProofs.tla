------------------------- MODULE StockOrdersProofs -------------------------
(***************************************************************************)
(* Theorems about StockOrders for any number of orders, items, ingredients *)
(* and sessions.                                                           *)
(***************************************************************************)
EXTENDS StockOrders, TLAPS

\* The session state that says nothing has the type of session state.
LEMMA NoSeenType == NoSeen \in SeenRecord
BY DEF NoSeen, SeenRecord

LEMMA NoSeenEmpty ==
    /\ NoSeen.held = {} /\ NoSeen.back = {} /\ NoSeen.new = {}
    /\ NoSeen.todo = {} /\ NoSeen.add = {} /\ NoSeen.gone = {}
BY DEF NoSeen

\* One session steps at a time.
LEMMA OneSteps ==
    ASSUME TypeOK, NEW s \in Sessions, Request(s), NEW x \in Sessions, x # s
    PROVE  pc'[x] = pc[x] /\ seen'[x] = seen[x]
<1> USE DEF Begin, Advance, End
<1>1. CASE CreateOrder(s) \/ DeleteOrder(s) \/ ConfirmLock(s) \/ ConfirmFind(s) \/ ConfirmCommit(s)
           \/ Crash(s)
  BY <1>1 DEF CreateOrder, DeleteOrder, ConfirmLock, ConfirmFind, ConfirmCommit, Crash, TypeOK
<1>2. CASE EditCheck(s) \/ EditFind(s) \/ EditRemove(s) \/ EditReload(s)
  BY <1>2 DEF EditCheck, EditFind, EditRemove, EditReload, TypeOK
<1>3. CASE EditUpdate(s) \/ EditReinsert(s) \/ EditInsert(s) \/ EditCommit(s)
  BY <1>3 DEF EditUpdate, EditReinsert, EditInsert, EditCommit, TypeOK
<1>4. CASE StatusRead(s) \/ StatusReload(s) \/ StatusUpdate(s) \/ StatusInsert(s)
  BY <1>4 DEF StatusRead, StatusReload, StatusUpdate, StatusInsert, TypeOK
<1> QED
  BY <1>1, <1>2, <1>3, <1>4 DEF Request
-----------------------------------------------------------------------------
(***************************************************************************)
(* Types.                                                                  *)
(***************************************************************************)
\* New rows take fresh ids.
LEMMA InsertedRows ==
    ASSUME NEW ings, NEW f \in NewRows(ings), NEW o, NEW want, NEW i \in Items
    PROVE  \/ Inserted(f, o, want)[i] = item[i]
           \/ \E g \in ings : /\ Fresh(i) /\ f[g] = i
                              /\ Inserted(f, o, want)[i] =
                                    [state |-> "live", ord |-> o, ing |-> g, qty |-> want[g]]
<1>1. f \in [ings -> Items] /\ DOMAIN f = ings /\ \A g \in ings : Fresh(f[g])
  BY DEF NewRows
<1>2. CASE \E g \in ings : f[g] = i
  <2> DEFINE g == CHOOSE g \in DOMAIN f : f[g] = i
  <2>1. g \in ings /\ f[g] = i
    BY <1>1, <1>2
  <2>2. Inserted(f, o, want)[i] = [state |-> "live", ord |-> o, ing |-> g, qty |-> want[g]]
    BY <1>1, <1>2, Zenon DEF Inserted
  <2> QED
    BY <1>1, <2>1, <2>2
<1>3. CASE ~\E g \in ings : f[g] = i
  BY <1>1, <1>3, Zenon DEF Inserted
<1> QED
  BY <1>2, <1>3

LEMMA InsertedOthers ==
    ASSUME NEW ings, NEW f \in NewRows(ings), NEW o, NEW want, NEW i \in Items, ~Fresh(i)
    PROVE  Inserted(f, o, want)[i] = item[i]
<1>1. DOMAIN f = ings /\ \A g \in ings : Fresh(f[g])
  BY DEF NewRows
<1>2. ~\E g \in DOMAIN f : f[g] = i
  BY <1>1
<1> QED
  BY <1>2, Zenon DEF Inserted

LEMMA RequestQuantity ==
    ASSUME NEW want \in Requests, NEW g \in DOMAIN want
    PROVE  want[g] \in Int /\ g \in Ingredients
BY StockInputs DEF Requests

LEMMA InsertedType ==
    ASSUME TypeOK, NEW want \in Requests, NEW ings \in SUBSET DOMAIN want,
           NEW f \in NewRows(ings), NEW o \in Orders
    PROVE  Inserted(f, o, want) \in [Items -> ItemRecord]
<1>1. SUFFICES ASSUME NEW i \in Items PROVE Inserted(f, o, want)[i] \in ItemRecord
  BY DEF Inserted
<1>2. item[i] \in ItemRecord
  BY DEF TypeOK
<1>3. ASSUME NEW g \in ings
      PROVE  [state |-> "live", ord |-> o, ing |-> g, qty |-> want[g]] \in ItemRecord
  BY <1>3, RequestQuantity DEF ItemRecord
<1>4. \/ Inserted(f, o, want)[i] = item[i]
      \/ \E g \in ings : Inserted(f, o, want)[i] =
                            [state |-> "live", ord |-> o, ing |-> g, qty |-> want[g]]
  BY InsertedRows
<1> QED
  BY <1>2, <1>3, <1>4

\* A row that has been written keeps its type.
LEMMA EditedType ==
    ASSUME IInv, NEW s \in Sessions, pc[s] = "edit.save", NEW f \in NewRows(seen[s].new)
    PROVE  Edited(s, f) \in [Items -> ItemRecord]
<1> DEFINE o == seen[s].ord
           want == seen[s].want
<1>1. o \in Orders /\ want \in Requests /\ seen[s].new \subseteq DOMAIN want
  BY DEF IInv, Facts, Asked, InHand, EditPhases
<1>2. Inserted(f, o, want) \in [Items -> ItemRecord]
  BY <1>1, InsertedType DEF IInv
<1>3. SUFFICES ASSUME NEW i \in Items PROVE Edited(s, f)[i] \in ItemRecord
  BY DEF Edited
<1>4. item[i] \in ItemRecord
  BY DEF IInv, TypeOK
<1>5. CASE i \in seen[s].held \cap seen[s].gone
  BY <1>4, <1>5 DEF Edited, ItemRecord
<1>6. CASE i \in (seen[s].held \cup seen[s].back) /\ i \notin seen[s].held \cap seen[s].gone
  <2>1. item[i].ing \in DOMAIN want
    BY <1>6 DEF IInv, Facts, InHand, EditPhases
  <2>2. want[item[i].ing] \in Int
    BY <1>1, <2>1, RequestQuantity
  <2>3. Edited(s, f)[i] = [item[i] EXCEPT !.state = "live", !.qty = want[item[i].ing]]
    BY <1>6 DEF Edited
  <2> QED
    BY <1>4, <2>2, <2>3 DEF ItemRecord
<1>7. CASE i \notin seen[s].held \cup seen[s].back
  BY <1>2, <1>7 DEF Edited
<1> QED
  BY <1>5, <1>6, <1>7

LEMMA TypeNext ==
    ASSUME IInv, NEW s \in Sessions, Request(s)
    PROVE  TypeOK'
<1> USE DEF Begin, Advance, End
<1>t. TypeOK
  BY DEF IInv
<1>e. ASSUME NEW next \in Phases, NEW r \in SeenRecord,
             pc' = [pc EXCEPT ![s] = next], seen' = [seen EXCEPT ![s] = r]
      PROVE  pc' \in [Sessions -> Phases] /\ seen' \in [Sessions -> SeenRecord]
  BY <1>t, <1>e DEF TypeOK
<1>i. "idle" \in Phases
  BY DEF Phases
<1>r. seen[s] \in SeenRecord
  BY <1>t DEF TypeOK
<1>1. CASE CreateOrder(s)
  <2>0. PICK o \in Orders, want \in Payloads : \E f \in NewRows(DOMAIN want) :
            /\ order' = [order EXCEPT ![o] = "pending"]
            /\ item' = Inserted(f, o, want)
            /\ UNCHANGED <<detail, pc, seen>>
    BY <1>1 DEF CreateOrder
  <2>1. PICK f \in NewRows(DOMAIN want) :
            /\ order' = [order EXCEPT ![o] = "pending"]
            /\ item' = Inserted(f, o, want)
            /\ UNCHANGED <<detail, pc, seen>>
    BY <2>0
  <2>2. want \in Requests
    BY DEF Payloads
  <2>3. item' \in [Items -> ItemRecord]
    BY <1>t, <2>1, <2>2, InsertedType
  <2> QED
    BY <1>t, <2>1, <2>3 DEF TypeOK, Statuses
<1>2. CASE DeleteOrder(s)
  <2>1. PICK o \in Orders :
            /\ order' = [order EXCEPT ![o] = "deleted"]
            /\ item' = [i \in Items |-> IF i \in Rows(o) THEN [item[i] EXCEPT !.state = "deleted"]
                                        ELSE item[i]]
            /\ detail' = [i \in Items |-> IF i \in Rows(o) THEN NoDetail ELSE detail[i]]
            /\ UNCHANGED <<pc, seen>>
    BY <1>2 DEF DeleteOrder
  <2>2. item' \in [Items -> ItemRecord]
    BY <1>t, <2>1 DEF TypeOK, ItemRecord
  <2>3. detail' \in [Items -> DetailRecord]
    BY <1>t, <2>1 DEF TypeOK, DetailRecord, NoDetail
  <2> QED
    BY <1>t, <2>1, <2>2, <2>3 DEF TypeOK
<1>3. CASE EditCheck(s)
  <2>1. PICK o \in Orders, want \in Payloads :
            /\ Begin(s, "edit.find", [NoSeen EXCEPT !.ord = o, !.want = want])
            /\ UNCHANGED <<order, item, detail>>
    BY <1>3 DEF EditCheck
  <2>2. [NoSeen EXCEPT !.ord = o, !.want = want] \in SeenRecord
    BY DEF Payloads, NoSeen, SeenRecord
  <2>3. "edit.find" \in Phases
    BY DEF Phases, EditPhases
  <2> QED
    BY <1>t, <1>e, <2>1, <2>2, <2>3 DEF TypeOK
<1>4. CASE EditFind(s)
  <2> DEFINE rows == Rows(seen[s].ord)
             want == seen[s].want
  <2>1. PICK T \in FirstRows({i \in rows : item[i].ing \in DOMAIN want}) :
            /\ pc[s] = "edit.find"
            /\ Advance(s, "edit.remove",
                  [seen[s] EXCEPT !.gone = {i \in rows : item[i].ing \notin DOMAIN want},
                                  !.todo = {i \in T : item[i].qty # want[item[i].ing]},
                                  !.add = DOMAIN want \ IngredientsOf(rows)])
            /\ UNCHANGED <<order, item, detail>>
    BY <1>4 DEF EditFind
  <2>2. T \in SUBSET Items
    BY DEF FirstRows, Rows
  <2>3. DOMAIN want \in SUBSET Ingredients
    BY <2>1 DEF IInv, Facts, Asked, EditPhases, Requests
  <2>4. [seen[s] EXCEPT !.gone = {i \in rows : item[i].ing \notin DOMAIN want},
                        !.todo = {i \in T : item[i].qty # want[item[i].ing]},
                        !.add = DOMAIN want \ IngredientsOf(rows)] \in SeenRecord
    BY <1>r, <2>2, <2>3 DEF SeenRecord, Rows
  <2>5. "edit.remove" \in Phases
    BY DEF Phases, EditPhases
  <2> QED
    BY <1>t, <1>e, <2>1, <2>4, <2>5 DEF TypeOK
<1>5. CASE EditRemove(s)
  <2>1. [seen[s] EXCEPT !.held = {i \in seen[s].gone : Live(i)}] \in SeenRecord
    BY <1>r DEF SeenRecord
  <2>2. "edit.save" \in Phases
    BY DEF Phases, EditPhases
  <2> QED
    BY <1>t, <1>e, <1>5, <2>1, <2>2 DEF TypeOK, EditRemove
<1>6. CASE EditReload(s)
  <2>1. PICK i \in seen[s].todo :
            LET rest == [seen[s] EXCEPT !.todo = @ \ {i}] IN
            /\ \/ Advance(s, "edit.save", rest)
               \/ Advance(s, "edit.update", [rest EXCEPT !.cur = i])
               \/ Advance(s, "edit.insert", [rest EXCEPT !.cur = i])
            /\ UNCHANGED <<order, item, detail>>
    BY <1>6 DEF EditReload
  <2>2. [seen[s] EXCEPT !.todo = @ \ {i}] \in SeenRecord /\ i \in Items
    BY <1>r DEF SeenRecord
  <2>3. [[seen[s] EXCEPT !.todo = @ \ {i}] EXCEPT !.cur = i] \in SeenRecord
    BY <2>2 DEF SeenRecord
  <2>4. {"edit.save", "edit.update", "edit.insert"} \subseteq Phases
    BY DEF Phases, EditPhases
  <2> QED
    BY <1>t, <1>e, <2>1, <2>2, <2>3, <2>4 DEF TypeOK
<1>7. CASE EditUpdate(s)
  <2>1. [seen[s] EXCEPT !.held = @ \cup {i \in {seen[s].cur} : Live(i)}, !.cur = 0] \in SeenRecord
    <3>1. pc[s] = "edit.update" => seen[s].cur \in Items
      BY DEF IInv, Facts, InHand
    <3> QED
      BY <1>7, <1>r, <3>1 DEF SeenRecord, EditUpdate
  <2>2. "edit.save" \in Phases
    BY DEF Phases, EditPhases
  <2> QED
    BY <1>t, <1>e, <1>7, <2>1, <2>2 DEF TypeOK, EditUpdate
<1>8. CASE EditReinsert(s)
  <2>1. [seen[s] EXCEPT !.back = @ \cup {seen[s].cur}, !.cur = 0] \in SeenRecord
    <3>1. pc[s] = "edit.insert" => seen[s].cur \in Items
      BY DEF IInv, Facts, InHand
    <3> QED
      BY <1>8, <1>r, <3>1 DEF SeenRecord, EditReinsert
  <2>2. "edit.save" \in Phases
    BY DEF Phases, EditPhases
  <2> QED
    BY <1>t, <1>e, <1>i, <1>8, <2>1, <2>2, NoSeenType DEF TypeOK, EditReinsert
<1>9. CASE EditInsert(s)
  <2>1. PICK g \in seen[s].add :
            /\ \/ Advance(s, "edit.save", [seen[s] EXCEPT !.add = @ \ {g}, !.new = @ \cup {g}])
               \/ End(s)
            /\ UNCHANGED <<order, item, detail>>
    BY <1>9 DEF EditInsert
  <2>2. [seen[s] EXCEPT !.add = @ \ {g}, !.new = @ \cup {g}] \in SeenRecord
    BY <1>r DEF SeenRecord
  <2>3. "edit.save" \in Phases
    BY DEF Phases, EditPhases
  <2> QED
    BY <1>t, <1>e, <1>i, <2>1, <2>2, <2>3, NoSeenType DEF TypeOK
<1>10. CASE EditCommit(s)
  <2>1. PICK f \in NewRows(seen[s].new) :
            /\ pc[s] = "edit.save"
            /\ item' = Edited(s, f)
            /\ detail' = [i \in Items |-> IF i \in seen[s].held \cap seen[s].gone THEN NoDetail
                                          ELSE detail[i]]
            /\ End(s)
            /\ UNCHANGED order
    BY <1>10 DEF EditCommit
  <2>2. item' \in [Items -> ItemRecord]
    BY <2>1, EditedType
  <2>3. detail' \in [Items -> DetailRecord]
    BY <1>t, <2>1 DEF TypeOK, DetailRecord, NoDetail
  <2> QED
    BY <1>t, <1>e, <1>i, <2>1, <2>2, <2>3, NoSeenType DEF TypeOK
<1>11. CASE StatusRead(s)
  <2>1. PICK o \in Orders, st \in StatusInputs :
            /\ Begin(s, "status.save", [NoSeen EXCEPT !.ord = o, !.st = st])
            /\ UNCHANGED <<order, item, detail>>
    BY <1>11 DEF StatusRead
  <2>2. [NoSeen EXCEPT !.ord = o, !.st = st] \in SeenRecord
    BY StockInputs DEF Statuses, NoSeen, SeenRecord
  <2>3. "status.save" \in Phases
    BY DEF Phases
  <2> QED
    BY <1>t, <1>e, <2>1, <2>2, <2>3 DEF TypeOK
<1>12. CASE StatusReload(s)
  <2>1. {"status.insert", "status.update"} \subseteq Phases
    BY DEF Phases
  <2> QED
    BY <1>t, <1>e, <1>i, <1>r, <1>12, <2>1, NoSeenType DEF TypeOK, StatusReload
<1>13. CASE StatusUpdate(s) \/ StatusInsert(s)
  <2>1. pc[s] \in {"status.update", "status.insert"}
    BY <1>13 DEF StatusUpdate, StatusInsert
  <2>2. seen[s].st \in Statuses
    BY <2>1, StockInputs DEF IInv, Facts, Asked, Statuses
  <2>3. order' \in [Orders -> Statuses \cup {"absent", "deleted"}]
    BY <1>t, <1>13, <2>2 DEF StatusUpdate, StatusInsert, TypeOK
  <2> QED
    BY <1>t, <1>e, <1>i, <1>13, <2>3, NoSeenType DEF TypeOK, StatusUpdate, StatusInsert
<1>14. CASE ConfirmLock(s)
  <2>1. PICK o \in Orders, bought \in Requests :
            /\ Begin(s, "confirm.find", [NoSeen EXCEPT !.ord = o, !.want = bought])
            /\ UNCHANGED <<order, item, detail>>
    BY <1>14 DEF ConfirmLock
  <2>2. [NoSeen EXCEPT !.ord = o, !.want = bought] \in SeenRecord
    BY DEF NoSeen, SeenRecord
  <2>3. "confirm.find" \in Phases
    BY DEF Phases, ConfirmPhases
  <2> QED
    BY <1>t, <1>e, <2>1, <2>2, <2>3 DEF TypeOK
<1>15. CASE ConfirmFind(s)
  <2> DEFINE rows == Rows(seen[s].ord)
             said == {i \in rows : item[i].ing \in DOMAIN seen[s].want}
  <2>1. /\ \/ \E T \in FirstRows(said) :
                  Advance(s, "confirm.write", [seen[s] EXCEPT !.todo = T \cup (rows \ said)])
           \/ End(s)
        /\ UNCHANGED <<order, item, detail>>
    BY <1>15 DEF ConfirmFind
  <2>2. ASSUME NEW T \in FirstRows(said)
        PROVE  [seen[s] EXCEPT !.todo = T \cup (rows \ said)] \in SeenRecord
    BY <1>r DEF SeenRecord, FirstRows, Rows
  <2>3. "confirm.write" \in Phases
    BY DEF Phases, ConfirmPhases
  <2>4. pc' \in [Sessions -> Phases] /\ seen' \in [Sessions -> SeenRecord]
    BY <1>e, <1>i, <2>1, <2>2, <2>3, NoSeenType
  <2> QED
    BY <1>t, <2>1, <2>4 DEF TypeOK
<1>16. CASE ConfirmCommit(s)
  <2>1. /\ \/ /\ detail' = [i \in Items |-> IF i \in seen[s].todo THEN Bought(s, i) ELSE detail[i]]
              /\ order' = [order EXCEPT ![seen[s].ord] = "completed"]
           \/ UNCHANGED <<order, detail>>
        /\ pc[s] = "confirm.write" /\ End(s) /\ UNCHANGED item
    BY <1>16 DEF ConfirmCommit
  <2>2. seen[s].want \in Requests
    BY <2>1 DEF IInv, Facts, Asked, ConfirmPhases
  <2>3. ASSUME NEW i \in Items PROVE Bought(s, i) \in DetailRecord
    <3>1. CASE item[i].ing \in DOMAIN seen[s].want
      BY <2>2, <3>1, RequestQuantity DEF Bought, AtLeastZero, DetailRecord
    <3>2. CASE item[i].ing \notin DOMAIN seen[s].want
      BY <3>2 DEF Bought, DetailRecord
    <3> QED
      BY <3>1, <3>2
  <2>4. detail' \in [Items -> DetailRecord] /\ order' \in [Orders -> Statuses \cup {"absent", "deleted"}]
    BY <1>t, <2>1, <2>3 DEF TypeOK, Statuses
  <2> QED
    BY <1>t, <1>e, <1>i, <2>1, <2>4, NoSeenType DEF TypeOK
<1>17. CASE Crash(s)
  BY <1>t, <1>e, <1>i, <1>17, NoSeenType DEF TypeOK, Crash
<1> QED
  BY <1>1, <1>2, <1>3, <1>4, <1>5, <1>6, <1>7, <1>8, <1>9, <1>10, <1>11, <1>12, <1>13, <1>14, <1>15,
     <1>16, <1>17 DEF Request
-----------------------------------------------------------------------------
(***************************************************************************)
(* What a step does to rows.                                               *)
(***************************************************************************)
\* A row that was ever inserted keeps its order and ingredient.
LEMMA RowsStay ==
    ASSUME IInv, NEW s \in Sessions, Request(s), NEW i \in Items, item[i].state # "absent"
    PROVE  item'[i].state # "absent" /\ item'[i].ord = item[i].ord /\ item'[i].ing = item[i].ing
<1>t. item \in [Items -> ItemRecord] /\ ~Fresh(i)
  BY DEF IInv, TypeOK, Fresh, NoItem
<1>1. CASE CreateOrder(s)
  <2>1. PICK o \in Orders, want \in Payloads : \E f \in NewRows(DOMAIN want) :
            item' = Inserted(f, o, want)
    BY <1>1 DEF CreateOrder
  <2>2. PICK f \in NewRows(DOMAIN want) : item' = Inserted(f, o, want)
    BY <2>1
  <2>3. Inserted(f, o, want)[i] = item[i]
    BY <1>t, InsertedOthers
  <2> QED
    BY <2>2, <2>3
<1>2. CASE EditCommit(s)
  <2>1. PICK f \in NewRows(seen[s].new) : item' = Edited(s, f)
    BY <1>2 DEF EditCommit
  <2>2. Inserted(f, seen[s].ord, seen[s].want)[i] = item[i]
    BY <1>t, InsertedOthers
  <2> QED
    BY <1>t, <2>1, <2>2 DEF Edited, ItemRecord
<1>3. CASE DeleteOrder(s)
  BY <1>t, <1>3 DEF DeleteOrder, ItemRecord
<1>4. CASE UNCHANGED item
  BY <1>4
<1>5. CASE \/ EditCheck(s) \/ EditFind(s) \/ EditRemove(s) \/ EditReload(s) \/ EditUpdate(s)
           \/ EditReinsert(s) \/ EditInsert(s)
  BY <1>4, <1>5 DEF EditCheck, EditFind, EditRemove, EditReload, EditUpdate, EditReinsert, EditInsert
<1>6. CASE \/ StatusRead(s) \/ StatusReload(s) \/ StatusUpdate(s) \/ StatusInsert(s)
           \/ ConfirmLock(s) \/ ConfirmFind(s) \/ ConfirmCommit(s) \/ Crash(s)
  BY <1>4, <1>6 DEF StatusRead, StatusReload, StatusUpdate, StatusInsert, ConfirmLock, ConfirmFind,
    ConfirmCommit, Crash
<1> QED
  BY <1>1, <1>2, <1>3, <1>5, <1>6 DEF Request

\* The orders change by their creation, their deletion, a status or a confirmation.
LEMMA OrderSteps ==
    ASSUME NEW s \in Sessions, Request(s)
    PROVE  \/ CreateOrder(s) \/ DeleteOrder(s) \/ StatusUpdate(s) \/ StatusInsert(s)
           \/ ConfirmCommit(s) \/ UNCHANGED order
<1>1. CASE \/ EditCheck(s) \/ EditFind(s) \/ EditRemove(s) \/ EditReload(s) \/ EditUpdate(s)
           \/ EditReinsert(s) \/ EditInsert(s) \/ EditCommit(s)
  BY <1>1 DEF EditCheck, EditFind, EditRemove, EditReload, EditUpdate, EditReinsert, EditInsert,
    EditCommit
<1>2. CASE StatusRead(s) \/ StatusReload(s) \/ ConfirmLock(s) \/ ConfirmFind(s) \/ Crash(s)
  BY <1>2 DEF StatusRead, StatusReload, ConfirmLock, ConfirmFind, Crash
<1> QED
  BY <1>1, <1>2 DEF Request

\* A session in a status phase asks for a status of the enum.
LEMMA StatusAsked ==
    ASSUME IInv, NEW s \in Sessions, StatusUpdate(s) \/ StatusInsert(s)
    PROVE  seen[s].st \in StatusInputs /\ seen[s].st \in Statuses
BY StockInputs DEF IInv, Facts, Asked, Statuses, StatusUpdate, StatusInsert

\* A deleted order can come back, an order is never as if it had not been.
LEMMA OrderStays ==
    ASSUME IInv, NEW s \in Sessions, Request(s), NEW o \in Orders, order[o] # "absent"
    PROVE  order'[o] # "absent"
<1>t. order \in [Orders -> Statuses \cup {"absent", "deleted"}]
  BY DEF IInv, TypeOK
<1>1. CASE CreateOrder(s)
  BY <1>t, <1>1 DEF CreateOrder
<1>2. CASE DeleteOrder(s)
  BY <1>t, <1>2 DEF DeleteOrder
<1>3. CASE StatusUpdate(s) \/ StatusInsert(s)
  <2>1. seen[s].st # "absent"
    BY <1>3, StatusAsked DEF Statuses
  <2> QED
    BY <1>t, <1>3, <2>1 DEF StatusUpdate, StatusInsert
<1>4. CASE ConfirmCommit(s)
  BY <1>t, <1>4 DEF ConfirmCommit
<1> QED
  BY <1>1, <1>2, <1>3, <1>4, OrderSteps

\* An order goes only by its deletion.
LEMMA ExistsUnlessDeleted ==
    ASSUME IInv, NEW s \in Sessions, Request(s), NEW o \in Orders, Exists(o), ~DeleteOrder(s)
    PROVE  order'[o] \in Statuses
<1>t. order \in [Orders -> Statuses \cup {"absent", "deleted"}] /\ order[o] \in Statuses
  BY DEF IInv, TypeOK, Exists
<1>1. CASE CreateOrder(s)
  BY <1>t, <1>1 DEF CreateOrder, Statuses
<1>3. CASE StatusUpdate(s) \/ StatusInsert(s)
  <2>1. seen[s].st \in Statuses
    BY <1>3, StatusAsked
  <2> QED
    BY <1>t, <1>3, <2>1 DEF StatusUpdate, StatusInsert
<1>4. CASE ConfirmCommit(s)
  BY <1>t, <1>4 DEF ConfirmCommit, Statuses
<1> QED
  BY <1>t, <1>1, <1>3, <1>4, OrderSteps

\* A row that another session has written does not go.
LEMMA LiveStays ==
    ASSUME IInv, NEW s \in Sessions, Request(s), NEW x \in Sessions, x # s,
           NEW i \in Items, i \in seen[x].held
    PROVE  item'[i].state = "live"
<1>t. item \in [Items -> ItemRecord] /\ item[i].state = "live"
  BY DEF IInv, TypeOK, Facts, Protected, Live
<1>f. ~Fresh(i) /\ ~Written(i, x)
  BY <1>t DEF Fresh, NoItem, IInv, Facts, Protected
<1>w. i \notin seen[s].held
  BY <1>f DEF Written
<1>1. CASE CreateOrder(s)
  <2>1. PICK o \in Orders, want \in Payloads : \E f \in NewRows(DOMAIN want) :
            item' = Inserted(f, o, want)
    BY <1>1 DEF CreateOrder
  <2>2. PICK f \in NewRows(DOMAIN want) : item' = Inserted(f, o, want)
    BY <2>1
  <2>3. Inserted(f, o, want)[i] = item[i]
    BY <1>f, InsertedOthers
  <2> QED
    BY <1>t, <2>2, <2>3
<1>2. CASE EditCommit(s)
  <2>1. PICK f \in NewRows(seen[s].new) : item' = Edited(s, f)
    BY <1>2 DEF EditCommit
  <2>2. Inserted(f, seen[s].ord, seen[s].want)[i] = item[i]
    BY <1>f, InsertedOthers
  <2> QED
    BY <1>t, <1>w, <2>1, <2>2 DEF Edited, ItemRecord
<1>3. CASE DeleteOrder(s)
  <2>1. Written(i, s)
    BY DEF Written
  <2> QED
    BY <1>t, <1>3, <2>1 DEF DeleteOrder
<1>5. CASE \/ EditCheck(s) \/ EditFind(s) \/ EditRemove(s) \/ EditReload(s) \/ EditUpdate(s)
           \/ EditReinsert(s) \/ EditInsert(s)
  BY <1>t, <1>5 DEF EditCheck, EditFind, EditRemove, EditReload, EditUpdate, EditReinsert, EditInsert
<1>6. CASE \/ StatusRead(s) \/ StatusReload(s) \/ StatusUpdate(s) \/ StatusInsert(s)
           \/ ConfirmLock(s) \/ ConfirmFind(s) \/ ConfirmCommit(s) \/ Crash(s)
  BY <1>t, <1>6 DEF StatusRead, StatusReload, StatusUpdate, StatusInsert, ConfirmLock, ConfirmFind,
    ConfirmCommit, Crash
<1> QED
  BY <1>1, <1>2, <1>3, <1>5, <1>6 DEF Request

\* A session writes no row that another one has written.
LEMMA WritesApart ==
    ASSUME IInv, NEW s \in Sessions, Request(s),
           NEW i \in seen'[s].held \cup seen'[s].back
    PROVE  i \in seen[s].held \cup seen[s].back \/ ~Written(i, s)
<1> USE DEF Begin, Advance, End
<1>t. seen \in [Sessions -> SeenRecord]
  BY DEF IInv, TypeOK
<1>1. CASE \/ CreateOrder(s) \/ DeleteOrder(s) \/ EditCommit(s) \/ StatusReload(s)
           \/ StatusUpdate(s) \/ StatusInsert(s) \/ ConfirmCommit(s) \/ Crash(s)
  <2>1. seen'[s] \in {seen[s], NoSeen}
    BY <1>t, <1>1 DEF CreateOrder, DeleteOrder, EditCommit, StatusReload, StatusUpdate,
      StatusInsert, ConfirmCommit, Crash
  <2> QED
    BY <2>1, NoSeenEmpty
<1>9. CASE EditCheck(s) \/ StatusRead(s) \/ ConfirmLock(s)
  <2>1. seen'[s].held = {} /\ seen'[s].back = {}
    BY <1>t, <1>9 DEF EditCheck, StatusRead, ConfirmLock, NoSeen
  <2> QED
    BY <2>1
<1>2. CASE EditFind(s)
  BY <1>t, NoSeenEmpty, <1>2 DEF EditFind, SeenRecord
<1>3. CASE EditRemove(s)
  BY <1>t, NoSeenEmpty, <1>3 DEF EditRemove, SeenRecord
<1>r. seen[s] \in SeenRecord
  BY <1>t
<1>4. CASE EditReload(s)
  <2>1. PICK j \in seen[s].todo :
            \/ seen' = [seen EXCEPT ![s] = [seen[s] EXCEPT !.todo = @ \ {j}]]
            \/ seen' = [seen EXCEPT ![s] = [[seen[s] EXCEPT !.todo = @ \ {j}] EXCEPT !.cur = j]]
    BY <1>4 DEF EditReload
  <2>2. seen'[s].held = seen[s].held /\ seen'[s].back = seen[s].back
    BY <1>t, <1>r, <2>1 DEF SeenRecord
  <2> QED
    BY <2>2
<1>5. CASE EditUpdate(s)
  BY <1>t, <1>5 DEF EditUpdate, SeenRecord
<1>6. CASE EditReinsert(s)
  <2>1. \/ seen' = [seen EXCEPT ![s] = [seen[s] EXCEPT !.back = @ \cup {seen[s].cur}, !.cur = 0]]
        \/ seen' = [seen EXCEPT ![s] = NoSeen]
    BY <1>6 DEF EditReinsert
  <2> DEFINE r == [seen[s] EXCEPT !.back = @ \cup {seen[s].cur}, !.cur = 0]
  <2>r. r.held = seen[s].held /\ r.back = seen[s].back \cup {seen[s].cur}
    BY <1>r DEF SeenRecord
  <2>2. seen'[s] \in {r, NoSeen}
    BY <1>t, <2>1
  <2>3. ~Written(seen[s].cur, s)
    BY <1>6 DEF EditReinsert
  <2> HIDE DEF r
  <2> QED
    BY <2>r, <2>2, <2>3, NoSeenEmpty
<1>7. CASE EditInsert(s)
  <2>1. PICK g \in seen[s].add :
            \/ seen' = [seen EXCEPT ![s] = [seen[s] EXCEPT !.add = @ \ {g}, !.new = @ \cup {g}]]
            \/ seen' = [seen EXCEPT ![s] = NoSeen]
    BY <1>7 DEF EditInsert
  <2>2. \/ seen'[s].held = seen[s].held /\ seen'[s].back = seen[s].back
        \/ seen'[s] = NoSeen
    BY <1>t, <1>r, <2>1 DEF SeenRecord
  <2> QED
    BY <2>2, NoSeenEmpty
<1>8. CASE ConfirmFind(s)
  <2>1. \/ \E T : seen' = [seen EXCEPT ![s] = [seen[s] EXCEPT !.todo = T]]
        \/ seen' = [seen EXCEPT ![s] = NoSeen]
    BY <1>8 DEF ConfirmFind
  <2>2. \/ seen'[s].held = seen[s].held /\ seen'[s].back = seen[s].back
        \/ seen'[s] = NoSeen
    BY <1>t, <1>r, <2>1 DEF SeenRecord
  <2> QED
    BY <2>2, NoSeenEmpty
<1> QED
  BY <1>1, <1>2, <1>3, <1>4, <1>5, <1>6, <1>7, <1>8, <1>9 DEF Request
-----------------------------------------------------------------------------
(***************************************************************************)
(* What a step does to the sessions' facts.                                *)
(***************************************************************************)
\* The rows that a session has in hand are items.
LEMMA HandType ==
    ASSUME TypeOK, NEW x \in Sessions
    PROVE  /\ seen[x] \in SeenRecord
           /\ seen[x].todo \subseteq Items /\ seen[x].back \subseteq Items
           /\ seen[x].held \subseteq Items
BY DEF TypeOK, SeenRecord

\* Rows stay what they are, so what was in hand stays in hand.
LEMMA InHandStays ==
    ASSUME IInv, NEW s \in Sessions, Request(s), NEW x \in Sessions,
           pc'[x] = pc[x], seen'[x] = seen[x]
    PROVE  InHand(x)'
<1> DEFINE hand == seen[x].todo \cup seen[x].back \cup (seen[x].held \ seen[x].gone)
<1>1. InHand(x) /\ hand \subseteq Items
  BY HandType DEF IInv, Facts
<1>2. ASSUME NEW i \in hand
      PROVE  /\ item'[i].state # "absent" /\ item'[i].ord = seen[x].ord
             /\ item'[i].ing = item[i].ing
  BY <1>1, <1>2, RowsStay DEF InHand
<1>3. ASSUME pc[x] \in {"edit.update", "edit.insert"}
      PROVE  /\ item'[seen[x].cur].state # "absent" /\ item'[seen[x].cur].ord = seen[x].ord
             /\ item'[seen[x].cur].ing = item[seen[x].cur].ing
  BY <1>1, <1>3, RowsStay DEF InHand
<1> QED
  BY <1>1, <1>2, <1>3 DEF InHand

LEMMA AskedStays ==
    ASSUME IInv, NEW s \in Sessions, Request(s), NEW x \in Sessions,
           pc'[x] = pc[x], seen'[x] = seen[x]
    PROVE  Asked(x)'
BY OrderStays DEF IInv, Facts, Asked

\* The locks of a session keep what they protect from all others.
LEMMA ProtectedStays ==
    ASSUME IInv, NEW s \in Sessions, Request(s), NEW x \in Sessions, x # s
    PROVE  Protected(x)'
<1>1. pc'[x] = pc[x] /\ seen'[x] = seen[x] /\ Protected(x) /\ Asked(x)
  BY OneSteps DEF IInv, Facts
<1>2. seen[x].held \subseteq Items
  BY HandType DEF IInv
<1>3. ASSUME NEW i \in seen[x].held PROVE item'[i].state = "live" /\ ~Written(i, x)'
  <2>1. item'[i].state = "live"
    BY <1>2, LiveStays
  <2>2. ASSUME NEW y \in Sessions \ {x}, i \in seen'[y].held \cup seen'[y].back
        PROVE  FALSE
    <3>1. ~Written(i, x)
      BY <1>1 DEF Protected
    <3>2. i \notin seen[y].held \cup seen[y].back
      BY <3>1 DEF Written
    <3>3. CASE y = s
      <4>1. ~Written(i, s)
        BY <2>2, <3>2, <3>3, WritesApart
      <4> QED
        BY <3>3, <4>1 DEF Written
    <3>4. CASE y # s
      BY <2>2, <3>2, <3>4, OneSteps DEF IInv
    <3> QED
      BY <3>3, <3>4
  <2> QED
    BY <2>1, <2>2 DEF Written
<1>4. ASSUME seen[x].new # {} \/ seen[x].back # {}
      PROVE  order'[seen[x].ord] \in Statuses
  <2>1. Exists(seen[x].ord) /\ pc[x] \in SavePhases
    BY <1>1, <1>4 DEF Protected
  <2>2. seen[x].ord \in Orders
    BY <1>1, <2>1 DEF Asked, SavePhases
  <2>3. CASE DeleteOrder(s)
    <3>1. PICK o \in Orders : ~Sharing(o, s) /\ order' = [order EXCEPT ![o] = "deleted"]
      BY <2>3 DEF DeleteOrder
    <3>2. o # seen[x].ord
      BY <1>4, <3>1 DEF Sharing
    <3> QED
      BY <2>1, <2>2, <3>1, <3>2 DEF Exists, IInv, TypeOK
  <2> QED
    BY <2>1, <2>2, <2>3, ExistsUnlessDeleted
<1> QED
  BY <1>1, <1>3, <1>4 DEF Protected, Live, Exists

LEMMA OtherFacts ==
    ASSUME IInv, NEW s \in Sessions, Request(s), NEW x \in Sessions, x # s
    PROVE  Facts(x)'
<1>1. pc'[x] = pc[x] /\ seen'[x] = seen[x]
  BY OneSteps DEF IInv
<1> QED
  BY <1>1, AskedStays, InHandStays, ProtectedStays DEF Facts

\* A session without a request has nothing in hand.
LEMMA IdleFacts ==
    ASSUME NEW s \in Sessions, pc'[s] = "idle", seen'[s] = NoSeen
    PROVE  Facts(s)'
BY NoSeenEmpty DEF Facts, Asked, InHand, Protected, EditPhases, ConfirmPhases, SavePhases

\* Nobody else's locks change with a step.
LEMMA WrittenStays ==
    ASSUME TypeOK, NEW s \in Sessions, Request(s), NEW i, ~Written(i, s)
    PROVE  ~Written(i, s)'
BY OneSteps DEF Written

LEMMA OwnFacts ==
    ASSUME IInv, NEW s \in Sessions, Request(s)
    PROVE  Facts(s)'
<1> USE DEF Begin, Advance, End
<1>t. TypeOK /\ seen \in [Sessions -> SeenRecord] /\ seen[s] \in SeenRecord /\ pc \in [Sessions -> Phases]
  BY DEF IInv, TypeOK
<1>f. Asked(s) /\ InHand(s) /\ Protected(s)
  BY DEF IInv, Facts
<1>h. seen[s].todo \subseteq Items /\ seen[s].back \subseteq Items /\ seen[s].held \subseteq Items
  BY <1>t, HandType
<1>a. ASSUME pc'[s] # "idle", seen'[s].ord = seen[s].ord, seen'[s].want = seen[s].want,
             pc[s] \in EditPhases \cup ConfirmPhases,
             pc'[s] \in EditPhases \cup ConfirmPhases
      PROVE  Asked(s)'
  <2>1. pc[s] # "idle" /\ pc'[s] \notin {"status.save", "status.update", "status.insert"}
    BY <1>a DEF EditPhases, ConfirmPhases
  <2> QED
    BY <1>a, <1>f, <2>1, OrderStays DEF Asked
<1>1. CASE CreateOrder(s) \/ DeleteOrder(s)
  <2>1. pc[s] = "idle" /\ pc' = pc /\ seen' = seen
    BY <1>1 DEF CreateOrder, DeleteOrder
  <2>2. Protected(s)'
    BY <1>f, <2>1 DEF Protected, SavePhases
  <2> QED
    BY <2>1, <2>2, AskedStays, InHandStays DEF Facts
<1>2. CASE EditCheck(s)
  <2>1. PICK o \in Orders, want \in Payloads :
            /\ order[o] = "pending" /\ order' = order
            /\ pc'[s] = "edit.find"
            /\ seen'[s] = [NoSeen EXCEPT !.ord = o, !.want = want]
    BY <1>t, <1>2 DEF EditCheck
  <2>2. /\ seen'[s].ord = o /\ seen'[s].want = want
        /\ seen'[s].todo = {} /\ seen'[s].back = {} /\ seen'[s].held = {}
        /\ seen'[s].new = {} /\ seen'[s].add = {}
    BY <2>1 DEF NoSeen
  <2>3. want \in Requests
    BY DEF Payloads
  <2> QED
    BY <2>1, <2>2, <2>3 DEF Facts, Asked, InHand, Protected, EditPhases, SavePhases
<1>3. CASE EditFind(s)
  <2> DEFINE rows == Rows(seen[s].ord)
             want == seen[s].want
  <2>1. PICK T \in FirstRows({i \in rows : item[i].ing \in DOMAIN want}) :
            /\ pc[s] = "edit.find" /\ pc'[s] = "edit.remove"
            /\ seen'[s] =
                  [seen[s] EXCEPT !.gone = {i \in rows : item[i].ing \notin DOMAIN want},
                                  !.todo = {i \in T : item[i].qty # want[item[i].ing]},
                                  !.add = DOMAIN want \ IngredientsOf(rows)]
            /\ order' = order /\ item' = item
    BY <1>t, <1>3 DEF EditFind
  <2>2. /\ seen'[s].ord = seen[s].ord /\ seen'[s].want = want
        /\ seen'[s].todo \subseteq T /\ seen'[s].add \subseteq DOMAIN want
        /\ seen'[s].back = seen[s].back /\ seen'[s].held = seen[s].held
        /\ seen'[s].new = seen[s].new
    BY <1>t, <2>1 DEF SeenRecord
  <2>3. seen[s].back = {} /\ seen[s].held = {} /\ seen[s].new = {}
    BY <1>f, <2>1 DEF Protected, SavePhases
  <2>4. \A i \in T : /\ item[i].state # "absent" /\ item[i].ord = seen[s].ord
                     /\ item[i].ing \in DOMAIN want
    BY DEF FirstRows, Rows, Live
  <2>5. Asked(s)'
    BY <1>a, <2>1, <2>2 DEF EditPhases
  <2>6. InHand(s)'
    BY <2>1, <2>2, <2>3, <2>4 DEF InHand
  <2>7. Protected(s)'
    BY <2>1, <2>2, <2>3 DEF Protected
  <2> QED
    BY <2>5, <2>6, <2>7 DEF Facts
<1>4. CASE EditRemove(s)
  <2> DEFINE dead == {i \in seen[s].gone : Live(i)}
  <2>1. /\ pc[s] = "edit.remove" /\ pc'[s] = "edit.save"
        /\ \A i \in seen[s].gone : ~Written(i, s)
        /\ seen'[s] = [seen[s] EXCEPT !.held = dead]
        /\ order' = order /\ item' = item
    BY <1>t, <1>4 DEF EditRemove
  <2>2. /\ seen'[s].ord = seen[s].ord /\ seen'[s].want = seen[s].want
        /\ seen'[s].todo = seen[s].todo /\ seen'[s].add = seen[s].add
        /\ seen'[s].back = seen[s].back /\ seen'[s].held = dead
        /\ seen'[s].gone = seen[s].gone /\ seen'[s].new = seen[s].new
    BY <1>t, <2>1 DEF SeenRecord
  <2>3. seen[s].back = {} /\ seen[s].new = {}
    BY <1>f, <2>1 DEF Protected, SavePhases
  <2>4. dead \subseteq seen[s].gone /\ \A i \in dead : item[i].state = "live" /\ ~Written(i, s)'
    BY <1>t, <2>1, WrittenStays DEF Live
  <2> HIDE DEF dead
  <2>5. Asked(s)'
    BY <1>a, <2>1, <2>2 DEF EditPhases
  <2>6. InHand(s)'
    BY <1>f, <2>1, <2>2, <2>3, <2>4 DEF InHand, EditPhases
  <2>7. Protected(s)'
    BY <2>1, <2>2, <2>3, <2>4 DEF Protected, SavePhases, Live
  <2> QED
    BY <2>5, <2>6, <2>7 DEF Facts
<1>5. CASE EditReload(s)
  <2>1. PICK i \in seen[s].todo :
            /\ \/ /\ seen' = [seen EXCEPT ![s] = [seen[s] EXCEPT !.todo = @ \ {i}]]
                  /\ pc'[s] = "edit.save"
               \/ /\ seen' = [seen EXCEPT ![s] = [[seen[s] EXCEPT !.todo = @ \ {i}] EXCEPT !.cur = i]]
                  /\ pc'[s] \in {"edit.update", "edit.insert"}
            /\ pc[s] = "edit.save" /\ order' = order /\ item' = item
    BY <1>t, <1>5 DEF EditReload
  <2> DEFINE rest == [seen[s] EXCEPT !.todo = @ \ {i}]
             r == [rest EXCEPT !.cur = i]
  <2>a. /\ rest.ord = seen[s].ord /\ rest.want = seen[s].want
        /\ rest.todo \subseteq seen[s].todo /\ rest.add = seen[s].add
        /\ rest.back = seen[s].back /\ rest.held = seen[s].held
        /\ rest.gone = seen[s].gone /\ rest.new = seen[s].new
        /\ rest \in SeenRecord
    BY <1>t DEF SeenRecord
  <2> HIDE DEF rest
  <2>b. /\ r.ord = rest.ord /\ r.want = rest.want /\ r.todo = rest.todo /\ r.add = rest.add
        /\ r.back = rest.back /\ r.held = rest.held /\ r.gone = rest.gone /\ r.new = rest.new
        /\ r.cur = i
    BY <2>a DEF SeenRecord
  <2>c. /\ seen'[s] \in {rest, r}
        /\ pc'[s] \in {"edit.update", "edit.insert"} => seen'[s] = r
    BY <1>t, <2>1 DEF rest
  <2> HIDE DEF r
  <2>2. /\ seen'[s].ord = seen[s].ord /\ seen'[s].want = seen[s].want
        /\ seen'[s].todo \subseteq seen[s].todo /\ seen'[s].add = seen[s].add
        /\ seen'[s].back = seen[s].back /\ seen'[s].held = seen[s].held
        /\ seen'[s].gone = seen[s].gone /\ seen'[s].new = seen[s].new
        /\ pc'[s] \in {"edit.update", "edit.insert"} => seen'[s].cur = i
    BY <2>a, <2>b, <2>c
  <2>3. /\ i \in Items /\ item[i].state # "absent" /\ item[i].ord = seen[s].ord
        /\ item[i].ing \in DOMAIN seen[s].want
    BY <1>f, <1>h, <2>1 DEF InHand, EditPhases
  <2>4. \A j \in seen[s].held : ~Written(j, s)'
    BY <1>f, <1>t, WrittenStays DEF Protected
  <2>5. Asked(s)'
    BY <1>a, <2>1, <2>2 DEF EditPhases
  <2>6. InHand(s)'
    BY <1>f, <2>1, <2>2, <2>3 DEF InHand, EditPhases
  <2>7. Protected(s)'
    BY <1>f, <2>1, <2>2, <2>4 DEF Protected, SavePhases, Live, Exists
  <2> QED
    BY <2>5, <2>6, <2>7 DEF Facts
<1>6. CASE EditUpdate(s)
  <2> DEFINE more == {i \in {seen[s].cur} : Live(i)}
             r == [seen[s] EXCEPT !.held = @ \cup more, !.cur = 0]
  <2>1. /\ pc[s] = "edit.update" /\ pc'[s] = "edit.save" /\ ~Written(seen[s].cur, s)
        /\ seen'[s] = r /\ order' = order /\ item' = item
    BY <1>t, <1>6 DEF EditUpdate
  <2>r. /\ r.ord = seen[s].ord /\ r.want = seen[s].want
        /\ r.todo = seen[s].todo /\ r.add = seen[s].add
        /\ r.back = seen[s].back /\ r.held = seen[s].held \cup more
        /\ r.gone = seen[s].gone /\ r.new = seen[s].new
    BY <1>t DEF SeenRecord
  <2>3. \A i \in more : /\ i = seen[s].cur /\ item[i].state = "live" /\ ~Written(i, s)'
                        /\ item[i].ord = seen[s].ord /\ item[i].ing \in DOMAIN seen[s].want
    BY <1>t, <1>f, <2>1, WrittenStays DEF Live, InHand
  <2>4. \A j \in seen[s].held : ~Written(j, s)'
    BY <1>f, <1>t, WrittenStays DEF Protected
  <2> HIDE DEF more, r
  <2>5. Asked(s)'
    BY <1>a, <2>1, <2>r DEF EditPhases
  <2>6. InHand(s)'
    BY <1>f, <2>1, <2>r, <2>3 DEF InHand, EditPhases
  <2>7. Protected(s)'
    BY <1>f, <2>1, <2>r, <2>3, <2>4 DEF Protected, SavePhases, Live, Exists
  <2> QED
    BY <2>5, <2>6, <2>7 DEF Facts
<1>7. CASE EditReinsert(s)
  <2> DEFINE r == [seen[s] EXCEPT !.back = @ \cup {seen[s].cur}, !.cur = 0]
  <2>1. /\ pc[s] = "edit.insert" /\ order' = order /\ item' = item
        /\ \/ pc'[s] = "edit.save" /\ seen'[s] = r /\ Exists(seen[s].ord)
           \/ pc'[s] = "idle" /\ seen'[s] = NoSeen
    BY <1>t, <1>7 DEF EditReinsert
  <2>r. /\ r.ord = seen[s].ord /\ r.want = seen[s].want
        /\ r.todo = seen[s].todo /\ r.add = seen[s].add
        /\ r.back = seen[s].back \cup {seen[s].cur} /\ r.held = seen[s].held
        /\ r.gone = seen[s].gone /\ r.new = seen[s].new
    BY <1>t DEF SeenRecord
  <2>3. LET i == seen[s].cur IN item[i].state # "absent" /\ item[i].ord = seen[s].ord
                                /\ item[i].ing \in DOMAIN seen[s].want
    BY <1>f, <2>1 DEF InHand
  <2>4. \A j \in seen[s].held : ~Written(j, s)'
    BY <1>f, <1>t, WrittenStays DEF Protected
  <2> HIDE DEF r
  <2>s. CASE pc'[s] = "edit.save" /\ seen'[s] = r /\ Exists(seen[s].ord)
    <3>5. Asked(s)'
      BY <1>a, <2>1, <2>s, <2>r DEF EditPhases
    <3>6. InHand(s)'
      BY <1>f, <2>1, <2>s, <2>r, <2>3 DEF InHand, EditPhases
    <3>7. Protected(s)'
      BY <1>f, <2>1, <2>s, <2>r, <2>4 DEF Protected, SavePhases, Live, Exists
    <3> QED
      BY <3>5, <3>6, <3>7 DEF Facts
  <2> QED
    BY <2>1, <2>s, IdleFacts
<1>8. CASE EditInsert(s)
  <2>0. PICK g \in seen[s].add :
            /\ pc[s] = "edit.save" /\ order' = order /\ item' = item
            /\ \/ /\ pc'[s] = "edit.save" /\ Exists(seen[s].ord)
                  /\ seen'[s] = [seen[s] EXCEPT !.add = @ \ {g}, !.new = @ \cup {g}]
               \/ pc'[s] = "idle" /\ seen'[s] = NoSeen
    BY <1>t, <1>8 DEF EditInsert
  <2> DEFINE r == [seen[s] EXCEPT !.add = @ \ {g}, !.new = @ \cup {g}]
  <2>r. /\ r.ord = seen[s].ord /\ r.want = seen[s].want
        /\ r.todo = seen[s].todo /\ r.add \subseteq seen[s].add
        /\ r.back = seen[s].back /\ r.held = seen[s].held
        /\ r.gone = seen[s].gone /\ r.new = seen[s].new \cup {g}
    BY <1>t DEF SeenRecord
  <2>1. seen'[s] \in {r, NoSeen}
    BY <2>0
  <2>4. \A j \in seen[s].held : ~Written(j, s)'
    BY <1>f, <1>t, WrittenStays DEF Protected
  <2>s. CASE pc'[s] = "edit.save" /\ seen'[s] = r /\ Exists(seen[s].ord)
    <3> HIDE DEF r
    <3>5. Asked(s)'
      BY <1>a, <2>0, <2>s, <2>r DEF EditPhases
    <3>6. InHand(s)'
      BY <1>f, <2>0, <2>s, <2>r DEF InHand, EditPhases
    <3>7. Protected(s)'
      BY <1>f, <2>0, <2>s, <2>r, <2>4 DEF Protected, SavePhases, Live, Exists
    <3> QED
      BY <3>5, <3>6, <3>7 DEF Facts
  <2> QED
    BY <2>0, <2>s, IdleFacts
<1>9. CASE \/ EditCommit(s) \/ StatusUpdate(s) \/ StatusInsert(s) \/ ConfirmCommit(s) \/ Crash(s)
  <2>1. pc'[s] = "idle" /\ seen'[s] = NoSeen
    BY <1>t, <1>9 DEF EditCommit, StatusUpdate, StatusInsert, ConfirmCommit, Crash
  <2> QED
    BY <2>1, IdleFacts
<1>10. CASE StatusRead(s)
  <2>1. PICK o \in Orders, st \in StatusInputs :
            /\ order[o] \in {"pending", st} /\ order' = order
            /\ pc'[s] = "status.save"
            /\ seen'[s] = [NoSeen EXCEPT !.ord = o, !.st = st]
    BY <1>t, <1>10 DEF StatusRead
  <2>2. /\ seen'[s].ord = o /\ seen'[s].st = st
        /\ seen'[s].todo = {} /\ seen'[s].back = {} /\ seen'[s].held = {} /\ seen'[s].new = {}
    BY <2>1 DEF NoSeen
  <2>3. st # "absent"
    BY StockInputs
  <2> QED
    BY <2>1, <2>2, <2>3
      DEF Facts, Asked, InHand, Protected, EditPhases, ConfirmPhases, SavePhases
<1>11. CASE StatusReload(s)
  <2>1. /\ pc[s] = "status.save" /\ order' = order /\ item' = item
        /\ \/ pc'[s] \in {"status.insert", "status.update"} /\ seen'[s] = seen[s]
           \/ pc'[s] = "idle" /\ seen'[s] = NoSeen
    BY <1>t, <1>11 DEF StatusReload
  <2>2. CASE pc'[s] \in {"status.insert", "status.update"} /\ seen'[s] = seen[s]
    <3>1. Asked(s)'
      BY <1>f, <2>1, <2>2 DEF Asked, EditPhases, ConfirmPhases
    <3>2. InHand(s)'
      BY <1>f, <2>1, <2>2 DEF InHand, EditPhases
    <3>3. Protected(s)'
      BY <1>f, <2>1, <2>2 DEF Protected, SavePhases
    <3> QED
      BY <3>1, <3>2, <3>3 DEF Facts
  <2> QED
    BY <2>1, <2>2, IdleFacts
<1>12. CASE ConfirmLock(s)
  <2>1. PICK o \in Orders, bought \in Requests :
            /\ Confirmable(o) /\ order' = order
            /\ pc'[s] = "confirm.find"
            /\ seen'[s] = [NoSeen EXCEPT !.ord = o, !.want = bought]
    BY <1>t, <1>12 DEF ConfirmLock
  <2>2. /\ seen'[s].ord = o /\ seen'[s].want = bought
        /\ seen'[s].todo = {} /\ seen'[s].back = {} /\ seen'[s].held = {} /\ seen'[s].new = {}
    BY <2>1 DEF NoSeen
  <2> QED
    BY <2>1, <2>2
      DEF Facts, Asked, InHand, Protected, EditPhases, ConfirmPhases, SavePhases, Confirmable
<1>13. CASE ConfirmFind(s)
  <2> DEFINE rows == Rows(seen[s].ord)
             said == {i \in rows : item[i].ing \in DOMAIN seen[s].want}
  <2>1. /\ pc[s] = "confirm.find" /\ order' = order /\ item' = item
        /\ \/ /\ pc'[s] = "confirm.write"
              /\ \E T \in FirstRows(said) :
                    seen'[s] = [seen[s] EXCEPT !.todo = T \cup (rows \ said)]
           \/ pc'[s] = "idle" /\ seen'[s] = NoSeen
    BY <1>t, <1>13 DEF ConfirmFind
  <2>2. CASE /\ pc'[s] = "confirm.write"
             /\ \E T \in FirstRows(said) :
                   seen'[s] = [seen[s] EXCEPT !.todo = T \cup (rows \ said)]
    <3>1. PICK T \in FirstRows(said) : seen'[s] = [seen[s] EXCEPT !.todo = T \cup (rows \ said)]
      BY <2>2
    <3>2. T \subseteq rows
      BY DEF FirstRows
    <3>3. /\ seen'[s].ord = seen[s].ord /\ seen'[s].want = seen[s].want
          /\ seen'[s].todo \subseteq rows
          /\ seen'[s].back = seen[s].back /\ seen'[s].held = seen[s].held
          /\ seen'[s].new = seen[s].new
      BY <1>t, <3>1, <3>2 DEF SeenRecord
    <3>4. seen[s].back = {} /\ seen[s].held = {} /\ seen[s].new = {}
      BY <1>f, <2>1 DEF Protected, SavePhases
    <3>5. \A i \in rows : item[i].state # "absent" /\ item[i].ord = seen[s].ord
      BY DEF Rows, Live
    <3>6. Asked(s)'
      BY <1>a, <2>1, <2>2, <3>3 DEF ConfirmPhases
    <3>7. InHand(s)'
      BY <2>1, <2>2, <3>3, <3>4, <3>5 DEF InHand, EditPhases
    <3>8. Protected(s)'
      BY <2>2, <3>3, <3>4 DEF Protected
    <3> QED
      BY <3>6, <3>7, <3>8 DEF Facts
  <2> QED
    BY <2>1, <2>2, IdleFacts
<1> QED
  BY <1>1, <1>2, <1>3, <1>4, <1>5, <1>6, <1>7, <1>8, <1>9, <1>10, <1>11, <1>12, <1>13 DEF Request
-----------------------------------------------------------------------------
(***************************************************************************)
(* What a step does to the confirmations.                                  *)
(***************************************************************************)
\* Only a confirmation that locks its order comes to be under way.
LEMMA ConfirmPhaseSteps ==
    ASSUME TypeOK, NEW s \in Sessions, Request(s), pc'[s] \in ConfirmPhases
    PROVE  \/ ConfirmLock(s)
           \/ /\ pc[s] \in ConfirmPhases /\ seen'[s].ord = seen[s].ord
              /\ UNCHANGED order
<1> USE DEF Begin, Advance, End
<1>t. pc \in [Sessions -> Phases] /\ seen \in [Sessions -> SeenRecord] /\ seen[s] \in SeenRecord
  BY DEF TypeOK
<1>1. CASE CreateOrder(s) \/ DeleteOrder(s)
  BY <1>1 DEF CreateOrder, DeleteOrder, ConfirmPhases
<1>2. CASE EditCheck(s) \/ EditFind(s) \/ EditRemove(s) \/ EditReload(s)
  BY <1>t, <1>2 DEF EditCheck, EditFind, EditRemove, EditReload, ConfirmPhases
<1>3. CASE EditUpdate(s) \/ EditReinsert(s) \/ EditInsert(s) \/ EditCommit(s)
  BY <1>t, <1>3 DEF EditUpdate, EditReinsert, EditInsert, EditCommit, ConfirmPhases
<1>4. CASE StatusRead(s) \/ StatusReload(s) \/ StatusUpdate(s) \/ StatusInsert(s)
  BY <1>t, <1>4 DEF StatusRead, StatusReload, StatusUpdate, StatusInsert, ConfirmPhases
<1>5. CASE ConfirmFind(s)
  <2>1. /\ pc[s] = "confirm.find" /\ UNCHANGED order
        /\ \/ \E T : seen'[s] = [seen[s] EXCEPT !.todo = T]
           \/ pc'[s] = "idle"
    BY <1>t, <1>5 DEF ConfirmFind
  <2> QED
    BY <1>t, <2>1 DEF ConfirmPhases, SeenRecord
<1>6. CASE ConfirmCommit(s) \/ Crash(s)
  BY <1>t, <1>6 DEF ConfirmCommit, Crash, ConfirmPhases
<1> QED
  BY <1>1, <1>2, <1>3, <1>4, <1>5, <1>6 DEF Request

\* Who changes an order that is under confirmation is the confirmation.
LEMMA ConfirmedOrderStays ==
    ASSUME IInv, NEW s \in Sessions, Request(s), NEW x \in Sessions, x # s,
           pc[x] \in ConfirmPhases
    PROVE  order'[seen[x].ord] = order[seen[x].ord]
<1> DEFINE o == seen[x].ord
<1>t. order \in [Orders -> Statuses \cup {"absent", "deleted"}] /\ order[o] = "pending"
      /\ o \in Orders
  BY DEF IInv, TypeOK, OneConfirmation, Facts, Asked, ConfirmPhases
<1>c. \A q : ~Confirming(q, s) => q # o
  BY DEF Confirming, ConfirmPhases
<1>1. CASE CreateOrder(s)
  BY <1>t, <1>1 DEF CreateOrder
<1>2. CASE DeleteOrder(s)
  BY <1>t, <1>c, <1>2 DEF DeleteOrder
<1>3. CASE StatusUpdate(s) \/ StatusInsert(s)
  BY <1>t, <1>c, <1>3 DEF StatusUpdate, StatusInsert
<1>4. CASE ConfirmCommit(s)
  <2>1. pc[s] \in ConfirmPhases
    BY <1>4 DEF ConfirmCommit, ConfirmPhases
  <2>2. ~Confirming(seen[s].ord, s)
    BY <2>1 DEF IInv, OneConfirmation
  <2> QED
    BY <1>t, <1>c, <1>4, <2>2 DEF ConfirmCommit
<1> QED
  BY <1>1, <1>2, <1>3, <1>4, OrderSteps

LEMMA OneConfirmationNext ==
    ASSUME IInv, NEW s \in Sessions, Request(s)
    PROVE  OneConfirmation'
<1>t. TypeOK /\ OneConfirmation
  BY DEF IInv
<1>o. \A x \in Sessions \ {s} : pc'[x] = pc[x] /\ seen'[x] = seen[x]
  BY <1>t, OneSteps
<1>1. SUFFICES ASSUME NEW x \in Sessions, pc'[x] \in ConfirmPhases
               PROVE  order'[seen'[x].ord] = "pending" /\ ~Confirming(seen[x].ord, x)'
  BY DEF OneConfirmation
<1>2. CASE ConfirmLock(s)
  <2>1. PICK o \in Orders, bought \in Requests :
            /\ order[o] = "pending" /\ ~Confirming(o, s) /\ order' = order
            /\ seen'[s] = [NoSeen EXCEPT !.ord = o, !.want = bought]
    BY <1>t, <1>2 DEF ConfirmLock, Confirmable, Begin, TypeOK
  <2>2. seen'[s].ord = o
    BY <2>1 DEF NoSeen
  <2>3. \A y \in Sessions \ {s} : pc[y] \in ConfirmPhases => seen[y].ord # o
    BY <2>1 DEF Confirming, ConfirmPhases
  <2>4. CASE x = s
    BY <1>o, <2>1, <2>2, <2>3, <2>4 DEF Confirming, ConfirmPhases
  <2>5. CASE x # s
    <3>1. pc[x] \in ConfirmPhases /\ seen'[x] = seen[x] /\ seen[x].ord # o
      BY <1>o, <1>1, <2>3, <2>5
    <3>2. order[seen[x].ord] = "pending" /\ ~Confirming(seen[x].ord, x)
      BY <1>t, <3>1 DEF OneConfirmation
    <3> QED
      BY <1>o, <2>1, <2>2, <3>1, <3>2 DEF Confirming
  <2> QED
    BY <2>4, <2>5
<1>3. CASE ~ConfirmLock(s)
  <2>1. \A y \in Sessions : pc'[y] \in ConfirmPhases =>
            pc[y] \in ConfirmPhases /\ seen'[y].ord = seen[y].ord
    BY <1>t, <1>o, <1>3, ConfirmPhaseSteps
  <2>2. pc[x] \in ConfirmPhases /\ seen'[x].ord = seen[x].ord
    BY <1>1, <2>1
  <2>3. order[seen[x].ord] = "pending" /\ ~Confirming(seen[x].ord, x)
    BY <1>t, <2>2 DEF OneConfirmation
  <2>4. ~Confirming(seen[x].ord, x)'
    BY <2>1, <2>2, <2>3 DEF Confirming, ConfirmPhases
  <2>5. order'[seen[x].ord] = order[seen[x].ord]
    BY <1>t, <1>1, <1>3, <2>2, ConfirmPhaseSteps, ConfirmedOrderStays
  <2> QED
    BY <2>2, <2>3, <2>4, <2>5
<1> QED
  BY <1>2, <1>3
-----------------------------------------------------------------------------
(***************************************************************************)
(* What a step does to items and details.                                  *)
(***************************************************************************)
\* Items and details change by four of the operations.
LEMMA RowSteps ==
    ASSUME NEW s \in Sessions, Request(s)
    PROVE  \/ CreateOrder(s) \/ DeleteOrder(s) \/ EditCommit(s) \/ ConfirmCommit(s)
           \/ UNCHANGED <<item, detail>>
<1>1. CASE \/ EditCheck(s) \/ EditFind(s) \/ EditRemove(s) \/ EditReload(s) \/ EditUpdate(s)
           \/ EditReinsert(s) \/ EditInsert(s)
  BY <1>1 DEF EditCheck, EditFind, EditRemove, EditReload, EditUpdate, EditReinsert, EditInsert
<1>2. CASE \/ StatusRead(s) \/ StatusReload(s) \/ StatusUpdate(s) \/ StatusInsert(s)
           \/ ConfirmLock(s) \/ ConfirmFind(s) \/ Crash(s)
  BY <1>2 DEF StatusRead, StatusReload, StatusUpdate, StatusInsert, ConfirmLock, ConfirmFind, Crash
<1> QED
  BY <1>1, <1>2 DEF Request

LEMMA NoOrphansNext ==
    ASSUME IInv, NEW s \in Sessions, Request(s)
    PROVE  NoOrphans'
<1>1. SUFFICES ASSUME NEW i \in Items
               PROVE  /\ item'[i].state = "live" =>
                             item'[i].ord \in Orders /\ order'[item'[i].ord] \in Statuses
                      /\ detail'[i] # NoDetail => item'[i].state = "live"
  BY DEF NoOrphans, Live, Exists
<1>t. /\ order \in [Orders -> Statuses \cup {"absent", "deleted"}]
      /\ item \in [Items -> ItemRecord] /\ item[i] \in ItemRecord
  BY DEF IInv, TypeOK
<1>n. /\ item[i].state = "live" => item[i].ord \in Orders /\ Exists(item[i].ord)
      /\ detail[i] # NoDetail => item[i].state = "live"
      /\ item[i].state = "live" => ~Fresh(i)
  BY DEF IInv, NoOrphans, Live, Fresh, NoItem
<1>e. ASSUME ~DeleteOrder(s), item[i].state = "live" PROVE order'[item[i].ord] \in Statuses
  BY <1>n, <1>e, ExistsUnlessDeleted
<1>2. CASE DeleteOrder(s)
  <2>1. PICK o \in Orders :
            /\ order' = [order EXCEPT ![o] = "deleted"]
            /\ item' = [j \in Items |-> IF j \in Rows(o) THEN [item[j] EXCEPT !.state = "deleted"]
                                        ELSE item[j]]
            /\ detail' = [j \in Items |-> IF j \in Rows(o) THEN NoDetail ELSE detail[j]]
    BY <1>2 DEF DeleteOrder
  <2>2. CASE i \in Rows(o)
    BY <1>t, <2>1, <2>2 DEF ItemRecord
  <2>3. CASE i \notin Rows(o)
    <3>1. item'[i] = item[i] /\ detail'[i] = detail[i]
      BY <2>1, <2>3
    <3>2. item[i].state = "live" => item[i].ord # o
      BY <2>3 DEF Rows, Live
    <3> QED
      BY <1>t, <1>n, <2>1, <3>1, <3>2 DEF Exists
  <2> QED
    BY <2>2, <2>3
<1>3. CASE CreateOrder(s) /\ ~DeleteOrder(s)
  <2>1. PICK o \in Orders, want \in Payloads : \E f \in NewRows(DOMAIN want) :
            /\ order' = [order EXCEPT ![o] = "pending"]
            /\ item' = Inserted(f, o, want) /\ UNCHANGED detail
    BY <1>3 DEF CreateOrder
  <2>2. PICK f \in NewRows(DOMAIN want) :
            /\ order' = [order EXCEPT ![o] = "pending"]
            /\ item' = Inserted(f, o, want) /\ UNCHANGED detail
    BY <2>1
  <2>3. CASE item'[i] = item[i]
    BY <1>n, <1>e, <1>3, <2>2, <2>3
  <2>4. CASE item'[i] # item[i]
    <3> DEFINE ings == DOMAIN want
    <3>r. f \in NewRows(ings) /\ Inserted(f, o, want)[i] # item[i]
      BY <2>2, <2>4
    <3> HIDE DEF ings
    <3>0. \E g \in ings : /\ Fresh(i) /\ f[g] = i
                          /\ Inserted(f, o, want)[i] =
                                [state |-> "live", ord |-> o, ing |-> g, qty |-> want[g]]
      BY <3>r, InsertedRows
    <3>1. Fresh(i) /\ item'[i].state = "live" /\ item'[i].ord = o
      BY <2>2, <3>0
    <3>2. order'[o] = "pending"
      BY <1>t, <2>2
    <3> QED
      BY <1>n, <2>2, <3>1, <3>2 DEF Statuses
  <2> QED
    BY <2>3, <2>4
<1>4. CASE EditCommit(s) /\ ~DeleteOrder(s)
  <2>1. PICK f \in NewRows(seen[s].new) :
            /\ pc[s] = "edit.save" /\ order' = order
            /\ item' = Edited(s, f)
            /\ detail' = [j \in Items |-> IF j \in seen[s].held \cap seen[s].gone THEN NoDetail
                                          ELSE detail[j]]
    BY <1>4 DEF EditCommit
  <2>2. CASE i \in seen[s].held \cap seen[s].gone
    <3>1. item'[i].state = "deleted" /\ detail'[i] = NoDetail
      BY <1>t, <2>1, <2>2 DEF Edited, ItemRecord
    <3> QED
      BY <3>1
  <2>3. CASE i \in (seen[s].held \cup seen[s].back) /\ i \notin seen[s].held \cap seen[s].gone
    <3>1. item'[i].state = "live" /\ item'[i].ord = item[i].ord
      BY <1>t, <2>1, <2>3 DEF Edited, ItemRecord
    <3>2. item[i].ord = seen[s].ord
      BY <2>3 DEF IInv, Facts, InHand
    <3>3. seen[s].ord \in Orders
      BY <2>1 DEF IInv, Facts, Asked
    <3>4. CASE i \in seen[s].held
      <4>1. item[i].state = "live"
        BY <3>4 DEF IInv, Facts, Protected, Live
      <4> QED
        BY <1>n, <2>1, <3>1, <4>1 DEF Exists
    <3>5. CASE i \in seen[s].back
      <4>1. Exists(seen[s].ord)
        BY <3>5 DEF IInv, Facts, Protected
      <4> QED
        BY <2>1, <3>1, <3>2, <3>3, <4>1 DEF Exists
    <3> QED
      BY <2>3, <3>4, <3>5
  <2>4. CASE i \notin seen[s].held \cup seen[s].back
    <3>1. item'[i] = Inserted(f, seen[s].ord, seen[s].want)[i] /\ detail'[i] = detail[i]
      BY <2>1, <2>4 DEF Edited
    <3>2. CASE item'[i] = item[i]
      BY <1>n, <2>1, <3>1, <3>2 DEF Exists
    <3>3. CASE item'[i] # item[i]
      <4>r. /\ f \in NewRows(seen[s].new)
            /\ Inserted(f, seen[s].ord, seen[s].want)[i] # item[i]
        BY <2>1, <3>1, <3>3
      <4>0. \E g \in seen[s].new :
               /\ Fresh(i) /\ f[g] = i
               /\ Inserted(f, seen[s].ord, seen[s].want)[i] =
                     [state |-> "live", ord |-> seen[s].ord, ing |-> g, qty |-> seen[s].want[g]]
        BY <4>r, InsertedRows
      <4>1. Fresh(i) /\ item'[i].state = "live" /\ item'[i].ord = seen[s].ord /\ seen[s].new # {}
        BY <3>1, <4>0
      <4>2. Exists(seen[s].ord) /\ seen[s].ord \in Orders
        BY <2>1, <4>1 DEF IInv, Facts, Protected, Asked
      <4> QED
        BY <2>1, <4>1, <4>2 DEF Exists
    <3> QED
      BY <3>2, <3>3
  <2> QED
    BY <2>2, <2>3, <2>4
<1>5. CASE ConfirmCommit(s) /\ ~DeleteOrder(s)
  <2>1. /\ item' = item
        /\ \/ /\ \A j \in seen[s].todo : Live(j)
              /\ detail' = [j \in Items |-> IF j \in seen[s].todo THEN Bought(s, j) ELSE detail[j]]
           \/ UNCHANGED detail
    BY <1>5 DEF ConfirmCommit
  <2>2. detail'[i] # NoDetail => item[i].state = "live"
    BY <1>n, <2>1 DEF Live
  <2> QED
    BY <1>n, <1>e, <1>5, <2>1, <2>2
<1>6. CASE UNCHANGED <<item, detail>> /\ ~DeleteOrder(s)
  BY <1>n, <1>e, <1>6
<1> QED
  BY <1>2, <1>3, <1>4, <1>5, <1>6, RowSteps
-----------------------------------------------------------------------------
(***************************************************************************)
(* The invariant, and what follows from it.                                *)
(***************************************************************************)
LEMMA IInvInit == Init => IInv
<1> SUFFICES ASSUME Init PROVE IInv
  OBVIOUS
<1>1. TypeOK
  BY NoSeenType
    DEF Init, TypeOK, ItemRecord, NoItem, DetailRecord, NoDetail, Phases
<1>2. NoOrphans
  BY DEF Init, NoOrphans, Live, NoItem
<1>3. OneConfirmation
  BY DEF Init, OneConfirmation, ConfirmPhases
<1>4. ASSUME NEW s \in Sessions PROVE Facts(s)
  BY NoSeenEmpty DEF Init, Facts, Asked, InHand, Protected, EditPhases, ConfirmPhases, SavePhases
<1> QED
  BY <1>1, <1>2, <1>3, <1>4 DEF IInv

LEMMA IInvNext == IInv /\ [Next]_vars => IInv'
<1> SUFFICES ASSUME IInv, [Next]_vars PROVE IInv'
  OBVIOUS
<1>1. ASSUME NEW s \in Sessions, Request(s) PROVE IInv'
  <2>1. TypeOK' /\ NoOrphans' /\ OneConfirmation'
    BY <1>1, TypeNext, NoOrphansNext, OneConfirmationNext
  <2>2. ASSUME NEW x \in Sessions PROVE Facts(x)'
    BY <1>1, <2>2, OwnFacts, OtherFacts
  <2> QED
    BY <2>1, <2>2 DEF IInv
<1>2. CASE UNCHANGED vars
  <2> USE <1>2 DEF vars
  <2>1. TypeOK' /\ NoOrphans' /\ OneConfirmation'
    BY DEF IInv, TypeOK, NoOrphans, OneConfirmation, Live, Exists, Confirming
  <2>2. ASSUME NEW x \in Sessions PROVE Facts(x)'
    BY DEF IInv, Facts, Asked, InHand, Protected, Live, Exists, Written
  <2> QED
    BY <2>1, <2>2 DEF IInv
<1> QED
  BY <1>1, <1>2 DEF Next

\* The inductive invariant holds of orders of any size and any number of requests.
THEOREM StockInvariance == Spec => []IInv
BY IInvInit, IInvNext, PTL DEF Spec

\* Rows and sessions keep their types, and no purchase records a negative quantity.
THEOREM StockTypeCorrect == Spec => []TypeOK
<1>1. IInv => TypeOK
  BY DEF IInv
<1> QED
  BY <1>1, StockInvariance, PTL

\* No item outlives its order and no purchase detail its item, whatever edits,
\* deletions, status changes and confirmations run at once.
THEOREM StockNoOrphans == Spec => []NoOrphans
<1>1. IInv => NoOrphans
  BY DEF IInv
<1> QED
  BY <1>1, StockInvariance, PTL

\* confirmPurchase's lock makes confirmations of one order take turns, and keeps
\* the order pending until the one that runs commits.
THEOREM ConfirmationsTakeTurns == Spec => []OneConfirmation
<1>1. IInv => OneConfirmation
  BY DEF IInv
<1> QED
  BY <1>1, StockInvariance, PTL
-----------------------------------------------------------------------------
(***************************************************************************)
(* Purchases stand.                                                        *)
(***************************************************************************)
\* A detail stays, goes with its item, or is written by the confirmation of
\* its order, which is pending until then.
LEMMA DetailSteps ==
    ASSUME IInv, NEW s \in Sessions, Request(s), NEW i \in Items
    PROVE  \/ detail'[i] = detail[i]
           \/ detail'[i] = NoDetail /\ item'[i].state # "live"
           \/ order[item[i].ord] = "pending" /\ order'[item[i].ord] = "completed"
<1>t. item[i] \in ItemRecord /\ item = [j \in Items |-> item[j]]
  BY DEF IInv, TypeOK
<1>1. CASE CreateOrder(s)
  BY <1>1 DEF CreateOrder
<1>2. CASE DeleteOrder(s)
  <2>1. PICK o \in Orders :
          /\ item' = [j \in Items |-> IF j \in Rows(o) THEN [item[j] EXCEPT !.state = "deleted"] ELSE item[j]]
          /\ detail' = [j \in Items |-> IF j \in Rows(o) THEN NoDetail ELSE detail[j]]
    BY <1>2 DEF DeleteOrder
  <2>2. i \in Rows(o) => detail'[i] = NoDetail /\ item'[i].state = "deleted"
    BY <1>t, <2>1 DEF ItemRecord
  <2> QED
    BY <2>1, <2>2
<1>3. CASE EditCommit(s)
  <2> DEFINE goes == i \in seen[s].held \cap seen[s].gone
  <2>1. /\ detail'[i] = IF goes THEN NoDetail ELSE detail[i]
        /\ goes => item'[i] = [item[i] EXCEPT !.state = "deleted"]
    BY <1>3 DEF EditCommit, Edited
  <2>2. goes => item'[i].state = "deleted"
    BY <1>t, <2>1 DEF ItemRecord
  <2> QED
    BY <2>1, <2>2
<1>4. CASE ConfirmCommit(s)
  <2>1. /\ pc[s] = "confirm.write"
        /\ \/ /\ detail' = [j \in Items |-> IF j \in seen[s].todo THEN Bought(s, j) ELSE detail[j]]
              /\ order' = [order EXCEPT ![seen[s].ord] = "completed"]
           \/ UNCHANGED detail
    BY <1>4 DEF ConfirmCommit
  <2>2. \/ order[seen[s].ord] = "pending" /\ order'[seen[s].ord] = "completed"
        \/ UNCHANGED detail
    BY <2>1 DEF IInv, OneConfirmation, TypeOK, Facts, Asked, ConfirmPhases
  <2>3. i \in seen[s].todo => item[i].ord = seen[s].ord
    BY DEF IInv, Facts, InHand
  <2> QED
    BY <2>1, <2>2, <2>3
<1>5. CASE UNCHANGED detail
  BY <1>5
<1> QED
  BY <1>1, <1>2, <1>3, <1>4, <1>5, RowSteps

\* What confirmPurchase has recorded for an item stays until the item goes, or
\* until a confirmation finds the order pending and completes it, whatever
\* statuses clients ask for.
THEOREM PurchasesStand == Spec => PurchaseStands
<1>1. ASSUME IInv, [Next]_vars
      PROVE  [\A i \in Items : detail[i] # NoDetail =>
                \/ detail'[i] = detail[i]
                \/ detail'[i] = NoDetail /\ ~Live(i)'
                \/ order[item[i].ord] = "pending" /\ order'[item[i].ord] = "completed"]_vars
  <2>1. ASSUME Next, NEW i \in Items
        PROVE  \/ detail'[i] = detail[i]
               \/ detail'[i] = NoDetail /\ item'[i].state # "live"
               \/ order[item[i].ord] = "pending" /\ order'[item[i].ord] = "completed"
    BY <1>1, <2>1, DetailSteps DEF Next
  <2> QED
    BY <1>1, <2>1 DEF Live
<1> QED
  BY <1>1, StockInvariance, PTL DEF Spec, PurchaseStands
=============================================================================

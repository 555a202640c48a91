------------------------- MODULE PosOrdersProofs -------------------------
(* Proofs about PosOrders for every number of orders, lines, payments,     *)
(* tables and sessions.                                                    *)
EXTENDS PosOrders, FiniteSetTheorems, TLAPS

(***************************************************************************)
(* Values.                                                                 *)
(***************************************************************************)
LEMMA MoneyNat == \A x : Money(x) \in Nat
  BY DEF Money

LEMMA TotalsNat ==
  ASSUME NEW itm, NEW o
  PROVE  SubTotal(itm, o) \in Nat /\ OrderTotal(itm, o) \in Nat
<1>1. SubTotal(itm, o) \in Nat
  BY MoneyNat DEF SubTotal
<1> QED
  BY <1>1, MoneyAssumption DEF OrderTotal, Lesser

LEMMA PaidNat == ASSUME NEW pays, NEW o PROVE Paid(pays, o) \in Nat
  BY MoneyNat DEF Paid

LEMMA NormalizeType ==
  ASSUME NEW raw \in StatusInputs PROVE Normalize(raw) \in Statuses
  BY StatusAssumption DEF Normalize, RawStatuses, Statuses

LEMMA NormalizeKeep == Normalize("keep") = "keep"
  BY DEF Normalize

LEMMA ReconciledType ==
  ASSUME NEW row \in OrderRecord, NEW itm, NEW o
  PROVE  /\ Reconciled(row, itm, o) \in OrderRecord
         /\ Reconciled(row, itm, o).total = OrderTotal(itm, o)
         /\ Reconciled(row, itm, o).table = row.table
         /\ row.status # "Absent" => Reconciled(row, itm, o).status \in Statuses
  BY TotalsNat DEF Reconciled, SyncedStatus, OrderRecord, OrderStatuses, Statuses

LEMMA SummaryType ==
  ASSUME NEW ord \in [Orders -> OrderRecord], NEW itm, NEW o \in Orders
  PROVE  Summary(ord, itm, o) \in SummaryRecord
<1>1. LiveLines(itm, o) \subseteq 1 .. MaxItems
  BY DEF LiveLines, Lines, Items
<1>2. Cardinality(LiveLines(itm, o)) \in Nat
  <2>1. IsFiniteSet(1 .. MaxItems)
    BY FS_Interval, BoundsAssumption
  <2>2. IsFiniteSet(LiveLines(itm, o))
    BY <1>1, <2>1, FS_Subset
  <2> QED
    BY <2>2, FS_CardinalityType
<1> QED
  BY <1>2 DEF Summary, OrderRecord, SummaryRecord

(***************************************************************************)
(* What each kind of statement does to the session that runs it and to the *)
(* locks.                                                                  *)
(***************************************************************************)
LEMMA BeginType ==
  ASSUME TypeOK, NEW s \in Sessions, NEW next \in Phases, NEW a \in Arguments,
         Begin(s, next, a)
  PROVE  pc' \in [Sessions -> Phases] /\ arg' \in [Sessions -> Arguments]
  BY DEF TypeOK, Begin

LEMMA TakeType ==
  ASSUME TypeOK, NEW s \in Sessions, NEW R, Take(s, R)
  PROVE  lock' \in [Rows -> Sessions \cup {Free}]
  BY DEF TypeOK, Take

LEMMA EndType ==
  ASSUME TypeOK, NEW s \in Sessions, End(s)
  PROVE  /\ lock' \in [Rows -> Sessions \cup {Free}]
         /\ pc' \in [Sessions -> Phases]
         /\ arg' \in [Sessions -> Arguments]
         /\ seen' \in [Sessions -> Reads]
<1>1. NoArg \in Arguments /\ NoSeen \in Reads /\ "idle" \in Phases
  BY DEF NoArg, NoSeen, Arguments, Reads, Phases, OrderStatuses
<1> QED
  BY <1>1 DEF TypeOK, End

LEMMA SaveType ==
  ASSUME TypeOK, NEW o \in Orders, NEW row \in OrderRecord,
         NEW itm \in [Items -> LineRecord], SaveOrder(o, row, itm)
  PROVE  /\ order' \in [Orders -> OrderRecord]
         /\ item' \in [Items -> LineRecord]
         /\ snap' \in [Orders -> SummaryRecord]
<1>1. order' \in [Orders -> OrderRecord]
  BY DEF TypeOK, SaveOrder
<1>2. Summary(order', itm, o) \in SummaryRecord
  BY <1>1, SummaryType
<1> QED
  BY <1>1, <1>2 DEF TypeOK, SaveOrder

\* A session that runs a statement leaves the others and their locks alone.
Alone(s) ==
    \A x \in Sessions \ {s} :
        /\ pc'[x] = pc[x] /\ arg'[x] = arg[x] /\ seen'[x] = seen[x]
        /\ \A r \in Rows : lock[r] = x => lock'[r] = x

LEMMA TakeAlone ==
  ASSUME TypeOK, NEW s \in Sessions, NEW R, Take(s, R)
  PROVE  /\ \A x \in Sessions \ {s} : \A r \in Rows : lock[r] = x => lock'[r] = x
         /\ \A r \in Rows : lock[r] = s => lock'[r] = s
         /\ \A r \in R \cap Rows : lock'[r] = s
<1>1. Free \notin Sessions
  BY NamesAssumption
<1> QED
  BY <1>1 DEF TypeOK, Take

LEMMA EndAlone ==
  ASSUME TypeOK, NEW s \in Sessions, End(s)
  PROVE  /\ \A x \in Sessions \ {s} :
              /\ pc'[x] = pc[x] /\ arg'[x] = arg[x] /\ seen'[x] = seen[x]
              /\ \A r \in Rows : lock[r] = x => lock'[r] = x
         /\ pc'[s] = "idle" /\ arg'[s] = NoArg
  BY DEF TypeOK, End

\* Every step is one session's.
Step(s) == Request(s) \/ Continue(s) \/ DeadlockVictim(s) \/ Crash(s)

LEMMA StepAlone ==
  ASSUME TypeOK, NEW s \in Sessions, Step(s)
  PROVE  Alone(s)
<1> USE DEF Alone
<1>1. CASE Request(s)
  <2>1. ASSUME NEW next, NEW a, NEW R, Begin(s, next, a), Take(s, R),
               seen' = seen \/ \E v : seen' = [seen EXCEPT ![s] = v]
        PROVE  Alone(s)
    BY <2>1, TakeAlone DEF TypeOK, Begin
  <2>2. CASE CreateLock(s)
    BY <2>1, <2>2 DEF CreateLock
  <2>3. CASE CreateFullLock(s)
    BY <2>1, <2>3 DEF CreateFullLock
  <2>4. CASE SubmitAppend(s)
    BY <2>1, <2>4 DEF SubmitAppend
  <2>5. CASE SubmitCreate(s)
    BY <2>1, <2>5 DEF SubmitCreate
  <2>6. CASE AddLock(s)
    BY <2>1, <2>6 DEF AddLock
  <2>7. CASE UpdateLock(s)
    BY <2>1, <2>7 DEF UpdateLock
  <2>8. CASE DeleteLock(s)
    BY <2>1, <2>8 DEF DeleteLock
  <2>9. CASE ItemLock(s)
    BY <2>1, <2>9 DEF ItemLock
  <2>10. CASE PayLock(s)
    BY <2>1, <2>10 DEF PayLock
  <2>11. CASE EditFind(s)
    BY <2>11 DEF EditFind, Begin, TypeOK
  <2> QED
    BY <1>1, <2>2, <2>3, <2>4, <2>5, <2>6, <2>7, <2>8, <2>9, <2>10, <2>11 DEF Request
<1>2. CASE Continue(s)
  <2>1. CASE AppendLock(s)
    BY <2>1, TakeAlone DEF TypeOK, AppendLock, Advance
  <2>2. CASE UpdateTables(s)
    BY <2>2, TakeAlone DEF TypeOK, UpdateTables, Advance
  <2>3. CASE EditLockOrder(s)
    BY <2>3, TakeAlone DEF TypeOK, EditLockOrder, Advance
  <2>4. CASE EditReadOrder(s)
    BY <2>4 DEF TypeOK, EditReadOrder, Advance
  <2>5. CASE EditReadPays(s)
    BY <2>5 DEF TypeOK, EditReadPays, Advance
  <2>6. CASE End(s)
    BY <2>6, EndAlone
  <2>7. CASE EditLock(s)
    BY <2>7, TakeAlone DEF TypeOK, EditLock, Advance
  <2>8. CASE EditMissed(s) /\ ~End(s)
    BY <2>8 DEF TypeOK, EditMissed, Advance
  <2> QED
    BY <1>2, <2>1, <2>2, <2>3, <2>4, <2>5, <2>6, <2>7, <2>8
    DEF Continue, CreateCommit, AddCommit, UpdateReject, UpdateWrite, DeleteCommit,
        ItemCommit, RefreshCommit, EditNoOrder, RefreshMissed
<1> QED
  BY <1>1, <1>2, EndAlone DEF Step, DeadlockVictim, Crash

(***************************************************************************)
(* A step that writes no row, or only tables.                              *)
(***************************************************************************)

\* The ids that s now has are not those another session will insert.
Apart(s) ==
    \A x \in Sessions \ {s} :
        /\ Inserting(x) => arg'[s].item # arg[x].item
        /\ Paying(x) => arg'[s].pay # arg[x].pay
        /\ pc'[s] = "create" /\ pc[x] = "create" => arg'[s].ord # arg[x].ord

LEMMA TableInv ==
  ASSUME IInv, NEW s \in Sessions, Alone(s), Apart(s), UNCHANGED <<order, item, pay, snap>>,
         created' \in Nat, created <= created', TypeOK', Held(s)'
  PROVE  IInv'
<1>1. SnapshotAgrees' /\ TotalMatchesLines' /\ NoOrphans' /\ IdsInOrder'
  BY DEF IInv, SnapshotAgrees, TotalMatchesLines, NoOrphans, IdsInOrder, Exists, Orders, TypeOK
<1>2. ASSUME NEW x \in Sessions, x # s PROVE Held(x)'
  <2> USE <1>2 DEF IInv, Held, Alone
  <2>1. OrderHeld(x)'
    <3>1. pc'[x] \in OrderPhases => OrderRow(arg[x].ord) \in Rows
      BY DEF OrderHeld, Rows
    <3> QED
      BY <3>1 DEF OrderHeld, Exists
  <2>2. LineHeld(x)'
    <3>1. pc'[x] = "item" => <<"item", arg[x].item>> \in Rows
      BY DEF LineHeld, Rows, ItemRows
    <3> QED
      BY <3>1 DEF LineHeld
  <2>3. PaymentHeld(x)'
    <3>1. Editing(x) => <<"pay", arg[x].pay>> \in Rows
      BY DEF PaymentHeld, Rows, PayRows
    <3> QED
      BY <3>1 DEF PaymentHeld, Editing, EditPhases
  <2>4. ChargeChecked(x)'
    BY DEF ChargeChecked, Paying, Due
  <2>5. IdFresh(x)'
    BY DEF IdFresh, Exists, Apart, TypeOK
  <2>6. LineFresh(x)' /\ PayFresh(x)'
    BY DEF LineFresh, PayFresh, Inserting, Paying, Apart
  <2>7. ArgsOK(x)'
    BY DEF ArgsOK
  <2> QED
    BY <2>1, <2>2, <2>3, <2>4, <2>5, <2>6, <2>7
<1> QED
  BY <1>1, <1>2 DEF IInv

LEMMA QuietInv ==
  ASSUME IInv, NEW s \in Sessions, Alone(s), Apart(s), UNCHANGED rows,
         created' \in Nat, created <= created', TypeOK', Held(s)'
  PROVE  IInv'
  BY TableInv DEF rows

LEMMA RequestInv ==
  ASSUME IInv, NEW s \in Sessions, Request(s)
  PROVE  IInv'
<1> USE DEF IInv
<1>1. Alone(s)
  BY StepAlone DEF Step
<1>2. 0 \notin Items /\ 0 \notin Pays /\ Amounts \subseteq Nat
  BY MoneyAssumption DEF Items, Pays
<1>3. ASSUME NEW next \in Phases, NEW a \in Arguments, NEW R, Begin(s, next, a), Take(s, R),
             UNCHANGED rows, created' \in 0 .. MaxOrders, seen' \in [Sessions -> Reads]
      PROVE  TypeOK' /\ pc'[s] = next /\ arg'[s] = a
  BY <1>3, BeginType, TakeType DEF TypeOK, Begin, rows
<1>4. CASE CreateLock(s)
  <2>1. PICK t \in Tables \cup {NoTable}, raw \in StatusInputs, amt \in Amounts, o \in Orders :
          CreateLock(s)!(t, raw, amt, o)
    BY <1>4 DEF CreateLock
  <2> DEFINE a == [NoArg EXCEPT !.op = "create", !.ord = o, !.tab = t,
                                !.st = Normalize(raw), !.amt = amt]
  <2>2. /\ a \in Arguments /\ a.op = "create" /\ a.ord = o /\ a.st \in Statuses
        /\ a.item = 0 /\ a.pay = 0
    BY <1>2, NormalizeType DEF NoArg, Arguments, AllOps
  <2>3. Begin(s, "create", a) /\ Take(s, TableRows({t})) /\ UNCHANGED rows /\ seen' = seen
        /\ o = created + 1 /\ created' = o
    BY <2>1 DEF FreshOrder
  <2> HIDE DEF a
  <2>4. TypeOK' /\ pc'[s] = "create" /\ arg'[s] = a
    <3>1. "create" \in Phases /\ created' \in 0 .. MaxOrders /\ seen' \in [Sessions -> Reads]
      BY <2>3, BoundsAssumption DEF Phases, TypeOK, Orders
    <3> QED
      BY <1>3, <2>2, <2>3, <3>1
  <2>5. Apart(s)
    BY <1>2, <2>2, <2>3, <2>4
    DEF Apart, Held, LineFresh, PayFresh, IdFresh, TypeOK
  <2>6. IdFresh(s)'
    BY <1>1, <2>2, <2>3, <2>4
    DEF Held, IdFresh, IdsInOrder, Exists, Alone, TypeOK, Orders, rows
  <2>7. Held(s)'
    BY <2>2, <2>4, <2>6
    DEF Held, OrderHeld, LineHeld, PaymentHeld, ChargeChecked, LineFresh, PayFresh,
        ArgsOK, OrderPhases, EditPhases, Editing, Paying, Inserting
  <2> QED
    BY <1>1, <2>3, <2>4, <2>5, <2>7, QuietInv DEF TypeOK
<1>5. CASE CreateFullLock(s)
  <2>1. PICK t \in Tables \cup {NoTable}, raw \in StatusInputs, amt \in Amounts,
             o \in Orders, i \in Items :
          CreateFullLock(s)!(t, raw, amt, o, i)
    BY <1>5 DEF CreateFullLock
  <2> DEFINE a == [NoArg EXCEPT !.op = "createFull", !.ord = o, !.tab = t,
                                !.item = i, !.st = Normalize(raw), !.amt = amt]
  <2>2. /\ a \in Arguments /\ a.op \in {"createFull", "submit"} /\ a.ord = o
        /\ a.st \in Statuses /\ a.item = i /\ a.pay = 0
    BY <1>2, NormalizeType DEF NoArg, Arguments, AllOps, Statuses
  <2>3. /\ Begin(s, "create", a) /\ Take(s, TableRows({t})) /\ UNCHANGED rows /\ seen' = seen
        /\ o = created + 1 /\ created' = o
        /\ item[i] = NoItem /\ \A x \in Sessions : arg[x].item # i
    BY <2>1 DEF FreshOrder, FreshItem
  <2> HIDE DEF a
  <2>4. TypeOK' /\ pc'[s] = "create" /\ arg'[s] = a
    <3>1. "create" \in Phases /\ created' \in 0 .. MaxOrders /\ seen' \in [Sessions -> Reads]
      BY <2>3, BoundsAssumption DEF Phases, TypeOK, Orders
    <3> QED
      BY <1>3, <2>2, <2>3, <3>1
  <2>5. Apart(s)
    BY <1>2, <2>2, <2>3, <2>4
    DEF Apart, Held, PayFresh, IdFresh, TypeOK
  <2>6. IdFresh(s)'
    BY <1>1, <2>2, <2>3, <2>4
    DEF Held, IdFresh, IdsInOrder, Exists, Alone, TypeOK, Orders, rows
  <2>7. LineFresh(s)'
    BY <1>1, <2>2, <2>3, <2>4 DEF LineFresh, Alone, rows
  <2>8. Held(s)'
    BY <2>2, <2>4, <2>6, <2>7
    DEF Held, OrderHeld, LineHeld, PaymentHeld, ChargeChecked, PayFresh,
        ArgsOK, OrderPhases, EditPhases, Editing, Paying
  <2> QED
    BY <1>1, <2>3, <2>4, <2>5, <2>8, QuietInv DEF TypeOK
<1>6. CASE SubmitCreate(s)
  <2>1. PICK t \in Tables, amt \in Amounts, o \in Orders, i \in Items :
          SubmitCreate(s)!(t, amt, o, i)
    BY <1>6 DEF SubmitCreate
  <2> DEFINE a == [NoArg EXCEPT !.op = "submit", !.ord = o, !.tab = t,
                                !.item = i, !.st = "Pending", !.amt = amt]
  <2>2. /\ a \in Arguments /\ a.op \in {"createFull", "submit"} /\ a.ord = o
        /\ a.st \in Statuses /\ a.item = i /\ a.pay = 0
    BY <1>2, NormalizeType DEF NoArg, Arguments, AllOps, Statuses
  <2>3. /\ Begin(s, "create", a) /\ Take(s, TableRows({t})) /\ UNCHANGED rows /\ seen' = seen
        /\ o = created + 1 /\ created' = o
        /\ item[i] = NoItem /\ \A x \in Sessions : arg[x].item # i
    BY <2>1 DEF FreshOrder, FreshItem
  <2> HIDE DEF a
  <2>4. TypeOK' /\ pc'[s] = "create" /\ arg'[s] = a
    <3>1. "create" \in Phases /\ created' \in 0 .. MaxOrders /\ seen' \in [Sessions -> Reads]
      BY <2>3, BoundsAssumption DEF Phases, TypeOK, Orders
    <3> QED
      BY <1>3, <2>2, <2>3, <3>1
  <2>5. Apart(s)
    BY <1>2, <2>2, <2>3, <2>4
    DEF Apart, Held, PayFresh, IdFresh, TypeOK
  <2>6. IdFresh(s)'
    BY <1>1, <2>2, <2>3, <2>4
    DEF Held, IdFresh, IdsInOrder, Exists, Alone, TypeOK, Orders, rows
  <2>7. LineFresh(s)'
    BY <1>1, <2>2, <2>3, <2>4 DEF LineFresh, Alone, rows
  <2>8. Held(s)'
    BY <2>2, <2>4, <2>6, <2>7
    DEF Held, OrderHeld, LineHeld, PaymentHeld, ChargeChecked, PayFresh,
        ArgsOK, OrderPhases, EditPhases, Editing, Paying
  <2> QED
    BY <1>1, <2>3, <2>4, <2>5, <2>8, QuietInv DEF TypeOK
<1>7. CASE SubmitAppend(s)
  <2>1. PICK t \in Tables, amt \in Amounts, o \in Orders, i \in Items :
          SubmitAppend(s)!(t, amt, o, i)
    BY <1>7 DEF SubmitAppend
  <2> DEFINE a == [NoArg EXCEPT !.op = "append", !.ord = o, !.tab = t, !.item = i, !.amt = amt]
  <2>2. a \in Arguments /\ a.ord = o /\ a.item = i /\ a.pay = 0
    BY <1>2 DEF NoArg, Arguments, AllOps
  <2>3. /\ Begin(s, "append", a) /\ Take(s, TableRows({t})) /\ UNCHANGED <<rows, created, seen>>
        /\ item[i] = NoItem /\ \A x \in Sessions : arg[x].item # i
    BY <2>1 DEF FreshItem
  <2> HIDE DEF a
  <2>4. TypeOK' /\ pc'[s] = "append" /\ arg'[s] = a
    <3>1. "append" \in Phases /\ created' \in 0 .. MaxOrders /\ seen' \in [Sessions -> Reads]
          /\ UNCHANGED rows
      BY <2>3 DEF Phases, TypeOK
    <3> QED
      BY <1>3, <2>2, <2>3, <3>1
  <2>5. Apart(s)
    BY <1>2, <2>2, <2>3, <2>4 DEF Apart, Held, PayFresh
  <2>6. LineFresh(s)'
    BY <1>1, <2>2, <2>3, <2>4 DEF LineFresh, Alone, rows
  <2>7. arg'[s].ord \in Orders
    BY <2>2, <2>4
  <2>8. Held(s)'
    BY <2>2, <2>4, <2>6, <2>7
    DEF Held, OrderHeld, LineHeld, PaymentHeld, ChargeChecked, IdFresh, PayFresh,
        ArgsOK, OrderPhases, EditPhases, Editing, Paying
  <2> QED
    BY <1>1, <2>3, <2>4, <2>5, <2>8, QuietInv DEF TypeOK
<1>8. CASE AddLock(s)
  <2>1. PICK o \in Orders, amt \in Amounts, i \in Items :
          AddLock(s)!(o, amt, i)
    BY <1>8 DEF AddLock
  <2> DEFINE a == [NoArg EXCEPT !.op = "add", !.ord = o, !.item = i, !.amt = amt]
  <2>2. a \in Arguments /\ a.ord = o /\ a.item = i /\ a.pay = 0
    BY <1>2 DEF NoArg, Arguments, AllOps
  <2>3. /\ Begin(s, "add", a) /\ Take(s, {OrderRow(o)}) /\ UNCHANGED <<rows, created, seen>>
        /\ item[i] = NoItem /\ \A x \in Sessions : arg[x].item # i
    BY <2>1 DEF FreshItem
  <2> HIDE DEF a
  <2>4. TypeOK' /\ pc'[s] = "add" /\ arg'[s] = a
    <3>1. "add" \in Phases /\ created' \in 0 .. MaxOrders /\ seen' \in [Sessions -> Reads]
          /\ UNCHANGED rows
      BY <2>3 DEF Phases, TypeOK
    <3> QED
      BY <1>3, <2>2, <2>3, <3>1
  <2>5. Apart(s)
    BY <1>2, <2>2, <2>3, <2>4 DEF Apart, Held, PayFresh
  <2>6. LineFresh(s)'
    BY <1>1, <2>2, <2>3, <2>4 DEF LineFresh, Alone, rows
  <2>7. OrderHeld(s)'
    <3>1. OrderRow(o) \in Rows /\ Exists(o)
      BY <2>1 DEF Rows
    <3> QED
      BY <2>2, <2>3, <2>4, <3>1, TakeAlone DEF OrderHeld, Exists, rows
  <2>8. Held(s)'
    BY <2>2, <2>4, <2>6, <2>7
    DEF Held, OrderHeld, LineHeld, PaymentHeld, ChargeChecked, IdFresh, PayFresh,
        ArgsOK, OrderPhases, EditPhases, Editing, Paying
  <2> QED
    BY <1>1, <2>3, <2>4, <2>5, <2>8, QuietInv DEF TypeOK
<1>9. CASE UpdateLock(s)
  <2>1. PICK o \in Orders, t \in Tables \cup {NoTable}, raw \in StatusInputs \cup {"keep"} : UpdateLock(s)!(o, t, raw)
    BY <1>9 DEF UpdateLock
  <2> DEFINE a == [NoArg EXCEPT !.op = "update", !.ord = o, !.tab = t, !.st = Normalize(raw)]
  <2>2. a \in Arguments /\ a.ord = o /\ a.item = 0 /\ a.pay = 0 /\ a.st \in Statuses \cup {"keep"}
    BY <1>2, NormalizeType, NormalizeKeep DEF NoArg, Arguments, AllOps
  <2>3. Begin(s, "update", a) /\ Take(s, {OrderRow(o)}) /\ UNCHANGED <<rows, created, seen>>
    BY <2>1
  <2> HIDE DEF a
  <2>4. TypeOK' /\ pc'[s] = "update" /\ arg'[s] = a
    <3>1. "update" \in Phases /\ created' \in 0 .. MaxOrders /\ seen' \in [Sessions -> Reads]
          /\ UNCHANGED rows
      BY <2>3 DEF Phases, TypeOK
    <3> QED
      BY <1>3, <2>2, <2>3, <3>1
  <2>5. Apart(s)
    BY <1>2, <2>2, <2>4 DEF Apart, Held, LineFresh, PayFresh
  <2>6. OrderHeld(s)'
    <3>1. OrderRow(o) \in Rows /\ Exists(o)
      BY <2>1 DEF Rows
    <3> QED
      BY <2>2, <2>3, <2>4, <3>1, TakeAlone DEF OrderHeld, Exists, rows
  <2>7. Held(s)'
    BY <2>2, <2>4, <2>6
    DEF Held, LineHeld, PaymentHeld, ChargeChecked, IdFresh, LineFresh, PayFresh,
        ArgsOK, EditPhases, Editing, Inserting, Paying
  <2> QED
    BY <1>1, <2>3, <2>4, <2>5, <2>7, QuietInv DEF TypeOK
<1>10. CASE DeleteLock(s)
  <2>1. PICK o \in Orders : DeleteLock(s)!(o)
    BY <1>10 DEF DeleteLock
  <2> DEFINE a == [NoArg EXCEPT !.op = "delete", !.ord = o]
  <2>2. a \in Arguments /\ a.ord = o /\ a.item = 0 /\ a.pay = 0
    BY <1>2 DEF NoArg, Arguments, AllOps
  <2>3. Begin(s, "delete", a) /\ Take(s, {OrderRow(o)}) /\ UNCHANGED <<rows, created, seen>>
    BY <2>1
  <2> HIDE DEF a
  <2>4. TypeOK' /\ pc'[s] = "delete" /\ arg'[s] = a
    <3>1. "delete" \in Phases /\ created' \in 0 .. MaxOrders /\ seen' \in [Sessions -> Reads]
          /\ UNCHANGED rows
      BY <2>3 DEF Phases, TypeOK
    <3> QED
      BY <1>3, <2>2, <2>3, <3>1
  <2>5. Apart(s)
    BY <1>2, <2>2, <2>4 DEF Apart, Held, LineFresh, PayFresh
  <2>6. OrderHeld(s)'
    <3>1. OrderRow(o) \in Rows /\ Exists(o)
      BY <2>1 DEF Rows
    <3> QED
      BY <2>2, <2>3, <2>4, <3>1, TakeAlone DEF OrderHeld, Exists, rows
  <2>7. Held(s)'
    BY <2>2, <2>4, <2>6
    DEF Held, LineHeld, PaymentHeld, ChargeChecked, IdFresh, LineFresh, PayFresh,
        ArgsOK, EditPhases, Editing, Inserting, Paying
  <2> QED
    BY <1>1, <2>3, <2>4, <2>5, <2>7, QuietInv DEF TypeOK
<1>11. CASE ItemLock(s)
  <2>1. PICK i \in Items, c \in ItemChanges : ItemLock(s)!(i, c)
    BY <1>11 DEF ItemLock
  <2> DEFINE a == [NoArg EXCEPT !.op = c.op, !.ord = item[i].ord, !.item = i,
                                !.st = c.st, !.amt = c.amt]
  <2>2. /\ a \in Arguments /\ a.ord = item[i].ord /\ a.item = i /\ a.pay = 0
        /\ \/ a.op = "itemStatus" /\ a.st \in Statuses
           \/ a.op \in {"itemDetails", "itemCancel"}
    <3>1. c.op \in AllOps /\ c.st \in Statuses \cup {"none"} /\ c.amt \in Nat
          /\ ((c.op = "itemStatus" /\ c.st \in Statuses) \/ c.op \in {"itemDetails", "itemCancel"})
      <4>1. \A st \in {Normalize(raw) : raw \in StatusInputs} : st \in Statuses
        BY NormalizeType
      <4>2. CASE c \in [op: {"itemStatus"} \cap Ops, amt: {0},
                        st: {Normalize(raw) : raw \in StatusInputs}]
        BY <4>1, <4>2 DEF AllOps
      <4>3. CASE c \in [op: {"itemDetails"} \cap Ops, st: {"none"}, amt: Amounts]
        BY <1>2, <4>3 DEF AllOps
      <4>4. CASE c \in [op: {"itemCancel"} \cap Ops, st: {"none"}, amt: {0}]
        BY <4>4 DEF AllOps
      <4> QED
        BY <4>2, <4>3, <4>4 DEF ItemChanges
    <3> QED
      BY <3>1 DEF NoArg, Arguments, TypeOK, LineRecord
  <2>3. Begin(s, "item", a) /\ Take(s, ItemRows({i})) /\ UNCHANGED <<rows, created, seen>>
        /\ item[i] # NoItem
    BY <2>1
  <2> HIDE DEF a
  <2>4. TypeOK' /\ pc'[s] = "item" /\ arg'[s] = a
    <3>1. "item" \in Phases /\ created' \in 0 .. MaxOrders /\ seen' \in [Sessions -> Reads]
          /\ UNCHANGED rows
      BY <2>3 DEF Phases, TypeOK
    <3> QED
      BY <1>3, <2>2, <2>3, <3>1
  <2>5. Apart(s)
    BY <1>2, <2>2, <2>3, <2>4 DEF Apart, Held, LineFresh, PayFresh
  <2>6. LineHeld(s)'
    <3>1. <<"item", i>> \in Rows /\ <<"item", i>> \in ItemRows({i})
      BY DEF Rows, ItemRows
    <3>2. item[i].ord \in Orders
      BY <2>3 DEF NoOrphans
    <3> QED
      BY <2>2, <2>3, <2>4, <3>1, <3>2, TakeAlone DEF LineHeld, rows
  <2>7. Held(s)'
    BY <2>2, <2>4, <2>6
    DEF Held, OrderHeld, PaymentHeld, ChargeChecked, IdFresh, LineFresh, PayFresh,
        ArgsOK, OrderPhases, EditPhases, Editing, Inserting, Paying
  <2> QED
    BY <1>1, <2>3, <2>4, <2>5, <2>7, QuietInv DEF TypeOK
<1>12. CASE PayLock(s)
  <2>1. PICK o \in Orders, p \in Pays, amt \in Amounts, st \in PayInputs :
          PayLock(s)!(o, p, amt, st)
    BY <1>12 DEF PayLock
  <2> DEFINE a == [NoArg EXCEPT !.op = "pay", !.ord = o, !.pay = p, !.st = st, !.amt = amt]
             v == [status |-> order[o].status, total |-> order[o].total,
                   table |-> order[o].table,
                   paid |-> Paid(pay, o) + (IF st = "Success" THEN amt ELSE 0)]
  <2>2. /\ a \in Arguments /\ a.op = "pay" /\ a.ord = o /\ a.item = 0 /\ a.pay = p
        /\ a.st = st /\ a.st \in PayStatuses /\ a.amt = amt
    BY <1>2, StatusAssumption DEF NoArg, Arguments, AllOps
  <2>3. /\ Begin(s, "refresh", a) /\ Take(s, {OrderRow(o)}) /\ UNCHANGED <<rows, created>>
        /\ seen' = [seen EXCEPT ![s] = v]
        /\ Exists(o) /\ order[o].status \notin Settled /\ (st = "Success" => Due(o, amt))
        /\ pay[p] = NoPay /\ \A x \in Sessions : arg[x].pay # p
    BY <2>1 DEF FreshPay
  <2>4. v \in Reads /\ v.status \in Statuses
    BY <1>2, <2>3, PaidNat DEF TypeOK, OrderRecord, Reads, Exists, OrderStatuses
  <2> HIDE DEF a, v
  <2>5. TypeOK' /\ pc'[s] = "refresh" /\ arg'[s] = a /\ seen'[s] = v
    <3>1. "refresh" \in Phases /\ created' \in 0 .. MaxOrders /\ seen' \in [Sessions -> Reads]
          /\ UNCHANGED rows /\ seen'[s] = v
      BY <2>3, <2>4 DEF Phases, TypeOK
    <3> QED
      BY <1>3, <2>2, <2>3, <3>1
  <2>6. Apart(s)
    BY <1>2, <2>2, <2>3, <2>5 DEF Apart, Held, LineFresh, PayFresh
  <2>7. OrderHeld(s)'
    <3>1. OrderRow(o) \in Rows
      BY DEF Rows
    <3> QED
      BY <2>2, <2>3, <2>5, <3>1, TakeAlone DEF OrderHeld, Exists, rows
  <2>8. ChargeChecked(s)' /\ PayFresh(s)'
    BY <1>1, <2>2, <2>3, <2>5 DEF ChargeChecked, PayFresh, Paying, Due, Alone, rows
  <2>9. Held(s)'
    BY <2>2, <2>4, <2>5, <2>7, <2>8
    DEF Held, LineHeld, PaymentHeld, IdFresh, LineFresh, ArgsOK, EditPhases, Editing, Inserting
  <2> QED
    BY <1>1, <2>3, <2>5, <2>6, <2>9, QuietInv DEF TypeOK
<1>13. CASE EditFind(s)
  <2>1. PICK p \in Pays, c \in PayChanges : EditFind(s)!(p, c)
    BY <1>13 DEF EditFind
  <2> DEFINE a == [NoArg EXCEPT !.op = c.op, !.ord = pay[p].ord, !.pay = p,
                                !.st = c.st, !.amt = c.amt]
  <2>2. /\ a \in Arguments /\ a.ord = pay[p].ord /\ a.item = 0 /\ a.pay = p
        /\ a.op \in {"editPay", "dropPay"}
        /\ a.op # "dropPay" => a.st \in PayStatuses
    <3>1. c.op \in {"editPay", "dropPay"} /\ c.st \in PayStatuses \cup {"none"} /\ c.amt \in Nat
          /\ (c.op # "dropPay" => c.st \in PayStatuses)
      <4>1. CASE c \in [op: {"editPay"} \cap Ops, st: PayInputs, amt: Amounts]
        BY <1>2, <4>1, StatusAssumption
      <4>2. CASE c \in [op: {"dropPay"} \cap Ops, st: {"none"}, amt: {0}]
        BY <4>2
      <4> QED
        BY <4>1, <4>2 DEF PayChanges
    <3> QED
      BY <3>1 DEF NoArg, Arguments, AllOps, TypeOK, PaymentRecord
  <2>3. Begin(s, "edit.find", a) /\ UNCHANGED <<rows, created, lock, seen>> /\ pay[p] # NoPay
    BY <2>1
  <2> HIDE DEF a
  <2>4. TypeOK' /\ pc'[s] = "edit.find" /\ arg'[s] = a
    <3>1. "edit.find" \in Phases
      BY DEF Phases
    <3> QED
      BY <2>2, <2>3, <3>1 DEF Begin, TypeOK, rows
  <2>5. Apart(s)
    BY <1>2, <2>2, <2>3, <2>4 DEF Apart, Held, LineFresh, PayFresh
  <2>6. PaymentHeld(s)'
    <3>1. pay[p].ord \in Orders
      BY <2>3 DEF NoOrphans
    <3> QED
      BY <2>2, <2>3, <2>4, <3>1 DEF PaymentHeld, Editing, EditPhases, rows
  <2>7. Held(s)'
    BY <2>2, <2>4, <2>6
    DEF Held, OrderHeld, LineHeld, ChargeChecked, IdFresh, LineFresh, PayFresh,
        ArgsOK, OrderPhases, EditPhases, Inserting, Paying
  <2> QED
    BY <1>1, <2>3, <2>4, <2>5, <2>7, QuietInv DEF TypeOK
<1> QED
  BY <1>4, <1>5, <1>6, <1>7, <1>8, <1>9, <1>10, <1>11, <1>12, <1>13 DEF Request

\* Steps in the middle of a request that write nothing keep the request's arguments.
LEMMA WaitInv ==
  ASSUME IInv, NEW s \in Sessions,
         AppendLock(s) \/ UpdateTables(s) \/ EditLock(s) \/ (EditMissed(s) /\ ~End(s))
            \/ EditReadOrder(s) \/ EditReadPays(s) \/ EditLockOrder(s)
  PROVE  IInv'
<1> USE DEF IInv
<1>1. Alone(s)
  BY StepAlone DEF Step, Continue
<1>2. Apart(s) /\ UNCHANGED <<rows, created, arg>>
  <2>1. UNCHANGED <<rows, created, arg>> /\ pc'[s] # "create"
    BY DEF AppendLock, UpdateTables, EditLock, EditMissed, EditReadOrder, EditReadPays,
           EditLockOrder, Advance, TypeOK
  <2> QED
    BY <2>1 DEF Apart, Held, LineFresh, PayFresh
<1>3. ASSUME TypeOK', Held(s)' PROVE IInv'
  BY <1>1, <1>2, <1>3, QuietInv DEF TypeOK
<1>4. CASE AppendLock(s)
  <2>1. /\ pc[s] = "append" /\ pc' = [pc EXCEPT ![s] = "add"] /\ Exists(arg[s].ord)
        /\ Take(s, {OrderRow(arg[s].ord)}) /\ UNCHANGED <<rows, created, arg, seen>>
    BY <1>4 DEF AppendLock, Advance
  <2>2. TypeOK'
    BY <2>1, TakeType DEF TypeOK, Phases, rows
  <2>3. OrderHeld(s)'
    <3>1. arg[s].ord \in Orders /\ OrderRow(arg[s].ord) \in Rows
      BY <2>1 DEF Held, ArgsOK, Rows
    <3> QED
      BY <2>1, <3>1, TakeAlone DEF OrderHeld, Exists, rows
  <2>4. LineFresh(s)'
    BY <2>1 DEF Held, LineFresh, Inserting, TypeOK, rows
  <2>5. Held(s)'
    BY <2>1, <2>3, <2>4
    DEF Held, LineHeld, PaymentHeld, ChargeChecked, IdFresh, PayFresh, ArgsOK,
        EditPhases, Editing, Paying, TypeOK
  <2> QED
    BY <1>3, <2>2, <2>5
<1>5. CASE UpdateTables(s)
  <2>1. /\ pc[s] = "update" /\ pc' = [pc EXCEPT ![s] = "update.write"]
        /\ Take(s, UpdateTablesRows(s)) /\ UNCHANGED <<rows, created, arg, seen>>
    BY <1>5 DEF UpdateTables, Advance
  <2>2. TypeOK'
    BY <2>1, TakeType DEF TypeOK, Phases, rows
  <2>3. OrderHeld(s)'
    <3>1. arg[s].ord \in Orders /\ OrderRow(arg[s].ord) \in Rows /\ Exists(arg[s].ord)
          /\ lock[OrderRow(arg[s].ord)] = s
      BY <2>1 DEF Held, OrderHeld, OrderPhases, Rows
    <3> QED
      BY <2>1, <3>1, TakeAlone DEF OrderHeld, Exists, rows
  <2>4. arg[s].st \in Statuses \cup {"keep"} /\ pc'[s] = "update.write"
    BY <2>1 DEF Held, ArgsOK, TypeOK
  <2>5. Held(s)'
    BY <2>1, <2>3, <2>4
    DEF Held, LineHeld, PaymentHeld, ChargeChecked, IdFresh, LineFresh, PayFresh, ArgsOK,
        EditPhases, Editing, Paying, Inserting
  <2> QED
    BY <1>3, <2>2, <2>5
<1>6. CASE EditReadOrder(s)
  <2> DEFINE v == [status |-> order[arg[s].ord].status, total |-> order[arg[s].ord].total,
                   table |-> order[arg[s].ord].table, paid |-> 0]
  <2>1. /\ pc[s] = "edit" /\ pc' = [pc EXCEPT ![s] = "edit.sum"]
        /\ seen' = [seen EXCEPT ![s] = v] /\ UNCHANGED <<rows, created, lock, arg>>
        /\ Exists(arg[s].ord)
    BY <1>6 DEF EditReadOrder, Advance
  <2>2. PaymentHeld(s) /\ Editing(s) /\ arg[s].ord \in Orders
    BY <2>1 DEF Held, PaymentHeld, Editing, EditPhases
  <2>3. v \in Reads /\ v.status \in Statuses
    BY <2>1, <2>2 DEF TypeOK, OrderRecord, Reads, Exists, OrderStatuses
  <2> HIDE DEF v
  <2>4. TypeOK'
    BY <2>1, <2>3 DEF TypeOK, Phases, rows
  <2>5. pc'[s] = "edit.sum" /\ seen'[s] = v
    BY <2>1 DEF TypeOK
  <2>6. Held(s)'
    BY <2>1, <2>2, <2>3, <2>5
    DEF Held, OrderHeld, LineHeld, PaymentHeld, ChargeChecked, IdFresh, LineFresh, PayFresh,
        ArgsOK, OrderPhases, EditPhases, Editing, Paying, Inserting, rows
  <2> QED
    BY <1>3, <2>4, <2>6
<1>7. CASE EditReadPays(s)
  <2> DEFINE v == Paid(NewPays(s), arg[s].ord)
  <2>1. /\ pc[s] = "edit.sum" /\ pc' = [pc EXCEPT ![s] = "edit.order"]
        /\ seen' = [seen EXCEPT ![s].paid = v] /\ UNCHANGED <<rows, created, lock, arg>>
    BY <1>7 DEF EditReadPays, Advance
  <2>2. v \in Nat
    BY PaidNat
  <2> HIDE DEF v
  <2>3. seen' \in [Sessions -> Reads] /\ seen'[s].status = seen[s].status
        /\ pc'[s] = "edit.order"
    BY <2>1, <2>2 DEF TypeOK, Reads
  <2>4. TypeOK'
    BY <2>1, <2>3 DEF TypeOK, Phases, rows
  <2>5. Held(s)'
    BY <2>1, <2>3
    DEF Held, OrderHeld, LineHeld, PaymentHeld, ChargeChecked, IdFresh, LineFresh, PayFresh,
        ArgsOK, OrderPhases, EditPhases, Editing, Paying, Inserting, rows
  <2> QED
    BY <1>3, <2>4, <2>5
<1>8. CASE EditLockOrder(s)
  <2>1. /\ pc[s] = "edit.order" /\ pc' = [pc EXCEPT ![s] = "refresh"]
        /\ Take(s, {OrderRow(arg[s].ord)}) /\ UNCHANGED <<rows, created, arg, seen>>
        /\ Exists(arg[s].ord)
    BY <1>8 DEF EditLockOrder, Advance
  <2>2. /\ arg[s].op \in {"editPay", "dropPay"} /\ arg[s].pay \in Pays
        /\ arg[s].ord \in Orders /\ PaymentHeld(s) /\ Editing(s)
    BY <2>1 DEF Held, PaymentHeld, Editing, EditPhases
  <2>3. OrderRow(arg[s].ord) \in Rows /\ <<"pay", arg[s].pay>> \in Rows
    BY <2>2 DEF Rows, PayRows
  <2>4. TypeOK'
    BY <2>1, TakeType DEF TypeOK, Phases, rows
  <2>5. OrderHeld(s)' /\ PaymentHeld(s)'
    BY <2>1, <2>2, <2>3, TakeAlone DEF OrderHeld, PaymentHeld, Exists, rows
  <2>6. /\ pc'[s] = "refresh" /\ seen[s].status \in Statuses
        /\ arg[s].op # "dropPay" => arg[s].st \in PayStatuses
    BY <2>1 DEF Held, ArgsOK, EditPhases, TypeOK
  <2>7. Held(s)'
    BY <2>1, <2>2, <2>5, <2>6
    DEF Held, LineHeld, ChargeChecked, IdFresh, LineFresh, PayFresh, ArgsOK,
        EditPhases, Paying, Inserting
  <2> QED
    BY <1>3, <2>4, <2>7
<1>9. CASE EditLock(s)
  <2>1. /\ pc[s] = "edit.find" /\ pc' = [pc EXCEPT ![s] = "edit"] /\ pay[arg[s].pay] # NoPay
        /\ Take(s, PayRows({arg[s].pay})) /\ UNCHANGED <<rows, created, arg, seen>>
    BY <1>9 DEF EditLock, Advance
  <2>2. /\ arg[s].op \in {"editPay", "dropPay"} /\ arg[s].pay \in Pays /\ arg[s].ord \in Orders
        /\ pay[arg[s].pay].ord = arg[s].ord
    BY <2>1 DEF Held, PaymentHeld
  <2>3. <<"pay", arg[s].pay>> \in Rows /\ <<"pay", arg[s].pay>> \in PayRows({arg[s].pay})
    BY <2>2 DEF Rows, PayRows
  <2>4. TypeOK'
    BY <2>1, TakeType DEF TypeOK, Phases, rows
  <2>5. PaymentHeld(s)'
    BY <2>1, <2>2, <2>3, TakeAlone DEF PaymentHeld, rows
  <2>6. pc'[s] = "edit" /\ (arg[s].op # "dropPay" => arg[s].st \in PayStatuses)
    BY <2>1 DEF Held, ArgsOK, TypeOK
  <2>7. Held(s)'
    BY <2>1, <2>5, <2>6
    DEF Held, OrderHeld, LineHeld, ChargeChecked, IdFresh, LineFresh, PayFresh, ArgsOK,
        OrderPhases, EditPhases, Paying, Inserting
  <2> QED
    BY <1>3, <2>4, <2>7
<1>10. CASE EditMissed(s) /\ ~End(s)
  <2>1. /\ pc[s] = "edit.find" /\ pc' = [pc EXCEPT ![s] = "edit"] /\ pay[arg[s].pay] = NoPay
        /\ arg[s].op = "dropPay" /\ UNCHANGED <<rows, created, lock, arg, seen>>
    BY <1>10 DEF EditMissed, Advance
  <2>2. TypeOK'
    BY <2>1 DEF TypeOK, Phases, rows
  <2>3. PaymentHeld(s)' /\ pc'[s] = "edit"
    BY <2>1 DEF Held, PaymentHeld, TypeOK, rows
  <2>4. Held(s)'
    BY <2>1, <2>3
    DEF Held, OrderHeld, LineHeld, ChargeChecked, IdFresh, LineFresh, PayFresh, ArgsOK,
        OrderPhases, EditPhases, Paying, Inserting
  <2> QED
    BY <1>3, <2>2, <2>4
<1> QED
  BY <1>4, <1>5, <1>6, <1>7, <1>8, <1>9, <1>10

\* A request that ends without having written, or only gives a table back.
LEMMA RollbackInv ==
  ASSUME IInv, NEW s \in Sessions,
         UpdateReject(s) \/ DeadlockVictim(s) \/ Crash(s) \/ (EditMissed(s) /\ End(s))
            \/ EditNoOrder(s) \/ RefreshMissed(s)
  PROVE  IInv'
<1> USE DEF IInv
<1>1. Alone(s)
  BY StepAlone DEF Step, Continue
<1>2. /\ End(s) /\ UNCHANGED <<order, item, pay, snap, created>>
      /\ table' \in [Tables -> {"Available", "Unavailable"}]
  BY DEF UpdateReject, DeadlockVictim, Crash, EditMissed, EditNoOrder, RefreshMissed, rows, TypeOK
<1>3. pc'[s] = "idle" /\ arg'[s] = NoArg
  BY <1>2, EndAlone
<1>4. Apart(s)
  <2>1. NoArg.item \notin Items /\ NoArg.pay \notin Pays
    BY DEF NoArg, Items, Pays
  <2> QED
    BY <1>3, <2>1 DEF Apart, Held, LineFresh, PayFresh
<1>5. TypeOK'
  BY <1>2, EndType DEF TypeOK
<1>6. Held(s)'
  BY <1>3
  DEF Held, OrderHeld, LineHeld, PaymentHeld, ChargeChecked, IdFresh, LineFresh, PayFresh,
      ArgsOK, OrderPhases, EditPhases, Editing, Paying, Inserting
<1> QED
  BY <1>1, <1>2, <1>4, <1>5, <1>6, TableInv DEF TypeOK

(***************************************************************************)
(* A step that commits.  All the rows it writes belong to one order, which *)
(* no other session has locked or is creating.                             *)
(***************************************************************************)
LineMoves(s, o, i) ==
    \/ item'[i] = item[i]
    \/ item[i].ord = o /\ item'[i].ord = o
    \/ item[i].ord = o /\ item'[i] = NoItem /\ lock[<<"item", i>>] \in {Free, s}
    \/ Inserting(s) /\ i = arg[s].item /\ item'[i].ord = o

PaymentMoves(s, o, p) ==
    \/ pay'[p] = pay[p]
    \/ pay[p].ord = o /\ pay'[p].ord = o
    \/ pay[p].ord = o /\ pay'[p] = NoPay /\ lock[<<"pay", p>>] \in {Free, s}
    \/ Paying(s) /\ p = arg[s].pay /\ pay'[p].ord = o

Within(s, o) ==
    /\ \A q \in Orders \ {o} : order'[q] = order[q] /\ snap'[q] = snap[q]
    /\ \A i \in Items : LineMoves(s, o, i)
    /\ \A p \in Pays : PaymentMoves(s, o, p)
    /\ snap'[o] = Summary(order', item', o)

Unclaimed(s, o) ==
    \A x \in Sessions \ {s} :
        pc[x] \in OrderPhases \cup {"create"} => arg[x].ord # o

Commits(s) == arg[s].ord \in Orders /\ Within(s, arg[s].ord) /\ Unclaimed(s, arg[s].ord)

\* What Within leaves as it was for another order.
LEMMA OtherOrders ==
  ASSUME IInv, NEW s \in Sessions, NEW o \in Orders, Within(s, o), NEW q \in Orders, q # o
  PROVE  /\ Lines(item', q) = Lines(item, q)
         /\ LiveLines(item', q) = LiveLines(item, q)
         /\ \A i \in Items : item[i].ord = q => item'[i] = item[i]
         /\ \A p \in Pays : pay[p].ord = q => pay'[p] = pay[p]
         /\ Paid(pay', q) = Paid(pay, q)
         /\ OrderTotal(item', q) = OrderTotal(item, q)
         /\ Summary(order', item', q) = Summary(order, item, q)
<1> USE DEF IInv
<1>1. NoItem.ord = 0 /\ NoPay.ord = 0 /\ NoPay.status = "Absent" /\ 0 \notin Orders
  BY DEF NoItem, NoPay, Orders
<1>2. ASSUME NEW i \in Items
      PROVE  /\ item[i].ord = q => item'[i] = item[i]
             /\ item'[i].ord = q => item'[i] = item[i]
  <2>1. LineMoves(s, o, i)
    BY DEF Within
  <2>2. Inserting(s) /\ i = arg[s].item => item[i].ord = 0
    BY <1>1 DEF Held, LineFresh
  <2> QED
    BY <1>1, <2>1, <2>2 DEF LineMoves
<1>3. Lines(item', q) = Lines(item, q) /\ LiveLines(item', q) = LiveLines(item, q)
  BY <1>2 DEF Lines, LiveLines
<1>4. ASSUME NEW p \in Pays
      PROVE  /\ pay[p].ord = q => pay'[p] = pay[p]
             /\ pay'[p].ord = q => pay'[p] = pay[p]
  <2>1. PaymentMoves(s, o, p)
    BY DEF Within
  <2>2. Paying(s) /\ p = arg[s].pay => pay[p].ord = 0
    BY <1>1 DEF Held, PayFresh
  <2> QED
    BY <1>1, <2>1, <2>2 DEF PaymentMoves
<1>5. Paid(pay', q) = Paid(pay, q)
  <2>1. Success(pay', q) = Success(pay, q)
    BY <1>4 DEF Success
  <2>2. \A p \in Success(pay, q) : pay'[p] = pay[p]
    BY <1>4 DEF Success
  <2>3. [p \in Success(pay', q) |-> pay'[p].amt] = [p \in Success(pay, q) |-> pay[p].amt]
    BY <2>1, <2>2
  <2> QED
    BY <2>3 DEF Paid
<1>6. OrderTotal(item', q) = OrderTotal(item, q)
  <2>1. \A i \in LiveLines(item, q) : item'[i] = item[i]
    BY <1>2 DEF LiveLines, Lines
  <2>2. [i \in LiveLines(item', q) |-> item'[i].amt] = [i \in LiveLines(item, q) |-> item[i].amt]
    BY <1>3, <2>1
  <2> QED
    BY <2>2 DEF OrderTotal, SubTotal
<1>7. Summary(order', item', q) = Summary(order, item, q)
  BY <1>3 DEF Summary, Within
<1> QED
  BY <1>2, <1>3, <1>4, <1>5, <1>6, <1>7

LEMMA CommitInv ==
  ASSUME IInv, NEW s \in Sessions, NEW o \in Orders, Within(s, o), Unclaimed(s, o),
         End(s), created' = created, o <= created, TypeOK',
         \/ order'[o].status # "Absent"
         \/ /\ \A i \in Items : item'[i].ord # o
            /\ \A p \in Pays : pay'[p].ord # o,
         Lines(item', o) # {} => order'[o].total = OrderTotal(item', o)
  PROVE  IInv'
<1> USE DEF IInv
<1>1. /\ pc'[s] = "idle" /\ arg'[s] = NoArg
      /\ \A x \in Sessions \ {s} :
           /\ pc'[x] = pc[x] /\ arg'[x] = arg[x] /\ seen'[x] = seen[x]
           /\ \A r \in Rows : lock[r] = x => lock'[r] = x
  BY EndAlone
<1>2. NoItem.ord = 0 /\ NoPay.ord = 0 /\ 0 \notin Orders
      /\ NoArg.item \notin Items /\ NoArg.pay \notin Pays
  BY DEF NoItem, NoPay, NoArg, Orders, Items, Pays
<1>3. SnapshotAgrees' /\ TotalMatchesLines'
  BY OtherOrders DEF SnapshotAgrees, TotalMatchesLines, Within
<1>4. IdsInOrder'
  BY DEF IdsInOrder, Exists, Within, TypeOK, Orders
<1>5. NoOrphans'
  <2>1. ASSUME NEW i \in Items, item'[i] # NoItem
        PROVE  item'[i].ord \in Orders /\ order'[item'[i].ord].status # "Absent"
    <3>1. item'[i].ord = o \/ item'[i] = item[i]
      BY <2>1, <1>2 DEF Within, LineMoves
    <3> QED
      BY <2>1, <3>1 DEF NoOrphans, Exists, Within
  <2>2. ASSUME NEW p \in Pays, pay'[p] # NoPay
        PROVE  pay'[p].ord \in Orders /\ order'[pay'[p].ord].status # "Absent"
    <3>1. pay'[p].ord = o \/ pay'[p] = pay[p]
      BY <2>2, <1>2 DEF Within, PaymentMoves
    <3> QED
      BY <2>2, <3>1 DEF NoOrphans, Exists, Within
  <2> QED
    BY <2>1, <2>2 DEF NoOrphans, Exists
<1>6. Held(s)'
  BY <1>1
  DEF Held, OrderHeld, LineHeld, PaymentHeld, ChargeChecked, IdFresh, LineFresh, PayFresh,
      ArgsOK, OrderPhases, EditPhases, Editing, Paying, Inserting
<1>7. ASSUME NEW x \in Sessions, x # s PROVE Held(x)'
  <2>1. /\ pc'[x] = pc[x] /\ arg'[x] = arg[x] /\ seen'[x] = seen[x]
        /\ \A r \in Rows : lock[r] = x => lock'[r] = x
        /\ pc[x] \in OrderPhases \cup {"create"} => arg[x].ord # o
    BY <1>1, <1>7 DEF Unclaimed
  <2>2. OrderHeld(x)'
    <3>1. pc[x] \in OrderPhases =>
            OrderRow(arg[x].ord) \in Rows /\ order'[arg[x].ord] = order[arg[x].ord]
      BY <2>1 DEF Held, OrderHeld, Rows, Within
    <3> QED
      BY <2>1, <3>1 DEF Held, OrderHeld, Exists
  <2>3. LineHeld(x)'
    <3> SUFFICES ASSUME pc[x] = "item" PROVE LineHeld(x)'
      BY <2>1 DEF LineHeld
    <3>1. /\ arg[x].ord \in Orders /\ arg[x].item \in Items
          /\ lock[<<"item", arg[x].item>>] = x /\ item[arg[x].item].ord = arg[x].ord
      BY DEF Held, LineHeld
    <3>2. <<"item", arg[x].item>> \in Rows /\ Free # x
      BY <3>1, NamesAssumption DEF Rows, ItemRows
    <3>3. item'[arg[x].item].ord = arg[x].ord
      <4>1. LineMoves(s, o, arg[x].item)
        BY <3>1 DEF Within
      <4>2. ~ (Inserting(s) /\ arg[s].item = arg[x].item)
        BY <1>7 DEF Held, LineFresh
      <4> QED
        BY <1>7, <3>1, <3>2, <4>1, <4>2 DEF LineMoves
    <3> QED
      BY <2>1, <3>1, <3>2, <3>3 DEF LineHeld
  <2>4. PaymentHeld(x)'
    <3> SUFFICES ASSUME pc[x] = "edit.find" \/ Editing(x) PROVE PaymentHeld(x)'
      BY <2>1 DEF PaymentHeld, Editing
    <3>1. /\ arg[x].ord \in Orders /\ arg[x].pay \in Pays /\ arg[x].op \in {"editPay", "dropPay"}
          /\ pay[arg[x].pay].ord = arg[x].ord \/ pay[arg[x].pay] = NoPay
          /\ Editing(x) => IF pay[arg[x].pay] = NoPay THEN arg[x].op = "dropPay"
                           ELSE lock[<<"pay", arg[x].pay>>] = x
      BY DEF Held, PaymentHeld
    <3>2. <<"pay", arg[x].pay>> \in Rows /\ Free # x
      BY <3>1, NamesAssumption DEF Rows, PayRows
    <3>3. PaymentMoves(s, o, arg[x].pay) /\ ~ (Paying(s) /\ arg[s].pay = arg[x].pay)
      BY <1>7, <3>1 DEF Within, Held, PayFresh
    <3>4. CASE pay[arg[x].pay] = NoPay
      BY <1>2, <2>1, <3>1, <3>3, <3>4 DEF PaymentMoves, PaymentHeld, Editing
    <3>5. CASE pay[arg[x].pay] # NoPay
      <4>1. \/ pay'[arg[x].pay] = pay[arg[x].pay]
            \/ pay'[arg[x].pay].ord = arg[x].ord
            \/ pay'[arg[x].pay] = NoPay /\ lock[<<"pay", arg[x].pay>>] \in {Free, s}
        BY <3>1, <3>3, <3>5 DEF PaymentMoves
      <4>2. Editing(x) => lock[<<"pay", arg[x].pay>>] = x /\ lock'[<<"pay", arg[x].pay>>] = x
        BY <2>1, <3>1, <3>2, <3>5
      <4>3. pay'[arg[x].pay].ord = arg[x].ord \/ (pay'[arg[x].pay] = NoPay /\ ~Editing(x))
        BY <1>7, <3>1, <3>2, <3>5, <4>1, <4>2
      <4>4. pay'[arg[x].pay].ord = arg[x].ord => pay'[arg[x].pay] # NoPay
        BY <1>2, <3>1
      <4> QED
        BY <2>1, <3>1, <4>2, <4>3, <4>4 DEF PaymentHeld, Editing
    <3> QED
      BY <3>4, <3>5
  <2>5. ChargeChecked(x)'
    <3>1. Paying(x) => arg[x].ord \in Orders /\ arg[x].ord # o
      BY <2>1 DEF Held, OrderHeld, OrderPhases, Paying
    <3>2. Paying(x) => /\ Paid(pay', arg[x].ord) = Paid(pay, arg[x].ord)
                       /\ order'[arg[x].ord] = order[arg[x].ord]
      BY <3>1, OtherOrders DEF Within
    <3> QED
      BY <2>1, <3>2 DEF Held, ChargeChecked, Paying, Due
  <2>6. IdFresh(x)'
    <3>1. pc[x] = "create" => arg[x].ord \in Orders /\ order'[arg[x].ord] = order[arg[x].ord]
      <4>1. created \in Nat /\ created <= MaxOrders
        BY BoundsAssumption DEF TypeOK
      <4>2. pc[x] = "create" => arg[x].ord \in Orders
        BY <4>1, BoundsAssumption DEF Held, IdFresh, Orders
      <4> QED
        BY <2>1, <4>2 DEF Within
    <3> QED
      BY <1>1, <2>1, <3>1 DEF Held, IdFresh, Exists
  <2>7. LineFresh(x)'
    <3>1. Inserting(x) => item'[arg[x].item] = NoItem
      <4>1. Inserting(x) => /\ arg[x].item \in Items /\ item[arg[x].item] = NoItem
                            /\ arg[x].item # arg[s].item
        BY <1>7 DEF Held, LineFresh
      <4>2. Inserting(x) => LineMoves(s, o, arg[x].item)
        BY <4>1 DEF Within
      <4> QED
        BY <1>2, <4>1, <4>2 DEF LineMoves
    <3> QED
      BY <1>1, <1>2, <2>1, <3>1 DEF Held, LineFresh, Inserting
  <2>8. PayFresh(x)'
    <3>1. Paying(x) => pay'[arg[x].pay] = NoPay
      <4>1. Paying(x) => /\ arg[x].pay \in Pays /\ pay[arg[x].pay] = NoPay
                         /\ arg[x].pay # arg[s].pay
        BY <1>7 DEF Held, PayFresh
      <4>2. Paying(x) => PaymentMoves(s, o, arg[x].pay)
        BY <4>1 DEF Within
      <4> QED
        BY <1>2, <4>1, <4>2 DEF PaymentMoves
    <3> QED
      BY <1>1, <1>2, <2>1, <3>1 DEF Held, PayFresh, Paying
  <2>9. ArgsOK(x)'
    BY <2>1 DEF Held, ArgsOK
  <2> QED
    BY <2>2, <2>3, <2>4, <2>5, <2>6, <2>7, <2>8, <2>9 DEF Held
<1> QED
  BY <1>3, <1>4, <1>5, <1>6, <1>7

LEMMA UnclaimedRow ==
  ASSUME IInv, NEW s \in Sessions, NEW o \in Orders, Exists(o),
         lock[OrderRow(o)] \in {Free, s}
  PROVE  Unclaimed(s, o) /\ o <= created
<1>1. Free \notin Sessions /\ created \in Nat
  BY NamesAssumption DEF IInv, TypeOK
<1>2. Unclaimed(s, o)
  BY <1>1 DEF IInv, Held, OrderHeld, IdFresh, Unclaimed
<1> QED
  BY <1>1, <1>2 DEF IInv, IdsInOrder, Orders

LEMMA CreateCommitInv ==
  ASSUME IInv, NEW s \in Sessions, CreateCommit(s)
  PROVE  IInv' /\ Commits(s)
<1> USE DEF IInv
<1> DEFINE a    == arg[s]
           o    == a.ord
           full == a.op # "create"
           itm  == IF full THEN [item EXCEPT ![a.item] = NewLine(s)] ELSE item
           row  == [NoOrder EXCEPT !.status = a.st, !.table = a.tab,
                                   !.total = IF full THEN 0 ELSE a.amt]
           new  == IF full THEN Reconciled(row, itm, o) ELSE row
<1>1. /\ pc[s] = "create" /\ SaveOrder(o, new, itm) /\ End(s) /\ UNCHANGED <<pay, created>>
      /\ table' = IF a.tab = NoTable THEN table ELSE [table EXCEPT ![a.tab] = "Unavailable"]
  BY DEF CreateCommit
<1>2. /\ o \in Orders /\ o <= created /\ ~Exists(o) /\ Unclaimed(s, o)
      /\ a.st \in Statuses /\ a \in Arguments
      /\ full => Inserting(s) /\ a.item \in Items
  <2>1. created \in Nat /\ created <= MaxOrders
    BY BoundsAssumption DEF TypeOK
  <2>2. /\ o \in 1 .. created /\ ~Exists(o)
        /\ \A x \in Sessions \ {s} : pc[x] = "create" => arg[x].ord # o
    BY <1>1 DEF Held, IdFresh
  <2>3. Unclaimed(s, o)
    BY <2>2 DEF Held, OrderHeld, Unclaimed, OrderPhases
  <2>4. a.st \in Statuses /\ a \in Arguments /\ (full => Inserting(s) /\ a.item \in Items)
    BY <1>1 DEF Held, ArgsOK, LineFresh, Inserting, TypeOK
  <2> QED
    BY <2>1, <2>2, <2>3, <2>4, BoundsAssumption DEF Orders
<1>3. new \in OrderRecord /\ new.status \in Statuses
      /\ (full => new.total = OrderTotal(itm, o))
  <2>1. row \in OrderRecord /\ row.status \in Statuses
    BY <1>2 DEF NoOrder, OrderRecord, OrderStatuses, Arguments
  <2>2. "Absent" \notin Statuses
    BY DEF Statuses
  <2> HIDE DEF row
  <2> QED
    BY <2>1, <2>2, ReconciledType
<1>4. itm \in [Items -> LineRecord] /\ (full => itm[a.item].ord = o)
      /\ \A i \in Items : itm[i] = item[i] \/ (full /\ i = a.item)
  <2>1. NewLine(s) \in LineRecord /\ NewLine(s).ord = o
    BY <1>2 DEF NewLine, LineRecord, Arguments, OrderStatuses, Statuses
  <2>2. item \in [Items -> LineRecord]
    BY DEF TypeOK
  <2>3. full => a.item \in Items
    BY <1>2
  <2>4. CASE full
    BY <2>1, <2>2, <2>3, <2>4
  <2>5. CASE ~full
    BY <2>2, <2>5
  <2> QED
    BY <2>4, <2>5
<1>5. ~full => Lines(itm, o) = {}
  BY <1>2 DEF Lines, NoOrphans, NoItem, Orders
<1> HIDE DEF new, itm, row, full
<1>6. TypeOK'
  <2>1. table' \in [Tables -> {"Available", "Unavailable"}]
    BY <1>1, <1>2 DEF TypeOK, Arguments
  <2> QED
    BY <1>1, <1>2, <1>3, <1>4, <2>1, SaveType, EndType DEF TypeOK
<1>7. Within(s, o) /\ order'[o].status # "Absent" /\ order'[o] = new /\ item' = itm
  <2>1. /\ item' = itm /\ order' = [order EXCEPT ![o] = new]
        /\ snap' = [snap EXCEPT ![o] = Summary(order', itm, o)]
    BY <1>1 DEF SaveOrder
  <2>2. \A i \in Items : LineMoves(s, o, i)
    BY <1>2, <1>4, <2>1 DEF LineMoves
  <2>3. \A p \in Pays : PaymentMoves(s, o, p)
    BY <1>1 DEF PaymentMoves
  <2> QED
    BY <1>2, <1>3, <2>1, <2>2, <2>3 DEF Within, TypeOK, Statuses
<1> QED
  BY <1>1, <1>2, <1>3, <1>5, <1>6, <1>7, CommitInv DEF Commits

LEMMA SaveWithin ==
  ASSUME IInv, NEW s \in Sessions, NEW o \in Orders, NEW row \in OrderRecord,
         NEW itm \in [Items -> LineRecord], SaveOrder(o, row, itm),
         \A i \in Items : LineMoves(s, o, i), \A p \in Pays : PaymentMoves(s, o, p)
  PROVE  Within(s, o) /\ order'[o] = row /\ item' = itm
  BY DEF IInv, TypeOK, SaveOrder, Within

LEMMA AddCommitInv ==
  ASSUME IInv, NEW s \in Sessions, AddCommit(s)
  PROVE  IInv' /\ Commits(s)
<1> USE DEF IInv
<1> DEFINE o   == arg[s].ord
           itm == [item EXCEPT ![arg[s].item] = NewLine(s)]
           row == Reconciled(order[o], itm, o)
<1>1. /\ pc[s] = "add" /\ SaveOrder(o, row, itm) /\ End(s)
      /\ UNCHANGED <<pay, table, created>>
  BY DEF AddCommit
<1>2. /\ o \in Orders /\ lock[OrderRow(o)] = s /\ Exists(o)
      /\ Inserting(s) /\ arg[s].item \in Items /\ arg[s] \in Arguments
  BY <1>1 DEF Held, OrderHeld, OrderPhases, LineFresh, Inserting, TypeOK
<1>3. row \in OrderRecord /\ row.status # "Absent" /\ row.total = OrderTotal(itm, o)
  <2>1. order[o] \in OrderRecord /\ order[o].status # "Absent"
    BY <1>2 DEF TypeOK, Exists
  <2> QED
    BY <2>1, ReconciledType DEF Statuses
<1>4. NewLine(s) \in LineRecord /\ NewLine(s).ord = o
  BY <1>2 DEF NewLine, LineRecord, Arguments, OrderStatuses, Statuses
<1>5. itm \in [Items -> LineRecord] /\ itm[arg[s].item].ord = o
      /\ \A i \in Items : itm[i] = item[i] \/ i = arg[s].item
  BY <1>2, <1>4 DEF TypeOK
<1> HIDE DEF row, itm
<1>6. TypeOK'
  BY <1>1, <1>2, <1>3, <1>5, SaveType, EndType DEF TypeOK
<1>7. Within(s, o) /\ order'[o] = row /\ item' = itm
  <2>1. \A i \in Items : LineMoves(s, o, i)
    BY <1>1, <1>2, <1>5 DEF LineMoves, SaveOrder
  <2>2. \A p \in Pays : PaymentMoves(s, o, p)
    BY <1>1 DEF PaymentMoves
  <2> QED
    BY <1>1, <1>2, <1>3, <1>5, <2>1, <2>2, SaveWithin
<1> QED
  BY <1>1, <1>2, <1>3, <1>6, <1>7, UnclaimedRow, CommitInv DEF Commits

LEMMA ItemCommitInv ==
  ASSUME IInv, NEW s \in Sessions, ItemCommit(s)
  PROVE  IInv' /\ Commits(s)
<1> USE DEF IInv
<1> DEFINE o    == arg[s].ord
           line == ChangedLine(arg[s], item[arg[s].item])
           itm  == [item EXCEPT ![arg[s].item] = ChangedLine(arg[s], @)]
           row  == Reconciled(order[o], itm, o)
<1>1. /\ pc[s] = "item" /\ SaveOrder(o, row, itm) /\ End(s) /\ Granted(s, {OrderRow(o)})
      /\ UNCHANGED <<pay, table, created>>
  BY DEF ItemCommit
<1>2. /\ o \in Orders /\ arg[s].item \in Items /\ item[arg[s].item].ord = o
      /\ arg[s] \in Arguments /\ item[arg[s].item] \in LineRecord
      /\ \/ arg[s].op = "itemStatus" /\ arg[s].st \in Statuses
         \/ arg[s].op = "itemDetails"
         \/ arg[s].op = "itemCancel"
  BY <1>1 DEF Held, LineHeld, ArgsOK, TypeOK
<1>3. Exists(o) /\ lock[OrderRow(o)] \in {Free, s}
  BY <1>1, <1>2 DEF Granted, NoOrphans, NoItem, Orders
<1>4. row \in OrderRecord /\ row.status # "Absent" /\ row.total = OrderTotal(itm, o)
  <2>1. order[o] \in OrderRecord /\ order[o].status # "Absent"
    BY <1>2, <1>3 DEF TypeOK, Exists
  <2> QED
    BY <2>1, ReconciledType DEF Statuses
<1>5. line \in LineRecord /\ line.ord = o
  <2>1. CASE arg[s].op = "itemStatus" /\ arg[s].st \in Statuses
    BY <1>2, <2>1 DEF ChangedLine, LineRecord, OrderStatuses
  <2>2. CASE arg[s].op = "itemDetails"
    BY <1>2, <2>2 DEF ChangedLine, LineRecord, Arguments
  <2>3. CASE arg[s].op = "itemCancel"
    BY <1>2, <2>3 DEF ChangedLine, LineRecord, OrderStatuses, Statuses
  <2> QED
    BY <1>2, <2>1, <2>2, <2>3
<1> HIDE DEF line
<1>6. itm \in [Items -> LineRecord] /\ itm[arg[s].item].ord = o
      /\ \A i \in Items : itm[i] = item[i] \/ i = arg[s].item
  <2>1. itm = [item EXCEPT ![arg[s].item] = line]
    BY <1>2 DEF TypeOK, line
  <2> QED
    BY <1>2, <1>5, <2>1 DEF TypeOK
<1> HIDE DEF row, itm
<1>7. TypeOK'
  BY <1>1, <1>2, <1>4, <1>6, SaveType, EndType DEF TypeOK
<1>8. Within(s, o) /\ order'[o] = row /\ item' = itm
  <2>1. \A i \in Items : LineMoves(s, o, i)
    BY <1>1, <1>2, <1>6 DEF LineMoves, SaveOrder
  <2>2. \A p \in Pays : PaymentMoves(s, o, p)
    BY <1>1 DEF PaymentMoves
  <2> QED
    BY <1>1, <1>2, <1>4, <1>6, <2>1, <2>2, SaveWithin
<1> QED
  BY <1>1, <1>2, <1>3, <1>4, <1>7, <1>8, UnclaimedRow, CommitInv DEF Commits

LEMMA UpdateWriteInv ==
  ASSUME IInv, NEW s \in Sessions, UpdateWrite(s)
  PROVE  IInv' /\ Commits(s)
<1> USE DEF IInv
<1> DEFINE a    == arg[s]
           o    == a.ord
           prev == order[o].table
           itm  == [i \in Items |-> IF a.st = "Cancelled" /\ item[i].ord = o
                                    THEN [item[i] EXCEPT !.status = "Cancelled"]
                                    ELSE item[i]]
           base == [order[o] EXCEPT !.table = a.tab,
                                    !.status = IF a.st = "keep" THEN @ ELSE a.st]
           row  == Reconciled(base, itm, o)
<1>1. /\ pc[s] = "update.write" /\ SaveOrder(o, row, itm) /\ End(s) /\ UNCHANGED <<pay, created>>
      /\ table' = [t \in Tables |->
                      IF t = a.tab THEN IF row.status \in Closed THEN "Available"
                                                                 ELSE "Unavailable"
                      ELSE IF t = prev THEN "Available" ELSE table[t]]
  BY DEF UpdateWrite
<1>2. /\ o \in Orders /\ lock[OrderRow(o)] = s /\ Exists(o)
      /\ a \in Arguments /\ a.st \in Statuses \cup {"keep"}
  BY <1>1 DEF Held, OrderHeld, OrderPhases, ArgsOK, TypeOK
<1>3. row \in OrderRecord /\ row.status # "Absent" /\ row.total = OrderTotal(itm, o)
  <2>1. order[o] \in OrderRecord /\ order[o].status # "Absent"
    BY <1>2 DEF TypeOK, Exists
  <2>2. base \in OrderRecord /\ base.status # "Absent"
    BY <1>2, <2>1 DEF OrderRecord, OrderStatuses, Statuses, Arguments
  <2> HIDE DEF base
  <2> QED
    BY <2>2, ReconciledType DEF Statuses
<1>4. /\ itm \in [Items -> LineRecord]
      /\ \A i \in Items : itm[i] = item[i] \/ (item[i].ord = o /\ itm[i].ord = o)
  <2>1. ASSUME NEW i \in Items
        PROVE  itm[i] \in LineRecord /\ (itm[i] = item[i] \/ (item[i].ord = o /\ itm[i].ord = o))
    <3>1. item[i] \in LineRecord
      BY DEF TypeOK
    <3> QED
      BY <3>1 DEF LineRecord, OrderStatuses, Statuses
  <2> QED
    BY <2>1
<1> HIDE DEF row, itm
<1>5. TypeOK'
  <2>1. table' \in [Tables -> {"Available", "Unavailable"}]
    BY <1>1 DEF TypeOK
  <2> QED
    BY <1>1, <1>2, <1>3, <1>4, <2>1, SaveType, EndType DEF TypeOK
<1>6. Within(s, o) /\ order'[o] = row /\ item' = itm
  <2>1. \A i \in Items : LineMoves(s, o, i)
    BY <1>1, <1>4 DEF LineMoves, SaveOrder
  <2>2. \A p \in Pays : PaymentMoves(s, o, p)
    BY <1>1 DEF PaymentMoves
  <2> QED
    BY <1>1, <1>2, <1>3, <1>4, <2>1, <2>2, SaveWithin
<1> QED
  BY <1>1, <1>2, <1>3, <1>5, <1>6, UnclaimedRow, CommitInv DEF Commits

LEMMA DeleteCommitInv ==
  ASSUME IInv, NEW s \in Sessions, DeleteCommit(s)
  PROVE  IInv' /\ Commits(s)
<1> USE DEF IInv
<1> DEFINE o   == arg[s].ord
           itm == [i \in Items |-> IF item[i].ord = o THEN NoItem ELSE item[i]]
<1>1. /\ pc[s] = "delete" /\ SaveOrder(o, NoOrder, itm) /\ End(s) /\ created' = created
      /\ Granted(s, DeletedRows(o))
      /\ pay' = [p \in Pays |-> IF pay[p].ord = o THEN NoPay ELSE pay[p]]
      /\ table' = [t \in Tables |-> IF t = order[o].table THEN "Available" ELSE table[t]]
  BY DEF DeleteCommit
<1>2. o \in Orders /\ lock[OrderRow(o)] = s /\ Exists(o)
  BY <1>1 DEF Held, OrderHeld, OrderPhases
<1>3. /\ NoOrder \in OrderRecord /\ NoItem \in LineRecord /\ NoPay \in PaymentRecord
      /\ NoItem.ord \notin Orders /\ NoPay.ord \notin Orders
  BY DEF NoOrder, NoItem, NoPay, OrderRecord, LineRecord, PaymentRecord, OrderStatuses, Orders
<1>4. /\ itm \in [Items -> LineRecord]
      /\ \A i \in Items : itm[i].ord # o
      /\ \A i \in Items : itm[i] = item[i] \/ (item[i].ord = o /\ itm[i] = NoItem)
  BY <1>2, <1>3 DEF TypeOK
<1>5. /\ pay' \in [Pays -> PaymentRecord]
      /\ \A p \in Pays : pay'[p].ord # o
      /\ \A p \in Pays : pay'[p] = pay[p] \/ (pay[p].ord = o /\ pay'[p] = NoPay)
  BY <1>1, <1>2, <1>3 DEF TypeOK
<1> HIDE DEF itm
<1>6. TypeOK'
  <2>1. table' \in [Tables -> {"Available", "Unavailable"}]
    BY <1>1 DEF TypeOK
  <2> QED
    BY <1>1, <1>2, <1>3, <1>4, <1>5, <2>1, SaveType, EndType DEF TypeOK
<1>7. Within(s, o)
  <2>1. \A i \in Items : LineMoves(s, o, i)
    <3>1. \A i \in Items : item[i].ord = o => lock[<<"item", i>>] \in {Free, s}
      BY <1>1 DEF Granted, DeletedRows, ItemRows, Lines
    <3> QED
      BY <1>1, <1>4, <3>1 DEF LineMoves, SaveOrder
  <2>2. \A p \in Pays : PaymentMoves(s, o, p)
    <3>1. \A p \in Pays : pay[p].ord = o => lock[<<"pay", p>>] \in {Free, s}
      BY <1>1 DEF Granted, DeletedRows, PayRows
    <3> QED
      BY <1>5, <3>1 DEF PaymentMoves
  <2> QED
    BY <1>1, <1>2, <1>3, <1>4, <2>1, <2>2, SaveWithin
<1>8. (\A i \in Items : item'[i].ord # o) /\ Lines(item', o) = {}
  BY <1>1, <1>4 DEF SaveOrder, Lines
<1> QED
  BY <1>1, <1>2, <1>5, <1>6, <1>7, <1>8, UnclaimedRow, CommitInv DEF Commits

LEMMA RefreshCommitInv ==
  ASSUME IInv, NEW s \in Sessions, RefreshCommit(s)
  PROVE  IInv' /\ Commits(s)
<1> USE DEF IInv
<1> DEFINE o    == arg[s].ord
           done == NextStatus(s) = "Completed"
           itm  == [i \in Items |-> IF done /\ i \in LiveLines(item, o)
                                    THEN [item[i] EXCEPT !.status = "Paid"] ELSE item[i]]
           row  == [order[o] EXCEPT !.status = NextStatus(s), !.received = seen[s].paid]
<1>1. /\ pc[s] = "refresh" /\ SaveOrder(o, row, itm) /\ End(s) /\ created' = created
      /\ pay' = NewPays(s)
      /\ table' = [t \in Tables |-> IF done /\ t = seen[s].table THEN "Available" ELSE table[t]]
  BY DEF RefreshCommit
<1>2. /\ o \in Orders /\ lock[OrderRow(o)] = s /\ Exists(o)
      /\ arg[s] \in Arguments /\ arg[s].op \in {"pay", "editPay", "dropPay"}
      /\ seen[s] \in Reads /\ seen[s].status \in Statuses
      /\ arg[s].op # "dropPay" => arg[s].st \in PayStatuses
  BY <1>1 DEF Held, OrderHeld, OrderPhases, ArgsOK, TypeOK
<1>3. row \in OrderRecord /\ row.status # "Absent" /\ row.total = order[o].total
  <2>1. NextStatus(s) \in Statuses
    BY <1>2 DEF NextStatus, Statuses
  <2>2. order[o] \in OrderRecord
    BY <1>2 DEF TypeOK
  <2> QED
    BY <1>2, <2>1, <2>2 DEF OrderRecord, OrderStatuses, Statuses, Reads
<1>4. /\ itm \in [Items -> LineRecord]
      /\ \A i \in Items : itm[i] = item[i] \/ (item[i].ord = o /\ itm[i].ord = o)
  <2>1. ASSUME NEW i \in Items
        PROVE  itm[i] \in LineRecord /\ (itm[i] = item[i] \/ (item[i].ord = o /\ itm[i].ord = o))
    <3>1. item[i] \in LineRecord /\ (i \in LiveLines(item, o) => item[i].ord = o)
      BY DEF TypeOK, LiveLines, Lines
    <3> QED
      BY <3>1 DEF LineRecord, OrderStatuses, Statuses
  <2> QED
    BY <2>1
<1>5. /\ arg[s].pay \in Pays
      /\ \/ Paying(s)
         \/ /\ arg[s].op # "pay" /\ pay[arg[s].pay].ord = o
            /\ lock[<<"pay", arg[s].pay>>] = s
         \/ arg[s].op = "dropPay" /\ pay[arg[s].pay] = NoPay
  BY <1>1 DEF Held, PaymentHeld, PayFresh, Editing, Paying
<1>6. /\ pay' \in [Pays -> PaymentRecord]
      /\ \A p \in Pays : p # arg[s].pay => pay'[p] = pay[p]
      /\ pay'[arg[s].pay] = NoPay \/ pay'[arg[s].pay].ord = o
      /\ arg[s].op = "pay" => pay'[arg[s].pay].ord = o
      /\ arg[s].op = "dropPay" => pay'[arg[s].pay] = NoPay
  <2> DEFINE new == IF arg[s].op = "dropPay" THEN NoPay
                    ELSE [ord |-> o, status |-> arg[s].st, amt |-> arg[s].amt]
  <2>1. /\ new \in PaymentRecord /\ (new = NoPay \/ new.ord = o)
        /\ arg[s].op = "pay" => new.ord = o
        /\ arg[s].op = "dropPay" => new = NoPay
    BY <1>2 DEF NoPay, PaymentRecord, Arguments
  <2>2. pay' = [pay EXCEPT ![arg[s].pay] = new]
    BY <1>1 DEF NewPays
  <2> HIDE DEF new
  <2> QED
    BY <1>5, <2>1, <2>2 DEF TypeOK
<1>7. Lines(itm, o) = Lines(item, o) /\ OrderTotal(itm, o) = OrderTotal(item, o)
  <2>1. ASSUME NEW i \in Items
        PROVE  /\ itm[i].ord = item[i].ord /\ itm[i].amt = item[i].amt
               /\ (itm[i].status = "Cancelled") <=> (item[i].status = "Cancelled")
    <3>1. item[i] \in LineRecord /\ (i \in LiveLines(item, o) => item[i].status # "Cancelled")
      BY DEF TypeOK, LiveLines
    <3> QED
      BY <3>1 DEF LineRecord
  <2>2. Lines(itm, o) = Lines(item, o) /\ LiveLines(itm, o) = LiveLines(item, o)
    BY <2>1 DEF LiveLines, Lines
  <2>3. \A i \in LiveLines(item, o) : itm[i].amt = item[i].amt
    BY <2>1 DEF LiveLines, Lines
  <2>4. [i \in LiveLines(itm, o) |-> itm[i].amt] = [i \in LiveLines(item, o) |-> item[i].amt]
    BY <2>2, <2>3
  <2> QED
    BY <2>2, <2>4 DEF OrderTotal, SubTotal
<1> HIDE DEF row, itm, done
<1>8. TypeOK'
  <2>1. table' \in [Tables -> {"Available", "Unavailable"}]
    BY <1>1 DEF TypeOK
  <2> QED
    BY <1>1, <1>2, <1>3, <1>4, <1>6, <2>1, SaveType, EndType DEF TypeOK
<1>9. Within(s, o) /\ order'[o] = row /\ item' = itm
  <2>1. \A i \in Items : LineMoves(s, o, i)
    BY <1>1, <1>4 DEF LineMoves, SaveOrder
  <2>2. \A p \in Pays : PaymentMoves(s, o, p)
    BY <1>5, <1>6 DEF PaymentMoves, Paying
  <2> QED
    BY <1>1, <1>2, <1>3, <1>4, <2>1, <2>2, SaveWithin
<1> QED
  BY <1>1, <1>2, <1>3, <1>7, <1>8, <1>9, UnclaimedRow, CommitInv DEF TotalMatchesLines, Commits

(***************************************************************************)
(* The specification.                                                      *)
(***************************************************************************)
LEMMA InitInv == Init => IInv
<1> SUFFICES ASSUME Init PROVE IInv
  OBVIOUS
<1>1. TypeOK
  <2>1. /\ NoOrder \in OrderRecord /\ NoItem \in LineRecord /\ NoPay \in PaymentRecord
        /\ NoArg \in Arguments /\ NoSeen \in Reads
    BY DEF NoOrder, NoItem, NoPay, NoArg, NoSeen, OrderRecord, LineRecord, PaymentRecord,
           Arguments, Reads, OrderStatuses
  <2>2. order \in [Orders -> OrderRecord]
    BY <2>1 DEF Init, LedgerInit
  <2>3. snap \in [Orders -> SummaryRecord]
    BY <2>2, SummaryType DEF Init, LedgerInit
  <2>4. /\ created \in 0 .. MaxOrders
        /\ table \in [Tables -> {"Available", "Unavailable"}]
        /\ lock \in [Rows -> Sessions \cup {Free}]
    BY BoundsAssumption DEF Init, LedgerInit
  <2>5. /\ item \in [Items -> LineRecord]
        /\ pay \in [Pays -> PaymentRecord]
        /\ pc \in [Sessions -> Phases]
        /\ arg \in [Sessions -> Arguments]
        /\ seen \in [Sessions -> Reads]
    BY <2>1 DEF Init, LedgerInit, Phases
  <2> QED
    BY <2>2, <2>3, <2>4, <2>5 DEF TypeOK
<1>2. SnapshotAgrees /\ NoOrphans /\ IdsInOrder
  BY DEF Init, LedgerInit, SnapshotAgrees, NoOrphans, IdsInOrder, Exists, NoOrder
<1>3. TotalMatchesLines
  BY DEF Init, LedgerInit, TotalMatchesLines, Lines, NoItem, Orders
<1>4. \A s \in Sessions : Held(s)
  BY DEF Init, LedgerInit, Held, OrderHeld, LineHeld, PaymentHeld, ChargeChecked, IdFresh, LineFresh,
         PayFresh, ArgsOK, OrderPhases, EditPhases, Editing, Paying, Inserting
<1> QED
  BY <1>1, <1>2, <1>3, <1>4 DEF IInv

LEMMA NextInv == IInv /\ [Next]_vars => IInv'
<1> SUFFICES ASSUME IInv, [Next]_vars PROVE IInv'
  OBVIOUS
<1>1. ASSUME NEW s \in Sessions, Step(s) PROVE IInv'
  BY <1>1, RequestInv, WaitInv, RollbackInv, CreateCommitInv, AddCommitInv, UpdateWriteInv,
     DeleteCommitInv, ItemCommitInv, RefreshCommitInv
  DEF Step, Continue
<1>2. CASE UNCHANGED vars
  BY <1>2 DEF vars, IInv, TypeOK, SnapshotAgrees, TotalMatchesLines, NoOrphans, IdsInOrder, Exists, Held,
     OrderHeld, LineHeld, PaymentHeld, ChargeChecked, IdFresh, LineFresh, PayFresh, ArgsOK,
     Editing, Paying, Inserting, Due
<1> QED
  BY <1>1, <1>2 DEF Next, Step

THEOREM Invariance == Spec => []IInv
  BY InitInv, NextInv, PTL DEF Spec

\* Every row and every session's state keeps its type: totals and balances
\* never go below zero whatever the operations and their interleaving.
THEOREM TypeCorrect == Spec => []TypeOK
<1>1. IInv => TypeOK
  BY DEF IInv
<1> QED
  BY <1>1, Invariance, PTL

\* The cashier's list shows each committed order as it is, for any number of
\* concurrent requests, because no two of them ever write rows of one order.
THEOREM SnapshotCorrect == Spec => []SnapshotAgrees
<1>1. IInv => SnapshotAgrees
  BY DEF IInv
<1> QED
  BY <1>1, Invariance, PTL

\* The amount due is that of the live lines, whatever edits of lines, payments
\* and orders interleave: each of them recomputes it under the order's lock.
THEOREM TotalsCorrect == Spec => []TotalMatchesLines
<1>1. IInv => TotalMatchesLines
  BY DEF IInv
<1> QED
  BY <1>1, Invariance, PTL

\* Deleting an order never leaves a line or a payment of it behind.
THEOREM NoOrphansCorrect == Spec => []NoOrphans
<1>1. IInv => NoOrphans
  BY DEF IInv
<1> QED
  BY <1>1, Invariance, PTL

LEMMA ChargeStep ==
  ASSUME IInv, NEW s \in Sessions, Step(s), NEW p \in Pays, NewCharge(p)
  PROVE  LET o == pay'[p].ord
         IN  order[o].status \notin Settled /\ Due(o, pay'[p].amt)
<1>1. NoPay.status = "Absent" /\ NoPay.ord = 0 /\ 0 \notin Orders
  BY DEF NoPay, Orders
<1>2. CASE RefreshCommit(s)
  <2>1. pc[s] = "refresh" /\ pay' = NewPays(s)
    BY <1>2 DEF RefreshCommit
  <2>2. p = arg[s].pay
    BY <1>1, <2>1 DEF NewCharge, NewPays, IInv, TypeOK
  <2>3. Paying(s)
    <3>1. arg[s].op # "dropPay"
      BY <1>1, <2>1, <2>2 DEF NewCharge, NewPays, IInv, TypeOK
    <3> QED
      BY <2>1, <2>2, <3>1 DEF NewCharge, IInv, Held, PaymentHeld, Editing, Paying
  <2>4. pay'[p] = [ord |-> arg[s].ord, status |-> arg[s].st, amt |-> arg[s].amt]
    BY <2>1, <2>2, <2>3 DEF NewPays, Paying, IInv, TypeOK
  <2> QED
    BY <2>3, <2>4 DEF NewCharge, IInv, Held, ChargeChecked
<1>3. CASE DeleteCommit(s)
  BY <1>1, <1>3 DEF DeleteCommit, NewCharge
<1>4. CASE pay' = pay
  BY <1>1, <1>4 DEF NewCharge
<1>5. Request(s) => pay' = pay
  BY DEF Request, CreateLock, CreateFullLock, SubmitAppend, SubmitCreate, AddLock, UpdateLock,
         DeleteLock, ItemLock, PayLock, EditFind, rows
<1>6. Continue(s) => pay' = pay \/ DeleteCommit(s) \/ RefreshCommit(s)
  BY DEF Continue, CreateCommit, AppendLock, AddCommit, UpdateTables, UpdateReject, UpdateWrite,
         ItemCommit, EditLock, EditMissed, EditReadOrder, EditNoOrder, EditReadPays,
         EditLockOrder, RefreshMissed, rows
<1>7. DeadlockVictim(s) \/ Crash(s) => pay' = pay
  BY DEF DeadlockVictim, Crash, rows
<1> QED
  BY <1>2, <1>3, <1>4, <1>5, <1>6, <1>7 DEF Step

\* No successful payment is ever recorded for an order that is settled or for
\* more than is outstanding, for any number of cashiers: what create checked is
\* still so at its commit, as payments and line changes wait for its order lock.
THEOREM ChargesAreDue == Spec => ChargeIsDue
<1> DEFINE Charge == \A p \in Pays : NewCharge(p) =>
                        LET o == pay'[p].ord
                        IN  /\ order[o].status \notin Settled
                            /\ Paid(pay, o) + pay'[p].amt <= order[o].total
<1>1. IInv /\ [Next]_vars => [Charge]_vars
  BY ChargeStep DEF Next, Step, Due
<1> QED
  BY <1>1, Invariance, PTL DEF Spec, ChargeIsDue

(***************************************************************************)
(* What was read under a lock stays as it was read.  A step writes the     *)
(* tables that no other session owns.                                      *)
(***************************************************************************)
LEMMA TableRow ==
  ASSUME NEW t \in Tables, NEW T
  PROVE  /\ <<"table", t>> \in Rows
         /\ t \in T => <<"table", t>> \in TableRows(T)
  BY NamesAssumption DEF Rows, TableRows

LEMMA TablesWritten ==
  ASSUME IInv, NEW s \in Sessions, TablesHeld(s), Step(s),
         NEW t \in Tables, table'[t] # table[t]
  PROVE  lock[<<"table", t>>] \in {Free, s}
<1>1. CASE DeleteCommit(s)
  <2>1. t = order[arg[s].ord].table /\ Granted(s, DeletedRows(arg[s].ord))
    BY <1>1 DEF DeleteCommit
  <2>2. <<"table", t>> \in DeletedRows(arg[s].ord)
    BY <2>1, TableRow DEF DeletedRows
  <2> QED
    BY <2>1, <2>2 DEF Granted
<1>2. CASE RefreshCommit(s)
  <2>1. t = seen[s].table /\ NextStatus(s) = "Completed" /\ Granted(s, SettledRows(s))
    BY <1>2 DEF RefreshCommit
  <2>2. <<"table", t>> \in SettledRows(s)
    BY <2>1, TableRow DEF SettledRows
  <2> QED
    BY <2>1, <2>2 DEF Granted
<1>3. CASE CreateCommit(s)
  <2>1. pc[s] = "create" /\ t = arg[s].tab
    BY <1>3 DEF CreateCommit, IInv, TypeOK
  <2> QED
    BY <2>1, TableRow DEF TablesHeld
<1>4. CASE UpdateWrite(s)
  <2>1. pc[s] = "update.write" /\ t \in {order[arg[s].ord].table, arg[s].tab}
    BY <1>4 DEF UpdateWrite
  <2>2. <<"table", t>> \in UpdateTablesRows(s)
    BY <2>1, TableRow DEF UpdateTablesRows
  <2> QED
    BY <2>1, <2>2 DEF TablesHeld
<1>8. CASE RefreshMissed(s)
  <2>1. t = seen[s].table /\ NextStatus(s) = "Completed" /\ Granted(s, SettledRows(s))
    BY <1>8 DEF RefreshMissed
  <2>2. <<"table", t>> \in SettledRows(s)
    BY <2>1, TableRow DEF SettledRows
  <2> QED
    BY <2>1, <2>2 DEF Granted
<1>5. Request(s) => table' = table
  BY DEF Request, CreateLock, CreateFullLock, SubmitAppend, SubmitCreate, AddLock, UpdateLock,
         DeleteLock, ItemLock, PayLock, EditFind, rows
<1>6. Continue(s) => \/ table' = table
                     \/ CreateCommit(s) \/ UpdateWrite(s) \/ DeleteCommit(s)
                     \/ RefreshCommit(s) \/ RefreshMissed(s)
  BY DEF Continue, AppendLock, AddCommit, UpdateTables, UpdateReject, ItemCommit, EditLock,
         EditMissed, EditReadOrder, EditNoOrder, EditReadPays, EditLockOrder, rows
<1>7. DeadlockVictim(s) \/ Crash(s) => table' = table
  BY DEF DeadlockVictim, Crash, rows
<1> QED
  BY <1>1, <1>2, <1>3, <1>4, <1>5, <1>6, <1>7, <1>8 DEF Step

LEMMA StepWrites ==
  ASSUME IInv, NEW s \in Sessions, Step(s)
  PROVE  UNCHANGED <<order, pay>> \/ Commits(s)
<1>1. Request(s) \/ DeadlockVictim(s) \/ Crash(s) => UNCHANGED <<order, pay>>
  BY DEF Request, CreateLock, CreateFullLock, SubmitAppend, SubmitCreate, AddLock, UpdateLock,
         DeleteLock, ItemLock, PayLock, EditFind, DeadlockVictim, Crash, rows
<1>2. Continue(s) => \/ UNCHANGED <<order, pay>>
                     \/ CreateCommit(s) \/ AddCommit(s) \/ ItemCommit(s)
                     \/ UpdateWrite(s) \/ DeleteCommit(s) \/ RefreshCommit(s)
  BY DEF Continue, AppendLock, UpdateTables, UpdateReject, EditLock, EditMissed, EditReadOrder,
         EditNoOrder, EditReadPays, EditLockOrder, RefreshMissed, rows
<1> QED
  BY <1>1, <1>2, CreateCommitInv, AddCommitInv, ItemCommitInv, UpdateWriteInv, DeleteCommitInv,
     RefreshCommitInv DEF Step

\* The order that a session holds, and its payments, are nobody else's to change.
LEMMA OrderKept ==
  ASSUME IInv, NEW s \in Sessions, Step(s), NEW x \in Sessions, x # s, pc[x] \in OrderPhases
  PROVE  /\ order'[arg[x].ord] = order[arg[x].ord]
         /\ Paid(pay', arg[x].ord) = Paid(pay, arg[x].ord)
<1>1. CASE UNCHANGED <<order, pay>>
  BY <1>1
<1>2. CASE Commits(s)
  <2>1. arg[x].ord \in Orders /\ arg[x].ord # arg[s].ord
    BY <1>2 DEF Commits, Unclaimed, IInv, Held, OrderHeld
  <2> QED
    BY <1>2, <2>1, OtherOrders DEF Commits, Within
<1> QED
  BY <1>1, <1>2, StepWrites

LEMMA OthersStill ==
  ASSUME IInv, NEW s \in Sessions, Step(s), TablesHeld(s),
         NEW x \in Sessions, x # s, SeenStill(x), TablesHeld(x)
  PROVE  SeenStill(x)' /\ TablesHeld(x)'
<1>1. /\ pc'[x] = pc[x] /\ arg'[x] = arg[x] /\ seen'[x] = seen[x]
      /\ \A r \in Rows : lock[r] = x => lock'[r] = x
  BY StepAlone DEF IInv, Alone
<1>2. ASSUME NEW t \in Tables, lock[<<"table", t>>] = x
      PROVE  lock'[<<"table", t>>] = x /\ table'[t] = table[t]
  BY <1>1, <1>2, TableRow, TablesWritten, NamesAssumption
<1>3. SeenStill(x)'
  <2>1. Paying(x) => pc[x] \in OrderPhases
    BY DEF Paying, OrderPhases
  <2> QED
    BY <1>1, <2>1, OrderKept DEF SeenStill, Paying
<1>4. ASSUME NEW T \in SUBSET (Tables \cup {NoTable}), \A r \in TableRows(T) : lock[r] = x
      PROVE  /\ \A r \in TableRows(T) : lock'[r] = x
             /\ \A t \in T : Available(t) => (Available(t))'
  <2>1. ASSUME NEW t \in T, t # NoTable
        PROVE  lock'[<<"table", t>>] = x /\ table'[t] = table[t]
    BY <1>2, <1>4, <2>1, TableRow
  <2>2. \A r \in TableRows(T) : \E t \in T : t # NoTable /\ r = <<"table", t>>
    BY DEF TableRows
  <2> QED
    BY <2>1, <2>2 DEF Available
<1>5. arg[x] \in Arguments
  BY DEF IInv, TypeOK
<1>6. ASSUME pc[x] = "create" PROVE TablesHeld(x)'
  <2>1. {arg[x].tab} \in SUBSET (Tables \cup {NoTable})
    BY <1>5 DEF Arguments
  <2>2. (\A r \in TableRows({arg[x].tab}) : lock[r] = x) /\ Available(arg[x].tab)
    BY <1>6 DEF TablesHeld
  <2>3. (\A r \in TableRows({arg[x].tab}) : lock'[r] = x) /\ (Available(arg[x].tab))'
    BY <1>1, <1>4, <2>1, <2>2 DEF Available
  <2> QED
    BY <1>1, <1>6, <2>3 DEF TablesHeld
<1>7. ASSUME pc[x] = "update.write" PROVE TablesHeld(x)'
  <2> DEFINE T == {order[arg[x].ord].table, arg[x].tab}
  <2>1. order'[arg[x].ord] = order[arg[x].ord] /\ arg[x].ord \in Orders
    BY <1>7, OrderKept DEF OrderPhases, IInv, Held, OrderHeld
  <2>2. T \in SUBSET (Tables \cup {NoTable})
    BY <1>5, <2>1 DEF Arguments, IInv, TypeOK, OrderRecord
  <2>3. (\A r \in TableRows(T) : lock[r] = x) /\ NextTableFree(x)
    BY <1>7 DEF TablesHeld, UpdateTablesRows
  <2>4. \A r \in TableRows(T) : lock'[r] = x
    BY <1>4, <2>2, <2>3
  <2>5. \A t \in T : Available(t) => (Available(t))'
    BY <1>4, <2>2, <2>3
  <2>6. \A r \in UpdateTablesRows(x)' : lock'[r] = x
    BY <1>1, <2>1, <2>4 DEF UpdateTablesRows
  <2>7. NextTableFree(x)'
    BY <1>1, <2>1, <2>3, <2>5 DEF NextTableFree, Available
  <2> QED
    BY <1>1, <1>7, <2>6, <2>7 DEF TablesHeld
<1> QED
  BY <1>1, <1>3, <1>6, <1>7 DEF TablesHeld

\* The session that runs the step: what it has just locked and read.
LEMMA OwnStill ==
  ASSUME IInv, NEW s \in Sessions, Step(s)
  PROVE  SeenStill(s)' /\ TablesHeld(s)'
<1>1. ASSUME pc'[s] \notin {"create", "update.write"}, ~ Paying(s)'
      PROVE  SeenStill(s)' /\ TablesHeld(s)'
  BY <1>1 DEF SeenStill, TablesHeld
<1>2. ASSUME NEW a, NEW t \in Tables \cup {NoTable}, Begin(s, "create", a), a.tab = t,
             Take(s, TableRows({t})), Available(t), UNCHANGED rows
      PROVE  SeenStill(s)' /\ TablesHeld(s)'
  <2>1. pc'[s] = "create" /\ arg'[s] = a
    BY <1>2 DEF Begin, IInv, TypeOK
  <2>2. \A r \in TableRows({t}) : lock'[r] = s
    <3>1. TableRows({t}) \subseteq Rows
      BY <1>2, NamesAssumption DEF TableRows, Rows
    <3> QED
      BY <1>2, <3>1, TakeAlone DEF IInv
  <2>3. (Available(t))'
    BY <1>2 DEF Available, rows
  <2> QED
    BY <1>2, <2>1, <2>2, <2>3 DEF SeenStill, TablesHeld, Paying, Available
<1>3. CASE CreateLock(s)
  <2>1. PICK t \in Tables \cup {NoTable}, raw \in StatusInputs, amt \in Amounts, o \in Orders :
           /\ Begin(s, "create", [NoArg EXCEPT !.op = "create", !.ord = o, !.tab = t,
                                               !.st = Normalize(raw), !.amt = amt])
           /\ Take(s, TableRows({t})) /\ Available(t) /\ UNCHANGED rows
    BY <1>3 DEF CreateLock, rows
  <2> QED
    BY <1>2, <2>1 DEF NoArg
<1>4. CASE CreateFullLock(s)
  <2>1. PICK t \in Tables \cup {NoTable}, raw \in StatusInputs, amt \in Amounts, o \in Orders,
             i \in Items :
           /\ Begin(s, "create", [NoArg EXCEPT !.op = "createFull", !.ord = o, !.tab = t,
                                               !.item = i, !.st = Normalize(raw), !.amt = amt])
           /\ Take(s, TableRows({t})) /\ Available(t) /\ UNCHANGED rows
    BY <1>4 DEF CreateFullLock, rows
  <2> QED
    BY <1>2, <2>1 DEF NoArg
<1>5. CASE SubmitCreate(s)
  <2>1. PICK t \in Tables, amt \in Amounts, o \in Orders, i \in Items :
           /\ Begin(s, "create", [NoArg EXCEPT !.op = "submit", !.ord = o, !.tab = t,
                                               !.item = i, !.st = "Pending", !.amt = amt])
           /\ Take(s, TableRows({t})) /\ Available(t) /\ UNCHANGED rows
    BY <1>5 DEF SubmitCreate, rows
  <2> QED
    BY <1>2, <2>1 DEF NoArg
<1>6. CASE SubmitAppend(s) \/ AddLock(s) \/ UpdateLock(s) \/ DeleteLock(s) \/ ItemLock(s)
              \/ EditFind(s)
  <2>1. pc'[s] \in {"append", "add", "update", "delete", "item", "edit.find"}
    BY <1>6 DEF SubmitAppend, AddLock, UpdateLock, DeleteLock, ItemLock, EditFind, Begin,
                IInv, TypeOK
  <2> QED
    BY <1>1, <2>1 DEF Paying
<1>7. CASE PayLock(s)
  <2>1. PICK o \in Orders, p \in Pays, amt \in Amounts, st \in PayInputs :
           /\ Begin(s, "refresh", [NoArg EXCEPT !.op = "pay", !.ord = o, !.pay = p,
                                                !.st = st, !.amt = amt])
           /\ seen' = [seen EXCEPT ![s] =
                         [status |-> order[o].status, total |-> order[o].total,
                          table |-> order[o].table,
                          paid |-> Paid(pay, o) + (IF st = "Success" THEN amt ELSE 0)]]
           /\ UNCHANGED rows
    BY <1>7 DEF PayLock, rows
  <2>2. /\ pc'[s] = "refresh" /\ arg'[s].ord = o /\ arg'[s].st = st /\ arg'[s].amt = amt
    BY <2>1 DEF Begin, NoArg, IInv, TypeOK
  <2>3. /\ seen'[s].status = order[o].status
        /\ seen'[s].total = order[o].total /\ seen'[s].table = order[o].table
        /\ seen'[s].paid = Paid(pay, o) + (IF st = "Success" THEN amt ELSE 0)
    BY <2>1 DEF IInv, TypeOK
  <2> QED
    BY <2>1, <2>2, <2>3 DEF SeenStill, TablesHeld, rows
<1>8. CASE UpdateTables(s)
  <2>1. /\ pc[s] = "update" /\ pc'[s] = "update.write" /\ Take(s, UpdateTablesRows(s))
        /\ NextTableFree(s) /\ UNCHANGED <<rows, arg>>
    BY <1>8 DEF UpdateTables, Advance, IInv, TypeOK
  <2>2. UpdateTablesRows(s) \subseteq Rows
    <3>1. order[arg[s].ord].table \in Tables \cup {NoTable} /\ arg[s].tab \in Tables \cup {NoTable}
      BY <2>1 DEF IInv, Held, OrderHeld, OrderPhases, TypeOK, OrderRecord, Arguments
    <3> QED
      BY <3>1 DEF UpdateTablesRows, TableRows, Rows
  <2>3. \A r \in UpdateTablesRows(s) : lock'[r] = s
    BY <2>1, <2>2, TakeAlone DEF IInv
  <2>4. (\A r \in UpdateTablesRows(s) : lock[r] = s)' /\ NextTableFree(s)'
    BY <2>1, <2>3 DEF UpdateTablesRows, NextTableFree, Available, rows
  <2> QED
    BY <2>1, <2>4 DEF SeenStill, TablesHeld, Paying
<1>9. CASE AppendLock(s) \/ EditLock(s) \/ (EditMissed(s) /\ ~End(s)) \/ EditReadOrder(s)
              \/ EditReadPays(s)
  <2>1. pc'[s] \in {"add", "edit", "edit.sum", "edit.order"}
    BY <1>9 DEF AppendLock, EditLock, EditMissed, EditReadOrder, EditReadPays, Advance, IInv, TypeOK
  <2> QED
    BY <1>1, <2>1 DEF Paying
<1>10. CASE EditLockOrder(s)
  <2>1. pc[s] = "edit.order" /\ pc'[s] = "refresh" /\ arg' = arg
    BY <1>10 DEF EditLockOrder, Advance, IInv, TypeOK
  <2>2. arg[s].op # "pay"
    BY <2>1 DEF IInv, Held, PaymentHeld, Editing, EditPhases
  <2> QED
    BY <1>1, <2>1, <2>2 DEF Paying
<1>11. CASE End(s)
  <2>1. pc'[s] = "idle"
    BY <1>11, EndAlone DEF IInv
  <2> QED
    BY <1>1, <2>1 DEF Paying
<1> QED
  BY <1>3, <1>4, <1>5, <1>6, <1>7, <1>8, <1>9, <1>10, <1>11
  DEF Step, Request, Continue, CreateCommit, AddCommit, UpdateReject, UpdateWrite, DeleteCommit,
      ItemCommit, EditNoOrder, RefreshCommit, RefreshMissed, DeadlockVictim, Crash

LEMMA SeatNext == SeatInv /\ [Next]_vars => SeatInv'
<1> SUFFICES ASSUME SeatInv, [Next]_vars PROVE SeatInv'
  OBVIOUS
<1>1. IInv'
  BY NextInv DEF SeatInv
<1>2. ASSUME NEW s \in Sessions, Step(s)
      PROVE  \A x \in Sessions : SeenStill(x)' /\ TablesHeld(x)'
  BY <1>2, OwnStill, OthersStill DEF SeatInv
<1>3. ASSUME UNCHANGED vars
      PROVE  \A x \in Sessions : SeenStill(x)' /\ TablesHeld(x)'
  BY <1>3 DEF vars, SeatInv, SeenStill, TablesHeld, Paying, Available, NextTableFree,
              UpdateTablesRows
<1>4. \A x \in Sessions : SeenStill(x)' /\ TablesHeld(x)'
  BY <1>2, <1>3 DEF Next, Step
<1> QED
  BY <1>1, <1>4 DEF SeatInv


LEMMA SeatInit == Init => SeatInv
<1>1. Init => \A s \in Sessions : SeenStill(s) /\ TablesHeld(s)
  BY DEF Init, LedgerInit, SeenStill, TablesHeld, Paying
<1> QED
  BY <1>1, InitInv DEF SeatInv

\* A new payment is inserted by the commit of a session that read, under the
\* order's lock, what it goes by.
LEMMA SettleStep ==
  ASSUME SeatInv, NEW s \in Sessions, Step(s), NEW p \in Pays, NewCharge(p),
         NEW o, o = pay'[p].ord, order'[o].status = "Completed"
  PROVE  /\ \A i \in LiveLines(item', o) : item'[i].status = "Paid"
         /\ order'[o].table # NoTable => table'[order'[o].table] = "Available"
         /\ order'[o].received = Paid(pay, o) + pay'[p].amt
         /\ order'[o].received >= order'[o].total
<1>1. IInv /\ SeenStill(s)
  BY DEF SeatInv
<1>2. NoPay.status = "Absent"
  BY DEF NoPay
<1>3. RefreshCommit(s)
  <2>1. DeleteCommit(s) => pay'[p] = pay[p] \/ pay'[p] = NoPay
    BY DEF DeleteCommit
  <2>2. Request(s) => pay' = pay
    BY DEF Request, CreateLock, CreateFullLock, SubmitAppend, SubmitCreate, AddLock, UpdateLock,
           DeleteLock, ItemLock, PayLock, EditFind, rows
  <2>3. Continue(s) => pay' = pay \/ DeleteCommit(s) \/ RefreshCommit(s)
    BY DEF Continue, CreateCommit, AppendLock, AddCommit, UpdateTables, UpdateReject, UpdateWrite,
           ItemCommit, EditLock, EditMissed, EditReadOrder, EditNoOrder, EditReadPays,
           EditLockOrder, RefreshMissed, rows
  <2>4. DeadlockVictim(s) \/ Crash(s) => pay' = pay
    BY DEF DeadlockVictim, Crash, rows
  <2> QED
    BY <1>2, <2>1, <2>2, <2>3, <2>4 DEF Step, NewCharge
<1> DEFINE done == NextStatus(s) = "Completed"
           itm  == [i \in Items |-> IF done /\ i \in LiveLines(item, arg[s].ord)
                                    THEN [item[i] EXCEPT !.status = "Paid"] ELSE item[i]]
           row  == [order[arg[s].ord] EXCEPT !.status = NextStatus(s), !.received = seen[s].paid]
<1>4. /\ pc[s] = "refresh" /\ pay' = NewPays(s) /\ SaveOrder(arg[s].ord, row, itm)
      /\ table' = [t \in Tables |-> IF done /\ t = seen[s].table THEN "Available" ELSE table[t]]
  BY <1>3 DEF RefreshCommit
<1>5. p = arg[s].pay
  BY <1>2, <1>4 DEF NewCharge, NewPays, IInv, TypeOK, SeatInv
<1>6. Paying(s)
  <2>1. arg[s].op # "dropPay"
    BY <1>1, <1>2, <1>4, <1>5 DEF NewCharge, NewPays, IInv, TypeOK
  <2> QED
    BY <1>1, <1>4, <1>5, <2>1 DEF NewCharge, IInv, Held, PaymentHeld, Editing, Paying
<1>7. pay'[p] = [ord |-> arg[s].ord, status |-> arg[s].st, amt |-> arg[s].amt]
  BY <1>1, <1>4, <1>5, <1>6 DEF NewPays, Paying, IInv, TypeOK
<1>8. o = arg[s].ord /\ arg[s].st = "Success" /\ pay'[p].amt = arg[s].amt
  BY <1>7 DEF NewCharge
<1>9. o \in Orders /\ order[o] \in OrderRecord
  BY <1>1, <1>6, <1>8 DEF IInv, Held, OrderHeld, OrderPhases, Paying, TypeOK
<1>10. /\ item' = itm /\ order'[o].status = NextStatus(s) /\ order'[o].received = seen[s].paid
       /\ order'[o].total = order[o].total /\ order'[o].table = order[o].table
  BY <1>1, <1>4, <1>8, <1>9 DEF SaveOrder, IInv, TypeOK, OrderRecord
<1>11. done
  BY <1>10
<1>12. /\ seen[s].total = order[o].total /\ seen[s].table = order[o].table
       /\ seen[s].paid = Paid(pay, o) + pay'[p].amt
  BY <1>1, <1>6, <1>8 DEF SeenStill
<1>13. seen[s].status # "Completed" /\ Paid(pay, o) + pay'[p].amt \in Nat /\ order[o].total \in Nat
  <2>1. arg[s].amt \in Nat
    BY <1>1 DEF IInv, TypeOK, Arguments
  <2> QED
    BY <1>1, <1>6, <1>8, <1>9, <2>1, PaidNat
    DEF SeenStill, IInv, Held, ChargeChecked, Settled, OrderRecord
<1>14. seen[s].paid >= seen[s].total
  BY <1>11, <1>13 DEF NextStatus
<1>15. \A i \in LiveLines(item', o) : item'[i].status = "Paid"
  <2>1. ASSUME NEW i \in LiveLines(item', o) PROVE item'[i].status = "Paid"
    <3>1. i \in Items /\ item'[i].ord = o /\ item'[i].status # "Cancelled" /\ item[i] \in LineRecord
      BY <1>1 DEF LiveLines, Lines, IInv, TypeOK
    <3>2. CASE i \in LiveLines(item, o)
      BY <1>8, <1>10, <1>11, <3>1, <3>2 DEF LineRecord
    <3>3. CASE i \notin LiveLines(item, o)
      <4>1. item'[i] = item[i]
        BY <1>8, <1>10, <3>1, <3>3
      <4> QED
        BY <3>1, <3>3, <4>1 DEF LiveLines, Lines
    <3> QED
      BY <3>2, <3>3
  <2> QED
    BY <2>1
<1>16. order'[o].table # NoTable => table'[order'[o].table] = "Available"
  BY <1>4, <1>9, <1>10, <1>11, <1>12 DEF OrderRecord
<1> QED
  BY <1>10, <1>12, <1>14, <1>15, <1>16

\* The payment that completes an order closes its bill in the same transaction,
\* for any number of cashiers: what create read under the order's lock is what
\* its commit goes by.  (That the sum of all payments grows by the new one is
\* left to TLC.)
THEOREM SettlementCloses == Spec => SettlementClosesBill
<1> DEFINE Closes == \A p \in Pays : LET o == pay'[p].ord IN
             NewCharge(p) /\ order'[o].status = "Completed" =>
                /\ \A i \in LiveLines(item', o) : item'[i].status = "Paid"
                /\ order'[o].table # NoTable => table'[order'[o].table] = "Available"
                /\ order'[o].received = Paid(pay, o) + pay'[p].amt
                /\ order'[o].received >= order'[o].total
<1>1. SeatInv /\ [Next]_vars => [Closes]_vars
  BY SettleStep DEF Next, Step
<1> QED
  BY <1>1, SeatInit, SeatNext, PTL DEF Spec, SettlementClosesBill

\* An order's table changes in two statements, both of sessions that own the tables.
LEMMA SeatStep ==
  ASSUME SeatInv, NEW s \in Sessions, Step(s), NEW o \in Orders, NEW t \in Tables, Seated(o, t)
  PROVE  /\ table[t] = "Available"
         /\ order'[o].status \in ActiveView => table'[t] = "Unavailable"
<1>1. IInv /\ TablesHeld(s) /\ t # NoTable
  BY NamesAssumption DEF SeatInv
<1>2. CASE CreateCommit(s)
  <2> DEFINE a    == arg[s]
             full == a.op # "create"
             itm  == IF full THEN [item EXCEPT ![a.item] = NewLine(s)] ELSE item
             row  == [NoOrder EXCEPT !.status = a.st, !.table = a.tab,
                                     !.total = IF full THEN 0 ELSE a.amt]
             new  == IF full THEN Reconciled(row, itm, a.ord) ELSE row
  <2>1. /\ pc[s] = "create" /\ order' = [order EXCEPT ![a.ord] = new]
        /\ table' = IF a.tab = NoTable THEN table ELSE [table EXCEPT ![a.tab] = "Unavailable"]
    BY <1>2 DEF CreateCommit, SaveOrder
  <2>2. new.table = a.tab
    BY DEF NoOrder, Reconciled
  <2> HIDE DEF new
  <2>3. o = a.ord /\ t = a.tab
    BY <1>1, <2>1, <2>2 DEF Seated, IInv, TypeOK
  <2> QED
    BY <1>1, <2>1, <2>3 DEF TablesHeld, Available, IInv, TypeOK
<1>3. CASE UpdateWrite(s)
  <2> DEFINE a    == arg[s]
             prev == order[a.ord].table
             itm  == [i \in Items |-> IF a.st = "Cancelled" /\ item[i].ord = a.ord
                                      THEN [item[i] EXCEPT !.status = "Cancelled"]
                                      ELSE item[i]]
             mid  == [order[a.ord] EXCEPT !.table = a.tab,
                                          !.status = IF a.st = "keep" THEN @ ELSE a.st]
             row  == Reconciled(mid, itm, a.ord)
  <2>1. /\ pc[s] = "update.write" /\ order' = [order EXCEPT ![a.ord] = row]
        /\ table' = [x \in Tables |->
                       IF x = a.tab THEN IF row.status \in Closed THEN "Available"
                                                                  ELSE "Unavailable"
                       ELSE IF x = prev THEN "Available" ELSE table[x]]
    BY <1>3 DEF UpdateWrite, SaveOrder
  <2>2. a.ord \in Orders /\ order[a.ord] \in OrderRecord
    BY <1>1, <2>1 DEF IInv, Held, OrderHeld, OrderPhases, TypeOK
  <2>3. row.table = a.tab
    BY <2>2 DEF Reconciled, OrderRecord
  <2> HIDE DEF row
  <2>4. o = a.ord /\ t = a.tab /\ prev # t /\ order'[o] = row
    BY <1>1, <2>1, <2>2, <2>3 DEF Seated, IInv, TypeOK
  <2>5. table[t] = "Available"
    BY <1>1, <2>1, <2>4 DEF TablesHeld, NextTableFree, Available
  <2>6. row.status \in ActiveView => row.status \notin Closed
    BY DEF ActiveView, Closed
  <2> QED
    BY <2>1, <2>4, <2>5, <2>6
<1>4. CASE DeleteCommit(s)
  <2>1. order' = [order EXCEPT ![arg[s].ord] = NoOrder] /\ NoOrder.table = NoTable
    BY <1>4 DEF DeleteCommit, SaveOrder, NoOrder
  <2> QED
    BY <1>1, <2>1 DEF Seated, IInv, TypeOK
<1>5. ASSUME NEW q, NEW row, order' = [order EXCEPT ![q] = row], row.table = order[q].table
      PROVE  FALSE
  BY <1>1, <1>5 DEF Seated, IInv, TypeOK
<1>6. CASE AddCommit(s) \/ ItemCommit(s) \/ RefreshCommit(s)
  <2>1. arg[s].ord \in Orders /\ order[arg[s].ord] \in OrderRecord
    BY <1>1, <1>6 DEF AddCommit, ItemCommit, RefreshCommit, IInv, Held, OrderHeld, LineHeld,
                      OrderPhases, TypeOK
  <2>2. \A itm, q : Reconciled(order[arg[s].ord], itm, q).table = order[arg[s].ord].table
    BY <2>1 DEF Reconciled, OrderRecord
  <2>3. CASE AddCommit(s)
    BY <1>5, <2>2, <2>3 DEF AddCommit, SaveOrder
  <2>4. CASE ItemCommit(s)
    BY <1>5, <2>2, <2>4 DEF ItemCommit, SaveOrder
  <2>5. CASE RefreshCommit(s)
    BY <1>5, <2>1, <2>5 DEF RefreshCommit, SaveOrder, OrderRecord
  <2> QED
    BY <1>6, <2>3, <2>4, <2>5
<1>7. order' # order
  BY DEF Seated
<1>8. ~ (Request(s) \/ DeadlockVictim(s) \/ Crash(s))
  BY <1>7 DEF Request, CreateLock, CreateFullLock, SubmitAppend, SubmitCreate, AddLock, UpdateLock,
         DeleteLock, ItemLock, PayLock, EditFind, DeadlockVictim, Crash, rows
<1>9. ~ (AppendLock(s) \/ UpdateTables(s) \/ UpdateReject(s) \/ EditLock(s) \/ EditMissed(s)
           \/ EditReadOrder(s) \/ EditNoOrder(s) \/ EditReadPays(s) \/ EditLockOrder(s)
           \/ RefreshMissed(s))
  BY <1>7 DEF AppendLock, UpdateTables, UpdateReject, EditLock, EditMissed, EditReadOrder,
              EditNoOrder, EditReadPays, EditLockOrder, RefreshMissed, rows
<1> QED
  BY <1>2, <1>3, <1>4, <1>6, <1>8, <1>9 DEF Step, Continue

\* An order is put only at a table that is free at that moment, and takes it if
\* it is open, for any number of sessions: the session that found the table free
\* has its row locked until it has written the order.
THEOREM SeatedAtFreeTables == Spec => SeatOnlyFreeTable
<1> DEFINE Seats == \A o \in Orders, t \in Tables : Seated(o, t) =>
             /\ table[t] = "Available"
             /\ order'[o].status \in ActiveView => table'[t] = "Unavailable"
<1>1. SeatInv /\ [Next]_vars => [Seats]_vars
  BY SeatStep DEF Next, Step
<1> QED
  BY <1>1, SeatInit, SeatNext, PTL DEF Spec, SeatOnlyFreeTable

(***************************************************************************)
(* PosOrders implements Ledger: a step writes no row, or it is a commit,   *)
(* and what its session was let in with still holds.                       *)
(***************************************************************************)
LEMMA MeantInit == Init => \A s \in Sessions : Meant(s)
  BY DEF Init, LedgerInit, Meant, NoArg

\* The amount in a request is set once, when the request begins.
LEMMA MeantStep ==
  ASSUME TypeOK, NEW s \in Sessions, Step(s), NEW x \in Sessions, Meant(x)
  PROVE  Meant(x)'
<1>1. CASE x # s
  <2>1. pc'[x] = pc[x] /\ arg'[x] = arg[x]
    BY <1>1, StepAlone DEF Alone
  <2> QED
    BY <2>1 DEF Meant
<1>2. ASSUME NEW next, NEW a, Begin(s, next, a),
             \/ a.amt \in Amounts
             \/ /\ next \notin {"create", "append", "add"}
                /\ a.op \notin {"itemDetails", "pay", "editPay"}
      PROVE  Meant(s)'
  <2>1. pc'[s] = next /\ arg'[s] = a
    BY <1>2 DEF Begin, TypeOK
  <2> QED
    BY <1>2, <2>1 DEF Meant
<1>3. CASE x = s /\ Request(s)
  <2> USE <1>2, <1>3 DEF NoArg
  <2>1. CASE CreateLock(s)
    BY <2>1 DEF CreateLock
  <2>2. CASE CreateFullLock(s)
    BY <2>2 DEF CreateFullLock
  <2>3. CASE SubmitAppend(s)
    BY <2>3 DEF SubmitAppend
  <2>4. CASE SubmitCreate(s)
    BY <2>4 DEF SubmitCreate
  <2>5. CASE AddLock(s)
    BY <2>5 DEF AddLock
  <2>6. CASE UpdateLock(s)
    BY <2>6 DEF UpdateLock
  <2>7. CASE DeleteLock(s)
    BY <2>7 DEF DeleteLock
  <2>8. CASE ItemLock(s)
    <3>1. PICK i \in Items, c \in ItemChanges :
             Begin(s, "item", [NoArg EXCEPT !.op = c.op, !.ord = item[i].ord, !.item = i,
                                            !.st = c.st, !.amt = c.amt])
      BY <2>8 DEF ItemLock
    <3>2. c.amt \in Amounts \/ c.op \in {"itemStatus", "itemCancel"}
      BY DEF ItemChanges
    <3> QED
      BY <3>1, <3>2
  <2>9. CASE PayLock(s)
    BY <2>9 DEF PayLock
  <2>10. CASE EditFind(s)
    <3>1. PICK p \in Pays, c \in PayChanges :
             Begin(s, "edit.find", [NoArg EXCEPT !.op = c.op, !.ord = pay[p].ord, !.pay = p,
                                                 !.st = c.st, !.amt = c.amt])
      BY <2>10 DEF EditFind
    <3>2. c.amt \in Amounts \/ c.op = "dropPay"
      BY DEF PayChanges
    <3> QED
      BY <3>1, <3>2
  <2> QED
    BY <2>1, <2>2, <2>3, <2>4, <2>5, <2>6, <2>7, <2>8, <2>9, <2>10 DEF Request
<1>4. CASE x = s /\ AppendLock(s)
  BY <1>4 DEF AppendLock, Advance, Meant, TypeOK
<1>5. CASE x = s /\ ~End(s) /\ (UpdateTables(s) \/ EditLock(s) \/ EditMissed(s)
              \/ EditReadOrder(s) \/ EditReadPays(s) \/ EditLockOrder(s))
  <2>1. pc'[s] \in {"update.write", "edit", "edit.sum", "edit.order", "refresh"} /\ arg' = arg
    BY <1>5 DEF UpdateTables, EditLock, EditMissed, EditReadOrder, EditReadPays, EditLockOrder,
                Advance, TypeOK
  <2> QED
    BY <1>5, <2>1 DEF Meant
<1>6. CASE x = s /\ End(s)
  BY <1>6, EndAlone DEF Meant, NoArg
<1> QED
  BY <1>1, <1>3, <1>4, <1>5, <1>6
  DEF Step, Continue, CreateCommit, AddCommit, UpdateReject, UpdateWrite, DeleteCommit,
      ItemCommit, EditNoOrder, RefreshCommit, RefreshMissed, DeadlockVictim, Crash

LEMMA LedgerInvInit == Init => LedgerInv
  BY SeatInit, MeantInit DEF LedgerInv

LEMMA LedgerInvNext == LedgerInv /\ [Next]_vars => LedgerInv'
<1> SUFFICES ASSUME LedgerInv, [Next]_vars PROVE LedgerInv'
  OBVIOUS
<1>1. SeatInv' /\ TypeOK
  BY SeatNext DEF LedgerInv, SeatInv, IInv
<1>2. CASE Next
  BY <1>1, <1>2, MeantStep DEF LedgerInv, Next, Step
<1>3. CASE UNCHANGED vars
  BY <1>1, <1>3 DEF LedgerInv, Meant, vars
<1> QED
  BY <1>2, <1>3

\* create, createFullOrder and submitByToken.
LEMMA CreateIsAStep ==
  ASSUME LedgerInv, NEW s \in Sessions, CreateCommit(s)
  PROVE  Operation
<1> DEFINE a    == arg[s]
           full == a.op # "create"
           itm  == IF full THEN [item EXCEPT ![a.item] = NewLine(s)] ELSE item
           row  == [NoOrder EXCEPT !.status = a.st, !.table = a.tab,
                                   !.total = IF full THEN 0 ELSE a.amt]
<1>1. /\ pc[s] = "create"
      /\ SaveOrder(a.ord, IF full THEN Reconciled(row, itm, a.ord) ELSE row, itm)
      /\ table' = IF a.tab = NoTable THEN table ELSE [table EXCEPT ![a.tab] = "Unavailable"]
      /\ UNCHANGED pay
  BY DEF CreateCommit
<1>2. IInv /\ Held(s) /\ TablesHeld(s) /\ Meant(s) /\ a \in Arguments
  BY DEF LedgerInv, SeatInv, IInv, TypeOK
<1>3. /\ a.ord \in Orders /\ ~Exists(a.ord) /\ Available(a.tab)
      /\ a.tab \in Tables \cup {NoTable} /\ a.st \in Statuses /\ a.amt \in Amounts
  <2>1. a.ord \in 1 .. created /\ created \in 0 .. MaxOrders
    BY <1>1, <1>2 DEF Held, IdFresh, IInv, TypeOK
  <2>2. a.ord \in Orders
    BY <2>1, BoundsAssumption DEF Orders
  <2> QED
    BY <1>1, <1>2, <2>2 DEF Held, IdFresh, ArgsOK, TablesHeld, Meant, Arguments
<1>4. TablesBecome({a.tab}, "Unavailable")
  <2>1. table \in [Tables -> {"Available", "Unavailable"}]
    BY <1>2 DEF IInv, TypeOK
  <2> QED
    BY <1>1, <1>3, <2>1, NamesAssumption DEF TablesBecome
<1>5. CASE ~full
  <2>1. SaveOrder(a.ord, NewOrder(a.tab, a.st, a.amt), item)
    BY <1>1, <1>5 DEF NewOrder, NoOrder
  <2>2. PlaceHeader(a.ord, a.tab, a.st, a.amt)
    BY <1>1, <1>3, <1>4, <2>1 DEF PlaceHeader
  <2> QED
    BY <1>3, <2>2 DEF Operation
<1>6. CASE full
  <2>1. a.item \in Items /\ item[a.item] = NoItem
    BY <1>1, <1>2, <1>6 DEF Held, LineFresh, Inserting
  <2>2. itm = WithLine(a.item, a.ord, a.amt) /\ row = NewOrder(a.tab, a.st, 0)
    BY <1>6 DEF WithLine, NewLine, NewOrder, NoOrder
  <2>3. SaveOrder(a.ord, Reconciled(row, itm, a.ord), itm)
    BY <1>1, <1>6
  <2> HIDE DEF itm, row, full
  <2>4. PlaceOrder(a.ord, a.tab, a.st, a.item, a.amt)
    BY <1>1, <1>3, <1>4, <2>1, <2>2, <2>3 DEF PlaceOrder
  <2> QED
    BY <1>3, <2>1, <2>4 DEF Operation
<1> QED
  BY <1>5, <1>6

\* addItems, by staff or for a customer.
LEMMA AddIsAStep ==
  ASSUME LedgerInv, NEW s \in Sessions, AddCommit(s)
  PROVE  Operation
<1> DEFINE o   == arg[s].ord
           itm == [item EXCEPT ![arg[s].item] = NewLine(s)]
<1>1. /\ pc[s] = "add" /\ SaveOrder(o, Reconciled(order[o], itm, o), itm)
      /\ UNCHANGED <<pay, table>>
  BY DEF AddCommit
<1>2. /\ o \in Orders /\ Exists(o) /\ arg[s].amt \in Amounts
      /\ arg[s].item \in Items /\ item[arg[s].item] = NoItem
  BY <1>1 DEF LedgerInv, SeatInv, IInv, Held, OrderHeld, OrderPhases, LineFresh, Inserting, Meant
<1>3. itm = WithLine(arg[s].item, o, arg[s].amt)
  BY DEF WithLine, NewLine
<1> HIDE DEF itm
<1>4. AddLine(o, arg[s].item, arg[s].amt)
  BY <1>1, <1>2, <1>3 DEF AddLine
<1> QED
  BY <1>2, <1>4 DEF Operation

\* updateItemStatus, updateItemDetails and deleteItem.
LEMMA ItemIsAStep ==
  ASSUME LedgerInv, NEW s \in Sessions, ItemCommit(s)
  PROVE  Operation
<1> DEFINE a    == arg[s]
           o    == a.ord
           line == ChangedLine(a, item[a.item])
           itm  == [item EXCEPT ![a.item] = line]
<1>1. /\ pc[s] = "item" /\ SaveOrder(o, Reconciled(order[o], itm, o), itm)
      /\ UNCHANGED <<pay, table>>
  BY DEF ItemCommit, LedgerInv, SeatInv, IInv, TypeOK
<1>2. /\ o \in Orders /\ a.item \in Items /\ item[a.item].ord = o
      /\ \/ a.op = "itemStatus" /\ a.st \in Statuses
         \/ a.op \in {"itemDetails", "itemCancel"}
      /\ a.op = "itemDetails" => a.amt \in Amounts
      /\ item[a.item] \in LineRecord
  BY <1>1 DEF LedgerInv, SeatInv, IInv, Held, LineHeld, ArgsOK, Meant, TypeOK
<1>3. item[a.item] # NoItem /\ Exists(o)
  <2>1. item[a.item] # NoItem
    BY <1>2 DEF NoItem, Orders
  <2> QED
    BY <1>2, <2>1 DEF LedgerInv, SeatInv, IInv, NoOrphans
<1>4. line \in NewStatuses(item[a.item]) \cup NewPrices(item[a.item])
  BY <1>2 DEF ChangedLine, NewStatuses, NewPrices, LineRecord, Statuses
<1> HIDE DEF line
<1>5. ChangeLine(a.item)
  BY <1>1, <1>2, <1>3, <1>4 DEF ChangeLine
<1> QED
  BY <1>2, <1>5 DEF Operation

\* update and updateStatus.
LEMMA UpdateIsAStep ==
  ASSUME LedgerInv, NEW s \in Sessions, UpdateWrite(s)
  PROVE  Operation
<1> DEFINE a == arg[s]
           o == a.ord
<1>1. pc[s] = "update.write"
  BY DEF UpdateWrite
<1>2. /\ o \in Orders /\ Exists(o) /\ NextTableFree(s)
      /\ a.tab \in Tables \cup {NoTable} /\ a.st \in Statuses \cup {"keep"}
  BY <1>1 DEF LedgerInv, SeatInv, IInv, Held, OrderHeld, OrderPhases, ArgsOK, TablesHeld, TypeOK,
              Arguments
<1>3. ReviseOrder(o, a.tab, a.st)
  BY <1>2 DEF UpdateWrite, ReviseOrder, NextTableFree
<1> QED
  BY <1>2, <1>3 DEF Operation

LEMMA DeleteIsAStep ==
  ASSUME LedgerInv, NEW s \in Sessions, DeleteCommit(s)
  PROVE  Operation
<1> DEFINE o == arg[s].ord
<1>1. pc[s] = "delete"
  BY DEF DeleteCommit
<1>2. o \in Orders /\ Exists(o)
  BY <1>1 DEF LedgerInv, SeatInv, IInv, Held, OrderHeld, OrderPhases
<1>3. RemoveOrder(o)
  BY <1>2 DEF DeleteCommit, RemoveOrder, TablesBecome
<1> QED
  BY <1>2, <1>3 DEF Operation

\* Payments: create, whose reading is still true, and update and delete.
LEMMA RefreshIsAStep ==
  ASSUME LedgerInv, NEW s \in Sessions, RefreshCommit(s)
  PROVE  Operation
<1> DEFINE a == arg[s]
           o == a.ord
<1>1. /\ pc[s] = "refresh"
      /\ Refreshed(o, NewPays(s), NextStatus(s), seen[s].paid, seen[s].table)
  <2>1. TablesBecome(IF NextStatus(s) = "Completed" THEN {seen[s].table} ELSE {}, "Available")
    BY DEF RefreshCommit, TablesBecome
  <2> QED
    BY <2>1 DEF RefreshCommit, Refreshed
<1>2. /\ IInv /\ Held(s) /\ SeenStill(s) /\ Meant(s)
      /\ o \in Orders /\ Exists(o) /\ order[o] \in OrderRecord
      /\ a.op \in {"pay", "editPay", "dropPay"}
      /\ a.op # "dropPay" => a.st \in PayStatuses /\ a.amt \in Amounts
      /\ seen[s] \in Reads /\ seen[s].status \in Statuses
  BY <1>1 DEF LedgerInv, SeatInv, IInv, Held, OrderHeld, OrderPhases, ArgsOK, Meant, TypeOK
<1>3. CASE a.op = "pay"
  <2> DEFINE paid == Paid(pay, o) + (IF a.st = "Success" THEN a.amt ELSE 0)
             st   == IF paid >= order[o].total THEN "Completed" ELSE order[o].status
  <2>1. Paying(s) /\ a.pay \in Pays /\ pay[a.pay] = NoPay
    BY <1>1, <1>2, <1>3 DEF Paying, Held, PayFresh
  <2>2. order[o].status \notin Settled /\ (a.st = "Success" => Due(o, a.amt))
    BY <1>2, <2>1 DEF Held, ChargeChecked
  <2>3. /\ seen[s].status = order[o].status /\ seen[s].total = order[o].total
        /\ seen[s].table = order[o].table /\ seen[s].paid = paid
    BY <1>2, <2>1 DEF SeenStill
  <2>4. NextStatus(s) = st
    BY <2>2, <2>3 DEF NextStatus, Settled
  <2>5. NewPays(s) = [pay EXCEPT ![a.pay] = [ord |-> o, status |-> a.st, amt |-> a.amt]]
    BY <1>3 DEF NewPays
  <2>6. Refreshed(o, [pay EXCEPT ![a.pay] = [ord |-> o, status |-> a.st, amt |-> a.amt]],
                  st, paid, order[o].table)
    BY <1>1, <2>3, <2>4, <2>5
  <2>7. ChargeOrder(o, a.pay, a.st, a.amt)
    BY <1>2, <2>1, <2>2, <2>6 DEF ChargeOrder
  <2> QED
    BY <1>2, <1>3, <2>1, <2>7 DEF Operation
<1>4. CASE a.op # "pay"
  <2> DEFINE new == IF a.op = "dropPay" THEN NoPay
                    ELSE [ord |-> o, status |-> a.st, amt |-> a.amt]
  <2>1. /\ a.pay \in Pays /\ (pay[a.pay].ord = o \/ pay[a.pay] = NoPay)
        /\ pay[a.pay] = NoPay => a.op = "dropPay"
    BY <1>1, <1>2, <1>4 DEF Held, PaymentHeld, Editing
  <2>3. new \in {NoPay} \cup [ord: {o}, status: PayStatuses, amt: Amounts]
    BY <1>2
  <2>4. NewPays(s) = [pay EXCEPT ![a.pay] = new]
    BY DEF NewPays
  <2> HIDE DEF new
  <2>5. NextStatus(s) \in Statuses /\ seen[s].table \in Tables \cup {NoTable} /\ seen[s].paid \in Nat
    BY <1>2 DEF NextStatus, Statuses, Reads
  <2>6. order'[o].received = seen[s].paid
    BY <1>1, <1>2 DEF Refreshed, SaveOrder, IInv, TypeOK, OrderRecord
  <2>7. Refreshed(o, [pay EXCEPT ![a.pay] = new], NextStatus(s), order'[o].received, seen[s].table)
    BY <1>1, <2>4, <2>6
  <2>8. CASE pay[a.pay] # NoPay
    <3>1. AmendPayment(a.pay)
      BY <1>2, <2>1, <2>3, <2>5, <2>6, <2>7, <2>8 DEF AmendPayment
    <3> QED
      BY <2>1, <3>1 DEF Operation
  <2>9. CASE pay[a.pay] = NoPay
    <3>1. NewPays(s) = pay
      BY <1>2, <2>1, <2>9 DEF NewPays, IInv, TypeOK
    <3>2. Refreshed(o, pay, NextStatus(s), order'[o].received, seen[s].table)
      BY <1>1, <2>6, <3>1
    <3>3. RefreshAgain(o)
      BY <1>2, <2>5, <2>6, <3>2 DEF RefreshAgain
    <3> QED
      BY <1>2, <3>3 DEF Operation
  <2> QED
    BY <2>8, <2>9
<1> QED
  BY <1>3, <1>4

\* The second of two removals of a payment, whose order went meanwhile.
LEMMA MissIsAStep ==
  ASSUME LedgerInv, NEW s \in Sessions, RefreshMissed(s)
  PROVE  Operation \/ UNCHANGED rows
<1> DEFINE o == arg[s].ord
<1>1. pc[s] = "edit.order" /\ ~Exists(o) /\ UNCHANGED <<order, item, pay, snap>>
  BY DEF RefreshMissed
<1>2. o \in Orders /\ seen[s].table \in Tables \cup {NoTable} /\ "Pending" \in Statuses
  BY <1>1 DEF LedgerInv, SeatInv, IInv, Held, PaymentHeld, Editing, EditPhases, TypeOK, Reads,
              Statuses
<1>3. CASE NextStatus(s) = "Completed"
  <2>1. TablesBecome({seen[s].table}, "Available")
    BY <1>3 DEF RefreshMissed, TablesBecome
  <2>2. RefreshAgain(o)
    BY <1>1, <1>2, <2>1 DEF RefreshAgain
  <2> QED
    BY <1>2, <2>2 DEF Operation
<1>4. CASE NextStatus(s) # "Completed"
  <2>1. table' = table
    BY <1>4 DEF RefreshMissed, LedgerInv, SeatInv, IInv, TypeOK
  <2> QED
    BY <1>1, <2>1 DEF rows
<1> QED
  BY <1>3, <1>4

LEMMA LedgerStep == LedgerInv /\ [Next]_vars => [LedgerNext]_rows
<1> SUFFICES ASSUME LedgerInv, [Next]_vars PROVE [LedgerNext]_rows
  OBVIOUS
<1>1. ASSUME NEW s \in Sessions, Step(s) PROVE Operation \/ UNCHANGED rows
  <2>1. Request(s) \/ DeadlockVictim(s) \/ Crash(s) => UNCHANGED rows
    BY DEF Request, CreateLock, CreateFullLock, SubmitAppend, SubmitCreate, AddLock, UpdateLock,
           DeleteLock, ItemLock, PayLock, EditFind, DeadlockVictim, Crash
  <2>2. Continue(s) => \/ UNCHANGED rows
                       \/ CreateCommit(s) \/ AddCommit(s) \/ ItemCommit(s)
                       \/ UpdateWrite(s) \/ DeleteCommit(s) \/ RefreshCommit(s) \/ RefreshMissed(s)
    BY DEF Continue, AppendLock, UpdateTables, UpdateReject, EditLock, EditMissed, EditReadOrder,
           EditNoOrder, EditReadPays, EditLockOrder
  <2> QED
    BY <1>1, <2>1, <2>2, CreateIsAStep, AddIsAStep, ItemIsAStep, UpdateIsAStep, DeleteIsAStep,
       RefreshIsAStep, MissIsAStep DEF Step
<1>2. UNCHANGED vars => UNCHANGED rows
  BY DEF vars, rows
<1> QED
  BY <1>1, <1>2 DEF Next, Step, LedgerNext

\* Every request on an order is atomic, for any number of sessions: it has no
\* effect on the rows until its COMMIT, and there the effect and the conditions
\* of one step on the rows as they then are.  Editing and removing payments is the
\* exception that Ledger makes.
THEOREM ImplementsLedger == Spec => LedgerSpec
<1>1. Init => LedgerInit
  BY DEF Init
<1> QED
  BY <1>1, LedgerInvInit, LedgerInvNext, LedgerStep, PTL DEF Spec, LedgerSpec
=============================================================================

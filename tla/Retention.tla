----------------------------- MODULE Retention -----------------------------
(***************************************************************************)
(* The deletion of what is old (services/maintenance): every process that  *)
(* schedules it runs a cycle now and then, which removes closed orders,    *)
(* completed purchases and log entries in batches.                         *)
(*                                                                         *)
(* What a batch removes is looked up outside of the transaction that       *)
(* removes it; meanwhile the rest of the program adds to orders, and       *)
(* reopens them.  Each DELETE is a statement of its own.  A foreign key    *)
(* refuses a statement that would leave a part without what it belongs to. *)
(* Wrong... definitions are mutations of the definition after them.        *)
(***************************************************************************)
EXTENDS Naturals, FiniteSets, Sequences

CONSTANTS
  Sales, Purchases, Entries,  \* the rows of sales_orders, stock_orders and audit_logs
  Cleaners,                   \* the processes that run the scheduler
  Settings,                   \* what the environment may say: records of EnvRecord
  BatchSize, MaxBatches,      \* as the environment gives them, clamped by clampInt
  PartNumbers,                \* numbers of the items of an order
  MaxRestarts                 \* bound: restarts of the processes

ASSUME TablesApart == Sales \cap Purchases = {} /\ Sales \cap Entries = {} /\ Purchases \cap Entries = {}

Words == {"on", "off", "unset"}
EnvRecord == [scheduler: Words, enabled: [1..3 -> Words], dry: [1..3 -> Words]]
ASSUME SettingsAreWords == Settings \subseteq EnvRecord

ASSUME RetentionBounds == BatchSize \in Nat \ {0} /\ MaxBatches \in Nat \ {0} /\ MaxRestarts \in Nat

VARIABLES
  env,       \* the settings of this deployment
  aged,      \* the row of each order, purchase and entry
  given,     \* history: the parts that the program gave to it, and did not take away
  cleaner,   \* where each process is
  restarts

retentionVars == <<env, aged, given, cleaner, restarts>>

Aging == Sales \cup Purchases \cup Entries
Kinds == <<Sales, Purchases, Entries>>
\* An item, its detail, a payment: the detail belongs to the item of its number.
Item(n)    == <<"item", n>>
Detail(n)  == <<"detail", n>>
Payment(n) == <<"payment", n>>
OfKind(k)  == {<<k, n>> : n \in PartNumbers}
PartsOfRow(o) == (IF o \in Sales THEN OfKind("payment") ELSE {})
                 \cup (IF o \in Entries THEN {} ELSE OfKind("item") \cup OfKind("detail"))

NoCleaner == [at |-> "asleep", kind |-> 1, left |-> 0, ids |-> {}, gone |-> {}]

\* "unset" falls back, and what is not enabled is only counted.
Said(word, fallback) == IF word = "unset" THEN fallback ELSE word = "on"
Enabled(kind) == Said(env.enabled[kind], IF kind = 1 THEN FALSE ELSE Said(env.enabled[1], FALSE))
DryRun(kind) ==
  LET orders == ~Enabled(1) \/ Said(env.dry[1], FALSE) IN
  ~Enabled(kind) \/ (IF kind = 1 THEN orders ELSE Said(env.dry[kind], orders))
Scheduled == Said(env.scheduler, \E kind \in 1..3 : Said(env.enabled[kind], FALSE))

----------------------------------------------------------------------------
(* The rest of the program.                                                 *)

\* Rows that a transaction of a cleaner holds: those that it has deleted so far.
DeletedBySome(o, part) == \E c \in Cleaners : <<o, part>> \in cleaner[c].gone
Grow(o) == aged[o].there /\ UNCHANGED <<env, cleaner, restarts>>

\* A detail needs its item; a part that the key refers to must be there at the end.
AddPart(o) ==
  /\ Grow(o)
  /\ \E part \in PartsOfRow(o) \ aged[o].parts :
       /\ part[1] = "detail" => Item(part[2]) \in aged[o].parts /\ ~DeletedBySome(o, Item(part[2]))
       /\ aged'  = [aged  EXCEPT ![o].parts = @ \cup {part}]
       /\ given' = [given EXCEPT ![o] = @ \cup {part}]

\* Open orders only become closed by their payment, and are opened again by an edit.
Toggle(o) ==
  /\ Grow(o)
  /\ aged' = [aged EXCEPT ![o].closed = ~@]
  /\ UNCHANGED given

GrowOld(o) ==
  /\ Grow(o) /\ ~aged[o].old
  /\ aged' = [aged EXCEPT ![o].old = TRUE]
  /\ UNCHANGED given

----------------------------------------------------------------------------
(* runCycle.                                                                *)

At(c, step) == cleaner[c].at = step
Goes(c, record) == cleaner' = [cleaner EXCEPT ![c] = record]
Keeps == UNCHANGED <<env, aged, given, restarts>>

\* The end of a cycle, good or bad: the flag inFlight is cleared in any case.
WrongEndsCycle(c, failed) ==  \* only at the end of the try
  Goes(c, [NoCleaner EXCEPT !.at = IF failed THEN "stuck" ELSE "asleep"])
EndsCycle(c, failed) == Goes(c, NoCleaner)

\* The timer; it does nothing while a cycle is on the way.
RunCycle(c) ==
  /\ Scheduled
  /\ At(c, "asleep")
  /\ Goes(c, [NoCleaner EXCEPT !.at = "count"])
  /\ Keeps

Old(o) == aged[o].there /\ aged[o].old
OrderCandidates    == {o \in Sales : Old(o) /\ aged[o].closed}
PurchaseCandidates == {o \in Purchases : Old(o) /\ aged[o].closed}
LogCandidates      == {o \in Entries : Old(o)}
Candidates(kind)   == <<OrderCandidates, PurchaseCandidates, LogCandidates>>[kind]

\* The statements that delete a batch.
OrderSteps    == <<"payment", "detail", "item", "order">>
PurchaseSteps == <<"detail", "item", "order">>
LogSteps      == <<"log">>
Statements(kind) == <<OrderSteps, PurchaseSteps, LogSteps>>[kind]
After(c) == LET all == Statements(cleaner[c].kind) IN all[1 + CHOOSE i \in DOMAIN all : all[i] = cleaner[c].at]

NextKind(c, kind) ==
  IF kind = 3 THEN EndsCycle(c, FALSE) ELSE Goes(c, [NoCleaner EXCEPT !.at = "count", !.kind = kind + 1])

CountCandidates(c) ==
  LET kind == cleaner[c].kind IN
  /\ At(c, "count")
  /\ IF DryRun(kind) \/ Candidates(kind) = {} THEN NextKind(c, kind)
     ELSE Goes(c, [cleaner[c] EXCEPT !.at = "fetch", !.left = MaxBatches])
  /\ Keeps

\* The oldest ones; how old each is does not matter here.
FetchCandidateIds(c) ==
  LET k     == cleaner[c]
      found == Candidates(k.kind) IN
  /\ At(c, "fetch")
  /\ \/ (k.left = 0 \/ found = {}) /\ NextKind(c, k.kind)
     \/ /\ k.left > 0 /\ found # {}
        /\ \E ids \in SUBSET found :
             /\ Cardinality(ids) = IF Cardinality(found) < BatchSize THEN Cardinality(found) ELSE BatchSize
             /\ Goes(c, [k EXCEPT !.ids = ids, !.left = @ - 1,
                                  !.at = Statements(k.kind)[1]])
  /\ Keeps

\* What a statement finds: the rows that are there, and that it has not deleted itself.
PartsLeft(c, parts) ==
  {row \in cleaner[c].ids \X parts : row[2] \in aged[row[1]].parts} \ cleaner[c].gone
Waits(c, rows) == \E d \in Cleaners \ {c} : rows \cap cleaner[d].gone # {}

\* DELETE FROM payments, FROM sales_order_detail, FROM stock_orders_detail
DeleteParts(c) ==
  LET k    == cleaner[c]
      rows == PartsLeft(c, OfKind(k.at)) IN
  /\ k.at \in {"payment", "detail"}
  /\ ~Waits(c, rows)
  /\ Goes(c, [k EXCEPT !.gone = @ \cup rows, !.at = After(c)])
  /\ Keeps

\* A detail that came after the statement before: the transaction is rolled back.
DeleteItems(c) ==
  LET k    == cleaner[c]
      rows == PartsLeft(c, OfKind("item"))
      kept == {row \in rows : <<row[1], Detail(row[2][2])>> \in PartsLeft(c, OfKind("detail"))} IN
  /\ At(c, "item")
  /\ ~Waits(c, rows)
  /\ IF kept # {} THEN EndsCycle(c, TRUE)
     ELSE Goes(c, [k EXCEPT !.gone = @ \cup rows, !.at = After(c)])
  /\ Keeps

Without(gone) == [o \in Aging |-> [aged[o] EXCEPT !.parts = {p \in @ : <<o, p>> \notin gone}]]

\* The same for an item or a payment; otherwise the orders go, and all of it is committed.
WrongDeleteOrders(c) ==  \* outside of a transaction what was deleted is deleted
  LET k == cleaner[c] IN
  /\ At(c, "order")
  /\ IF \E o \in k.ids : PartsLeft(c, PartsOfRow(o)) # {}
     THEN aged' = Without(k.gone) /\ EndsCycle(c, TRUE)
     ELSE /\ aged' = [o \in Aging |-> IF o \in k.ids THEN [Without(k.gone)[o] EXCEPT !.there = FALSE]
                                                     ELSE Without(k.gone)[o]]
          /\ Goes(c, [k EXCEPT !.at = "fetch", !.ids = {}, !.gone = {}])
  /\ UNCHANGED <<env, given, restarts>>
DeleteOrders(c) ==
  LET k == cleaner[c] IN
  /\ At(c, "order")
  /\ IF \E o \in k.ids : PartsLeft(c, PartsOfRow(o)) # {}
     THEN aged' = aged /\ EndsCycle(c, TRUE)
     ELSE /\ aged' = [o \in Aging |-> IF o \in k.ids THEN [Without(k.gone)[o] EXCEPT !.there = FALSE]
                                                     ELSE Without(k.gone)[o]]
          /\ Goes(c, [k EXCEPT !.at = "fetch", !.ids = {}, !.gone = {}])
  /\ UNCHANGED <<env, given, restarts>>

\* One statement, in no transaction.
DeleteAuditLogs(c) ==
  LET k == cleaner[c] IN
  /\ At(c, "log")
  /\ aged' = [o \in Aging |-> IF o \in k.ids THEN [aged[o] EXCEPT !.there = FALSE] ELSE aged[o]]
  /\ Goes(c, [k EXCEPT !.at = "fetch", !.ids = {}])
  /\ UNCHANGED <<env, given, restarts>>

\* A statement that fails ends the cycle, and a restart loses it.
Interrupt(c) ==
  /\ restarts < MaxRestarts
  /\ cleaner[c] # NoCleaner
  /\ restarts' = restarts + 1
  /\ EndsCycle(c, TRUE) \/ Goes(c, NoCleaner)
  /\ UNCHANGED <<env, aged, given>>

\* A step of a cycle that is on the way.
Cleans(c) == \/ CountCandidates(c) \/ FetchCandidateIds(c) \/ DeleteParts(c)
             \/ DeleteItems(c) \/ DeleteOrders(c) \/ DeleteAuditLogs(c)

----------------------------------------------------------------------------
NoParts == [there |-> TRUE, closed |-> FALSE, old |-> FALSE, parts |-> {}]

RetentionInit ==
  /\ env \in Settings
  /\ aged = [o \in Aging |-> NoParts]
  /\ given = [o \in Aging |-> {}]
  /\ cleaner = [c \in Cleaners |-> NoCleaner]
  /\ restarts = 0

RetentionNext ==
  \/ \E c \in Cleaners : RunCycle(c) \/ Cleans(c) \/ Interrupt(c)
  \/ \E o \in Aging : AddPart(o) \/ GrowOld(o)
  \/ \E o \in Aging \ Entries : Toggle(o)

RetentionSpec == RetentionInit /\ [][RetentionNext]_retentionVars
                 /\ \A c \in Cleaners : WF_retentionVars(RunCycle(c)) /\ WF_retentionVars(Cleans(c))

----------------------------------------------------------------------------
(* Properties.                                                              *)

AllParts == OfKind("item") \cup OfKind("detail") \cup OfKind("payment")

\* Settings, rows and cleaners have their types.
RetentionTypeOK ==
  /\ env \in EnvRecord
  /\ aged \in [Aging -> [there: BOOLEAN, closed: BOOLEAN, old: BOOLEAN, parts: SUBSET AllParts]]
  /\ given \in [Aging -> SUBSET AllParts]
  /\ \A c \in Cleaners :
       /\ cleaner[c].kind \in 1..3 /\ cleaner[c].left \in 0..MaxBatches
       /\ cleaner[c].ids \subseteq Aging /\ cleaner[c].gone \subseteq Aging \X AllParts
       /\ cleaner[c].at \in {"asleep", "count", "fetch", "payment", "detail", "item", "order", "log"}
  /\ restarts \in 0..MaxRestarts

\* An order goes with all of its parts, or stays with all of them, whatever is
\* added to it while a batch is deleted and wherever the batch fails; and
\* nothing goes that is not yet old, or whose kind the settings only count.
GoesWhole ==
  \A o \in Aging :
    /\ aged[o].there => aged[o].parts = given[o]
    /\ ~aged[o].there => /\ aged[o].parts = {} /\ aged[o].old
                         /\ \A kind \in 1..3 : o \in Kinds[kind] => ~DryRun(kind)

\* What is old and stays closed goes at last, failed batches and restarts
\* notwithstanding, when the settings let its kind go and the timer fires.
OldOnesGo ==
  \A kind \in 1..3 : \A o \in Kinds[kind] :
    (Scheduled /\ ~DryRun(kind) /\ o \in Candidates(kind)) ~> (o \notin Candidates(kind))
=============================================================================

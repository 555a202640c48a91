------------------------------ MODULE Shifts ------------------------------
(***************************************************************************)
(* The shifts of one branch: opening, closing, and the orders and payments *)
(* that need an open shift while they run beside a close.                  *)
(*                                                                         *)
(* closeShift runs no transaction: it reads the open shift, counts its     *)
(* open orders, adds up its cash and saves, one statement after another.   *)
(* An order is checked against the open shift before its transaction       *)
(* begins; a payment inside its own, without locking the shift.            *)
(*                                                                         *)
(* Shifts are numbered in the order they open, and a transaction that      *)
(* began after k openings has a create_date later than the open_time of    *)
(* the first k shifts.  Every order has the same total.  An expected       *)
(* amount is given without the cash the shift started with.                *)
(*                                                                         *)
(* A definition named Wrong... is a mistake that the next one could        *)
(* contain; it is used to test the properties.                             *)
(***************************************************************************)
EXTENDS Naturals, FiniteSets, Functions

CONSTANTS
    MaxShifts, MaxOrds, MaxPays,    \* how many rows may exist
    Total,                          \* the total of every order
    Amounts,                        \* amounts of payments and of cash counted at a close
    Callers,                        \* the concurrent requests
    Ops                             \* the endpoints that clients call

ASSUME ShiftBounds ==
    MaxShifts \in Nat /\ MaxOrds \in Nat /\ MaxPays \in Nat
ASSUME ShiftMoney == Total \in Nat \ {0} /\ Amounts \subseteq Nat \ {0}

ShiftIds == 1 .. MaxShifts
Ords     == 1 .. MaxOrds
Pays     == 1 .. MaxPays
Methods  == {"cash", "transfer"}

VARIABLES
    shift,  \* shifts
    ord,    \* sales_orders: status, and how many shifts had opened when it began
    pay,    \* payments
    stage,  \* where each caller is in its request
    noted,  \* what the caller read and will use
    watch   \* history: what happened since the caller's request arrived

shiftVars == <<shift, ord, pay, stage, noted, watch>>

NoShift == [status |-> "ABSENT", expected |-> 0, counted |-> 0]
NoOrd   == [status |-> "Absent", since |-> 0]
NoPay   == [ord |-> 0, shift |-> 0, amt |-> 0, by |-> "none", status |-> "Absent"]
NoSeen  == [shift |-> 0, ord |-> 0, pay |-> NoPay, id |-> 0, amt |-> 0]
NoWatch == [opened |-> {}, stuck |-> {}]

Open   == {k \in ShiftIds : shift[k].status = "OPEN"}
Opened == Cardinality({k \in ShiftIds : shift[k] # NoShift})

WrongPendingStatuses == {"Pending"}  \* a bill that was asked for is forgotten
PendingStatuses == {"Pending", "WaitingForPayment"}

\* getPendingOrdersByType: the open orders created since the shift opened.
PendingIn(k) == {o \in Ords : ord[o].status \in PendingStatuses /\ ord[o].since >= k}

\* Number(payment.amount || 0): what is not an amount counts as nothing.
Money(x) == IF x \in Nat THEN x ELSE 0
SumOf(pays, S) == Money(SumFunction([p \in S |-> pays[p].amt]))
Sum(S) == SumOf(pay, S)
Success(o) == {p \in Pays : pay[p].ord = o /\ pay[p].status = "Success"}
\* calculateShiftCloseAmounts: the cash taken in a shift.
CashPays(k) == {p \in Pays : pay[p].shift = k /\ pay[p].status = "Success" /\ pay[p].by = "cash"}

Locked(o) == \E s \in Callers : stage[s] = "pay" /\ noted[s].ord = o

\* History: the shifts that were open at some moment of a request, and the
\* orders that have been open during all of it.
Pending(orders) == {o \in Ords : orders[o].status \in {"Pending", "WaitingForPayment"}}
Watched(s) ==
    IF stage'[s] = "idle" THEN NoWatch
    ELSE IF stage[s] = "idle" THEN [opened |-> Open \cup Open', stuck |-> Pending(ord')]
    ELSE [opened |-> watch[s].opened \cup Open', stuck |-> watch[s].stuck \cap Pending(ord')]
Remember == watch' = [s \in Callers |-> Watched(s)]

Begin(s, next, read) ==
    /\ stage[s] = "idle"
    /\ stage' = [stage EXCEPT ![s] = next]
    /\ noted' = [noted EXCEPT ![s] = read]
Advance(s, next, read) ==
    /\ stage' = [stage EXCEPT ![s] = next]
    /\ noted' = [noted EXCEPT ![s] = read]
End(s) ==
    /\ stage' = [stage EXCEPT ![s] = "idle"]
    /\ noted' = [noted EXCEPT ![s] = NoSeen]

(***************************************************************************)
(* openShift: look for an open shift, insert one if there is none; when    *)
(* the unique index refuses it, somebody else has just opened one: look    *)
(* again.  A caller in "opened" has the answer in noted, "failed" has none.*)
(***************************************************************************)
OpenFind(s) ==
    /\ "open" \in Ops
    /\ \/ \E k \in Open : Begin(s, "opened", [NoSeen EXCEPT !.shift = k])
       \/ Open = {} /\ Begin(s, "open.insert", NoSeen)
    /\ UNCHANGED <<shift, ord, pay>> /\ Remember

OneOpenPerBranch == Open = {}

FreshShift(k) == shift[k] = NoShift /\ \A x \in 1 .. (k - 1) : shift[x] # NoShift

OpenInsert(s) ==
    \E k \in ShiftIds :
        /\ stage[s] = "open.insert"
        /\ OneOpenPerBranch
        /\ FreshShift(k)
        /\ shift' = [shift EXCEPT ![k].status = "OPEN"]
        /\ Advance(s, "opened", [NoSeen EXCEPT !.shift = k])
        /\ UNCHANGED <<ord, pay>> /\ Remember

WrongOpenRefused(s) ==  \* the unique violation is an error of the request
    /\ stage[s] = "open.insert"
    /\ ~OneOpenPerBranch
    /\ Advance(s, "failed", NoSeen)
    /\ UNCHANGED <<shift, ord, pay>> /\ Remember

OpenRefused(s) ==
    /\ stage[s] = "open.insert"
    /\ ~OneOpenPerBranch
    /\ Advance(s, "open.again", NoSeen)
    /\ UNCHANGED <<shift, ord, pay>> /\ Remember

OpenAgain(s) ==
    /\ stage[s] = "open.again"
    /\ \/ \E k \in Open : Advance(s, "opened", [NoSeen EXCEPT !.shift = k])
       \/ Open = {} /\ Advance(s, "failed", NoSeen)
    /\ UNCHANGED <<shift, ord, pay>> /\ Remember

OpenReturn(s) ==
    /\ stage[s] \in {"opened", "failed"}
    /\ End(s)
    /\ UNCHANGED <<shift, ord, pay>> /\ Remember

(***************************************************************************)
(* closeShift.                                                             *)
(***************************************************************************)
CloseRead(s) ==
    \E k \in Open, counted \in Amounts :
        /\ "close" \in Ops
        /\ Begin(s, "close.check", [NoSeen EXCEPT !.shift = k, !.id = counted])
        /\ UNCHANGED <<shift, ord, pay>> /\ Remember

CloseCheck(s) ==
    /\ stage[s] = "close.check"
    /\ IF PendingIn(noted[s].shift) = {} THEN Advance(s, "close.sum", noted[s]) ELSE End(s)
    /\ UNCHANGED <<shift, ord, pay>> /\ Remember

CloseSum(s) ==
    /\ stage[s] = "close.sum"
    /\ Advance(s, "close.save", [noted[s] EXCEPT !.amt = Sum(CashPays(noted[s].shift))])
    /\ UNCHANGED <<shift, ord, pay>> /\ Remember

CloseSave(s) ==
    /\ stage[s] = "close.save"
    /\ shift' = [shift EXCEPT ![noted[s].shift] =
                    [status |-> "CLOSED", expected |-> noted[s].amt, counted |-> noted[s].id]]
    /\ End(s)
    /\ UNCHANGED <<ord, pay>> /\ Remember

(***************************************************************************)
(* An order: ensureActiveShift, then the transaction that inserts it.      *)
(***************************************************************************)
OrderCheck(s) ==
    /\ "order" \in Ops
    /\ Open # {}
    /\ Begin(s, "order.begin", NoSeen)
    /\ UNCHANGED <<shift, ord, pay>> /\ Remember

OrderBegin(s) ==
    /\ stage[s] = "order.begin"
    /\ Advance(s, "order.commit", [NoSeen EXCEPT !.id = Opened])
    /\ UNCHANGED <<shift, ord, pay>> /\ Remember

OrderCommit(s) ==
    \E o \in Ords :
        /\ stage[s] = "order.commit"
        /\ ord[o] = NoOrd /\ \A x \in 1 .. (o - 1) : ord[x] # NoOrd
        /\ ord' = [ord EXCEPT ![o] = [status |-> "Pending", since |-> noted[s].id]]
        /\ End(s)
        /\ UNCHANGED <<shift, pay>> /\ Remember

\* update: any status may follow any other.
OrderUpdate(s) ==
    \E o \in Ords, st \in {"Pending", "WaitingForPayment", "Completed", "Cancelled"} :
        /\ "update" \in Ops
        /\ stage[s] = "idle"
        /\ ord[o] # NoOrd /\ ~Locked(o)
        /\ ord' = [ord EXCEPT ![o].status = st]
        /\ UNCHANGED <<shift, pay, stage, noted>> /\ Remember

(***************************************************************************)
(* payments.create locks the order and reads the open shift; update and    *)
(* delete of a payment look at no shift.                                   *)
(***************************************************************************)
Charge(o, k, amt, by) ==
    [ord |-> o, shift |-> k, amt |-> amt, by |-> by, status |-> "Success"]

PayBegin(s) ==
    \E o \in Ords, p \in Pays, k \in Open, amt \in Amounts, by \in Methods :
        /\ "pay" \in Ops
        /\ ord[o].status \in {"Pending", "WaitingForPayment"} /\ ~Locked(o)
        /\ pay[p] = NoPay /\ \A x \in 1 .. (p - 1) : pay[x] # NoPay
        /\ \A x \in Callers : stage[x] = "pay" => noted[x].id # p
        /\ Sum(Success(o)) + amt <= Total
        /\ Begin(s, "pay", [NoSeen EXCEPT !.ord = o, !.id = p,
                                         !.pay = Charge(o, k, amt, by)])
        /\ UNCHANGED <<shift, ord, pay>> /\ Remember

\* The order's status after its payments changed (refreshOrderPaymentSummary).
Refreshed(o, new) ==
    LET paid == SumOf(new, {p \in Pays : new[p].ord = o /\ new[p].status = "Success"})
    IN  IF ord[o].status # "Cancelled" /\ paid >= Total THEN "Completed" ELSE ord[o].status

PayCommit(s) ==
    LET o   == noted[s].ord
        new == [pay EXCEPT ![noted[s].id] = noted[s].pay]
    IN  /\ stage[s] = "pay"
        /\ pay' = new
        /\ ord' = [ord EXCEPT ![o].status = Refreshed(o, new)]
        /\ End(s)
        /\ UNCHANGED shift /\ Remember

PayEdit(s) ==
    \E p \in Pays, amt \in Amounts, by \in Methods, st \in {"Success", "Failed"} :
        LET o   == pay[p].ord
            new == [pay EXCEPT ![p].amt = amt, ![p].by = by, ![p].status = st]
        IN  /\ "editPay" \in Ops
            /\ stage[s] = "idle"
            /\ pay[p] # NoPay /\ ~Locked(o)
            /\ pay' = new
            /\ ord' = [ord EXCEPT ![o].status = Refreshed(o, new)]
            /\ UNCHANGED <<shift, stage, noted>> /\ Remember

\* A dead process: the statement in flight is rolled back, nothing was written.
CallerDies(s) ==
    /\ stage[s] # "idle"
    /\ End(s)
    /\ UNCHANGED <<shift, ord, pay>> /\ Remember

(***************************************************************************)
(* The specification.                                                      *)
(***************************************************************************)
ShiftsInit ==
    /\ shift = [k \in ShiftIds |-> NoShift]
    /\ ord = [o \in Ords |-> NoOrd]
    /\ pay = [p \in Pays |-> NoPay]
    /\ stage = [s \in Callers |-> "idle"]
    /\ noted = [s \in Callers |-> NoSeen]
    /\ watch = [s \in Callers |-> NoWatch]

CallerStep(s) ==
    \/ OpenFind(s) \/ OpenInsert(s) \/ OpenRefused(s) \/ OpenAgain(s) \/ OpenReturn(s)
    \/ CloseRead(s) \/ CloseCheck(s) \/ CloseSum(s) \/ CloseSave(s)
    \/ OrderCheck(s) \/ OrderBegin(s) \/ OrderCommit(s) \/ OrderUpdate(s)
    \/ PayBegin(s) \/ PayCommit(s) \/ PayEdit(s) \/ CallerDies(s)

ShiftsNext == \E s \in Callers : CallerStep(s)

ShiftsSpec == ShiftsInit /\ [][ShiftsNext]_shiftVars

(***************************************************************************)
(* Properties.                                                             *)
(***************************************************************************)
Stages == {"idle", "open.insert", "open.again", "opened", "failed", "close.check", "close.sum",
           "close.save", "order.begin", "order.commit", "pay"}
OrderStatuses == {"Absent", "Pending", "WaitingForPayment", "Completed", "Cancelled"}
ShiftRecord == [status: {"ABSENT", "OPEN", "CLOSED"}, expected: Nat, counted: Nat]
OrderRecord == [status: OrderStatuses, since: Nat]
PayRecord == [ord: Ords \cup {0}, shift: ShiftIds \cup {0}, amt: Nat, by: Methods \cup {"none"},
              status: {"Absent", "Success", "Failed"}]
SeenRecord == [shift: ShiftIds \cup {0}, ord: Ords \cup {0}, pay: PayRecord, id: Nat, amt: Nat]
WatchRecord == [opened: SUBSET ShiftIds, stuck: SUBSET Ords]

\* Rows and caller state have their types; a payment names an existing shift.
ShiftsTypeOK ==
    /\ shift \in [ShiftIds -> ShiftRecord]
    /\ ord \in [Ords -> OrderRecord]
    /\ pay \in [Pays -> PayRecord]
    /\ stage \in [Callers -> Stages]
    /\ noted \in [Callers -> SeenRecord]
    /\ watch \in [Callers -> WatchRecord]
    /\ \A p \in Pays : pay[p] # NoPay => \E k \in ShiftIds : k = pay[p].shift /\ shift[k] # NoShift

\* Opening is idempotent however openings and closings interleave: at most one
\* shift is open, an opening answers with a shift that was open while it ran,
\* and it fails only when a shift was opened and closed again in front of it.
OneOpenShift == \A j, k \in Open : j = k
OpenAnswers(s) == stage[s] = "opened" => noted[s].shift \in watch[s].opened
OpenFails(s) == stage[s] = "failed" => \E k \in watch[s].opened : shift[k].status = "CLOSED"
OpenIsIdempotent == OneOpenShift /\ \A s \in Callers : OpenAnswers(s) /\ OpenFails(s)

\* An order of the shift that is open during the whole of a close stops it.
OldOrderStopsClose ==
    [][\A s \in Callers : stage[s] = "close.save" /\ shift' # shift =>
          \A o \in watch[s].stuck : ord[o].since < noted[s].shift]_shiftVars

(***************************************************************************)
(* What the repository says and the code does not do.                      *)
(***************************************************************************)

\* A shift does not close over open orders (ensureNoPendingOrders).
NoOrderLeftOpen ==
    [][\A k \in ShiftIds : shift[k].status = "OPEN" /\ shift'[k].status = "CLOSED"
          => PendingIn(k) = {}]_shiftVars

(***************************************************************************)
(* The inductive invariant behind ShiftsTypeOK, OpenIsIdempotent and       *)
(* OldOrderStopsClose.                                                     *)
(***************************************************************************)
ClosePhases == {"close.check", "close.sum", "close.save"}

\* What a caller read names rows that exist.
Names(s) ==
    /\ stage[s] \in ClosePhases => noted[s].shift \in ShiftIds
    /\ stage[s] = "pay" =>
          /\ noted[s].ord \in Ords /\ noted[s].id \in Pays
          /\ \E k \in ShiftIds : k = noted[s].pay.shift /\ shift[k] # NoShift

\* A refused opening saw the shift that stood in its way.
SawRival(s) ==
    stage[s] = "open.again" => \E k \in watch[s].opened : shift[k].status \in {"OPEN", "CLOSED"}

\* After its check a close is stopped by no order that was open all along.
Checked(s) ==
    /\ watch[s].stuck \subseteq Pending(ord)
    /\ stage[s] \in {"close.sum", "close.save"} =>
          \A o \in watch[s].stuck : ord[o].since < noted[s].shift

Facts(s) == Names(s) /\ SawRival(s) /\ Checked(s)

ShiftsIInv == ShiftsTypeOK /\ OpenIsIdempotent /\ \A s \in Callers : Facts(s)
=============================================================================

---------------------------- MODULE PublicSubmit ---------------------------
(***************************************************************************)
(* A customer's order, sent with an Idempotency-Key and sent again: the    *)
(* submit handlers of the two public controllers around submitByToken.     *)
(*                                                                         *)
(* The records of the keys are in Redis, or in the memory of each process  *)
(* where Redis is not configured.  A call to Redis that fails is made to   *)
(* the memory of the process instead, whether Redis did it or not.  A      *)
(* record leaves its store by its time to live, by eviction, or with its   *)
(* process.                                                                *)
(*                                                                         *)
(* submitByToken is one transaction: it fails before its COMMIT, makes an  *)
(* order, or makes an order and fails after it (the answer to the COMMIT   *)
(* is lost; the order is read once more and that fails).                   *)
(*                                                                         *)
(* trusted is a history variable: no record was lost, or sought elsewhere, *)
(* that a retry needed, and no failure hid an order.                       *)
(*                                                                         *)
(* A definition named Wrong... is a mistake that the next one could        *)
(* contain; it is used to test the properties.                             *)
(***************************************************************************)
EXTENDS Integers

CONSTANTS
    Sessions, Processes,
    Keys, NoKey,      \* the Idempotency-Keys, and their absence
    Payloads,
    MaxOrders,        \* how many orders may be made
    Redis,            \* whether Redis is configured
    Shared,           \* the store in Redis
    Faults,           \* the failures that happen
    NoAnswer

ASSUME KeysAreKeys == NoKey \notin Keys
ASSUME SharedIsNoProcess == Shared \notin Processes
ASSUME RedisIsSet == Redis \in BOOLEAN
ASSUME FaultsExist == Faults \subseteq {"call", "late", "loss", "crash"}
ASSUME OrdersCounted == MaxOrders \in Nat
\* Several processes behind the load balancer need Redis.
ASSUME OneStore == Redis \/ \A p, q \in Processes : p = q

VARIABLES
    order,    \* the orders that were submitted: key and payload of each
    store,    \* the records of the keys, in Redis and in every process
    pc, seen, \* where each session is in the handler; its request
    told,     \* the order that each session was last told
    trusted

vars == <<order, store, pc, seen, told, trusted>>

Orders == 1 .. MaxOrders
Stores == Processes \cup {Shared}
Home(p) == IF Redis THEN Shared ELSE p

Submitted == [key: Keys \cup {NoKey}, payload: Payloads]
NoOrder == [made |-> FALSE]
NoRecord == [status |-> "none"]
InProgress(d) == [status |-> "in_progress", payload |-> d]
Completed(d, o) == [status |-> "completed", payload |-> d, order |-> o]
NoRequest == [sent |-> FALSE]
Asked(p, k, d) == [proc |-> p, key |-> k, payload |-> d, order |-> 0]

\* The stores that a write of process p reaches; a reply from the last counts.
Reached(p) ==
    {{Home(p)}} \cup IF Redis /\ "call" \in Faults THEN {{p}, {p, Shared}} ELSE {}
Reply(p, W) == IF p \in W THEN p ELSE Shared

Key(s) == seen[s].key
Payload(s) == seen[s].payload
Proc(s) == seen[s].proc

\* An order was made for the key, or is being made.
AtWork(s) == pc[s] \in {"submit", "record", "clear"}
Needed(k) ==
    \/ \E o \in Orders : order[o] # NoOrder /\ order[o].key = k
    \/ \E s \in Sessions : AtWork(s) /\ Key(s) = k

Go(s, to) == pc' = [pc EXCEPT ![s] = to]
Leave(s) == Go(s, "idle") /\ seen' = [seen EXCEPT ![s] = NoRequest]
TellOrder(s, k, d, o) == told' = [told EXCEPT ![s] = [id |-> o, key |-> k, payload |-> d]]

(***************************************************************************)
(* reservePublicOrderIdempotency.                                          *)
(***************************************************************************)
WrongReplays(r, d) == r.status = "completed"  \* the fingerprint is not compared
\* evaluateExistingRecord: the record answers the request with an order.
Replays(r, d) == r.status = "completed" /\ r.payload = d

\* Without a key the order is submitted, and nothing is promised.
Disabled(s) ==
    \E p \in Processes, d \in Payloads :
        /\ pc[s] = "idle"
        /\ Go(s, "submit")
        /\ seen' = [seen EXCEPT ![s] = Asked(p, NoKey, d)]
        /\ UNCHANGED <<order, store, told, trusted>>

\* The first look at the record: a conflict and a request that is in progress
\* are refused.
Look(s) ==
    \E p \in Processes, k \in Keys, d \in Payloads : \E W \in Reached(p) :
        LET r == store[Reply(p, W)][k] IN
        /\ pc[s] = "idle"
        /\ \/ /\ r = NoRecord
              /\ Go(s, "reserve")
              /\ seen' = [seen EXCEPT ![s] = Asked(p, k, d)]
              /\ UNCHANGED told
           \/ /\ r # NoRecord /\ Replays(r, d)
              /\ TellOrder(s, k, d, r.order)
              /\ UNCHANGED <<pc, seen>>
        /\ trusted' = (trusted /\ W = {Home(p)})
        /\ UNCHANGED <<order, store>>

WrongWins(r) == TRUE  \* SET without NX
Wins(r) == r = NoRecord

\* SET NX.
Reserve(s) ==
    /\ pc[s] = "reserve"
    /\ \E W \in Reached(Proc(s)) :
            LET won(h) == Wins(store[h][Key(s)]) IN
            /\ store' = [h \in Stores |->
                            IF h \in W /\ won(h)
                            THEN [store[h] EXCEPT ![Key(s)] = InProgress(Payload(s))]
                            ELSE store[h]]
            /\ Go(s, IF won(Reply(Proc(s), W)) THEN "submit" ELSE "again")
            /\ trusted' = (trusted /\ W = {Home(Proc(s))})
            /\ UNCHANGED <<order, seen, told>>

\* Another request was faster: its record answers, or this one is refused.
LookAgain(s) ==
    /\ pc[s] = "again"
    /\ \E W \in Reached(Proc(s)) :
            LET r == store[Reply(Proc(s), W)][Key(s)] IN
            /\ IF r # NoRecord /\ Replays(r, Payload(s))
               THEN TellOrder(s, Key(s), Payload(s), r.order)
               ELSE UNCHANGED told
            /\ Leave(s)
            /\ trusted' = (trusted /\ W = {Home(Proc(s))})
            /\ UNCHANGED <<order, store>>

(***************************************************************************)
(* submitByToken, and what the handler does after it.                      *)
(***************************************************************************)
\* An error before the COMMIT: the transaction is rolled back.
SubmitFails(s) ==
    /\ pc[s] = "submit"
    /\ IF Key(s) = NoKey THEN Leave(s) ELSE Go(s, "clear") /\ UNCHANGED seen
    /\ UNCHANGED <<order, store, told, trusted>>

SubmitMakes(s, o) ==
    /\ pc[s] = "submit"
    /\ order[o] = NoOrder
    /\ order' = [order EXCEPT ![o] = [key |-> Key(s), payload |-> Payload(s)]]

Submit(s) ==
    \E o \in Orders :
        /\ SubmitMakes(s, o)
        /\ IF Key(s) = NoKey
           THEN Leave(s)
           ELSE Go(s, "record") /\ seen' = [seen EXCEPT ![s].order = o]
        /\ UNCHANGED <<store, told, trusted>>

\* The order is made and the handler sees an error all the same.
SubmitHidden(s) ==
    \E o \in Orders :
        /\ "late" \in Faults
        /\ SubmitMakes(s, o)
        /\ IF Key(s) = NoKey
           THEN Leave(s) /\ UNCHANGED trusted
           ELSE Go(s, "clear") /\ trusted' = FALSE /\ UNCHANGED seen
        /\ UNCHANGED <<store, told>>

\* commitPublicOrderIdempotency and the answer.
Record(s) ==
    /\ pc[s] = "record"
    /\ \E W \in Reached(Proc(s)) :
            /\ store' = [h \in Stores |->
                            IF h \in W
                            THEN [store[h] EXCEPT ![Key(s)] = Completed(Payload(s), seen[s].order)]
                            ELSE store[h]]
            /\ TellOrder(s, Key(s), Payload(s), seen[s].order)
            /\ Leave(s)
            /\ trusted' = (trusted /\ W = {Home(Proc(s))})
            /\ UNCHANGED order

\* clearPublicOrderIdempotency deletes whatever record is there.
Clear(s) ==
    /\ pc[s] = "clear"
    /\ \E W \in Reached(Proc(s)) :
            /\ store' = [h \in Stores |->
                            IF h \in W THEN [store[h] EXCEPT ![Key(s)] = NoRecord] ELSE store[h]]
            /\ Leave(s)
            /\ trusted' = (trusted /\ W = {Home(Proc(s))})
            /\ UNCHANGED <<order, told>>

(***************************************************************************)
(* Failures.                                                               *)
(***************************************************************************)
\* The time to live, or pruneMemoryStore at its limit of entries.
Lose(h, k) ==
    /\ "loss" \in Faults
    /\ store[h][k] # NoRecord
    /\ store' = [store EXCEPT ![h][k] = NoRecord]
    /\ trusted' = (trusted /\ ~Needed(k))
    /\ UNCHANGED <<order, pc, seen, told>>

\* A process dies, with the requests it served and its memory.
Crash(p) ==
    LET dead == {s \in Sessions : pc[s] # "idle" /\ Proc(s) = p} IN
    /\ "crash" \in Faults
    /\ pc' = [s \in Sessions |-> IF s \in dead THEN "idle" ELSE pc[s]]
    /\ seen' = [s \in Sessions |-> IF s \in dead THEN NoRequest ELSE seen[s]]
    /\ store' = [store EXCEPT ![p] = [k \in Keys |-> NoRecord]]
    /\ trusted' = (trusted /\ \A k \in Keys : store[p][k] # NoRecord => ~Needed(k))
    /\ UNCHANGED <<order, told>>

(***************************************************************************)
(* The specification.                                                      *)
(***************************************************************************)
Init ==
    /\ order = [o \in Orders |-> NoOrder]
    /\ store = [h \in Stores |-> [k \in Keys |-> NoRecord]]
    /\ pc = [s \in Sessions |-> "idle"]
    /\ seen = [s \in Sessions |-> NoRequest]
    /\ told = [s \in Sessions |-> NoAnswer]
    /\ trusted = TRUE

Request(s) ==
    \/ Disabled(s) \/ Look(s) \/ Reserve(s) \/ LookAgain(s)
    \/ SubmitFails(s) \/ Submit(s) \/ SubmitHidden(s)
    \/ Record(s) \/ Clear(s)

Next ==
    \/ \E s \in Sessions : Request(s)
    \/ \E h \in Stores, k \in Keys : Lose(h, k)
    \/ \E p \in Processes : Crash(p)

Spec == Init /\ [][Next]_vars

(***************************************************************************)
(* Properties.                                                             *)
(***************************************************************************)
Records == {NoRecord} \cup {InProgress(d) : d \in Payloads}
              \cup {Completed(d, o) : d \in Payloads, o \in Orders}
Requests == [proc: Processes, key: Keys \cup {NoKey}, payload: Payloads, order: Orders \cup {0}]
Phases == {"idle", "reserve", "again", "submit", "record", "clear"}

\* Records, requests and answers have their types.
TypeOK ==
    /\ order \in [Orders -> {NoOrder} \cup Submitted]
    /\ store \in [Stores -> [Keys -> Records]]
    /\ pc \in [Sessions -> Phases]
    /\ seen \in [Sessions -> {NoRequest} \cup Requests]
    /\ told \in [Sessions -> {NoAnswer} \cup [id: Orders, key: Keys, payload: Payloads]]
    /\ trusted \in BOOLEAN

\* While nothing was lost, requests with the same key do not run submitByToken
\* at once, whichever processes serve them.
OneAtWork ==
    trusted => \A s, x \in Sessions :
                   AtWork(s) /\ AtWork(x) /\ Key(s) = Key(x) /\ Key(s) # NoKey => s = x

\* The orders that were made for a key.
Made == {[id |-> o, key |-> order[o].key, payload |-> order[o].payload] :
            o \in {x \in Orders : order[x] # NoOrder /\ order[x].key # NoKey}}

Keyed == INSTANCE KeyedOrders WITH Ids <- Orders, Clients <- Sessions, made <- Made

\* The handlers keep the promise of an Idempotency-Key: one order for a key while
\* nothing was lost, and always an order made for this key and this payload.
PromiseKept == Keyed!Spec

(***************************************************************************)
(* The inductive invariant behind TypeOK, OneAtWork and PromiseKept.       *)
(***************************************************************************)
MadeFor(o, k) == order[o] # NoOrder /\ order[o].key = k

\* A session at work has a request, with a key once it has a record to look
\* after; one that records has made its order.
Asks(s) ==
    /\ pc[s] # "idle" => seen[s] \in Requests
    /\ pc[s] \in {"reserve", "again", "record", "clear"} => Key(s) \in Keys
    /\ pc[s] = "record" =>
          /\ seen[s].order \in Orders
          /\ order[seen[s].order] = [key |-> Key(s), payload |-> Payload(s)]

\* A record and an answer name an order that was made for their key and payload.
RecordsAreTrue ==
    \A h \in Stores, k \in Keys : LET r == store[h][k] IN
        r.status = "completed" => order[r.order] = [key |-> k, payload |-> r.payload]
AnswersAreTrue ==
    \A s \in Sessions : told[s] # NoAnswer =>
        order[told[s].id] = [key |-> told[s].key, payload |-> told[s].payload]

\* Whoever is at work has the record of its key, and no order of it but its own.
Reserved(s) ==
    AtWork(s) /\ Key(s) # NoKey =>
        /\ \A p \in Processes : store[Home(p)][Key(s)] = InProgress(Payload(s))
        /\ \A o \in Orders : MadeFor(o, Key(s)) => pc[s] = "record" /\ o = seen[s].order

\* An order's key keeps a record, and has no second order.
Remembered ==
    \A o \in Orders, k \in Keys : MadeFor(o, k) =>
        /\ \A p \in Processes : store[Home(p)][k] # NoRecord
        /\ \A x \in Orders : MadeFor(x, k) => x = o

IInv ==
    /\ TypeOK /\ OneAtWork /\ RecordsAreTrue /\ AnswersAreTrue
    /\ \A s \in Sessions : Asks(s)
    /\ trusted => Remembered /\ \A s \in Sessions : Reserved(s)
=============================================================================

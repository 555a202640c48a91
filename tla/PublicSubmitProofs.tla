------------------------- MODULE PublicSubmitProofs ------------------------
(***************************************************************************)
(* Theorems about PublicSubmit for any number of sessions, processes, keys *)
(* and payloads, and whatever fails.                                       *)
(***************************************************************************)
EXTENDS PublicSubmit, TLAPS

\* All processes look for a record in the same place first.
LEMMA HomeSame ==
    ASSUME NEW p \in Processes
    PROVE  Home(p) \in Stores /\ \A q \in Processes : Home(q) = Home(p)
BY OneStore DEF Home, Stores

LEMMA ReachedStores ==
    ASSUME NEW p \in Processes, NEW W \in Reached(p)
    PROVE  W \subseteq Stores /\ Reply(p, W) \in W /\ Reply(p, W) \in Stores
BY HomeSame DEF Reached, Reply, Home, Stores

\* Where no call has failed, the process reached the first place.
LEMMA ReachedHome ==
    ASSUME NEW p \in Processes
    PROVE  Reply(p, {Home(p)}) = Home(p)
BY DEF Reply, Home

LEMMA RecordTypes ==
    /\ NoRecord \in Records
    /\ \A d \in Payloads : InProgress(d) \in Records
    /\ \A d \in Payloads, o \in Orders : Completed(d, o) \in Records
BY DEF Records

\* The three kinds of records.
LEMMA RecordKinds ==
    ASSUME NEW r \in Records
    PROVE  \/ r = NoRecord
           \/ \E d \in Payloads : r = InProgress(d)
           \/ \E d \in Payloads, o \in Orders : r = Completed(d, o)
BY DEF Records

LEMMA RecordFields ==
    ASSUME NEW d, NEW o
    PROVE  /\ NoRecord.status = "none"
           /\ InProgress(d).status = "in_progress" /\ InProgress(d).payload = d
           /\ Completed(d, o).status = "completed" /\ Completed(d, o).payload = d
           /\ Completed(d, o).order = o
BY DEF NoRecord, InProgress, Completed

\* A completed record has a payload and an order.
LEMMA CompletedRecord ==
    ASSUME NEW r \in Records, r.status = "completed"
    PROVE  r.payload \in Payloads /\ r.order \in Orders
BY RecordKinds, RecordFields

LEMMA RequestOf ==
    ASSUME IInv, NEW s \in Sessions, pc[s] # "idle"
    PROVE  /\ seen[s] \in Requests /\ Proc(s) \in Processes /\ Payload(s) \in Payloads
           /\ Key(s) \in Keys \cup {NoKey}
BY DEF IInv, Asks, Requests, Proc, Payload, Key
-----------------------------------------------------------------------------
(***************************************************************************)
(* Types.                                                                  *)
(***************************************************************************)
LEMMA TypeNext ==
    ASSUME IInv, Next
    PROVE  TypeOK'
<1> USE DEF Go, Leave
<1>t. TypeOK
  BY DEF IInv
<1>p. {"idle", "reserve", "again", "submit", "record", "clear"} = Phases
  BY DEF Phases
<1>k. ASSUME NEW s \in Sessions, NEW k \in Keys, NEW d \in Payloads, NEW o \in Orders
      PROVE  [told EXCEPT ![s] = [id |-> o, key |-> k, payload |-> d]] \in
                [Sessions -> {NoAnswer} \cup [id: Orders, key: Keys, payload: Payloads]]
  BY <1>t DEF TypeOK
<1>1. ASSUME NEW s \in Sessions, Disabled(s) PROVE TypeOK'
  BY <1>t, <1>1, <1>p DEF TypeOK, Disabled, Asked, Requests
<1>2. ASSUME NEW s \in Sessions, Look(s) PROVE TypeOK'
  <2>0. PICK p \in Processes, k \in Keys, d \in Payloads : \E W \in Reached(p) :
            LET r == store[Reply(p, W)][k] IN
            /\ pc[s] = "idle"
            /\ \/ /\ r = NoRecord
                  /\ Go(s, "reserve")
                  /\ seen' = [seen EXCEPT ![s] = Asked(p, k, d)]
                  /\ UNCHANGED told
               \/ /\ r # NoRecord /\ Replays(r, d)
                  /\ TellOrder(s, k, d, r.order)
                  /\ UNCHANGED <<pc, seen>>
            /\ trusted' = (trusted /\ W = {Home(p)})
            /\ UNCHANGED <<order, store>>
    BY <1>2, Zenon DEF Look
  <2>1. PICK W \in Reached(p) :
            LET r == store[Reply(p, W)][k] IN
            /\ pc[s] = "idle"
            /\ \/ /\ r = NoRecord
                  /\ Go(s, "reserve")
                  /\ seen' = [seen EXCEPT ![s] = Asked(p, k, d)]
                  /\ UNCHANGED told
               \/ /\ r # NoRecord /\ Replays(r, d)
                  /\ TellOrder(s, k, d, r.order)
                  /\ UNCHANGED <<pc, seen>>
            /\ trusted' = (trusted /\ W = {Home(p)})
            /\ UNCHANGED <<order, store>>
    BY <2>0, Zenon
  <2> DEFINE r == store[Reply(p, W)][k]
  <2>2. r \in Records
    BY <1>t, ReachedStores DEF TypeOK
  <2>3. trusted' \in BOOLEAN /\ UNCHANGED <<order, store>>
    BY <2>1
  <2>4. CASE Go(s, "reserve") /\ seen' = [seen EXCEPT ![s] = Asked(p, k, d)] /\ UNCHANGED told
    BY <1>t, <1>p, <2>3, <2>4 DEF TypeOK, Asked, Requests
  <2>5. CASE Replays(r, d) /\ TellOrder(s, k, d, r.order) /\ UNCHANGED <<pc, seen>>
    <3>1. r.order \in Orders
      BY <2>2, <2>5, CompletedRecord DEF Replays
    <3>2. told' = [told EXCEPT ![s] = [id |-> r.order, key |-> k, payload |-> d]]
      BY <2>5 DEF TellOrder
    <3> HIDE DEF r
    <3>3. told' \in [Sessions -> {NoAnswer} \cup [id: Orders, key: Keys, payload: Payloads]]
      BY <1>k, <3>1, <3>2
    <3> QED
      BY <1>t, <2>3, <2>5, <3>3 DEF TypeOK
  <2> QED
    BY <2>1, <2>4, <2>5
<1>3. ASSUME NEW s \in Sessions, Reserve(s) PROVE TypeOK'
  <2>1. PICK W \in Reached(Proc(s)) :
            /\ pc[s] = "reserve"
            /\ store' = [h \in Stores |->
                            IF h \in W /\ Wins(store[h][Key(s)])
                            THEN [store[h] EXCEPT ![Key(s)] = InProgress(Payload(s))]
                            ELSE store[h]]
            /\ pc' = [pc EXCEPT ![s] = IF Wins(store[Reply(Proc(s), W)][Key(s)]) THEN "submit"
                                       ELSE "again"]
            /\ trusted' = (trusted /\ W = {Home(Proc(s))})
            /\ UNCHANGED <<order, seen, told>>
    BY <1>3 DEF Reserve
  <2>2. InProgress(Payload(s)) \in Records
    BY <2>1, RequestOf, RecordTypes
  <2>3. store' \in [Stores -> [Keys -> Records]]
    BY <1>t, <2>1, <2>2 DEF TypeOK
  <2>4. pc' \in [Sessions -> Phases]
    BY <1>t, <1>p, <2>1 DEF TypeOK
  <2> QED
    BY <1>t, <2>1, <2>3, <2>4 DEF TypeOK
<1>4. ASSUME NEW s \in Sessions, LookAgain(s) PROVE TypeOK'
  <2>1. PICK W \in Reached(Proc(s)) :
            LET r == store[Reply(Proc(s), W)][Key(s)] IN
            /\ IF r # NoRecord /\ Replays(r, Payload(s))
               THEN TellOrder(s, Key(s), Payload(s), r.order)
               ELSE UNCHANGED told
            /\ Leave(s)
            /\ trusted' = (trusted /\ W = {Home(Proc(s))})
            /\ UNCHANGED <<order, store>>
    BY <1>4, Zenon DEF LookAgain
  <2> DEFINE r == store[Reply(Proc(s), W)][Key(s)]
  <2>2. Proc(s) \in Processes /\ Payload(s) \in Payloads /\ Key(s) \in Keys
    BY <1>4, RequestOf DEF LookAgain, IInv, Asks
  <2>3. r \in Records
    BY <1>t, <2>2, ReachedStores DEF TypeOK
  <2>4. \/ UNCHANGED told
        \/ Replays(r, Payload(s)) /\ TellOrder(s, Key(s), Payload(s), r.order)
    BY <2>1
  <2>5. told' \in [Sessions -> {NoAnswer} \cup [id: Orders, key: Keys, payload: Payloads]]
    <3>1. CASE UNCHANGED told
      BY <1>t, <3>1 DEF TypeOK
    <3>2. CASE Replays(r, Payload(s)) /\ TellOrder(s, Key(s), Payload(s), r.order)
      <4>1. r.order \in Orders
        BY <2>3, <3>2, CompletedRecord DEF Replays
      <4> HIDE DEF r
      <4> QED
        BY <1>k, <2>2, <3>2, <4>1 DEF TellOrder
    <3> QED
      BY <2>4, <3>1, <3>2
  <2>6. pc' \in [Sessions -> Phases] /\ seen' \in [Sessions -> {NoRequest} \cup Requests]
    BY <1>t, <1>p, <2>1 DEF TypeOK
  <2>7. trusted' \in BOOLEAN /\ UNCHANGED <<order, store>>
    BY <2>1
  <2> QED
    BY <1>t, <2>5, <2>6, <2>7 DEF TypeOK
<1>5. ASSUME NEW s \in Sessions, SubmitFails(s) PROVE TypeOK'
  BY <1>t, <1>5, <1>p DEF TypeOK, SubmitFails
<1>6. ASSUME NEW s \in Sessions, Submit(s) \/ SubmitHidden(s) PROVE TypeOK'
  <2>1. PICK o \in Orders :
            /\ SubmitMakes(s, o)
            /\ \/ Leave(s)
               \/ pc' = [pc EXCEPT ![s] = "record"] /\ seen' = [seen EXCEPT ![s].order = o]
               \/ pc' = [pc EXCEPT ![s] = "clear"] /\ UNCHANGED seen
            /\ trusted' \in {trusted, FALSE} /\ UNCHANGED <<store, told>>
    BY <1>6 DEF Submit, SubmitHidden
  <2>2. seen[s] \in Requests /\ Payload(s) \in Payloads /\ Key(s) \in Keys \cup {NoKey}
    BY <2>1, RequestOf DEF SubmitMakes
  <2>3. order' \in [Orders -> {NoOrder} \cup Submitted]
    BY <1>t, <2>1, <2>2 DEF TypeOK, SubmitMakes, Submitted
  <2>4. pc' \in [Sessions -> Phases]
    BY <1>t, <1>p, <2>1 DEF TypeOK
  <2>5. [seen[s] EXCEPT !.order = o] \in Requests
    BY <2>2 DEF Requests
  <2>6. seen' \in [Sessions -> {NoRequest} \cup Requests]
    BY <1>t, <2>1, <2>5 DEF TypeOK
  <2> QED
    BY <1>t, <2>1, <2>3, <2>4, <2>6 DEF TypeOK
<1>7. ASSUME NEW s \in Sessions, Record(s) PROVE TypeOK'
  <2>1. PICK W \in Reached(Proc(s)) :
            /\ store' = [h \in Stores |->
                            IF h \in W
                            THEN [store[h] EXCEPT ![Key(s)] = Completed(Payload(s), seen[s].order)]
                            ELSE store[h]]
            /\ TellOrder(s, Key(s), Payload(s), seen[s].order)
            /\ Leave(s)
            /\ trusted' = (trusted /\ W = {Home(Proc(s))})
            /\ UNCHANGED order
    BY <1>7 DEF Record
  <2>2. /\ Proc(s) \in Processes /\ Payload(s) \in Payloads /\ Key(s) \in Keys
        /\ seen[s].order \in Orders
    BY <1>7, RequestOf DEF Record, IInv, Asks
  <2>3. store' \in [Stores -> [Keys -> Records]]
    <3>1. Completed(Payload(s), seen[s].order) \in Records
      BY <2>2, RecordTypes
    <3> QED
      BY <1>t, <2>1, <3>1 DEF TypeOK
  <2>4. pc' \in [Sessions -> Phases] /\ seen' \in [Sessions -> {NoRequest} \cup Requests]
    BY <1>t, <1>p, <2>1 DEF TypeOK
  <2>5. told' \in [Sessions -> {NoAnswer} \cup [id: Orders, key: Keys, payload: Payloads]]
    BY <1>k, <2>1, <2>2 DEF TellOrder
  <2>6. trusted' \in BOOLEAN /\ UNCHANGED order
    BY <2>1
  <2> QED
    BY <1>t, <2>3, <2>4, <2>5, <2>6 DEF TypeOK
<1>8. ASSUME NEW s \in Sessions, Clear(s) PROVE TypeOK'
  <2>1. PICK W \in Reached(Proc(s)) :
            /\ store' = [h \in Stores |->
                            IF h \in W THEN [store[h] EXCEPT ![Key(s)] = NoRecord] ELSE store[h]]
            /\ Leave(s)
            /\ trusted' = (trusted /\ W = {Home(Proc(s))})
            /\ UNCHANGED <<order, told>>
    BY <1>8 DEF Clear
  <2>2. Proc(s) \in Processes /\ Key(s) \in Keys
    BY <1>8, RequestOf DEF Clear, IInv, Asks
  <2>3. store' \in [Stores -> [Keys -> Records]]
    BY <1>t, <2>1, RecordTypes DEF TypeOK
  <2>4. pc' \in [Sessions -> Phases] /\ seen' \in [Sessions -> {NoRequest} \cup Requests]
    BY <1>t, <1>p, <2>1 DEF TypeOK
  <2>5. trusted' \in BOOLEAN /\ UNCHANGED <<order, told>>
    BY <2>1
  <2> QED
    BY <1>t, <2>3, <2>4, <2>5 DEF TypeOK
<1>9. ASSUME NEW h \in Stores, NEW k \in Keys, Lose(h, k) PROVE TypeOK'
  BY <1>t, <1>9, RecordTypes DEF TypeOK, Lose
<1>10. ASSUME NEW p \in Processes, Crash(p) PROVE TypeOK'
  <2>1. pc' \in [Sessions -> Phases] /\ seen' \in [Sessions -> {NoRequest} \cup Requests]
    BY <1>t, <1>p, <1>10 DEF TypeOK, Crash
  <2>2. store' \in [Stores -> [Keys -> Records]]
    BY <1>t, <1>10, RecordTypes DEF TypeOK, Crash
  <2>3. trusted' \in BOOLEAN /\ UNCHANGED <<order, told>>
    BY <1>10 DEF Crash
  <2> QED
    BY <1>t, <2>1, <2>2, <2>3 DEF TypeOK
<1> QED
  BY <1>1, <1>2, <1>3, <1>4, <1>5, <1>6, <1>7, <1>8, <1>9, <1>10 DEF Next, Request
-----------------------------------------------------------------------------
(***************************************************************************)
(* What sessions, records and answers say of the orders.                   *)
(***************************************************************************)
\* Only submitByToken makes orders.
LEMMA OrderChanges ==
    ASSUME Next
    PROVE  \/ UNCHANGED order
           \/ \E s \in Sessions, o \in Orders : SubmitMakes(s, o)
<1>1. ASSUME NEW s \in Sessions, Request(s)
      PROVE  UNCHANGED order \/ \E o \in Orders : SubmitMakes(s, o)
  <2>1. CASE Disabled(s) \/ Look(s) \/ Reserve(s) \/ LookAgain(s)
    BY <2>1, Zenon DEF Disabled, Look, Reserve, LookAgain
  <2>2. CASE SubmitFails(s) \/ Record(s) \/ Clear(s)
    BY <2>2, Zenon DEF SubmitFails, Record, Clear
  <2>3. CASE Submit(s) \/ SubmitHidden(s)
    BY <2>3, Zenon DEF Submit, SubmitHidden
  <2> QED
    BY <1>1, <2>1, <2>2, <2>3, Zenon DEF Request
<1>2. ASSUME NEW h \in Stores, NEW k \in Keys, Lose(h, k) PROVE UNCHANGED order
  BY <1>2 DEF Lose
<1>3. ASSUME NEW p \in Processes, Crash(p) PROVE UNCHANGED order
  BY <1>3 DEF Crash
<1> QED
  BY <1>1, <1>2, <1>3, Zenon DEF Next

\* An order, once made, stays as it is.
LEMMA OrdersStay ==
    ASSUME IInv, Next
    PROVE  /\ order' \in [Orders -> {NoOrder} \cup Submitted]
           /\ \A o \in Orders : order[o] # NoOrder => order'[o] = order[o]
<1>t. TypeOK
  BY DEF IInv
<1>1. \A o \in Orders : order[o] # NoOrder => order'[o] = order[o]
  BY <1>t, OrderChanges DEF TypeOK, SubmitMakes
<1> QED
  BY <1>1, TypeNext DEF TypeOK

LEMMA MadeIsOrder ==
    ASSUME NEW k, NEW d
    PROVE  [key |-> k, payload |-> d] # NoOrder
BY DEF NoOrder

\* A session that no one moved.
LEMMA AsksStays ==
    ASSUME IInv, Next, NEW s \in Sessions, pc'[s] = pc[s], seen'[s] = seen[s]
    PROVE  Asks(s)'
<1>1. Asks(s)
  BY DEF IInv
<1>2. pc[s] = "record" => order'[seen[s].order] = order[seen[s].order]
  BY <1>1, OrdersStay, MadeIsOrder DEF Asks
<1> QED
  BY <1>1, <1>2 DEF Asks, Key, Payload

LEMMA AsksIdle ==
    ASSUME NEW s \in Sessions, pc'[s] = "idle"
    PROVE  Asks(s)'
BY DEF Asks

LEMMA AsksNext ==
    ASSUME IInv, Next, NEW x \in Sessions
    PROVE  Asks(x)'
<1>t. TypeOK /\ Asks(x)
  BY DEF IInv
<1>l. ASSUME NEW s \in Sessions, Leave(s) PROVE Asks(x)'
  <2>1. CASE x = s
    BY <1>t, <1>l, <2>1, AsksIdle DEF Leave, Go, TypeOK
  <2>2. CASE x # s
    BY <1>t, <1>l, <2>2, AsksStays DEF Leave, Go, TypeOK
  <2> QED
    BY <2>1, <2>2
<1>g. ASSUME NEW s \in Sessions, x # s, NEW to, Go(s, to), NEW e,
             \/ UNCHANGED seen
             \/ seen' = [seen EXCEPT ![s] = e]
             \/ seen' = [seen EXCEPT ![s].order = e]
      PROVE  Asks(x)'
  BY <1>t, <1>g, AsksStays DEF Go, TypeOK
<1>1. ASSUME NEW s \in Sessions, Disabled(s) PROVE Asks(x)'
  <2>1. PICK p \in Processes, d \in Payloads :
            Go(s, "submit") /\ seen' = [seen EXCEPT ![s] = Asked(p, NoKey, d)]
    BY <1>1 DEF Disabled
  <2>2. CASE x = s
    BY <1>t, <2>1, <2>2 DEF Asks, Go, Asked, Requests, TypeOK
  <2> QED
    BY <1>g, <2>1, <2>2
<1>2. ASSUME NEW s \in Sessions, Look(s) PROVE Asks(x)'
  <2>1. PICK p \in Processes, k \in Keys, d \in Payloads :
            \/ Go(s, "reserve") /\ seen' = [seen EXCEPT ![s] = Asked(p, k, d)]
            \/ UNCHANGED <<pc, seen>>
    BY <1>2 DEF Look
  <2>2. CASE UNCHANGED <<pc, seen>>
    BY <2>2, AsksStays
  <2>3. CASE Go(s, "reserve") /\ seen' = [seen EXCEPT ![s] = Asked(p, k, d)] /\ x = s
    BY <1>t, <2>3 DEF Asks, Go, Asked, Requests, Key, TypeOK
  <2> QED
    BY <1>g, <2>1, <2>2, <2>3
<1>3. ASSUME NEW s \in Sessions, Reserve(s) PROVE Asks(x)'
  <2>1. /\ pc[s] = "reserve" /\ UNCHANGED seen
        /\ Go(s, "submit") \/ Go(s, "again")
    BY <1>3 DEF Reserve
  <2>2. CASE x = s
    BY <1>t, <2>1, <2>2 DEF Asks, Go, Key, TypeOK
  <2> QED
    BY <1>g, <2>1, <2>2
<1>4. ASSUME NEW s \in Sessions, LookAgain(s) \/ Record(s) \/ Clear(s) PROVE Asks(x)'
  <2>1. Leave(s)
    BY <1>4 DEF LookAgain, Record, Clear
  <2> QED
    BY <1>l, <2>1
<1>5. ASSUME NEW s \in Sessions, SubmitFails(s) \/ SubmitHidden(s) PROVE Asks(x)'
  <2>1. \/ Leave(s)
        \/ pc[s] = "submit" /\ Key(s) # NoKey /\ Go(s, "clear") /\ UNCHANGED seen
    BY <1>5 DEF SubmitFails, SubmitHidden, SubmitMakes
  <2>2. ASSUME pc[s] = "submit", Key(s) # NoKey, Go(s, "clear"), UNCHANGED seen, x = s
        PROVE  Asks(x)'
    <3>1. seen[s] \in Requests /\ Key(s) \in Keys
      BY <2>2, RequestOf
    <3> QED
      BY <1>t, <2>2, <3>1 DEF Asks, Go, Key, TypeOK
  <2> QED
    BY <1>l, <1>g, <2>1, <2>2
<1>6. ASSUME NEW s \in Sessions, Submit(s) PROVE Asks(x)'
  <2>1. PICK o \in Orders :
            /\ SubmitMakes(s, o)
            /\ \/ Leave(s)
               \/ Key(s) # NoKey /\ Go(s, "record") /\ seen' = [seen EXCEPT ![s].order = o]
    BY <1>6 DEF Submit
  <2>2. ASSUME Key(s) # NoKey, Go(s, "record"), seen' = [seen EXCEPT ![s].order = o], x = s
        PROVE  Asks(x)'
    <3>1. seen[s] \in Requests /\ Key(s) \in Keys
      BY <2>1, <2>2, RequestOf DEF SubmitMakes
    <3>2. seen'[s] = [seen[s] EXCEPT !.order = o]
      BY <1>t, <2>2 DEF TypeOK
    <3>3. /\ seen'[s] \in Requests /\ seen'[s].order = o
          /\ seen'[s].key = Key(s) /\ seen'[s].payload = Payload(s)
      BY <3>1, <3>2 DEF Requests, Key, Payload
    <3>4. order'[o] = [key |-> Key(s), payload |-> Payload(s)]
      BY <1>t, <2>1 DEF SubmitMakes, TypeOK
    <3>5. pc'[s] = "record"
      BY <1>t, <2>2 DEF Go, TypeOK
    <3> QED
      BY <2>2, <3>1, <3>3, <3>4, <3>5 DEF Asks, Key, Payload
  <2> QED
    BY <1>l, <1>g, <2>1, <2>2
<1>7. ASSUME NEW h \in Stores, NEW k \in Keys, Lose(h, k) PROVE Asks(x)'
  BY <1>7, AsksStays DEF Lose
<1>8. ASSUME NEW p \in Processes, Crash(p) PROVE Asks(x)'
  BY <1>8, AsksStays, AsksIdle DEF Crash
<1> QED
  BY <1>1, <1>2, <1>3, <1>4, <1>5, <1>6, <1>7, <1>8 DEF Next, Request

\* A completed record was there before, or names the order just made.
LEMMA RecordsNext ==
    ASSUME IInv, Next
    PROVE  RecordsAreTrue'
<1>t. TypeOK /\ RecordsAreTrue /\ TypeOK'
  BY TypeNext DEF IInv
<1> SUFFICES ASSUME NEW h \in Stores, NEW k \in Keys, store'[h][k].status = "completed"
             PROVE  order'[store'[h][k].order] = [key |-> k, payload |-> store'[h][k].payload]
  BY DEF RecordsAreTrue
<1>o. ASSUME store'[h][k] = store[h][k]
      PROVE  order'[store'[h][k].order] = [key |-> k, payload |-> store'[h][k].payload]
  <2> DEFINE r == store[h][k]
  <2>1. r \in Records /\ r.status = "completed"
    BY <1>t, <1>o DEF TypeOK
  <2>2. order[r.order] = [key |-> k, payload |-> r.payload]
    BY <1>t, <2>1 DEF RecordsAreTrue
  <2>3. r.order \in Orders
    BY <2>1, CompletedRecord
  <2>4. order'[r.order] = order[r.order]
    BY <2>2, <2>3, OrdersStay, MadeIsOrder
  <2> QED
    BY <1>o, <2>2, <2>4
<1>1. ASSUME NEW s \in Sessions, Record(s)
      PROVE  order'[store'[h][k].order] = [key |-> k, payload |-> store'[h][k].payload]
  <2> DEFINE c == Completed(Payload(s), seen[s].order)
  <2>1. PICK W \in Reached(Proc(s)) :
            /\ store' = [g \in Stores |-> IF g \in W THEN [store[g] EXCEPT ![Key(s)] = c] ELSE store[g]]
            /\ UNCHANGED order
    BY <1>1 DEF Record
  <2>2. order[seen[s].order] = [key |-> Key(s), payload |-> Payload(s)]
    BY <1>1 DEF Record, IInv, Asks
  <2>3. c.order = seen[s].order /\ c.payload = Payload(s)
    BY RecordFields
  <2> HIDE DEF c
  <2>4. store'[h][k] = store[h][k] \/ (k = Key(s) /\ store'[h][k] = c)
    BY <1>t, <2>1 DEF TypeOK
  <2> QED
    BY <1>o, <2>1, <2>2, <2>3, <2>4
<1>2. ASSUME NEW s \in Sessions, Reserve(s) PROVE store'[h][k] = store[h][k]
  <2> DEFINE c == InProgress(Payload(s))
  <2>1. PICK W \in Reached(Proc(s)) :
            store' = [g \in Stores |-> IF g \in W /\ Wins(store[g][Key(s)])
                                       THEN [store[g] EXCEPT ![Key(s)] = c] ELSE store[g]]
    BY <1>2 DEF Reserve
  <2>2. c.status = "in_progress"
    BY RecordFields
  <2> HIDE DEF c
  <2>3. store'[h][k] = store[h][k] \/ store'[h][k] = c
    BY <1>t, <2>1 DEF TypeOK
  <2> QED
    BY <2>2, <2>3
<1>3. ASSUME NEW s \in Sessions, Clear(s) PROVE store'[h][k] = store[h][k]
  <2>1. PICK W \in Reached(Proc(s)) :
            store' = [g \in Stores |-> IF g \in W THEN [store[g] EXCEPT ![Key(s)] = NoRecord] ELSE store[g]]
    BY <1>3 DEF Clear
  <2>2. store'[h][k] = store[h][k] \/ store'[h][k] = NoRecord
    BY <1>t, <2>1 DEF TypeOK
  <2> QED
    BY <2>2, RecordFields
<1>4. ASSUME NEW g \in Stores, NEW j \in Keys, Lose(g, j) PROVE store'[h][k] = store[h][k]
  <2>1. store'[h][k] = store[h][k] \/ store'[h][k] = NoRecord
    BY <1>t, <1>4 DEF TypeOK, Lose
  <2> QED
    BY <2>1, RecordFields
<1>5. ASSUME NEW p \in Processes, Crash(p) PROVE store'[h][k] = store[h][k]
  <2>1. store'[h][k] = store[h][k] \/ store'[h][k] = NoRecord
    BY <1>t, <1>5 DEF TypeOK, Crash
  <2> QED
    BY <2>1, RecordFields
<1>6. ASSUME NEW s \in Sessions, Disabled(s) \/ Look(s) \/ LookAgain(s)
      PROVE  store'[h][k] = store[h][k]
  BY <1>6 DEF Disabled, Look, LookAgain
<1>7. ASSUME NEW s \in Sessions, SubmitFails(s) \/ Submit(s) \/ SubmitHidden(s)
      PROVE  store'[h][k] = store[h][k]
  BY <1>7 DEF SubmitFails, Submit, SubmitHidden
<1> QED
  BY <1>o, <1>1, <1>2, <1>3, <1>4, <1>5, <1>6, <1>7 DEF Next, Request

\* What a session is told comes from a record or from its own order.
LEMMA ToldTrue ==
    ASSUME IInv, Next, NEW x \in Sessions
    PROVE  \/ told'[x] = told[x]
           \/ \E k \in Keys, d \in Payloads, o \in Orders :
                  /\ order[o] = [key |-> k, payload |-> d]
                  /\ TellOrder(x, k, d, o) /\ UNCHANGED order
<1>t. TypeOK /\ RecordsAreTrue
  BY DEF IInv
<1>r. ASSUME NEW h \in Stores, NEW k \in Keys, NEW d \in Payloads, Replays(store[h][k], d)
      PROVE  /\ store[h][k].order \in Orders
             /\ order[store[h][k].order] = [key |-> k, payload |-> d]
  BY <1>t, <1>r, CompletedRecord DEF TypeOK, RecordsAreTrue, Replays
<1>n. ASSUME NEW s \in Sessions, NEW k \in Keys, NEW d \in Payloads, NEW o \in Orders,
             TellOrder(s, k, d, o), order[o] = [key |-> k, payload |-> d], UNCHANGED order
      PROVE  \/ told'[x] = told[x]
             \/ \E j \in Keys, e \in Payloads, q \in Orders :
                    /\ order[q] = [key |-> j, payload |-> e]
                    /\ TellOrder(x, j, e, q) /\ UNCHANGED order
  <2>1. CASE s = x
    BY <1>n, <2>1
  <2>2. CASE s # x
    BY <1>t, <1>n, <2>2 DEF TellOrder, TypeOK
  <2> QED
    BY <2>1, <2>2
<1>1. ASSUME NEW s \in Sessions, Look(s), told'[x] # told[x]
      PROVE  \E k \in Keys, d \in Payloads, o \in Orders :
                /\ order[o] = [key |-> k, payload |-> d]
                /\ TellOrder(s, k, d, o) /\ UNCHANGED order
  <2>1. PICK p \in Processes, k \in Keys, d \in Payloads : \E W \in Reached(p) :
            LET r == store[Reply(p, W)][k] IN
            /\ UNCHANGED told \/ (Replays(r, d) /\ TellOrder(s, k, d, r.order))
            /\ UNCHANGED order
    BY <1>1 DEF Look
  <2>2. PICK W \in Reached(p) :
            LET r == store[Reply(p, W)][k] IN
            /\ UNCHANGED told \/ (Replays(r, d) /\ TellOrder(s, k, d, r.order))
            /\ UNCHANGED order
    BY <2>1
  <2> DEFINE h == Reply(p, W)
  <2>3. h \in Stores
    BY ReachedStores
  <2> HIDE DEF h
  <2>4. Replays(store[h][k], d) /\ TellOrder(s, k, d, store[h][k].order) /\ UNCHANGED order
    BY <1>1, <2>2 DEF h
  <2> QED
    BY <1>r, <2>3, <2>4
<1>2. ASSUME NEW s \in Sessions, LookAgain(s), told'[x] # told[x]
      PROVE  \E k \in Keys, d \in Payloads, o \in Orders :
                /\ order[o] = [key |-> k, payload |-> d]
                /\ TellOrder(s, k, d, o) /\ UNCHANGED order
  <2>1. PICK W \in Reached(Proc(s)) :
            LET r == store[Reply(Proc(s), W)][Key(s)] IN
            /\ \/ UNCHANGED told
               \/ Replays(r, Payload(s)) /\ TellOrder(s, Key(s), Payload(s), r.order)
            /\ UNCHANGED order
    BY <1>2 DEF LookAgain
  <2>2. Proc(s) \in Processes /\ Payload(s) \in Payloads /\ Key(s) \in Keys
    BY <1>2, RequestOf DEF LookAgain, IInv, Asks
  <2> DEFINE h == Reply(Proc(s), W)
  <2>3. h \in Stores
    BY <2>2, ReachedStores
  <2> HIDE DEF h
  <2>4. /\ Replays(store[h][Key(s)], Payload(s)) /\ UNCHANGED order
        /\ TellOrder(s, Key(s), Payload(s), store[h][Key(s)].order)
    BY <1>2, <2>1 DEF h
  <2> QED
    BY <1>r, <2>2, <2>3, <2>4
<1>3. ASSUME NEW s \in Sessions, Record(s)
      PROVE  \E k \in Keys, d \in Payloads, o \in Orders :
                /\ order[o] = [key |-> k, payload |-> d]
                /\ TellOrder(s, k, d, o) /\ UNCHANGED order
  <2>1. /\ Payload(s) \in Payloads /\ Key(s) \in Keys /\ seen[s].order \in Orders
        /\ order[seen[s].order] = [key |-> Key(s), payload |-> Payload(s)]
    BY <1>3, RequestOf DEF Record, IInv, Asks
  <2>2. TellOrder(s, Key(s), Payload(s), seen[s].order) /\ UNCHANGED order
    BY <1>3 DEF Record
  <2> QED
    BY <2>1, <2>2
<1>4. ASSUME NEW s \in Sessions, Disabled(s) \/ Reserve(s) \/ SubmitFails(s) PROVE UNCHANGED told
  BY <1>4 DEF Disabled, Reserve, SubmitFails
<1>5. ASSUME NEW s \in Sessions, Submit(s) \/ SubmitHidden(s) \/ Clear(s) PROVE UNCHANGED told
  BY <1>5 DEF Submit, SubmitHidden, Clear
<1>6. ASSUME NEW h \in Stores, NEW k \in Keys, Lose(h, k) PROVE UNCHANGED told
  BY <1>6 DEF Lose
<1>7. ASSUME NEW p \in Processes, Crash(p) PROVE UNCHANGED told
  BY <1>7 DEF Crash
<1> QED
  BY <1>n, <1>1, <1>2, <1>3, <1>4, <1>5, <1>6, <1>7 DEF Next, Request

LEMMA AnswersNext ==
    ASSUME IInv, Next
    PROVE  AnswersAreTrue'
<1>t. TypeOK /\ AnswersAreTrue
  BY DEF IInv
<1> SUFFICES ASSUME NEW x \in Sessions, told'[x] # NoAnswer
             PROVE  order'[told'[x].id] = [key |-> told'[x].key, payload |-> told'[x].payload]
  BY DEF AnswersAreTrue
<1>1. CASE told'[x] = told[x]
  <2>1. told[x].id \in Orders
    BY <1>t, <1>1 DEF TypeOK
  <2>2. order[told[x].id] = [key |-> told[x].key, payload |-> told[x].payload]
    BY <1>t, <1>1 DEF AnswersAreTrue
  <2> QED
    BY <1>1, <2>1, <2>2, OrdersStay, MadeIsOrder
<1>2. ASSUME NEW k \in Keys, NEW d \in Payloads, NEW o \in Orders,
             order[o] = [key |-> k, payload |-> d], TellOrder(x, k, d, o), UNCHANGED order
      PROVE  order'[told'[x].id] = [key |-> told'[x].key, payload |-> told'[x].payload]
  <2>1. told'[x] = [id |-> o, key |-> k, payload |-> d]
    BY <1>t, <1>2 DEF TypeOK, TellOrder
  <2> QED
    BY <1>2, <2>1
<1> QED
  BY <1>1, <1>2, ToldTrue
-----------------------------------------------------------------------------
(***************************************************************************)
(* What holds while nothing is lost.                                       *)
(***************************************************************************)
\* A session at work with a key has it to itself.
Own(s) == \A x \in Sessions : AtWork(s) /\ AtWork(x) /\ Key(s) = Key(x) /\ Key(s) # NoKey => s = x

Trust == Remembered /\ \A s \in Sessions : Reserved(s) /\ Own(s)

LEMMA RecordsDiffer ==
    ASSUME NEW d, NEW o
    PROVE  /\ InProgress(d) # NoRecord /\ Completed(d, o) # NoRecord
           /\ InProgress(d).status # "completed"
BY RecordFields

LEMMA TrustNow ==
    ASSUME IInv, trusted
    PROVE  Trust
BY DEF IInv, OneAtWork, Trust, Own

\* Records that stay keep what is remembered.
LEMMA RememberedStays ==
    ASSUME Remembered, UNCHANGED order,
           \A k \in Keys, p \in Processes :
               store[Home(p)][k] # NoRecord /\ Needed(k) => store'[Home(p)][k] # NoRecord
    PROVE  Remembered'
BY DEF Remembered, MadeFor, Needed

\* A session that no one moved, whose key no one touched.
LEMMA ReservedStays ==
    ASSUME NEW x \in Sessions, Reserved(x), AtWork(x)' => AtWork(x) /\ seen'[x] = seen[x] /\ pc'[x] = pc[x],
           AtWork(x) /\ Key(x) # NoKey =>
              /\ \A o \in Orders : order'[o] = order[o] \/ (order'[o] # NoOrder /\ order'[o].key # Key(x))
              /\ \A p \in Processes : store'[Home(p)][Key(x)] = store[Home(p)][Key(x)]
    PROVE  Reserved(x)'
<1> SUFFICES ASSUME AtWork(x)', Key(x)' # NoKey
             PROVE  /\ \A p \in Processes : store'[Home(p)][Key(x)'] = InProgress(Payload(x)')
                    /\ \A o \in Orders : MadeFor(o, Key(x))' => pc'[x] = "record" /\ o = seen'[x].order
  BY DEF Reserved, Home
<1>1. AtWork(x) /\ Key(x)' = Key(x) /\ Payload(x)' = Payload(x) /\ pc'[x] = pc[x] /\ seen'[x] = seen[x]
  BY DEF Key, Payload
<1> QED
  BY <1>1 DEF Reserved, MadeFor

LEMMA OwnStays ==
    ASSUME \A s \in Sessions : Own(s),
           \A s \in Sessions : AtWork(s)' /\ Key(s)' # NoKey => AtWork(s) /\ Key(s)' = Key(s)
    PROVE  \A s \in Sessions : Own(s)'
BY DEF Own

LEMMA TrustSends ==
    ASSUME IInv, trusted, TypeOK', NEW s \in Sessions,
           \/ Disabled(s)
           \/ SubmitFails(s)
    PROVE  Trust'
<1>t. TypeOK /\ TypeOK' /\ Remembered /\ \A x \in Sessions : Reserved(x) /\ Own(x)
  BY TrustNow DEF IInv, Trust
<1>1. UNCHANGED <<order, store>>
  BY DEF Disabled, SubmitFails
<1>2. Remembered'
  BY <1>t, <1>1, RememberedStays
<1>3. CASE Disabled(s)
  <2>1. pc[s] = "idle" /\ Key(s)' = NoKey
    BY <1>t, <1>3 DEF Disabled, Asked, Key, TypeOK
  <2>2. \A x \in Sessions : x # s => pc'[x] = pc[x] /\ seen'[x] = seen[x]
    BY <1>t, <1>3 DEF Disabled, Go, TypeOK
  <2>3. \A x \in Sessions : Own(x)'
    BY <1>t, <2>1, <2>2, OwnStays DEF AtWork, Key
  <2>4. Reserved(s)'
    BY <2>1 DEF Reserved
  <2>5. \A x \in Sessions : x # s => Reserved(x)'
    BY <1>t, <1>1, <2>2, ReservedStays DEF AtWork
  <2> QED
    BY <1>2, <2>3, <2>4, <2>5 DEF Trust
<1>4. CASE SubmitFails(s)
  <2>2. \A x \in Sessions : x # s => pc'[x] = pc[x] /\ seen'[x] = seen[x]
    BY <1>t, <1>4 DEF SubmitFails, Go, Leave, TypeOK
  <2>3. /\ pc[s] = "submit"
        /\ pc'[s] = "idle" \/ (pc'[s] = "clear" /\ seen'[s] = seen[s])
    BY <1>t, <1>4 DEF SubmitFails, Go, Leave, TypeOK
  <2>4. \A x \in Sessions : Own(x)'
    BY <1>t, <2>2, <2>3, OwnStays DEF AtWork, Key
  <2>5. Reserved(s)'
    BY <1>t, <1>1, <2>3 DEF Reserved, AtWork, Key, Payload, MadeFor, Home
  <2>6. \A x \in Sessions : x # s => Reserved(x)'
    BY <1>t, <1>1, <2>2, ReservedStays DEF AtWork
  <2> QED
    BY <1>2, <2>4, <2>5, <2>6 DEF Trust
<1> QED
  BY <1>3, <1>4

LEMMA TrustLooks ==
    ASSUME IInv, trusted, TypeOK', NEW s \in Sessions, Look(s) \/ LookAgain(s)
    PROVE  Trust'
<1>t. TypeOK /\ TypeOK' /\ Remembered /\ \A x \in Sessions : Reserved(x) /\ Own(x)
  BY TrustNow DEF IInv, Trust
<1>1. UNCHANGED <<order, store>>
  BY DEF Look, LookAgain
<1>2. \A x \in Sessions : x # s => pc'[x] = pc[x] /\ seen'[x] = seen[x]
  BY <1>t DEF Look, LookAgain, Go, Leave, TypeOK
<1>3. ~AtWork(s) /\ ~AtWork(s)'
  BY <1>t DEF Look, LookAgain, Go, Leave, TypeOK, AtWork
<1>4. Remembered'
  BY <1>t, <1>1, RememberedStays
<1>5. \A x \in Sessions : Own(x)'
  BY <1>t, <1>2, <1>3, OwnStays DEF AtWork, Key
<1>6. \A x \in Sessions : Reserved(x)'
  BY <1>t, <1>1, <1>2, <1>3, ReservedStays DEF AtWork
<1> QED
  BY <1>4, <1>5, <1>6 DEF Trust

\* An order is made by the only session at work with its key, which had none.
LEMMA TrustSubmit ==
    ASSUME IInv, trusted, trusted', TypeOK', NEW s \in Sessions, Submit(s) \/ SubmitHidden(s)
    PROVE  Trust'
<1>t. TypeOK /\ TypeOK' /\ Remembered /\ \A x \in Sessions : Reserved(x) /\ Own(x)
  BY TrustNow DEF IInv, Trust
<1>1. PICK o \in Orders :
          /\ SubmitMakes(s, o) /\ UNCHANGED store
          /\ \/ Key(s) = NoKey /\ Leave(s)
             \/ Key(s) # NoKey /\ Go(s, "record") /\ seen' = [seen EXCEPT ![s].order = o]
  BY DEF Submit, SubmitHidden
<1>r. seen[s] \in Requests /\ Key(s) \in Keys \cup {NoKey} /\ AtWork(s) /\ pc[s] = "submit"
  BY <1>1, RequestOf DEF SubmitMakes, AtWork
<1> DEFINE m == [key |-> Key(s), payload |-> Payload(s)]
<1>2. m # NoOrder /\ m.key = Key(s)
  BY MadeIsOrder
<1>3. /\ order[o] = NoOrder /\ order'[o] = m
      /\ \A x \in Orders : x # o => order'[x] = order[x]
  BY <1>t, <1>1 DEF SubmitMakes, TypeOK
<1> HIDE DEF m
<1>4. \A x \in Sessions : x # s => pc'[x] = pc[x] /\ seen'[x] = seen[x]
  BY <1>t, <1>1 DEF Go, Leave, TypeOK
<1>5. CASE Key(s) = NoKey
  <2>1. ~AtWork(s)'
    BY <1>t, <1>1, <1>5 DEF Go, Leave, TypeOK, AtWork
  <2>2. \A x \in Orders, k \in Keys : MadeFor(x, k)' <=> MadeFor(x, k)
    BY <1>2, <1>3, <1>5, KeysAreKeys DEF MadeFor
  <2>3. Remembered'
    BY <1>t, <1>1, <2>2 DEF Remembered, Home
  <2>4. \A x \in Sessions : Own(x)'
    BY <1>t, <1>4, <2>1, OwnStays DEF AtWork, Key
  <2>5. \A x \in Sessions : Reserved(x)'
    <3> SUFFICES ASSUME NEW x \in Sessions PROVE Reserved(x)'
      OBVIOUS
    <3>1. AtWork(x) /\ Key(x) # NoKey =>
            \A q \in Orders : order'[q] = order[q] \/ (order'[q] # NoOrder /\ order'[q].key # Key(x))
      BY <1>2, <1>3, <1>5
    <3>2. AtWork(x)' => AtWork(x) /\ seen'[x] = seen[x] /\ pc'[x] = pc[x]
      BY <1>4, <2>1 DEF AtWork
    <3> QED
      BY <1>t, <1>1, <3>1, <3>2, ReservedStays
  <2> QED
    BY <2>3, <2>4, <2>5 DEF Trust
<1>6. CASE Key(s) # NoKey
  <2>1. /\ pc'[s] = "record" /\ seen'[s].order = o
        /\ Key(s)' = Key(s) /\ Payload(s)' = Payload(s)
    BY <1>t, <1>1, <1>r, <1>6 DEF Go, TypeOK, Key, Payload, Requests
  <2>2. \A x \in Orders : ~MadeFor(x, Key(s))
    BY <1>t, <1>r, <1>6 DEF Reserved
  <2>3. \A p \in Processes : store[Home(p)][Key(s)] = InProgress(Payload(s))
    BY <1>t, <1>r, <1>6 DEF Reserved
  <2>4. Remembered'
    <3> SUFFICES ASSUME NEW q \in Orders, NEW k \in Keys, MadeFor(q, k)'
                 PROVE  /\ \A p \in Processes : store[Home(p)][k] # NoRecord
                        /\ \A x \in Orders : MadeFor(x, k)' => x = q
      BY <1>1 DEF Remembered, Home
    <3>1. CASE k = Key(s)
      <4>1. \A x \in Orders : MadeFor(x, k)' => x = o
        BY <1>3, <2>2, <3>1 DEF MadeFor
      <4>2. \A p \in Processes : store[Home(p)][k] # NoRecord
        BY <2>3, <3>1, RecordsDiffer
      <4> QED
        BY <4>1, <4>2
    <3>2. CASE k # Key(s)
      <4>1. \A x \in Orders : MadeFor(x, k)' => MadeFor(x, k)
        BY <1>2, <1>3, <3>2 DEF MadeFor
      <4> QED
        BY <1>t, <4>1 DEF Remembered
    <3> QED
      BY <3>1, <3>2
  <2>5. \A x \in Sessions : Own(x)'
    BY <1>t, <1>4, <1>r, <2>1, OwnStays DEF AtWork, Key
  <2>6. Reserved(s)'
    <3>1. \A x \in Orders : MadeFor(x, Key(s))' => x = o
      BY <1>3, <2>1, <2>2 DEF MadeFor
    <3> QED
      BY <1>1, <2>1, <2>3, <3>1 DEF Reserved, Home
  <2>7. ASSUME NEW x \in Sessions, x # s PROVE Reserved(x)'
    <3>1. AtWork(x) /\ Key(x) # NoKey => Key(x) # Key(s)
      BY <1>t, <1>r, <2>7 DEF Own
    <3>2. AtWork(x) /\ Key(x) # NoKey =>
            \A q \in Orders : order'[q] = order[q] \/ (order'[q] # NoOrder /\ order'[q].key # Key(x))
      BY <1>2, <1>3, <3>1
    <3> QED
      BY <1>t, <1>1, <1>4, <2>7, <3>2, ReservedStays DEF AtWork
  <2> QED
    BY <2>4, <2>5, <2>6, <2>7 DEF Trust
<1> QED
  BY <1>5, <1>6

\* A request reserves a key that no one is at work with and no order has.
LEMMA TrustReserve ==
    ASSUME IInv, trusted, trusted', TypeOK', NEW s \in Sessions, Reserve(s)
    PROVE  Trust'
<1>t. TypeOK /\ TypeOK' /\ Remembered /\ \A x \in Sessions : Reserved(x) /\ Own(x)
  BY TrustNow DEF IInv, Trust
<1>r. Proc(s) \in Processes /\ Payload(s) \in Payloads /\ Key(s) \in Keys
  BY RequestOf DEF Reserve, IInv, Asks
<1> DEFINE p == Proc(s)
           k == Key(s)
           c == InProgress(Payload(s))
<1>1. /\ pc[s] = "reserve"
      /\ store' = [h \in Stores |-> IF h \in {Home(p)} /\ Wins(store[h][k])
                                     THEN [store[h] EXCEPT ![k] = c] ELSE store[h]]
      /\ pc' = [pc EXCEPT ![s] = IF Wins(store[Home(p)][k]) THEN "submit" ELSE "again"]
      /\ UNCHANGED <<order, seen>>
  BY ReachedHome, <1>r DEF Reserve, Go
<1>2. \A x \in Sessions : x # s => pc'[x] = pc[x] /\ seen'[x] = seen[x]
  BY <1>t, <1>1 DEF TypeOK
<1>h. Home(p) \in Stores /\ \A q \in Processes : Home(q) = Home(p)
  BY <1>r, HomeSame
<1>3. CASE store[Home(p)][k] = NoRecord
  <2> HIDE DEF p, c
  <2>1. store'[Home(p)] = [store[Home(p)] EXCEPT ![k] = c]
    BY <1>1, <1>3, <1>h DEF Wins
  <2>2. \A q \in Processes : /\ store'[Home(q)][k] = c
                              /\ \A j \in Keys : j # k => store'[Home(q)][j] = store[Home(q)][j]
    <3>1. p \in Processes /\ k \in Keys
      BY <1>r DEF p
    <3> HIDE DEF k
    <3> QED
      BY <1>t, <1>h, <2>1, <3>1 DEF TypeOK
  <2>3. \A x \in Sessions : AtWork(x) /\ Key(x) # NoKey => Key(x) # k
    BY <1>t, <1>h, <1>3, <1>r, RecordsDiffer DEF Reserved, p
  <2>4. \A o \in Orders : ~MadeFor(o, k)
    BY <1>t, <1>3, <1>r DEF Remembered, p
  <2>5. Remembered'
    BY <1>t, <1>1, <2>2, <1>3, <1>h, RememberedStays, RecordsDiffer DEF c
  <2>6. \A x \in Sessions : Own(x)'
    BY <1>t, <1>1, <1>2, <2>3 DEF Own, AtWork, Key
  <2>7. Reserved(s)'
    BY <1>1, <2>2, <2>4 DEF Reserved, MadeFor, Key, Payload, Home, c
  <2>8. ASSUME NEW x \in Sessions, x # s PROVE Reserved(x)'
    <3>1. Key(x) # NoKey /\ AtWork(x) =>
            \A q \in Processes : store'[Home(q)][Key(x)] = store[Home(q)][Key(x)]
      BY <2>2, <2>3, RequestOf, <2>8 DEF AtWork
    <3> QED
      BY <1>t, <1>1, <1>2, <2>8, <3>1, ReservedStays DEF AtWork
  <2> QED
    BY <2>5, <2>6, <2>7, <2>8 DEF Trust
<1>4. CASE store[Home(p)][k] # NoRecord
  <2>1. \A q \in Processes : store'[Home(q)] = store[Home(q)]
    BY <1>1, <1>4, <1>h DEF Wins
  <2>2. ~AtWork(s)' /\ ~AtWork(s)
    BY <1>t, <1>1, <1>4 DEF AtWork, Wins, TypeOK
  <2> HIDE DEF p, k, c
  <2>3. Remembered'
    BY <1>t, <1>1, <2>1, RememberedStays
  <2>4. \A x \in Sessions : Own(x)'
    BY <1>t, <1>2, <2>2, OwnStays DEF AtWork, Key
  <2>5. \A x \in Sessions : Reserved(x)'
    BY <1>t, <1>1, <1>2, <2>1, <2>2, ReservedStays DEF AtWork
  <2> QED
    BY <2>3, <2>4, <2>5 DEF Trust
<1> QED
  BY <1>3, <1>4

\* The only session at work with a key writes its record and leaves.  The record
\* is deleted only where no order was made.
LEMMA TrustLeaves ==
    ASSUME IInv, trusted, trusted', TypeOK', NEW s \in Sessions, Record(s) \/ Clear(s)
    PROVE  Trust'
<1>t. TypeOK /\ TypeOK' /\ Remembered /\ \A x \in Sessions : Reserved(x) /\ Own(x)
  BY TrustNow DEF IInv, Trust
<1>r. Proc(s) \in Processes /\ Key(s) \in Keys /\ AtWork(s) /\ Key(s) # NoKey
  BY RequestOf, KeysAreKeys DEF Record, Clear, IInv, Asks, AtWork
<1> DEFINE p == Proc(s)
           k == Key(s)
<1>1. PICK c \in {NoRecord, Completed(Payload(s), seen[s].order)} :
          /\ store' = [h \in Stores |-> IF h \in {Home(p)} THEN [store[h] EXCEPT ![k] = c] ELSE store[h]]
          /\ c = NoRecord => pc[s] = "clear"
          /\ Leave(s) /\ UNCHANGED order
  BY RecordsDiffer DEF Record, Clear
<1>2. \A x \in Sessions : x # s => pc'[x] = pc[x] /\ seen'[x] = seen[x]
  BY <1>t, <1>1 DEF TypeOK, Go, Leave
<1>3. ~AtWork(s)'
  BY <1>t, <1>1 DEF TypeOK, Go, Leave, AtWork
<1>h. Home(p) \in Stores /\ \A q \in Processes : Home(q) = Home(p)
  BY <1>r, HomeSame
<1>4. c = NoRecord => \A o \in Orders : ~MadeFor(o, k)
  BY <1>t, <1>r, <1>1 DEF Reserved
<1>5. p \in Processes /\ k \in Keys
  BY <1>r
<1>6. \A x \in Sessions : x # s /\ AtWork(x) => Key(x) # k
  BY <1>t, <1>r DEF Own
<1>9. \A x \in Sessions : AtWork(x) /\ Key(x) # NoKey => Key(x) \in Keys
  BY RequestOf DEF AtWork
<1> HIDE DEF p, k
<1>7. \A q \in Processes : /\ store'[Home(q)][k] = c
                            /\ \A j \in Keys : j # k => store'[Home(q)][j] = store[Home(q)][j]
  BY <1>t, <1>h, <1>1, <1>5 DEF TypeOK
<1>8. Remembered'
  <2> SUFFICES ASSUME NEW o \in Orders, NEW j \in Keys, MadeFor(o, j)
               PROVE  /\ \A q \in Processes : store'[Home(q)][j] # NoRecord
                      /\ \A x \in Orders : MadeFor(x, j) => x = o
    BY <1>1 DEF Remembered, MadeFor, Home
  <2>1. \A x \in Orders : MadeFor(x, j) => x = o
    BY <1>t DEF Remembered
  <2>2. CASE j = k
    BY <1>4, <1>7, <2>1, <2>2
  <2>3. CASE j # k
    BY <1>t, <1>7, <2>1, <2>3 DEF Remembered
  <2> QED
    BY <2>2, <2>3
<1>10. \A x \in Sessions : Own(x)'
  BY <1>t, <1>2, <1>3, OwnStays DEF AtWork, Key
<1>11. ASSUME NEW x \in Sessions PROVE Reserved(x)'
  <2>1. CASE x = s
    BY <1>3, <2>1 DEF Reserved
  <2>2. CASE x # s
    <3>1. Key(x) # NoKey /\ AtWork(x) =>
            \A q \in Processes : store'[Home(q)][Key(x)] = store[Home(q)][Key(x)]
      BY <1>6, <1>7, <1>9, <2>2
    <3> QED
      BY <1>t, <1>1, <1>2, <2>2, <3>1, ReservedStays DEF AtWork
  <2> QED
    BY <2>1, <2>2
<1> QED
  BY <1>8, <1>10, <1>11 DEF Trust

\* What is lost was not needed.
LEMMA TrustLost ==
    ASSUME IInv, trusted, TypeOK', UNCHANGED order,
           \A x \in Sessions : pc'[x] = "idle" \/ (pc'[x] = pc[x] /\ seen'[x] = seen[x]),
           \A h \in Stores, k \in Keys :
              store'[h][k] = store[h][k] \/ ~Needed(k)
    PROVE  Trust'
<1>t. TypeOK /\ TypeOK' /\ Remembered /\ \A x \in Sessions : Reserved(x) /\ Own(x)
  BY TrustNow DEF IInv, Trust
<1>h. \A q \in Processes : Home(q) \in Stores
  BY HomeSame
<1>1. Remembered'
  BY <1>t, <1>h, RememberedStays
<1>2. \A x \in Sessions : Own(x)'
  BY <1>t, OwnStays DEF AtWork, Key
<1>3. ASSUME NEW x \in Sessions PROVE Reserved(x)'
  <2>1. AtWork(x) /\ Key(x) # NoKey => Key(x) \in Keys /\ Needed(Key(x))
    BY RequestOf DEF AtWork, Needed
  <2>2. AtWork(x) /\ Key(x) # NoKey =>
            \A q \in Processes : store'[Home(q)][Key(x)] = store[Home(q)][Key(x)]
    BY <1>h, <2>1
  <2>3. AtWork(x)' => AtWork(x) /\ seen'[x] = seen[x] /\ pc'[x] = pc[x]
    BY DEF AtWork
  <2> QED
    BY <1>t, <2>2, <2>3, ReservedStays
<1> QED
  BY <1>1, <1>2, <1>3 DEF Trust

LEMMA TrustNext ==
    ASSUME IInv, Next, trusted'
    PROVE  Trust'
<1>t. TypeOK /\ TypeOK'
  BY TypeNext DEF IInv
<1>1. ASSUME NEW s \in Sessions, Request(s) PROVE Trust'
  <2>1. CASE Disabled(s) \/ SubmitFails(s)
    <3>1. trusted
      BY <2>1 DEF Disabled, SubmitFails
    <3> QED
      BY <1>t, <2>1, <3>1, TrustSends
  <2>2. CASE Look(s) \/ LookAgain(s)
    <3>1. trusted
      BY <2>2 DEF Look, LookAgain
    <3> QED
      BY <1>t, <2>2, <3>1, TrustLooks
  <2>3. CASE Reserve(s)
    <3>1. trusted
      BY <2>3 DEF Reserve
    <3> QED
      BY <1>t, <2>3, <3>1, TrustReserve
  <2>4. CASE Submit(s) \/ SubmitHidden(s)
    <3>1. trusted
      BY <2>4 DEF Submit, SubmitHidden
    <3> QED
      BY <1>t, <2>4, <3>1, TrustSubmit
  <2>5. CASE Record(s) \/ Clear(s)
    <3>1. trusted
      BY <2>5 DEF Record, Clear
    <3> QED
      BY <1>t, <2>5, <3>1, TrustLeaves
  <2> QED
    BY <1>1, <2>1, <2>2, <2>3, <2>4, <2>5 DEF Request
<1>2. ASSUME NEW h \in Stores, NEW k \in Keys, Lose(h, k) PROVE Trust'
  <2>1. trusted /\ ~Needed(k) /\ UNCHANGED <<order, pc, seen>>
    BY <1>2 DEF Lose
  <2>2. \A g \in Stores, j \in Keys : store'[g][j] = store[g][j] \/ j = k
    BY <1>t, <1>2 DEF TypeOK, Lose
  <2> QED
    BY <1>t, <2>1, <2>2, TrustLost
<1>3. ASSUME NEW p \in Processes, Crash(p) PROVE Trust'
  <2>1. trusted /\ UNCHANGED order /\ \A k \in Keys : store[p][k] # NoRecord => ~Needed(k)
    BY <1>3 DEF Crash
  <2>2. \A x \in Sessions : pc'[x] = "idle" \/ (pc'[x] = pc[x] /\ seen'[x] = seen[x])
    BY <1>3 DEF Crash
  <2>3. \A g \in Stores, j \in Keys :
            store'[g][j] = store[g][j] \/ (g = p /\ store'[g][j] = NoRecord)
    BY <1>t, <1>3 DEF TypeOK, Crash
  <2> QED
    BY <1>t, <2>1, <2>2, <2>3, TrustLost
<1> QED
  BY <1>1, <1>2, <1>3 DEF Next

LEMMA TrustedBefore ==
    ASSUME Next, trusted'
    PROVE  trusted
<1>1. ASSUME NEW s \in Sessions, Request(s) PROVE trusted
  <2>1. CASE Disabled(s) \/ SubmitFails(s)
    BY <2>1 DEF Disabled, SubmitFails
  <2>2. CASE Look(s) \/ LookAgain(s)
    BY <2>2 DEF Look, LookAgain
  <2>3. CASE Reserve(s)
    BY <2>3 DEF Reserve
  <2>4. CASE Submit(s) \/ SubmitHidden(s)
    BY <2>4 DEF Submit, SubmitHidden
  <2>5. CASE Record(s) \/ Clear(s)
    BY <2>5 DEF Record, Clear
  <2> QED
    BY <1>1, <2>1, <2>2, <2>3, <2>4, <2>5 DEF Request
<1>2. ASSUME NEW h \in Stores, NEW k \in Keys, Lose(h, k) PROVE trusted
  BY <1>2 DEF Lose
<1>3. ASSUME NEW p \in Processes, Crash(p) PROVE trusted
  BY <1>3 DEF Crash
<1> QED
  BY <1>1, <1>2, <1>3 DEF Next
-----------------------------------------------------------------------------
(***************************************************************************)
(* The invariant.                                                          *)
(***************************************************************************)
LEMMA SubmitInit == Init => IInv
<1> SUFFICES ASSUME Init PROVE IInv
  OBVIOUS
<1>1. TypeOK
  <2>1. store \in [Stores -> [Keys -> Records]]
    BY RecordTypes DEF Init
  <2>2. pc \in [Sessions -> Phases]
    BY DEF Init, Phases
  <2> QED
    BY <2>1, <2>2 DEF Init, TypeOK
<1>2. OneAtWork /\ \A s \in Sessions : Reserved(s)
  BY DEF Init, OneAtWork, Reserved, AtWork
<1>3. RecordsAreTrue
  BY RecordFields DEF Init, RecordsAreTrue
<1>4. AnswersAreTrue
  BY DEF Init, AnswersAreTrue
<1>5. \A s \in Sessions : Asks(s)
  BY DEF Init, Asks
<1>6. Remembered
  BY DEF Init, Remembered, MadeFor
<1> QED
  BY <1>1, <1>2, <1>3, <1>4, <1>5, <1>6 DEF IInv

LEMMA SubmitStep == IInv /\ [Next]_vars => IInv'
<1> SUFFICES ASSUME IInv, [Next]_vars PROVE IInv'
  OBVIOUS
<1>1. CASE Next
  <2>1. TypeOK' /\ RecordsAreTrue' /\ AnswersAreTrue' /\ \A s \in Sessions : Asks(s)'
    BY <1>1, TypeNext, RecordsNext, AnswersNext, AsksNext
  <2>2. trusted' => Trust'
    BY <1>1, TrustNext
  <2>3. OneAtWork' /\ (trusted' => Remembered' /\ \A s \in Sessions : Reserved(s)')
    BY <2>2 DEF Trust, Own, OneAtWork
  <2> QED
    BY <2>1, <2>3 DEF IInv
<1>2. CASE UNCHANGED vars
  <2>1. UNCHANGED <<order, store, pc, seen, told, trusted>>
    BY <1>2 DEF vars
  <2>2. /\ TypeOK /\ OneAtWork /\ RecordsAreTrue /\ AnswersAreTrue
        /\ \A s \in Sessions : Asks(s)
        /\ trusted => Remembered /\ \A s \in Sessions : Reserved(s)
    BY DEF IInv
  <2>3. TypeOK' /\ RecordsAreTrue' /\ AnswersAreTrue'
    BY <2>1, <2>2 DEF TypeOK, RecordsAreTrue, AnswersAreTrue
  <2>4. OneAtWork' /\ \A s \in Sessions : Asks(s)'
    BY <2>1, <2>2 DEF OneAtWork, AtWork, Key, Payload, Asks
  <2>5. trusted' => Remembered' /\ \A s \in Sessions : Reserved(s)'
    BY <2>1, <2>2 DEF Remembered, Reserved, AtWork, Key, Payload, MadeFor, Home
  <2> QED
    BY <2>3, <2>4, <2>5 DEF IInv
<1> QED
  BY <1>1, <1>2

\* The inductive invariant of the idempotency records, whatever fails.
THEOREM SubmitInvariance == Spec => []IInv
BY SubmitInit, SubmitStep, PTL DEF Spec

\* Records, requests and answers keep their types.
THEOREM SubmitTypeCorrect == Spec => []TypeOK
<1>1. IInv => TypeOK
  BY DEF IInv
<1> QED
  BY <1>1, SubmitInvariance, PTL

\* While nothing was lost, submitByToken runs once at a time for a key.
THEOREM OneRequestAtWork == Spec => []OneAtWork
<1>1. IInv => OneAtWork
  BY DEF IInv
<1> QED
  BY <1>1, SubmitInvariance, PTL
-----------------------------------------------------------------------------
(***************************************************************************)
(* The handlers implement KeyedOrders.                                     *)
(***************************************************************************)
LEMMA MadeOrders ==
    ASSUME TypeOK, NEW o \in Orders, order[o] # NoOrder, order[o].key # NoKey
    PROVE  [id |-> o, key |-> order[o].key, payload |-> order[o].payload] \in Made
BY DEF Made

LEMMA MadeStays ==
    ASSUME UNCHANGED order
    PROVE  UNCHANGED Made
BY DEF Made, Orders

\* A new order with a key is the only one of its key, unless something was lost.
LEMMA MakeStep ==
    ASSUME IInv, Next, NEW s \in Sessions, NEW o \in Orders, SubmitMakes(s, o), Key(s) # NoKey,
           UNCHANGED told
    PROVE  Keyed!Make
<1>t. TypeOK
  BY DEF IInv
<1>r. Key(s) \in Keys /\ Payload(s) \in Payloads /\ AtWork(s) /\ pc[s] = "submit"
  BY RequestOf DEF SubmitMakes, AtWork
<1> DEFINE c == [key |-> Key(s), payload |-> Payload(s)]
           m == [id |-> o, key |-> Key(s), payload |-> Payload(s)]
<1>1. c # NoOrder /\ c.key = Key(s) /\ c.payload = Payload(s)
  BY MadeIsOrder
<1>2. /\ order[o] = NoOrder /\ order'[o] = c
      /\ \A x \in Orders : x # o => order'[x] = order[x]
  BY <1>t DEF SubmitMakes, TypeOK
<1>3. m \in Keyed!Orders /\ m.id = o /\ m.key = Key(s)
  BY <1>r DEF Keyed!Orders
<1> HIDE DEF c
<1>4. \A x \in Made : x.id # o
  BY <1>2 DEF Made
<1>5. ASSUME trusted', NEW x \in Made PROVE x.key # Key(s)
  <2>1. \A q \in Orders : ~MadeFor(q, Key(s))
    BY <1>5, <1>r, TrustedBefore, TrustNow DEF Trust, Reserved
  <2> QED
    BY <2>1 DEF Made, MadeFor
<1>6. Made' = Made \cup {m}
  <2>1. \A x : x \in Made' => x \in Made \cup {m}
    BY <1>1, <1>2 DEF Made, Orders
  <2>2. \A x : x \in Made => x \in Made'
    BY <1>2 DEF Made, Orders
  <2>3. m \in Made'
    BY <1>1, <1>2 DEF Made, Orders
  <2> QED
    BY <2>1, <2>2, <2>3
<1> HIDE DEF m
<1> QED
  BY <1>3, <1>4, <1>5, <1>6 DEF Keyed!Make

LEMMA PromiseStep ==
    ASSUME IInv, Next
    PROVE  Keyed!Next
<1>t. TypeOK /\ TypeOK'
  BY TypeNext DEF IInv
<1>1. CASE UNCHANGED order /\ UNCHANGED told
  BY <1>1, MadeStays, TrustedBefore DEF Keyed!Next, Keyed!Lose
<1>2. ASSUME NEW x \in Sessions, told'[x] # told[x] PROVE Keyed!Next
  <2>1. PICK k \in Keys, d \in Payloads, o \in Orders :
            /\ order[o] = [key |-> k, payload |-> d]
            /\ TellOrder(x, k, d, o) /\ UNCHANGED order
    BY <1>2, ToldTrue
  <2>2. k # NoKey
    BY KeysAreKeys
  <2>3. [id |-> o, key |-> k, payload |-> d] \in Made
    BY <1>t, <2>1, <2>2, MadeIsOrder, MadeOrders
  <2>4. Keyed!Tell
    BY <2>1, <2>3, MadeStays DEF Keyed!Tell, TellOrder
  <2> QED
    BY <2>4, TrustedBefore DEF Keyed!Next
<1>3. ASSUME NEW s \in Sessions, NEW o \in Orders, SubmitMakes(s, o), UNCHANGED told
      PROVE  Keyed!Next
  <2>1. CASE Key(s) # NoKey
    BY <1>3, <2>1, MakeStep, TrustedBefore DEF Keyed!Next
  <2>2. CASE Key(s) = NoKey
    <3> DEFINE c == [key |-> Key(s), payload |-> Payload(s)]
    <3>1. /\ order[o] = NoOrder /\ order'[o] = c /\ c.key = NoKey
          /\ \A x \in Orders : x # o => order'[x] = order[x]
      BY <1>t, <1>3, <2>2 DEF SubmitMakes, TypeOK
    <3> HIDE DEF c
    <3>2. UNCHANGED Made
      BY <3>1 DEF Made, Orders
    <3> QED
      BY <1>3, <3>2, TrustedBefore DEF Keyed!Next, Keyed!Lose
  <2> QED
    BY <2>1, <2>2
<1>4. \/ UNCHANGED told
      \/ \E x \in Sessions : told'[x] # told[x]
  BY <1>t DEF TypeOK
<1>5. \/ UNCHANGED order
      \/ \E s \in Sessions, o \in Orders : SubmitMakes(s, o)
  BY OrderChanges
<1> QED
  BY <1>1, <1>2, <1>3, <1>4, <1>5

\* One order for a key while nothing was lost, and every answer is true.
THEOREM PromiseIsKept == Spec => PromiseKept
<1>1. Init => Keyed!Init
  BY DEF Init, Keyed!Init, Made
<1>2. IInv /\ [Next]_vars => [Keyed!Next]_(Keyed!vars)
  <2> SUFFICES ASSUME IInv, [Next]_vars PROVE [Keyed!Next]_(Keyed!vars)
    OBVIOUS
  <2>1. CASE Next
    BY <2>1, PromiseStep
  <2>2. CASE UNCHANGED vars
    BY <2>2, MadeStays DEF vars, Keyed!vars
  <2> QED
    BY <2>1, <2>2
<1> QED
  BY <1>1, <1>2, SubmitInvariance, PTL DEF Spec, PromiseKept, Keyed!Spec
=============================================================================

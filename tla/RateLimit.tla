----------------------------- MODULE RateLimit -----------------------------
(***************************************************************************)
(* The limit on the requests of one client in a window of time             *)
(* (rateLimit.middleware): a counter in Redis that every server process    *)
(* shares, and one of its own where a process goes on without Redis.       *)
(*                                                                         *)
(* Counting and setting the end of the window are two calls of Redis, and  *)
(* so are counting back and removing what came to nothing.                 *)
(* Wrong... definitions are mutations of the definition after them.        *)
(***************************************************************************)
EXTENDS Integers

CONSTANTS
  Servers,      \* the server processes; each handles a request of the client at a time
  MaxHits,      \* the number of requests that a window lets in
  Window,       \* the length of a window
  Losses,       \* bound: how often Redis is lost
  Cap           \* bound: the counters stop here, above what decides anything

ASSUME LimitBounds == /\ MaxHits \in Nat \ {0} /\ Window \in Nat \ {0} /\ Losses \in Nat
                      /\ Cap \in Nat /\ Cap > MaxHits

VARIABLES
  limiter, \* which one it is: whether a request without Redis is refused (in
           \* production), and whether good requests are counted back (sign-in)
  shared,  \* the key in Redis
  own,     \* the entry of each process in localHits
  serve,   \* where the request of each process is
  store,   \* whether Redis is there, and how often it may still be lost
  verdict  \* how the last request ended

limitVars == <<limiter, shared, own, serve, store, verdict>>

NoKey == [there |-> FALSE, hits |-> 0, ttl |-> -1]
NoServe == [at |-> "idle", hits |-> 0]

Capped(n) == IF n > Cap THEN Cap ELSE n
Serves(p, at, hits) == serve' = [serve EXCEPT ![p] = [at |-> at, hits |-> hits]]
Verdict(p, word) == serve' = [serve EXCEPT ![p] = NoServe] /\ verdict' = word

\* localIncrement: a new window when there is none, or when it is over.
LocalHits(p) == IF own[p].there /\ own[p].ttl > 0 THEN Capped(own[p].hits + 1) ELSE 1
LocalIncrement(p) ==
  own' = [own EXCEPT ![p] = [there |-> TRUE, hits |-> LocalHits(p),
                             ttl |-> IF own[p].there /\ own[p].ttl > 0 THEN own[p].ttl ELSE Window]]

\* What a call does that Redis does not answer.
WithoutRedis(p) ==
  IF limiter.production THEN Verdict(p, "error") /\ UNCHANGED own
  ELSE LocalIncrement(p) /\ Serves(p, "decide", LocalHits(p)) /\ UNCHANGED verdict

----------------------------------------------------------------------------
(* increment.                                                               *)

\* INCR and PTTL in one transaction; INCR makes a key that never expires.
WrongIncrement(p) ==  \* only the first request of a window sets its end
  LET hits == Capped(shared.hits + 1) IN
  /\ serve[p].at = "idle"
  /\ IF ~store.up THEN WithoutRedis(p) /\ UNCHANGED <<shared, store>>
     ELSE /\ shared' = [shared EXCEPT !.there = TRUE, !.hits = hits]
          /\ Serves(p, IF hits = 1 THEN "expire" ELSE "decide", hits)
          /\ UNCHANGED <<own, store, verdict>>
Increment(p) ==
  LET hits == Capped(shared.hits + 1) IN
  /\ serve[p].at = "idle"
  /\ IF ~store.up THEN WithoutRedis(p) /\ UNCHANGED <<shared, store>>
     ELSE /\ shared' = [shared EXCEPT !.there = TRUE, !.hits = hits]
          /\ Serves(p, IF shared.ttl < 0 THEN "expire" ELSE "decide", hits)
          /\ UNCHANGED <<own, store, verdict>>

\* pExpire, which does nothing to a key that is gone.
SetExpire(p) ==
  /\ serve[p].at = "expire"
  /\ IF ~store.up THEN WithoutRedis(p) /\ UNCHANGED shared
     ELSE /\ shared' = [shared EXCEPT !.ttl = IF shared.there THEN Window ELSE @]
          /\ Serves(p, "decide", serve[p].hits)
          /\ UNCHANGED <<own, verdict>>
  /\ UNCHANGED store

\* The limiter: more than the limit is answered with 429; the rest goes on, and
\* a good answer is counted back where the limiter says so.
Decide(p) ==
  /\ serve[p].at = "decide"
  /\ IF serve[p].hits > MaxHits THEN Verdict(p, "refused")
     ELSE /\ verdict' = "let in"
          /\ \E good \in BOOLEAN :
               serve' = [serve EXCEPT ![p] = IF good /\ limiter.skips THEN [NoServe EXCEPT !.at = "back"] ELSE NoServe]
  /\ UNCHANGED <<shared, own, store>>

----------------------------------------------------------------------------
(* decrement.                                                               *)

LocalDecrement(p) ==
  own' = [own EXCEPT ![p] = IF ~own[p].there THEN own[p] ELSE IF own[p].hits <= 1 THEN NoKey
                            ELSE [own[p] EXCEPT !.hits = own[p].hits - 1]]
BackWithoutRedis(p) == IF limiter.production THEN UNCHANGED own ELSE LocalDecrement(p)
EndsBack(p) == serve' = [serve EXCEPT ![p] = NoServe] /\ UNCHANGED <<store, verdict>>

\* DECR; a key whose window was over meanwhile comes back below zero.
Decrement(p) ==
  /\ serve[p].at = "back"
  /\ IF ~store.up THEN BackWithoutRedis(p) /\ EndsBack(p) /\ UNCHANGED shared
     ELSE /\ shared' = [shared EXCEPT !.there = TRUE, !.hits = @ - 1]
          /\ IF shared.hits - 1 > 0 THEN EndsBack(p)
             ELSE Serves(p, "delete", 0) /\ UNCHANGED <<store, verdict>>
          /\ UNCHANGED own

\* DEL, whatever was counted since.
DeleteKey(p) ==
  /\ serve[p].at = "delete"
  /\ IF store.up THEN shared' = NoKey /\ UNCHANGED own
     ELSE UNCHANGED shared /\ BackWithoutRedis(p)
  /\ EndsBack(p)

----------------------------------------------------------------------------
(* Time, and Redis.                                                         *)

\* A key goes when its time is over; one without an end stays.
Ticks ==
  /\ shared.ttl > 0 \/ \E p \in Servers : own[p].ttl > 0
  /\ shared' = IF shared.ttl = 1 THEN NoKey ELSE [shared EXCEPT !.ttl = IF @ > 0 THEN @ - 1 ELSE @]
  /\ own' = [p \in Servers |-> [own[p] EXCEPT !.ttl = IF @ > 0 THEN @ - 1 ELSE @]]
  /\ UNCHANGED <<serve, store, verdict>>

LoseRedis ==
  /\ store.up /\ store.left > 0
  /\ store' = [up |-> FALSE, left |-> store.left - 1]
  /\ UNCHANGED <<shared, own, serve, verdict>>
FindRedis == ~store.up /\ store' = [store EXCEPT !.up = TRUE] /\ UNCHANGED <<shared, own, serve, verdict>>

----------------------------------------------------------------------------
RateLimitInit ==
  /\ limiter \in [production: BOOLEAN, skips: BOOLEAN]
  /\ shared = NoKey
  /\ own = [p \in Servers |-> NoKey]
  /\ serve = [p \in Servers |-> NoServe]
  /\ store = [up |-> TRUE, left |-> Losses]
  /\ verdict = "none"

\* The client goes on asking, and what it asked is answered.
Serving(p) == Increment(p) \/ SetExpire(p) \/ Decide(p) \/ Decrement(p) \/ DeleteKey(p)

RateLimitNext ==
  /\ Ticks \/ LoseRedis \/ FindRedis \/ \E p \in Servers : Serving(p)
  /\ UNCHANGED limiter

RateLimitSpec == RateLimitInit /\ [][RateLimitNext]_limitVars
                 /\ WF_limitVars(Ticks /\ UNCHANGED limiter)
                 /\ \A p \in Servers : WF_limitVars(Serving(p) /\ UNCHANGED limiter)

----------------------------------------------------------------------------
(* Properties.                                                              *)

Counts == {n \in Int : n <= Cap}
KeyRecord == [there: BOOLEAN, hits: Counts, ttl: -1..Window]

\* Counters and requests have their types; a counter may fall below zero.
RateLimitTypeOK ==
  /\ limiter \in [production: BOOLEAN, skips: BOOLEAN]
  /\ shared \in KeyRecord /\ own \in [Servers -> KeyRecord]
  /\ serve \in [Servers -> [at: {"idle", "expire", "decide", "back", "delete"}, hits: Counts]]
  /\ store \in [up: BOOLEAN, left: 0..Losses]
  /\ verdict \in {"none", "let in", "refused", "error"}

\* A client that was refused is let in again when its window is over, even if
\* it goes on asking all the time and even if the call was lost that should
\* have set the end of the window.  (While Redis is away, nobody is let in.)
LetInAgain == (verdict = "refused") ~> (verdict = "let in" \/ ~store.up)
=============================================================================

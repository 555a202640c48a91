------------------------------ MODULE ReadModel ----------------------------
(***************************************************************************)
(* The orders of a branch as its lists show them: cached answers, kept     *)
(* under the version of the read model, and the version itself, a counter  *)
(* in Redis that every change of an order increments.                      *)
(*                                                                         *)
(* A change is written, its version counted, and the copies of its process *)
(* are cleared; a payment, or what a customer orders, is counted before    *)
(* its transaction commits.  A reader takes the version that its process   *)
(* remembers, or asks Redis; then the copy under that version, in memory   *)
(* or in Redis; then the database, once for all readers that wait.         *)
(*                                                                         *)
(* A state of the database is the set of changes that it contains.         *)
(*                                                                         *)
(* A definition named Wrong... is a mistake that the next one could        *)
(* contain; it is used to test the properties.                             *)
(***************************************************************************)
EXTENDS Integers, Sequences, FiniteSets

CONSTANTS
    Processes, Readers, Writes,
    SharedCopies,   \* REDIS_CACHE_ENABLED
    Cleared,        \* whether the copies are in a cache that a change clears
    None

ASSUME SharedIsSet == SharedCopies \in BOOLEAN /\ Cleared \in BOOLEAN
ASSUME TokenIsNoWrite == "token" \notin Writes
ASSUME FewWrites == IsFiniteSet(Writes)
ASSUME NoneIsNothing == None \notin Nat \cup Processes /\ \A X \in SUBSET Writes : X # None

VARIABLES
    db,        \* the changes in the database
    version,   \* the counter in Redis
    made, at,  \* of each change: the version it made (0: none), where it is
    home,      \* and the process that makes it
    early,     \* the changes that are counted before they are committed
    local,     \* the version that each process remembers
    link,      \* the replies of Redis on their way to each process, in order
    copy,      \* the copies in the memory of each process, by version
    shared,    \* and in Redis
    pc, seen,  \* where each reader is; its process, version and answer
    missed     \* changes that an answer was due to show and did not

writing == <<made, at, home, early>>
vars == <<db, version, writing, local, link, copy, shared, pc, seen, missed>>

Versions == 0 .. Cardinality(Writes)
NoCopies == [v \in Versions |-> None]

\* What a reader may rely on: the changes of its process that were counted
\* after their commit and whose count Redis confirmed.  It may not rely on a
\* change that was counted early, nor on one that was answered although its
\* INCR failed: those are not promised, and the code does not keep them.
Confirmed(p) == {w \in Writes \ early : at[w] = "done" /\ home[w] = p}

Proc(r) == seen[r].proc
Version(r) == seen[r].version
Holds(r, x) == seen' = [seen EXCEPT ![r].writes = x]
Go(r, to) == pc' = [pc EXCEPT ![r] = to]

\* The requests of R end.
Drop(R) ==
    /\ pc' = [r \in Readers |-> IF r \in R THEN "idle" ELSE pc[r]]
    /\ seen' = [r \in Readers |-> IF r \in R THEN None ELSE seen[r]]

Tell(R, x) ==
    /\ missed' = missed \cup UNION {seen[r].due \ x : r \in R}
    /\ Drop(R)

(***************************************************************************)
(* getReadModelVersionToken.                                               *)
(***************************************************************************)
Asking(p) == {r \in Readers : pc[r] = "token" /\ Proc(r) = p}

ReadToken(r) ==
    \E p \in Processes :
        /\ pc[r] = "idle"
        /\ seen' = [seen EXCEPT ![r] =
                      [proc |-> p, version |-> IF local[p] = None THEN 0 ELSE local[p],
                       writes |-> {}, due |-> Confirmed(p)]]
        /\ Go(r, IF local[p] = None THEN "token" ELSE "look")
        \* One GET is under way at a time.
        /\ link' = IF local[p] = None /\ Asking(p) = {}
                   THEN [link EXCEPT ![p] = Append(@, [for |-> "token", version |-> version])]
                   ELSE link
        /\ UNCHANGED <<db, version, writing, local, copy, shared, missed>>

\* The reply to a GET: everyone who waits for it goes on.
TokenReply(p) ==
    /\ link[p] # <<>> /\ Head(link[p]).for = "token"
    /\ link' = [link EXCEPT ![p] = Tail(@)]
    /\ local' = [local EXCEPT ![p] = Head(link[p]).version]
    /\ pc' = [r \in Readers |-> IF r \in Asking(p) THEN "look" ELSE pc[r]]
    /\ seen' = [r \in Readers |->
                  IF r \in Asking(p) THEN [seen[r] EXCEPT !.version = Head(link[p]).version]
                  ELSE seen[r]]
    /\ UNCHANGED <<db, version, writing, copy, shared, missed>>

(***************************************************************************)
(* withCache, for the list of the orders.                                  *)
(***************************************************************************)
Look(r) ==
    LET x == copy[Proc(r)][Version(r)] IN
    /\ pc[r] = "look"
    /\ IF x # None
       THEN Tell({r}, x)
       ELSE Go(r, IF SharedCopies THEN "shared" ELSE "miss") /\ UNCHANGED <<seen, missed>>
    /\ UNCHANGED <<db, version, writing, local, link, copy, shared>>

LookShared(r) ==
    LET x == shared[Version(r)] IN
    /\ pc[r] = "shared"
    /\ IF x # None
       THEN Holds(r, x) /\ Go(r, "hit")
       ELSE Go(r, "miss") /\ UNCHANGED seen
    /\ UNCHANGED <<db, version, writing, local, link, copy, shared, missed>>

Hit(r) ==
    /\ pc[r] = "hit"
    /\ copy' = [copy EXCEPT ![Proc(r)][Version(r)] = seen[r].writes]
    /\ Tell({r}, seen[r].writes)
    /\ UNCHANGED <<db, version, writing, local, link, shared>>

Beside(r) == {x \in Readers : pc[x] # "idle" /\ Proc(x) = Proc(r) /\ Version(x) = Version(r)}
Leads(r) == pc[r] \in {"fetch", "store", "share"}
Waiting(r) == {x \in Beside(r) : pc[x] = "wait"}

WrongUnderWay(r) == \E x \in Beside(r) : pc[x] \in {"store", "share"}
\* inFlightCacheFetches has the key.
UnderWay(r) == \E x \in Beside(r) : Leads(x)

Miss(r) ==
    /\ pc[r] = "miss"
    /\ Go(r, IF UnderWay(r) THEN "wait" ELSE "fetch")
    /\ UNCHANGED <<db, version, writing, local, link, copy, shared, seen, missed>>

\* The fetcher reads the database.
Fetch(r) ==
    /\ pc[r] = "fetch"
    /\ Holds(r, db)
    /\ Go(r, "store")
    /\ UNCHANGED <<db, version, writing, local, link, copy, shared, missed>>

Store(r) ==
    /\ pc[r] = "store"
    /\ copy' = [copy EXCEPT ![Proc(r)][Version(r)] = seen[r].writes]
    /\ IF SharedCopies
       THEN Go(r, "share") /\ UNCHANGED <<seen, missed>>
       ELSE Tell({r} \cup Waiting(r), seen[r].writes)
    /\ UNCHANGED <<db, version, writing, local, link, shared>>

Share(r) ==
    /\ pc[r] = "share"
    /\ shared' = [shared EXCEPT ![Version(r)] = seen[r].writes]
    /\ Tell({r} \cup Waiting(r), seen[r].writes)
    /\ UNCHANGED <<db, version, writing, local, link, copy>>

\* A query or a call to Redis fails, and with it everyone who waits for it.
ReadFails(r) ==
    /\ pc[r] = "shared" \/ Leads(r)
    /\ Drop({r} \cup IF Leads(r) THEN Waiting(r) ELSE {})
    /\ UNCHANGED <<db, version, writing, local, link, copy, shared, missed>>

(***************************************************************************)
(* A change, and bumpReadModelVersion and invalidateLocalCache after it.   *)
(***************************************************************************)
Phase(w, to) == at' = [at EXCEPT ![w] = to]

Commit(w) ==
    \E p \in Processes :
        /\ at[w] = "new"
        /\ db' = db \cup {w}
        /\ home' = [home EXCEPT ![w] = p]
        /\ Phase(w, "bump")
        /\ UNCHANGED <<version, made, early, local, link, copy, shared, pc, seen, missed>>

WrongBegin(w) ==  \* counted before the commit, and taken for a change that is not
    \E p \in Processes :
        /\ at[w] = "new"
        /\ home' = [home EXCEPT ![w] = p]
        /\ Phase(w, "bump")
        /\ UNCHANGED <<db, version, made, early, local, link, copy, shared, pc, seen, missed>>

\* refreshOrderPaymentSummary, or a customer's order: the transaction is open.
Begin(w) ==
    \E p \in Processes :
        /\ at[w] = "new"
        /\ early' = early \cup {w}
        /\ home' = [home EXCEPT ![w] = p]
        /\ Phase(w, "bump")
        /\ UNCHANGED <<db, version, made, local, link, copy, shared, pc, seen, missed>>

WrongBump(w) ==  \* the process counts on its own, before Redis has answered
    /\ at[w] = "bump"
    /\ version' = version + 1
    /\ made' = [made EXCEPT ![w] = version + 1]
    /\ local' = [local EXCEPT ![home[w]] = version + 1]
    /\ Phase(w, "clear")
    /\ UNCHANGED <<db, home, early, link, copy, shared, pc, seen, missed>>

\* INCR.
Bump(w) ==
    /\ at[w] = "bump"
    /\ version' = version + 1
    /\ made' = [made EXCEPT ![w] = version + 1]
    /\ link' = [link EXCEPT ![home[w]] = Append(@, [for |-> w, version |-> version + 1])]
    /\ Phase(w, "sent")
    /\ UNCHANGED <<db, home, early, local, copy, shared, pc, seen, missed>>

BumpReply(p) ==
    \E w \in Writes :
        /\ link[p] # <<>> /\ Head(link[p]).for = w
        /\ link' = [link EXCEPT ![p] = Tail(@)]
        /\ local' = [local EXCEPT ![p] = Head(link[p]).version]
        /\ Phase(w, "clear")
        /\ UNCHANGED <<db, version, made, home, early, copy, shared, pc, seen, missed>>

\* allSettled: a failed INCR is not noticed.
BumpFails(w) ==
    /\ at[w] = "bump"
    /\ Phase(w, "silent")
    /\ UNCHANGED <<db, version, made, home, early, local, link, copy, shared, pc, seen, missed>>

Invalidate(w) ==
    /\ at[w] \in {"clear", "silent"}
    /\ copy' = IF Cleared THEN [copy EXCEPT ![home[w]] = NoCopies] ELSE copy
    /\ Phase(w, IF w \in early THEN "commit" ELSE IF at[w] = "clear" THEN "done" ELSE "over")
    /\ UNCHANGED <<db, version, made, home, early, local, link, shared, pc, seen, missed>>

\* The transaction that was counted commits, or is rolled back.
CommitLate(w) ==
    /\ at[w] = "commit"
    /\ db' \in {db, db \cup {w}}
    /\ Phase(w, "over")
    /\ UNCHANGED <<version, made, home, early, local, link, copy, shared, pc, seen, missed>>

(***************************************************************************)
(* Time and failures.                                                      *)
(***************************************************************************)
\* The 250 ms of a remembered version.
ExpireLocal(p) ==
    /\ local[p] # None
    /\ local' = [local EXCEPT ![p] = None]
    /\ UNCHANGED <<db, version, writing, link, copy, shared, pc, seen, missed>>

\* The time to live of a copy, or the limit of entries.
ExpireCopy(p, v) ==
    /\ copy[p][v] # None
    /\ copy' = [copy EXCEPT ![p][v] = None]
    /\ UNCHANGED <<db, version, writing, local, link, shared, pc, seen, missed>>

ExpireShared(v) ==
    /\ shared[v] # None
    /\ shared' = [shared EXCEPT ![v] = None]
    /\ UNCHANGED <<db, version, writing, local, link, copy, pc, seen, missed>>

\* The connection to Redis breaks: the replies on it are lost.
LinkBreaks(p) ==
    LET lost == {link[p][i].for : i \in 1 .. Len(link[p])} IN
    /\ link[p] # <<>>
    /\ link' = [link EXCEPT ![p] = <<>>]
    /\ Drop(Asking(p))
    /\ at' = [w \in Writes |-> IF w \in lost THEN "silent" ELSE at[w]]
    /\ UNCHANGED <<db, version, made, home, early, local, copy, shared, missed>>

Crash(p) ==
    LET dead == {w \in Writes : home[w] = p /\ at[w] # "done"} IN
    /\ local' = [local EXCEPT ![p] = None]
    /\ link' = [link EXCEPT ![p] = <<>>]
    /\ copy' = [copy EXCEPT ![p] = NoCopies]
    /\ Drop({r \in Readers : pc[r] # "idle" /\ Proc(r) = p})
    /\ at' = [w \in Writes |-> IF w \in dead THEN "over" ELSE at[w]]
    /\ UNCHANGED <<db, version, made, home, early, shared, missed>>

(***************************************************************************)
(* The specification.                                                      *)
(***************************************************************************)
Init ==
    /\ db = {} /\ version = 0
    /\ made = [w \in Writes |-> 0]
    /\ at = [w \in Writes |-> "new"]
    /\ home = [w \in Writes |-> None] /\ early = {}
    /\ local = [p \in Processes |-> None]
    /\ link = [p \in Processes |-> <<>>]
    /\ copy = [p \in Processes |-> NoCopies]
    /\ shared = NoCopies
    /\ pc = [r \in Readers |-> "idle"]
    /\ seen = [r \in Readers |-> None]
    /\ missed = {}

Read(r) ==
    \/ ReadToken(r) \/ Look(r) \/ LookShared(r) \/ Hit(r)
    \/ Miss(r) \/ Fetch(r) \/ Store(r) \/ Share(r) \/ ReadFails(r)

Write(w) ==
    \/ Commit(w) \/ Begin(w) \/ Bump(w) \/ BumpFails(w)
    \/ Invalidate(w) \/ CommitLate(w)

Next ==
    \/ \E r \in Readers : Read(r)
    \/ \E w \in Writes : Write(w)
    \/ \E p \in Processes : TokenReply(p) \/ BumpReply(p) \/ LinkBreaks(p) \/ Crash(p) \/ ExpireLocal(p)
    \/ \E p \in Processes, v \in Versions : ExpireCopy(p, v)
    \/ \E v \in Versions : ExpireShared(v)

Spec == Init /\ [][Next]_vars

(***************************************************************************)
(* Properties.                                                             *)
(***************************************************************************)
States == SUBSET Writes
Copies == [Versions -> {None} \cup States]
Requests == [proc: Processes, version: Versions, writes: States, due: States]
Phases == {"idle", "token", "look", "shared", "hit", "miss", "wait", "fetch", "store", "share"}
Places == {"new", "bump", "sent", "clear", "silent", "commit", "done", "over"}

\* Copies, versions and requests have their types.
TypeOK ==
    /\ db \in States /\ version \in Versions
    /\ made \in [Writes -> Versions] /\ at \in [Writes -> Places]
    /\ home \in [Writes -> {None} \cup Processes]
    /\ local \in [Processes -> {None} \cup Versions]
    /\ link \in [Processes -> Seq([for: {"token"} \cup Writes, version: Versions])]
    /\ copy \in [Processes -> Copies] /\ shared \in Copies
    /\ pc \in [Readers -> Phases]
    /\ seen \in [Readers -> {None} \cup Requests]
    /\ missed \in States /\ early \in States

\* What a version promises: the changes that were counted up to it, of those
\* that are counted when they are committed.
Promised(v) == {w \in Writes \ early : made[w] \in 1 .. v}

\* A copy shows everything that its version promises, wherever it is, whoever
\* put it there, and whatever was read before and stored after the change.
CopiesAreFresh ==
    \A v \in Versions :
        /\ shared[v] # None => Promised(v) \subseteq shared[v]
        /\ \A p \in Processes : copy[p][v] # None => Promised(v) \subseteq copy[p][v]

\* Once Redis confirmed the count of a change that was committed before it was
\* counted, every reader who comes to its process later sees the change,
\* whatever replies were on their way.  Nothing is said of payments and
\* customers' orders, which are counted inside their transaction, nor of a
\* change whose INCR failed, although both were answered.
OwnWritesSeen == missed = {}

\* The database is asked once for a version, and no one waits for nothing.
OneFetch ==
    \A r \in Readers : pc[r] # "idle" =>
        /\ \A x, y \in Beside(r) : Leads(x) /\ Leads(y) => x = y
        /\ pc[r] = "wait" => UnderWay(r)

(***************************************************************************)
(* The inductive invariant behind TypeOK, CopiesAreFresh and OwnWritesSeen.*)
(***************************************************************************)
Counted == {w \in Writes : made[w] # 0}

\* A change is in the database before it is counted, unless it is an early one.
Written(w) ==
    /\ at[w] = "new" => home[w] = None
    /\ at[w] \in {"new", "bump"} => made[w] = 0
    /\ at[w] # "new" /\ w \notin early => w \in db
    /\ at[w] \in {"sent", "clear", "done"} => made[w] # 0

\* Replies arrive in the order in which Redis made them, and what a process has
\* confirmed it has not forgotten but for a while.
Linked(p) ==
    LET q == link[p] IN
    /\ \A i \in 1 .. Len(q) :
          /\ q[i].version <= version
          /\ q[i].for \in Writes =>
                at[q[i].for] = "sent" /\ home[q[i].for] = p /\ made[q[i].for] = q[i].version
          /\ \A j \in i .. Len(q) : /\ q[i].version <= q[j].version
                                    /\ q[j].for = q[i].for /\ q[i].for \in Writes => j = i
    /\ local[p] # None => local[p] <= version
    /\ \A w \in Writes : at[w] \in {"clear", "done"} /\ home[w] = p =>
          /\ local[p] # None => made[w] <= local[p]
          /\ \A i \in 1 .. Len(q) : made[w] <= q[i].version

\* What a reader is due is in its version, and its version in its answer.
Reading(r) ==
    pc[r] # "idle" =>
        /\ seen[r] \in Requests
        /\ seen[r].due \subseteq Confirmed(Proc(r))
        /\ pc[r] # "token" => Version(r) <= version /\ seen[r].due \subseteq Promised(Version(r))
        /\ pc[r] \in {"hit", "store", "share"} => Promised(Version(r)) \subseteq seen[r].writes

\* No copy has a version that was not made.
NoFutureCopy ==
    \A v \in Versions : v > version => shared[v] = None /\ \A p \in Processes : copy[p][v] = None

IInv ==
    /\ TypeOK /\ CopiesAreFresh /\ OwnWritesSeen /\ NoFutureCopy
    /\ version = Cardinality(Counted)
    /\ \A w \in Writes : Written(w) /\ made[w] <= version
    /\ \A p \in Processes : Linked(p)
    /\ \A r \in Readers : Reading(r)
=============================================================================

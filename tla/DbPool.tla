------------------------------- MODULE DbPool -------------------------------
(***************************************************************************)
(* The connections of a process, and the branch that each works for.       *)
(*                                                                         *)
(* A request borrows a connection, sets the branch for row-level security  *)
(* on it (set_config), runs its statements on it and gives it back when    *)
(* the response is finished, or when the client has gone while the handler *)
(* still runs.  What is set on a connection inside of a transaction is     *)
(* undone when that is rolled back.  requireBranch borrows a second        *)
(* connection while the first is held.  The statements themselves are left *)
(* out; a request has at most MaxStatements.                               *)
(*                                                                         *)
(* A definition named Wrong... is a mistake that the next one could        *)
(* contain; it is used to test the properties.                             *)
(***************************************************************************)
EXTENDS Naturals, Sequences, SequencesExt

CONSTANTS
    Pool,           \* the connections
    Calls,          \* the concurrent requests
    Homes,          \* branches
    MaxStatements,  \* statements that one request runs after its checks
    Hangups,        \* whether clients go away before they are answered
    NoOne           \* no request, no connection

ASSUME PoolSets == NoOne \notin Pool \cup Calls /\ {"none", "admin"} \cap Homes = {}
ASSUME PoolBound == MaxStatements \in Nat

VARIABLES
    conns,   \* the pool
    call,    \* where each request is
    line,    \* who waits for a connection, in order
    known    \* branchValidationCache: the branches that are known to exist

poolVars == <<conns, call, line, known>>

\* A connection: what it is set to, its transaction, what a rollback sets it back to,
\* who holds it; left tells that it came back with a transaction that was not ended.
Fresh == [ctx |-> "none", tx |-> "none", saved |-> "none", holder |-> NoOne, left |-> FALSE]
NoCall == [at |-> "idle", home |-> "none", on |-> NoOne, second |-> NoOne, tx |-> FALSE, todo |-> 0]

FreeConns == {c \in Pool : conns[c].holder = NoOne}

\* SELECT set_config(...): inside of a failed transaction it is refused.
Set(c, ctx) == [c EXCEPT !.ctx = ctx]
Committed(c) == [c EXCEPT !.tx = "none", !.saved = "none"]
RolledBack(c) == [Committed(c) EXCEPT !.ctx = c.saved]
GivenBack(c) == [c EXCEPT !.holder = NoOne, !.left = c.left \/ c.tx # "none"]

\* createQueryRunner().connect(): a pool without a free connection makes one wait.
Ask(r, at) ==
    /\ line' = Append(line, r)
    /\ call' = [call EXCEPT ![r].at = at]

\* pg drops the request from wherever it stands in the line.
LeavesLine(r) == \E i \in DOMAIN line : line[i] = r /\ line' = RemoveAt(line, i)

(***************************************************************************)
(* authenticateToken and runWithDbContext.                                 *)
(***************************************************************************)
Arrive(r) ==
    \E h \in Homes \cup {"admin"} :
        /\ call[r].at = "idle"
        /\ line' = Append(line, r)
        /\ call' = [call EXCEPT ![r] = [NoCall EXCEPT !.at = "waiting", !.home = h,
                                                      !.todo = MaxStatements]]
        /\ UNCHANGED <<conns, known>>

GrantedTo(r, c) ==
    IF call[r].at = "waiting" THEN [call[r] EXCEPT !.at = "context", !.on = c]
    ELSE [call[r] EXCEPT !.at = "lookup", !.second = c]

Grant ==
    \E c \in FreeConns :
        /\ line # <<>>
        /\ line' = Tail(line)
        /\ conns' = [conns EXCEPT ![c].holder = Head(line)]
        /\ call' = [call EXCEPT ![Head(line)] = GrantedTo(Head(line), c)]
        /\ UNCHANGED known

WrongTimeOut(r) ==  \* who already has a connection waits for as long as it takes
    /\ call[r].at = "waiting"
    /\ LeavesLine(r)
    /\ call' = [call EXCEPT ![r] = NoCall]
    /\ UNCHANGED <<conns, known>>
\* connectionTimeoutMillis: the request fails, with the first connection it goes on to
\* answer so.
TimeOut(r) ==
    /\ call[r].at \in {"waiting", "second"}
    /\ LeavesLine(r)
    /\ call' = [call EXCEPT ![r] = IF call[r].at = "waiting" THEN NoCall
                                   ELSE [call[r] EXCEPT !.at = "finish"]]
    /\ UNCHANGED <<conns, known>>

WrongSetContext(r) ==  \* the context that is there is taken for the right one
    LET c == call[r].on
    IN  /\ call[r].at = "context"
        /\ conns' = IF conns[c].ctx = "none" THEN [conns EXCEPT ![c] = Set(conns[c], call[r].home)]
                    ELSE conns
        /\ call' = [call EXCEPT ![r].at = "check"]
        /\ UNCHANGED <<line, known>>
\* setSessionContext is outside of the try: when it fails nobody gives the connection back.
SetContext(r) ==
    LET c == call[r].on
    IN  /\ call[r].at = "context"
        /\ IF conns[c].tx = "failed" THEN conns' = conns /\ call' = [call EXCEPT ![r] = NoCall]
           ELSE /\ conns' = [conns EXCEPT ![c] = Set(conns[c], call[r].home)]
                /\ call' = [call EXCEPT ![r].at = "check"]
        /\ UNCHANGED <<line, known>>

(***************************************************************************)
(* requireBranch: branchExists looks on a connection of its own, as an     *)
(* administrator, unless it has looked not long ago.                       *)
(***************************************************************************)
Check(r) ==
    /\ call[r].at = "check"
    /\ IF call[r].home \in known \cup {"admin"}
       THEN call' = [call EXCEPT ![r].at = "handler"] /\ UNCHANGED line
       ELSE Ask(r, "second")
    /\ UNCHANGED <<conns, known>>

Lookup(r) ==
    LET c == call[r].second
    IN  /\ call[r].at = "lookup"
        /\ IF conns[c].tx = "failed"
           THEN /\ call' = [call EXCEPT ![r].at = "finish", ![r].second = NoOne]
                /\ UNCHANGED <<conns, known>>
           ELSE /\ conns' = [conns EXCEPT ![c] = GivenBack(Set(conns[c], "none"))]
                /\ known' = known \cup {call[r].home}
                /\ call' = [call EXCEPT ![r].at = "handler", ![r].second = NoOne]
        /\ UNCHANGED line

ForgetBranch ==
    \E h \in known :
        /\ known' = known \ {h}
        /\ UNCHANGED <<conns, call, line>>

(***************************************************************************)
(* The handler.  A transaction that is already open on the connection, by  *)
(* whomever, is joined: START TRANSACTION in a transaction is a warning.   *)
(***************************************************************************)
Handling(r) == call[r].at = "handler"
Ran(r, tx) == [call EXCEPT ![r].todo = call[r].todo - 1, ![r].tx = tx]

BeginTx(r) ==
    LET c == call[r].on
    IN  /\ Handling(r) /\ ~call[r].tx /\ call[r].todo > 0
        /\ conns[c].tx # "failed"
        /\ conns' = IF conns[c].tx = "open" THEN conns
                    ELSE [conns EXCEPT ![c].tx = "open", ![c].saved = conns[c].ctx]
        /\ call' = Ran(r, TRUE)
        /\ UNCHANGED <<line, known>>

\* A statement that fails in a transaction fails the transaction, too.
Statement(r) ==
    \E ok \in BOOLEAN :
        LET c == call[r].on
        IN  /\ Handling(r) /\ call[r].todo > 0
            /\ conns' = IF ~ok /\ conns[c].tx = "open" THEN [conns EXCEPT ![c].tx = "failed"] ELSE conns
            /\ call' = Ran(r, call[r].tx)
            /\ UNCHANGED <<line, known>>

\* COMMIT of a failed transaction is a rollback.
EndTx(r) ==
    \E commit \in BOOLEAN :
        LET c == call[r].on
        IN  /\ Handling(r) /\ call[r].tx
            /\ conns' = [conns EXCEPT ![c] = IF commit /\ conns[c].tx # "failed"
                                             THEN Committed(conns[c]) ELSE RolledBack(conns[c])]
            /\ call' = [call EXCEPT ![r].tx = FALSE]
            /\ UNCHANGED <<line, known>>

Respond(r) ==
    /\ Handling(r) /\ ~call[r].tx
    /\ call' = [call EXCEPT ![r].at = "finish"]
    /\ UNCHANGED <<conns, line, known>>

\* "close": the promise of the context resolves while the handler still runs.
Hangup(r) ==
    /\ Hangups
    /\ Handling(r)
    /\ call' = [call EXCEPT ![r].at = "finish"]
    /\ UNCHANGED <<conns, line, known>>

\* The context is reset, and the connection given back even when that fails.
Release(r) ==
    \E reset \in BOOLEAN :
        LET c == call[r].on
        IN  /\ call[r].at = "finish"
            /\ reset => conns[c].tx # "failed"
            /\ conns' = [conns EXCEPT ![c] = GivenBack(IF reset THEN Set(conns[c], "none") ELSE conns[c])]
            /\ call' = [call EXCEPT ![r] = NoCall]
            /\ UNCHANGED <<line, known>>

\* idleTimeoutMillis: an idle connection is closed; another will be made.
Evict ==
    \E c \in FreeConns :
        /\ conns[c] # Fresh
        /\ conns' = [conns EXCEPT ![c] = Fresh]
        /\ UNCHANGED <<call, line, known>>

(***************************************************************************)
(* The specification.  The start-up leaves a connection that is set to the *)
(* administrator (ensureRbacDefaults).                                     *)
(***************************************************************************)
PoolInit ==
    /\ conns = [c \in Pool |-> IF c = CHOOSE b \in Pool : TRUE THEN Set(Fresh, "admin") ELSE Fresh]
    /\ call = [r \in Calls |-> NoCall]
    /\ line = <<>>
    /\ known = {}

Step(r) ==
    \/ TimeOut(r) \/ SetContext(r) \/ Check(r) \/ Lookup(r)
    \/ BeginTx(r) \/ Statement(r) \/ EndTx(r) \/ Respond(r) \/ Hangup(r) \/ Release(r)

PoolNext == Grant \/ ForgetBranch \/ Evict \/ \E r \in Calls : Arrive(r) \/ Step(r)

PoolSpec == PoolInit /\ [][PoolNext]_poolVars

(***************************************************************************)
(* Properties.                                                             *)
(***************************************************************************)
Contexts == Homes \cup {"none", "admin"}
ConnRecord == [ctx: Contexts, tx: {"none", "open", "failed"}, saved: Contexts,
               holder: Calls \cup {NoOne}, left: BOOLEAN]
CallRecord == [at: {"idle", "waiting", "context", "check", "second", "lookup", "handler", "finish"},
               home: Contexts, on: Pool \cup {NoOne}, second: Pool \cup {NoOne},
               tx: BOOLEAN, todo: 0 .. MaxStatements]

\* Connections and requests have their types.
PoolTypeOK ==
    /\ conns \in [Pool -> ConnRecord]
    /\ call \in [Calls -> CallRecord]
    /\ line \in Seq(Calls)
    /\ known \subseteq Homes

\* Two requests never work on one connection, and one that waits is in line once.
OneHolder ==
    /\ \A r \in Calls : \A c \in {call[r].on, call[r].second} \ {NoOne} : conns[c].holder = r
    /\ \A r \in Calls : call[r].on # NoOne => call[r].on # call[r].second

\* Whatever fails, waits or times out, the statements of a request run for its own
\* branch, unless its connection had come back with a transaction that nobody ended.
InOwnContext(r) == conns[call[r].on].ctx = call[r].home
WorksForOwnBranch ==
    \A r \in Calls : Handling(r) /\ ~conns[call[r].on].left => InOwnContext(r)

\* Requests that all hold a connection and wait for a second one do not wait for ever.
EveryCallEnds == \A r \in Calls : call[r].at # "idle" ~> call[r].at = "idle"
=============================================================================

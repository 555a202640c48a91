---------------------------- MODULE MCEventually ---------------------------
(***************************************************************************)
(* Small instances, for TLC, of the modules that promise an end to what is *)
(* begun.  They share nothing, so one run checks them side by side: a      *)
(* behaviour is a behaviour of one of them, and the others stay where they *)
(* start.                                                                  *)
(***************************************************************************)
EXTENDS PosOrders, DbPool, SignIn, Retention

VARIABLE part   \* the module that runs

cast == <<part, vars, poolVars, signVars, retentionVars>>

OrdersOnly   == part = "orders" /\ UNCHANGED <<part, poolVars, signVars, retentionVars>>
PoolOnly     == part = "pool" /\ UNCHANGED <<part, vars, signVars, retentionVars>>
SignInOnly   == part = "signIn" /\ UNCHANGED <<part, vars, poolVars, retentionVars>>
CleaningOnly == part = "cleaning" /\ UNCHANGED <<part, vars, poolVars, signVars>>

\* What the environment of the cleaning says.
All(word) == [kind \in 1 .. 3 |-> word]
SomeSettings ==
    {[scheduler |-> "unset", enabled |-> [All("unset") EXCEPT ![1] = "on"], dry |-> All("unset")],
     [scheduler |-> "on", enabled |-> [All("on") EXCEPT ![2] = "off"],
      dry |-> [All("unset") EXCEPT ![1] = "on", ![3] = "off"]]}

CastInit ==
    /\ part \in {"orders", "pool", "signIn", "cleaning"}
    /\ Init /\ PoolInit /\ SignInit /\ RetentionInit
    /\ part # "cleaning" => env = CHOOSE e \in Settings : TRUE

CastNext ==
    \/ OrdersOnly /\ Next
    \/ PoolOnly /\ PoolNext
    \/ SignInOnly /\ SignNext
    \/ CleaningOnly /\ RetentionNext

CastSpec ==
    /\ CastInit /\ [][CastNext]_cast
    \* PostgreSQL serves who waits for a lock, and resolves a deadlock.
    /\ \A s \in Sessions : SF_cast(OrdersOnly /\ Continue(s)) /\ WF_cast(OrdersOnly /\ DeadlockVictim(s))
    \* The clock runs, and a process goes on with what it has begun.
    /\ WF_cast(PoolOnly /\ Grant) /\ \A r \in Calls : WF_cast(PoolOnly /\ Step(r))
    /\ WF_cast(SignInOnly /\ Passes) /\ \A v \in Visits : WF_cast(SignInOnly /\ GoesOn(v))
    /\ \A c \in Cleaners : WF_cast(CleaningOnly /\ RunCycle(c)) /\ WF_cast(CleaningOnly /\ Cleans(c))
=============================================================================

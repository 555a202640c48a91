------------------------------ MODULE MCStaff ------------------------------
(***************************************************************************)
(* Small instances, for TLC, of what the staff may do and what the roles   *)
(* start with, of what their screens hear, and of how often a client may   *)
(* ask.  They share nothing here, so one run checks them side by side: a   *)
(* behaviour is a behaviour of one of them, and the others stay where they *)
(* start.                                                                  *)
(***************************************************************************)
EXTENDS Permissions, Endpoints, Realtime, RateLimit

CONSTANT Lead   \* the process that takes the requests of administrators

VARIABLE part   \* what runs

cast == <<part, permVars, defaultsVars, visitor, realtimeVars, limitVars>>

RightsOnly  == /\ part \in {"reviews", "answers"}
               /\ UNCHANGED <<part, defaultsVars, visitor, realtimeVars, limitVars>>
RolesOnly   == part = "roles" /\ UNCHANGED <<part, permVars, visitor, realtimeVars, limitVars>>
DoorsOnly   == part = "doors" /\ UNCHANGED <<part, permVars, defaultsVars, realtimeVars, limitVars>>
ScreensOnly == /\ part \in {"sockets", "adapter"}
               /\ UNCHANGED <<part, permVars, defaultsVars, visitor, limitVars>>
LimiterOnly == part = "limiter" /\ UNCHANGED <<part, permVars, defaultsVars, visitor, realtimeVars>>

\* Overrides are asked for and reviewed, or decisions are remembered while the
\* rules change; what administrators ask for goes to one process.
Rights(step) ==
    /\ RightsOnly /\ step
    /\ part = "reviews" => \A j \in Jobs : memo'[j].kind # "ask" /\ memo'[j].proc \in {Lead, StaffRole}
    /\ part = "answers" => /\ UNCHANGED approvals
                           /\ \A j \in Jobs : memo'[j].kind = "ask" => memo'[j].proc = Lead

\* Sockets come and go, or the adapter does.
Screens(step) ==
    /\ ScreensOnly /\ step
    /\ IF part = "sockets" THEN UNCHANGED adapter ELSE UNCHANGED <<member, session, socket>>

\* Capabilities of two resources.
SomeCapabilities == {<<<<"orders", "edit">>, "update">>, <<<<"shifts", "page">>, "view">>}

CastInit ==
    /\ part \in {"reviews", "answers", "roles", "doors", "sockets", "adapter", "limiter"}
    /\ PermInit /\ DefaultsInit /\ EndpointsInit /\ RealtimeInit /\ RateLimitInit
    /\ part # "limiter" => limiter.production /\ limiter.skips

CastNext ==
    \/ Rights(PermNext)
    \/ RolesOnly /\ DefaultsNext
    \/ DoorsOnly /\ EndpointsNext
    \/ Screens(RealtimeNext)
    \/ LimiterOnly /\ RateLimitNext

CastSpec ==
    /\ CastInit /\ [][CastNext]_cast
    \* The clock runs, and a process goes on with what it has begun.
    /\ WF_cast(Rights(TimePasses)) /\ \A j \in Jobs : WF_cast(Rights(Proceed(j)))
    /\ WF_cast(Screens(AdapterSteps))
    \* A client that was refused goes on asking.
    /\ WF_cast(LimiterOnly /\ Ticks /\ UNCHANGED limiter)
    /\ \A p \in Servers : WF_cast(LimiterOnly /\ Serving(p) /\ UNCHANGED limiter)
=============================================================================

------------------------------- MODULE SignIn -------------------------------
(***************************************************************************)
(* The sessions of one user: a token that the user carries, a session in   *)
(* Redis that every process reads, and a copy of it that each process      *)
(* keeps for a short while.                                                *)
(*                                                                         *)
(* authenticateToken asks its own copy first, then Redis, and now and then *)
(* the database; every request that is let in writes the copy again.       *)
(* Logging in and changing one's own profile save the whole row that they  *)
(* have read.                                                              *)
(*                                                                         *)
(* Time is counted in ticks, and nothing is older than the age at which it *)
(* is no longer used.  A definition named Wrong... is a mistake that the   *)
(* next one could contain; it is used to test the properties.              *)
(***************************************************************************)
EXTENDS Naturals

CONSTANTS
    Tokens,         \* the sessions
    Hosts,          \* the processes
    Visits,         \* the concurrent requests
    SessionTimeout, \* ticks for which a token, or a session that is not used, is good
    Revalidate,     \* ticks after which a session is compared with the database
    CopyTTL         \* ticks for which a copy is used

ASSUME SignInTimes == SessionTimeout \in Nat /\ Revalidate \in Nat /\ CopyTTL \in Nat

VARIABLES
    enabled,  \* users.is_use
    token,    \* the age of each token; a token that was not issued is too old
    sessions, \* Redis: the sessions
    redisUp,  \* whether Redis answers
    copy,     \* authSessionLocalCache: the age of each copy, by process
    visit     \* where each request is

signVars == <<enabled, token, sessions, redisUp, copy, visit>>

NoSession == [there |-> FALSE, idle |-> 0, valid |-> 0]
NewSession == [there |-> TRUE, idle |-> 0, valid |-> 0]
NoVisit == [at |-> "idle", tok |-> "none", host |-> "none"]

Issued(t) == token[t] <= SessionTimeout
Copied(h, t) == copy[h][t] <= CopyTTL
NoCopy == CopyTTL + 1

Enter(v, at, t, h) ==
    /\ visit[v].at = "idle"
    /\ visit' = [visit EXCEPT ![v] = [at |-> at, tok |-> t, host |-> h]]
Leave(v) == visit' = [visit EXCEPT ![v] = NoVisit]

(***************************************************************************)
(* login, logout, updateMe, and the administrator.                         *)
(***************************************************************************)
LoginRead(v) ==
    \E t \in Tokens, h \in Hosts :
        /\ enabled
        /\ token[t] > SessionTimeout /\ \A x \in DOMAIN visit : visit[x].tok # t
        /\ Enter(v, "login", t, h)
        /\ UNCHANGED <<enabled, token, sessions, redisUp, copy>>

\* The row is saved as it was read; without Redis the login fails after that.
LoginSave(v) ==
    /\ visit[v].at = "login"
    /\ enabled' = TRUE
    /\ IF redisUp THEN /\ sessions' = [sessions EXCEPT ![visit[v].tok] = NewSession]
                     /\ token' = [token EXCEPT ![visit[v].tok] = 0]
       ELSE UNCHANGED <<sessions, token>>
    /\ Leave(v)
    /\ UNCHANGED <<redisUp, copy>>

\* The session is removed, the copies are not; without Redis nothing is.
Logout ==
    \E t \in Tokens :
        /\ Issued(t)
        /\ sessions' = IF redisUp THEN [sessions EXCEPT ![t] = NoSession] ELSE sessions
        /\ UNCHANGED <<enabled, token, redisUp, copy, visit>>

UpdateMeRead(v) ==
    \E t \in Tokens, h \in Hosts :
        /\ Copied(h, t) /\ enabled
        /\ Enter(v, "profile", t, h)
        /\ UNCHANGED <<enabled, token, sessions, redisUp, copy>>

UpdateMeSave(v) ==
    /\ visit[v].at = "profile"
    /\ enabled' = TRUE
    /\ Leave(v)
    /\ UNCHANGED <<token, sessions, redisUp, copy>>

SetUse ==
    /\ enabled' = ~enabled
    /\ UNCHANGED <<token, sessions, redisUp, copy, visit>>

RedisFails ==
    /\ redisUp' = ~redisUp
    /\ UNCHANGED <<enabled, token, sessions, copy, visit>>

(***************************************************************************)
(* authenticateToken.                                                      *)
(***************************************************************************)
Forgotten(h, t) == [copy EXCEPT ![h][t] = NoCopy]

WrongAdmitted(v, t, h) ==  \* a copy that is used is not asked how old its token is
    /\ copy' = [copy EXCEPT ![h][t] = 0]
    /\ visit' = [visit EXCEPT ![v] = [at |-> "served", tok |-> t, host |-> h]]
\* The copy is written, and forgotten again when the token is too old.
Admitted(v, t, h) ==
    IF Issued(t)
    THEN /\ copy' = [copy EXCEPT ![h][t] = 0]
         /\ visit' = [visit EXCEPT ![v] = [at |-> "served", tok |-> t, host |-> h]]
    ELSE copy' = Forgotten(h, t) /\ Leave(v)
Refused(v, t, h) == copy' = Forgotten(h, t) /\ Leave(v)

VisitByCopy(v) ==
    \E t \in Tokens, h \in Hosts :
        /\ visit[v].at = "idle"
        /\ Copied(h, t)
        /\ Admitted(v, t, h)
        /\ UNCHANGED <<enabled, token, sessions, redisUp>>

\* Without Redis a request that has no copy is refused.
VisitByRedis(v) ==
    \E t \in Tokens, h \in Hosts :
        /\ visit[v].at = "idle"
        /\ ~Copied(h, t)
        /\ redisUp /\ sessions[t].there
        /\ sessions' = [sessions EXCEPT ![t].idle = 0]
        /\ IF sessions[t].valid >= Revalidate
           THEN Enter(v, "validate", t, h) /\ UNCHANGED copy
           ELSE Admitted(v, t, h)
        /\ UNCHANGED <<enabled, token, redisUp>>

\* The session of a disabled user is removed, and then the copy; without Redis neither is.
ValidateRead(v) ==
    /\ visit[v].at = "validate"
    /\ \/ /\ enabled
          /\ visit' = [visit EXCEPT ![v].at = "keep"]
          /\ UNCHANGED <<sessions, copy>>
       \/ /\ ~enabled /\ redisUp
          /\ sessions' = [sessions EXCEPT ![visit[v].tok] = NoSession]
          /\ Refused(v, visit[v].tok, visit[v].host)
       \/ ~enabled /\ ~redisUp /\ Leave(v) /\ UNCHANGED <<sessions, copy>>
    /\ UNCHANGED <<enabled, token, redisUp>>

\* The session is written anew, even if it was removed meanwhile.
ValidateStore(v) ==
    /\ visit[v].at = "keep"
    /\ IF redisUp THEN /\ sessions' = [sessions EXCEPT ![visit[v].tok] = NewSession]
                     /\ Admitted(v, visit[v].tok, visit[v].host)
       ELSE Leave(v) /\ UNCHANGED <<sessions, copy>>
    /\ UNCHANGED <<enabled, token, redisUp>>

Answer(v) ==
    /\ visit[v].at = "served"
    /\ Leave(v)
    /\ UNCHANGED <<enabled, token, sessions, redisUp, copy>>

(***************************************************************************)
(* Time.                                                                   *)
(***************************************************************************)
Later(n, max) == IF n <= max THEN n + 1 ELSE n
Aged(s) ==
    IF ~s.there \/ s.idle >= SessionTimeout THEN NoSession
    ELSE [s EXCEPT !.idle = s.idle + 1, !.valid = IF s.valid < Revalidate THEN s.valid + 1 ELSE s.valid]
Passes ==
    /\ token' = [t \in Tokens |-> Later(token[t], SessionTimeout)]
    /\ sessions' = [t \in Tokens |-> Aged(sessions[t])]
    /\ copy' = [h \in Hosts |-> [t \in Tokens |-> Later(copy[h][t], CopyTTL)]]
    /\ UNCHANGED <<enabled, redisUp, visit>>

(***************************************************************************)
(* The specification.  Time passes, and a request that was begun ends.     *)
(***************************************************************************)
SignInit ==
    /\ enabled = TRUE
    /\ token = [t \in Tokens |-> SessionTimeout + 1]
    /\ sessions = [t \in Tokens |-> NoSession]
    /\ redisUp = TRUE
    /\ copy = [h \in Hosts |-> [t \in Tokens |-> NoCopy]]
    /\ visit = [v \in Visits |-> NoVisit]

GoesOn(v) == LoginSave(v) \/ UpdateMeSave(v) \/ ValidateRead(v) \/ ValidateStore(v) \/ Answer(v)

SignNext ==
    \/ Logout \/ SetUse \/ RedisFails \/ Passes
    \/ \E v \in Visits : LoginRead(v) \/ UpdateMeRead(v) \/ VisitByCopy(v) \/ VisitByRedis(v) \/ GoesOn(v)

SignSpec == SignInit /\ [][SignNext]_signVars

(***************************************************************************)
(* Properties.                                                             *)
(***************************************************************************)
SessionRecord == [there: BOOLEAN, idle: 0 .. SessionTimeout, valid: 0 .. Revalidate]
VisitRecord ==
    {NoVisit} \cup [at: {"login", "profile", "validate", "keep", "served"}, tok: Tokens, host: Hosts]

\* The account, its sessions and the requests have their types.
SignTypeOK ==
    /\ enabled \in BOOLEAN /\ redisUp \in BOOLEAN
    /\ token \in [Tokens -> 0 .. (SessionTimeout + 1)]
    /\ sessions \in [Tokens -> SessionRecord]
    /\ copy \in [Hosts -> [Tokens -> 0 .. NoCopy]]
    /\ visit \in [Visits -> VisitRecord]

\* A user who stays disabled is locked out in the end: a copy that is used again and
\* again, or a session that a late validation brings back, is of no use once the token
\* is too old.
Served == \E v \in Visits : visit[v].at = "served"
DisabledIsLockedOut == <>[](~enabled) => <>[](~Served)

\* The safety half of it: once the tokens of a disabled user are too old, and no login
\* or profile is still being saved, nobody is let in any more, whatever copies and
\* sessions there are, and only an administrator ends that.
LockedOut ==
    /\ ~enabled /\ \A t \in Tokens : ~Issued(t)
    /\ \A v \in Visits : visit[v].at \notin {"login", "profile"}
StaysOut ==
    [][LockedOut => /\ SetUse \/ LockedOut'
                    /\ \A v \in Visits : visit'[v].at = "served" => visit[v].at = "served"]_signVars
=============================================================================

------------------------------ MODULE Realtime ------------------------------
(***************************************************************************)
(* Events pushed to browsers (socket.service): who may connect, which      *)
(* rooms a socket joins, to which rooms an event goes, and the adapter by  *)
(* which the server processes share their rooms through Redis.             *)
(* Wrong... definitions are mutations of the definition after them.        *)
(***************************************************************************)
EXTENDS Naturals, FiniteSets

CONSTANTS
  Sockets,    \* the connections that browsers open
  Members,    \* the users
  Branches,   \* the branches
  TableRooms, \* the tables whose QR page may be open
  Outages     \* bound: how often Redis goes down

ASSUME RealtimeBounds == Outages \in Nat
ASSUME RealtimeSets ==
  /\ Members \cap TableRooms = {} /\ Branches \cap TableRooms = {}
  /\ {"system", "users", "other"} \cap (Branches \cup TableRooms) = {}

VARIABLES
  member,   \* the row of each user: role, and whether the account is in use
  session,  \* the copy of it in the session store, and whether it is still fresh
  socket,   \* where each socket is, the rooms it is in and what it heard
  redis,    \* whether Redis is up, and how often it may still go down
  adapter   \* the adapter of this process

realtimeVars == <<member, session, socket, redis, adapter>>

Ranks  == {"Admin", "Manager", "Employee"}
Clients == {"pub", "sub"}
NoSocket == [at |-> "closed", as |-> "none", role |-> "none", branch |-> "none", rooms |-> {}, heard |-> {}]
NoAdapter == [at |-> "off", pub |-> "none", sub |-> "none", ready |-> FALSE, started |-> FALSE, timer |-> FALSE]

UserRoom(u)  == <<"user", u>>
RoleRoom(r)  == <<"role", r>>
BranchRoom(b) == <<"branch", b>>
PublicTableRoom(t) == <<"public-table", t>>

Live(s) == socket[s].at # "closed"
Becomes(s, record) == socket' = [socket EXCEPT ![s] = record]
Refuse(s) == Becomes(s, NoSocket)
Apart == UNCHANGED <<redis, adapter>>

----------------------------------------------------------------------------
(* A socket.                                                                *)

\* A table's code that is good; see QrTokens for when it is.
AuthPublicTable(s) ==
  /\ ~Live(s)
  /\ \E t \in TableRooms, valid \in BOOLEAN :
       IF valid THEN Becomes(s, [NoSocket EXCEPT !.at = "joining", !.as = t]) ELSE Refuse(s)
  /\ UNCHANGED <<member, session>> /\ Apart

\* The branch is the one that the handshake names, or the user's own.
Enters(s, u, role) ==
  \E b \in Branches : Becomes(s, [NoSocket EXCEPT !.at = "joining", !.as = u, !.role = role, !.branch = b])

\* loadSocketUserSnapshot, and what is done with it: the session goes with a
\* user who is gone or disabled, and is renewed otherwise.
FromDb(s, u) ==
  IF member[u].use
  THEN /\ session' = [session EXCEPT ![u] = [there |-> TRUE, fresh |-> TRUE, row |-> member[u]]]
       /\ Enters(s, u, member[u].role)
  ELSE session' = [session EXCEPT ![u].there = FALSE] /\ Refuse(s)

\* No session, no socket; a fresh copy is believed, an old one is read again.
AuthUser(s) ==
  /\ ~Live(s)
  /\ \E u \in Members :
       IF ~session[u].there \/ ~redis.up THEN Refuse(s) /\ UNCHANGED session
       ELSE IF ~session[u].fresh THEN FromDb(s, u)
       ELSE /\ IF session[u].row.use THEN Enters(s, u, session[u].row.role) ELSE Refuse(s)
            /\ UNCHANGED session
  /\ UNCHANGED member /\ Apart

RoomsOf(k) == IF k.as \in TableRooms THEN {PublicTableRoom(k.as)} ELSE {UserRoom(k.as), RoleRoom(k.role), BranchRoom(k.branch)}

\* The rooms of a socket; a room that cannot be joined is only counted as an error.
JoinRooms(s) ==
  /\ socket[s].at = "joining"
  /\ \E rooms \in SUBSET RoomsOf(socket[s]) :
       /\ rooms # RoomsOf(socket[s]) => ~redis.up
       /\ Becomes(s, [socket[s] EXCEPT !.at = "open", !.rooms = rooms])
  /\ UNCHANGED <<member, session>> /\ Apart

Disconnect(s) == Live(s) /\ Refuse(s) /\ UNCHANGED <<member, session>> /\ Apart

----------------------------------------------------------------------------
(* emit.                                                                    *)

Topics == {"system", "users", "other"}

Hears(rooms, topic) ==
  socket' = [s \in Sockets |-> IF socket[s].rooms \cap rooms # {} THEN [socket[s] EXCEPT !.heard = @ \cup {topic}]
                               ELSE socket[s]]
EmitToRole(role, topic) == Hears({RoleRoom(role)}, topic)
EmitToBranch(b) == Hears({BranchRoom(b)}, b)
EveryRoom == UNION {socket[s].rooms : s \in Sockets}

\* users:, roles: and branches: go to administrators; an announcement goes to
\* everybody, and so does an event that has no rule.
WrongEmit(topic) == Hears(EveryRoom, topic)  \* without the rule for administrators
Emit(topic) == IF topic = "users" THEN EmitToRole("Admin", topic) ELSE Hears(EveryRoom, topic)
EmitToPublicTable(t) == Hears({PublicTableRoom(t)}, t)

EmitAny ==
  /\ \/ \E topic \in Topics : Emit(topic)
     \/ \E b \in Branches : EmitToBranch(b)
     \/ \E t \in TableRooms : EmitToPublicTable(t)
  /\ UNCHANGED <<member, session>> /\ Apart

----------------------------------------------------------------------------
(* What changes around it: sign-in, the copy growing old, an edit of a user. *)

SessionChanges(u) ==
  /\ \/ /\ ~session[u].there /\ member[u].use
        /\ session' = [session EXCEPT ![u] = [there |-> TRUE, fresh |-> TRUE, row |-> member[u]]]
     \/ session[u].fresh /\ session' = [session EXCEPT ![u].fresh = FALSE]
  /\ UNCHANGED <<member, socket>> /\ Apart

EditMember(u) ==
  /\ \E role \in Ranks, use \in BOOLEAN :
       member[u] # [role |-> role, use |-> use] /\ member' = [member EXCEPT ![u] = [role |-> role, use |-> use]]
  /\ UNCHANGED <<session, socket>> /\ Apart

----------------------------------------------------------------------------
(* The Redis adapter.                                                       *)

Rest == UNCHANGED <<member, session, socket>>
Adapts(record) == adapter' = record
\* refreshRedisAdapterReadyState, called by every listener
ReadyState(a) == [a EXCEPT !.ready = (a.pub = "ready" /\ a.sub = "ready")]

\* Two new clients, unless an attempt is on the way or has succeeded.
InitRedisAdapter ==
  /\ ~adapter.started
  /\ adapter.timer \/ adapter.at = "off"
  /\ Adapts([NoAdapter EXCEPT !.at = "connecting", !.started = TRUE, !.pub = "connecting", !.sub = "connecting"])
  /\ Rest /\ UNCHANGED redis

\* A client becomes ready; one that lost Redis tries again by itself.
ClientReady(c) ==
  /\ adapter[c] = "connecting" /\ redis.up
  /\ Adapts(ReadyState([adapter EXCEPT ![c] = "ready"]))
  /\ Rest /\ UNCHANGED redis

\* Promise.all of the two connects.
BothConnected ==
  /\ adapter.at = "connecting" /\ \A c \in Clients : adapter[c] = "ready"
  /\ Adapts([adapter EXCEPT !.at = "on", !.ready = TRUE])
  /\ Rest /\ UNCHANGED redis

\* Redis is down, or went down before one of the clients was ready.
Failing == adapter.at = "breaking" \/ (adapter.at = "connecting" /\ ~redis.up)

\* The first connect that fails: the clients go, and a timer will start over.
WrongConnectFails ==  \* the flag of the attempt is not taken back
  /\ Failing
  /\ Adapts([NoAdapter EXCEPT !.at = "failed", !.timer = TRUE, !.started = TRUE])
  /\ Rest /\ UNCHANGED redis
ConnectFails ==
  /\ Failing
  /\ Adapts([NoAdapter EXCEPT !.at = "failed", !.timer = TRUE])
  /\ Rest /\ UNCHANGED redis

\* Redis goes down: a client that was connected starts to reconnect.
GoDown ==
  /\ redis.up /\ redis.left > 0
  /\ redis' = [up |-> FALSE, left |-> redis.left - 1]
  /\ Adapts(ReadyState([adapter EXCEPT !.at = IF @ = "connecting" /\ (\E c \in Clients : adapter[c] # "ready")
                                              THEN "breaking" ELSE @,
                                      !.pub = IF @ = "ready" THEN "connecting" ELSE @,
                                      !.sub = IF @ = "ready" THEN "connecting" ELSE @]))
  /\ Rest
ComeUp == ~redis.up /\ redis' = [redis EXCEPT !.up = TRUE] /\ UNCHANGED adapter /\ Rest

----------------------------------------------------------------------------
NewMember == [role |-> "Admin", use |-> TRUE]

RealtimeInit ==
  /\ member = [u \in Members |-> NewMember]
  /\ session = [u \in Members |-> [there |-> FALSE, fresh |-> FALSE, row |-> NewMember]]
  /\ socket = [s \in Sockets |-> NoSocket]
  /\ redis = [up |-> TRUE, left |-> Outages]
  /\ adapter = NoAdapter

\* What the adapter does by itself.
AdapterSteps == InitRedisAdapter \/ (\E c \in Clients : ClientReady(c)) \/ BothConnected \/ ConnectFails

RealtimeNext ==
  \/ \E s \in Sockets : AuthPublicTable(s) \/ AuthUser(s) \/ JoinRooms(s) \/ Disconnect(s)
  \/ EmitAny \/ \E u \in Members : SessionChanges(u) \/ EditMember(u)
  \/ AdapterSteps \/ GoDown \/ ComeUp

RealtimeSpec == RealtimeInit /\ [][RealtimeNext]_realtimeVars /\ WF_realtimeVars(AdapterSteps)

----------------------------------------------------------------------------
(* Properties.                                                              *)

Row == [role: Ranks, use: BOOLEAN]
\* Users, sessions, sockets and the adapter have their types.
RealtimeTypeOK ==
  /\ member \in [Members -> Row]
  /\ session \in [Members -> [there: BOOLEAN, fresh: BOOLEAN, row: Row]]
  /\ \A s \in Sockets : DOMAIN socket[s] = DOMAIN NoSocket /\ socket[s].at \in {"closed", "joining", "open"}
  /\ redis \in [up: BOOLEAN, left: 0..Outages]
  /\ adapter \in [at: {"off", "connecting", "breaking", "on", "failed"}, pub: {"none", "connecting", "ready"},
                  sub: {"none", "connecting", "ready"}, ready: BOOLEAN, started: BOOLEAN, timer: BOOLEAN]

\* Only a socket that was admitted as an administrator's hears of users, roles
\* and branches; a user's hears of no branch but the one that it joined, and
\* one that a QR code admitted of no table but its own, and of no branch.
OnlyTheirs ==
  \A s \in Sockets :
    /\ "users" \in socket[s].heard => socket[s].role = "Admin"
    /\ socket[s].as \in TableRooms => socket[s].heard \subseteq {"system", "other", socket[s].as}
    /\ socket[s].heard \cap Branches \subseteq {socket[s].branch}

\* While Redis stays up, an adapter that was started comes to share the rooms: no
\* failed attempt and no outage leaves the process alone for good.
AdapterComesUp == (redis.up /\ adapter.at # "off") ~> (~redis.up \/ (adapter.at = "on" /\ adapter.ready))

\* The safety half of it: while Redis is up, an adapter that was started shares the
\* rooms, or one of its steps is to come: a client still connects, both have connected,
\* the attempt fails, or the timer starts the next one.
AdapterGoesOn ==
  redis.up /\ adapter.at # "off" /\ ~(adapter.at = "on" /\ adapter.ready) =>
    \/ \E c \in Clients : adapter[c] = "connecting"
    \/ adapter.at = "connecting" /\ \A c \in Clients : adapter[c] = "ready"
    \/ Failing
    \/ adapter.timer /\ ~adapter.started
=============================================================================

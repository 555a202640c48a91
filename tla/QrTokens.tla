------------------------------ MODULE QrTokens ------------------------------
(***************************************************************************)
(* The QR codes that open a table, or the counter, to customers            *)
(* (tables.service, takeawayQr.service and what they call).                *)
(*                                                                         *)
(* A code is drawn by a rotation, or by whoever looks for the code and     *)
(* finds none that is still good.  Reading, drawing and writing are        *)
(* statements of their own, so that two who look at once both draw; and    *)
(* two who find the branch without a profile both make one.                *)
(* Wrong... definitions are mutations of the definition after them.        *)
(***************************************************************************)
EXTENDS Naturals, FiniteSets

CONSTANTS
  Doors,     \* the tables, and the counter
  Counters,  \* the counter of takeaway customers: the rows that shop_profile may get for the branch
  Codes,     \* the tokens that may be drawn
  Askers     \* the concurrent requests

ASSUME QrSets == Counters \subseteq Doors /\ "none" \notin Codes \cup Doors

VARIABLES
  door,   \* the row of each door
  spent,  \* history: the codes that were replaced, or that went with their table
  asker   \* where each request is

qrVars == <<door, spent, asker>>

NoDoor  == [there |-> FALSE, code |-> "none", old |-> FALSE, open |-> FALSE]
\* A table that was deleted; another one will have another id.
Removed == [NoDoor EXCEPT !.old = TRUE]
NoAsker == [at |-> "idle", on |-> "none", todo |-> {}, code |-> "none", row |-> NoDoor,
            answer |-> {}, dead |-> {}]

Tables  == Doors \ Counters
\* The profiles of the branch, any of which a look-up by branch may find.
Profiles == {d \in Counters : door[d].there}
\* Codes are random: what was drawn once is not drawn again.
Drawn   == spent \cup {door[d].code : d \in Doors} \cup {asker[w].code : w \in Askers}
\* isQrTokenExpired, isExpired
Good(d) == door[d].code # "none" /\ ~door[d].old

Moves(w, record) == asker' = [asker EXCEPT ![w] = record]
Leaves(w) == Moves(w, NoAsker)
Begins(w, record) == asker[w].at = "idle" /\ Moves(w, [record EXCEPT !.dead = spent])
Draws(d, rest, answer) == [NoAsker EXCEPT !.at = "draw", !.on = d, !.todo = rest, !.answer = answer]
Answers(codes) == [NoAsker EXCEPT !.at = "answered", !.answer = codes]

----------------------------------------------------------------------------
(* Looking for a code.                                                      *)

EnsureQrToken(w, d) ==
  /\ door[d].there
  /\ Begins(w, IF Good(d) THEN Answers({door[d].code}) ELSE Draws(d, {}, {}))
  /\ UNCHANGED <<door, spent>>

RotateQrToken(w, d) ==
  /\ door[d].there
  /\ Begins(w, Draws(d, {}, {}))
  /\ UNCHANGED <<door, spent>>

\* One list, then a rotation in turn for each row that needs it.
FindAllWithQrCodes(w) ==
  LET listed  == {d \in Tables : door[d].there}
      lacking == {d \in listed : ~Good(d)}
      codes   == {door[d].code : d \in listed \ lacking} IN
  /\ \/ lacking = {} /\ Begins(w, Answers(codes))
     \/ \E d \in lacking : Begins(w, Draws(d, lacking \ {d}, codes))
  /\ UNCHANGED <<door, spent>>

\* getOrCreateProfile finds no profile.
GetOrCreateProfile(w) ==
  /\ Profiles = {}
  /\ Begins(w, [NoAsker EXCEPT !.at = "make"])
  /\ UNCHANGED <<door, spent>>

\* createOrUpdate looks again: it finds a profile by now, or it saves a new one,
\* which no index keeps it from doing when another has come in between.
CreateOrUpdate(w) ==
  LET k == asker[w] IN
  /\ k.at = "make"
  /\ \E d \in Counters :
       /\ door' = IF d \in Profiles THEN door
                  ELSE [door EXCEPT ![d] = [NoDoor EXCEPT !.there = TRUE, !.open = TRUE]]
       /\ \/ Leaves(w)
          \/ Moves(w, [Draws(d, {}, {}) EXCEPT !.dead = k.dead])
          \/ Good(d) /\ Moves(w, [Answers({door[d].code}) EXCEPT !.dead = k.dead])
  /\ UNCHANGED spent

----------------------------------------------------------------------------
(* rotateQrTokenInternal.                                                   *)

\* A code that no row has, in at most eight attempts.
GenerateUniqueQrToken(w) ==
  /\ asker[w].at = "draw"
  /\ IF ~door[asker[w].on].there \/ Codes \subseteq Drawn THEN Leaves(w)
     ELSE \E c \in Codes \ Drawn : Moves(w, [asker[w] EXCEPT !.at = "write", !.code = c])
  /\ UNCHANGED <<door, spent>>

Retired(d) == spent \cup ({door[d].code} \ {"none"})

\* UPDATE of the two columns, which changes nothing when the table is gone; a
\* profile is looked up again for it, and may be another one than before.
UpdateQrToken(w) ==
  LET k == asker[w] IN
  /\ k.at = "write"
  /\ \E d \in IF k.on \in Counters THEN Profiles ELSE {k.on} :
       /\ IF ~door[d].there THEN UNCHANGED <<door, spent>>
          ELSE /\ door' = [door EXCEPT ![d].code = k.code, ![d].old = FALSE]
               /\ spent' = Retired(d)
       /\ Moves(w, [k EXCEPT !.at = "reread", !.on = d, !.code = "none"])

\* The row is read again: what is handed out may be the code of a later rotation.
Reread(w) ==
  LET k     == asker[w]
      codes == k.answer \cup {door[k.on].code} IN
  /\ k.at = "reread"
  /\ IF ~door[k.on].there THEN Leaves(w)
     ELSE \/ k.todo = {} /\ Moves(w, [Answers(codes) EXCEPT !.dead = k.dead])
          \/ \E d \in k.todo : Moves(w, [Draws(d, k.todo \ {d}, codes) EXCEPT !.dead = k.dead])
  /\ UNCHANGED <<door, spent>>

Hear(w) == asker[w].at = "answered" /\ Leaves(w) /\ UNCHANGED <<door, spent>>

----------------------------------------------------------------------------
(* The tables themselves.                                                   *)

CreateTable ==
  \E d \in Tables, c \in Codes \ Drawn :
    /\ door[d] = NoDoor
    /\ door' = [door EXCEPT ![d] = [there |-> TRUE, code |-> c, old |-> FALSE, open |-> TRUE]]
    /\ UNCHANGED <<spent, asker>>

FindTable(w, d) ==
  /\ d \in Tables /\ door[d].there
  /\ \E at \in {"edit", "count"} :
       Begins(w, [NoAsker EXCEPT !.at = at, !.on = d, !.row = door[d]])
  /\ UNCHANGED <<door, spent>>

\* UPDATE of what was sent; the controller has taken the code out of that.
WrongUpdateTable(w) ==  \* save() of the row that was found
  LET k == asker[w] IN
  /\ k.at = "edit"
  /\ \E open \in BOOLEAN : door' = [door EXCEPT ![k.on] = [k.row EXCEPT !.open = open]]
  /\ Leaves(w)
  /\ UNCHANGED spent
UpdateTable(w) ==
  LET k == asker[w] IN
  /\ k.at = "edit"
  /\ \E open \in BOOLEAN : door' = IF door[k.on].there THEN [door EXCEPT ![k.on].open = open] ELSE door
  /\ Leaves(w)
  /\ UNCHANGED spent

\* A table that orders refer to is kept: by the count, or by the foreign key.
DeleteTable(w) ==
  LET k == asker[w] IN
  /\ k.at = "count"
  /\ \E referred \in BOOLEAN :
       IF referred THEN UNCHANGED <<door, spent>>
       ELSE door' = [door EXCEPT ![k.on] = Removed] /\ spent' = Retired(k.on)
  /\ Leaves(w)

Expire(d) ==
  /\ Good(d)
  /\ door' = [door EXCEPT ![d].old = TRUE]
  /\ UNCHANGED <<spent, asker>>

QrInit ==
  /\ door = [d \in Doors |-> NoDoor]
  /\ spent = {}
  /\ asker = [w \in Askers |-> NoAsker]

QrNext ==
  \/ CreateTable \/ \E d \in Doors : Expire(d)
  \/ \E w \in Askers :
       \/ GetOrCreateProfile(w) \/ CreateOrUpdate(w) \/ FindAllWithQrCodes(w)
       \/ GenerateUniqueQrToken(w) \/ UpdateQrToken(w) \/ Reread(w) \/ Hear(w) \/ UpdateTable(w) \/ DeleteTable(w)
       \/ \E d \in Doors : EnsureQrToken(w, d) \/ RotateQrToken(w, d) \/ FindTable(w, d)

QrSpec == QrInit /\ [][QrNext]_qrVars

----------------------------------------------------------------------------
(* Properties.                                                              *)

DoorRecord == [there: BOOLEAN, code: Codes \cup {"none"}, old: BOOLEAN, open: BOOLEAN]
AskerRecord == [at: {"idle", "make", "draw", "write", "reread", "answered", "edit", "count"},
                on: Doors \cup {"none"}, todo: SUBSET Doors, code: Codes \cup {"none"},
                row: DoorRecord, answer: SUBSET Codes, dead: SUBSET Codes]

\* Rows and requests have their types.
QrTypeOK ==
  /\ door \in [Doors -> DoorRecord]
  /\ spent \subseteq Codes
  /\ asker \in [Askers -> AskerRecord]

\* findOneByQrTokenPublic
Opens(c) == {d \in Doors : door[d].there /\ door[d].open /\ Good(d) /\ door[d].code = c}

\* A code opens one door at most; one that a rotation replaced never opens a
\* door again, whatever an edit had read before; and nobody is handed a code
\* that was dead already when they asked.
DeadStaysDead ==
  /\ \A c \in Codes : Cardinality(Opens(c)) <= 1
  /\ \A c \in spent : Opens(c) = {}
  /\ \A w \in Askers : asker[w].at = "answered" => asker[w].answer \cap asker[w].dead = {}
=============================================================================

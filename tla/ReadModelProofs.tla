-------------------------- MODULE ReadModelProofs --------------------------
(***************************************************************************)
(* Theorems about ReadModel for any number of processes, readers and       *)
(* changes, with and without copies in Redis.                              *)
(***************************************************************************)
EXTENDS ReadModel, FiniteSetTheorems, TLAPS

(***************************************************************************)
(* What the steps of readers, and of time, leave alone.                    *)
(***************************************************************************)
Other(p) == TokenReply(p) \/ ExpireLocal(p)
Expires == (\E p \in Processes, v \in Versions : ExpireCopy(p, v)) \/ \E v \in Versions : ExpireShared(v)

LEMMA ReadsOnly ==
    ASSUME NEW r \in Readers, Read(r)
    PROVE  UNCHANGED <<db, version, made, at, home, early, local>>
<1>1. CASE ReadToken(r) \/ Look(r) \/ LookShared(r)
  BY <1>1 DEF ReadToken, Look, LookShared, writing
<1>2. CASE Hit(r) \/ Miss(r) \/ Fetch(r)
  BY <1>2 DEF Hit, Miss, Fetch, writing
<1>3. CASE Store(r) \/ Share(r) \/ ReadFails(r)
  BY <1>3 DEF Store, Share, ReadFails, writing
<1> QED
  BY <1>1, <1>2, <1>3 DEF Read

LEMMA ExpiresOnly ==
    ASSUME Expires
    PROVE  UNCHANGED <<db, version, made, at, home, early, local, link, pc, seen, missed>>
BY DEF Expires, ExpireCopy, ExpireShared, writing

LEMMA NextCases ==
    ASSUME Next
    PROVE  \/ \E r \in Readers : Read(r)
           \/ \E w \in Writes : Write(w)
           \/ \E p \in Processes : Other(p)
           \/ \E p \in Processes : BumpReply(p)
           \/ \E p \in Processes : LinkBreaks(p)
           \/ \E p \in Processes : Crash(p)
           \/ Expires
BY DEF Next, Other, Expires

LEMMA Numbers ==
    /\ Cardinality(Writes) \in Nat
    /\ \A v \in Versions : v \in Nat /\ v # None
    /\ 0 \in Versions
BY FewWrites, FS_CardinalityType, NoneIsNothing DEF Versions
-----------------------------------------------------------------------------
(***************************************************************************)
(* The changes.                                                            *)
(***************************************************************************)
\* The versions count the changes.
LEMMA CountNext ==
    ASSUME IInv, Next
    PROVE  version' \in Versions /\ version' = Cardinality(Counted')
<1>t. /\ TypeOK /\ version = Cardinality(Counted) /\ \A w \in Writes : Written(w)
      /\ IsFiniteSet(Counted)
  BY FewWrites, FS_Subset DEF IInv, Counted
<1>1. CASE UNCHANGED <<version, made>>
  BY <1>t, <1>1 DEF TypeOK, Counted
<1>2. ASSUME NEW w \in Writes, Bump(w) PROVE version' \in Versions /\ version' = Cardinality(Counted')
  <2>1. w \notin Counted /\ version' = version + 1 /\ made' = [made EXCEPT ![w] = version + 1]
    BY <1>t, <1>2 DEF Bump, Written, Counted
  <2>2. Counted' = Counted \cup {w}
    BY <1>t, <2>1, Numbers DEF TypeOK, Counted, Versions
  <2>3. Cardinality(Counted') = version + 1
    BY <1>t, <2>1, <2>2, FS_AddElement
  <2>4. IsFiniteSet(Counted') /\ Counted' \subseteq Writes
    BY FewWrites, FS_Subset DEF Counted
  <2>5. Cardinality(Counted') <= Cardinality(Writes)
    BY <2>4, FewWrites, FS_Subset
  <2> QED
    BY <1>t, <2>1, <2>3, <2>5, Numbers DEF TypeOK, Versions
<1>3. ASSUME NEW w \in Writes, Write(w), ~Bump(w) PROVE UNCHANGED <<version, made>>
  BY <1>3 DEF Write, Commit, Begin, BumpFails, Invalidate, CommitLate
<1>4. ASSUME NEW p \in Processes, Other(p) \/ BumpReply(p) PROVE UNCHANGED <<version, made>>
  BY <1>4 DEF Other, TokenReply, ExpireLocal, BumpReply, writing
<1>5. ASSUME NEW p \in Processes, LinkBreaks(p) \/ Crash(p) PROVE UNCHANGED <<version, made>>
  BY <1>5 DEF LinkBreaks, Crash
<1> QED
  BY <1>1, <1>2, <1>3, <1>4, <1>5, NextCases, ReadsOnly, ExpiresOnly

\* A change that no step touches, in a database that only grows.
LEMMA WrittenStays ==
    ASSUME NEW x \in Writes, Written(x), made'[x] = made[x], at'[x] = at[x], home'[x] = home[x],
           x \in early' <=> x \in early, db \subseteq db'
    PROVE  Written(x)'
BY DEF Written

LEMMA WrittenNext ==
    ASSUME IInv, Next, NEW x \in Writes
    PROVE  Written(x)'
<1>t. TypeOK /\ Written(x)
  BY DEF IInv
<1> USE DEF Phase
<1>1. ASSUME NEW w \in Writes, Commit(w) \/ Begin(w) PROVE Written(x)'
  <2>1. CASE x = w
    BY <1>t, <1>1, <2>1 DEF Commit, Begin, Written, TypeOK
  <2>2. CASE x # w
    BY <1>t, <1>1, <2>2, WrittenStays DEF Commit, Begin, TypeOK
  <2> QED
    BY <2>1, <2>2
<1>2. ASSUME NEW w \in Writes, Bump(w) \/ BumpFails(w) PROVE Written(x)'
  <2>1. CASE x = w
    BY <1>t, <1>2, <2>1, Numbers DEF Bump, BumpFails, Written, TypeOK, Versions
  <2>2. CASE x # w
    BY <1>t, <1>2, <2>2, WrittenStays DEF Bump, BumpFails, TypeOK
  <2> QED
    BY <2>1, <2>2
<1>3. ASSUME NEW w \in Writes, Invalidate(w) \/ CommitLate(w) PROVE Written(x)'
  <2>1. CASE x = w
    BY <1>t, <1>3, <2>1 DEF Invalidate, CommitLate, Written, TypeOK
  <2>2. CASE x # w
    BY <1>t, <1>3, <2>2, WrittenStays DEF Invalidate, CommitLate, TypeOK
  <2> QED
    BY <2>1, <2>2
<1>4. ASSUME NEW p \in Processes, Other(p) PROVE Written(x)'
  BY <1>t, <1>4, WrittenStays DEF Other, TokenReply, ExpireLocal, writing
<1>5. ASSUME NEW p \in Processes, BumpReply(p) PROVE Written(x)'
  <2>1. PICK w \in Writes : /\ link[p] # <<>> /\ Head(link[p]).for = w /\ at' = [at EXCEPT ![w] = "clear"]
                            /\ UNCHANGED <<db, version, made, home, early>>
    BY <1>5 DEF BumpReply
  <2>2. at[w] = "sent"
    <3>1. Linked(p) /\ link[p] \in Seq([for: {"token"} \cup Writes, version: Versions])
      BY <1>t DEF IInv, TypeOK
    <3>2. 1 \in 1 .. Len(link[p]) /\ link[p][1].for = w
      BY <2>1, <3>1
    <3> QED
      BY <3>1, <3>2 DEF Linked
  <2>3. CASE x = w
    BY <1>t, <2>1, <2>2, <2>3 DEF Written, TypeOK
  <2>4. CASE x # w
    BY <1>t, <2>1, <2>4, WrittenStays DEF TypeOK
  <2> QED
    BY <2>3, <2>4
<1>6. ASSUME NEW p \in Processes, LinkBreaks(p) PROVE Written(x)'
  <2>1. \A i \in 1 .. Len(link[p]) : link[p][i].for = x => at[x] = "sent"
    BY DEF IInv, Linked
  <2>2. at'[x] = at[x] \/ (at[x] = "sent" /\ at'[x] = "silent")
    BY <1>6, <2>1 DEF LinkBreaks
  <2> QED
    BY <1>t, <1>6, <2>2 DEF LinkBreaks, Written
<1>7. ASSUME NEW p \in Processes, Crash(p) PROVE Written(x)'
  <2>1. at'[x] = at[x] \/ (at[x] # "new" /\ at'[x] = "over")
    BY <1>t, <1>7, NoneIsNothing DEF Crash, Written
  <2> QED
    BY <1>t, <1>7, <2>1 DEF Crash, Written
<1>8. CASE UNCHANGED <<db, version, made, at, home, early>>
  BY <1>t, <1>8, WrittenStays
<1> QED
  BY <1>1, <1>2, <1>3, <1>4, <1>5, <1>6, <1>7, <1>8, NextCases, ReadsOnly, ExpiresOnly DEF Write

\* The versions that were made stay, and the next one is new.
LEMMA MadeNext ==
    ASSUME IInv, Next
    PROVE  /\ version <= version'
           /\ \A w \in Writes : /\ made'[w] <= version'
                                /\ made'[w] = made[w] \/ (made[w] = 0 /\ made'[w] > version)
                                /\ made[w] # 0 => (w \in early' <=> w \in early)
<1>t. TypeOK /\ \A w \in Writes : made[w] <= version /\ made[w] \in Nat /\ Written(w)
  BY Numbers DEF IInv, TypeOK
<1>v. version \in Nat
  BY <1>t, Numbers DEF TypeOK
<1>1. CASE UNCHANGED <<version, made, early>>
  BY <1>t, <1>v, <1>1
<1>2. ASSUME NEW w \in Writes, Commit(w) \/ Begin(w)
      PROVE  /\ UNCHANGED <<version, made>>
             /\ \A x \in Writes : made[x] # 0 => (x \in early' <=> x \in early)
  BY <1>t, <1>2 DEF Commit, Begin, Written
<1>3. ASSUME NEW w \in Writes, Bump(w)
      PROVE  /\ version' = version + 1 /\ UNCHANGED early /\ made[w] = 0
             /\ made' = [made EXCEPT ![w] = version + 1]
  BY <1>t, <1>3 DEF Bump, Written
<1>4. ASSUME NEW w \in Writes, BumpFails(w) \/ Invalidate(w) \/ CommitLate(w)
      PROVE  UNCHANGED <<version, made, early>>
  BY <1>4 DEF BumpFails, Invalidate, CommitLate
<1>5. ASSUME NEW p \in Processes, Other(p) \/ BumpReply(p) PROVE UNCHANGED <<version, made, early>>
  BY <1>5 DEF Other, TokenReply, ExpireLocal, BumpReply, writing
<1>6. ASSUME NEW p \in Processes, LinkBreaks(p) \/ Crash(p) PROVE UNCHANGED <<version, made, early>>
  BY <1>6 DEF LinkBreaks, Crash
<1>7. ASSUME NEW w \in Writes, Bump(w)
      PROVE  /\ version <= version'
             /\ \A x \in Writes : /\ made'[x] <= version'
                                  /\ made'[x] = made[x] \/ (made[x] = 0 /\ made'[x] > version)
                                  /\ made[x] # 0 => (x \in early' <=> x \in early)
  BY <1>t, <1>v, <1>3, <1>7 DEF TypeOK
<1>8. ASSUME NEW w \in Writes, Commit(w) \/ Begin(w)
      PROVE  /\ version <= version'
             /\ \A x \in Writes : /\ made'[x] <= version'
                                  /\ made'[x] = made[x] \/ (made[x] = 0 /\ made'[x] > version)
                                  /\ made[x] # 0 => (x \in early' <=> x \in early)
  BY <1>t, <1>v, <1>2, <1>8
<1> QED
  BY <1>1, <1>4, <1>5, <1>6, <1>7, <1>8, NextCases, ReadsOnly, ExpiresOnly DEF Write

\* What a version promises does not change once it is made, and is in the database.
LEMMA PromisedStays ==
    ASSUME IInv, Next, NEW v \in Versions, v <= version
    PROVE  Promised(v)' = Promised(v)
<1>1. version \in Nat /\ v \in Nat /\ \A w \in Writes : made[w] \in Nat
  BY Numbers DEF IInv, TypeOK
<1>2. \A w \in Writes : made'[w] \in 1 .. v <=> made[w] \in 1 .. v
  BY <1>1, MadeNext
<1>3. \A w \in Writes : made[w] \in 1 .. v => (w \in early' <=> w \in early)
  BY <1>1, MadeNext
<1> QED
  BY <1>2, <1>3 DEF Promised

LEMMA PromisedInDb ==
    ASSUME IInv, NEW v \in Versions
    PROVE  Promised(v) \subseteq db
<1>1. \A w \in Writes : made[w] # 0 /\ w \notin early => w \in db
  BY DEF IInv, Written
<1> QED
  BY <1>1 DEF Promised
-----------------------------------------------------------------------------
(***************************************************************************)
(* The copies.                                                             *)
(***************************************************************************)
\* A reader that has an answer in hand.
Brings(r, v, x) == pc[r] \in {"hit", "store", "share"} /\ Version(r) = v /\ x = seen[r].writes

LEMMA RequestOf ==
    ASSUME IInv, NEW r \in Readers, pc[r] # "idle"
    PROVE  /\ seen[r] \in Requests /\ Proc(r) \in Processes /\ Version(r) \in Versions
           /\ seen[r].writes \in States /\ seen[r].due \in States
BY DEF IInv, Reading, Requests, Proc, Version

\* Copies are there before, or are what a reader has in hand.
LEMMA SharedFrom ==
    ASSUME IInv, Next, NEW v \in Versions
    PROVE  shared'[v] \in {shared[v], None} \/ \E r \in Readers : Brings(r, v, shared'[v])
<1>t. TypeOK
  BY DEF IInv
<1>1. CASE UNCHANGED shared
  BY <1>1
<1>2. ASSUME NEW r \in Readers, Share(r) PROVE shared'[v] = shared[v] \/ Brings(r, v, shared'[v])
  BY <1>t, <1>2 DEF Share, Brings, TypeOK, Copies
<1>3. ASSUME NEW r \in Readers, Read(r), ~Share(r) PROVE UNCHANGED shared
  <2>1. CASE ReadToken(r) \/ Look(r) \/ LookShared(r) \/ Hit(r)
    BY <2>1 DEF ReadToken, Look, LookShared, Hit
  <2>2. CASE Miss(r) \/ Fetch(r) \/ Store(r) \/ ReadFails(r)
    BY <2>2 DEF Miss, Fetch, Store, ReadFails
  <2> QED
    BY <1>3, <2>1, <2>2 DEF Read
<1>4. ASSUME NEW w \in Writes, Write(w) PROVE UNCHANGED shared
  <2>1. CASE Commit(w) \/ Begin(w) \/ Bump(w)
    BY <2>1 DEF Commit, Begin, Bump
  <2>2. CASE BumpFails(w) \/ Invalidate(w) \/ CommitLate(w)
    BY <2>2 DEF BumpFails, Invalidate, CommitLate
  <2> QED
    BY <1>4, <2>1, <2>2 DEF Write
<1>5. ASSUME NEW p \in Processes, Other(p) \/ BumpReply(p) PROVE UNCHANGED shared
  BY <1>5 DEF Other, TokenReply, ExpireLocal, BumpReply
<1>6. ASSUME NEW p \in Processes, LinkBreaks(p) \/ Crash(p) PROVE UNCHANGED shared
  BY <1>6 DEF LinkBreaks, Crash
<1>7. CASE Expires
  BY <1>t, <1>7 DEF Expires, ExpireCopy, ExpireShared, TypeOK, Copies
<1> QED
  BY <1>1, <1>2, <1>3, <1>4, <1>5, <1>6, <1>7, NextCases

LEMMA CopyFrom ==
    ASSUME IInv, Next, NEW p \in Processes, NEW v \in Versions
    PROVE  copy'[p][v] \in {copy[p][v], None} \/ \E r \in Readers : Brings(r, v, copy'[p][v])
<1>t. TypeOK
  BY DEF IInv
<1>1. CASE UNCHANGED copy
  BY <1>1
<1>2. ASSUME NEW r \in Readers, Hit(r) \/ Store(r)
      PROVE  copy'[p][v] = copy[p][v] \/ Brings(r, v, copy'[p][v])
  <2> DEFINE x == seen[r].writes
  <2>1. pc[r] \in {"hit", "store"} /\ copy' = [copy EXCEPT ![Proc(r)][Version(r)] = x]
    BY <1>2 DEF Hit, Store
  <2>2. copy[p] \in Copies
    BY <1>t DEF TypeOK
  <2> HIDE DEF x
  <2>3. copy'[p] = copy[p] \/ copy'[p] = [copy[p] EXCEPT ![Version(r)] = x]
    BY <1>t, <2>1 DEF TypeOK
  <2>4. copy'[p][v] = copy[p][v] \/ (v = Version(r) /\ copy'[p][v] = x)
    BY <2>2, <2>3 DEF Copies
  <2> QED
    BY <2>1, <2>4 DEF Brings, x
<1>3. ASSUME NEW r \in Readers, Read(r), ~(Hit(r) \/ Store(r)) PROVE UNCHANGED copy
  <2>1. CASE ReadToken(r) \/ Look(r) \/ LookShared(r)
    BY <2>1 DEF ReadToken, Look, LookShared
  <2>2. CASE Miss(r) \/ Fetch(r) \/ Share(r) \/ ReadFails(r)
    BY <2>2 DEF Miss, Fetch, Share, ReadFails
  <2> QED
    BY <1>3, <2>1, <2>2 DEF Read
<1>4. ASSUME NEW w \in Writes, Write(w) PROVE copy'[p][v] \in {copy[p][v], None}
  <2>1. CASE Commit(w) \/ Begin(w) \/ Bump(w)
    BY <2>1 DEF Commit, Begin, Bump
  <2>2. CASE BumpFails(w) \/ CommitLate(w)
    BY <2>2 DEF BumpFails, CommitLate
  <2>3. CASE Invalidate(w)
    BY <1>t, <2>3 DEF Invalidate, TypeOK, NoCopies
  <2> QED
    BY <1>4, <2>1, <2>2, <2>3 DEF Write
<1>5. ASSUME NEW q \in Processes, Other(q) \/ BumpReply(q) \/ LinkBreaks(q) PROVE UNCHANGED copy
  BY <1>5 DEF Other, TokenReply, ExpireLocal, BumpReply, LinkBreaks
<1>6. ASSUME NEW q \in Processes, Crash(q) PROVE copy'[p][v] \in {copy[p][v], None}
  BY <1>t, <1>6 DEF Crash, TypeOK, NoCopies
<1>7. ASSUME NEW q \in Processes, NEW u \in Versions, ExpireCopy(q, u)
      PROVE  copy'[p][v] \in {copy[p][v], None}
  <2>1. copy[p] \in Copies
    BY <1>t DEF TypeOK
  <2>2. copy'[p] = copy[p] \/ copy'[p] = [copy[p] EXCEPT ![u] = None]
    BY <1>t, <1>7 DEF TypeOK, ExpireCopy
  <2> QED
    BY <2>1, <2>2 DEF Copies
<1>8. ASSUME NEW u \in Versions, ExpireShared(u) PROVE UNCHANGED copy
  BY <1>8 DEF ExpireShared
<1> QED
  BY <1>1, <1>2, <1>3, <1>4, <1>5, <1>6, <1>7, <1>8, NextCases DEF Expires

LEMMA BringsFresh ==
    ASSUME IInv, NEW r \in Readers, NEW v \in Versions, NEW x, Brings(r, v, x)
    PROVE  x \in States /\ v <= version /\ Promised(v) \subseteq x
BY RequestOf DEF Brings, IInv, Reading

LEMMA FreshNext ==
    ASSUME IInv, Next
    PROVE  CopiesAreFresh' /\ NoFutureCopy'
<1>t. TypeOK /\ version \in Nat /\ version' \in Nat /\ version <= version'
  BY CountNext, MadeNext, Numbers DEF IInv, TypeOK
<1>1. ASSUME NEW v \in Versions, shared'[v] # None
      PROVE  v <= version /\ Promised(v)' \subseteq shared'[v]
  <2>1. CASE shared'[v] = shared[v]
    <3>1. v <= version
      BY <1>t, <1>1, <2>1, Numbers DEF IInv, NoFutureCopy
    <3> QED
      BY <1>1, <2>1, <3>1, PromisedStays DEF IInv, CopiesAreFresh
  <2>2. ASSUME NEW r \in Readers, Brings(r, v, shared'[v])
        PROVE  v <= version /\ Promised(v)' \subseteq shared'[v]
    BY <2>2, BringsFresh, PromisedStays
  <2> QED
    BY <1>1, <2>1, <2>2, SharedFrom
<1>2. ASSUME NEW p \in Processes, NEW v \in Versions, copy'[p][v] # None
      PROVE  v <= version /\ Promised(v)' \subseteq copy'[p][v]
  <2>1. CASE copy'[p][v] = copy[p][v]
    <3>1. v <= version
      BY <1>t, <1>2, <2>1, Numbers DEF IInv, NoFutureCopy
    <3> QED
      BY <1>2, <2>1, <3>1, PromisedStays DEF IInv, CopiesAreFresh
  <2>2. ASSUME NEW r \in Readers, Brings(r, v, copy'[p][v])
        PROVE  v <= version /\ Promised(v)' \subseteq copy'[p][v]
    BY <2>2, BringsFresh, PromisedStays
  <2> QED
    BY <1>2, <2>1, <2>2, CopyFrom
<1> QED
  BY <1>t, <1>1, <1>2, Numbers DEF CopiesAreFresh, NoFutureCopy
-----------------------------------------------------------------------------
(***************************************************************************)
(* The readers.                                                            *)
(***************************************************************************)
\* What was confirmed stays confirmed.
LEMMA ConfirmedStays ==
    ASSUME IInv, Next, NEW p \in Processes
    PROVE  Confirmed(p) \subseteq Confirmed(p)'
<1> SUFFICES ASSUME NEW x \in Writes, x \notin early, at[x] = "done"
             PROVE  at'[x] = "done" /\ home'[x] = home[x] /\ x \notin early'
  BY DEF Confirmed
<1>t. TypeOK /\ Written(x)
  BY DEF IInv
<1>0. x \notin early'
  <2>1. made[x] # 0
    BY <1>t DEF Written
  <2> QED
    BY <2>1, MadeNext
<1>1. ASSUME NEW w \in Writes, Write(w) PROVE at'[x] = "done" /\ home'[x] = home[x]
  <2>1. CASE Commit(w) \/ Begin(w)
    BY <1>t, <2>1 DEF Commit, Begin, Phase, TypeOK
  <2>2. CASE Bump(w) \/ BumpFails(w)
    BY <1>t, <2>2 DEF Bump, BumpFails, Phase, TypeOK
  <2>3. CASE Invalidate(w) \/ CommitLate(w)
    BY <1>t, <2>3 DEF Invalidate, CommitLate, Phase, TypeOK
  <2> QED
    BY <1>1, <2>1, <2>2, <2>3 DEF Write
<1>2. ASSUME NEW p2 \in Processes, Other(p2) PROVE UNCHANGED <<at, home>>
  BY <1>2 DEF Other, TokenReply, ExpireLocal, writing
<1>3. ASSUME NEW p2 \in Processes, BumpReply(p2) PROVE at'[x] = "done" /\ home'[x] = home[x]
  <2>1. PICK w \in Writes : /\ link[p2] # <<>> /\ Head(link[p2]).for = w
                            /\ at' = [at EXCEPT ![w] = "clear"] /\ UNCHANGED home
    BY <1>3 DEF BumpReply, Phase
  <2>2. Linked(p2) /\ link[p2] \in Seq([for: {"token"} \cup Writes, version: Versions])
    BY <1>t DEF IInv, TypeOK
  <2>3. 1 \in 1 .. Len(link[p2]) /\ link[p2][1].for = w
    BY <2>1, <2>2
  <2>4. at[w] = "sent"
    BY <2>2, <2>3 DEF Linked
  <2> QED
    BY <1>t, <2>1, <2>4 DEF TypeOK
<1>4. ASSUME NEW p2 \in Processes, LinkBreaks(p2) PROVE at'[x] = "done" /\ home'[x] = home[x]
  <2>1. \A i \in 1 .. Len(link[p2]) : link[p2][i].for # x
    BY DEF IInv, Linked
  <2> QED
    BY <1>4, <2>1 DEF LinkBreaks
<1>5. ASSUME NEW p2 \in Processes, Crash(p2) PROVE at'[x] = "done" /\ home'[x] = home[x]
  BY <1>5 DEF Crash
<1> QED
  BY <1>0, <1>1, <1>2, <1>3, <1>4, <1>5, NextCases, ReadsOnly, ExpiresOnly

\* What a request has stays what it is due.
LEMMA RequestKeeps ==
    ASSUME IInv, Next, NEW r \in Readers, pc[r] # "idle",
           NEW p, NEW v, p = Proc(r), v = Version(r)
    PROVE  /\ seen[r] \in Requests /\ p \in Processes /\ v \in Versions
           /\ seen[r].due \subseteq Confirmed(p)'
           /\ pc[r] # "token" => v <= version' /\ seen[r].due \subseteq Promised(v)'
           /\ pc[r] \in {"hit", "store", "share"} => Promised(v)' \subseteq seen[r].writes
<1>1. Reading(r) /\ p \in Processes /\ v \in Versions /\ seen[r] \in Requests
  BY RequestOf DEF IInv
<1>2. Confirmed(p) \subseteq Confirmed(p)'
  BY <1>1, ConfirmedStays
<1>3. version \in Nat /\ version' \in Nat /\ version <= version' /\ v \in Nat
  BY <1>1, CountNext, MadeNext, Numbers DEF IInv, TypeOK
<1>4. pc[r] # "token" => v <= version /\ Promised(v)' = Promised(v)
  BY <1>1, PromisedStays DEF Reading
<1> QED
  BY <1>1, <1>2, <1>3, <1>4 DEF Reading

LEMMA ReadingIs ==
    ASSUME NEW r \in Readers, NEW p, NEW v,
           seen'[r] \in Requests, seen'[r].proc = p, seen'[r].version = v,
           seen'[r].due \subseteq Confirmed(p)',
           pc'[r] # "token" => v <= version' /\ seen'[r].due \subseteq Promised(v)',
           pc'[r] \in {"hit", "store", "share"} => Promised(v)' \subseteq seen'[r].writes
    PROVE  Reading(r)'
BY DEF Reading, Proc, Version, Confirmed, Promised

\* A request that ends, or goes on with what it has.
Keeps(r) ==
    \/ pc'[r] = "idle"
    \/ /\ seen'[r] = seen[r] /\ pc[r] # "idle"
       /\ pc[r] = "token" => pc'[r] = "token"
       /\ pc'[r] \in {"hit", "store", "share"} => pc[r] \in {"hit", "store", "share"}

LEMMA ReadingKeeps ==
    ASSUME IInv, Next, NEW r \in Readers, Keeps(r)
    PROVE  Reading(r)'
<1>1. CASE pc'[r] = "idle"
  BY <1>1 DEF Reading
<1>2. CASE pc'[r] # "idle"
  <2>1. PICK p, v : p = Proc(r) /\ v = Version(r)
    OBVIOUS
  <2>2. seen'[r] = seen[r] /\ seen'[r].proc = p /\ seen'[r].version = v
    BY <1>2, <2>1 DEF Keeps, Proc, Version
  <2>3. pc[r] # "idle" /\ (pc[r] = "token" => pc'[r] = "token")
        /\ (pc'[r] \in {"hit", "store", "share"} => pc[r] \in {"hit", "store", "share"})
    BY <1>2 DEF Keeps
  <2> QED
    BY <2>1, <2>2, <2>3, RequestKeeps, ReadingIs
<1> QED
  BY <1>1, <1>2

Replies == [for: {"token"} \cup Writes, version: Versions]

\* The replies on their way.
LEMMA LinkIs ==
    ASSUME TypeOK, NEW p \in Processes
    PROVE  /\ link[p] \in Seq(Replies) /\ Len(link[p]) \in Nat
           /\ \A i \in 1 .. Len(link[p]) : link[p][i] \in Replies /\ link[p][i].version \in Versions
           /\ link[p] # <<>> => 1 \in 1 .. Len(link[p]) /\ Head(link[p]) = link[p][1]
<1>1. link[p] \in Seq(Replies)
  BY DEF TypeOK, Replies
<1>2. Len(link[p]) \in Nat /\ \A i \in 1 .. Len(link[p]) : link[p][i] \in Replies
  BY <1>1
<1>3. \A x \in Replies : x.version \in Versions
  BY DEF Replies
<1>4. link[p] # <<>> => 1 \in 1 .. Len(link[p]) /\ Head(link[p]) = link[p][1]
  BY <1>1
<1> QED
  BY <1>1, <1>2, <1>3, <1>4

\* Every version that a process remembers, or is told, promises what it confirmed.
LEMMA ConfirmedPromised ==
    ASSUME IInv, NEW p \in Processes
    PROVE  /\ local[p] # None => Confirmed(p) \subseteq Promised(local[p])
           /\ \A i \in 1 .. Len(link[p]) : Confirmed(p) \subseteq Promised(link[p][i].version)
<1>1. \A w \in Confirmed(p) : w \in Writes \ early /\ made[w] \in Nat /\ made[w] # 0
                              /\ at[w] = "done" /\ home[w] = p
  BY Numbers DEF IInv, TypeOK, Confirmed, Written
<1>2. Linked(p) /\ local[p] \in {None} \cup Versions
      /\ \A i \in 1 .. Len(link[p]) : link[p][i].version \in Versions
  BY LinkIs DEF IInv, TypeOK
<1>3. ASSUME NEW v \in Versions, \A w \in Confirmed(p) : made[w] <= v PROVE Confirmed(p) \subseteq Promised(v)
  BY <1>1, <1>3, Numbers DEF Promised
<1>4. ASSUME local[p] # None PROVE Confirmed(p) \subseteq Promised(local[p])
  BY <1>1, <1>2, <1>3, <1>4 DEF Linked
<1>5. ASSUME NEW i \in 1 .. Len(link[p]) PROVE Confirmed(p) \subseteq Promised(link[p][i].version)
  BY <1>1, <1>2, <1>3, <1>5 DEF Linked
<1> QED
  BY <1>4, <1>5

LEMMA ReadingNext ==
    ASSUME IInv, Next, NEW x \in Readers
    PROVE  Reading(x)'
<1>t. TypeOK
  BY DEF IInv
<1>0. CASE UNCHANGED <<pc, seen>>
  BY <1>0, ReadingKeeps DEF Keeps
<1>1. ASSUME NEW r \in Readers, ReadToken(r) PROVE Reading(x)'
  <2>1. CASE x # r
    BY <1>t, <1>1, <2>1, ReadingKeeps DEF ReadToken, Go, Keeps, TypeOK
  <2>2. CASE x = r
    <3>1. PICK p \in Processes :
             /\ seen' = [seen EXCEPT ![x] =
                           [proc |-> p, version |-> IF local[p] = None THEN 0 ELSE local[p],
                            writes |-> {}, due |-> Confirmed(p)]]
             /\ pc' = [pc EXCEPT ![x] = IF local[p] = None THEN "token" ELSE "look"]
             /\ UNCHANGED <<version, made, at, home, early>>
      BY <1>1, <2>2 DEF ReadToken, Go, writing
    <3>2. PICK v \in Versions : v = IF local[p] = None THEN 0 ELSE local[p]
      BY <1>t, Numbers DEF TypeOK
    <3>3. seen'[x] = [proc |-> p, version |-> v, writes |-> {}, due |-> Confirmed(p)]
      BY <1>t, <3>1, <3>2 DEF TypeOK
    <3>4. pc'[x] \in {"token", "look"} /\ (pc'[x] # "token" => local[p] # None /\ v = local[p])
      BY <1>t, <3>1, <3>2 DEF TypeOK
    <3>5. Confirmed(p)' = Confirmed(p) /\ Promised(v)' = Promised(v)
      BY <3>1 DEF Confirmed, Promised
    <3>6. local[p] # None => local[p] <= version /\ Confirmed(p) \subseteq Promised(local[p])
      BY ConfirmedPromised DEF IInv, Linked
    <3>7. seen'[x] \in Requests
      BY <3>3 DEF Requests, States, Confirmed
    <3>8. pc'[x] # "token" => v <= version' /\ seen'[x].due \subseteq Promised(v)'
      BY <3>1, <3>3, <3>4, <3>5, <3>6
    <3> QED
      BY <3>3, <3>4, <3>5, <3>7, <3>8, ReadingIs
  <2> QED
    BY <2>1, <2>2
<1>2. ASSUME NEW r \in Readers, Look(r) \/ Hit(r) PROVE Reading(x)'
  BY <1>t, <1>2, ReadingKeeps DEF Look, Hit, Go, Tell, Drop, Keeps, TypeOK
<1>3. ASSUME NEW r \in Readers, LookShared(r) PROVE Reading(x)'
  <2>1. CASE x # r
    BY <1>t, <1>3, <2>1, ReadingKeeps DEF LookShared, Go, Holds, Keeps, TypeOK
  <2>2. CASE x = r /\ shared[Version(r)] = None
    BY <1>t, <1>3, <2>2, ReadingKeeps DEF LookShared, Go, Keeps, TypeOK
  <2>3. CASE x = r /\ shared[Version(r)] # None
    <3>1. PICK p, v : p = Proc(x) /\ v = Version(x)
      OBVIOUS
    <3>2. pc[x] = "shared" /\ shared[v] # None
          /\ seen' = [seen EXCEPT ![x].writes = shared[v]] /\ pc' = [pc EXCEPT ![x] = "hit"]
          /\ UNCHANGED <<version, made, early>>
      BY <1>3, <2>3, <3>1 DEF LookShared, Go, Holds, writing
    <3>3. /\ seen[x] \in Requests /\ v \in Versions /\ seen[x].due \subseteq Confirmed(p)'
          /\ v <= version' /\ seen[x].due \subseteq Promised(v)'
      BY <3>1, <3>2, RequestKeeps
    <3>4. Promised(v)' \subseteq shared[v] /\ shared[v] \in States
      BY <1>t, <3>2, <3>3 DEF IInv, CopiesAreFresh, Promised, TypeOK, Copies
    <3>5. seen'[x] = [seen[x] EXCEPT !.writes = shared[v]] /\ pc'[x] = "hit"
      BY <1>t, <3>2 DEF TypeOK
    <3>6. seen'[x] \in Requests /\ seen'[x].proc = p /\ seen'[x].version = v
          /\ seen'[x].due = seen[x].due /\ seen'[x].writes = shared[v]
      BY <3>1, <3>3, <3>4, <3>5 DEF Requests, Proc, Version
    <3> QED
      BY <3>3, <3>4, <3>5, <3>6, ReadingIs
  <2> QED
    BY <2>1, <2>2, <2>3
<1>4. ASSUME NEW r \in Readers, Miss(r) PROVE Reading(x)'
  BY <1>t, <1>4, ReadingKeeps DEF Miss, Go, Keeps, TypeOK
<1>5. ASSUME NEW r \in Readers, Fetch(r) PROVE Reading(x)'
  <2>1. CASE x # r
    BY <1>t, <1>5, <2>1, ReadingKeeps DEF Fetch, Go, Holds, Keeps, TypeOK
  <2>2. CASE x = r
    <3>1. PICK p, v : p = Proc(x) /\ v = Version(x)
      OBVIOUS
    <3>2. pc[x] = "fetch" /\ seen' = [seen EXCEPT ![x].writes = db] /\ pc' = [pc EXCEPT ![x] = "store"]
          /\ UNCHANGED <<version, made, early>>
      BY <1>5, <2>2 DEF Fetch, Go, Holds, writing
    <3>3. /\ seen[x] \in Requests /\ v \in Versions /\ seen[x].due \subseteq Confirmed(p)'
          /\ v <= version' /\ seen[x].due \subseteq Promised(v)'
      BY <3>1, <3>2, RequestKeeps
    <3>4. Promised(v)' \subseteq db /\ db \in States
      BY <1>t, <3>2, <3>3, PromisedInDb DEF Promised, TypeOK
    <3>5. seen'[x] = [seen[x] EXCEPT !.writes = db] /\ pc'[x] = "store"
      BY <1>t, <3>2 DEF TypeOK
    <3>6. seen'[x] \in Requests /\ seen'[x].proc = p /\ seen'[x].version = v
          /\ seen'[x].due = seen[x].due /\ seen'[x].writes = db
      BY <3>1, <3>3, <3>4, <3>5 DEF Requests, Proc, Version
    <3> QED
      BY <3>3, <3>4, <3>5, <3>6, ReadingIs
  <2> QED
    BY <2>1, <2>2
<1>6. ASSUME NEW r \in Readers, Store(r) \/ Share(r) \/ ReadFails(r) PROVE Reading(x)'
  BY <1>t, <1>6, ReadingKeeps DEF Store, Share, ReadFails, Go, Tell, Drop, Leads, Keeps, TypeOK
<1>7. ASSUME NEW p \in Processes, TokenReply(p) PROVE Reading(x)'
  <2>1. CASE x \notin Asking(p)
    BY <1>7, <2>1, ReadingKeeps DEF TokenReply, Keeps
  <2>2. CASE x \in Asking(p)
    <3>1. pc[x] = "token" /\ p = Proc(x)
      BY <2>2 DEF Asking
    <3>2. link[p] # <<>>
      BY <1>7 DEF TokenReply
    <3>3. PICK v : v = link[p][1].version
      OBVIOUS
    <3>4. 1 \in 1 .. Len(link[p]) /\ v = Head(link[p]).version /\ v \in Versions
      BY <1>t, <3>2, <3>3, LinkIs
    <3>5. v <= version /\ Confirmed(p) \subseteq Promised(v)
      BY <3>3, <3>4, ConfirmedPromised DEF IInv, Linked
    <3>6. seen'[x] = [seen[x] EXCEPT !.version = v] /\ pc'[x] = "look"
          /\ UNCHANGED <<version, made, at, home, early>>
      BY <1>7, <2>2, <3>4 DEF TokenReply, writing
    <3>7. seen[x] \in Requests /\ seen[x].due \subseteq Confirmed(p)
      BY <3>1 DEF IInv, Reading
    <3>8. seen'[x] \in Requests /\ seen'[x].proc = p /\ seen'[x].version = v /\ seen'[x].due = seen[x].due
      BY <3>1, <3>4, <3>6, <3>7 DEF Requests, Proc
    <3>9. seen'[x].due \subseteq Confirmed(p)' /\ seen'[x].due \subseteq Promised(v)' /\ v <= version'
      BY <3>5, <3>6, <3>7, <3>8 DEF Confirmed, Promised
    <3> QED
      BY <3>6, <3>8, <3>9, ReadingIs
  <2> QED
    BY <2>1, <2>2
<1>8. ASSUME NEW p \in Processes, LinkBreaks(p) \/ Crash(p) PROVE Reading(x)'
  BY <1>8, ReadingKeeps DEF LinkBreaks, Crash, Drop, Keeps
<1>9. ASSUME NEW w \in Writes, Write(w) PROVE UNCHANGED <<pc, seen>>
  <2>1. CASE Commit(w) \/ Begin(w) \/ Bump(w)
    BY <2>1 DEF Commit, Begin, Bump
  <2>2. CASE BumpFails(w) \/ Invalidate(w) \/ CommitLate(w)
    BY <2>2 DEF BumpFails, Invalidate, CommitLate
  <2> QED
    BY <1>9, <2>1, <2>2 DEF Write
<1>10. ASSUME NEW p \in Processes, BumpReply(p) \/ ExpireLocal(p) PROVE UNCHANGED <<pc, seen>>
  BY <1>10 DEF BumpReply, ExpireLocal
<1> QED
  BY <1>0, <1>1, <1>2, <1>3, <1>4, <1>5, <1>6, <1>7, <1>8, <1>9, <1>10, NextCases, ExpiresOnly DEF Read, Other

\* Nothing that an answer was due to show is missing.
LEMMA SeenNext ==
    ASSUME IInv, Next
    PROVE  OwnWritesSeen'
<1>t. TypeOK /\ missed = {}
  BY DEF IInv, OwnWritesSeen
<1>1. ASSUME NEW R \in SUBSET Readers, NEW x, Tell(R, x), \A r \in R : seen[r].due \subseteq x
      PROVE  missed' = {}
  BY <1>t, <1>1 DEF Tell
<1>2. ASSUME NEW r \in Readers, pc[r] \notin {"idle", "token"}
      PROVE  seen[r].due \subseteq Promised(Version(r))
  BY <1>2 DEF IInv, Reading
<1>3. ASSUME NEW r \in Readers, Look(r) PROVE missed' = {}
  <2>1. CASE copy[Proc(r)][Version(r)] = None
    BY <1>t, <1>3, <2>1 DEF Look
  <2>2. CASE copy[Proc(r)][Version(r)] # None
    <3>1. pc[r] = "look" /\ Tell({r}, copy[Proc(r)][Version(r)])
      BY <1>3, <2>2 DEF Look
    <3>2. Promised(Version(r)) \subseteq copy[Proc(r)][Version(r)]
      BY <2>2, <3>1, RequestOf DEF IInv, CopiesAreFresh
    <3> QED
      BY <1>1, <1>2, <3>1, <3>2
  <2> QED
    BY <2>1, <2>2
<1>4. ASSUME NEW r \in Readers, Hit(r) PROVE missed' = {}
  <2>1. pc[r] = "hit" /\ Tell({r}, seen[r].writes) /\ Promised(Version(r)) \subseteq seen[r].writes
    BY <1>4 DEF Hit, IInv, Reading
  <2> QED
    BY <1>1, <1>2, <2>1
<1>5. ASSUME NEW r \in Readers, Store(r) \/ Share(r), missed' # missed PROVE missed' = {}
  <2>1. pc[r] \in {"store", "share"} /\ Tell({r} \cup Waiting(r), seen[r].writes)
    BY <1>5 DEF Store, Share
  <2>2. Promised(Version(r)) \subseteq seen[r].writes
    BY <2>1 DEF IInv, Reading
  <2>3. \A x \in Waiting(r) : x \in Readers /\ pc[x] = "wait" /\ Version(x) = Version(r)
    BY DEF Waiting, Beside
  <2>4. \A x \in {r} \cup Waiting(r) : seen[x].due \subseteq seen[r].writes
    BY <1>2, <2>1, <2>2, <2>3
  <2>5. {r} \cup Waiting(r) \in SUBSET Readers
    BY <2>3
  <2> QED
    BY <1>1, <2>1, <2>4, <2>5
<1>6. ASSUME NEW r \in Readers, ReadToken(r) \/ LookShared(r) \/ Miss(r) \/ Fetch(r) \/ ReadFails(r)
      PROVE  UNCHANGED missed
  BY <1>6 DEF ReadToken, LookShared, Miss, Fetch, ReadFails
<1>7. ASSUME NEW w \in Writes, Write(w) PROVE UNCHANGED missed
  <2>1. CASE Commit(w) \/ Begin(w) \/ Bump(w)
    BY <2>1 DEF Commit, Begin, Bump
  <2>2. CASE BumpFails(w) \/ Invalidate(w) \/ CommitLate(w)
    BY <2>2 DEF BumpFails, Invalidate, CommitLate
  <2> QED
    BY <1>7, <2>1, <2>2 DEF Write
<1>8. ASSUME NEW p \in Processes, Other(p) \/ BumpReply(p) \/ LinkBreaks(p) \/ Crash(p) PROVE UNCHANGED missed
  BY <1>8 DEF Other, TokenReply, ExpireLocal, BumpReply, LinkBreaks, Crash
<1>9. missed' = {}
  BY <1>t, <1>3, <1>4, <1>5, <1>6, <1>7, <1>8, NextCases, ExpiresOnly DEF Read
<1> QED
  BY <1>9 DEF OwnWritesSeen
-----------------------------------------------------------------------------
(***************************************************************************)
(* The replies of Redis.                                                   *)
(***************************************************************************)
\* What the link of a process says about a change.
LEMMA LinkSays ==
    ASSUME IInv, NEW p \in Processes, NEW i \in 1 .. Len(link[p])
    PROVE  /\ link[p][i].version \in Nat /\ link[p][i].version <= version
           /\ \A w \in Writes : link[p][i].for = w =>
                 at[w] = "sent" /\ home[w] = p /\ made[w] = link[p][i].version
           /\ \A w \in Writes : at[w] \in {"clear", "done"} /\ home[w] = p => made[w] <= link[p][i].version
           /\ \A j \in i .. Len(link[p]) :
                 /\ link[p][i].version <= link[p][j].version
                 /\ link[p][j].for = link[p][i].for /\ link[p][i].for \in Writes => j = i
BY LinkIs, Numbers DEF IInv, Linked

\* A process whose replies stay: no change of it that waits for a reply goes on,
\* and no other change of it is confirmed.
LEMMA LinkedStays ==
    ASSUME IInv, Next, NEW p \in Processes,
           link'[p] = link[p] \/ link'[p] = <<>>,
           local'[p] = local[p] \/ local'[p] = None,
           \A w \in Writes : at[w] = "sent" /\ home[w] = p /\ link'[p] # <<>> =>
               at'[w] = "sent" /\ home'[w] = p /\ made'[w] = made[w],
           \A w \in Writes : at'[w] \in {"clear", "done"} /\ home'[w] = p =>
               at[w] \in {"clear", "done"} /\ home[w] = p /\ made'[w] = made[w]
    PROVE  Linked(p)'
<1>1. version \in Nat /\ version' \in Nat /\ version <= version' /\ local[p] \in {None} \cup Nat
  BY CountNext, MadeNext, Numbers DEF IInv, TypeOK
<1>2. Linked(p)
  BY DEF IInv
<1>3. CASE link'[p] = <<>>
  BY <1>1, <1>2, <1>3 DEF Linked
<1>4. CASE link'[p] = link[p] /\ link[p] # <<>>
  <2>1. ASSUME NEW i \in 1 .. Len(link[p])
        PROVE  /\ link[p][i].version <= version'
               /\ link[p][i].for \in Writes =>
                     /\ at'[link[p][i].for] = "sent" /\ home'[link[p][i].for] = p
                     /\ made'[link[p][i].for] = link[p][i].version
               /\ \A w \in Writes : at'[w] \in {"clear", "done"} /\ home'[w] = p => made'[w] <= link[p][i].version
    BY <1>1, <1>4, LinkSays
  <2>2. local'[p] # None =>
          /\ local'[p] <= version'
          /\ \A w \in Writes : at'[w] \in {"clear", "done"} /\ home'[w] = p => made'[w] <= local'[p]
    BY <1>1, <1>2 DEF Linked
  <2> QED
    BY <1>2, <1>4, <2>1, <2>2 DEF Linked
<1> QED
  BY <1>2, <1>3, <1>4

\* A process that takes a reply.
LEMMA LinkedTakes ==
    ASSUME IInv, Next, NEW p \in Processes, link[p] # <<>>,
           link'[p] = Tail(link[p]), local'[p] = Head(link[p]).version,
           UNCHANGED <<version, made, home>>,
           \A w \in Writes : IF Head(link[p]).for = w THEN at'[w] \in {"sent", "clear"} ELSE at'[w] = at[w]
    PROVE  Linked(p)'
<1> DEFINE q == link[p]
           n == Len(q)
<1>1. /\ q \in Seq(Replies) /\ n \in Nat /\ 1 \in 1 .. n /\ Head(q) = q[1]
      /\ \A w \in Writes : made[w] \in Nat
  BY LinkIs, Numbers DEF IInv, TypeOK
<1>2. Len(link'[p]) = n - 1 /\ \A i \in 1 .. n - 1 : link'[p][i] = q[i + 1] /\ i + 1 \in 1 .. n
  BY <1>1
<1>3. ASSUME NEW i \in 1 .. n - 1
      PROVE  /\ q[i + 1].version <= version'
             /\ q[i + 1].for \in Writes =>
                   /\ at'[q[i + 1].for] = "sent" /\ home'[q[i + 1].for] = p
                   /\ made'[q[i + 1].for] = q[i + 1].version
             /\ \A w \in Writes : at'[w] \in {"clear", "done"} /\ home'[w] = p => made'[w] <= q[i + 1].version
             /\ \A j \in i .. n - 1 : /\ q[i + 1].version <= q[j + 1].version
                                      /\ q[j + 1].for = q[i + 1].for /\ q[i + 1].for \in Writes => j = i
  <2>1. i + 1 \in 1 .. n /\ i + 1 \in 1 .. Len(link[p]) /\ 1 \in 1 .. Len(link[p]) /\ i + 1 \in 1 .. Len(link[p]) /\ i + 1 # 1
    BY <1>1, <1>2
  <2>2. q[1].version <= q[i + 1].version /\ q[1].version \in Nat /\ q[i + 1].version \in Nat
        /\ (q[i + 1].for = q[1].for => q[1].for \notin Writes)
    BY <2>1, LinkSays
  <2>3. ASSUME NEW w \in Writes, at'[w] \in {"clear", "done"}, home'[w] = p PROVE made'[w] <= q[i + 1].version
    <3>1. CASE q[1].for = w
      BY <1>1, <2>1, <2>2, <3>1, LinkSays
    <3>2. CASE q[1].for # w
      BY <1>1, <2>1, <2>3, <3>2, LinkSays
    <3> QED
      BY <3>1, <3>2
  <2>4. \A j \in i .. n - 1 : /\ q[i + 1].version <= q[j + 1].version
                              /\ q[j + 1].for = q[i + 1].for /\ q[i + 1].for \in Writes => j = i
    BY <1>1, <2>1, LinkSays
  <2> QED
    BY <1>1, <2>1, <2>2, <2>3, <2>4, LinkSays
<1>4. local'[p] = q[1].version /\ q[1].version <= version'
      /\ \A w \in Writes : at'[w] \in {"clear", "done"} /\ home'[w] = p => made'[w] <= q[1].version
  BY <1>1, LinkSays
<1> QED
  <2> HIDE DEF q, n
  <2> QED
    BY <1>1, <1>2, <1>3, <1>4 DEF Linked

\* A process that is sent the version of now.
LEMMA LinkedGets ==
    ASSUME IInv, Next, NEW p \in Processes, NEW e \in Replies,
           link'[p] = Append(link[p], e), e.version = version', UNCHANGED <<local, home>>,
           \A w \in Writes : IF e.for = w
                             THEN at[w] = "bump" /\ at'[w] = "sent" /\ home[w] = p /\ made'[w] = version'
                             ELSE at'[w] = at[w] /\ made'[w] = made[w]
    PROVE  Linked(p)'
<1> DEFINE q == link[p]
           n == Len(q)
<1>1. /\ q \in Seq(Replies) /\ n \in Nat
      /\ version \in Nat /\ version' \in Nat /\ version <= version' /\ local[p] \in {None} \cup Nat
      /\ \A w \in Writes : made[w] \in Nat /\ made[w] <= version
  BY LinkIs, CountNext, MadeNext, Numbers DEF IInv, TypeOK
<1>2. Len(link'[p]) = n + 1 /\ link'[p][n + 1] = e /\ \A i \in 1 .. n : link'[p][i] = q[i]
  BY <1>1
<1>3. ASSUME NEW i \in 1 .. n
      PROVE  /\ q[i].version <= version'
             /\ q[i].for \in Writes => at'[q[i].for] = "sent" /\ home'[q[i].for] = p /\ made'[q[i].for] = q[i].version
             /\ \A w \in Writes : at'[w] \in {"clear", "done"} /\ home'[w] = p => made'[w] <= q[i].version
             /\ q[i].for = e.for => q[i].for \notin Writes
             /\ \A j \in i .. n : /\ q[i].version <= q[j].version
                                  /\ q[j].for = q[i].for /\ q[i].for \in Writes => j = i
  <2>1. /\ i \in 1 .. Len(link[p]) /\ q[i].version \in Nat /\ q[i].version <= version
        /\ \A w \in Writes : at[w] \in {"clear", "done"} /\ home[w] = p => made[w] <= q[i].version
        /\ \A j \in i .. n : /\ q[i].version <= q[j].version
                             /\ q[j].for = q[i].for /\ q[i].for \in Writes => j = i
    BY <1>1, LinkSays
  <2>2. ASSUME NEW w \in Writes, at'[w] \in {"clear", "done"}, home'[w] = p PROVE made'[w] <= q[i].version
    <3>1. e.for # w
      BY <2>2
    <3> QED
      BY <2>1, <2>2, <3>1
  <2>3. ASSUME NEW w \in Writes, q[i].for = w
        PROVE  at'[w] = "sent" /\ home'[w] = p /\ made'[w] = q[i].version /\ e.for # w
    <3>1. at[w] = "sent" /\ home[w] = p /\ made[w] = q[i].version
      BY <2>1, <2>3, LinkSays
    <3> QED
      BY <3>1
  <2>4. q[i].version <= version'
    BY <1>1, <2>1
  <2> HIDE DEF q, n
  <2>5. q[i].for \in Writes => at'[q[i].for] = "sent" /\ home'[q[i].for] = p /\ made'[q[i].for] = q[i].version
    BY <2>3
  <2>6. q[i].for = e.for => q[i].for \notin Writes
    BY <2>3
  <2> QED
    BY <2>1, <2>2, <2>4, <2>5, <2>6
<1>4. ASSUME NEW w \in Writes, at'[w] \in {"clear", "done"}
      PROVE  made'[w] = made[w] /\ at[w] = at'[w] /\ made'[w] <= version'
  <2>1. e.for # w
    BY <1>4
  <2> QED
    BY <1>1, <2>1
<1>5. local'[p] # None => /\ local'[p] <= version'
                          /\ \A w \in Writes : at'[w] \in {"clear", "done"} /\ home'[w] = p => made'[w] <= local'[p]
  BY <1>1, <1>4 DEF IInv, Linked
<1>6. e.for \in Writes => at'[e.for] = "sent" /\ home'[e.for] = p /\ made'[e.for] = e.version
  OBVIOUS
<1>7. ASSUME NEW i \in 1 .. n + 1
      PROVE  /\ link'[p][i].version <= version'
             /\ link'[p][i].for \in Writes =>
                   /\ at'[link'[p][i].for] = "sent" /\ home'[link'[p][i].for] = p
                   /\ made'[link'[p][i].for] = link'[p][i].version
             /\ \A w \in Writes : at'[w] \in {"clear", "done"} /\ home'[w] = p => made'[w] <= link'[p][i].version
             /\ \A j \in i .. n + 1 : /\ link'[p][i].version <= link'[p][j].version
                                      /\ link'[p][j].for = link'[p][i].for /\ link'[p][i].for \in Writes => j = i
  <2> HIDE DEF q, n
  <2>1. CASE i = n + 1
    BY <1>1, <1>2, <1>4, <1>6, <2>1
  <2>2. CASE i # n + 1
    <3>1. i \in 1 .. n /\ link'[p][i] = q[i]
      BY <1>1, <1>2, <2>2
    <3>2. ASSUME NEW j \in i .. n + 1
          PROVE  /\ q[i].version <= link'[p][j].version
                 /\ link'[p][j].for = q[i].for /\ q[i].for \in Writes => j = i
      <4>1. CASE j = n + 1
        BY <1>2, <1>3, <3>1, <4>1
      <4>2. CASE j # n + 1
        <5>1. j \in i .. n /\ link'[p][j] = q[j]
          BY <1>1, <1>2, <3>1, <4>2
        <5> QED
          BY <1>3, <3>1, <5>1
      <4> QED
        BY <4>1, <4>2
    <3> QED
      BY <1>3, <3>1, <3>2
  <2> QED
    BY <2>1, <2>2
<1> QED
  <2> HIDE DEF q, n
  <2> QED
    BY <1>2, <1>5, <1>7 DEF Linked

LEMMA LinkedNext ==
    ASSUME IInv, Next, NEW p \in Processes
    PROVE  Linked(p)'
<1>t. TypeOK /\ version \in Versions
  BY DEF IInv, TypeOK
<1>0. CASE UNCHANGED <<version, made, at, home, link>> /\ local'[p] \in {local[p], None}
  BY <1>0, LinkedStays
<1>1. ASSUME NEW r \in Readers, ReadToken(r) PROVE Linked(p)'
  <2>1. UNCHANGED <<version, made, at, home, local>>
    BY <1>1 DEF ReadToken, writing
  <2>2. PICK o \in Processes : link' = link \/ link' = [link EXCEPT ![o] = Append(@, [for |-> "token", version |-> version])]
    BY <1>1 DEF ReadToken
  <2>3. CASE link'[p] = link[p]
    BY <2>1, <2>3, LinkedStays
  <2>4. CASE link'[p] # link[p]
    <3> DEFINE e == [for |-> "token", version |-> version]
    <3>1. e \in Replies /\ e.version = version' /\ \A w \in Writes : e.for # w
      BY <1>t, <2>1, TokenIsNoWrite DEF Replies
    <3>2. link'[p] = Append(link[p], e)
      BY <1>t, <2>2, <2>4 DEF TypeOK
    <3> HIDE DEF e
    <3>3. \A w \in Writes : IF e.for = w
                            THEN at[w] = "bump" /\ at'[w] = "sent" /\ home[w] = p /\ made'[w] = version'
                            ELSE at'[w] = at[w] /\ made'[w] = made[w]
      BY <2>1, <3>1
    <3> QED
      BY <2>1, <3>1, <3>2, <3>3, LinkedGets
  <2> QED
    BY <2>3, <2>4
<1>2. ASSUME NEW r \in Readers, Read(r), ~ReadToken(r) PROVE UNCHANGED link
  <2>1. CASE Look(r) \/ LookShared(r) \/ Hit(r) \/ Miss(r)
    BY <2>1 DEF Look, LookShared, Hit, Miss
  <2>2. CASE Fetch(r) \/ Store(r) \/ Share(r) \/ ReadFails(r)
    BY <2>2 DEF Fetch, Store, Share, ReadFails
  <2> QED
    BY <1>2, <2>1, <2>2 DEF Read
<1>3. ASSUME NEW o \in Processes, TokenReply(o) PROVE Linked(p)'
  <2>1. UNCHANGED <<version, made, at, home>>
    BY <1>3 DEF TokenReply, writing
  <2>2. CASE o = p
    <3>1. link[p] # <<>> /\ link'[p] = Tail(link[p]) /\ local'[p] = Head(link[p]).version
          /\ Head(link[p]).for = "token"
      BY <1>t, <1>3, <2>2 DEF TokenReply, TypeOK
    <3>2. \A w \in Writes : IF Head(link[p]).for = w THEN at'[w] \in {"sent", "clear"} ELSE at'[w] = at[w]
      BY <2>1, <3>1, TokenIsNoWrite
    <3> QED
      BY <2>1, <3>1, <3>2, LinkedTakes
  <2>3. CASE o # p
    <3>1. link'[p] = link[p] /\ local'[p] = local[p]
      BY <1>t, <1>3, <2>3 DEF TokenReply, TypeOK
    <3> QED
      BY <2>1, <3>1, LinkedStays
  <2> QED
    BY <2>2, <2>3
<1>4. ASSUME NEW o \in Processes, BumpReply(o) PROVE Linked(p)'
  <2>1. PICK w \in Writes :
           /\ link[o] # <<>> /\ Head(link[o]).for = w
           /\ link' = [link EXCEPT ![o] = Tail(@)] /\ local' = [local EXCEPT ![o] = Head(link[o]).version]
           /\ at' = [at EXCEPT ![w] = "clear"] /\ UNCHANGED <<version, made, home>>
    BY <1>4 DEF BumpReply, Phase
  <2>2. at[w] = "sent" /\ home[w] = o
    BY <1>t, <2>1, LinkIs, LinkSays
  <2>3. CASE o = p
    <3>1. link'[p] = Tail(link[p]) /\ local'[p] = Head(link[p]).version
      BY <1>t, <2>1, <2>3 DEF TypeOK
    <3>2. \A x \in Writes : IF Head(link[p]).for = x THEN at'[x] \in {"sent", "clear"} ELSE at'[x] = at[x]
      BY <1>t, <2>1, <2>3 DEF TypeOK
    <3> QED
      BY <2>1, <2>3, <3>1, <3>2, LinkedTakes
  <2>4. CASE o # p
    <3>1. link'[p] = link[p] /\ local'[p] = local[p]
      BY <1>t, <2>1, <2>4 DEF TypeOK
    <3>2. \A x \in Writes : home[x] = p => at'[x] = at[x]
      BY <1>t, <2>1, <2>2, <2>4 DEF TypeOK
    <3> QED
      BY <2>1, <3>1, <3>2, LinkedStays
  <2> QED
    BY <2>3, <2>4
<1>5. ASSUME NEW w \in Writes, Bump(w) PROVE Linked(p)'
  <2> DEFINE e == [for |-> w, version |-> version + 1]
  <2>1. /\ at[w] = "bump" /\ version' = version + 1 /\ UNCHANGED <<home, local>>
        /\ made' = [made EXCEPT ![w] = version + 1] /\ at' = [at EXCEPT ![w] = "sent"]
        /\ link' = [link EXCEPT ![home[w]] = Append(@, e)]
    BY <1>5 DEF Bump, Phase
  <2>2. \A x \in Writes : IF x = w THEN at'[x] = "sent" /\ made'[x] = version'
                          ELSE at'[x] = at[x] /\ made'[x] = made[x]
    BY <1>t, <2>1 DEF TypeOK
  <2>3. CASE home[w] = p
    <3>1. e \in Replies /\ e.for = w /\ e.version = version'
      BY <2>1, CountNext DEF Replies
    <3>2. link'[p] = Append(link[p], e)
      BY <1>t, <2>1, <2>3 DEF TypeOK
    <3> HIDE DEF e
    <3>3. \A x \in Writes : IF e.for = x
                            THEN at[x] = "bump" /\ at'[x] = "sent" /\ home[x] = p /\ made'[x] = version'
                            ELSE at'[x] = at[x] /\ made'[x] = made[x]
      BY <2>1, <2>2, <2>3, <3>1
    <3> QED
      BY <2>1, <3>1, <3>2, <3>3, LinkedGets
  <2>4. CASE home[w] # p
    <3>1. link'[p] = link[p]
      BY <1>t, <2>1, <2>4 DEF TypeOK
    <3> QED
      BY <2>1, <2>2, <3>1, LinkedStays
  <2> QED
    BY <2>3, <2>4
<1>6. ASSUME NEW w \in Writes, Write(w), ~Bump(w) PROVE Linked(p)'
  <2>1. UNCHANGED <<made, link, local>>
    BY <1>6 DEF Write, Commit, Begin, BumpFails, Invalidate, CommitLate
  <2>2. CASE Commit(w) \/ Begin(w)
    <3>1. PICK o \in Processes : /\ at[w] = "new" /\ at' = [at EXCEPT ![w] = "bump"]
                                 /\ home' = [home EXCEPT ![w] = o]
      BY <2>2 DEF Commit, Begin, Phase
    <3>2. \A x \in Writes : IF x = w THEN at'[x] = "bump" ELSE at'[x] = at[x] /\ home'[x] = home[x]
      BY <1>t, <3>1 DEF TypeOK
    <3> QED
      BY <2>1, <3>1, <3>2, LinkedStays
  <2>3. CASE BumpFails(w) \/ Invalidate(w) \/ CommitLate(w)
    <3>1. /\ UNCHANGED home /\ at[w] # "sent"
          /\ \A x \in Writes : IF x = w THEN at'[x] \in {"clear", "done"} => at[x] = "clear"
                               ELSE at'[x] = at[x]
      BY <1>t, <2>3 DEF BumpFails, Invalidate, CommitLate, Phase, TypeOK
    <3> QED
      BY <2>1, <3>1, LinkedStays
  <2> QED
    BY <1>6, <2>2, <2>3 DEF Write
<1>7. ASSUME NEW o \in Processes, LinkBreaks(o) PROVE Linked(p)'
  <2>1. /\ UNCHANGED <<made, home, local>> /\ link' = [link EXCEPT ![o] = <<>>]
        /\ \A w \in Writes : \/ at'[w] = at[w]
                             \/ at'[w] = "silent" /\ \E i \in 1 .. Len(link[o]) : link[o][i].for = w
    BY <1>7 DEF LinkBreaks
  <2>2. \A w \in Writes : at'[w] = at[w] \/ (at'[w] = "silent" /\ home[w] = o)
    BY <2>1, LinkSays
  <2>3. IF o = p THEN link'[p] = <<>> ELSE link'[p] = link[p]
    BY <1>t, <2>1 DEF TypeOK
  <2> QED
    BY <2>1, <2>2, <2>3, LinkedStays
<1>8. ASSUME NEW o \in Processes, Crash(o) PROVE Linked(p)'
  <2>1. /\ UNCHANGED <<made, home>>
        /\ \A w \in Writes : at'[w] = at[w] \/ (at'[w] = "over" /\ home[w] = o)
    BY <1>8 DEF Crash
  <2>2. IF o = p THEN link'[p] = <<>> /\ local'[p] = None ELSE link'[p] = link[p] /\ local'[p] = local[p]
    BY <1>t, <1>8 DEF Crash, TypeOK
  <2> QED
    BY <2>1, <2>2, LinkedStays
<1>9. ASSUME NEW o \in Processes, ExpireLocal(o)
      PROVE  UNCHANGED <<version, made, at, home, link>> /\ local'[p] \in {local[p], None}
  BY <1>t, <1>9 DEF ExpireLocal, TypeOK, writing
<1> QED
  BY <1>0, <1>1, <1>2, <1>3, <1>4, <1>5, <1>6, <1>7, <1>8, <1>9, NextCases, ReadsOnly, ExpiresOnly DEF Other
-----------------------------------------------------------------------------
(***************************************************************************)
(* Types.                                                                  *)
(***************************************************************************)
TypeWriting ==
    /\ db \in States /\ early \in States
    /\ made \in [Writes -> Versions] /\ at \in [Writes -> Places]
    /\ home \in [Writes -> {None} \cup Processes]

LEMMA TypeWritingNext ==
    ASSUME IInv, Next
    PROVE  TypeWriting'
<1>t. TypeWriting /\ version' \in Versions
  BY CountNext DEF IInv, TypeOK, TypeWriting
<1> USE DEF Phase, Places, States
<1>1. ASSUME NEW w \in Writes, Commit(w) \/ Begin(w) PROVE TypeWriting'
  BY <1>t, <1>1 DEF Commit, Begin, TypeWriting
<1>2. ASSUME NEW w \in Writes, Bump(w) PROVE TypeWriting'
  BY <1>t, <1>2 DEF Bump, TypeWriting
<1>3. ASSUME NEW w \in Writes, BumpFails(w) \/ Invalidate(w) \/ CommitLate(w) PROVE TypeWriting'
  BY <1>t, <1>3 DEF BumpFails, Invalidate, CommitLate, TypeWriting
<1>4. ASSUME NEW p \in Processes, BumpReply(p) \/ LinkBreaks(p) \/ Crash(p) PROVE TypeWriting'
  BY <1>t, <1>4 DEF BumpReply, LinkBreaks, Crash, TypeWriting
<1>5. ASSUME NEW p \in Processes, Other(p) PROVE TypeWriting'
  BY <1>t, <1>5 DEF Other, TokenReply, ExpireLocal, writing, TypeWriting
<1>6. CASE UNCHANGED <<db, made, at, home, early>>
  BY <1>t, <1>6 DEF TypeWriting
<1> QED
  BY <1>1, <1>2, <1>3, <1>4, <1>5, <1>6, NextCases, ReadsOnly, ExpiresOnly DEF Write

TypeLinks ==
    /\ local \in [Processes -> {None} \cup Versions]
    /\ link \in [Processes -> Seq(Replies)]

LEMMA TypeLinksNext ==
    ASSUME IInv, Next
    PROVE  TypeLinks'
<1>t. TypeLinks /\ version \in Versions /\ version' \in Versions
  BY CountNext DEF IInv, TypeOK, TypeLinks, Replies
<1>a. ASSUME NEW o, NEW e \in Replies, link' = [link EXCEPT ![o] = Append(@, e)], UNCHANGED local
      PROVE  TypeLinks'
  <2>1. \A q \in Seq(Replies) : Append(q, e) \in Seq(Replies)
    OBVIOUS
  <2> QED
    BY <1>t, <1>a, <2>1 DEF TypeLinks
<1>0. CASE UNCHANGED <<local, link>>
  BY <1>t, <1>0 DEF TypeLinks
<1>1. ASSUME NEW r \in Readers, ReadToken(r) PROVE TypeLinks'
  <2>1. UNCHANGED local /\ \E o \in Processes :
           link' = link \/ link' = [link EXCEPT ![o] = Append(@, [for |-> "token", version |-> version])]
    BY <1>1 DEF ReadToken
  <2>2. [for |-> "token", version |-> version] \in Replies
    BY <1>t DEF Replies
  <2> QED
    BY <1>0, <1>a, <2>1, <2>2
<1>2. ASSUME NEW r \in Readers, Read(r), ~ReadToken(r) PROVE UNCHANGED <<local, link>>
  <2>1. CASE Look(r) \/ LookShared(r) \/ Hit(r) \/ Miss(r)
    BY <2>1 DEF Look, LookShared, Hit, Miss
  <2>2. CASE Fetch(r) \/ Store(r) \/ Share(r) \/ ReadFails(r)
    BY <2>2 DEF Fetch, Store, Share, ReadFails
  <2> QED
    BY <1>2, <2>1, <2>2 DEF Read
<1>3. ASSUME NEW w \in Writes, Bump(w) PROVE TypeLinks'
  <2>1. [for |-> w, version |-> version + 1] \in Replies
    BY <1>t, <1>3 DEF Replies, Bump
  <2>2. link' = [link EXCEPT ![home[w]] = Append(@, [for |-> w, version |-> version + 1])] /\ UNCHANGED local
    BY <1>3 DEF Bump
  <2> QED
    BY <1>a, <2>1, <2>2
<1>4. ASSUME NEW w \in Writes, Write(w), ~Bump(w) PROVE UNCHANGED <<local, link>>
  BY <1>4 DEF Write, Commit, Begin, BumpFails, Invalidate, CommitLate
<1>5. ASSUME NEW p \in Processes, TokenReply(p) \/ BumpReply(p) PROVE TypeLinks'
  <2>1. link[p] # <<>> /\ link' = [link EXCEPT ![p] = Tail(@)] /\ local' = [local EXCEPT ![p] = Head(link[p]).version]
    BY <1>5 DEF TokenReply, BumpReply
  <2>2. Head(link[p]).version \in Versions /\ Tail(link[p]) \in Seq(Replies)
    BY <1>t, <2>1, LinkIs DEF IInv
  <2> QED
    BY <1>t, <2>1, <2>2 DEF TypeLinks
<1>6. ASSUME NEW p \in Processes, LinkBreaks(p) \/ Crash(p) \/ ExpireLocal(p) PROVE TypeLinks'
  <2>1. <<>> \in Seq(Replies)
    OBVIOUS
  <2> QED
    BY <1>t, <1>6, <2>1 DEF LinkBreaks, Crash, ExpireLocal, TypeLinks
<1> QED
  BY <1>0, <1>1, <1>2, <1>3, <1>4, <1>5, <1>6, NextCases, ExpiresOnly DEF Other

TypeCopies == copy \in [Processes -> Copies] /\ shared \in Copies

LEMMA TypeCopiesNext ==
    ASSUME IInv, Next
    PROVE  TypeCopies'
<1>t. TypeCopies /\ NoCopies \in Copies
  BY DEF IInv, TypeOK, TypeCopies, NoCopies, Copies
<1>0. CASE UNCHANGED <<copy, shared>>
  BY <1>t, <1>0 DEF TypeCopies
<1>1. ASSUME NEW r \in Readers, Hit(r) \/ Store(r) PROVE TypeCopies'
  <2>1. /\ pc[r] # "idle" /\ copy' = [copy EXCEPT ![Proc(r)][Version(r)] = seen[r].writes]
        /\ UNCHANGED shared
    BY <1>1 DEF Hit, Store
  <2>2. PICK p \in Processes, v \in Versions : p = Proc(r) /\ v = Version(r)
    BY <2>1, RequestOf
  <2>3. [copy[p] EXCEPT ![v] = seen[r].writes] \in Copies
    BY <1>t, <2>1, <2>2, RequestOf DEF TypeCopies, Copies
  <2>4. copy' = [copy EXCEPT ![p] = [copy[p] EXCEPT ![v] = seen[r].writes]]
    BY <2>1, <2>2
  <2> QED
    BY <1>t, <2>1, <2>3, <2>4 DEF TypeCopies
<1>2. ASSUME NEW r \in Readers, Share(r) PROVE TypeCopies'
  <2>1. /\ pc[r] # "idle" /\ shared' = [shared EXCEPT ![Version(r)] = seen[r].writes]
        /\ UNCHANGED copy
    BY <1>2 DEF Share
  <2> QED
    BY <1>t, <2>1, RequestOf DEF TypeCopies, Copies
<1>3. ASSUME NEW r \in Readers, Read(r), ~(Hit(r) \/ Store(r) \/ Share(r)) PROVE UNCHANGED <<copy, shared>>
  <2>1. CASE ReadToken(r) \/ Look(r) \/ LookShared(r)
    BY <2>1 DEF ReadToken, Look, LookShared
  <2>2. CASE Miss(r) \/ Fetch(r) \/ ReadFails(r)
    BY <2>2 DEF Miss, Fetch, ReadFails
  <2> QED
    BY <1>3, <2>1, <2>2 DEF Read
<1>4. ASSUME NEW w \in Writes, Write(w) PROVE TypeCopies'
  <2>1. CASE Commit(w) \/ Begin(w) \/ Bump(w)
    BY <1>0, <2>1 DEF Commit, Begin, Bump
  <2>2. CASE BumpFails(w) \/ CommitLate(w)
    BY <1>0, <2>2 DEF BumpFails, CommitLate
  <2>3. CASE Invalidate(w)
    BY <1>t, <2>3 DEF Invalidate, TypeCopies
  <2> QED
    BY <1>4, <2>1, <2>2, <2>3 DEF Write
<1>5. ASSUME NEW p \in Processes, Other(p) \/ BumpReply(p) \/ LinkBreaks(p) PROVE UNCHANGED <<copy, shared>>
  BY <1>5 DEF Other, TokenReply, ExpireLocal, BumpReply, LinkBreaks
<1>6. ASSUME NEW p \in Processes, Crash(p) PROVE TypeCopies'
  BY <1>t, <1>6 DEF Crash, TypeCopies
<1>7. ASSUME NEW p \in Processes, NEW v \in Versions, ExpireCopy(p, v) PROVE TypeCopies'
  <2>1. copy' = [copy EXCEPT ![p] = [copy[p] EXCEPT ![v] = None]] /\ UNCHANGED shared
    BY <1>7 DEF ExpireCopy
  <2>2. [copy[p] EXCEPT ![v] = None] \in Copies
    BY <1>t DEF TypeCopies, Copies
  <2> QED
    BY <1>t, <2>1, <2>2 DEF TypeCopies
<1>8. ASSUME NEW v \in Versions, ExpireShared(v) PROVE TypeCopies'
  BY <1>t, <1>8 DEF ExpireShared, TypeCopies, Copies
<1> QED
  BY <1>0, <1>1, <1>2, <1>3, <1>4, <1>5, <1>6, <1>7, <1>8, NextCases DEF Expires

TypeReaders == pc \in [Readers -> Phases] /\ seen \in [Readers -> {None} \cup Requests]

LEMMA TypeReadersNext ==
    ASSUME IInv, Next
    PROVE  TypeReaders'
<1>t. TypeReaders
  BY DEF IInv, TypeOK, TypeReaders
<1> USE DEF Phases
<1>0. CASE UNCHANGED <<pc, seen>>
  BY <1>t, <1>0 DEF TypeReaders
<1>1. ASSUME NEW R, Drop(R) PROVE TypeReaders'
  BY <1>t, <1>1 DEF Drop, TypeReaders
<1>2. ASSUME NEW r \in Readers, NEW x, NEW to \in Phases,
             seen' = [seen EXCEPT ![r] = x], pc' = [pc EXCEPT ![r] = to], x \in Requests
      PROVE  TypeReaders'
  BY <1>t, <1>2 DEF TypeReaders
<1>3. ASSUME NEW r \in Readers, NEW to \in Phases, UNCHANGED seen, pc' = [pc EXCEPT ![r] = to]
      PROVE  TypeReaders'
  BY <1>t, <1>3 DEF TypeReaders
<1>4. ASSUME NEW r \in Readers, ReadToken(r) PROVE TypeReaders'
  <2>1. PICK p \in Processes :
           /\ seen' = [seen EXCEPT ![r] =
                        [proc |-> p, version |-> IF local[p] = None THEN 0 ELSE local[p],
                         writes |-> {}, due |-> Confirmed(p)]]
           /\ pc' = [pc EXCEPT ![r] = IF local[p] = None THEN "token" ELSE "look"]
    BY <1>4 DEF ReadToken, Go
  <2>2. [proc |-> p, version |-> IF local[p] = None THEN 0 ELSE local[p],
         writes |-> {}, due |-> Confirmed(p)] \in Requests
    BY Numbers DEF IInv, TypeOK, Requests, States, Confirmed
  <2> QED
    BY <1>2, <2>1, <2>2
<1>5. ASSUME NEW r \in Readers, LookShared(r) \/ Fetch(r), ~UNCHANGED seen PROVE TypeReaders'
  <2>0. pc[r] # "idle"
    BY <1>5 DEF LookShared, Fetch
  <2>1. \E x \in {shared[Version(r)], db}, to \in Phases :
           x # None /\ seen' = [seen EXCEPT ![r].writes = x] /\ pc' = [pc EXCEPT ![r] = to]
    <3>1. CASE LookShared(r)
      <4>1. shared[Version(r)] # None /\ pc[r] = "shared"
            /\ seen' = [seen EXCEPT ![r].writes = shared[Version(r)]] /\ pc' = [pc EXCEPT ![r] = "hit"]
        BY <1>5, <3>1 DEF LookShared, Go, Holds
      <4> QED
        BY <4>1
    <3>2. CASE Fetch(r)
      <4>1. pc[r] = "fetch" /\ seen' = [seen EXCEPT ![r].writes = db] /\ pc' = [pc EXCEPT ![r] = "store"]
        BY <3>2 DEF Fetch, Go, Holds
      <4>2. db # None
        BY NoneIsNothing DEF IInv, TypeOK, States
      <4> QED
        BY <4>1, <4>2
    <3> QED
      BY <1>5, <3>1, <3>2
  <2>2. PICK x \in {shared[Version(r)], db}, to \in Phases :
           x # None /\ seen' = [seen EXCEPT ![r].writes = x] /\ pc' = [pc EXCEPT ![r] = to]
    BY <2>1
  <2>3. x \in States
    BY <2>0, <2>2, RequestOf DEF IInv, TypeOK, Copies
  <2>4. [seen[r] EXCEPT !.writes = x] \in Requests
    BY <2>0, <2>3, RequestOf DEF Requests
  <2>5. seen' = [seen EXCEPT ![r] = [seen[r] EXCEPT !.writes = x]]
    BY <2>2
  <2> QED
    BY <1>2, <2>2, <2>4, <2>5
<1>6. ASSUME NEW r \in Readers, LookShared(r) \/ Fetch(r) \/ Miss(r) \/ Look(r) \/ Store(r), UNCHANGED seen
      PROVE  TypeReaders'
  <2>1. (\E to \in Phases : pc' = [pc EXCEPT ![r] = to]) \/ \E R : Drop(R)
    BY <1>6 DEF LookShared, Fetch, Miss, Look, Store, Go, Tell
  <2> QED
    BY <1>1, <1>3, <1>6, <2>1
<1>7. ASSUME NEW r \in Readers, Look(r) \/ Store(r), ~UNCHANGED seen PROVE \E R : Drop(R)
  BY <1>7 DEF Look, Store, Tell
<1>8. ASSUME NEW r \in Readers, Hit(r) \/ Share(r) \/ ReadFails(r) PROVE \E R : Drop(R)
  BY <1>8 DEF Hit, Share, ReadFails, Tell
<1>9. ASSUME NEW w \in Writes, Write(w) PROVE UNCHANGED <<pc, seen>>
  <2>1. CASE Commit(w) \/ Begin(w) \/ Bump(w)
    BY <2>1 DEF Commit, Begin, Bump
  <2>2. CASE BumpFails(w) \/ Invalidate(w) \/ CommitLate(w)
    BY <2>2 DEF BumpFails, Invalidate, CommitLate
  <2> QED
    BY <1>9, <2>1, <2>2 DEF Write
<1>10. ASSUME NEW p \in Processes, TokenReply(p) PROVE TypeReaders'
  <2>1. link[p] # <<>> /\ Head(link[p]).version \in Versions
    BY <1>10, LinkIs DEF TokenReply, IInv
  <2>2. PICK v \in Versions : v = Head(link[p]).version
    BY <2>1
  <2>3. /\ pc' = [r \in Readers |-> IF r \in Asking(p) THEN "look" ELSE pc[r]]
        /\ seen' = [r \in Readers |-> IF r \in Asking(p) THEN [seen[r] EXCEPT !.version = v] ELSE seen[r]]
    BY <1>10, <2>2 DEF TokenReply
  <2>4. \A r \in Asking(p) : seen[r] \in Requests
    BY RequestOf DEF Asking
  <2>5. \A q \in Requests : [q EXCEPT !.version = v] \in Requests
    BY DEF Requests
  <2> QED
    BY <1>t, <2>3, <2>4, <2>5 DEF TypeReaders
<1>11. ASSUME NEW p \in Processes, LinkBreaks(p) \/ Crash(p) PROVE \E R : Drop(R)
  BY <1>11 DEF LinkBreaks, Crash
<1>12. ASSUME NEW p \in Processes, BumpReply(p) \/ ExpireLocal(p) PROVE UNCHANGED <<pc, seen>>
  BY <1>12 DEF BumpReply, ExpireLocal
<1>13. ASSUME NEW r \in Readers, Read(r) PROVE TypeReaders'
  <2>1. CASE ReadToken(r) \/ Hit(r) \/ Share(r) \/ ReadFails(r)
    BY <1>1, <1>4, <1>8, <2>1
  <2>2. CASE LookShared(r) \/ Fetch(r)
    BY <1>5, <1>6, <2>2
  <2>3. CASE Look(r) \/ Store(r)
    BY <1>1, <1>6, <1>7, <2>3
  <2>4. CASE Miss(r)
    BY <1>6, <2>4 DEF Miss
  <2> QED
    BY <1>13, <2>1, <2>2, <2>3, <2>4 DEF Read
<1> QED
  BY <1>0, <1>1, <1>9, <1>10, <1>11, <1>12, <1>13, NextCases, ExpiresOnly DEF Other
-----------------------------------------------------------------------------
(***************************************************************************)
(* The fetches under way.                                                  *)
(***************************************************************************)
Busy == {"fetch", "store", "share"}
Alike(x, y) == seen[x].proc = seen[y].proc /\ seen[x].version = seen[y].version

\* OneFetch, of pairs of readers.
Fetches ==
    /\ \A x, y \in Readers : pc[x] \in Busy /\ pc[y] \in Busy /\ Alike(x, y) => x = y
    /\ \A x \in Readers : pc[x] = "wait" => \E y \in Readers : pc[y] \in Busy /\ Alike(x, y)

LEMMA FetchesIsOneFetch == Fetches <=> OneFetch
BY DEF Fetches, OneFetch, Busy, Alike, Beside, Leads, UnderWay, Proc, Version

\* Nobody starts a fetch, or to wait for one; whoever ends one releases all.
Calm ==
    /\ \A x \in Readers :
          /\ pc'[x] \in Busy => pc[x] \in Busy
          /\ pc'[x] = "wait" => pc[x] = "wait"
          /\ pc'[x] \in Busy \cup {"wait"} =>
                seen'[x].proc = seen[x].proc /\ seen'[x].version = seen[x].version
    /\ \A x, y \in Readers : pc'[x] = "wait" /\ pc[y] \in Busy /\ Alike(x, y) => pc'[y] \in Busy

LEMMA CalmKeeps ==
    ASSUME Fetches, Calm
    PROVE  Fetches'
<1>1. ASSUME NEW x \in Readers, NEW y \in Readers, pc'[x] \in Busy, pc'[y] \in Busy, Alike(x, y)'
      PROVE  x = y
  BY <1>1 DEF Fetches, Calm, Alike
<1>2. ASSUME NEW x \in Readers, pc'[x] = "wait"
      PROVE  \E y \in Readers : pc'[y] \in Busy /\ Alike(x, y)'
  <2>1. PICK y \in Readers : pc[y] \in Busy /\ Alike(x, y)
    BY <1>2 DEF Fetches, Calm
  <2>2. pc'[y] \in Busy
    BY <1>2, <2>1 DEF Calm
  <2> QED
    BY <1>2, <2>1, <2>2 DEF Calm, Alike
<1> QED
  BY <1>1, <1>2 DEF Fetches

LEMMA DropIsCalm ==
    ASSUME TypeOK, NEW R, Drop(R),
           \A x, y \in Readers : y \in R /\ pc[y] \in Busy /\ pc[x] = "wait" /\ Alike(x, y) => x \in R
    PROVE  Calm
BY DEF Drop, Calm, Busy

LEMMA FetchesNext ==
    ASSUME IInv, Fetches, Next
    PROVE  Fetches'
<1>t. TypeOK
  BY DEF IInv
<1>0. CASE UNCHANGED <<pc, seen>>
  BY <1>0, CalmKeeps DEF Calm, Busy
<1>1. ASSUME NEW r \in Readers, ReadToken(r) PROVE Calm
  <2>1. \A x \in Readers : IF x = r THEN pc[x] = "idle" /\ pc'[x] \in {"token", "look"}
                           ELSE pc'[x] = pc[x] /\ seen'[x] = seen[x]
    BY <1>t, <1>1 DEF ReadToken, Go, TypeOK
  <2> QED
    BY <2>1 DEF Calm, Busy
<1>2. ASSUME NEW r \in Readers, pc[r] \notin Busy, Drop({r}) PROVE Calm
  BY <1>t, <1>2, DropIsCalm
<1>3. ASSUME NEW r \in Readers, Drop({r} \cup Waiting(r)), pc[r] \in Busy PROVE Calm
  <2>1. \A x, y \in Readers : y \in {r} \cup Waiting(r) /\ pc[y] \in Busy /\ pc[x] = "wait" /\ Alike(x, y)
                              => x \in Waiting(r)
    BY DEF Waiting, Beside, Alike, Proc, Version, Busy
  <2> QED
    BY <1>t, <1>3, <2>1, DropIsCalm
<1>4. ASSUME NEW r \in Readers, NEW to \in {"shared", "miss", "hit"}, pc[r] \in {"look", "shared"}, Go(r, to),
             \A x \in Readers \ {r} : seen'[x] = seen[x]
      PROVE  Calm
  BY <1>t, <1>4 DEF Go, Calm, Busy, TypeOK
<1>5. ASSUME NEW r \in Readers, Look(r) PROVE Calm
  <2>1. pc[r] = "look" /\ (Drop({r}) \/ (UNCHANGED seen /\ \E to \in {"shared", "miss", "hit"} : Go(r, to)))
    BY <1>5 DEF Look, Tell
  <2> QED
    BY <1>2, <1>4, <2>1 DEF Busy
<1>6. ASSUME NEW r \in Readers, LookShared(r) PROVE Calm
  <2>1. /\ pc[r] = "shared" /\ \A x \in Readers \ {r} : seen'[x] = seen[x]
        /\ \E to \in {"shared", "miss", "hit"} : Go(r, to)
    BY <1>t, <1>6 DEF LookShared, Holds, TypeOK
  <2> QED
    BY <1>4, <2>1
<1>7. ASSUME NEW r \in Readers, Hit(r) PROVE Calm
  BY <1>2, <1>7 DEF Hit, Tell, Busy
<1>8. ASSUME NEW r \in Readers, Miss(r) PROVE Fetches'
  <2>1. /\ pc[r] = "miss" /\ UNCHANGED seen
        /\ \A x \in Readers : pc'[x] = IF x = r THEN IF UnderWay(r) THEN "wait" ELSE "fetch" ELSE pc[x]
    BY <1>t, <1>8 DEF Miss, Go, TypeOK
  <2>2. UnderWay(r) <=> \E y \in Readers : pc[y] \in Busy /\ Alike(r, y)
    BY <2>1 DEF UnderWay, Beside, Leads, Busy, Alike, Proc, Version
  <2>3. \A x, y \in Readers : Alike(x, y)' <=> Alike(x, y)
    BY <2>1 DEF Alike
  <2>4. CASE UnderWay(r)
    BY <2>1, <2>2, <2>3, <2>4 DEF Fetches, Busy
  <2>5. CASE ~UnderWay(r)
    <3>1. \A x, y \in Readers : pc'[x] \in Busy /\ pc'[y] \in Busy /\ Alike(x, y) => x = y
      BY <2>1, <2>2, <2>5 DEF Fetches, Busy, Alike
    <3>2. \A x \in Readers : pc'[x] = "wait" => \E y \in Readers : pc'[y] \in Busy /\ Alike(x, y)
      BY <2>1, <2>5 DEF Fetches, Busy
    <3> QED
      BY <2>3, <3>1, <3>2 DEF Fetches
  <2> QED
    BY <2>4, <2>5
<1>9. ASSUME NEW r \in Readers, Fetch(r) PROVE Calm
  <2>1. /\ pc[r] = "fetch" /\ seen[r] \in Requests
        /\ \A x \in Readers : pc'[x] = (IF x = r THEN "store" ELSE pc[x])
                              /\ seen'[x] = IF x = r THEN [seen[r] EXCEPT !.writes = db] ELSE seen[x]
    BY <1>t, <1>9, RequestOf DEF Fetch, Go, Holds, TypeOK
  <2>2. seen'[r].proc = seen[r].proc /\ seen'[r].version = seen[r].version
    BY <2>1 DEF Requests
  <2> QED
    BY <2>1, <2>2 DEF Calm, Busy
<1>10. ASSUME NEW r \in Readers, Store(r) \/ Share(r) PROVE Calm
  <2>1. CASE Drop({r} \cup Waiting(r))
    BY <1>3, <1>10, <2>1 DEF Store, Share, Busy
  <2>2. CASE pc[r] = "store" /\ Go(r, "share") /\ UNCHANGED seen
    BY <1>t, <2>2 DEF Go, Calm, Busy, TypeOK
  <2> QED
    BY <1>10, <2>1, <2>2 DEF Store, Share, Tell
<1>11. ASSUME NEW r \in Readers, ReadFails(r) PROVE Calm
  <2>1. CASE pc[r] \in Busy
    BY <1>3, <1>11, <2>1 DEF ReadFails, Leads, Busy
  <2>2. CASE pc[r] \notin Busy
    <3>1. Drop({r})
      BY <1>11, <2>2 DEF ReadFails, Leads, Busy
    <3> QED
      BY <1>2, <2>2, <3>1
  <2> QED
    BY <2>1, <2>2
<1>12. ASSUME NEW p \in Processes, TokenReply(p) PROVE Calm
  <2>1. \A x \in Readers : IF x \in Asking(p) THEN pc[x] = "token" /\ pc'[x] = "look"
                           ELSE pc'[x] = pc[x] /\ seen'[x] = seen[x]
    BY <1>12 DEF TokenReply, Asking
  <2> QED
    BY <2>1 DEF Calm, Busy
<1>13. ASSUME NEW p \in Processes, LinkBreaks(p) PROVE Calm
  BY <1>t, <1>13, DropIsCalm DEF LinkBreaks, Asking, Busy
<1>14. ASSUME NEW p \in Processes, Crash(p) PROVE Calm
  BY <1>t, <1>14, DropIsCalm DEF Crash, Alike, Proc, Busy
<1>15. ASSUME NEW w \in Writes, Write(w) PROVE UNCHANGED <<pc, seen>>
  <2>1. CASE Commit(w) \/ Begin(w) \/ Bump(w)
    BY <2>1 DEF Commit, Begin, Bump
  <2>2. CASE BumpFails(w) \/ Invalidate(w) \/ CommitLate(w)
    BY <2>2 DEF BumpFails, Invalidate, CommitLate
  <2> QED
    BY <1>15, <2>1, <2>2 DEF Write
<1>16. ASSUME NEW p \in Processes, BumpReply(p) \/ ExpireLocal(p) PROVE UNCHANGED <<pc, seen>>
  BY <1>16 DEF BumpReply, ExpireLocal
<1>17. ASSUME NEW r \in Readers, Read(r) PROVE Calm \/ Fetches'
  BY <1>1, <1>5, <1>6, <1>7, <1>8, <1>9, <1>10, <1>11, <1>17 DEF Read
<1> QED
  BY <1>0, <1>12, <1>13, <1>14, <1>15, <1>16, <1>17, CalmKeeps, NextCases, ExpiresOnly DEF Other
-----------------------------------------------------------------------------
(***************************************************************************)
(* The theorems.                                                           *)
(***************************************************************************)
LEMMA InitHolds == Init => IInv
<1> SUFFICES ASSUME Init PROVE IInv
  OBVIOUS
<1>1. NoCopies \in Copies /\ \A v \in Versions : NoCopies[v] = None
  BY DEF NoCopies, Copies
<1>2. <<>> \in Seq(Replies) /\ Len(<<>>) = 0
  OBVIOUS
<1>3. TypeOK
  BY <1>1, <1>2, Numbers DEF Init, TypeOK, States, Places, Phases, Replies
<1>4. CopiesAreFresh /\ NoFutureCopy /\ OwnWritesSeen
  BY <1>1 DEF Init, CopiesAreFresh, NoFutureCopy, OwnWritesSeen
<1>5. Counted = {} /\ version = Cardinality(Counted)
  BY FS_EmptySet DEF Init, Counted
<1>6. \A w \in Writes : Written(w) /\ made[w] <= version
  BY DEF Init, Written
<1>7. \A p \in Processes : Linked(p)
  BY <1>2 DEF Init, Linked
<1>8. \A r \in Readers : Reading(r)
  BY DEF Init, Reading
<1> QED
  BY <1>3, <1>4, <1>5, <1>6, <1>7, <1>8 DEF IInv

LEMMA StepKeeps == IInv /\ [Next]_vars => IInv'
<1> SUFFICES ASSUME IInv, [Next]_vars PROVE IInv'
  OBVIOUS
<1>1. CASE Next
  <2>1. TypeOK'
    BY <1>1, CountNext, SeenNext, TypeWritingNext, TypeLinksNext, TypeCopiesNext, TypeReadersNext
    DEF TypeOK, TypeWriting, TypeLinks, TypeCopies, TypeReaders, Replies, OwnWritesSeen, States
  <2>2. \A w \in Writes : Written(w)' /\ made'[w] <= version'
    BY <1>1, WrittenNext, MadeNext
  <2> QED
    BY <1>1, <2>1, <2>2, FreshNext, SeenNext, CountNext, LinkedNext, ReadingNext DEF IInv
<1>2. CASE UNCHANGED vars
  <2>1. TypeOK' /\ CopiesAreFresh' /\ OwnWritesSeen' /\ NoFutureCopy'
    BY <1>2 DEF vars, writing, IInv, TypeOK, CopiesAreFresh, OwnWritesSeen, NoFutureCopy, Promised
  <2>2. (version = Cardinality(Counted))' /\ \A w \in Writes : Written(w)' /\ made'[w] <= version'
    BY <1>2 DEF vars, writing, IInv, Counted, Written
  <2>3. \A p \in Processes : Linked(p)'
    BY <1>2 DEF vars, writing, IInv, Linked
  <2>4. \A r \in Readers : Reading(r)'
    BY <1>2 DEF vars, writing, IInv, Reading, Proc, Version, Confirmed, Promised
  <2> QED
    BY <2>1, <2>2, <2>3, <2>4 DEF IInv
<1> QED
  BY <1>1, <1>2

\* The versions count the changes, the replies of Redis arrive in its order, no
\* copy and no reader lags behind what its version promises.
THEOREM ReadModelInvariance == Spec => []IInv
BY InitHolds, StepKeeps, PTL DEF Spec

\* Copies, versions and requests keep their types whatever fails.
THEOREM ReadModelTypeCorrect == Spec => []TypeOK
<1>1. IInv => TypeOK
  BY DEF IInv
<1> QED
  BY <1>1, ReadModelInvariance, PTL

\* A copy shows every change that its version counts: withCache may store late
\* what it read early, for any number of processes, readers and changes.
THEOREM FreshCopies == Spec => []CopiesAreFresh
<1>1. IInv => CopiesAreFresh
  BY DEF IInv
<1> QED
  BY <1>1, ReadModelInvariance, PTL

\* Of the changes that are counted after their commit, one whose count Redis
\* confirmed is in every list that its process gives to a later reader.
THEOREM OwnWritesAreSeen == Spec => []OwnWritesSeen
<1>1. IInv => OwnWritesSeen
  BY DEF IInv
<1> QED
  BY <1>1, ReadModelInvariance, PTL

\* The database is asked once for a version, by one of the readers that want
\* it, and whoever waits for an answer waits for a fetch that is under way.
THEOREM OneFetchForAll == Spec => []OneFetch
<1>1. Init => Fetches
  BY DEF Init, Fetches, Busy
<1>2. IInv /\ Fetches /\ [Next]_vars => Fetches'
  <2>1. ASSUME Fetches, UNCHANGED vars PROVE Fetches'
    BY <2>1, CalmKeeps DEF Calm, Busy, vars
  <2> QED
    BY <2>1, FetchesNext
<1>3. Fetches => OneFetch
  BY FetchesIsOneFetch
<1> QED
  BY <1>1, <1>2, <1>3, ReadModelInvariance, PTL DEF Spec
=============================================================================

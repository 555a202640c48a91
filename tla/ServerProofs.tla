---------------------------- MODULE ServerProofs ----------------------------
(***************************************************************************)
(* Theorems about DbPool for any pool, any number of requests, branches    *)
(* and statements, and whatever fails or hangs up; and about Retention for *)
(* any number of cleaners and rows and any settings, and whatever stops    *)
(* them; and about SignIn and RateLimit for any number of processes,       *)
(* sessions and requests.                                                  *)
(***************************************************************************)
EXTENDS DbPool, Retention, SignIn, RateLimit, SequenceTheorems, TLAPS

\* Who is in line waits, and is there once.
InLine ==
    /\ \A i \in DOMAIN line : call[line[i]].at \in {"waiting", "second"}
    /\ \A i, j \in DOMAIN line : line[i] = line[j] => i = j

\* A free connection has no transaction, unless it is known for what was left on it.
FreeClean == \A c \in Pool : conns[c].holder = NoOne /\ ~conns[c].left => conns[c].tx = "none"

Checks == {"context", "check", "second", "lookup"}
Clean(r) == ~conns[call[r].on].left
TxNone(r) == conns[call[r].on].tx = "none"

\* What a request holds, and what is set on it while it was clean.
HoldsOne(r) ==
    /\ call[r].at \in {"idle", "waiting"} => call[r].on = NoOne
    /\ call[r].at \in Checks \cup {"handler", "finish"} =>
         call[r].on \in Pool /\ conns[call[r].on].holder = r
    /\ call[r].at = "lookup" =>
         /\ call[r].second \in Pool /\ conns[call[r].second].holder = r
         /\ call[r].second # call[r].on
    /\ call[r].at # "lookup" => call[r].second = NoOne
    /\ call[r].at # "idle" => call[r].home \in Homes \cup {"admin"}
    /\ call[r].at \in {"second", "lookup"} => call[r].home # "admin"
ContextSet(r) ==
    /\ call[r].at \in Checks /\ Clean(r) => TxNone(r)
    /\ call[r].at \in {"check", "second", "lookup", "handler"} /\ Clean(r) => InOwnContext(r)
    /\ call[r].at = "handler" /\ Clean(r) =>
         (TxNone(r) \/ conns[call[r].on].saved = call[r].home)
    /\ call[r].at = "handler" /\ Clean(r) /\ call[r].tx => ~TxNone(r)
    /\ call[r].at \in Checks \cup {"waiting"} => ~call[r].tx
RequestOK(r) == HoldsOne(r) /\ ContextSet(r)

PoolInv == PoolTypeOK /\ InLine /\ FreeClean /\ \A r \in Calls : RequestOK(r)

USE DEF Checks
-----------------------------------------------------------------------------
\* The one request that a connection belongs to is the only one that changes it.
LEMMA OthersKeep ==
    ASSUME PoolInv, NEW q \in Calls, call'[q] = call[q], NEW S,
           \A d \in Pool \ S : conns'[d] = conns[d],
           \A d \in S \cap Pool : conns[d].holder # q
    PROVE  RequestOK(q)'
<1>1. RequestOK(q)
  BY DEF PoolInv
<1>2. ASSUME call[q].at \in Checks \cup {"handler", "finish"}
      PROVE  conns'[call[q].on] = conns[call[q].on] /\ call[q].on \in Pool
  BY <1>1, <1>2 DEF RequestOK, HoldsOne
<1>3. ASSUME call[q].at = "lookup"
      PROVE  conns'[call[q].second] = conns[call[q].second]
  BY <1>1, <1>3 DEF RequestOK, HoldsOne
<1>4. HoldsOne(q)'
  BY <1>1, <1>2, <1>3 DEF RequestOK, HoldsOne
<1>5. ContextSet(q)'
  BY <1>1, <1>2 DEF RequestOK, ContextSet, Clean, TxNone, InOwnContext
<1> QED
  BY <1>4, <1>5 DEF RequestOK

LEMMA PoolTypes ==
    ASSUME PoolInv
    PROVE  /\ conns \in [Pool -> ConnRecord]
           /\ call \in [Calls -> CallRecord]
           /\ line \in Seq(Calls)
           /\ known \subseteq Homes
           /\ \A r \in Calls : call[r] \in CallRecord
           /\ \A c \in Pool : conns[c] \in ConnRecord
BY DEF PoolInv, PoolTypeOK

\* A request at work has a connection of its own.
LEMMA Working ==
    ASSUME PoolInv, NEW r \in Calls, call[r].at \in Checks \cup {"handler", "finish"}
    PROVE  /\ call[r].on \in Pool /\ conns[call[r].on] \in ConnRecord
           /\ conns[call[r].on].holder = r /\ r # NoOne
           /\ \A q \in Calls \ {r} : conns[call[r].on].holder # q
BY PoolTypes, PoolSets DEF PoolInv, RequestOK, HoldsOne
-----------------------------------------------------------------------------
LEMMA NoCallType == NoCall \in CallRecord /\ Fresh \in ConnRecord
BY PoolBound DEF NoCall, CallRecord, Fresh, ConnRecord, Contexts

LEMMA ConnTypes ==
    ASSUME NEW c \in ConnRecord
    PROVE  /\ \A x \in Contexts : Set(c, x) \in ConnRecord
           /\ Committed(c) \in ConnRecord
           /\ RolledBack(c) \in ConnRecord
           /\ GivenBack(c) \in ConnRecord
           /\ \A t \in {"none", "open", "failed"} : [c EXCEPT !.tx = t] \in ConnRecord
           /\ \A x \in Contexts : [c EXCEPT !.tx = "open", !.saved = x] \in ConnRecord
           /\ \A r \in Calls : [c EXCEPT !.holder = r] \in ConnRecord
BY DEF ConnRecord, Set, Committed, RolledBack, GivenBack, Contexts

\* What comes back with a transaction is known for it.
LEMMA GivenBackLeft ==
    ASSUME NEW c \in ConnRecord
    PROVE  GivenBack(c).tx = c.tx /\ (c.tx # "none" => GivenBack(c).left)
<1>1. GivenBack(c).tx = c.tx /\ GivenBack(c).left = (c.left \/ c.tx # "none")
  BY DEF GivenBack, ConnRecord
<1> QED
  BY <1>1

\* Nothing but calls changes for other requests, and nothing in line.
LEMMA LineKept ==
    ASSUME PoolInv, UNCHANGED line, NEW r \in Calls, call[r].at \notin {"waiting", "second"},
           \A q \in Calls \ {r} : call'[q] = call[q]
    PROVE  InLine'
<1>1. \A i \in DOMAIN line : line[i] \in Calls
  BY PoolTypes
<1>2. \A i \in DOMAIN line : line[i] # r
  BY DEF PoolInv, InLine
<1> QED
  BY <1>1, <1>2 DEF PoolInv, InLine

\* Who begins to wait is the last in line.
LEMMA LineAppended ==
    ASSUME PoolInv, NEW r \in Calls, call[r].at \notin {"waiting", "second"}, line' = Append(line, r),
           call'[r].at \in {"waiting", "second"}, \A q \in Calls \ {r} : call'[q] = call[q]
    PROVE  InLine'
<1>1. \A i \in DOMAIN line : line[i] # r /\ line[i] \in Calls
  BY PoolTypes DEF PoolInv, InLine
<1>2. /\ DOMAIN line' = 1 .. (Len(line) + 1) /\ line'[Len(line) + 1] = r
      /\ \A i \in DOMAIN line : line'[i] = line[i]
      /\ DOMAIN line = 1 .. Len(line) /\ Len(line) \in Nat
  BY PoolTypes
<1>3. \A i \in DOMAIN line' : i \in DOMAIN line \/ i = Len(line) + 1
  BY <1>2
<1> QED
  BY <1>1, <1>2, <1>3 DEF PoolInv, InLine

\* Where no connection changes, the other requests are as they were.
LEMMA OthersStay ==
    ASSUME PoolInv, NEW r \in Calls, conns' = conns, \A q \in Calls \ {r} : call'[q] = call[q]
    PROVE  \A q \in Calls \ {r} : RequestOK(q)'
<1> TAKE q \in Calls \ {r}
<1> DEFINE None == {}
<1>1. /\ \A d \in Pool \ None : conns'[d] = conns[d]
      /\ \A d \in None \cap Pool : conns[d].holder # q
  OBVIOUS
<1> QED
  BY <1>1, OthersKeep

\* Where what was behind i stands after it is gone.
LEMMA Behind ==
    ASSUME NEW i \in Int, NEW j \in Int, NEW n \in Int, NEW l \in Int, n = i - 1, ~(j < i), j <= l - 1
    PROVE  ~(j <= n) /\ j - n \in 1 .. l - i /\ (j - n) + i = j + 1
OBVIOUS

\* Nobody else is at the place of the line that one leaves.
LEMMA LineLeft ==
    ASSUME PoolInv, NEW r \in Calls, NEW i \in DOMAIN line, line[i] = r, line' = RemoveAt(line, i),
           \A q \in Calls \ {r} : call'[q] = call[q]
    PROVE  InLine' /\ line' \in Seq(Calls)
<1> DEFINE before(j) == IF j < i THEN j ELSE j + 1
<1>1. Len(line) \in Nat /\ i \in 1 .. Len(line) /\ \A j \in 1 .. Len(line) : line[j] \in Calls
  BY PoolTypes
<1>2. /\ line' \in Seq(Calls) /\ Len(line') = Len(line) - 1
      /\ \A j \in 1 .. Len(line') : line'[j] = line[before(j)]
  <2> DEFINE fore == SubSeq(line, 1, i - 1)
             rear == SubSeq(line, i + 1, Len(line))
  <2>1. /\ fore \in Seq(Calls) /\ Len(fore) = i - 1
        /\ \A j \in 1 .. i - 1 : fore[j] = line[j]
    BY <1>1, PoolTypes
  <2>2. /\ rear \in Seq(Calls) /\ Len(rear) = Len(line) - i
        /\ \A j \in 1 .. Len(line) - i : rear[j] = line[j + i]
    BY <1>1, PoolTypes
  <2>3. line' = fore \o rear
    BY DEF RemoveAt
  <2> HIDE DEF fore, rear
  <2> DEFINE n == Len(fore)
             m == Len(rear)
  <2>4. /\ line' \in Seq(Calls) /\ Len(line') = n + m
        /\ \A j \in 1 .. n + m : line'[j] = IF j <= n THEN fore[j] ELSE rear[j - n]
    BY <2>1, <2>2, <2>3, ConcatProperties
  <2>5. n = i - 1 /\ m = Len(line) - i
    BY <2>1, <2>2
  <2> HIDE DEF n, m
  <2>6. Len(line') = Len(line) - 1 /\ n + m = Len(line) - 1
    BY <1>1, <2>4, <2>5
  <2>7. ASSUME NEW j \in 1 .. Len(line')
        PROVE  line'[j] = line[before(j)]
    <3>0. /\ j \in Int /\ i \in Int /\ n \in Int /\ Len(line) \in Int /\ j \in 1 .. n + m
          /\ 1 <= j /\ j <= Len(line) - 1
      BY <1>1, <2>5, <2>6
    <3>1. CASE j < i
      <4>1. j <= n /\ j \in 1 .. i - 1
        BY <2>5, <3>0, <3>1
      <4>2. line'[j] = fore[j] /\ fore[j] = line[j]
        BY <2>1, <2>4, <3>0, <4>1
      <4> QED
        BY <3>1, <4>2
    <3>2. CASE ~(j < i)
      <4>1. ~(j <= n) /\ j - n \in 1 .. Len(line) - i /\ (j - n) + i = j + 1
        BY <2>5, <3>0, <3>2, Behind
      <4>2. line'[j] = rear[j - n]
        BY <2>4, <3>0, <4>1
      <4>3. rear[j - n] = line[(j - n) + i]
        BY <2>2, <4>1
      <4> QED
        BY <3>2, <4>1, <4>2, <4>3
    <3> QED
      BY <3>1, <3>2
  <2> QED
    BY <2>4, <2>6, <2>7
<1>3. \A j \in DOMAIN line' : before(j) \in 1 .. Len(line) \ {i} /\ line'[j] = line[before(j)] /\ j \in Nat
  BY <1>1, <1>2
<1>4. \A j, k \in DOMAIN line' : before(j) = before(k) => j = k
  BY <1>3
<1>5. \A j \in 1 .. Len(line) \ {i} : line[j] # r /\ line[j] \in Calls /\ j \in DOMAIN line
  BY <1>1 DEF PoolInv, InLine
<1> HIDE DEF before
<1>6. \A j \in DOMAIN line' : call'[line'[j]].at \in {"waiting", "second"}
  BY <1>3, <1>5 DEF PoolInv, InLine
<1>7. \A j, k \in DOMAIN line' : line'[j] = line'[k] => j = k
  BY <1>3, <1>4, <1>5 DEF PoolInv, InLine
<1> QED
  BY <1>2, <1>6, <1>7 DEF InLine

LEMMA InitInv == ASSUME PoolInit PROVE PoolInv
<1>0. Set(Fresh, "admin") \in ConnRecord
  BY NoCallType, ConnTypes DEF Contexts
<1>1. PoolTypeOK
  <2>1. conns \in [Pool -> ConnRecord]
    BY <1>0, NoCallType DEF PoolInit
  <2>2. call \in [Calls -> CallRecord]
    BY NoCallType DEF PoolInit
  <2> QED
    BY <2>1, <2>2 DEF PoolInit, PoolTypeOK
<1>2. InLine
  BY DEF PoolInit, InLine
<1>3. FreeClean
  BY DEF PoolInit, FreeClean, Fresh, Set
<1>4. \A r \in Calls : RequestOK(r)
  BY DEF PoolInit, RequestOK, HoldsOne, ContextSet, NoCall
<1> QED
  BY <1>1, <1>2, <1>3, <1>4 DEF PoolInv
-----------------------------------------------------------------------------
(***************************************************************************)
(* Each step keeps the invariant.                                          *)
(***************************************************************************)
Waiting(h) == [at |-> "waiting", home |-> h, on |-> NoOne, second |-> NoOne, tx |-> FALSE,
               todo |-> MaxStatements]

LEMMA WaitingType ==
    ASSUME NEW h \in Homes \cup {"admin"}
    PROVE  /\ Waiting(h) \in CallRecord
           /\ Waiting(h).at = "waiting" /\ Waiting(h).on = NoOne /\ Waiting(h).second = NoOne
           /\ Waiting(h).home = h /\ ~Waiting(h).tx
BY PoolBound DEF Waiting, CallRecord, Contexts

LEMMA ArriveInv == ASSUME PoolInv, NEW r \in Calls, Arrive(r) PROVE PoolInv'
<1>0. PICK h \in Homes \cup {"admin"} :
      /\ call[r].at = "idle"
      /\ line' = Append(line, r)
      /\ call' = [call EXCEPT ![r] = Waiting(h)]
      /\ UNCHANGED <<conns, known>>
  BY DEF Arrive, Waiting, NoCall
<1>1. call'[r] = Waiting(h)
  BY <1>0, PoolTypes
<1>2. call'[r] \in CallRecord
  BY <1>1, WaitingType
<1>3. PoolTypeOK'
  BY <1>0, <1>1, <1>2, PoolTypes DEF PoolTypeOK
<1>4. InLine'
  BY <1>0, <1>1, WaitingType, PoolTypes, LineAppended
<1>5. FreeClean'
  BY <1>0 DEF PoolInv, FreeClean
<1>6. RequestOK(r)'
  BY <1>1, WaitingType DEF RequestOK, HoldsOne, ContextSet
<1>7. \A q \in Calls \ {r} : RequestOK(q)'
  BY <1>0, PoolTypes, OthersStay
<1> QED
  BY <1>3, <1>4, <1>5, <1>6, <1>7 DEF PoolInv

\* A step of r that is not about the line, and that changes what S holds.
LEMMA OwnStep ==
    ASSUME PoolInv, NEW r \in Calls, UNCHANGED line, call[r].at \notin {"waiting", "second"},
           NEW k \in CallRecord, call' = [call EXCEPT ![r] = k],
           conns' \in [Pool -> ConnRecord], known' \subseteq Homes,
           NEW S, \A d \in Pool \ S : conns'[d] = conns[d],
           \A d \in S \cap Pool : conns[d].holder = r,
           \A d \in S \cap Pool : conns'[d].holder = NoOne /\ ~conns'[d].left => conns'[d].tx = "none",
           RequestOK(r)'
    PROVE  PoolInv'
<1>1. PoolTypeOK'
  BY PoolTypes DEF PoolTypeOK
<1>2. \A q \in Calls \ {r} : call'[q] = call[q]
  BY PoolTypes
<1>3. InLine'
  BY <1>2, LineKept
<1>4. FreeClean'
  BY DEF PoolInv, FreeClean
<1>5. \A q \in Calls \ {r} : RequestOK(q)'
  <2> TAKE q \in Calls \ {r}
  <2>1. call'[q] = call[q]
    BY <1>2
  <2>2. \A d \in S \cap Pool : conns[d].holder # q
    OBVIOUS
  <2> QED
    BY <2>1, <2>2, OthersKeep
<1> QED
  BY <1>1, <1>3, <1>4, <1>5 DEF PoolInv
-----------------------------------------------------------------------------
LEMMA SetContextInv == ASSUME PoolInv, NEW r \in Calls, SetContext(r) PROVE PoolInv'
<1> DEFINE c == call[r].on
<1>1. call[r].at = "context" /\ UNCHANGED <<line, known>> /\ known' \subseteq Homes
  BY PoolTypes DEF SetContext
<1>2. c \in Pool /\ conns[c] \in ConnRecord /\ conns[c].holder = r /\ r # NoOne
  BY <1>1, Working
<1>3. CASE conns[c].tx = "failed"
  <2>1. conns' = conns /\ call' = [call EXCEPT ![r] = NoCall]
    BY <1>3 DEF SetContext
  <2>2. RequestOK(r)'
    BY <2>1, PoolTypes DEF RequestOK, HoldsOne, ContextSet, NoCall
  <2>3. /\ \A d \in Pool \ {c} : conns'[d] = conns[d]
        /\ \A d \in {c} \cap Pool : conns[d].holder = r /\ conns'[d].holder = r
    BY <1>2, <2>1
  <2> HIDE DEF c
  <2> QED
    BY <1>1, <1>2, <2>1, <2>2, <2>3, NoCallType, PoolTypes, OwnStep
<1>4. CASE conns[c].tx # "failed"
  <2> DEFINE k == [call[r] EXCEPT !.at = "check"]
             x == Set(conns[c], call[r].home)
  <2>1. conns' = [conns EXCEPT ![c] = x] /\ call' = [call EXCEPT ![r] = k]
    BY <1>4 DEF SetContext
  <2>2. k \in CallRecord /\ x \in ConnRecord /\ call[r] \in CallRecord
    BY <1>2, PoolTypes, ConnTypes DEF CallRecord
  <2>3. /\ x.holder = r /\ x.left = conns[c].left /\ x.tx = conns[c].tx /\ x.ctx = call[r].home
        /\ k.at = "check" /\ k.on = c /\ k.second = call[r].second /\ k.home = call[r].home
        /\ k.tx = call[r].tx
    BY <1>2, <2>2 DEF Set, ConnRecord, CallRecord
  <2>4. /\ conns' \in [Pool -> ConnRecord] /\ conns'[c] = x /\ call'[r] = k
        /\ \A d \in Pool \ {c} : conns'[d] = conns[d]
    BY <1>2, <2>1, <2>2, PoolTypes
  <2>5. RequestOK(r)'
    BY <1>1, <1>2, <2>3, <2>4 DEF PoolInv, RequestOK, HoldsOne, ContextSet, Clean, TxNone, InOwnContext
  <2> HIDE DEF c, k, x
  <2> DEFINE S == {c}
  <2>6. /\ \A d \in Pool \ S : conns'[d] = conns[d]
        /\ \A d \in S \cap Pool : conns[d].holder = r
        /\ \A d \in S \cap Pool : conns'[d].holder = NoOne /\ ~conns'[d].left => conns'[d].tx = "none"
    BY <1>2, <2>3, <2>4
  <2>7. call[r].at \notin {"waiting", "second"} /\ UNCHANGED line /\ known' \subseteq Homes
    BY <1>1
  <2> HIDE DEF S
  <2> QED
    BY <2>1, <2>2, <2>4, <2>5, <2>6, <2>7, OwnStep
<1> QED
  BY <1>3, <1>4

LEMMA CheckInv == ASSUME PoolInv, NEW r \in Calls, Check(r) PROVE PoolInv'
<1> DEFINE c == call[r].on
<1>1. call[r].at = "check" /\ UNCHANGED <<conns, known>> /\ known' \subseteq Homes
  BY PoolTypes DEF Check
<1>2. c \in Pool /\ conns[c] \in ConnRecord /\ conns[c].holder = r /\ call[r] \in CallRecord
  BY <1>1, Working, PoolTypes
<1>3. ASSUME NEW at \in {"handler", "second"}, call' = [call EXCEPT ![r].at = at],
             at = "second" => call[r].home # "admin"
      PROVE  /\ [call[r] EXCEPT !.at = at] \in CallRecord
             /\ call' = [call EXCEPT ![r] = [call[r] EXCEPT !.at = at]]
             /\ call'[r].at = at /\ RequestOK(r)' /\ call' \in [Calls -> CallRecord]
             /\ \A q \in Calls \ {r} : call'[q] = call[q]
  <2> DEFINE k == [call[r] EXCEPT !.at = at]
  <2>1. /\ k \in CallRecord /\ call' = [call EXCEPT ![r] = k]
        /\ k.at = at /\ k.on = c /\ k.second = call[r].second /\ k.home = call[r].home
        /\ k.tx = call[r].tx
    BY <1>2, <1>3 DEF CallRecord
  <2>2. /\ call'[r] = k /\ call' \in [Calls -> CallRecord]
        /\ \A q \in Calls \ {r} : call'[q] = call[q]
    BY <2>1, PoolTypes
  <2>3. RequestOK(r)'
    BY <1>1, <1>2, <1>3, <2>1, <2>2
       DEF PoolInv, RequestOK, HoldsOne, ContextSet, Clean, TxNone, InOwnContext
  <2> QED
    BY <2>1, <2>2, <2>3
<1>4. CASE call[r].home \in known \cup {"admin"}
  <2>1. call' = [call EXCEPT ![r].at = "handler"] /\ UNCHANGED line
    BY <1>4 DEF Check
  <2> DEFINE k == [call[r] EXCEPT !.at = "handler"]
             None == {}
  <2>2. k \in CallRecord /\ call' = [call EXCEPT ![r] = k] /\ RequestOK(r)'
    BY <1>3, <2>1
  <2>3. /\ \A d \in Pool \ None : conns'[d] = conns[d]
        /\ \A d \in None \cap Pool : conns[d].holder = r
        /\ \A d \in None \cap Pool : conns'[d].holder = NoOne /\ ~conns'[d].left => conns'[d].tx = "none"
        /\ conns' \in [Pool -> ConnRecord]
    BY <1>1, PoolTypes
  <2> HIDE DEF k, None
  <2> QED
    BY <1>1, <2>1, <2>2, <2>3, OwnStep
<1>5. CASE call[r].home \notin known \cup {"admin"}
  <2>1. call' = [call EXCEPT ![r].at = "second"] /\ line' = Append(line, r)
    BY <1>5 DEF Check, Ask
  <2>2. /\ call'[r].at = "second" /\ RequestOK(r)' /\ call' \in [Calls -> CallRecord]
        /\ \A q \in Calls \ {r} : call'[q] = call[q]
    BY <1>3, <1>5, <2>1
  <2>3. InLine' /\ \A q \in Calls \ {r} : RequestOK(q)'
    BY <1>1, <2>1, <2>2, LineAppended, OthersStay
  <2>4. PoolTypeOK' /\ FreeClean'
    BY <1>1, <2>1, <2>2, PoolTypes DEF PoolInv, PoolTypeOK, FreeClean
  <2> QED
    BY <2>2, <2>3, <2>4 DEF PoolInv
<1> QED
  BY <1>4, <1>5

LEMMA TimeOutInv == ASSUME PoolInv, NEW r \in Calls, TimeOut(r) PROVE PoolInv'
<1>1. PICK i \in DOMAIN line : line[i] = r /\ line' = RemoveAt(line, i)
  BY DEF TimeOut, LeavesLine
<1> DEFINE k == IF call[r].at = "waiting" THEN NoCall ELSE [call[r] EXCEPT !.at = "finish"]
<1>2. call[r].at \in {"waiting", "second"} /\ UNCHANGED <<conns, known>> /\ call' = [call EXCEPT ![r] = k]
  BY DEF TimeOut
<1>3. k \in CallRecord /\ RequestOK(r) /\ call[r] \in CallRecord
  BY NoCallType, PoolTypes DEF CallRecord, PoolInv
<1>4. /\ call'[r] = k /\ call' \in [Calls -> CallRecord]
      /\ \A q \in Calls \ {r} : call'[q] = call[q]
  BY <1>2, <1>3, PoolTypes
<1>5. InLine' /\ line' \in Seq(Calls)
  BY <1>1, <1>4, LineLeft
<1>6. RequestOK(r)'
  <2>1. CASE call[r].at = "waiting"
    BY <1>4, <2>1 DEF RequestOK, HoldsOne, ContextSet, NoCall
  <2>2. CASE call[r].at = "second"
    <3>1. k.at = "finish" /\ k.on = call[r].on /\ k.second = call[r].second /\ k.home = call[r].home
      BY <1>3, <2>2 DEF CallRecord
    <3> HIDE DEF k
    <3> QED
      BY <1>2, <1>3, <1>4, <2>2, <3>1 DEF RequestOK, HoldsOne, ContextSet
  <2> QED
    BY <1>2, <2>1, <2>2
<1>7. \A q \in Calls \ {r} : RequestOK(q)'
  BY <1>2, <1>4, OthersStay
<1>8. PoolTypeOK' /\ FreeClean'
  BY <1>2, <1>4, <1>5, PoolTypes DEF PoolInv, PoolTypeOK, FreeClean
<1> QED
  BY <1>5, <1>6, <1>7, <1>8 DEF PoolInv

LEMMA GrantInv == ASSUME PoolInv, Grant PROVE PoolInv'
<1>0. PICK r \in Calls : r = Head(line) /\ line # <<>>
  BY PoolTypes DEF Grant
<1>1. PICK c \in FreeConns :
        /\ line' = Tail(line)
        /\ conns' = [conns EXCEPT ![c].holder = r]
        /\ call' = [call EXCEPT ![r] = GrantedTo(r, c)]
        /\ UNCHANGED known
  BY <1>0 DEF Grant
<1> DEFINE k == GrantedTo(r, c)
           x == [conns[c] EXCEPT !.holder = r]
<1>2. /\ Len(line) \in Nat /\ 1 \in DOMAIN line /\ r = line[1]
      /\ line' \in Seq(Calls) /\ Len(line') = Len(line) - 1
      /\ \A i \in DOMAIN line' : i + 1 \in DOMAIN line /\ i + 1 # 1 /\ line'[i] = line[i + 1] /\ i \in Nat
  BY <1>0, <1>1, PoolTypes
<1>3. /\ c \in Pool /\ conns[c] \in ConnRecord /\ conns[c].holder = NoOne /\ r # NoOne
      /\ call[r] \in CallRecord /\ call[r].at \in {"waiting", "second"} /\ RequestOK(r)
  BY <1>2, PoolTypes, PoolSets DEF FreeConns, PoolInv, InLine
<1>4. k \in CallRecord /\ x \in ConnRecord
  BY <1>2, <1>3, ConnTypes DEF GrantedTo, CallRecord
<1>5. /\ conns' = [conns EXCEPT ![c] = x] /\ conns' \in [Pool -> ConnRecord] /\ conns'[c] = x
      /\ \A d \in Pool \ {c} : conns'[d] = conns[d]
      /\ call' \in [Calls -> CallRecord] /\ call'[r] = k /\ \A q \in Calls \ {r} : call'[q] = call[q]
  BY <1>1, <1>2, <1>3, <1>4, PoolTypes
<1>6. x.holder = r /\ x.left = conns[c].left /\ x.tx = conns[c].tx
  BY <1>3, <1>4 DEF ConnRecord
<1>7. RequestOK(r)'
  <2>1. CASE call[r].at = "waiting"
    <3>1. k.at = "context" /\ k.on = c /\ k.second = call[r].second /\ k.home = call[r].home
         /\ k.tx = call[r].tx
      BY <1>3, <2>1 DEF GrantedTo, CallRecord
    <3>2. ~conns[c].left => conns[c].tx = "none"
      BY <1>3 DEF PoolInv, FreeClean
    <3> HIDE DEF k, x
    <3> QED
      BY <1>3, <1>5, <1>6, <2>1, <3>1, <3>2, PoolSets DEF RequestOK, HoldsOne, ContextSet, Clean, TxNone
  <2>2. CASE call[r].at = "second"
    <3>1. k.at = "lookup" /\ k.on = call[r].on /\ k.second = c /\ k.home = call[r].home
         /\ k.tx = call[r].tx
      BY <1>3, <2>2 DEF GrantedTo, CallRecord
    <3>2. call[r].on \in Pool /\ conns[call[r].on].holder = r
      BY <1>3, <2>2 DEF RequestOK, HoldsOne
    <3>3. call[r].on # c
      BY <1>3, <3>2
    <3>4. conns'[call[r].on] = conns[call[r].on]
      BY <1>5, <3>2, <3>3
    <3> HIDE DEF k, x
    <3> QED
      BY <1>3, <1>5, <1>6, <2>2, <3>1, <3>2, <3>3, <3>4
         DEF RequestOK, HoldsOne, ContextSet, Clean, TxNone, InOwnContext
  <2> QED
    BY <1>3, <2>1, <2>2
<1> HIDE DEF k, x
<1>8. \A q \in Calls \ {r} : RequestOK(q)'
  <2> TAKE q \in Calls \ {r}
  <2>1. /\ \A d \in Pool \ {c} : conns'[d] = conns[d]
        /\ \A d \in {c} \cap Pool : conns[d].holder # q
        /\ call'[q] = call[q]
    BY <1>3, <1>5, PoolSets
  <2> QED
    BY <2>1, OthersKeep
<1>9. InLine'
  <2>0. InLine
    BY DEF PoolInv
  <2>1. ASSUME NEW i \in DOMAIN line'
        PROVE  line'[i] \in Calls /\ line'[i] # r /\ call'[line'[i]].at \in {"waiting", "second"}
    <3>1. i + 1 \in DOMAIN line /\ i + 1 # 1 /\ line'[i] = line[i + 1]
      BY <1>2, <2>1
    <3>2. line[i + 1] \in Calls /\ call[line[i + 1]].at \in {"waiting", "second"} /\ line[i + 1] # line[1]
      BY <1>2, <2>0, <3>1, PoolTypes DEF InLine
    <3> QED
      BY <1>2, <1>5, <3>1, <3>2
  <2>2. ASSUME NEW i \in DOMAIN line', NEW j \in DOMAIN line', line'[i] = line'[j]
        PROVE  i = j
    <3>1. i + 1 = j + 1
      BY <1>2, <2>0, <2>2 DEF InLine
    <3> QED
      BY <1>2, <3>1
  <2> QED
    BY <2>1, <2>2 DEF InLine
<1>10. PoolTypeOK' /\ FreeClean'
  BY <1>1, <1>2, <1>3, <1>5, <1>6, PoolTypes DEF PoolInv, PoolTypeOK, FreeClean
<1> QED
  BY <1>2, <1>7, <1>8, <1>9, <1>10 DEF PoolInv

LEMMA LookupInv == ASSUME PoolInv, NEW r \in Calls, Lookup(r) PROVE PoolInv'
<1> DEFINE c == call[r].on
           d == call[r].second
<1>1. call[r].at = "lookup" /\ UNCHANGED line
  BY DEF Lookup
<1>2. /\ c \in Pool /\ conns[c] \in ConnRecord /\ conns[c].holder = r /\ r # NoOne
      /\ d \in Pool /\ conns[d] \in ConnRecord /\ conns[d].holder = r /\ c # d
      /\ call[r] \in CallRecord /\ RequestOK(r)
  BY <1>1, Working, PoolTypes DEF PoolInv, RequestOK, HoldsOne
<1>3. ASSUME NEW at \in {"finish", "handler"},
             call' = [call EXCEPT ![r].at = at, ![r].second = NoOne], conns'[c] = conns[c]
      PROVE  /\ [call[r] EXCEPT !.at = at, !.second = NoOne] \in CallRecord
             /\ call' = [call EXCEPT ![r] = [call[r] EXCEPT !.at = at, !.second = NoOne]]
             /\ RequestOK(r)'
  <2> DEFINE k == [call[r] EXCEPT !.at = at, !.second = NoOne]
  <2>1. k \in CallRecord /\ call' = [call EXCEPT ![r] = k]
    BY <1>2, <1>3, PoolTypes DEF CallRecord
  <2>2. /\ k.at = at /\ k.on = c /\ k.second = NoOne /\ k.home = call[r].home /\ k.tx = call[r].tx
        /\ call'[r] = k
    BY <1>2, <2>1, PoolTypes DEF CallRecord
  <2> HIDE DEF k
  <2>3. RequestOK(r)'
    BY <1>1, <1>2, <1>3, <2>2 DEF RequestOK, HoldsOne, ContextSet, Clean, TxNone, InOwnContext
  <2> QED
    BY <2>1, <2>3 DEF k
<1>4. CASE conns[d].tx = "failed"
  <2> DEFINE k == [call[r] EXCEPT !.at = "finish", !.second = NoOne]
             None == {}
  <2>1. call' = [call EXCEPT ![r].at = "finish", ![r].second = NoOne] /\ UNCHANGED <<conns, known>>
    BY <1>4 DEF Lookup
  <2>2. k \in CallRecord /\ call' = [call EXCEPT ![r] = k] /\ RequestOK(r)'
    BY <1>3, <2>1
  <2>3. /\ \A e \in Pool \ None : conns'[e] = conns[e]
        /\ \A e \in None \cap Pool : conns[e].holder = r
        /\ \A e \in None \cap Pool : conns'[e].holder = NoOne /\ ~conns'[e].left => conns'[e].tx = "none"
        /\ conns' \in [Pool -> ConnRecord] /\ known' \subseteq Homes
    BY <2>1, PoolTypes
  <2> HIDE DEF k, None
  <2> QED
    BY <1>1, <2>2, <2>3, OwnStep
<1>5. CASE conns[d].tx # "failed"
  <2> DEFINE k == [call[r] EXCEPT !.at = "handler", !.second = NoOne]
             x == GivenBack(Set(conns[d], "none"))
  <2>1. /\ call' = [call EXCEPT ![r].at = "handler", ![r].second = NoOne]
        /\ conns' = [conns EXCEPT ![d] = x] /\ known' = known \cup {call[r].home}
    BY <1>5 DEF Lookup
  <2>2. x \in ConnRecord /\ (x.tx # "none" => x.left)
    BY <1>2, ConnTypes, GivenBackLeft DEF Contexts
  <2>3. /\ conns' \in [Pool -> ConnRecord] /\ conns'[d] = x
        /\ \A e \in Pool \ {d} : conns'[e] = conns[e]
    BY <1>2, <2>1, <2>2, PoolTypes
  <2>4. k \in CallRecord /\ call' = [call EXCEPT ![r] = k] /\ RequestOK(r)'
    BY <1>2, <1>3, <2>1, <2>3
  <2>5. known' \subseteq Homes
    BY <1>1, <1>2, <2>1, PoolTypes DEF RequestOK, HoldsOne
  <2> HIDE DEF c, d, k, x
  <2>6. /\ \A e \in {d} \cap Pool : conns[e].holder = r
        /\ \A e \in {d} \cap Pool : conns'[e].holder = NoOne /\ ~conns'[e].left => conns'[e].tx = "none"
    BY <1>2, <2>2, <2>3
  <2> QED
    BY <1>1, <2>3, <2>4, <2>5, <2>6, OwnStep
<1> QED
  BY <1>4, <1>5

(***************************************************************************)
(* A statement of the handler of r leaves on its connection a context that *)
(* is its own, or comes back when the transaction is rolled back.          *)
(***************************************************************************)
Stays(c, x) ==
    /\ x \in ConnRecord /\ x.holder = c.holder /\ x.left = c.left

LEMMA HandlerStep ==
    ASSUME PoolInv, NEW r \in Calls, call[r].at = "handler", UNCHANGED <<line, known>>,
           NEW k \in CallRecord, call' = [call EXCEPT ![r] = k],
           k.at \in {"handler", "finish"}, k.on = call[r].on, k.second = call[r].second,
           k.home = call[r].home,
           NEW x, conns' = [conns EXCEPT ![call[r].on] = x], Stays(conns[call[r].on], x),
           conns[call[r].on].left \/ k.at = "finish"
             \/ /\ x.ctx = call[r].home /\ (x.tx = "none" \/ x.saved = call[r].home)
                /\ k.tx => x.tx # "none"
    PROVE  PoolInv'
<1> DEFINE c == call[r].on
<1>1. /\ c \in Pool /\ conns[c] \in ConnRecord /\ conns[c].holder = r /\ r # NoOne
      /\ RequestOK(r) /\ known' \subseteq Homes
  BY Working, PoolTypes DEF PoolInv
<1>2. x \in ConnRecord /\ x.holder = r /\ x.left = conns[c].left
  BY <1>1 DEF Stays
<1>3. /\ conns' \in [Pool -> ConnRecord] /\ conns'[c] = x /\ call'[r] = k
      /\ \A d \in Pool \ {c} : conns'[d] = conns[d]
  BY <1>1, <1>2, PoolTypes
<1>4. RequestOK(r)'
  BY <1>1, <1>2, <1>3 DEF RequestOK, HoldsOne, ContextSet, Clean, TxNone, InOwnContext
<1> HIDE DEF c
<1>5. /\ \A d \in {c} \cap Pool : conns[d].holder = r
      /\ \A d \in {c} \cap Pool : conns'[d].holder = NoOne /\ ~conns'[d].left => conns'[d].tx = "none"
  BY <1>1, <1>2, <1>3
<1> QED
  BY <1>1, <1>3, <1>4, <1>5, OwnStep

\* What is set on the connection of a handler.
LEMMA HandlerConn ==
    ASSUME PoolInv, NEW r \in Calls, call[r].at = "handler"
    PROVE  /\ call[r].on \in Pool /\ conns[call[r].on] \in ConnRecord /\ call[r] \in CallRecord
           /\ \/ conns[call[r].on].left
              \/ /\ conns[call[r].on].ctx = call[r].home
                 /\ conns[call[r].on].tx = "none" \/ conns[call[r].on].saved = call[r].home
                 /\ call[r].tx => conns[call[r].on].tx # "none"
BY Working, PoolTypes DEF PoolInv, RequestOK, ContextSet, Clean, TxNone, InOwnContext

\* A record of a request whose counter or transaction changes, or that finishes.
LEMMA RanType ==
    ASSUME NEW k \in CallRecord, NEW b \in BOOLEAN, NEW at \in {"handler", "finish"}
    PROVE  /\ k.todo > 0 => k.todo - 1 \in 0 .. MaxStatements
           /\ \A n \in 0 .. MaxStatements : [k EXCEPT !.todo = n, !.tx = b] \in CallRecord
           /\ [k EXCEPT !.tx = b] \in CallRecord
           /\ [k EXCEPT !.at = at] \in CallRecord
<1>1. k.todo \in 0 .. MaxStatements
  BY DEF CallRecord
<1>2. k.todo > 0 => k.todo - 1 \in 0 .. MaxStatements
  BY <1>1, PoolBound
<1> QED
  BY <1>2 DEF CallRecord

LEMMA BeginTxInv == ASSUME PoolInv, NEW r \in Calls, BeginTx(r) PROVE PoolInv'
<1> DEFINE c == conns[call[r].on]
           k == [call[r] EXCEPT !.todo = call[r].todo - 1, !.tx = TRUE]
           x == IF c.tx = "open" THEN c ELSE [c EXCEPT !.tx = "open", !.saved = c.ctx]
<1>1. /\ call[r].at = "handler" /\ call[r].todo > 0 /\ c.tx # "failed" /\ UNCHANGED <<line, known>>
      /\ conns' = [conns EXCEPT ![call[r].on] = x] /\ call' = [call EXCEPT ![r] = k]
  BY PoolTypes DEF BeginTx, Handling, Ran
<1>2. /\ call[r] \in CallRecord /\ c \in ConnRecord
      /\ \/ c.left
         \/ /\ c.ctx = call[r].home /\ (c.tx = "none" \/ c.saved = call[r].home)
            /\ call[r].tx => c.tx # "none"
  BY <1>1, HandlerConn
<1>3. /\ k \in CallRecord /\ k.at = "handler" /\ k.on = call[r].on /\ k.second = call[r].second
      /\ k.home = call[r].home
  <2>1. call[r].todo - 1 \in 0 .. MaxStatements
    BY <1>1, <1>2, RanType
  <2>2. k \in CallRecord
    BY <1>2, <2>1, RanType
  <2> QED
    BY <1>1, <1>2, <2>2 DEF CallRecord
<1>4. Stays(c, x) /\ (c.left \/ (x.ctx = call[r].home /\ x.saved = call[r].home /\ x.tx = "open"))
  <2>1. CASE c.tx = "open"
    BY <1>2, <2>1 DEF Stays
  <2>2. CASE c.tx # "open"
    BY <1>2, <2>2, ConnTypes DEF Stays, ConnRecord
  <2> QED
    BY <2>1, <2>2
<1> HIDE DEF k, x
<1> QED
  BY <1>1, <1>3, <1>4, HandlerStep

LEMMA StatementInv == ASSUME PoolInv, NEW r \in Calls, Statement(r) PROVE PoolInv'
<1> DEFINE c == conns[call[r].on]
           k == [call[r] EXCEPT !.todo = call[r].todo - 1, !.tx = call[r].tx]
<1>1. PICK ok \in BOOLEAN :
        /\ call[r].at = "handler" /\ call[r].todo > 0 /\ UNCHANGED <<line, known>>
        /\ conns' = IF ~ok /\ c.tx = "open" THEN [conns EXCEPT ![call[r].on].tx = "failed"] ELSE conns
        /\ call' = [call EXCEPT ![r] = k]
  BY PoolTypes DEF Statement, Handling, Ran
<1> DEFINE x == IF ~ok /\ c.tx = "open" THEN [c EXCEPT !.tx = "failed"] ELSE c
<1>2. /\ call[r] \in CallRecord /\ c \in ConnRecord
      /\ \/ c.left
         \/ /\ c.ctx = call[r].home /\ (c.tx = "none" \/ c.saved = call[r].home)
            /\ call[r].tx => c.tx # "none"
  BY <1>1, HandlerConn
<1>3. /\ k \in CallRecord /\ k.at = "handler" /\ k.on = call[r].on /\ k.second = call[r].second
      /\ k.home = call[r].home /\ k.tx = call[r].tx
  <2>1. call[r].tx \in BOOLEAN
    BY <1>2 DEF CallRecord
  <2>2. call[r].todo - 1 \in 0 .. MaxStatements
    BY <1>1, <1>2, RanType
  <2>3. k \in CallRecord
    BY <1>2, <2>1, <2>2, RanType
  <2> QED
    BY <1>1, <1>2, <2>3 DEF CallRecord
<1>4. Stays(c, x) /\ (c.left \/ (x.ctx = call[r].home /\ (x.tx = "none" \/ x.saved = call[r].home)
                                /\ (call[r].tx => x.tx # "none")))
  <2>1. CASE x = c
    BY <1>2, <2>1 DEF Stays
  <2>2. CASE x = [c EXCEPT !.tx = "failed"] /\ c.tx = "open"
    BY <1>2, <2>2, ConnTypes DEF Stays, ConnRecord
  <2> QED
    BY <2>1, <2>2
<1>5. conns' = [conns EXCEPT ![call[r].on] = x]
  BY <1>1, PoolTypes
<1> HIDE DEF k, x
<1> QED
  BY <1>1, <1>3, <1>4, <1>5, HandlerStep

LEMMA EndTxInv == ASSUME PoolInv, NEW r \in Calls, EndTx(r) PROVE PoolInv'
<1> DEFINE c == conns[call[r].on]
           k == [call[r] EXCEPT !.tx = FALSE]
<1>1. PICK x \in {Committed(c), RolledBack(c)} :
        /\ call[r].at = "handler" /\ UNCHANGED <<line, known>>
        /\ conns' = [conns EXCEPT ![call[r].on] = x]
        /\ call' = [call EXCEPT ![r] = k]
        /\ call[r].tx
  BY PoolTypes DEF EndTx, Handling
<1>2. /\ call[r] \in CallRecord /\ c \in ConnRecord
      /\ \/ c.left
         \/ /\ c.ctx = call[r].home /\ (c.tx = "none" \/ c.saved = call[r].home)
            /\ call[r].tx => c.tx # "none"
  BY <1>1, HandlerConn
<1>3. /\ k \in CallRecord /\ k.at = "handler" /\ k.on = call[r].on /\ k.second = call[r].second
      /\ k.home = call[r].home /\ ~k.tx
  <2>1. k \in CallRecord
    BY <1>2, RanType
  <2> QED
    BY <1>1, <1>2, <2>1 DEF CallRecord
<1>4. Stays(c, x) /\ (c.left \/ x.ctx = call[r].home) /\ x.tx = "none"
  <2>1. CASE x = Committed(c)
    BY <1>2, <2>1, ConnTypes DEF Stays, Committed, ConnRecord
  <2>2. CASE x = RolledBack(c)
    <3>1. /\ x.ctx = c.saved /\ x.tx = "none" /\ x.holder = c.holder /\ x.left = c.left
          /\ x \in ConnRecord
      BY <1>2, <2>2, ConnTypes DEF RolledBack, Committed, ConnRecord
    <3> HIDE DEF c
    <3> QED
      BY <1>1, <1>2, <3>1 DEF Stays
  <2> QED
    BY <2>1, <2>2
<1> HIDE DEF k
<1> QED
  BY <1>1, <1>3, <1>4, HandlerStep

\* Respond and Hangup.
LEMMA FinishInv == ASSUME PoolInv, NEW r \in Calls, Respond(r) \/ Hangup(r) PROVE PoolInv'
<1> DEFINE c == conns[call[r].on]
           k == [call[r] EXCEPT !.at = "finish"]
<1>1. /\ call[r].at = "handler" /\ UNCHANGED <<conns, line, known>>
      /\ call' = [call EXCEPT ![r] = k]
  BY PoolTypes DEF Respond, Hangup, Handling
<1>2. call[r] \in CallRecord /\ c \in ConnRecord /\ call[r].on \in Pool
  BY <1>1, HandlerConn
<1>3. /\ k \in CallRecord /\ k.at = "finish" /\ k.on = call[r].on /\ k.second = call[r].second
      /\ k.home = call[r].home
  <2>1. k \in CallRecord
    BY <1>2, RanType
  <2> QED
    BY <1>2, <2>1 DEF CallRecord
<1>4. Stays(c, c)
  BY <1>2 DEF Stays
<1>5. conns' = [conns EXCEPT ![call[r].on] = c]
  BY <1>1, <1>2, PoolTypes
<1> HIDE DEF k, c
<1> QED
  BY <1>1, <1>3, <1>4, <1>5, HandlerStep DEF c

LEMMA ReleaseInv == ASSUME PoolInv, NEW r \in Calls, Release(r) PROVE PoolInv'
<1> DEFINE c == call[r].on
<1>1. PICK y \in {Set(conns[c], "none"), conns[c]} :
        /\ call[r].at = "finish" /\ UNCHANGED <<line, known>>
        /\ conns' = [conns EXCEPT ![c] = GivenBack(y)]
        /\ call' = [call EXCEPT ![r] = NoCall]
  BY DEF Release
<1>2. c \in Pool /\ conns[c] \in ConnRecord /\ conns[c].holder = r
  BY <1>1, Working
<1> DEFINE x == GivenBack(y)
<1>3. x \in ConnRecord /\ (x.tx # "none" => x.left)
  <2>1. y \in ConnRecord
    BY <1>2, ConnTypes DEF Contexts
  <2> QED
    BY <2>1, ConnTypes, GivenBackLeft
<1> HIDE DEF x
<1>4. /\ conns' \in [Pool -> ConnRecord] /\ conns'[c] = x /\ known' \subseteq Homes
      /\ \A d \in Pool \ {c} : conns'[d] = conns[d]
  BY <1>1, <1>2, <1>3, PoolTypes DEF x
<1>5. RequestOK(r)'
  BY <1>1, PoolTypes DEF RequestOK, HoldsOne, ContextSet, NoCall
<1> HIDE DEF c
<1>6. /\ \A d \in {c} \cap Pool : conns[d].holder = r
      /\ \A d \in {c} \cap Pool : conns'[d].holder = NoOne /\ ~conns'[d].left => conns'[d].tx = "none"
  BY <1>2, <1>3, <1>4
<1> QED
  BY <1>1, <1>4, <1>5, <1>6, NoCallType, OwnStep

\* A step that changes nothing but free connections and what is known.
LEMMA FreeStep ==
    ASSUME PoolInv, UNCHANGED <<call, line>>, known' \subseteq Homes, NEW S,
           \A d \in Pool \ S : conns'[d] = conns[d],
           \A d \in S \cap Pool : conns[d].holder = NoOne /\ conns'[d] = Fresh,
           conns' \in [Pool -> ConnRecord]
    PROVE  PoolInv'
<1>1. PoolTypeOK' /\ InLine'
  BY PoolTypes DEF PoolTypeOK, PoolInv, InLine
<1>2. FreeClean'
  BY DEF PoolInv, FreeClean, Fresh
<1>3. ASSUME NEW q \in Calls PROVE RequestOK(q)'
  <2>1. \A d \in S \cap Pool : conns[d].holder # q
    BY PoolSets
  <2> QED
    BY <2>1, OthersKeep
<1> QED
  BY <1>1, <1>2, <1>3 DEF PoolInv

LEMMA EvictInv == ASSUME PoolInv, Evict PROVE PoolInv'
<1>1. PICK c \in FreeConns : conns' = [conns EXCEPT ![c] = Fresh] /\ UNCHANGED <<call, line, known>>
  BY DEF Evict
<1>2. /\ known' \subseteq Homes
      /\ \A d \in Pool \ {c} : conns'[d] = conns[d]
      /\ \A d \in {c} \cap Pool : conns[d].holder = NoOne /\ conns'[d] = Fresh
      /\ conns' \in [Pool -> ConnRecord]
  BY <1>1, PoolTypes, NoCallType DEF FreeConns
<1> QED
  BY <1>1, <1>2, FreeStep

LEMMA SameConns ==
    ASSUME PoolInv, UNCHANGED <<conns, call, line>>, known' \subseteq Homes
    PROVE  PoolInv'
<1> DEFINE None == {}
<1>1. /\ \A d \in Pool \ None : conns'[d] = conns[d]
      /\ \A d \in None \cap Pool : conns[d].holder = NoOne /\ conns'[d] = Fresh
      /\ conns' \in [Pool -> ConnRecord]
  BY PoolTypes
<1> QED
  BY <1>1, FreeStep

LEMMA NextInv == ASSUME PoolInv, [PoolNext]_poolVars PROVE PoolInv'
<1>1. CASE Grant
  BY <1>1, GrantInv
<1>2. CASE ForgetBranch
  BY <1>2, PoolTypes, SameConns DEF ForgetBranch
<1>3. CASE Evict
  BY <1>3, EvictInv
<1>4. ASSUME NEW r \in Calls, Arrive(r) PROVE PoolInv'
  BY <1>4, ArriveInv
<1>5. ASSUME NEW r \in Calls, Step(r) PROVE PoolInv'
  BY <1>5, TimeOutInv, SetContextInv, CheckInv, LookupInv, BeginTxInv, StatementInv, EndTxInv,
     FinishInv, ReleaseInv DEF Step
<1>6. CASE UNCHANGED poolVars
  BY <1>6, PoolTypes, SameConns DEF poolVars
<1> QED
  BY <1>1, <1>2, <1>3, <1>4, <1>5, <1>6 DEF PoolNext
-----------------------------------------------------------------------------
(***************************************************************************)
(* Theorems.                                                               *)
(***************************************************************************)
\* The invariant that is inductive.
THEOREM PoolInductive == PoolSpec => []PoolInv
<1>1. PoolInit => PoolInv
  BY InitInv
<1>2. PoolInv /\ [PoolNext]_poolVars => PoolInv'
  BY NextInv
<1> QED
  BY <1>1, <1>2, PTL DEF PoolSpec

\* Connections and requests always have their types.
THEOREM PoolTypesHold == PoolSpec => []PoolTypeOK
<1>1. PoolInv => PoolTypeOK
  BY DEF PoolInv
<1> QED
  BY <1>1, PoolInductive, PTL

\* Two requests never work on one connection.
THEOREM OneHolderHolds == PoolSpec => []OneHolder
<1>1. ASSUME PoolInv PROVE OneHolder
  <2>1. ASSUME NEW r \in Calls
        PROVE  /\ \A c \in {call[r].on, call[r].second} \ {NoOne} : conns[c].holder = r
               /\ call[r].on # NoOne => call[r].on # call[r].second
    <3>1. RequestOK(r) /\ call[r] \in CallRecord
      BY <1>1, PoolTypes DEF PoolInv
    <3>2. call[r].at \in Checks \cup {"idle", "waiting", "handler", "finish"}
      BY <3>1 DEF CallRecord
    <3> QED
      BY <3>1, <3>2, PoolSets DEF RequestOK, HoldsOne
  <2> QED
    BY <2>1 DEF OneHolder
<1> QED
  BY <1>1, PoolInductive, PTL

\* The statements of a request run for its own branch, whatever fails, hangs up or
\* is left behind on other connections.
THEOREM WorksForOwnBranchHolds == PoolSpec => []WorksForOwnBranch
<1>1. ASSUME PoolInv PROVE WorksForOwnBranch
  BY <1>1 DEF PoolInv, RequestOK, ContextSet, Clean, WorksForOwnBranch, Handling, InOwnContext
<1> QED
  BY <1>1, PoolInductive, PTL

(***************************************************************************)
(* Retention: what a cleaner still holds is what it may delete.            *)
(***************************************************************************)

AgedRecord == [there: BOOLEAN, closed: BOOLEAN, old: BOOLEAN, parts: SUBSET AllParts]
StatementSet(kind) == IF kind = 1 THEN {"payment", "detail", "item", "order"}
                      ELSE IF kind = 2 THEN {"detail", "item", "order"} ELSE {"log"}

\* What a cleaner holds, wherever it is: rows of its kind, and of their parts
\* those that it has deleted so far.
CleanerFits(k) ==
  /\ DOMAIN k = {"at", "kind", "left", "ids", "gone"}
  /\ k.kind \in 1..3 /\ k.left \in 0..MaxBatches
  /\ k.at \in {"asleep", "count", "fetch"} \cup StatementSet(k.kind)
  /\ k.ids \subseteq Kinds[k.kind] /\ k.gone \subseteq k.ids \X AllParts
  /\ k.at \in {"asleep", "count", "fetch", "log"} => k.gone = {}

\* What it deletes is old, and of a kind that the settings let go.
MayDelete(k) ==
  /\ \A o \in k.ids : aged[o].old
  /\ k.at \notin {"asleep", "count"} => ~DryRun(k.kind)

RowsFit == /\ aged \in [Aging -> AgedRecord] /\ given \in [Aging -> SUBSET AllParts]
           /\ \A o \in Aging : aged[o].parts \subseteq PartsOfRow(o)
CleanersFit == /\ cleaner = [c \in Cleaners |-> cleaner[c]]
               /\ \A c \in Cleaners : CleanerFits(cleaner[c]) /\ MayDelete(cleaner[c])

RetentionInv ==
  /\ env \in Settings /\ restarts \in 0..MaxRestarts
  /\ RowsFit /\ CleanersFit /\ GoesWhole

LEMMA KindsAre ==
  /\ Kinds[1] = Sales /\ Kinds[2] = Purchases /\ Kinds[3] = Entries
  /\ \A kind \in 1..3 : Kinds[kind] \subseteq Aging
  /\ \A k1, k2 \in 1..3 : k1 # k2 => Kinds[k1] \cap Kinds[k2] = {}
<1>1. Kinds[1] = Sales /\ Kinds[2] = Purchases /\ Kinds[3] = Entries
  BY DEF Kinds
<1>2. \A kind \in 1..3 : kind = 1 \/ kind = 2 \/ kind = 3
  OBVIOUS
<1> QED
  BY <1>1, <1>2, TablesApart DEF Aging

LEMMA PartsAre ==
  /\ \A o \in Aging : PartsOfRow(o) \subseteq AllParts
  /\ \A o \in Entries : PartsOfRow(o) = {}
  /\ OfKind("item") \subseteq AllParts /\ OfKind("detail") \subseteq AllParts /\ OfKind("payment") \subseteq AllParts
BY TablesApart DEF PartsOfRow, AllParts

LEMMA FirstStatement ==
  ASSUME NEW kind \in 1..3
  PROVE  Statements(kind)[1] \in StatementSet(kind)
<1>1. Statements(1)[1] = "payment" /\ Statements(2)[1] = "detail" /\ Statements(3)[1] = "log"
  BY DEF Statements, OrderSteps, PurchaseSteps, LogSteps
<1>2. kind = 1 \/ kind = 2 \/ kind = 3
  OBVIOUS
<1> QED
  BY <1>1, <1>2 DEF StatementSet

LEMMA NextStatement ==
  ASSUME NEW c \in Cleaners, CleanerFits(cleaner[c]), cleaner[c].at \in {"payment", "detail", "item"}
  PROVE  After(c) \in StatementSet(cleaner[c].kind) \ {"log"}
<1> DEFINE at == cleaner[c].at
           kind == cleaner[c].kind
           all == Statements(kind)
           i == CHOOSE j \in DOMAIN all : all[j] = at
<1>1. kind \in {1, 2} /\ (kind = 2 => at \in {"detail", "item"})
  BY DEF CleanerFits, StatementSet
<1>2. After(c) = all[1 + i]
  BY DEF After
<1>3. CASE kind = 1
  <2>1. all = OrderSteps
    BY <1>3 DEF Statements
  <2>2. /\ DOMAIN all = {1, 2, 3, 4} /\ all[1] = "payment" /\ all[2] = "detail" /\ all[3] = "item"
        /\ all[4] = "order"
    BY <2>1 DEF OrderSteps
  <2> HIDE DEF all, at
  <2>3. \E j \in DOMAIN all : all[j] = at
    BY <2>2 DEF at
  <2>4. i \in {1, 2, 3, 4} /\ all[i] = at
    BY <2>2, <2>3
  <2> HIDE DEF i
  <2>5. i \in {1, 2, 3}
    BY <2>2, <2>4 DEF at
  <2>6. all[1 + i] \in {"detail", "item", "order"}
    BY <2>2, <2>5
  <2> QED
    BY <1>2, <1>3, <2>6 DEF StatementSet
<1>4. CASE kind = 2
  <2>1. all = PurchaseSteps
    BY <1>4 DEF Statements
  <2>2. DOMAIN all = {1, 2, 3} /\ all[1] = "detail" /\ all[2] = "item" /\ all[3] = "order"
    BY <2>1 DEF PurchaseSteps
  <2>0. at \in {"detail", "item"}
    BY <1>1, <1>4
  <2> HIDE DEF all, at
  <2>3. \E j \in DOMAIN all : all[j] = at
    BY <2>0, <2>2
  <2>4. i \in {1, 2, 3} /\ all[i] = at
    BY <2>2, <2>3
  <2> HIDE DEF i
  <2>5. i \in {1, 2}
    BY <2>0, <2>2, <2>4
  <2>6. all[1 + i] \in {"item", "order"}
    BY <2>2, <2>5
  <2> QED
    BY <1>2, <1>4, <2>6 DEF StatementSet
<1> QED
  BY <1>1, <1>3, <1>4

\* A step of one cleaner that changes no row.
LEMMA CleanerMoves ==
  ASSUME RetentionInv, NEW c \in Cleaners, NEW k, CleanerFits(k), MayDelete(k), Goes(c, k),
         env' = env, aged' = aged, given' = given, restarts' \in 0..MaxRestarts
  PROVE  RetentionInv'
<1>1. /\ cleaner' = [d \in Cleaners |-> cleaner'[d]]
      /\ \A d \in Cleaners : cleaner'[d] = IF d = c THEN k ELSE cleaner[d]
  BY DEF Goes, RetentionInv, CleanersFit
<1>2. \A kind : DryRun(kind) <=> DryRun(kind)'
  BY DEF DryRun, Enabled
<1>3. \A d \in Cleaners : CleanerFits(cleaner'[d]) /\ MayDelete(cleaner'[d])
  BY <1>1 DEF RetentionInv, CleanersFit
<1>4. \A d \in Cleaners : MayDelete(cleaner[d])'
  BY <1>2, <1>3 DEF MayDelete
<1>5. CleanersFit'
  BY <1>1, <1>3, <1>4 DEF CleanersFit
<1>6. RowsFit' /\ GoesWhole'
  BY <1>2 DEF RowsFit, GoesWhole, RetentionInv
<1> QED
  BY <1>5, <1>6 DEF RetentionInv

LEMMA IdleFits ==
  /\ CleanerFits(NoCleaner) /\ MayDelete(NoCleaner)
  /\ \A kind \in 1..3 : LET k == [NoCleaner EXCEPT !.at = "count", !.kind = kind]
                        IN  CleanerFits(k) /\ MayDelete(k)
  /\ LET k == [NoCleaner EXCEPT !.at = "count"] IN CleanerFits(k) /\ MayDelete(k)
<1>1. MaxBatches \in Nat
  BY RetentionBounds
<1>2. CleanerFits(NoCleaner) /\ MayDelete(NoCleaner)
  BY <1>1 DEF CleanerFits, MayDelete, NoCleaner
<1>3. ASSUME NEW kind \in 1..3
      PROVE  LET k == [NoCleaner EXCEPT !.at = "count", !.kind = kind] IN CleanerFits(k) /\ MayDelete(k)
  BY <1>1 DEF CleanerFits, MayDelete, NoCleaner
<1>4. LET k == [NoCleaner EXCEPT !.at = "count"] IN CleanerFits(k) /\ MayDelete(k)
  BY <1>1 DEF CleanerFits, MayDelete, NoCleaner
<1> QED
  BY <1>2, <1>3, <1>4

LEMMA NextKindKeeps ==
  ASSUME RetentionInv, NEW c \in Cleaners, NextKind(c, cleaner[c].kind), Keeps
  PROVE  RetentionInv'
<1>1. cleaner[c].kind \in 1..3 /\ restarts' \in 0..MaxRestarts
  BY DEF RetentionInv, CleanersFit, CleanerFits, Keeps
<1>2. CASE cleaner[c].kind = 3
  BY <1>1, <1>2, IdleFits, CleanerMoves DEF NextKind, EndsCycle, Keeps
<1>3. CASE cleaner[c].kind # 3
  <2>1. cleaner[c].kind + 1 \in 1..3
    BY <1>1, <1>3
  <2>2. Goes(c, [NoCleaner EXCEPT !.at = "count", !.kind = cleaner[c].kind + 1])
    BY <1>3 DEF NextKind
  <2> QED
    BY <1>1, <2>1, <2>2, IdleFits, CleanerMoves DEF Keeps
<1> QED
  BY <1>2, <1>3

LEMMA RunKeeps ==
  ASSUME RetentionInv, NEW c \in Cleaners, RunCycle(c)
  PROVE  RetentionInv'
BY IdleFits, CleanerMoves DEF RunCycle, Keeps, RetentionInv

LEMMA CountKeeps ==
  ASSUME RetentionInv, NEW c \in Cleaners, CountCandidates(c)
  PROVE  RetentionInv'
<1> DEFINE kind == cleaner[c].kind
           k == [cleaner[c] EXCEPT !.at = "fetch", !.left = MaxBatches]
<1>1. /\ cleaner[c].at = "count" /\ Keeps
      /\ IF DryRun(kind) \/ Candidates(kind) = {} THEN NextKind(c, kind) ELSE Goes(c, k)
  BY DEF CountCandidates, At
<1>2. CASE DryRun(kind) \/ Candidates(kind) = {}
  BY <1>1, <1>2, NextKindKeeps
<1>3. CASE ~(DryRun(kind) \/ Candidates(kind) = {})
  <2>1. CleanerFits(cleaner[c]) /\ MayDelete(cleaner[c])
    BY DEF RetentionInv, CleanersFit
  <2>2. /\ DOMAIN k = {"at", "kind", "left", "ids", "gone"} /\ k.at = "fetch" /\ k.left = MaxBatches
        /\ k.kind = cleaner[c].kind /\ k.ids = cleaner[c].ids /\ k.gone = cleaner[c].gone
    BY <2>1 DEF CleanerFits
  <2>3. Goes(c, k) /\ ~DryRun(cleaner[c].kind)
    BY <1>1, <1>3
  <2> HIDE DEF k
  <2>4. CleanerFits(k)
    BY <1>1, <2>1, <2>2, RetentionBounds DEF CleanerFits
  <2>5. MayDelete(k)
    BY <2>1, <2>2, <2>3 DEF MayDelete
  <2> QED
    BY <1>1, <2>3, <2>4, <2>5, CleanerMoves DEF Keeps, RetentionInv
<1> QED
  BY <1>2, <1>3

LEMMA CandidatesFit ==
  ASSUME NEW kind \in 1..3
  PROVE  /\ Candidates(kind) \subseteq Kinds[kind]
         /\ \A o \in Candidates(kind) : aged[o].old
<1>1. /\ Candidates(1) = OrderCandidates /\ Candidates(2) = PurchaseCandidates /\ Candidates(3) = LogCandidates
  BY DEF Candidates
<1>2. kind = 1 \/ kind = 2 \/ kind = 3
  OBVIOUS
<1> QED
  BY <1>1, <1>2, KindsAre DEF OrderCandidates, PurchaseCandidates, LogCandidates, Old

LEMMA FetchKeepsAll ==
  ASSUME RetentionInv, NEW c \in Cleaners, FetchCandidateIds(c)
  PROVE  RetentionInv'
<1> DEFINE kind == cleaner[c].kind
           found == Candidates(kind)
<1>0. cleaner[c].at = "fetch" /\ Keeps
  BY DEF FetchCandidateIds, At
<1>1. CASE NextKind(c, kind)
  BY <1>0, <1>1, NextKindKeeps
<1>2. CASE /\ cleaner[c].left > 0 /\ found # {}
           /\ \E ids \in SUBSET found :
                Goes(c, [cleaner[c] EXCEPT !.ids = ids, !.left = @ - 1, !.at = Statements(kind)[1]])
  <2>1. PICK ids \in SUBSET found :
          Goes(c, [cleaner[c] EXCEPT !.ids = ids, !.left = @ - 1, !.at = Statements(kind)[1]])
    BY <1>2
  <2> DEFINE k == [cleaner[c] EXCEPT !.ids = ids, !.left = cleaner[c].left - 1, !.at = Statements(kind)[1]]
  <2>2. CleanerFits(cleaner[c]) /\ MayDelete(cleaner[c]) /\ kind \in 1..3
    BY DEF RetentionInv, CleanersFit, CleanerFits
  <2>3. /\ DOMAIN k = {"at", "kind", "left", "ids", "gone"} /\ k.at = Statements(kind)[1]
        /\ k.left = cleaner[c].left - 1 /\ k.kind = kind /\ k.ids = ids /\ k.gone = cleaner[c].gone
    BY <2>2 DEF CleanerFits
  <2>4. Goes(c, k)
    BY <2>1
  <2> HIDE DEF k
  <2>5. k.left \in 0..MaxBatches
    BY <1>2, <2>2, <2>3, RetentionBounds DEF CleanerFits
  <2>6. k.gone = {}
    BY <1>0, <2>2, <2>3 DEF CleanerFits
  <2>7. k.at \in StatementSet(kind) /\ ids \subseteq Kinds[kind] /\ \A o \in ids : aged[o].old
    BY <2>2, <2>3, FirstStatement, CandidatesFit
  <2>8. CleanerFits(k)
    BY <2>2, <2>3, <2>5, <2>6, <2>7 DEF CleanerFits
  <2>9. MayDelete(k)
    BY <1>0, <2>2, <2>3, <2>7 DEF MayDelete
  <2> QED
    BY <1>0, <2>4, <2>8, <2>9, CleanerMoves DEF Keeps, RetentionInv
<1> QED
  BY <1>1, <1>2 DEF FetchCandidateIds

\* A statement that has found rows of the batch, and goes on.
LEMMA DeletionGoesOn ==
  ASSUME RetentionInv, NEW c \in Cleaners, cleaner[c].at \in {"payment", "detail", "item"},
         NEW rows, rows \subseteq cleaner[c].ids \X AllParts, Keeps,
         Goes(c, [cleaner[c] EXCEPT !.gone = @ \cup rows, !.at = After(c)])
  PROVE  RetentionInv'
<1> DEFINE k == [cleaner[c] EXCEPT !.gone = cleaner[c].gone \cup rows, !.at = After(c)]
<1>1. Goes(c, k)
  OBVIOUS
<1>2. CleanerFits(cleaner[c]) /\ MayDelete(cleaner[c])
  BY DEF RetentionInv, CleanersFit
<1>3. /\ DOMAIN k = {"at", "kind", "left", "ids", "gone"} /\ k.at = After(c)
      /\ k.left = cleaner[c].left /\ k.kind = cleaner[c].kind /\ k.ids = cleaner[c].ids
      /\ k.gone = cleaner[c].gone \cup rows
  BY <1>2 DEF CleanerFits
<1> HIDE DEF k
<1>4. k.at \in StatementSet(k.kind) \ {"log"}
  BY <1>2, <1>3, NextStatement
<1>5. k.at \notin {"asleep", "count", "fetch", "log"}
  BY <1>4 DEF StatementSet
<1>6. CleanerFits(k)
  BY <1>2, <1>3, <1>4, <1>5 DEF CleanerFits
<1>7. MayDelete(k)
  BY <1>2, <1>3 DEF MayDelete
<1> QED
  BY <1>1, <1>6, <1>7, CleanerMoves DEF Keeps, RetentionInv

LEMMA EndKeeps ==
  ASSUME RetentionInv, NEW c \in Cleaners, Goes(c, NoCleaner), env' = env, aged' = aged, given' = given,
         restarts' \in 0..MaxRestarts
  PROVE  RetentionInv'
BY IdleFits, CleanerMoves

LEMMA PartsKeep ==
  ASSUME RetentionInv, NEW c \in Cleaners, DeleteParts(c) \/ DeleteItems(c)
  PROVE  RetentionInv'
<1>1. CASE DeleteParts(c)
  <2> DEFINE rows == PartsLeft(c, OfKind(cleaner[c].at))
  <2>1. /\ cleaner[c].at \in {"payment", "detail"} /\ Keeps
        /\ Goes(c, [cleaner[c] EXCEPT !.gone = @ \cup rows, !.at = After(c)])
    BY <1>1 DEF DeleteParts
  <2>2. rows \subseteq cleaner[c].ids \X AllParts
    BY <2>1, PartsAre DEF PartsLeft
  <2> HIDE DEF rows
  <2> QED
    BY <2>1, <2>2, DeletionGoesOn
<1>2. CASE DeleteItems(c)
  <2> DEFINE rows == PartsLeft(c, OfKind("item"))
  <2>1. /\ cleaner[c].at = "item" /\ Keeps
        /\ \/ Goes(c, NoCleaner)
           \/ Goes(c, [cleaner[c] EXCEPT !.gone = @ \cup rows, !.at = After(c)])
    BY <1>2 DEF DeleteItems, At, EndsCycle
  <2>2. rows \subseteq cleaner[c].ids \X AllParts
    BY PartsAre DEF PartsLeft
  <2> HIDE DEF rows
  <2>3. CASE Goes(c, NoCleaner)
    BY <2>1, <2>3, EndKeeps DEF Keeps, RetentionInv
  <2> QED
    BY <2>1, <2>2, <2>3, DeletionGoesOn
<1> QED
  BY <1>1, <1>2
\* A step that changes rows: what is old stays old.
LEMMA RowsChange ==
  ASSUME RetentionInv, env' = env, restarts' = restarts, RowsFit', GoesWhole',
         \A o \in Aging : aged[o].old => aged'[o].old,
         cleaner' = [c \in Cleaners |-> cleaner'[c]],
         \A c \in Cleaners : cleaner'[c] = cleaner[c] \/ (CleanerFits(cleaner'[c]) /\ MayDelete(cleaner'[c]))
  PROVE  RetentionInv'
<1>1. \A kind : DryRun(kind) <=> DryRun(kind)'
  BY DEF DryRun, Enabled
<1>2. \A c \in Cleaners : CleanerFits(cleaner'[c]) /\ MayDelete(cleaner'[c])
  BY DEF RetentionInv, CleanersFit
<1>3. \A c \in Cleaners : cleaner'[c].ids \subseteq Aging
  BY <1>2, KindsAre DEF CleanerFits
<1>4. \A c \in Cleaners : MayDelete(cleaner[c])'
  BY <1>1, <1>2, <1>3 DEF MayDelete
<1>5. CleanersFit'
  BY <1>2, <1>4 DEF CleanersFit
<1> QED
  BY <1>5 DEF RetentionInv

LEMMA RowRecord ==
  ASSUME RowsFit, NEW o \in Aging
  PROVE  /\ DOMAIN aged[o] = {"there", "closed", "old", "parts"}
         /\ aged[o].there \in BOOLEAN /\ aged[o].closed \in BOOLEAN /\ aged[o].old \in BOOLEAN
         /\ aged[o].parts \subseteq PartsOfRow(o)
BY DEF RowsFit, AgedRecord

\* What is left of the rows without the parts that were deleted.
LEMMA WithoutIs ==
  ASSUME RowsFit, NEW gone, NEW o \in Aging
  PROVE  /\ DOMAIN Without(gone)[o] = {"there", "closed", "old", "parts"}
         /\ Without(gone)[o].there = aged[o].there /\ Without(gone)[o].closed = aged[o].closed
         /\ Without(gone)[o].old = aged[o].old
         /\ Without(gone)[o].parts = {p \in aged[o].parts : <<o, p>> \notin gone}
<1>1. Without(gone)[o] = [aged[o] EXCEPT !.parts = {p \in aged[o].parts : <<o, p>> \notin gone}]
  BY DEF Without
<1> QED
  BY <1>1, RowRecord

\* The batch goes: each of its rows with all of its parts.
LEMMA BatchGoes ==
  ASSUME RetentionInv, NEW c \in Cleaners, cleaner[c].at \notin {"asleep", "count"},
         \A o \in cleaner[c].ids : \A p \in aged[o].parts : <<o, p>> \in cleaner[c].gone,
         aged' = [o \in Aging |-> IF o \in cleaner[c].ids THEN [Without(cleaner[c].gone)[o] EXCEPT !.there = FALSE]
                                  ELSE Without(cleaner[c].gone)[o]],
         Goes(c, [cleaner[c] EXCEPT !.at = "fetch", !.ids = {}, !.gone = {}]),
         env' = env, given' = given, restarts' = restarts
  PROVE  RetentionInv'
<1> DEFINE k == cleaner[c]
           W == Without(k.gone)
<1>1. CleanerFits(k) /\ MayDelete(k) /\ RowsFit /\ GoesWhole
  BY DEF RetentionInv, CleanersFit
<1>2. \A o \in Aging :
        /\ DOMAIN W[o] = {"there", "closed", "old", "parts"}
        /\ W[o].there = aged[o].there /\ W[o].closed = aged[o].closed /\ W[o].old = aged[o].old
        /\ W[o].parts = {p \in aged[o].parts : <<o, p>> \notin k.gone}
  BY <1>1, WithoutIs
<1>3. \A o \in Aging : o \notin k.ids => W[o].parts = aged[o].parts
  <2> SUFFICES ASSUME NEW o \in Aging, o \notin k.ids PROVE W[o].parts = aged[o].parts
    OBVIOUS
  <2>1. \A p : <<o, p>> \notin k.gone
    BY <1>1 DEF CleanerFits
  <2>2. W[o].parts = {p \in aged[o].parts : <<o, p>> \notin k.gone}
    BY <1>2
  <2> QED
    BY <2>1, <2>2
<1>4. \A o \in Aging : o \in k.ids => W[o].parts = {}
  BY <1>2
<1>5. aged' = [o \in Aging |-> IF o \in k.ids THEN [W[o] EXCEPT !.there = FALSE] ELSE W[o]]
  OBVIOUS
<1> HIDE DEF W
<1>6. \A o \in Aging :
        /\ DOMAIN aged'[o] = {"there", "closed", "old", "parts"}
        /\ aged'[o].there = (IF o \in k.ids THEN FALSE ELSE aged[o].there)
        /\ aged'[o].closed = aged[o].closed /\ aged'[o].old = aged[o].old
        /\ aged'[o].parts = IF o \in k.ids THEN {} ELSE aged[o].parts
  <2> SUFFICES ASSUME NEW o \in Aging
               PROVE  /\ DOMAIN aged'[o] = {"there", "closed", "old", "parts"}
                      /\ aged'[o].there = (IF o \in k.ids THEN FALSE ELSE aged[o].there)
                      /\ aged'[o].closed = aged[o].closed /\ aged'[o].old = aged[o].old
                      /\ aged'[o].parts = IF o \in k.ids THEN {} ELSE aged[o].parts
    OBVIOUS
  <2>1. CASE o \in k.ids
    <3>1. aged'[o] = [W[o] EXCEPT !.there = FALSE]
      BY <1>5, <2>1
    <3> QED
      BY <1>2, <1>4, <2>1, <3>1
  <2>2. CASE o \notin k.ids
    <3>1. aged'[o] = W[o]
      BY <1>5, <2>2
    <3> QED
      BY <1>2, <1>3, <2>2, <3>1
  <2> QED
    BY <2>1, <2>2
<1>7. aged' = [o \in Aging |-> aged'[o]]
  BY <1>5
<1>8. \A o \in Aging : aged'[o] \in AgedRecord /\ aged'[o].parts \subseteq PartsOfRow(o)
  <2> SUFFICES ASSUME NEW o \in Aging PROVE aged'[o] \in AgedRecord /\ aged'[o].parts \subseteq PartsOfRow(o)
    OBVIOUS
  <2>1. /\ aged'[o].there \in BOOLEAN /\ aged'[o].closed \in BOOLEAN /\ aged'[o].old \in BOOLEAN
        /\ aged'[o].parts \subseteq PartsOfRow(o)
    BY <1>1, <1>6, RowRecord
  <2>2. aged'[o] = [there |-> aged'[o].there, closed |-> aged'[o].closed, old |-> aged'[o].old, parts |-> aged'[o].parts]
    <3>1. aged'[o] = [f \in {"there", "closed", "old", "parts"} |-> aged'[o][f]]
      <4>1. CASE o \in k.ids
        BY <1>2, <1>5, <4>1
      <4>2. CASE o \notin k.ids
        <5>1. aged'[o] = W[o] /\ W[o] = [aged[o] EXCEPT !.parts = {p \in aged[o].parts : <<o, p>> \notin k.gone}]
          BY <1>5, <4>2 DEF W, Without
        <5> QED
          BY <1>1, <5>1, RowRecord
      <4> QED
        BY <4>1, <4>2
    <3> QED
      BY <3>1
  <2> QED
    BY <2>1, <2>2, PartsAre DEF AgedRecord
<1>9. RowsFit'
  BY <1>1, <1>7, <1>8 DEF RowsFit
<1>10. \A kind : DryRun(kind) <=> DryRun(kind)'
  BY DEF DryRun, Enabled
<1>11. ASSUME NEW o \in Aging
       PROVE  /\ aged'[o].there => aged'[o].parts = given[o]
              /\ ~aged'[o].there => /\ aged'[o].parts = {} /\ aged'[o].old
                                    /\ \A kind \in 1..3 : o \in Kinds[kind] => ~DryRun(kind)
  <2>1. CASE o \in k.ids
    <3>1. aged[o].old /\ o \in Kinds[k.kind] /\ ~DryRun(k.kind) /\ k.kind \in 1..3
      BY <1>1, <2>1 DEF CleanerFits, MayDelete
    <3>2. \A kind \in 1..3 : o \in Kinds[kind] => kind = k.kind
      BY <3>1, KindsAre
    <3> QED
      BY <1>6, <2>1, <3>1, <3>2
  <2>2. CASE o \notin k.ids
    BY <1>1, <1>6, <2>2 DEF GoesWhole
  <2> QED
    BY <2>1, <2>2
<1>12. GoesWhole'
  BY <1>10, <1>11 DEF GoesWhole
<1> DEFINE n == [k EXCEPT !.at = "fetch", !.ids = {}, !.gone = {}]
<1>13. /\ DOMAIN n = {"at", "kind", "left", "ids", "gone"} /\ n.at = "fetch"
       /\ n.left = k.left /\ n.kind = k.kind /\ n.ids = {} /\ n.gone = {}
  BY <1>1 DEF CleanerFits
<1>14. Goes(c, n)
  OBVIOUS
<1> HIDE DEF n
<1>15. CleanerFits(n) /\ MayDelete(n)
  BY <1>1, <1>13 DEF CleanerFits, MayDelete
<1>16. /\ cleaner' = [d \in Cleaners |-> cleaner'[d]]
       /\ \A d \in Cleaners : cleaner'[d] = IF d = c THEN n ELSE cleaner[d]
  BY <1>14 DEF Goes, RetentionInv, CleanersFit
<1> QED
  BY <1>6, <1>9, <1>12, <1>15, <1>16, RowsChange

LEMMA OrdersKeep ==
  ASSUME RetentionInv, NEW c \in Cleaners, DeleteOrders(c)
  PROVE  RetentionInv'
<1> DEFINE k == cleaner[c]
<1>1. cleaner[c].at = "order" /\ env' = env /\ given' = given /\ restarts' = restarts
  BY DEF DeleteOrders, At
<1>2. CASE \E o \in k.ids : PartsLeft(c, PartsOfRow(o)) # {}
  BY <1>1, <1>2, EndKeeps DEF DeleteOrders, EndsCycle, RetentionInv
<1>3. CASE ~\E o \in k.ids : PartsLeft(c, PartsOfRow(o)) # {}
  <2>1. /\ aged' = [o \in Aging |-> IF o \in k.ids THEN [Without(k.gone)[o] EXCEPT !.there = FALSE]
                                                   ELSE Without(k.gone)[o]]
        /\ Goes(c, [k EXCEPT !.at = "fetch", !.ids = {}, !.gone = {}])
    BY <1>3 DEF DeleteOrders
  <2>2. ASSUME NEW o \in k.ids, NEW p \in aged[o].parts
        PROVE  <<o, p>> \in k.gone
    <3>1. o \in Aging
      BY KindsAre DEF RetentionInv, CleanersFit, CleanerFits
    <3>2. p \in PartsOfRow(o)
      BY <3>1 DEF RetentionInv, RowsFit
    <3>3. PartsLeft(c, PartsOfRow(o)) = {}
      BY <1>3
    <3>4. <<o, p>> \in k.ids \X PartsOfRow(o) /\ <<o, p>>[1] = o /\ <<o, p>>[2] = p
      BY <3>2
    <3> QED
      BY <3>3, <3>4 DEF PartsLeft
  <2> QED
    BY <1>1, <2>1, <2>2, BatchGoes
<1> QED
  BY <1>2, <1>3

LEMMA LogsKeep ==
  ASSUME RetentionInv, NEW c \in Cleaners, DeleteAuditLogs(c)
  PROVE  RetentionInv'
<1> DEFINE k == cleaner[c]
<1>1. /\ k.at = "log" /\ env' = env /\ given' = given /\ restarts' = restarts
      /\ aged' = [o \in Aging |-> IF o \in k.ids THEN [aged[o] EXCEPT !.there = FALSE] ELSE aged[o]]
      /\ Goes(c, [k EXCEPT !.at = "fetch", !.ids = {}])
  BY DEF DeleteAuditLogs, At
<1>2. CleanerFits(k) /\ MayDelete(k) /\ RowsFit /\ GoesWhole
  BY DEF RetentionInv, CleanersFit
<1>3. k.kind = 3 /\ k.gone = {} /\ k.ids \subseteq Entries
  <2>1. k.kind = 3
    BY <1>1, <1>2 DEF CleanerFits, StatementSet
  <2> QED
    BY <1>1, <1>2, <2>1, KindsAre DEF CleanerFits
<1>4. \A o \in k.ids : o \in Aging /\ aged[o].parts = {} /\ aged[o].old /\ ~DryRun(3)
  BY <1>1, <1>2, <1>3, PartsAre DEF RowsFit, MayDelete, Aging
<1>5. \A o \in Aging : aged'[o] = IF o \in k.ids THEN [aged[o] EXCEPT !.there = FALSE] ELSE aged[o]
  BY <1>1
<1>6. \A o \in Aging :
        /\ aged'[o] \in AgedRecord /\ aged'[o].parts = aged[o].parts /\ aged'[o].old = aged[o].old
        /\ aged'[o].there <=> aged[o].there /\ o \notin k.ids
  BY <1>2, <1>5 DEF RowsFit, AgedRecord
<1>7. RowsFit'
  BY <1>1, <1>2, <1>6 DEF RowsFit
<1>8. \A kind : DryRun(kind) <=> DryRun(kind)'
  BY <1>1 DEF DryRun, Enabled
<1>9. \A o \in k.ids : \A kind \in 1..3 : o \in Kinds[kind] => kind = 3
  BY <1>3, KindsAre
<1>10. GoesWhole'
  BY <1>1, <1>2, <1>4, <1>6, <1>8, <1>9 DEF GoesWhole
<1> DEFINE n == [k EXCEPT !.at = "fetch", !.ids = {}]
<1>11. /\ DOMAIN n = {"at", "kind", "left", "ids", "gone"} /\ n.at = "fetch"
       /\ n.left = k.left /\ n.kind = k.kind /\ n.ids = {} /\ n.gone = {}
  BY <1>2, <1>3 DEF CleanerFits
<1>12. Goes(c, n)
  BY <1>1
<1> HIDE DEF n
<1>13. CleanerFits(n) /\ MayDelete(n)
  BY <1>1, <1>2, <1>11 DEF CleanerFits, MayDelete
<1>14. /\ cleaner' = [d \in Cleaners |-> cleaner'[d]]
       /\ \A d \in Cleaners : cleaner'[d] = IF d = c THEN n ELSE cleaner[d]
  BY <1>12 DEF Goes, RetentionInv, CleanersFit
<1> QED
  BY <1>1, <1>6, <1>7, <1>10, <1>13, <1>14, RowsChange

\* The rest of the program adds a part, opens and closes, or waits.
LEMMA OneRowKeeps ==
  ASSUME RetentionInv, NEW o \in Aging, NEW row \in AgedRecord, NEW parts,
         aged[o].there, row.there, aged[o].old => row.old, row.parts = parts, parts \subseteq PartsOfRow(o),
         aged' = [aged EXCEPT ![o] = row], given' = [given EXCEPT ![o] = parts],
         env' = env, cleaner' = cleaner, restarts' = restarts
  PROVE  RetentionInv'
<1>1. RowsFit /\ GoesWhole /\ cleaner' = [c \in Cleaners |-> cleaner'[c]]
  BY DEF RetentionInv, CleanersFit
<1>2. /\ aged' = [a \in Aging |-> aged'[a]] /\ given' = [a \in Aging |-> given'[a]]
      /\ \A a \in Aging : /\ aged'[a] = IF a = o THEN row ELSE aged[a]
                          /\ given'[a] = IF a = o THEN parts ELSE given[a]
  BY <1>1 DEF RowsFit
<1>3. parts \subseteq AllParts
  BY PartsAre
<1>4. RowsFit'
  BY <1>1, <1>2, <1>3 DEF RowsFit
<1>5. \A kind : DryRun(kind) <=> DryRun(kind)'
  BY DEF DryRun, Enabled
<1>6. GoesWhole'
  BY <1>1, <1>2, <1>5 DEF GoesWhole
<1> QED
  BY <1>1, <1>2, <1>4, <1>6, RowsChange

LEMMA OutsideKeeps ==
  ASSUME RetentionInv, NEW o \in Aging, AddPart(o) \/ Toggle(o) \/ GrowOld(o)
  PROVE  RetentionInv'
<1>1. /\ aged[o].there /\ env' = env /\ cleaner' = cleaner /\ restarts' = restarts /\ RowsFit /\ GoesWhole
      /\ given[o] = aged[o].parts /\ given \in [Aging -> SUBSET AllParts] /\ aged[o] \in AgedRecord
      /\ aged[o].parts \subseteq PartsOfRow(o)
  BY DEF AddPart, Toggle, GrowOld, Grow, RetentionInv, RowsFit, GoesWhole
<1>2. CASE AddPart(o)
  <2>1. PICK part \in PartsOfRow(o) \ aged[o].parts :
          /\ aged'  = [aged  EXCEPT ![o].parts = @ \cup {part}]
          /\ given' = [given EXCEPT ![o] = @ \cup {part}]
    BY <1>2 DEF AddPart
  <2> DEFINE parts == aged[o].parts \cup {part}
             row == [aged[o] EXCEPT !.parts = parts]
  <2>2. parts \subseteq PartsOfRow(o) /\ parts \subseteq AllParts
    BY <1>1, PartsAre
  <2>3. aged' = [aged EXCEPT ![o] = row] /\ given' = [given EXCEPT ![o] = parts]
    BY <1>1, <2>1
  <2>4. row \in AgedRecord /\ row.parts = parts /\ row.there = aged[o].there /\ row.old = aged[o].old
    BY <1>1, <2>2 DEF AgedRecord
  <2> HIDE DEF row, parts
  <2> QED
    BY <1>1, <2>2, <2>3, <2>4, OneRowKeeps
<1>3. CASE Toggle(o)
  <2> DEFINE row == [aged[o] EXCEPT !.closed = ~aged[o].closed]
  <2>1. aged' = [aged EXCEPT ![o] = row] /\ given' = given
    BY <1>3 DEF Toggle
  <2>2. row \in AgedRecord /\ row.parts = aged[o].parts /\ row.there = aged[o].there /\ row.old = aged[o].old
    BY <1>1 DEF AgedRecord
  <2> HIDE DEF row
  <2>3. given' = [given EXCEPT ![o] = aged[o].parts]
    BY <1>1, <2>1
  <2> QED
    BY <1>1, <2>1, <2>2, <2>3, OneRowKeeps
<1>4. CASE GrowOld(o)
  <2> DEFINE row == [aged[o] EXCEPT !.old = TRUE]
  <2>1. aged' = [aged EXCEPT ![o] = row] /\ given' = given
    BY <1>4 DEF GrowOld
  <2>2. row \in AgedRecord /\ row.parts = aged[o].parts /\ row.there = aged[o].there /\ row.old = TRUE
    BY <1>1 DEF AgedRecord
  <2> HIDE DEF row
  <2>3. given' = [given EXCEPT ![o] = aged[o].parts]
    BY <1>1, <2>1
  <2> QED
    BY <1>1, <2>1, <2>2, <2>3, OneRowKeeps
<1> QED
  BY <1>2, <1>3, <1>4

LEMMA InterruptKeeps ==
  ASSUME RetentionInv, NEW c \in Cleaners, Interrupt(c)
  PROVE  RetentionInv'
<1>1. restarts' \in 0..MaxRestarts
  BY RetentionBounds DEF Interrupt, RetentionInv
<1> QED
  BY <1>1, EndKeeps DEF Interrupt, EndsCycle

LEMMA RetentionStarts ==
  ASSUME RetentionInit
  PROVE  RetentionInv
<1>1. /\ env \in Settings /\ aged = [o \in Aging |-> NoParts] /\ given = [o \in Aging |-> {}]
      /\ cleaner = [c \in Cleaners |-> NoCleaner] /\ restarts \in 0..MaxRestarts
  BY RetentionBounds DEF RetentionInit
<1>2. NoParts \in AgedRecord /\ NoParts.there /\ NoParts.parts = {}
  BY DEF NoParts, AgedRecord
<1>3. RowsFit /\ GoesWhole
  BY <1>1, <1>2 DEF RowsFit, GoesWhole
<1>4. CleanersFit
  BY <1>1, IdleFits DEF CleanersFit
<1> QED
  BY <1>1, <1>3, <1>4 DEF RetentionInv

LEMMA RetentionKeeps ==
  ASSUME RetentionInv, [RetentionNext]_retentionVars
  PROVE  RetentionInv'
<1>1. CASE UNCHANGED retentionVars
  BY <1>1 DEF retentionVars, RetentionInv, RowsFit, CleanersFit, MayDelete, GoesWhole, DryRun, Enabled
<1>2. CASE \E c \in Cleaners : RunCycle(c) \/ Cleans(c) \/ Interrupt(c)
  BY <1>2, RunKeeps, CountKeeps, FetchKeepsAll, PartsKeep, OrdersKeep, LogsKeep, InterruptKeeps DEF Cleans
<1>3. CASE \E o \in Aging : AddPart(o) \/ GrowOld(o)
  BY <1>3, OutsideKeeps
<1>4. CASE \E o \in Aging \ Entries : Toggle(o)
  BY <1>4, OutsideKeeps
<1> QED
  BY <1>1, <1>2, <1>3, <1>4 DEF RetentionNext

\* The invariant: a cleaner's batch is old, of one kind that the settings let
\* go, and what it has deleted so far are parts of that batch.
THEOREM RetentionInductive == RetentionSpec => []RetentionInv
<1>1. RetentionInit => RetentionInv
  BY RetentionStarts
<1>2. RetentionInv /\ [RetentionNext]_retentionVars => RetentionInv'
  BY RetentionKeeps
<1> QED
  BY <1>1, <1>2, PTL DEF RetentionSpec

\* Settings, rows and cleaners have their types.
THEOREM RetentionTypesHold == RetentionSpec => []RetentionTypeOK
<1>1. RetentionInv => RetentionTypeOK
  <2> SUFFICES ASSUME RetentionInv PROVE RetentionTypeOK
    OBVIOUS
  <2>1. env \in EnvRecord
    BY SettingsAreWords DEF RetentionInv
  <2>2. aged \in [Aging -> [there: BOOLEAN, closed: BOOLEAN, old: BOOLEAN, parts: SUBSET AllParts]]
    BY DEF RetentionInv, RowsFit, AgedRecord
  <2>3. ASSUME NEW c \in Cleaners
        PROVE  /\ cleaner[c].kind \in 1..3 /\ cleaner[c].left \in 0..MaxBatches
               /\ cleaner[c].ids \subseteq Aging /\ cleaner[c].gone \subseteq Aging \X AllParts
               /\ cleaner[c].at \in {"asleep", "count", "fetch", "payment", "detail", "item", "order", "log"}
    <3>1. CleanerFits(cleaner[c])
      BY DEF RetentionInv, CleanersFit
    <3> QED
      BY <3>1, KindsAre DEF CleanerFits, StatementSet
  <2> QED
    BY <2>1, <2>2, <2>3 DEF RetentionTypeOK, RetentionInv, RowsFit
<1> QED
  BY <1>1, RetentionInductive, PTL

\* An order goes with all of its parts or stays with all of them, however many
\* processes clean at once, whatever is added meanwhile, and wherever a batch
\* fails; what is young, or only counted, stays.
THEOREM GoesWholeHolds == RetentionSpec => []GoesWhole
<1>1. RetentionInv => GoesWhole
  BY DEF RetentionInv
<1> QED
  BY <1>1, RetentionInductive, PTL
-----------------------------------------------------------------------------
(***************************************************************************)
(* SignIn.                                                                 *)
(***************************************************************************)
LEMMA VisitsMove ==
    ASSUME visit \in [Visits -> VisitRecord], NEW v \in Visits,
           NEW at \in {"login", "profile", "validate", "keep", "served"}, NEW t \in Tokens, NEW h \in Hosts
    PROVE  /\ Enter(v, at, t, h) => visit' \in [Visits -> VisitRecord]
           /\ [visit EXCEPT ![v] = [at |-> at, tok |-> t, host |-> h]] \in [Visits -> VisitRecord]
<1>1. [at |-> at, tok |-> t, host |-> h] \in VisitRecord
  BY DEF VisitRecord
<1> QED
  BY <1>1 DEF Enter

LEMMA VisitsLeave ==
    ASSUME visit \in [Visits -> VisitRecord], NEW v \in Visits, Leave(v)
    PROVE  visit' \in [Visits -> VisitRecord]
BY DEF Leave, VisitRecord

LEMMA AtWork ==
    ASSUME visit \in [Visits -> VisitRecord], NEW v \in Visits, visit[v].at # "idle"
    PROVE  /\ visit[v].tok \in Tokens /\ visit[v].host \in Hosts
           /\ visit[v] = [at |-> visit[v].at, tok |-> visit[v].tok, host |-> visit[v].host]
BY DEF VisitRecord, NoVisit

LEMMA CopiesMove ==
    ASSUME copy \in [Hosts -> [Tokens -> 0 .. NoCopy]], NEW t, NEW h
    PROVE  /\ Forgotten(h, t) \in [Hosts -> [Tokens -> 0 .. NoCopy]]
           /\ [copy EXCEPT ![h][t] = 0] \in [Hosts -> [Tokens -> 0 .. NoCopy]]
<1>1. 0 \in 0 .. NoCopy /\ NoCopy \in 0 .. NoCopy
  BY SignInTimes DEF NoCopy
<1> HIDE DEF NoCopy
<1>2. ASSUME NEW n \in 0 .. NoCopy
      PROVE  [copy EXCEPT ![h][t] = n] \in [Hosts -> [Tokens -> 0 .. NoCopy]]
  <2>1. CASE h \in Hosts
    BY <1>2, <2>1
  <2>2. CASE h \notin Hosts
    BY <2>2
  <2> QED
    BY <2>1, <2>2
<1> QED
  BY <1>1, <1>2 DEF Forgotten

LEMMA Admits ==
    ASSUME SignTypeOK, NEW v \in Visits, NEW t \in Tokens, NEW h \in Hosts,
           Admitted(v, t, h) \/ Refused(v, t, h)
    PROVE  copy' \in [Hosts -> [Tokens -> 0 .. NoCopy]] /\ visit' \in [Visits -> VisitRecord]
<1>1. CASE Admitted(v, t, h) /\ Issued(t)
  <2>1. visit' \in [Visits -> VisitRecord]
    BY <1>1, VisitsMove DEF SignTypeOK, Admitted
  <2>2. copy' \in [Hosts -> [Tokens -> 0 .. NoCopy]]
    <3>1. copy' = [copy EXCEPT ![h][t] = 0]
      BY <1>1 DEF Admitted
    <3>2. copy \in [Hosts -> [Tokens -> 0 .. NoCopy]]
      BY DEF SignTypeOK
    <3> QED
      BY <3>1, <3>2, CopiesMove
  <2> QED
    BY <2>1, <2>2
<1>2. CASE copy' = Forgotten(h, t) /\ Leave(v)
  <2>1. visit' \in [Visits -> VisitRecord]
    BY <1>2, VisitsLeave DEF SignTypeOK
  <2> QED
    BY <1>2, <2>1, CopiesMove DEF SignTypeOK
<1> QED
  BY <1>1, <1>2 DEF Admitted, Refused

LEMMA NewSessionsFit ==
    ASSUME SignTypeOK, NEW t
    PROVE  /\ [sessions EXCEPT ![t] = NewSession] \in [Tokens -> SessionRecord]
           /\ [sessions EXCEPT ![t] = NoSession] \in [Tokens -> SessionRecord]
           /\ [sessions EXCEPT ![t].idle = 0] \in [Tokens -> SessionRecord]
           /\ [token EXCEPT ![t] = 0] \in [Tokens -> 0 .. (SessionTimeout + 1)]
<1>1. 0 \in 0 .. SessionTimeout /\ 0 \in 0 .. Revalidate /\ 0 \in 0 .. (SessionTimeout + 1)
  BY SignInTimes
<1>2. NewSession \in SessionRecord /\ NoSession \in SessionRecord
  BY <1>1 DEF NewSession, NoSession, SessionRecord
<1>3. ASSUME NEW s \in SessionRecord PROVE [sessions EXCEPT ![t] = s] \in [Tokens -> SessionRecord]
  BY DEF SignTypeOK
<1>4. [sessions EXCEPT ![t].idle = 0] \in [Tokens -> SessionRecord]
  BY <1>1 DEF SignTypeOK, SessionRecord
<1>5. [token EXCEPT ![t] = 0] \in [Tokens -> 0 .. (SessionTimeout + 1)]
  BY <1>1 DEF SignTypeOK
<1> QED
  BY <1>2, <1>3, <1>4, <1>5

LEMMA TimeFits == ASSUME SignTypeOK, Passes PROVE SignTypeOK'
<1>1. ASSUME NEW s \in SessionRecord PROVE Aged(s) \in SessionRecord
  <2>1. s.idle \in 0 .. SessionTimeout /\ s.valid \in 0 .. Revalidate
    BY DEF SessionRecord
  <2>2. CASE ~s.there \/ s.idle >= SessionTimeout
    <3>1. 0 \in 0 .. SessionTimeout /\ 0 \in 0 .. Revalidate
      BY SignInTimes
    <3> QED
      BY <2>2, <3>1 DEF Aged, SessionRecord, NoSession
  <2>3. CASE ~(~s.there \/ s.idle >= SessionTimeout)
    <3> DEFINE n == IF s.valid < Revalidate THEN s.valid + 1 ELSE s.valid
    <3>1. s.idle + 1 \in 0 .. SessionTimeout /\ n \in 0 .. Revalidate
      BY <2>1, <2>3, SignInTimes
    <3>2. Aged(s) = [s EXCEPT !.idle = s.idle + 1, !.valid = n]
      BY <2>3 DEF Aged
    <3> HIDE DEF n
    <3> QED
      BY <3>1, <3>2 DEF SessionRecord
  <2> QED
    BY <2>2, <2>3
<1>2. token' \in [Tokens -> 0 .. (SessionTimeout + 1)]
  BY SignInTimes DEF SignTypeOK, Passes, Later
<1>3. copy' \in [Hosts -> [Tokens -> 0 .. NoCopy]]
  BY SignInTimes DEF SignTypeOK, Passes, Later, NoCopy
<1>4. sessions' \in [Tokens -> SessionRecord]
  BY <1>1 DEF SignTypeOK, Passes
<1> QED
  BY <1>2, <1>3, <1>4 DEF SignTypeOK, Passes

LEMMA VisitFits ==
    ASSUME SignTypeOK, NEW v \in Visits,
           LoginRead(v) \/ UpdateMeRead(v) \/ VisitByCopy(v) \/ VisitByRedis(v) \/ GoesOn(v)
    PROVE  SignTypeOK'
<1>0. visit[v].at # "idle" => /\ visit[v].tok \in Tokens /\ visit[v].host \in Hosts
                              /\ [visit EXCEPT ![v].at = "keep"] \in [Visits -> VisitRecord]
  <2> SUFFICES ASSUME visit[v].at # "idle"
               PROVE  /\ visit[v].tok \in Tokens /\ visit[v].host \in Hosts
                      /\ [visit EXCEPT ![v].at = "keep"] \in [Visits -> VisitRecord]
    OBVIOUS
  <2>1. /\ visit[v].tok \in Tokens /\ visit[v].host \in Hosts
        /\ visit[v] = [at |-> visit[v].at, tok |-> visit[v].tok, host |-> visit[v].host]
    BY AtWork DEF SignTypeOK
  <2>2. [visit[v] EXCEPT !.at = "keep"] = [at |-> "keep", tok |-> visit[v].tok, host |-> visit[v].host]
    BY <2>1
  <2>3. [visit[v] EXCEPT !.at = "keep"] \in VisitRecord
    BY <2>1, <2>2 DEF VisitRecord
  <2> QED
    BY <2>1, <2>3 DEF SignTypeOK
<1>10. Leave(v) => visit' \in [Visits -> VisitRecord]
  BY VisitsLeave DEF SignTypeOK
<1>1. CASE LoginRead(v)
  BY <1>1, VisitsMove DEF LoginRead, SignTypeOK
<1>2. CASE LoginSave(v)
  <2>1. visit' \in [Visits -> VisitRecord]
    BY <1>2, <1>10 DEF LoginSave
  <2> QED
    BY <1>2, <2>1, NewSessionsFit DEF LoginSave, SignTypeOK
<1>3. CASE UpdateMeRead(v)
  BY <1>3, VisitsMove DEF UpdateMeRead, SignTypeOK
<1>4. CASE UpdateMeSave(v)
  BY <1>4, <1>10 DEF UpdateMeSave, SignTypeOK
<1>5. CASE VisitByCopy(v)
  BY <1>5, Admits DEF VisitByCopy, SignTypeOK
<1>6. CASE VisitByRedis(v)
  <2>1. PICK t \in Tokens, h \in Hosts :
          /\ sessions' = [sessions EXCEPT ![t].idle = 0]
          /\ IF sessions[t].valid >= Revalidate
             THEN Enter(v, "validate", t, h) /\ UNCHANGED copy
             ELSE Admitted(v, t, h)
    BY <1>6 DEF VisitByRedis
  <2>2. sessions' \in [Tokens -> SessionRecord]
    BY <2>1, NewSessionsFit
  <2>3. copy' \in [Hosts -> [Tokens -> 0 .. NoCopy]] /\ visit' \in [Visits -> VisitRecord]
    <3>1. CASE Enter(v, "validate", t, h) /\ UNCHANGED copy
      BY <3>1, VisitsMove DEF SignTypeOK
    <3> QED
      BY <2>1, <3>1, Admits
  <2> QED
    BY <1>6, <2>2, <2>3 DEF VisitByRedis, SignTypeOK
<1>7. CASE ValidateRead(v)
  <2>1. sessions' \in [Tokens -> SessionRecord]
    BY <1>7, NewSessionsFit DEF ValidateRead, SignTypeOK
  <2>2. copy' \in [Hosts -> [Tokens -> 0 .. NoCopy]] /\ visit' \in [Visits -> VisitRecord]
    <3>1. CASE enabled
      BY <1>0, <1>7, <3>1 DEF ValidateRead, SignTypeOK
    <3>2. CASE ~enabled
      <4>1. CASE redisUp
        BY <1>0, <1>7, <3>2, <4>1, Admits DEF ValidateRead
      <4>2. CASE ~redisUp
        BY <1>0, <1>7, <3>2, <4>2 DEF ValidateRead, Leave, VisitRecord, SignTypeOK
      <4> QED
        BY <4>1, <4>2
    <3> QED
      BY <3>1, <3>2
  <2> QED
    BY <1>7, <2>1, <2>2 DEF ValidateRead, SignTypeOK
<1>8. CASE ValidateStore(v)
  <2>1. sessions' \in [Tokens -> SessionRecord]
    BY <1>8, NewSessionsFit DEF ValidateStore, SignTypeOK
  <2>2. copy' \in [Hosts -> [Tokens -> 0 .. NoCopy]] /\ visit' \in [Visits -> VisitRecord]
    BY <1>0, <1>8, <1>10, Admits DEF ValidateStore, SignTypeOK
  <2> QED
    BY <1>8, <2>1, <2>2 DEF ValidateStore, SignTypeOK
<1>9. CASE Answer(v)
  BY <1>9, <1>10 DEF Answer, SignTypeOK
<1> QED
  BY <1>1, <1>2, <1>3, <1>4, <1>5, <1>6, <1>7, <1>8, <1>9 DEF GoesOn

\* The account, its sessions and the requests have their types.
THEOREM SignTypesHold == SignSpec => []SignTypeOK
<1>1. SignInit => SignTypeOK
  BY SignInTimes DEF SignInit, SignTypeOK, SessionRecord, VisitRecord, NoSession, NoVisit, NoCopy
<1>2. SignTypeOK /\ [SignNext]_signVars => SignTypeOK'
  <2> SUFFICES ASSUME SignTypeOK, [SignNext]_signVars PROVE SignTypeOK'
    OBVIOUS
  <2>1. CASE UNCHANGED signVars
    BY <2>1 DEF signVars, SignTypeOK
  <2>2. CASE Logout
    BY <2>2, NewSessionsFit DEF Logout, SignTypeOK
  <2>3. CASE SetUse \/ RedisFails
    BY <2>3 DEF SetUse, RedisFails, SignTypeOK
  <2> QED
    BY <2>1, <2>2, <2>3, TimeFits, VisitFits DEF SignNext
<1> QED
  BY <1>1, <1>2, PTL DEF SignSpec

LEMMA StepStaysOut ==
    ASSUME SignTypeOK, [SignNext]_signVars, LockedOut
    PROVE  /\ SetUse \/ LockedOut'
           /\ \A v \in Visits : visit'[v].at = "served" => visit[v].at = "served"
<1> DEFINE NoneServed == \A v \in Visits : visit'[v].at = "served" => visit[v].at = "served"
<1>1. CASE UNCHANGED signVars \/ Logout \/ RedisFails
  BY <1>1 DEF signVars, Logout, RedisFails, LockedOut, Issued
<1>2. CASE SetUse
  BY <1>2 DEF SetUse
<1>3. CASE Passes
  <2>1. ASSUME NEW t \in Tokens PROVE ~Issued(t)'
    <3>1. token[t] \in 0 .. (SessionTimeout + 1) /\ ~(token[t] <= SessionTimeout)
      BY DEF LockedOut, Issued, SignTypeOK
    <3>2. token'[t] = token[t]
      BY <1>3, <3>1 DEF Passes, Later
    <3> QED
      BY <3>1, <3>2 DEF Issued
  <2> QED
    BY <1>3, <2>1 DEF Passes, LockedOut
<1>4. ASSUME NEW v \in Visits,
             LoginRead(v) \/ UpdateMeRead(v) \/ VisitByCopy(v) \/ VisitByRedis(v) \/ GoesOn(v)
      PROVE  LockedOut' /\ NoneServed
  <2>1. ~LoginRead(v) /\ ~UpdateMeRead(v) /\ ~LoginSave(v) /\ ~UpdateMeSave(v)
    BY DEF LoginRead, UpdateMeRead, LoginSave, UpdateMeSave, LockedOut
  <2>2. visit[v].at # "idle" => ~Issued(visit[v].tok)
    BY AtWork DEF LockedOut, SignTypeOK
  <2>3. UNCHANGED <<enabled, token>>
    BY <1>4, <2>1 DEF VisitByCopy, VisitByRedis, GoesOn, ValidateRead, ValidateStore, Answer
  <2>4. visit \in [Visits -> VisitRecord]
    BY DEF SignTypeOK
  <2>5. visit'[v].at \in {"idle", "validate", "keep"} /\ \A x \in Visits \ {v} : visit'[x] = visit[x]
    <3> DEFINE Outside == /\ visit'[v].at \in {"idle", "validate", "keep"}
                        /\ \A x \in Visits \ {v} : visit'[x] = visit[x]
    <3>1. Leave(v) => Outside
      BY <2>4 DEF Leave, NoVisit
    <3>2. ASSUME NEW t \in Tokens, NEW h \in Hosts, Admitted(v, t, h) PROVE Outside
      BY <3>1, <3>2 DEF Admitted, LockedOut
    <3>3. CASE VisitByCopy(v)
      BY <3>2, <3>3 DEF VisitByCopy
    <3>4. CASE VisitByRedis(v)
      <4>1. ASSUME NEW t \in Tokens, NEW h \in Hosts, Enter(v, "validate", t, h) PROVE Outside
        BY <2>4, <4>1 DEF Enter
      <4> QED
        BY <3>2, <3>4, <4>1 DEF VisitByRedis
    <3>5. CASE ValidateRead(v)
      BY <2>4, <3>1, <3>5 DEF ValidateRead, Refused, LockedOut
    <3>6. CASE ValidateStore(v)
      BY <2>2, <2>4, <3>1, <3>6, AtWork, <3>2 DEF ValidateStore
    <3>7. CASE Answer(v)
      BY <3>1, <3>7 DEF Answer
    <3> QED
      BY <1>4, <2>1, <3>3, <3>4, <3>5, <3>6, <3>7 DEF GoesOn
  <2> QED
    BY <2>3, <2>5 DEF LockedOut, Issued
<1> QED
  BY <1>1, <1>2, <1>3, <1>4 DEF SignNext

\* Whatever copies, sessions and late validations there are: who is locked out
\* stays so until an administrator says otherwise.
THEOREM LockedOutStaysOut == SignSpec => StaysOut
<1>1. SignTypeOK /\ [SignNext]_signVars
        => [LockedOut => /\ SetUse \/ LockedOut'
                         /\ \A v \in Visits : visit'[v].at = "served" => visit[v].at = "served"]_signVars
  BY StepStaysOut
<1> QED
  BY <1>1, SignTypesHold, PTL DEF SignSpec, StaysOut

(***************************************************************************)
(* RateLimit.                                                              *)
(***************************************************************************)
ServeRecord == [at: {"idle", "expire", "decide", "back", "delete"}, hits: Counts]

LEMMA CountsFit ==
    /\ 0 \in Counts /\ 1 \in Counts
    /\ \A n \in Counts : Capped(n + 1) \in Counts /\ n - 1 \in Counts
    /\ NoKey \in KeyRecord /\ NoServe \in ServeRecord
BY LimitBounds DEF Counts, Capped, NoKey, NoServe, KeyRecord, ServeRecord

LEMMA ServesFit ==
    ASSUME RateLimitTypeOK, NEW p \in Servers, NEW at \in {"idle", "expire", "decide", "back", "delete"},
           NEW n \in Counts, Serves(p, at, n)
    PROVE  serve' \in [Servers -> ServeRecord]
BY DEF RateLimitTypeOK, Serves, ServeRecord

LEMMA VerdictFits ==
    ASSUME RateLimitTypeOK, NEW p \in Servers, serve' = [serve EXCEPT ![p] = NoServe]
    PROVE  serve' \in [Servers -> ServeRecord]
BY CountsFit DEF RateLimitTypeOK, ServeRecord

LEMMA LocalFits ==
    ASSUME RateLimitTypeOK, NEW p \in Servers
    PROVE  /\ LocalHits(p) \in Counts
           /\ LocalIncrement(p) => own' \in [Servers -> KeyRecord]
           /\ LocalDecrement(p) => own' \in [Servers -> KeyRecord]
<1>1. own \in [Servers -> KeyRecord] /\ own[p].hits \in Counts /\ own[p].ttl \in -1 .. Window
  BY DEF RateLimitTypeOK, KeyRecord
<1>2. LocalHits(p) \in Counts
  BY <1>1, CountsFit DEF LocalHits
<1>3. ASSUME LocalIncrement(p) PROVE own' \in [Servers -> KeyRecord]
  <2> DEFINE left == IF own[p].there /\ own[p].ttl > 0 THEN own[p].ttl ELSE Window
  <2>1. left \in -1 .. Window
    BY <1>1, LimitBounds
  <2>2. own' = [own EXCEPT ![p] = [there |-> TRUE, hits |-> LocalHits(p), ttl |-> left]]
    BY <1>3 DEF LocalIncrement
  <2> HIDE DEF left
  <2> QED
    BY <1>1, <1>2, <2>1, <2>2 DEF KeyRecord
<1>4. ASSUME LocalDecrement(p) PROVE own' \in [Servers -> KeyRecord]
  <2>1. own[p].hits - 1 \in Counts /\ NoKey \in KeyRecord
    BY <1>1, CountsFit
  <2>2. [own[p] EXCEPT !.hits = own[p].hits - 1] \in KeyRecord
    BY <1>1, <2>1 DEF KeyRecord
  <2>3. own' = [own EXCEPT ![p] = IF ~own[p].there THEN own[p] ELSE IF own[p].hits <= 1 THEN NoKey
                                   ELSE [own[p] EXCEPT !.hits = own[p].hits - 1]]
    BY <1>4 DEF LocalDecrement
  <2> QED
    BY <1>1, <2>1, <2>2, <2>3
<1> QED
  BY <1>2, <1>3, <1>4

LEMMA WithoutRedisFits ==
    ASSUME RateLimitTypeOK, NEW p \in Servers, WithoutRedis(p)
    PROVE  /\ own' \in [Servers -> KeyRecord] /\ serve' \in [Servers -> ServeRecord]
           /\ verdict' \in {"none", "let in", "refused", "error"}
<1>1. CASE limiter.production
  BY <1>1, VerdictFits DEF WithoutRedis, Verdict, RateLimitTypeOK
<1>2. CASE ~limiter.production
  <2>1. LocalIncrement(p) /\ Serves(p, "decide", LocalHits(p)) /\ UNCHANGED verdict
    BY <1>2 DEF WithoutRedis
  <2>2. serve' \in [Servers -> ServeRecord]
    BY <2>1, LocalFits, ServesFit
  <2> QED
    BY <2>1, <2>2, LocalFits DEF RateLimitTypeOK
<1> QED
  BY <1>1, <1>2

LEMMA CountingFits ==
    ASSUME RateLimitTypeOK, UNCHANGED limiter, NEW p \in Servers, Increment(p) \/ SetExpire(p)
    PROVE  RateLimitTypeOK'
<1>1. shared \in KeyRecord /\ shared.hits \in Counts /\ serve[p].hits \in Counts
  BY DEF RateLimitTypeOK, KeyRecord
<1>2. CASE ~store.up
  BY <1>2, WithoutRedisFits DEF Increment, SetExpire, RateLimitTypeOK, ServeRecord
<1>3. CASE Increment(p) /\ store.up
  <2> DEFINE hits == Capped(shared.hits + 1)
  <2>1. hits \in Counts
    BY <1>1, CountsFit
  <2> HIDE DEF hits
  <2>2. /\ shared' = [shared EXCEPT !.there = TRUE, !.hits = hits]
        /\ Serves(p, IF shared.ttl < 0 THEN "expire" ELSE "decide", hits)
        /\ UNCHANGED <<own, store, verdict>>
    BY <1>3 DEF Increment, hits
  <2>3. serve' \in [Servers -> ServeRecord]
    BY <2>1, <2>2, ServesFit
  <2>4. shared' \in KeyRecord
    BY <1>1, <2>1, <2>2 DEF KeyRecord
  <2> QED
    BY <2>2, <2>3, <2>4 DEF RateLimitTypeOK, ServeRecord
<1>4. CASE SetExpire(p) /\ store.up
  <2>1. serve' \in [Servers -> ServeRecord]
    BY <1>1, <1>4, ServesFit DEF SetExpire
  <2>2. shared' \in KeyRecord
    BY <1>1, <1>4, LimitBounds DEF SetExpire, KeyRecord
  <2> QED
    BY <1>4, <2>1, <2>2 DEF SetExpire, RateLimitTypeOK, ServeRecord
<1> QED
  BY <1>2, <1>3, <1>4

LEMMA DecidingFits ==
    ASSUME RateLimitTypeOK, UNCHANGED limiter, NEW p \in Servers, Decide(p)
    PROVE  RateLimitTypeOK'
<1>1. [NoServe EXCEPT !.at = "back"] \in ServeRecord
  BY CountsFit DEF NoServe, ServeRecord
<1>2. serve' \in [Servers -> ServeRecord]
  BY <1>1, CountsFit, VerdictFits DEF Decide, Verdict, RateLimitTypeOK, ServeRecord
<1> QED
  BY <1>2 DEF Decide, Verdict, RateLimitTypeOK, ServeRecord

LEMMA CountingBackFits ==
    ASSUME RateLimitTypeOK, UNCHANGED limiter, NEW p \in Servers, Decrement(p) \/ DeleteKey(p)
    PROVE  RateLimitTypeOK'
<1>1. shared \in KeyRecord /\ shared.hits - 1 \in Counts /\ NoKey \in KeyRecord /\ 0 \in Counts
  BY CountsFit DEF RateLimitTypeOK, KeyRecord
<1>2. BackWithoutRedis(p) => own' \in [Servers -> KeyRecord]
  BY LocalFits DEF BackWithoutRedis, RateLimitTypeOK
<1>3. EndsBack(p) => serve' \in [Servers -> ServeRecord]
  BY VerdictFits DEF EndsBack
<1>4. Serves(p, "delete", 0) => serve' \in [Servers -> ServeRecord]
  BY <1>1, ServesFit
<1>5. shared' \in KeyRecord
  BY <1>1 DEF Decrement, DeleteKey, KeyRecord
<1>6. own' \in [Servers -> KeyRecord] /\ serve' \in [Servers -> ServeRecord]
  BY <1>2, <1>3, <1>4 DEF Decrement, DeleteKey, RateLimitTypeOK
<1> QED
  BY <1>5, <1>6 DEF Decrement, DeleteKey, EndsBack, RateLimitTypeOK, ServeRecord

LEMMA TimeRuns ==
    ASSUME NEW k \in KeyRecord
    PROVE  [k EXCEPT !.ttl = IF k.ttl > 0 THEN k.ttl - 1 ELSE k.ttl] \in KeyRecord
<1> DEFINE left == IF k.ttl > 0 THEN k.ttl - 1 ELSE k.ttl
<1>1. left \in -1 .. Window
  BY LimitBounds DEF KeyRecord
<1> HIDE DEF left
<1>2. [k EXCEPT !.ttl = left] \in KeyRecord
  BY <1>1 DEF KeyRecord
<1> QED
  BY <1>2 DEF left

\* Counters and requests have their types.
THEOREM LimitTypesHold == RateLimitSpec => []RateLimitTypeOK
<1>1. RateLimitInit => RateLimitTypeOK
  BY CountsFit, LimitBounds DEF RateLimitInit, RateLimitTypeOK, ServeRecord
<1>2. RateLimitTypeOK /\ [RateLimitNext]_limitVars => RateLimitTypeOK'
  <2> SUFFICES ASSUME RateLimitTypeOK, [RateLimitNext]_limitVars PROVE RateLimitTypeOK'
    OBVIOUS
  <2>1. CASE UNCHANGED limitVars
    BY <2>1 DEF limitVars, RateLimitTypeOK
  <2>2. CASE Ticks /\ UNCHANGED limiter
    <3>1. shared' \in KeyRecord
      <4>1. shared \in KeyRecord
        BY DEF RateLimitTypeOK
      <4> QED
        BY <2>2, <4>1, CountsFit, TimeRuns DEF Ticks
    <3>2. own' \in [Servers -> KeyRecord]
      <4>1. own \in [Servers -> KeyRecord]
        BY DEF RateLimitTypeOK
      <4> QED
        BY <2>2, <4>1, TimeRuns DEF Ticks
    <3> QED
      BY <2>2, <3>1, <3>2 DEF Ticks, RateLimitTypeOK
  <2>3. CASE (LoseRedis \/ FindRedis) /\ UNCHANGED limiter
    <3>1. store' \in [up: BOOLEAN, left: 0 .. Losses]
      <4>0. store \in [up: BOOLEAN, left: 0 .. Losses] /\ store.left \in 0 .. Losses
        BY DEF RateLimitTypeOK
      <4>1. store.left > 0 => store.left - 1 \in 0 .. Losses
        BY <4>0, LimitBounds
      <4>2. CASE LoseRedis
        <5>1. store' = [up |-> FALSE, left |-> store.left - 1] /\ store.left - 1 \in 0 .. Losses
          BY <4>1, <4>2 DEF LoseRedis
        <5> QED
          BY <5>1
      <4>3. CASE FindRedis
        <5>1. store' = [store EXCEPT !.up = TRUE]
          BY <4>3 DEF FindRedis
        <5> QED
          BY <4>0, <5>1
      <4> QED
        BY <2>3, <4>2, <4>3
    <3> QED
      BY <2>3, <3>1 DEF LoseRedis, FindRedis, RateLimitTypeOK
  <2> QED
    BY <2>1, <2>2, <2>3, CountingFits, DecidingFits, CountingBackFits DEF RateLimitNext, Serving
<1> QED
  BY <1>1, <1>2, PTL DEF RateLimitSpec
=============================================================================

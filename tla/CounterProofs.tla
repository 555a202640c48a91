--------------------------- MODULE CounterProofs --------------------------
(***************************************************************************)
(* Theorems about QrTokens for any number of doors, codes and requests,    *)
(* about ShopAccounts for any number of accounts and requests, and about   *)
(* Shifts for any number of callers, shifts, orders and payments, whatever *)
(* fails.                                                                  *)
(***************************************************************************)
EXTENDS QrTokens, ShopAccounts, Shifts, FiniteSetTheorems, TLAPS

Was(d) == door[d].there \/ door[d] = Removed
Looking(w) == asker[w].at \in {"draw", "write", "reread"}

\* What a request relies on: the doors that it will look for were there, and the
\* code that it drew is nobody's.
OnDoor(w) ==
  /\ Looking(w) => asker[w].on \in Doors /\ \A d \in asker[w].todo \cup {asker[w].on} : Was(d)
  /\ asker[w].at = "reread" /\ door[asker[w].on].there => door[asker[w].on].code # "none"
  /\ asker[w].at = "write" => asker[w].code # "none"
  /\ asker[w].at \in {"edit", "count"} => asker[w].on \in Tables
Unused(w) ==
  asker[w].code # "none" =>
    asker[w].code \notin spent /\ \A d \in Doors : asker[w].code # door[d].code
HandsOut(w) == asker[w].dead \subseteq spent /\ asker[w].answer \cap asker[w].dead = {}
AskerOK(w) == OnDoor(w) /\ Unused(w) /\ HandsOut(w)

DoorsApart ==
  /\ \A d, e \in Doors : door[d].code # "none" /\ door[d].code = door[e].code => d = e
  /\ \A d \in Doors : door[d].code \notin spent
AskersApart ==
  \A w, v \in Askers : asker[w].code # "none" /\ asker[w].code = asker[v].code => w = v

QrInv ==
  /\ QrTypeOK /\ DoorsApart /\ AskersApart
  /\ \A d \in Counters : door[d] # Removed
  /\ \A d \in Doors : door[d].code # "none" => door[d].there
  /\ \A w \in Askers : AskerOK(w)

----------------------------------------------------------------------------
LEMMA QrTypes ==
  ASSUME QrInv
  PROVE  /\ door \in [Doors -> DoorRecord] /\ spent \subseteq Codes /\ asker \in [Askers -> AskerRecord]
         /\ \A d \in Doors : door[d] \in DoorRecord
         /\ \A w \in Askers : asker[w] \in AskerRecord
BY DEF QrInv, QrTypeOK

LEMMA NoneIsNoCode == "none" \notin Codes /\ "none" \notin Doors /\ Counters \subseteq Doors
BY QrSets

LEMMA RecordTypes ==
  /\ NoDoor \in DoorRecord /\ Removed \in DoorRecord /\ NoAsker \in AskerRecord
  /\ ~Removed.there /\ Removed.code = "none" /\ NoDoor # Removed /\ ~NoDoor.there /\ NoDoor.code = "none"
BY DEF NoDoor, Removed, NoAsker, DoorRecord, AskerRecord

\* The codes of a request that draws nothing and hands out nothing yet.
LEMMA NoAskerOK ==
  ASSUME NEW w \in Askers, asker[w] = NoAsker
  PROVE  AskerOK(w)
BY DEF AskerOK, OnDoor, Unused, HandsOut, NoAsker, Looking

LEMMA QrInitInv == ASSUME QrInit PROVE QrInv
<1>1. QrTypeOK
  BY RecordTypes DEF QrInit, QrTypeOK
<1>2. DoorsApart /\ AskersApart
  BY RecordTypes DEF QrInit, DoorsApart, AskersApart, NoAsker
<1>3. (\A d \in Counters : door[d] # Removed) /\ \A d \in Doors : door[d].code = "none"
  BY RecordTypes, NoneIsNoCode DEF QrInit
<1>4. \A w \in Askers : AskerOK(w)
  BY NoAskerOK DEF QrInit
<1> QED
  BY <1>1, <1>2, <1>3, <1>4 DEF QrInv

----------------------------------------------------------------------------
(***************************************************************************)
(* Steps that change no door.                                              *)
(***************************************************************************)
LEMMA AskerStep ==
  ASSUME QrInv, UNCHANGED <<door, spent>>, NEW w \in Askers, NEW k \in AskerRecord, Moves(w, k),
         k.code = "none" \/ k.code \notin Drawn, AskerOK(w)'
  PROVE  QrInv'
<1>1. /\ asker' \in [Askers -> AskerRecord] /\ asker'[w] = k
      /\ \A v \in Askers \ {w} : asker'[v] = asker[v]
  BY QrTypes DEF Moves
<1>2. QrTypeOK'
  BY <1>1, QrTypes DEF QrTypeOK
<1>3. AskersApart'
  BY <1>1 DEF QrInv, AskersApart, Drawn
<1>4. \A v \in Askers \ {w} : AskerOK(v)'
  BY <1>1 DEF QrInv, AskerOK, OnDoor, Unused, HandsOut, Looking, Was
<1> QED
  BY <1>2, <1>3, <1>4 DEF QrInv, DoorsApart

\* A request that ends.
LEMMA LeavesStep ==
  ASSUME QrInv, UNCHANGED <<door, spent>>, NEW w \in Askers, Leaves(w)
  PROVE  QrInv'
<1>1. asker'[w] = NoAsker /\ Moves(w, NoAsker)
  BY QrTypes DEF Leaves, Moves
<1>2. AskerOK(w)'
  BY <1>1, NoAskerOK DEF AskerOK, OnDoor, Unused, HandsOut, NoAsker, Looking
<1>3. NoAsker.code = "none"
  BY DEF NoAsker
<1> QED
  BY <1>1, <1>2, <1>3, RecordTypes, AskerStep

\* The records of a request that looks for codes.
LEMMA DrawsType ==
  ASSUME NEW d \in Doors, NEW rest \in SUBSET Doors, NEW codes \in SUBSET Codes,
         NEW dead \in SUBSET Codes
  PROVE  LET k == [Draws(d, rest, codes) EXCEPT !.dead = dead]
         IN  /\ k \in AskerRecord /\ k.at = "draw" /\ k.on = d /\ k.todo = rest /\ k.code = "none"
             /\ k.answer = codes /\ k.dead = dead
<1> DEFINE m == Draws(d, rest, codes)
<1>1. NoAsker \in AskerRecord /\ NoAsker.code = "none"
  BY RecordTypes DEF NoAsker
<1>2. m \in AskerRecord
  BY <1>1 DEF Draws, AskerRecord
<1>3. m.at = "draw" /\ m.on = d /\ m.todo = rest /\ m.code = "none" /\ m.answer = codes
  BY <1>1 DEF Draws, AskerRecord
<1> QED
  BY <1>2, <1>3 DEF AskerRecord

LEMMA DrawsOneType ==
  ASSUME NEW d \in Doors, NEW dead \in SUBSET Codes
  PROVE  LET k == [Draws(d, {}, {}) EXCEPT !.dead = dead]
         IN  /\ k \in AskerRecord /\ k.at = "draw" /\ k.on = d /\ k.todo = {} /\ k.code = "none"
             /\ k.answer = {} /\ k.dead = dead
<1> DEFINE none == {}
<1>1. none \in SUBSET Doors /\ none \in SUBSET Codes
  OBVIOUS
<1> DEFINE k == [Draws(d, none, none) EXCEPT !.dead = dead]
<1>2. /\ k \in AskerRecord /\ k.at = "draw" /\ k.on = d /\ k.todo = none /\ k.code = "none"
      /\ k.answer = none /\ k.dead = dead
  <2> HIDE DEF none
  <2> QED
    BY <1>1, DrawsType
<1> QED
  BY <1>2

LEMMA AnswersType ==
  ASSUME NEW codes \in SUBSET Codes, NEW dead \in SUBSET Codes
  PROVE  LET k == [Answers(codes) EXCEPT !.dead = dead]
         IN  /\ k \in AskerRecord /\ k.at = "answered" /\ k.code = "none" /\ k.answer = codes
             /\ k.dead = dead
<1> DEFINE m == Answers(codes)
<1>1. NoAsker \in AskerRecord /\ NoAsker.code = "none"
  BY RecordTypes DEF NoAsker
<1>2. m \in AskerRecord /\ m.at = "answered" /\ m.code = "none" /\ m.answer = codes
  BY <1>1 DEF Answers, AskerRecord
<1> QED
  BY <1>2 DEF AskerRecord

\* Codes that are handed out are those of doors, and so no dead ones.
LEMMA Answered ==
  ASSUME QrInv, UNCHANGED <<door, spent>>, NEW w \in Askers, NEW codes \in SUBSET Codes,
         NEW dead \in SUBSET spent, codes \cap dead = {},
         Moves(w, [Answers(codes) EXCEPT !.dead = dead])
  PROVE  QrInv'
<1> DEFINE k == [Answers(codes) EXCEPT !.dead = dead]
<1>1. /\ k \in AskerRecord /\ k.at = "answered" /\ k.code = "none" /\ k.answer = codes /\ k.dead = dead
  BY AnswersType, QrTypes
<1> HIDE DEF k
<1>2. asker'[w] = k /\ Moves(w, k)
  BY <1>1, QrTypes DEF Moves, k
<1>3. AskerOK(w)'
  BY <1>1, <1>2 DEF AskerOK, OnDoor, Unused, HandsOut, Looking
<1> QED
  BY <1>1, <1>2, <1>3, AskerStep

LEMMA Drawing ==
  ASSUME QrInv, UNCHANGED <<door, spent>>, NEW w \in Askers, NEW d \in Doors, NEW rest \in SUBSET Doors,
         \A e \in rest \cup {d} : Was(e), NEW codes \in SUBSET Codes,
         NEW dead \in SUBSET spent, codes \cap dead = {},
         Moves(w, [Draws(d, rest, codes) EXCEPT !.dead = dead])
  PROVE  QrInv'
<1> DEFINE k == [Draws(d, rest, codes) EXCEPT !.dead = dead]
<1>0. dead \in SUBSET Codes
  BY QrTypes
<1>1. /\ k \in AskerRecord /\ k.at = "draw" /\ k.on = d /\ k.todo = rest /\ k.code = "none"
      /\ k.answer = codes /\ k.dead = dead
  BY <1>0, DrawsType
<1> HIDE DEF k
<1>2. asker'[w] = k /\ Moves(w, k)
  BY <1>1, QrTypes DEF Moves, k
<1>3. AskerOK(w)'
  BY <1>1, <1>2 DEF AskerOK, OnDoor, Unused, HandsOut, Looking, Was
<1> QED
  BY <1>1, <1>2, <1>3, AskerStep

\* A request for the code of one door.
LEMMA DrawingOne ==
  ASSUME QrInv, UNCHANGED <<door, spent>>, NEW w \in Askers, NEW d \in Doors, Was(d),
         NEW dead \in SUBSET spent, Moves(w, [Draws(d, {}, {}) EXCEPT !.dead = dead])
  PROVE  QrInv'
<1> DEFINE none == {}
<1>1. /\ none \in SUBSET Doors /\ none \in SUBSET Codes /\ none \cap dead = {}
      /\ \A e \in none \cup {d} : Was(e)
  OBVIOUS
<1>2. Moves(w, [Draws(d, none, none) EXCEPT !.dead = dead])
  OBVIOUS
<1> HIDE DEF none
<1> QED
  BY <1>1, <1>2, Drawing

LEMMA EnsureInv == ASSUME QrInv, NEW w \in Askers, NEW d \in Doors, EnsureQrToken(w, d) PROVE QrInv'
<1>1. UNCHANGED <<door, spent>> /\ door[d].there /\ spent \subseteq spent /\ Was(d)
  BY DEF EnsureQrToken, Was
<1>2. CASE Good(d)
  <2>1. Moves(w, [Answers({door[d].code}) EXCEPT !.dead = spent])
    BY <1>2 DEF EnsureQrToken, Begins
  <2>2. {door[d].code} \subseteq Codes /\ {door[d].code} \cap spent = {}
    BY <1>2, QrTypes DEF Good, DoorRecord, QrInv, DoorsApart
  <2> QED
    BY <1>1, <2>1, <2>2, Answered
<1>3. CASE ~Good(d)
  <2>1. Moves(w, [Draws(d, {}, {}) EXCEPT !.dead = spent])
    BY <1>3 DEF EnsureQrToken, Begins
  <2> QED
    BY <1>1, <2>1, DrawingOne
<1> QED
  BY <1>2, <1>3

LEMMA RotateInv == ASSUME QrInv, NEW w \in Askers, NEW d \in Doors, RotateQrToken(w, d) PROVE QrInv'
<1>1. /\ UNCHANGED <<door, spent>> /\ Was(d)
      /\ Moves(w, [Draws(d, {}, {}) EXCEPT !.dead = spent]) /\ spent \subseteq spent
  BY DEF RotateQrToken, Begins, Was
<1> QED
  BY <1>1, DrawingOne

LEMMA FindAllInv == ASSUME QrInv, NEW w \in Askers, FindAllWithQrCodes(w) PROVE QrInv'
<1> DEFINE listed  == {d \in Tables : door[d].there}
           lacking == {d \in listed : ~Good(d)}
           codes   == {door[d].code : d \in listed \ lacking}
<1>1. /\ UNCHANGED <<door, spent>>
      /\ \/ Moves(w, [Answers(codes) EXCEPT !.dead = spent])
         \/ \E d \in lacking : Moves(w, [Draws(d, lacking \ {d}, codes) EXCEPT !.dead = spent])
  BY DEF FindAllWithQrCodes, Begins
<1>2. codes \subseteq Codes /\ codes \cap spent = {}
  BY QrTypes DEF Good, DoorRecord, QrInv, DoorsApart, Tables
<1>3. lacking \subseteq Doors /\ \A d \in lacking : Was(d)
  BY DEF Tables, Was
<1> HIDE DEF lacking, codes
<1>4. CASE Moves(w, [Answers(codes) EXCEPT !.dead = spent])
  BY <1>1, <1>2, <1>4, Answered
<1>5. ASSUME NEW d \in lacking, Moves(w, [Draws(d, lacking \ {d}, codes) EXCEPT !.dead = spent])
      PROVE  QrInv'
  <2>1. d \in Doors /\ lacking \ {d} \subseteq Doors /\ \A e \in (lacking \ {d}) \cup {d} : Was(e)
    BY <1>3
  <2> QED
    BY <1>1, <1>2, <1>5, <2>1, Drawing
<1> QED
  BY <1>1, <1>4, <1>5

LEMMA GenerateInv == ASSUME QrInv, NEW w \in Askers, GenerateUniqueQrToken(w) PROVE QrInv'
<1>1. UNCHANGED <<door, spent>> /\ asker[w].at = "draw"
  BY DEF GenerateUniqueQrToken
<1>2. CASE Leaves(w)
  BY <1>1, <1>2, LeavesStep
<1>3. ASSUME NEW c \in Codes \ Drawn, Moves(w, [asker[w] EXCEPT !.at = "write", !.code = c])
      PROVE  QrInv'
  <2> DEFINE k == [asker[w] EXCEPT !.at = "write", !.code = c]
  <2>1. asker[w] \in AskerRecord /\ AskerOK(w)
    BY QrTypes DEF QrInv
  <2>2. /\ k \in AskerRecord /\ k.at = "write" /\ k.code = c /\ k.on = asker[w].on
        /\ k.todo = asker[w].todo /\ k.dead = asker[w].dead /\ k.answer = asker[w].answer
    BY <2>1 DEF AskerRecord
  <2> HIDE DEF k
  <2>3. asker'[w] = k /\ Moves(w, k)
    BY <1>3, <2>2, QrTypes DEF Moves, k
  <2>4. OnDoor(w)'
    BY <1>1, <2>1, <2>2, <2>3, NoneIsNoCode DEF AskerOK, OnDoor, Looking, Was
  <2>5. Unused(w)'
    BY <1>1, <2>2, <2>3 DEF Unused, Drawn
  <2>6. HandsOut(w)'
    BY <1>1, <2>1, <2>2, <2>3 DEF AskerOK, HandsOut
  <2> QED
    BY <1>1, <2>2, <2>3, <2>4, <2>5, <2>6, AskerStep DEF AskerOK
<1> QED
  BY <1>2, <1>3 DEF GenerateUniqueQrToken

LEMMA RereadInv == ASSUME QrInv, NEW w \in Askers, Reread(w) PROVE QrInv'
<1> DEFINE d     == asker[w].on
           codes == asker[w].answer \cup {door[d].code}
<1>1. UNCHANGED <<door, spent>> /\ asker[w].at = "reread"
  BY DEF Reread
<1>2. CASE ~door[d].there
  BY <1>1, <1>2, LeavesStep DEF Reread
<1>3. CASE door[d].there
  <2>1. /\ asker[w] \in AskerRecord /\ d \in Doors /\ door[d].code # "none" /\ door[d] \in DoorRecord
        /\ \A e \in asker[w].todo : Was(e)
        /\ asker[w].dead \subseteq spent /\ asker[w].answer \cap asker[w].dead = {}
        /\ door[d].code \notin spent
    BY <1>1, <1>3, QrTypes DEF QrInv, AskerOK, OnDoor, HandsOut, Looking, DoorsApart
  <2>2. codes \subseteq Codes /\ codes \cap asker[w].dead = {} /\ asker[w].todo \subseteq Doors
    BY <2>1 DEF AskerRecord, DoorRecord
  <2>3. \/ Moves(w, [Answers(codes) EXCEPT !.dead = asker[w].dead])
        \/ \E e \in asker[w].todo :
             Moves(w, [Draws(e, asker[w].todo \ {e}, codes) EXCEPT !.dead = asker[w].dead])
    BY <1>3 DEF Reread
  <2> HIDE DEF codes
  <2>4. CASE Moves(w, [Answers(codes) EXCEPT !.dead = asker[w].dead])
    BY <1>1, <2>1, <2>2, <2>4, Answered
  <2>5. ASSUME NEW e \in asker[w].todo,
               Moves(w, [Draws(e, asker[w].todo \ {e}, codes) EXCEPT !.dead = asker[w].dead])
        PROVE  QrInv'
    <3>1. e \in Doors /\ asker[w].todo \ {e} \subseteq Doors
          /\ \A f \in (asker[w].todo \ {e}) \cup {e} : Was(f)
      BY <2>1, <2>2
    <3> QED
      BY <1>1, <2>1, <2>2, <2>5, <3>1, Drawing
  <2> QED
    BY <2>3, <2>4, <2>5
<1> QED
  BY <1>2, <1>3

LEMMA FindTableInv == ASSUME QrInv, NEW w \in Askers, NEW d \in Doors, FindTable(w, d) PROVE QrInv'
<1>1. PICK at \in {"edit", "count"} :
        Moves(w, [[NoAsker EXCEPT !.at = at, !.on = d, !.row = door[d]] EXCEPT !.dead = spent])
  BY DEF FindTable, Begins
<1> DEFINE m == [NoAsker EXCEPT !.at = at, !.on = d, !.row = door[d]]
           k == [m EXCEPT !.dead = spent]
<1>2. d \in Tables /\ UNCHANGED <<door, spent>>
  BY DEF FindTable
<1>3. NoAsker \in AskerRecord /\ NoAsker.code = "none" /\ NoAsker.answer = {} /\ door[d] \in DoorRecord
  BY RecordTypes, QrTypes DEF NoAsker
<1>4. m \in AskerRecord /\ m.at = at /\ m.on = d /\ m.code = "none" /\ m.answer = {}
  BY <1>3 DEF AskerRecord
<1> HIDE DEF m
<1>5. /\ k \in AskerRecord /\ k.at = at /\ k.on = d /\ k.code = "none" /\ k.answer = {}
      /\ k.dead = spent
  BY <1>4, QrTypes DEF AskerRecord
<1> HIDE DEF k
<1>6. asker'[w] = k /\ Moves(w, k)
  BY <1>1, <1>5, QrTypes DEF Moves, k, m
<1>7. AskerOK(w)'
  BY <1>2, <1>5, <1>6 DEF AskerOK, OnDoor, Unused, HandsOut, Looking
<1> QED
  BY <1>2, <1>5, <1>6, <1>7, AskerStep

----------------------------------------------------------------------------
(***************************************************************************)
(* Steps that change a door, and the requests of W.                        *)
(***************************************************************************)
\* What a row may become: with its old code, without one, or with a new one.
NewRow(d, row, W) ==
  /\ row.there \/ row = Removed
  /\ row.code # "none" => row.there
  /\ door[d] = Removed => row = Removed
  /\ d \in Counters => row # Removed
  /\ door[d].there /\ door[d].code # "none" /\ row.there => row.code # "none"
  /\ \/ row.code = door[d].code /\ spent' = spent
     \/ row.code = "none"
     \/ /\ row.code \notin spent /\ \A e \in Doors : row.code # door[e].code
        /\ \A v \in Askers \ W : row.code # asker[v].code

LEMMA DoorStep ==
  ASSUME QrInv, NEW W \in SUBSET Askers, NEW d \in Doors, NEW row \in DoorRecord,
         door' = [door EXCEPT ![d] = row], NewRow(d, row, W), spent' \in {spent, Retired(d)},
         asker' \in [Askers -> AskerRecord], \A v \in Askers \ W : asker'[v] = asker[v],
         \A w \in W : asker'[w].code = "none" /\ AskerOK(w)'
  PROVE  QrInv'
<1>1. /\ door' \in [Doors -> DoorRecord] /\ door'[d] = row
      /\ \A e \in Doors \ {d} : door'[e] = door[e]
  BY QrTypes
<1>2. /\ spent \subseteq spent' /\ spent' \subseteq Codes
      /\ \A c \in spent' : c \in spent \/ (c = door[d].code /\ c # "none")
  BY QrTypes DEF Retired, DoorRecord
<1>3. QrTypeOK'
  BY <1>1, <1>2 DEF QrTypeOK
<1>4. DoorsApart'
  <2>1. \A e \in Doors \ {d} : door[e].code \notin spent'
    BY <1>2 DEF QrInv, DoorsApart
  <2>2. row.code \notin spent'
    BY <1>2, NoneIsNoCode DEF NewRow, QrInv, DoorsApart
  <2>3. \A e \in Doors \ {d} : row.code # "none" => row.code # door[e].code
    BY DEF NewRow, QrInv, DoorsApart
  <2> QED
    BY <1>1, <2>1, <2>2, <2>3 DEF QrInv, DoorsApart
<1>5. AskersApart'
  BY DEF QrInv, AskersApart
<1>6. /\ \A e \in Counters : door'[e] # Removed
      /\ \A e \in Doors : door'[e].code # "none" => door'[e].there
  BY <1>1, NoneIsNoCode DEF QrInv, NewRow
<1>7. ASSUME NEW v \in Askers \ W
      PROVE  AskerOK(v)'
  <2>1. AskerOK(v) /\ asker'[v] = asker[v] /\ asker[v] \in AskerRecord
    BY QrTypes DEF QrInv
  <2>2. \A e \in Doors : Was(e) => Was(e)'
    BY <1>1 DEF Was, NewRow
  <2>3. \A e \in Doors : Was(e) /\ (door[e].there => door[e].code # "none") =>
          (door'[e].there => door'[e].code # "none")
    BY <1>1, RecordTypes DEF Was, NewRow
  <2>4. OnDoor(v)'
    <3>1. CASE Looking(v)
      <4>1. /\ asker[v].on \in Doors /\ \A e \in asker[v].todo \cup {asker[v].on} : Was(e)
            /\ asker[v].todo \subseteq Doors
        BY <2>1, <3>1 DEF AskerOK, OnDoor, AskerRecord
      <4>2. \A e \in asker[v].todo \cup {asker[v].on} : Was(e)'
        BY <2>2, <4>1
      <4> QED
        BY <2>1, <2>3, <3>1, <4>1, <4>2 DEF AskerOK, OnDoor, Looking
    <3>2. CASE ~Looking(v)
      BY <2>1, <3>2 DEF AskerOK, OnDoor, Looking
    <3> QED
      BY <3>1, <3>2
  <2>5. Unused(v)'
    BY <1>1, <1>2, <2>1 DEF AskerOK, Unused, NewRow
  <2>6. HandsOut(v)'
    BY <1>2, <2>1 DEF AskerOK, HandsOut
  <2> QED
    BY <2>4, <2>5, <2>6 DEF AskerOK
<1> QED
  BY <1>3, <1>4, <1>5, <1>6, <1>7 DEF QrInv

\* The same, where one request changes.
LEMMA DoorStepOne ==
  ASSUME QrInv, NEW w \in Askers, NEW d \in Doors, NEW row \in DoorRecord,
         door' = [door EXCEPT ![d] = row], NewRow(d, row, {w}), spent' \in {spent, Retired(d)},
         asker' \in [Askers -> AskerRecord], \A v \in Askers \ {w} : asker'[v] = asker[v],
         asker'[w].code = "none", AskerOK(w)'
  PROVE  QrInv'
<1> DEFINE W == {w}
<1>1. /\ W \in SUBSET Askers /\ NewRow(d, row, W)
      /\ \A v \in Askers \ W : asker'[v] = asker[v]
      /\ \A v \in W : asker'[v].code = "none" /\ AskerOK(v)'
  OBVIOUS
<1> HIDE DEF W
<1> QED
  BY <1>1, DoorStep

\* The same, where the only request is one that ends.
LEMMA DoorStepLeaves ==
  ASSUME QrInv, NEW w \in Askers, Leaves(w), NEW d \in Doors, NEW row \in DoorRecord,
         door' = [door EXCEPT ![d] = row], NewRow(d, row, {w}), spent' \in {spent, Retired(d)}
  PROVE  QrInv'
<1>1. /\ asker' \in [Askers -> AskerRecord] /\ asker'[w] = NoAsker
      /\ \A v \in Askers \ {w} : asker'[v] = asker[v]
  BY QrTypes, RecordTypes DEF Leaves, Moves
<1>2. AskerOK(w)' /\ asker'[w].code = "none"
  BY <1>1 DEF AskerOK, OnDoor, Unused, HandsOut, NoAsker, Looking
<1> QED
  BY <1>1, <1>2, DoorStepOne

LEMMA GetOrCreateInv == ASSUME QrInv, NEW w \in Askers, GetOrCreateProfile(w) PROVE QrInv'
<1> DEFINE m == [NoAsker EXCEPT !.at = "make"]
           k == [m EXCEPT !.dead = spent]
<1>1. Moves(w, [[NoAsker EXCEPT !.at = "make"] EXCEPT !.dead = spent]) /\ UNCHANGED <<door, spent>>
  BY DEF GetOrCreateProfile, Begins
<1>2. NoAsker \in AskerRecord /\ NoAsker.code = "none" /\ NoAsker.answer = {}
  BY RecordTypes DEF NoAsker
<1>3. m \in AskerRecord /\ m.at = "make" /\ m.code = "none" /\ m.answer = {}
  BY <1>2 DEF AskerRecord
<1> HIDE DEF m
<1>4. k \in AskerRecord /\ k.at = "make" /\ k.code = "none" /\ k.answer = {} /\ k.dead = spent
  BY <1>3, QrTypes DEF AskerRecord
<1> HIDE DEF k
<1>5. asker'[w] = k /\ Moves(w, k)
  BY <1>1, <1>4, QrTypes DEF Moves, k, m
<1>6. AskerOK(w)'
  BY <1>1, <1>4, <1>5 DEF AskerOK, OnDoor, Unused, HandsOut, Looking
<1> QED
  BY <1>1, <1>4, <1>5, <1>6, AskerStep

\* A profile that is made, for a request that then draws a code.
LEMMA ProfileMade ==
  ASSUME QrInv, NEW w \in Askers, NEW d \in Counters, ~door[d].there, UNCHANGED spent,
         NEW dead \in SUBSET spent,
         door' = [door EXCEPT ![d] = [NoDoor EXCEPT !.there = TRUE, !.open = TRUE]],
         \/ Leaves(w)
         \/ Moves(w, [Draws(d, {}, {}) EXCEPT !.dead = dead])
  PROVE  QrInv'
<1> DEFINE row == [NoDoor EXCEPT !.there = TRUE, !.open = TRUE]
           k == [Draws(d, {}, {}) EXCEPT !.dead = dead]
<1>1. row \in DoorRecord /\ row.there /\ row.code = "none"
  BY DEF NoDoor, DoorRecord
<1>2. d \in Doors /\ door' = [door EXCEPT ![d] = row]
  BY NoneIsNoCode
<1>3. dead \in SUBSET Codes
  BY QrTypes
<1>4. k \in AskerRecord /\ k.at = "draw" /\ k.on = d /\ k.todo = {} /\ k.code = "none"
      /\ k.answer = {} /\ k.dead = dead
  <2>1. d \in Doors
    BY <1>2
  <2> QED
    BY <1>3, <2>1, DrawsOneType
<1>5. CASE Moves(w, [Draws(d, {}, {}) EXCEPT !.dead = dead])
  <2>1. asker' = [asker EXCEPT ![w] = k]
    BY <1>5 DEF Moves
  <2> HIDE DEF row, k
  <2>2. NewRow(d, row, {w})
    BY <1>1, <1>2, RecordTypes DEF NewRow, QrInv
  <2>3. /\ asker' \in [Askers -> AskerRecord] /\ asker'[w] = k /\ door'[d] = row
        /\ \A v \in Askers \ {w} : asker'[v] = asker[v]
    BY <1>2, <1>4, <2>1, QrTypes
  <2>4. AskerOK(w)'
    BY <1>1, <1>2, <1>3, <1>4, <2>3 DEF AskerOK, OnDoor, Unused, HandsOut, Looking, Was
  <2> QED
    BY <1>1, <1>2, <1>4, <2>2, <2>3, <2>4, DoorStepOne
<1>6. CASE Leaves(w)
  <2> HIDE DEF row
  <2>1. NewRow(d, row, {w})
    BY <1>1, <1>2, RecordTypes DEF NewRow, QrInv
  <2> QED
    BY <1>1, <1>2, <1>6, <2>1, DoorStepLeaves
<1> QED
  BY <1>5, <1>6

LEMMA CreateOrUpdateInv == ASSUME QrInv, NEW w \in Askers, CreateOrUpdate(w) PROVE QrInv'
<1>1. PICK d \in Counters :
        /\ door' = IF d \in Profiles THEN door
                   ELSE [door EXCEPT ![d] = [NoDoor EXCEPT !.there = TRUE, !.open = TRUE]]
        /\ \/ Leaves(w)
           \/ Moves(w, [Draws(d, {}, {}) EXCEPT !.dead = asker[w].dead])
           \/ Good(d) /\ Moves(w, [Answers({door[d].code}) EXCEPT !.dead = asker[w].dead])
  BY DEF CreateOrUpdate
<1>2. /\ d \in Doors /\ spent' = spent /\ asker[w].dead \subseteq spent /\ door[d] \in DoorRecord
      /\ d \in Profiles <=> door[d].there
  BY NoneIsNoCode, QrTypes DEF CreateOrUpdate, QrInv, AskerOK, HandsOut, Profiles
<1>3. CASE ~door[d].there
  <2>1. ~Good(d)
    BY <1>2, <1>3 DEF Good, QrInv
  <2> QED
    BY <1>1, <1>2, <1>3, <2>1, ProfileMade
<1>4. CASE door[d].there
  <2>1. UNCHANGED <<door, spent>> /\ Was(d)
    BY <1>1, <1>2, <1>4 DEF Was
  <2>2. CASE Leaves(w)
    BY <2>1, <2>2, LeavesStep
  <2>3. CASE Moves(w, [Draws(d, {}, {}) EXCEPT !.dead = asker[w].dead])
    BY <1>2, <2>1, <2>3, DrawingOne
  <2>4. CASE Good(d) /\ Moves(w, [Answers({door[d].code}) EXCEPT !.dead = asker[w].dead])
    <3>1. {door[d].code} \subseteq Codes /\ {door[d].code} \cap asker[w].dead = {}
      BY <1>2, <2>4 DEF Good, DoorRecord, QrInv, DoorsApart
    <3> QED
      BY <1>2, <2>1, <2>4, <3>1, Answered
  <2> QED
    BY <1>1, <2>2, <2>3, <2>4
<1> QED
  BY <1>3, <1>4

LEMMA UpdateInv == ASSUME QrInv, NEW w \in Askers, UpdateQrToken(w) PROVE QrInv'
<1>0. asker[w].at = "write" /\ AskerOK(w) /\ asker[w].on \in Doors /\ Was(asker[w].on)
  BY DEF UpdateQrToken, QrInv, AskerOK, OnDoor, Looking
<1> DEFINE rows == IF asker[w].on \in Counters THEN Profiles ELSE {asker[w].on}
<1>a. PICK d \in rows :
        /\ IF ~door[d].there THEN UNCHANGED <<door, spent>>
           ELSE /\ door' = [door EXCEPT ![d].code = asker[w].code, ![d].old = FALSE]
                /\ spent' = Retired(d)
        /\ Moves(w, [asker[w] EXCEPT !.at = "reread", !.on = d, !.code = "none"])
  BY DEF UpdateQrToken
<1>b. d \in Doors /\ Was(d)
  BY <1>0, NoneIsNoCode DEF Profiles, Was
<1> HIDE DEF rows
<1> DEFINE k == [asker[w] EXCEPT !.at = "reread", !.on = d, !.code = "none"]
<1>1. asker[w].at = "write" /\ asker' = [asker EXCEPT ![w] = k]
  BY <1>0, <1>a DEF Moves
<1>2. /\ asker[w] \in AskerRecord /\ AskerOK(w) /\ d \in Doors /\ door[d] \in DoorRecord /\ Was(d)
      /\ asker[w].code \in Codes /\ asker[w].todo \subseteq Doors
  BY <1>0, <1>b, QrTypes DEF QrInv, AskerOK, OnDoor, Looking, AskerRecord
<1>3. /\ k \in AskerRecord /\ k.at = "reread" /\ k.code = "none" /\ k.on = d
      /\ k.todo = asker[w].todo /\ k.dead = asker[w].dead /\ k.answer = asker[w].answer
  BY <1>2 DEF AskerRecord
<1> HIDE DEF k
<1>4. /\ asker' \in [Askers -> AskerRecord] /\ asker'[w] = k
      /\ \A v \in Askers \ {w} : asker'[v] = asker[v]
  BY <1>1, <1>3, QrTypes
<1>5. CASE ~door[d].there
  <2>1. UNCHANGED <<door, spent>>
    BY <1>5, <1>a
  <2>2. AskerOK(w)'
    BY <1>1, <1>2, <1>3, <1>4, <1>5, <2>1 DEF AskerOK, OnDoor, Unused, HandsOut, Looking, Was
  <2> QED
    BY <1>1, <1>3, <2>1, <2>2, AskerStep DEF Moves
<1>6. CASE door[d].there
  <2> DEFINE row == [door[d] EXCEPT !.code = asker[w].code, !.old = FALSE]
  <2>1. door' = [door EXCEPT ![d] = row] /\ spent' = Retired(d)
    BY <1>2, <1>6, <1>a, QrTypes
  <2>2. row \in DoorRecord /\ row.code = asker[w].code /\ row.there
    BY <1>2, <1>6 DEF DoorRecord
  <2> HIDE DEF row
  <2>3. /\ door'[d] = row /\ \A e \in Doors \ {d} : door'[e] = door[e]
        /\ spent \subseteq spent'
    BY <1>2, <2>1, QrTypes DEF Retired
  <2>4. AskerOK(w)'
    <3>1. OnDoor(w)'
      BY <1>1, <1>2, <1>3, <1>4, <2>2, <2>3, NoneIsNoCode DEF AskerOK, OnDoor, Looking, Was
    <3>2. Unused(w)' /\ HandsOut(w)'
      BY <1>2, <1>3, <1>4, <2>3 DEF AskerOK, Unused, HandsOut
    <3> QED
      BY <3>1, <3>2 DEF AskerOK
  <2>5. NewRow(d, row, {w})
    <3>1. door[d] # Removed /\ row # Removed
      BY <1>6, <2>2, RecordTypes
    <3>2. /\ asker[w].code # "none" /\ asker[w].code \notin spent
          /\ \A e \in Doors : asker[w].code # door[e].code
          /\ \A v \in Askers \ {w} : asker[w].code # asker[v].code
      BY <1>2, NoneIsNoCode DEF QrInv, AskerOK, Unused, AskersApart
    <3> QED
      BY <2>2, <3>1, <3>2 DEF NewRow
  <2> QED
    BY <1>2, <1>3, <1>4, <2>1, <2>2, <2>4, <2>5, DoorStepOne
<1> QED
  BY <1>5, <1>6

LEMMA UpdateTableInv == ASSUME QrInv, NEW w \in Askers, UpdateTable(w) PROVE QrInv'
<1> DEFINE d == asker[w].on
<1>1. PICK open \in BOOLEAN :
        /\ asker[w].at = "edit" /\ Leaves(w) /\ spent' = spent
        /\ door' = IF door[d].there THEN [door EXCEPT ![d].open = open] ELSE door
  BY DEF UpdateTable
<1>2. d \in Doors /\ door[d] \in DoorRecord
  BY <1>1, QrTypes DEF QrInv, AskerOK, OnDoor, Tables
<1>3. CASE ~door[d].there
  BY <1>1, <1>3, LeavesStep
<1>4. CASE door[d].there
  <2> DEFINE row == [door[d] EXCEPT !.open = open]
  <2>1. door' = [door EXCEPT ![d] = row]
    BY <1>1, <1>4
  <2>2. row \in DoorRecord /\ row.code = door[d].code /\ row.there
    BY <1>2, <1>4 DEF DoorRecord
  <2> HIDE DEF row
  <2>3. NewRow(d, row, {w})
    BY <1>1, <1>4, <2>2, RecordTypes DEF NewRow
  <2> QED
    BY <1>1, <1>2, <2>1, <2>2, <2>3, DoorStepLeaves
<1> QED
  BY <1>3, <1>4

LEMMA DeleteTableInv == ASSUME QrInv, NEW w \in Askers, DeleteTable(w) PROVE QrInv'
<1> DEFINE d == asker[w].on
<1>1. asker[w].at = "count" /\ Leaves(w)
  BY DEF DeleteTable
<1>2. d \in Doors /\ d \notin Counters
  BY <1>1 DEF QrInv, AskerOK, OnDoor, Tables
<1>3. CASE UNCHANGED <<door, spent>>
  BY <1>1, <1>3, LeavesStep
<1>4. CASE door' = [door EXCEPT ![d] = Removed] /\ spent' = Retired(d)
  <2>1. NewRow(d, Removed, {w})
    BY <1>2, RecordTypes DEF NewRow
  <2> QED
    BY <1>1, <1>2, <1>4, <2>1, RecordTypes, DoorStepLeaves
<1> QED
  BY <1>3, <1>4 DEF DeleteTable

\* A door that changes while every request stays where it is.
LEMMA DoorStepAlone ==
  ASSUME QrInv, asker' = asker, NEW d \in Doors, NEW row \in DoorRecord,
         door' = [door EXCEPT ![d] = row], NewRow(d, row, {}), spent' = spent
  PROVE  QrInv'
<1> DEFINE none == {}
<1>1. /\ none \in SUBSET Askers /\ NewRow(d, row, none)
      /\ \A v \in Askers \ none : asker'[v] = asker[v]
      /\ \A w \in none : asker'[w].code = "none" /\ AskerOK(w)'
  OBVIOUS
<1> HIDE DEF none
<1> QED
  BY <1>1, QrTypes, DoorStep

LEMMA CreateTableInv == ASSUME QrInv, CreateTable PROVE QrInv'
<1>1. PICK d \in Tables, c \in Codes \ Drawn :
        /\ door[d] = NoDoor
        /\ door' = [door EXCEPT ![d] = [there |-> TRUE, code |-> c, old |-> FALSE, open |-> TRUE]]
        /\ UNCHANGED <<spent, asker>>
  BY DEF CreateTable
<1> DEFINE row == [there |-> TRUE, code |-> c, old |-> FALSE, open |-> TRUE]
<1>2. row \in DoorRecord /\ row.code = c /\ row.there /\ d \in Doors /\ d \notin Counters
  BY DEF DoorRecord, Tables
<1>3. c \notin spent /\ (\A e \in Doors : c # door[e].code) /\ \A v \in Askers : c # asker[v].code
  BY DEF Drawn
<1> HIDE DEF row
<1>4. NewRow(d, row, {})
  BY <1>1, <1>2, <1>3, RecordTypes DEF NewRow
<1> QED
  BY <1>1, <1>2, <1>4, DoorStepAlone DEF row

LEMMA ExpireInv == ASSUME QrInv, NEW d \in Doors, Expire(d) PROVE QrInv'
<1> DEFINE row == [door[d] EXCEPT !.old = TRUE]
<1>1. door' = [door EXCEPT ![d] = row] /\ UNCHANGED <<spent, asker>> /\ door[d].code # "none"
  BY QrTypes DEF Expire, Good
<1>2. row \in DoorRecord /\ row.code = door[d].code /\ row.there = door[d].there /\ door[d] \in DoorRecord
  BY QrTypes DEF DoorRecord
<1> HIDE DEF row
<1>3. door[d].there
  BY <1>1 DEF QrInv
<1>4. NewRow(d, row, {})
  BY <1>1, <1>2, <1>3, RecordTypes DEF NewRow
<1> QED
  BY <1>1, <1>2, <1>4, DoorStepAlone

LEMMA QrNextInv == ASSUME QrInv, [QrNext]_qrVars PROVE QrInv'
<1>1. CASE CreateTable
  BY <1>1, CreateTableInv
<1>2. ASSUME NEW d \in Doors, Expire(d) PROVE QrInv'
  BY <1>2, ExpireInv
<1>3. ASSUME NEW w \in Askers,
             \/ GetOrCreateProfile(w) \/ CreateOrUpdate(w) \/ FindAllWithQrCodes(w) \/ GenerateUniqueQrToken(w)
             \/ UpdateQrToken(w) \/ Reread(w) \/ UpdateTable(w) \/ DeleteTable(w)
      PROVE  QrInv'
  BY <1>3, GetOrCreateInv, CreateOrUpdateInv, FindAllInv, GenerateInv, UpdateInv, RereadInv, UpdateTableInv, DeleteTableInv
<1>4. ASSUME NEW w \in Askers, Hear(w) PROVE QrInv'
  BY <1>4, LeavesStep DEF Hear
<1>5. ASSUME NEW w \in Askers, NEW d \in Doors,
             EnsureQrToken(w, d) \/ RotateQrToken(w, d) \/ FindTable(w, d)
      PROVE  QrInv'
  BY <1>5, EnsureInv, RotateInv, FindTableInv
<1>6. CASE UNCHANGED qrVars
  BY <1>6 DEF qrVars, QrInv, QrTypeOK, DoorsApart, AskersApart, AskerOK, OnDoor, Unused, HandsOut,
              Looking, Was
<1> QED
  BY <1>1, <1>2, <1>3, <1>4, <1>5, <1>6 DEF QrNext

----------------------------------------------------------------------------
(***************************************************************************)
(* Theorems.                                                               *)
(***************************************************************************)
\* The invariant that is inductive.
THEOREM QrInductive == QrSpec => []QrInv
<1>1. QrInit => QrInv
  BY QrInitInv
<1>2. QrInv /\ [QrNext]_qrVars => QrInv'
  BY QrNextInv
<1> QED
  BY <1>1, <1>2, PTL DEF QrSpec

\* Rows and requests always have their types: what is handed out is a code.
THEOREM QrTypesHold == QrSpec => []QrTypeOK
<1>1. QrInv => QrTypeOK
  BY DEF QrInv
<1> QED
  BY <1>1, QrInductive, PTL

\* However reads, rotations, edits and deletions of any number of requests
\* interleave, a code opens one door at most, a dead one opens none, and nobody
\* is handed a code that was dead when they asked.
THEOREM DeadStaysDeadHolds == QrSpec => []DeadStaysDead
<1>1. ASSUME QrInv PROVE DeadStaysDead
  <2>1. ASSUME NEW c \in Codes PROVE Cardinality(Opens(c)) <= 1
    <3>1. \A d, e \in Opens(c) : d = e
      BY <1>1, NoneIsNoCode DEF Opens, QrInv, DoorsApart
    <3>2. CASE Opens(c) = {}
      BY <3>2, FS_EmptySet
    <3>3. ASSUME NEW d \in Opens(c) PROVE Cardinality(Opens(c)) <= 1
      <4>1. Opens(c) = {d}
        BY <3>1
      <4> QED
        BY <4>1, FS_Singleton
    <3> QED
      BY <3>2, <3>3
  <2>2. \A c \in spent : Opens(c) = {}
    BY <1>1 DEF QrInv, DoorsApart, Opens
  <2>3. \A w \in Askers : asker[w].answer \cap asker[w].dead = {}
    BY <1>1 DEF QrInv, AskerOK, HandsOut
  <2> QED
    BY <2>1, <2>2, <2>3 DEF DeadStaysDead
<1> QED
  BY <1>1, QrInductive, PTL
-----------------------------------------------------------------------------
(***************************************************************************)
(* ShopAccounts.  An activation that nobody disturbs does what it should.  *)
(***************************************************************************)
Midway == {"find", "same", "count", "assign", "deactivate", "save", "sync", "remove", "done"}

\* What a request knows of itself.
Prepared(k) ==
  /\ k.at \in {"shop", "make"} =>
       /\ k.op \in DOMAIN Steps \cup {"read"}
       /\ k.op \notin {"read", "profile"} => k.acc \in PromptPays
  /\ k.at \in Midway => k.shop \in Shops /\ k.acc \in PromptPays
  /\ k.at \in {"assign", "deactivate", "save", "sync"} => k.row.shop = k.shop
  /\ k.at = "same" /\ k.op # "create" => k.row.shop = k.shop
  /\ k.at \in {"deactivate", "sync"} => k.row.active

OthersInactive(k, accs) ==
  \A a \in PromptPays \ {k.acc} : accs[a].shop = k.shop => ~accs[a].active

\* What it has brought about as long as it is alone.
Mended(k, accs, profs) ==
  k.alone =>
    /\ k.at = "save" /\ k.row.active => OthersInactive(k, accs)
    /\ k.at = "sync" => OthersInactive(k, accs) /\ accs[k.acc] = k.row
    /\ k.at = "done" => /\ OthersInactive(k, accs)
                        /\ accs[k.acc].shop = k.shop /\ accs[k.acc].active
                        /\ profs[k.shop] = accs[k.acc].num

ShopInv ==
  /\ ShopTypeOK
  /\ \A c \in Clerks : Prepared(clerks[c]) /\ Mended(clerks[c], accounts, profiles)

----------------------------------------------------------------------------
LEMMA ShopTypes ==
  ASSUME ShopInv, NEW c \in Clerks
  PROVE  /\ profiles \in [Shops -> Numbers \cup {"unset", "absent"}]
         /\ accounts \in [PromptPays -> AccountRecord]
         /\ clerks \in [Clerks -> ClerkRecord] /\ clerks[c] \in ClerkRecord
         /\ Prepared(clerks[c]) /\ Mended(clerks[c], accounts, profiles)
BY DEF ShopInv, ShopTypeOK

LEMMA NoClerkOK ==
  /\ NoAccount \in AccountRecord /\ NoClerk \in ClerkRecord /\ Prepared(NoClerk)
  /\ NoClerk.at = "idle" /\ ~NoClerk.alone
BY DEF NoAccount, NoClerk, AccountRecord, ClerkRecord, Places, Prepared, Midway

\* A request that has saved nothing, or nothing active, has nothing to answer for.
LEMMA NothingMended ==
  ASSUME NEW k, NEW accs, NEW profs,
         k.at \notin {"save", "sync", "done"} \/ ~k.alone \/ (k.at = "save" /\ ~k.row.active)
  PROVE  Mended(k, accs, profs)
BY DEF Mended

\* A step that writes nothing.
LEMMA ReadsInv ==
  ASSUME ShopInv, NEW c \in Clerks, NEW k \in ClerkRecord, Prepared(k), Mended(k, accounts, profiles),
         clerks' = [clerks EXCEPT ![c] = k], UNCHANGED <<profiles, accounts>>
  PROVE  ShopInv'
<1>1. /\ clerks' \in [Clerks -> ClerkRecord] /\ clerks'[c] = k
      /\ \A d \in Clerks \ {c} : clerks'[d] = clerks[d]
  BY ShopTypes
<1>2. \A d \in Clerks : Prepared(clerks'[d]) /\ Mended(clerks'[d], accounts, profiles)
  BY <1>1 DEF ShopInv
<1> QED
  BY <1>1, <1>2 DEF ShopInv, ShopTypeOK

\* A write: nobody else is alone after it.
LEMMA WritesInv ==
  ASSUME ShopInv, NEW c \in Clerks, NEW k \in ClerkRecord, Prepared(k), Writes(c, k),
         accounts' \in [PromptPays -> AccountRecord],
         profiles' \in [Shops -> Numbers \cup {"unset", "absent"}],
         Mended(k, accounts', profiles')
  PROVE  ShopInv'
<1>1. ASSUME NEW d \in Clerks
      PROVE  /\ clerks'[d] \in ClerkRecord /\ Prepared(clerks'[d])
             /\ Mended(clerks'[d], accounts', profiles')
  <2>1. CASE d = c
    BY <2>1 DEF Writes
  <2>2. CASE d # c
    <3> DEFINE o == [clerks[d] EXCEPT !.alone = FALSE]
    <3>1. clerks'[d] = o
      BY <1>1, <2>2 DEF Writes
    <3>2. clerks[d] \in ClerkRecord /\ Prepared(clerks[d])
      BY <1>1, ShopTypes
    <3>3. /\ o \in ClerkRecord /\ ~o.alone /\ o.at = clerks[d].at /\ o.op = clerks[d].op
          /\ o.acc = clerks[d].acc /\ o.shop = clerks[d].shop /\ o.row = clerks[d].row
      BY <3>2 DEF ClerkRecord
    <3> HIDE DEF o
    <3>4. Prepared(o)
      BY <3>2, <3>3 DEF Prepared
    <3> QED
      BY <3>1, <3>3, <3>4, NothingMended
  <2> QED
    BY <2>1, <2>2
<1>2. clerks' \in [Clerks -> ClerkRecord]
  BY <1>1 DEF Writes
<1> QED
  BY <1>1, <1>2 DEF ShopInv, ShopTypeOK

\* A request that ends.
LEMMA EndsInv ==
  ASSUME ShopInv, NEW c \in Clerks, Ends(c), UNCHANGED <<profiles, accounts>>
  PROVE  ShopInv'
BY NoClerkOK, NothingMended, ReadsInv DEF Ends

\* A request that goes on to another place with what it had.
LEMMA ToInv ==
  ASSUME ShopInv, NEW c \in Clerks, NEW place \in Places \ {"save", "sync", "done"}, To(c, place),
         UNCHANGED <<profiles, accounts>>,
         \A k \in ClerkRecord :
           /\ k.at = place /\ k.op = clerks[c].op /\ k.acc = clerks[c].acc /\ k.shop = clerks[c].shop
           /\ k.row = clerks[c].row
           => Prepared(k)
  PROVE  ShopInv'
<1> DEFINE k == [clerks[c] EXCEPT !.at = place]
<1>1. clerks[c] \in ClerkRecord /\ clerks \in [Clerks -> ClerkRecord]
  BY ShopTypes
<1>2. /\ k \in ClerkRecord /\ k.at = place /\ k.op = clerks[c].op /\ k.acc = clerks[c].acc
      /\ k.shop = clerks[c].shop /\ k.row = clerks[c].row
  BY <1>1 DEF ClerkRecord
<1>3. clerks' = [clerks EXCEPT ![c] = k]
  BY <1>1 DEF To
<1> HIDE DEF k
<1>4. Prepared(k) /\ Mended(k, accounts, profiles)
  BY <1>2, NothingMended
<1> QED
  BY <1>2, <1>3, <1>4, ReadsInv

\* One that knows the row it will save.
LEMMA BearsOK ==
  ASSUME ShopInv, NEW c \in Clerks, NEW row \in AccountRecord, NEW place \in Places
  PROVE  LET k == Bears(c, row, place)
         IN  /\ k \in ClerkRecord /\ k.at = place /\ k.row = row /\ k.shop = clerks[c].shop
             /\ k.acc = clerks[c].acc /\ k.alone = clerks[c].alone
<1>1. clerks[c] \in ClerkRecord
  BY ShopTypes
<1>2. NoClerk \in ClerkRecord
  BY NoClerkOK
<1> QED
  BY <1>1, <1>2 DEF ClerkRecord, Bears

LEMMA GoesInv ==
  ASSUME ShopInv, NEW c \in Clerks, NEW row \in AccountRecord, NEW place \in {"deactivate", "save"},
         Goes(c, row, place), UNCHANGED <<profiles, accounts>>, clerks[c].at \in Midway,
         row.shop = clerks[c].shop, place = "deactivate" <=> row.active
  PROVE  ShopInv'
<1> DEFINE k == Bears(c, row, place)
<1>1. /\ k \in ClerkRecord /\ k.at = place /\ k.row = row /\ k.shop = clerks[c].shop
      /\ k.acc = clerks[c].acc
  BY BearsOK DEF Places
<1>2. clerks' = [clerks EXCEPT ![c] = k]
  BY DEF Goes
<1>3. clerks[c].shop \in Shops /\ clerks[c].acc \in PromptPays
  BY ShopTypes DEF Prepared
<1> HIDE DEF k
<1>4. Prepared(k) /\ Mended(k, accounts, profiles)
  BY <1>1, <1>3, NothingMended DEF Prepared
<1> QED
  BY <1>1, <1>2, <1>4, ReadsInv

----------------------------------------------------------------------------
(* The steps.                                                               *)

LEMMA ClerkCallsInv == ASSUME ShopInv, NEW c \in Clerks, ClerkCalls(c) PROVE ShopInv'
<1>1. PICK op \in {"read", "create", "update", "activate", "delete", "profile"},
           a \in PromptPays \cup {"none"}, n \in Numbers \cup {"unset"}, wish \in BOOLEAN :
        /\ (a = "none") <=> op \in {"read", "profile"}
        /\ op = "create" => accounts[a] = NoAccount /\ n # "unset" /\ \A d \in Clerks : clerks[d].acc # a
        /\ op \notin {"create", "update"} => ~wish
        /\ op \in {"read", "activate", "delete"} => n = "unset"
        /\ clerks' = [clerks EXCEPT ![c] = [NoClerk EXCEPT !.at = "shop", !.op = op, !.acc = a,
                                                           !.num = n, !.wish = wish, !.alone = TRUE]]
  BY Zenon DEF ClerkCalls
<1> DEFINE k == [NoClerk EXCEPT !.at = "shop", !.op = op, !.acc = a, !.num = n, !.wish = wish, !.alone = TRUE]
<1>2. k \in ClerkRecord /\ k.at = "shop" /\ k.op = op /\ k.acc = a
  <2>1. op \in DOMAIN Steps \cup {"read", "none"} /\ "shop" \in Places
    BY DEF Steps, Places
  <2> QED
    BY <2>1, NoClerkOK DEF ClerkRecord
<1>3. clerks' = [clerks EXCEPT ![c] = k] /\ UNCHANGED <<profiles, accounts>>
  BY <1>1 DEF ClerkCalls
<1> HIDE DEF k
<1>4. Prepared(k) /\ Mended(k, accounts, profiles)
  BY <1>1, <1>2, NothingMended DEF Prepared, Midway, Steps
<1> QED
  BY <1>2, <1>3, <1>4, ReadsInv

LEMMA EnteredOK ==
  ASSUME ShopInv, NEW c \in Clerks, NEW s \in Shops, clerks[c].at \in {"shop", "make"}
  PROVE  /\ Entered(c, s) \in ClerkRecord /\ Prepared(Entered(c, s))
         /\ Entered(c, s).at \notin {"save", "sync", "done"}
<1>1. clerks[c] \in ClerkRecord /\ Prepared(clerks[c])
  BY ShopTypes
<1>2. CASE clerks[c].op = "read"
  BY <1>2, NoClerkOK DEF Entered
<1>3. CASE clerks[c].op # "read"
  <2> DEFINE k == Entered(c, s)
             place == Steps[clerks[c].op]
  <2>1. clerks[c].op \in DOMAIN Steps /\ (clerks[c].op # "profile" => clerks[c].acc \in PromptPays)
    BY <1>1, <1>3 DEF Prepared
  <2>2. /\ place \in {"write", "same", "find"} /\ (place = "write" <=> clerks[c].op = "profile")
        /\ (place = "same" <=> clerks[c].op = "create")
    BY <2>1 DEF Steps
  <2>3. k = [clerks[c] EXCEPT !.shop = s, !.at = place]
    BY <1>3 DEF Entered
  <2> HIDE DEF place, k
  <2>4. /\ k \in ClerkRecord /\ k.at = place /\ k.shop = s /\ k.acc = clerks[c].acc /\ k.op = clerks[c].op
    BY <1>1, <2>2, <2>3 DEF ClerkRecord, Places
  <2>5. Prepared(k)
    BY <2>1, <2>2, <2>4 DEF Prepared, Midway
  <2> QED
    BY <2>2, <2>4, <2>5 DEF k
<1> QED
  BY <1>2, <1>3

LEMMA EntersShopInv ==
  ASSUME ShopInv, NEW c \in Clerks, NEW s \in Shops, clerks[c].at \in {"shop", "make"}, Enters(c, s),
         UNCHANGED <<profiles, accounts>>
  PROVE  ShopInv'
BY EnteredOK, NothingMended, ReadsInv DEF Enters

LEMMA FindShopInv == ASSUME ShopInv, NEW c \in Clerks, FindShop(c) PROVE ShopInv'
<1>1. At(c, "shop") /\ UNCHANGED <<profiles, accounts>> /\ clerks[c].at = "shop"
  BY DEF FindShop, At
<1>2. ASSUME NEW s \in ShopRows, Enters(c, s) PROVE ShopInv'
  BY <1>1, <1>2, EntersShopInv DEF ShopRows
<1>3. CASE To(c, "make")
  <2>1. ASSUME NEW k \in ClerkRecord, k.at = "make", k.op = clerks[c].op, k.acc = clerks[c].acc
        PROVE  Prepared(k)
    BY <1>1, <2>1, ShopTypes DEF Prepared, Midway
  <2> QED
    BY <1>1, <1>3, <2>1, ToInv DEF Places
<1> QED
  BY <1>2, <1>3 DEF FindShop

LEMMA MakeShopInv == ASSUME ShopInv, NEW c \in Clerks, MakeShop(c) PROVE ShopInv'
<1>1. PICK s \in Shops :
        /\ At(c, "make") /\ profiles' = [profiles EXCEPT ![s] = "unset"]
        /\ Writes(c, Entered(c, s)) /\ UNCHANGED accounts
  BY DEF MakeShop
<1>2. /\ accounts' \in [PromptPays -> AccountRecord]
      /\ profiles' \in [Shops -> Numbers \cup {"unset", "absent"}]
  BY <1>1, ShopTypes
<1>3. /\ Entered(c, s) \in ClerkRecord /\ Prepared(Entered(c, s))
      /\ Entered(c, s).at \notin {"save", "sync", "done"}
  BY <1>1, EnteredOK DEF At
<1> QED
  BY <1>1, <1>2, <1>3, NothingMended, WritesInv

LEMMA MakeShopFailsInv == ASSUME ShopInv, NEW c \in Clerks, MakeShopFails(c) PROVE ShopInv'
BY EntersShopInv, EndsInv DEF MakeShopFails, At, ShopRows

LEMMA FindAccountInv == ASSUME ShopInv, NEW c \in Clerks, FindAccount(c) PROVE ShopInv'
<1>1. /\ clerks[c].at = "find" /\ UNCHANGED <<profiles, accounts>> /\ clerks[c].at \in Midway
      /\ clerks[c].shop \in Shops /\ clerks[c].acc \in PromptPays
      /\ Found(c) \in AccountRecord /\ clerks[c] \in ClerkRecord /\ clerks \in [Clerks -> ClerkRecord]
  BY ShopTypes DEF FindAccount, At, Prepared, Midway, Found
<1>2. CASE Ends(c)
  BY <1>1, <1>2, EndsInv
<1>3. CASE Found(c).shop = clerks[c].shop /\ clerks[c].op = "activate"
  <2> DEFINE row == [Found(c) EXCEPT !.active = TRUE]
  <2>1. row \in AccountRecord /\ row.shop = Found(c).shop /\ row.active
    BY <1>1 DEF AccountRecord
  <2>2. Goes(c, row, "deactivate")
    BY <1>3 DEF FindAccount
  <2> HIDE DEF row
  <2> QED
    BY <1>1, <1>3, <2>1, <2>2, GoesInv
<1>4. CASE clerks[c].op = "delete" /\ To(c, "remove")
  <2>1. ASSUME NEW k \in ClerkRecord, k.at = "remove", k.shop = clerks[c].shop, k.acc = clerks[c].acc
        PROVE  Prepared(k)
    BY <1>1, <2>1 DEF Prepared
  <2> QED
    BY <1>1, <1>4, <2>1, ToInv DEF Places
<1>5. CASE Found(c).shop = clerks[c].shop /\ clerks[c].op \notin {"activate", "delete"}
  <2>1. PICK place \in {"assign", "same"} :
          clerks' = [clerks EXCEPT ![c].row = Found(c), ![c].at = place]
    BY <1>5 DEF FindAccount
  <2> DEFINE k == [clerks[c] EXCEPT !.row = Found(c), !.at = place]
  <2>2. clerks' = [clerks EXCEPT ![c] = k]
    BY <1>1, <2>1
  <2>3. /\ k \in ClerkRecord /\ k.at = place /\ k.row = Found(c) /\ k.shop = clerks[c].shop
        /\ k.acc = clerks[c].acc
    BY <1>1 DEF ClerkRecord, Places
  <2> HIDE DEF k
  <2>4. Prepared(k) /\ Mended(k, accounts, profiles)
    BY <1>1, <1>5, <2>3, NothingMended DEF Prepared
  <2> QED
    BY <1>1, <2>2, <2>3, <2>4, ReadsInv
<1> QED
  BY <1>2, <1>3, <1>4, <1>5 DEF FindAccount

LEMMA SameNumberInv == ASSUME ShopInv, NEW c \in Clerks, SameNumber(c) PROVE ShopInv'
<1>1. /\ clerks[c].at = "same" /\ UNCHANGED <<profiles, accounts>> /\ Prepared(clerks[c])
  BY ShopTypes DEF SameNumber, At
<1>2. CASE Ends(c)
  BY <1>1, <1>2, EndsInv
<1>3. CASE clerks[c].op = "create" /\ To(c, "count")
  <2>1. ASSUME NEW k \in ClerkRecord, k.at = "count", k.shop = clerks[c].shop, k.acc = clerks[c].acc
        PROVE  Prepared(k)
    BY <1>1, <2>1 DEF Prepared, Midway
  <2> QED
    BY <1>1, <1>3, <2>1, ToInv DEF Places
<1>4. CASE clerks[c].op # "create" /\ To(c, "assign")
  <2>1. ASSUME NEW k \in ClerkRecord, k.at = "assign", k.shop = clerks[c].shop, k.acc = clerks[c].acc,
               k.row = clerks[c].row
        PROVE  Prepared(k)
    BY <1>1, <1>4, <2>1 DEF Prepared, Midway
  <2> QED
    BY <1>1, <1>4, <2>1, ToInv DEF Places
<1> QED
  BY <1>2, <1>3, <1>4 DEF SameNumber

LEMMA CountInv == ASSUME ShopInv, NEW c \in Clerks, Count(c) PROVE ShopInv'
<1> DEFINE on == clerks[c].wish \/ AccountsOf(clerks[c].shop) = {}
           row == NewAccount(c, on)
<1>1. /\ clerks[c].at = "count" /\ clerks[c].at \in Midway /\ UNCHANGED <<profiles, accounts>>
      /\ clerks[c] \in ClerkRecord
  BY ShopTypes DEF Count, At, Midway
<1>2. on \in BOOLEAN
  BY <1>1 DEF ClerkRecord
<1>3. Goes(c, row, IF on THEN "deactivate" ELSE "save")
  BY DEF Count
<1> HIDE DEF on
<1>4. row \in AccountRecord /\ row.shop = clerks[c].shop /\ row.active = on
  BY <1>1, <1>2 DEF NewAccount, Account, AccountRecord, ClerkRecord
<1> HIDE DEF row
<1>5. CASE on
  BY <1>1, <1>3, <1>4, <1>5, GoesInv
<1>6. CASE ~on
  BY <1>1, <1>3, <1>4, <1>6, GoesInv
<1> QED
  BY <1>5, <1>6

LEMMA AssignInv == ASSUME ShopInv, NEW c \in Clerks, Assign(c) PROVE ShopInv'
<1> DEFINE k == clerks[c]
           row == [k.row EXCEPT !.num = IF k.num = "unset" THEN @ ELSE k.num, !.active = k.wish]
<1>1. /\ k.at = "assign" /\ k.at \in Midway /\ UNCHANGED <<profiles, accounts>>
      /\ k \in ClerkRecord /\ k.row.shop = k.shop /\ k.row \in AccountRecord /\ k.wish \in BOOLEAN
  BY ShopTypes DEF Assign, At, Midway, Prepared, ClerkRecord
<1>2. Goes(c, row, IF k.wish THEN "deactivate" ELSE "save")
  BY DEF Assign
<1>3. row \in AccountRecord /\ row.shop = k.shop /\ row.active = k.wish
  BY <1>1 DEF AccountRecord, ClerkRecord
<1> HIDE DEF row
<1>4. CASE k.wish
  BY <1>1, <1>2, <1>3, <1>4, GoesInv
<1>5. CASE ~k.wish
  BY <1>1, <1>2, <1>3, <1>5, GoesInv
<1> QED
  BY <1>1, <1>4, <1>5

LEMMA DeactivateAllInv == ASSUME ShopInv, NEW c \in Clerks, DeactivateAll(c) PROVE ShopInv'
<1> DEFINE k == [clerks[c] EXCEPT !.at = "save"]
<1>1. /\ clerks[c].at = "deactivate" /\ accounts' = AllInactive(clerks[c].shop) /\ Writes(c, k)
      /\ profiles' \in [Shops -> Numbers \cup {"unset", "absent"}]
      /\ clerks[c] \in ClerkRecord /\ Prepared(clerks[c]) /\ accounts \in [PromptPays -> AccountRecord]
  BY ShopTypes DEF DeactivateAll, At
<1>2. /\ k \in ClerkRecord /\ k.at = "save" /\ k.shop = clerks[c].shop /\ k.acc = clerks[c].acc
      /\ k.row = clerks[c].row
  BY <1>1 DEF ClerkRecord, Places
<1> HIDE DEF k
<1>3. ASSUME NEW a \in PromptPays
      PROVE  accounts'[a] \in AccountRecord /\ (accounts'[a].shop = k.shop => ~accounts'[a].active)
  <2>1. accounts[a] \in AccountRecord
    BY <1>1, <1>3
  <2>2. CASE accounts[a].shop = k.shop
    <3>1. accounts'[a] = [accounts[a] EXCEPT !.active = FALSE]
      BY <1>1, <1>2, <1>3, <2>2 DEF AllInactive
    <3> QED
      BY <2>1, <3>1 DEF AccountRecord
  <2>3. CASE accounts[a].shop # k.shop
    <3>1. accounts'[a] = accounts[a]
      BY <1>1, <1>2, <1>3, <2>3 DEF AllInactive
    <3> QED
      BY <2>1, <2>3, <3>1
  <2> QED
    BY <2>2, <2>3
<1>4. accounts' \in [PromptPays -> AccountRecord]
  BY <1>1, <1>3 DEF AllInactive
<1>5. Prepared(k)
  BY <1>1, <1>2 DEF Prepared, Midway
<1>6. Mended(k, accounts', profiles')
  BY <1>2, <1>3 DEF Mended, OthersInactive
<1> QED
  BY <1>1, <1>2, <1>4, <1>5, <1>6, WritesInv

LEMMA SaveInv == ASSUME ShopInv, NEW c \in Clerks, Save(c) PROVE ShopInv'
<1> DEFINE old == clerks[c]
<1>1. /\ old.at = "save" /\ accounts' = [accounts EXCEPT ![old.acc] = old.row] /\ profiles' = profiles
      /\ Writes(c, IF old.row.active THEN [old EXCEPT !.at = "sync"] ELSE NoClerk)
  BY DEF Save, At
<1>2. /\ old \in ClerkRecord /\ old.row \in AccountRecord /\ old.shop \in Shops /\ old.acc \in PromptPays
      /\ old.row.shop = old.shop /\ Mended(old, accounts, profiles)
      /\ accounts \in [PromptPays -> AccountRecord]
      /\ profiles' \in [Shops -> Numbers \cup {"unset", "absent"}]
  BY <1>1, ShopTypes DEF Prepared, Midway, ClerkRecord
<1>3. /\ accounts' \in [PromptPays -> AccountRecord] /\ accounts'[old.acc] = old.row
      /\ \A a \in PromptPays \ {old.acc} : accounts'[a] = accounts[a]
  BY <1>1, <1>2
<1>4. CASE ~old.row.active
  <2>1. Writes(c, NoClerk)
    BY <1>1, <1>4
  <2>2. Mended(NoClerk, accounts', profiles')
    BY NoClerkOK, NothingMended
  <2> QED
    BY <1>2, <1>3, <2>1, <2>2, NoClerkOK, WritesInv
<1>5. CASE old.row.active
  <2> DEFINE k == [old EXCEPT !.at = "sync"]
  <2>1. Writes(c, k)
    BY <1>1, <1>5
  <2>2. /\ k \in ClerkRecord /\ k.at = "sync" /\ k.shop = old.shop /\ k.acc = old.acc /\ k.row = old.row
        /\ k.alone = old.alone
    BY <1>2 DEF ClerkRecord, Places
  <2> HIDE DEF k
  <2>3. Prepared(k)
    BY <1>2, <1>5, <2>2 DEF Prepared, Midway
  <2>4. Mended(k, accounts', profiles')
    BY <1>1, <1>2, <1>3, <1>5, <2>2 DEF Mended, OthersInactive
  <2> QED
    BY <1>2, <1>3, <2>1, <2>2, <2>3, <2>4, WritesInv
<1> QED
  BY <1>4, <1>5

LEMMA SyncInv == ASSUME ShopInv, NEW c \in Clerks, SyncToShopProfile(c) PROVE ShopInv'
<1> DEFINE old == clerks[c]
           k == Bears(c, NoAccount, "done")
<1>1. /\ old.at = "sync" /\ accounts' = accounts /\ Writes(c, k)
      /\ profiles' = [profiles EXCEPT ![old.shop] = old.row.num]
  BY DEF SyncToShopProfile, At
<1>2. /\ old \in ClerkRecord /\ old.shop \in Shops /\ old.acc \in PromptPays /\ old.row.active
      /\ old.row.shop = old.shop /\ old.row \in AccountRecord /\ old.row.num \in Numbers \cup {"unset"}
      /\ Mended(old, accounts, profiles) /\ accounts' \in [PromptPays -> AccountRecord]
      /\ profiles \in [Shops -> Numbers \cup {"unset", "absent"}]
  BY <1>1, ShopTypes DEF Prepared, Midway, ClerkRecord, AccountRecord
<1>3. /\ k \in ClerkRecord /\ k.at = "done" /\ k.shop = old.shop /\ k.acc = old.acc /\ k.alone = old.alone
  BY NoClerkOK, BearsOK DEF Places
<1> HIDE DEF k
<1>4. /\ profiles' \in [Shops -> Numbers \cup {"unset", "absent"}] /\ profiles'[old.shop] = old.row.num
  BY <1>1, <1>2
<1>5. Prepared(k)
  BY <1>2, <1>3 DEF Prepared, Midway
<1>6. Mended(k, accounts', profiles')
  BY <1>1, <1>2, <1>3, <1>4 DEF Mended, OthersInactive
<1> QED
  BY <1>1, <1>2, <1>3, <1>4, <1>5, <1>6, WritesInv

LEMMA RemoveAccountInv == ASSUME ShopInv, NEW c \in Clerks, RemoveAccount(c) PROVE ShopInv'
<1>1. /\ accounts' \in [PromptPays -> AccountRecord]
      /\ profiles' \in [Shops -> Numbers \cup {"unset", "absent"}]
  BY ShopTypes, NoClerkOK DEF RemoveAccount
<1>2. Writes(c, NoClerk) /\ Mended(NoClerk, accounts', profiles')
  BY NoClerkOK, NothingMended DEF RemoveAccount
<1> QED
  BY <1>1, <1>2, NoClerkOK, WritesInv

LEMMA WriteProfileInv == ASSUME ShopInv, NEW c \in Clerks, WriteProfile(c) PROVE ShopInv'
<1>1. clerks[c].num \in Numbers \cup {"unset"}
  BY ShopTypes DEF ClerkRecord
<1>2. /\ accounts' \in [PromptPays -> AccountRecord]
      /\ profiles' \in [Shops -> Numbers \cup {"unset", "absent"}]
  BY <1>1, ShopTypes DEF WriteProfile
<1>3. Writes(c, NoClerk) /\ Mended(NoClerk, accounts', profiles')
  BY NoClerkOK, NothingMended DEF WriteProfile
<1> QED
  BY <1>2, <1>3, NoClerkOK, WritesInv

\* Inductive: what an activation has brought about so far, while it is alone.
THEOREM ShopInductive == ShopSpec => []ShopInv
<1>1. ASSUME ShopInit PROVE ShopInv
  <2>1. profiles = [s \in Shops |-> "absent"] /\ accounts = [a \in PromptPays |-> NoAccount]
        /\ clerks = [c \in Clerks |-> NoClerk]
    BY <1>1 DEF ShopInit
  <2>2. ShopTypeOK
    BY <2>1, NoClerkOK DEF ShopTypeOK
  <2>3. \A c \in Clerks : clerks[c] = NoClerk
    BY <2>1
  <2> QED
    BY <2>2, <2>3, NoClerkOK, NothingMended DEF ShopInv
<1>2. ASSUME ShopInv, [ShopNext]_shopVars PROVE ShopInv'
  <2>1. CASE UNCHANGED shopVars
    BY <1>2, <2>1 DEF ShopInv, ShopTypeOK, shopVars
  <2>2. CASE ShopNext
    <3>1. PICK c \in Clerks :
            \/ ClerkCalls(c) \/ FindShop(c) \/ MakeShop(c) \/ MakeShopFails(c) \/ FindAccount(c)
            \/ SameNumber(c) \/ Count(c) \/ Assign(c) \/ DeactivateAll(c) \/ Save(c)
            \/ SyncToShopProfile(c) \/ RemoveAccount(c) \/ WriteProfile(c) \/ Breakdown(c)
      BY <2>2 DEF ShopNext
    <3>2. CASE Breakdown(c)
      BY <1>2, <3>2, EndsInv DEF Breakdown
    <3> QED
      BY <1>2, <3>1, <3>2, ClerkCallsInv, FindShopInv, MakeShopInv, MakeShopFailsInv, FindAccountInv,
         SameNumberInv, CountInv, AssignInv, DeactivateAllInv, SaveInv, SyncInv, RemoveAccountInv,
         WriteProfileInv
  <2> QED
    BY <1>2, <2>1, <2>2
<1> QED
  BY <1>1, <1>2, PTL DEF ShopSpec

\* Profiles, accounts and requests have their types.
THEOREM ShopTypesHold == ShopSpec => []ShopTypeOK
<1>1. ShopInv => ShopTypeOK
  BY DEF ShopInv
<1> QED
  BY <1>1, ShopInductive, PTL

\* An activation that nobody else's write came between leaves its account as the
\* only active one, and its number in the profile (PaymentAccount.service).
THEOREM ActivationMendsHolds == ShopSpec => []ActivationMends
<1>1. ASSUME ShopInv PROVE ActivationMends
  <2>1. ASSUME NEW c \in Clerks, At(c, "done"), clerks[c].alone
        PROVE  /\ ActiveOf(clerks[c].shop) = {clerks[c].acc}
               /\ profiles[clerks[c].shop] = accounts[clerks[c].acc].num
    <3>1. /\ Prepared(clerks[c]) /\ Mended(clerks[c], accounts, profiles) /\ clerks[c].at = "done"
      BY <1>1, <2>1, ShopTypes DEF At
    <3>2. /\ clerks[c].acc \in PromptPays /\ OthersInactive(clerks[c], accounts)
          /\ accounts[clerks[c].acc].shop = clerks[c].shop /\ accounts[clerks[c].acc].active
          /\ profiles[clerks[c].shop] = accounts[clerks[c].acc].num
      BY <2>1, <3>1 DEF Prepared, Midway, Mended
    <3> QED
      BY <3>2 DEF OthersInactive, ActiveOf, AccountsOf
  <2> QED
    BY <2>1 DEF ActivationMends
<1> QED
  BY <1>1, ShopInductive, PTL

(***************************************************************************)
(* Shifts: a shift's record remembers what closed it, and opening is safe to*)
(* repeat.                                                                 *)
(***************************************************************************)

USE DEF ShiftIds, Ords, Pays

\* A sum of payments is an amount.
LEMMA SumIsNat == \A pays, S : SumOf(pays, S) \in Nat
BY DEF SumOf, Money

\* The number of shifts opened so far is a number.
LEMMA OpenedIsNat == Opened \in Nat
<1>1. IsFiniteSet(1 .. MaxShifts)
  BY ShiftBounds, FS_Interval
<1>2. IsFiniteSet({k \in 1 .. MaxShifts : shift[k] # NoShift})
  BY <1>1, FS_Subset
<1> QED
  BY <1>2, FS_CardinalityType DEF Opened

\* The null records have the types of their rows.
LEMMA NullTypes ==
    /\ NoPay \in PayRecord
    /\ NoSeen \in SeenRecord
    /\ NoWatch \in WatchRecord
BY DEF NoPay, NoSeen, NoWatch, PayRecord, SeenRecord, WatchRecord

\* An order's status after its payments changed is a status of an order.
LEMMA RefreshedType ==
    ASSUME ShiftsTypeOK, NEW o \in Ords, NEW new
    PROVE  Refreshed(o, new) \in OrderStatuses
BY DEF ShiftsTypeOK, Refreshed, OrderRecord, OrderStatuses

\* What a caller watched has its type, whatever the step was.
LEMMA WatchType ==
    ASSUME ShiftsTypeOK, Remember
    PROVE  watch' \in [Callers -> WatchRecord]
<1>1. Open \subseteq ShiftIds /\ Open' \subseteq ShiftIds
  BY DEF Open
<1>2. Pending(ord') \subseteq Ords
  BY DEF Pending
<1>3. ASSUME NEW s \in Callers
      PROVE  Watched(s) \in WatchRecord
  <2>1. watch[s] \in WatchRecord
    BY DEF ShiftsTypeOK
  <2> QED
    BY <1>1, <1>2, <2>1, NullTypes DEF Watched, WatchRecord
<1> QED
  BY <1>3 DEF Remember
\* A caller's phase and what it read, after a step that sets them.
LEMMA SessionType ==
    ASSUME ShiftsTypeOK, NEW s \in Callers, NEW next \in Stages, NEW read \in SeenRecord,
           stage' = [stage EXCEPT ![s] = next], noted' = [noted EXCEPT ![s] = read]
    PROVE  stage' \in [Callers -> Stages] /\ noted' \in [Callers -> SeenRecord]
BY DEF ShiftsTypeOK

LEMMA EndType ==
    ASSUME ShiftsTypeOK, NEW s \in Callers, End(s)
    PROVE  stage' \in [Callers -> Stages] /\ noted' \in [Callers -> SeenRecord]
BY NullTypes DEF ShiftsTypeOK, End, Stages

\* Every step keeps the history.
LEMMA StepRemembers ==
    ASSUME NEW s \in Callers, CallerStep(s)
    PROVE  Remember
<1>1. CASE OpenFind(s) \/ OpenInsert(s) \/ OpenRefused(s) \/ OpenAgain(s) \/ OpenReturn(s)
  BY <1>1 DEF OpenFind, OpenInsert, OpenRefused, OpenAgain, OpenReturn
<1>2. CASE CloseRead(s) \/ CloseCheck(s) \/ CloseSum(s) \/ CloseSave(s)
  BY <1>2 DEF CloseRead, CloseCheck, CloseSum, CloseSave
<1>3. CASE OrderCheck(s) \/ OrderBegin(s) \/ OrderCommit(s) \/ OrderUpdate(s)
  BY <1>3 DEF OrderCheck, OrderBegin, OrderCommit, OrderUpdate
<1>4. CASE PayBegin(s) \/ PayCommit(s) \/ CallerDies(s)
  BY <1>4, Zenon DEF PayBegin, PayCommit, CallerDies
<1>5. CASE PayEdit(s)
  BY <1>5, Zenon DEF PayEdit
<1> QED
  BY <1>1, <1>2, <1>3, <1>4, <1>5 DEF CallerStep

\* Every step leaves every row and every caller with its type.
LEMMA TypeNext ==
    ASSUME ShiftsTypeOK, \A s \in Callers : Names(s), ShiftsNext
    PROVE  ShiftsTypeOK'
<1> USE DEF Begin, Advance
<1>0. PICK s \in Callers : CallerStep(s)
  BY DEF ShiftsNext
<1>1. Remember
  BY <1>0, StepRemembers
<1>2. watch' \in [Callers -> WatchRecord]
  BY <1>1, WatchType
<1>3. /\ Open \subseteq ShiftIds
      /\ noted[s] \in SeenRecord
      /\ Amounts \subseteq Nat
      /\ \A p \in Pays : pay[p] # NoPay => \E k \in ShiftIds : k = pay[p].shift /\ shift[k] # NoShift
      /\ Names(s)
  BY ShiftMoney DEF ShiftsTypeOK, Open
<1>4. ASSUME UNCHANGED <<shift, ord, pay>>,
             stage' \in [Callers -> Stages], noted' \in [Callers -> SeenRecord]
      PROVE  ShiftsTypeOK'
  BY <1>2, <1>4 DEF ShiftsTypeOK
<1>5. CASE OpenFind(s)
  <2>1. CASE \E k \in Open : Begin(s, "opened", [NoSeen EXCEPT !.shift = k])
    <3>1. PICK k \in Open : Begin(s, "opened", [NoSeen EXCEPT !.shift = k])
      BY <2>1
    <3>2. [NoSeen EXCEPT !.shift = k] \in SeenRecord
      BY <1>3, NullTypes DEF SeenRecord
    <3>3. "opened" \in Stages
      BY DEF Stages
    <3> QED
      BY <1>4, <1>5, <3>1, <3>2, <3>3, SessionType DEF OpenFind
  <2>2. CASE Begin(s, "open.insert", NoSeen)
    <3>1. "open.insert" \in Stages
      BY DEF Stages
    <3> QED
      BY <1>4, <1>5, <2>2, <3>1, NullTypes, SessionType DEF OpenFind
  <2> QED
    BY <1>5, <2>1, <2>2 DEF OpenFind
<1>6. CASE OpenInsert(s)
  <2>1. PICK k \in ShiftIds :
           /\ shift' = [shift EXCEPT ![k].status = "OPEN"]
           /\ Advance(s, "opened", [NoSeen EXCEPT !.shift = k])
           /\ UNCHANGED <<ord, pay>>
    BY <1>6 DEF OpenInsert
  <2>2. [NoSeen EXCEPT !.shift = k] \in SeenRecord /\ "opened" \in Stages
    BY NullTypes DEF SeenRecord, Stages
  <2>3. stage' \in [Callers -> Stages] /\ noted' \in [Callers -> SeenRecord]
    BY <2>1, <2>2, SessionType
  <2>4. shift' \in [ShiftIds -> ShiftRecord]
    BY <2>1 DEF ShiftsTypeOK, ShiftRecord
  <2>5. \A j \in ShiftIds : shift[j] # NoShift => shift'[j] # NoShift
    BY <2>1 DEF ShiftsTypeOK, NoShift, ShiftRecord
  <2> QED
    BY <1>2, <1>3, <2>1, <2>3, <2>4, <2>5 DEF ShiftsTypeOK
<1>7. CASE OpenRefused(s)
  <2>1. "open.again" \in Stages
    BY DEF Stages
  <2> QED
    BY <1>4, <1>7, <2>1, NullTypes, SessionType DEF OpenRefused
<1>8. CASE OpenAgain(s)
  <2>1. CASE \E k \in Open : Advance(s, "opened", [NoSeen EXCEPT !.shift = k])
    <3>1. PICK k \in Open : Advance(s, "opened", [NoSeen EXCEPT !.shift = k])
      BY <2>1
    <3>2. [NoSeen EXCEPT !.shift = k] \in SeenRecord /\ "opened" \in Stages
      BY <1>3, NullTypes DEF SeenRecord, Stages
    <3> QED
      BY <1>4, <1>8, <3>1, <3>2, SessionType DEF OpenAgain
  <2>2. CASE Advance(s, "failed", NoSeen)
    <3>1. "failed" \in Stages
      BY DEF Stages
    <3> QED
      BY <1>4, <1>8, <2>2, <3>1, NullTypes, SessionType DEF OpenAgain
  <2> QED
    BY <1>8, <2>1, <2>2 DEF OpenAgain
<1>9. CASE OpenReturn(s)
  BY <1>4, <1>9, EndType DEF OpenReturn
<1>10. CASE CloseRead(s)
  <2>1. PICK k \in Open, counted \in Amounts :
           Begin(s, "close.check", [NoSeen EXCEPT !.shift = k, !.id = counted])
    BY <1>10 DEF CloseRead
  <2>2. [NoSeen EXCEPT !.shift = k, !.id = counted] \in SeenRecord /\ "close.check" \in Stages
    BY <1>3, NullTypes DEF SeenRecord, Stages
  <2> QED
    BY <1>4, <1>10, <2>1, <2>2, SessionType DEF CloseRead
<1>11. CASE CloseCheck(s)
  <2>1. "close.sum" \in Stages
    BY DEF Stages
  <2> QED
    BY <1>3, <1>4, <1>11, <2>1, SessionType, EndType DEF CloseCheck
<1>12. CASE CloseSum(s)
  <2>1. [noted[s] EXCEPT !.amt = Sum(CashPays(noted[s].shift))] \in SeenRecord
    BY <1>3, SumIsNat DEF SeenRecord, Sum
  <2>2. "close.save" \in Stages
    BY DEF Stages
  <2> QED
    BY <1>4, <1>12, <2>1, <2>2, SessionType DEF CloseSum
<1>13. CASE CloseSave(s)
  <2>1. [status |-> "CLOSED", expected |-> noted[s].amt, counted |-> noted[s].id] \in ShiftRecord
    BY <1>3 DEF SeenRecord, ShiftRecord
  <2>2. shift' \in [ShiftIds -> ShiftRecord]
    BY <1>13, <2>1 DEF CloseSave, ShiftsTypeOK
  <2>3. \A j \in ShiftIds : shift[j] # NoShift => shift'[j] # NoShift
    BY <1>13 DEF CloseSave, ShiftsTypeOK, NoShift
  <2>4. stage' \in [Callers -> Stages] /\ noted' \in [Callers -> SeenRecord]
    BY <1>13, EndType DEF CloseSave
  <2> QED
    BY <1>2, <1>3, <1>13, <2>2, <2>3, <2>4 DEF ShiftsTypeOK, CloseSave
<1>14. CASE OrderCheck(s)
  <2>1. "order.begin" \in Stages
    BY DEF Stages
  <2> QED
    BY <1>4, <1>14, <2>1, NullTypes, SessionType DEF OrderCheck
<1>15. CASE OrderBegin(s)
  <2>1. [NoSeen EXCEPT !.id = Opened] \in SeenRecord /\ "order.commit" \in Stages
    BY OpenedIsNat, NullTypes DEF SeenRecord, Stages
  <2> QED
    BY <1>4, <1>15, <2>1, SessionType DEF OrderBegin
<1>16. CASE OrderCommit(s)
  <2>1. [status |-> "Pending", since |-> noted[s].id] \in OrderRecord
    BY <1>3 DEF SeenRecord, OrderRecord, OrderStatuses
  <2>2. ord' \in [Ords -> OrderRecord]
    BY <1>16, <2>1 DEF OrderCommit, ShiftsTypeOK
  <2>3. stage' \in [Callers -> Stages] /\ noted' \in [Callers -> SeenRecord]
    BY <1>16, EndType DEF OrderCommit
  <2> QED
    BY <1>2, <1>3, <1>16, <2>2, <2>3 DEF ShiftsTypeOK, OrderCommit
<1>17. CASE OrderUpdate(s)
  <2>1. ord' \in [Ords -> OrderRecord]
    BY <1>17 DEF OrderUpdate, ShiftsTypeOK, OrderRecord, OrderStatuses
  <2> QED
    BY <1>2, <1>17, <2>1 DEF ShiftsTypeOK, OrderUpdate
<1>18. CASE PayBegin(s)
  <2>1. PICK o \in Ords, p \in Pays, k \in Open, amt \in Amounts, by \in Methods :
        /\ "pay" \in Ops
        /\ ord[o].status \in {"Pending", "WaitingForPayment"} /\ ~Locked(o)
        /\ pay[p] = NoPay /\ \A x \in 1 .. (p - 1) : pay[x] # NoPay
        /\ \A x \in Callers : stage[x] = "pay" => noted[x].id # p
        /\ Sum(Success(o)) + amt <= Total
        /\ Begin(s, "pay", [NoSeen EXCEPT !.ord = o, !.id = p,
                                         !.pay = Charge(o, k, amt, by)])
        /\ UNCHANGED <<shift, ord, pay>> /\ Remember
    BY <1>18, Zenon DEF PayBegin
  <2>2. Charge(o, k, amt, by) \in PayRecord
    BY <1>3 DEF Charge, PayRecord, Methods
  <2>3. [NoSeen EXCEPT !.ord = o, !.id = p, !.pay = Charge(o, k, amt, by)] \in SeenRecord
    <3>1. o \in Ords /\ p \in Nat
      BY ShiftBounds
    <3> QED
      BY <2>2, <3>1, NullTypes DEF SeenRecord
  <2>4. "pay" \in Stages
    BY DEF Stages
  <2> QED
    BY <1>4, <1>18, <2>1, <2>3, <2>4, SessionType DEF PayBegin
<1>19. CASE PayCommit(s)
  <2> DEFINE new == [pay EXCEPT ![noted[s].id] = noted[s].pay]
  <2>1. /\ stage[s] = "pay" /\ pay' = new /\ End(s) /\ UNCHANGED shift
        /\ ord' = [ord EXCEPT ![noted[s].ord].status = Refreshed(noted[s].ord, new)]
    BY <1>19 DEF PayCommit
  <2>2. /\ noted[s].ord \in Ords /\ noted[s].pay \in PayRecord
        /\ \E k \in ShiftIds : k = noted[s].pay.shift /\ shift[k] # NoShift
    BY <1>3, <2>1 DEF Names, SeenRecord
  <2>3. Refreshed(noted[s].ord, new) \in OrderStatuses
    BY <2>2, RefreshedType
  <2>4. ord' \in [Ords -> OrderRecord]
    <3> HIDE DEF new
    <3> QED
      BY <2>1, <2>2, <2>3 DEF ShiftsTypeOK, OrderRecord
  <2>5. new \in [Pays -> PayRecord]
    BY <2>2 DEF ShiftsTypeOK
  <2>6. \A p \in Pays : new[p] # NoPay => \E k \in ShiftIds : k = new[p].shift /\ shift[k] # NoShift
    BY <1>3, <2>2 DEF ShiftsTypeOK
  <2>7. stage' \in [Callers -> Stages] /\ noted' \in [Callers -> SeenRecord]
    BY <2>1, EndType
  <2> QED
    BY <1>2, <2>1, <2>4, <2>5, <2>6, <2>7 DEF ShiftsTypeOK
<1>20. CASE PayEdit(s)
  <2>1. PICK p \in Pays, amt \in Amounts, by \in Methods, st \in {"Success", "Failed"} :
        LET o   == pay[p].ord
            new == [pay EXCEPT ![p].amt = amt, ![p].by = by, ![p].status = st]
        IN  /\ "editPay" \in Ops
            /\ stage[s] = "idle"
            /\ pay[p] # NoPay /\ ~Locked(o)
            /\ pay' = new
            /\ ord' = [ord EXCEPT ![o].status = Refreshed(o, new)]
            /\ UNCHANGED <<shift, stage, noted>> /\ Remember
    BY <1>20, Zenon DEF PayEdit
  <2> DEFINE o   == pay[p].ord
             new == [pay EXCEPT ![p].amt = amt, ![p].by = by, ![p].status = st]
  <2>2. new \in [Pays -> PayRecord]
    <3>1. pay[p] \in PayRecord /\ amt \in Nat /\ by \in Methods
      BY <1>3 DEF ShiftsTypeOK
    <3>2. [[[pay[p] EXCEPT !.amt = amt] EXCEPT !.by = by] EXCEPT !.status = st] \in PayRecord
      BY <3>1 DEF PayRecord
    <3>3. new = [pay EXCEPT ![p] = [[[pay[p] EXCEPT !.amt = amt] EXCEPT !.by = by] EXCEPT !.status = st]]
      BY DEF ShiftsTypeOK
    <3> QED
      BY <3>2, <3>3 DEF ShiftsTypeOK
  <2>3. ord' \in [Ords -> OrderRecord]
    <3>1. CASE o \in Ords
      BY <2>1, <3>1, RefreshedType DEF ShiftsTypeOK, OrderRecord
    <3>2. CASE o \notin Ords
      BY <2>1, <3>2 DEF ShiftsTypeOK
    <3> QED
      BY <3>1, <3>2
  <2>4. \A x \in Pays : new[x] # NoPay => \E k \in ShiftIds : k = new[x].shift /\ shift[k] # NoShift
    BY <1>3, <2>1 DEF ShiftsTypeOK
  <2> QED
    BY <1>2, <2>1, <2>2, <2>3, <2>4 DEF ShiftsTypeOK
<1>21. CASE CallerDies(s)
  BY <1>4, <1>21, EndType DEF CallerDies
<1> QED
  BY <1>0, <1>5, <1>6, <1>7, <1>8, <1>9, <1>10, <1>11, <1>12, <1>13, <1>14, <1>15, <1>16, <1>17,
     <1>18, <1>19, <1>20, <1>21 DEF CallerStep
-----------------------------------------------------------------------------
\* A step of one caller leaves the others where they are.
LEMMA OneSteps ==
    ASSUME ShiftsTypeOK, NEW s \in Callers, CallerStep(s), NEW x \in Callers, x # s
    PROVE  stage'[x] = stage[x] /\ noted'[x] = noted[x]
<1> USE DEF Begin, Advance, End
<1>1. CASE OpenFind(s) \/ OpenInsert(s) \/ OpenRefused(s) \/ OpenAgain(s) \/ OpenReturn(s)
  BY <1>1 DEF OpenFind, OpenInsert, OpenRefused, OpenAgain, OpenReturn, ShiftsTypeOK
<1>2. CASE CloseRead(s) \/ CloseCheck(s) \/ CloseSum(s) \/ CloseSave(s)
  BY <1>2 DEF CloseRead, CloseCheck, CloseSum, CloseSave, ShiftsTypeOK
<1>3. CASE OrderCheck(s) \/ OrderBegin(s) \/ OrderCommit(s) \/ OrderUpdate(s)
  BY <1>3 DEF OrderCheck, OrderBegin, OrderCommit, OrderUpdate, ShiftsTypeOK
<1>4. CASE PayBegin(s) \/ PayCommit(s) \/ CallerDies(s)
  BY <1>4 DEF PayBegin, PayCommit, CallerDies, ShiftsTypeOK
<1>5. CASE PayEdit(s)
  BY <1>5 DEF PayEdit
<1> QED
  BY <1>1, <1>2, <1>3, <1>4, <1>5 DEF CallerStep

\* Only an opening and the end of a close write a shift.
LEMMA ShiftWriters ==
    ASSUME NEW s \in Callers, CallerStep(s), ~OpenInsert(s), ~CloseSave(s)
    PROVE  shift' = shift
BY DEF CallerStep, OpenFind, OpenRefused, OpenAgain, OpenReturn, CloseRead, CloseCheck, CloseSum,
    OrderCheck, OrderBegin, OrderCommit, OrderUpdate, PayBegin, PayCommit, PayEdit, CallerDies

\* A shift once opened stays, and a closed one stays closed.
LEMMA ShiftsGrow ==
    ASSUME ShiftsTypeOK, NEW s \in Callers, CallerStep(s), NEW k \in ShiftIds
    PROVE  /\ shift[k] # NoShift => shift'[k] # NoShift
           /\ shift[k].status = "CLOSED" => shift'[k].status = "CLOSED"
           /\ shift[k].status = "OPEN" => shift'[k].status \in {"OPEN", "CLOSED"}
<1>1. CASE OpenInsert(s)
  <2>1. PICK j \in ShiftIds : shift[j] = NoShift /\ shift' = [shift EXCEPT ![j].status = "OPEN"]
    BY <1>1 DEF OpenInsert, FreshShift
  <2> QED
    BY <2>1 DEF ShiftsTypeOK, NoShift, ShiftRecord
<1>2. CASE CloseSave(s)
  BY <1>2 DEF CloseSave, ShiftsTypeOK, NoShift, ShiftRecord
<1> QED
  BY <1>1, <1>2, ShiftWriters

\* At most one shift is open after every step.
LEMMA OneOpenNext ==
    ASSUME ShiftsTypeOK, OneOpenShift, NEW s \in Callers, CallerStep(s)
    PROVE  OneOpenShift'
<1>1. CASE OpenInsert(s)
  <2>1. PICK k \in ShiftIds : Open = {} /\ shift' = [shift EXCEPT ![k].status = "OPEN"]
    BY <1>1 DEF OpenInsert, OneOpenPerBranch
  <2> QED
    BY <2>1 DEF OneOpenShift, Open, ShiftsTypeOK
<1>2. CASE CloseSave(s)
  <2>1. Open' \subseteq Open
    BY <1>2 DEF CloseSave, Open, ShiftsTypeOK
  <2> QED
    BY <2>1 DEF OneOpenShift
<1> QED
  BY <1>1, <1>2, ShiftWriters DEF OneOpenShift, Open

\* What a caller watched only grows while its request runs.
LEMMA WatchGrows ==
    ASSUME ShiftsTypeOK, NEW s \in Callers, CallerStep(s), NEW x \in Callers, stage'[x] # "idle"
    PROVE  /\ watch'[x].stuck \subseteq Pending(ord')
           /\ Open' \subseteq watch'[x].opened
           /\ stage[x] # "idle" => /\ watch[x].opened \subseteq watch'[x].opened
                               /\ watch'[x].stuck \subseteq watch[x].stuck
<1>1. watch'[x] = Watched(x)
  BY StepRemembers DEF Remember
<1> QED
  BY <1>1 DEF Watched
-----------------------------------------------------------------------------
\* The phase a step leads to, and what the caller then has read.
LEMMA NamesNext ==
    ASSUME ShiftsTypeOK, NEW s \in Callers, CallerStep(s), NEW x \in Callers, Names(x)
    PROVE  Names(x)'
<1> USE DEF Begin, Advance, End, ClosePhases
<1>1. CASE x # s
  <2>1. stage'[x] = stage[x] /\ noted'[x] = noted[x]
    BY <1>1, OneSteps
  <2> QED
    BY <2>1, ShiftsGrow DEF Names
<1>2. CASE x = s
  <2>1. CASE OpenFind(s) \/ OpenInsert(s) \/ OpenRefused(s) \/ OpenAgain(s) \/ OpenReturn(s)
    <3>1. stage'[s] \notin ClosePhases \cup {"pay"}
      BY <2>1 DEF OpenFind, OpenInsert, OpenRefused, OpenAgain, OpenReturn, ShiftsTypeOK
    <3> QED
      BY <1>2, <3>1 DEF Names
  <2>2. CASE CloseRead(s)
    <3>1. PICK k \in Open, counted \in Amounts :
             Begin(s, "close.check", [NoSeen EXCEPT !.shift = k, !.id = counted])
      BY <2>2 DEF CloseRead
    <3>2. stage'[s] = "close.check" /\ noted'[s].shift = k /\ k \in ShiftIds
      BY <3>1 DEF ShiftsTypeOK, NoSeen, Open
    <3> QED
      BY <1>2, <3>2 DEF Names
  <2>3. CASE CloseCheck(s)
    <3>1. stage[s] = "close.check" /\ stage'[s] \in {"idle", "close.sum"}
      BY <2>3 DEF CloseCheck, ShiftsTypeOK
    <3>2. stage'[s] = "close.sum" => noted'[s] = noted[s]
      BY <2>3 DEF CloseCheck, ShiftsTypeOK
    <3> QED
      BY <1>2, <3>1, <3>2 DEF Names
  <2>4. CASE CloseSum(s)
    <3>1. stage[s] = "close.sum" /\ stage'[s] = "close.save" /\ noted'[s].shift = noted[s].shift
      BY <2>4 DEF CloseSum, ShiftsTypeOK, SeenRecord
    <3> QED
      BY <1>2, <3>1 DEF Names
  <2>5. CASE CloseSave(s) \/ OrderCheck(s) \/ OrderBegin(s) \/ OrderCommit(s) \/ PayCommit(s) \/ CallerDies(s)
    <3>1. stage'[s] \notin ClosePhases \cup {"pay"}
      BY <2>5 DEF CloseSave, OrderCheck, OrderBegin, OrderCommit, PayCommit, CallerDies, ShiftsTypeOK
    <3> QED
      BY <1>2, <3>1 DEF Names
  <2>6. CASE OrderUpdate(s) \/ PayEdit(s)
    <3>1. stage' = stage /\ noted' = noted /\ shift' = shift
      BY <2>6 DEF OrderUpdate, PayEdit
    <3> QED
      BY <3>1 DEF Names
  <2>7. CASE PayBegin(s)
    <3>1. PICK o \in Ords, p \in Pays, k \in Open, amt \in Amounts, by \in Methods :
            /\ "pay" \in Ops
            /\ ord[o].status \in {"Pending", "WaitingForPayment"} /\ ~Locked(o)
            /\ pay[p] = NoPay /\ \A y \in 1 .. (p - 1) : pay[y] # NoPay
            /\ \A y \in Callers : stage[y] = "pay" => noted[y].id # p
            /\ Sum(Success(o)) + amt <= Total
            /\ Begin(s, "pay", [NoSeen EXCEPT !.ord = o, !.id = p,
                                             !.pay = Charge(o, k, amt, by)])
            /\ UNCHANGED <<shift, ord, pay>> /\ Remember
      BY <2>7, Zenon DEF PayBegin
    <3>2. /\ stage'[s] = "pay" /\ noted'[s].ord = o /\ noted'[s].id = p
          /\ noted'[s].pay = Charge(o, k, amt, by) /\ shift' = shift
      BY <3>1 DEF ShiftsTypeOK, NoSeen
    <3>3. k \in ShiftIds /\ shift[k] # NoShift /\ Charge(o, k, amt, by).shift = k
      BY DEF Open, NoShift, Charge
    <3> QED
      BY <1>2, <3>2, <3>3 DEF Names
  <2> QED
    BY <2>1, <2>2, <2>3, <2>4, <2>5, <2>6, <2>7 DEF CallerStep
<1> QED
  BY <1>1, <1>2

\* An opening that is refused, answered or failed has noted the shift it needs.
LEMMA OpenNext ==
    ASSUME ShiftsTypeOK, NEW s \in Callers, CallerStep(s), NEW x \in Callers,
           OpenAnswers(x), OpenFails(x), SawRival(x)
    PROVE  OpenAnswers(x)' /\ OpenFails(x)' /\ SawRival(x)'
<1> USE DEF Begin, Advance, End
<1>0. stage'[x] # "idle" => Open' \subseteq watch'[x].opened
  BY WatchGrows
<1>1. stage'[x] # "idle" /\ stage[x] # "idle" => watch[x].opened \subseteq watch'[x].opened
  BY WatchGrows
<1>2. watch[x].opened \subseteq ShiftIds
  BY DEF ShiftsTypeOK, WatchRecord
<1>3. CASE stage'[x] = stage[x] /\ noted'[x] = noted[x]
  BY <1>1, <1>2, <1>3, ShiftsGrow DEF OpenAnswers, OpenFails, SawRival
<1>4. CASE x # s
  BY <1>3, <1>4, OneSteps
<1>5. CASE x = s
  <2>1. CASE OpenFind(s)
    <3>1. CASE \E k \in Open : Begin(s, "opened", [NoSeen EXCEPT !.shift = k])
      <4>1. PICK k \in Open : Begin(s, "opened", [NoSeen EXCEPT !.shift = k])
        BY <3>1
      <4>2. stage'[s] = "opened" /\ noted'[s].shift = k /\ k \in Open'
        BY <2>1, <4>1 DEF OpenFind, ShiftsTypeOK, NoSeen, Open
      <4> QED
        BY <1>0, <1>5, <4>2 DEF OpenAnswers, OpenFails, SawRival
    <3>2. CASE Begin(s, "open.insert", NoSeen)
      <4>1. stage'[s] = "open.insert"
        BY <3>2 DEF ShiftsTypeOK
      <4> QED
        BY <1>5, <4>1 DEF OpenAnswers, OpenFails, SawRival
    <3> QED
      BY <2>1, <3>1, <3>2 DEF OpenFind
  <2>2. CASE OpenInsert(s)
    <3>1. PICK k \in ShiftIds :
             /\ shift' = [shift EXCEPT ![k].status = "OPEN"]
             /\ Advance(s, "opened", [NoSeen EXCEPT !.shift = k])
      BY <2>2 DEF OpenInsert
    <3>2. stage'[s] = "opened" /\ noted'[s].shift = k /\ k \in Open'
      BY <3>1 DEF ShiftsTypeOK, NoSeen, Open, ShiftRecord
    <3> QED
      BY <1>0, <1>5, <3>2 DEF OpenAnswers, OpenFails, SawRival
  <2>3. CASE OpenRefused(s)
    <3>1. stage'[s] = "open.again" /\ shift' = shift
      BY <2>3 DEF OpenRefused, ShiftsTypeOK
    <3>2. PICK k \in Open : TRUE
      BY <2>3 DEF OpenRefused, OneOpenPerBranch
    <3>3. k \in Open' /\ shift'[k].status = "OPEN"
      BY <3>1, <3>2 DEF Open
    <3> QED
      BY <1>0, <1>5, <3>1, <3>3 DEF OpenAnswers, OpenFails, SawRival
  <2>4. CASE OpenAgain(s)
    <3>1. stage[s] = "open.again" /\ shift' = shift
      BY <2>4 DEF OpenAgain
    <3>2. CASE \E k \in Open : Advance(s, "opened", [NoSeen EXCEPT !.shift = k])
      <4>1. PICK k \in Open : Advance(s, "opened", [NoSeen EXCEPT !.shift = k])
        BY <3>2
      <4>2. stage'[s] = "opened" /\ noted'[s].shift = k /\ k \in Open'
        BY <3>1, <4>1 DEF ShiftsTypeOK, NoSeen, Open
      <4> QED
        BY <1>0, <1>5, <4>2 DEF OpenAnswers, OpenFails, SawRival
    <3>3. CASE Open = {} /\ Advance(s, "failed", NoSeen)
      <4>1. stage'[s] = "failed"
        BY <3>3 DEF ShiftsTypeOK
      <4>2. PICK k \in watch[s].opened : shift[k].status \in {"OPEN", "CLOSED"}
        BY <1>5, <3>1 DEF SawRival
      <4>3. k \in ShiftIds /\ shift[k].status # "OPEN"
        BY <1>2, <1>5, <3>3, <4>2 DEF Open
      <4>4. k \in watch'[s].opened /\ shift'[k].status = "CLOSED"
        BY <1>1, <1>5, <3>1, <4>1, <4>2, <4>3
      <4> QED
        BY <1>5, <4>1, <4>4 DEF OpenAnswers, OpenFails, SawRival
    <3> QED
      BY <2>4, <3>2, <3>3 DEF OpenAgain
  <2>5. CASE OrderUpdate(s) \/ PayEdit(s)
    <3>1. stage' = stage /\ noted' = noted
      BY <2>5 DEF OrderUpdate, PayEdit
    <3> QED
      BY <1>3, <3>1
  <2>6. CASE \/ OpenReturn(s) \/ CloseRead(s) \/ CloseCheck(s) \/ CloseSum(s) \/ CloseSave(s)
             \/ OrderCheck(s) \/ OrderBegin(s) \/ OrderCommit(s) \/ PayBegin(s) \/ PayCommit(s)
             \/ CallerDies(s)
    <3>1. stage'[s] \notin {"opened", "failed", "open.again"}
      BY <2>6 DEF OpenReturn, CloseRead, CloseCheck, CloseSum, CloseSave, OrderCheck, OrderBegin,
        OrderCommit, PayBegin, PayCommit, CallerDies, ShiftsTypeOK
    <3> QED
      BY <1>5, <3>1 DEF OpenAnswers, OpenFails, SawRival
  <2> QED
    BY <2>1, <2>2, <2>3, <2>4, <2>5, <2>6 DEF CallerStep
<1> QED
  BY <1>4, <1>5
-----------------------------------------------------------------------------
\* An order keeps the moment of its creation.
LEMMA SinceStays ==
    ASSUME ShiftsTypeOK, NEW s \in Callers, CallerStep(s), NEW q \in Ords, ord[q] # NoOrd
    PROVE  ord'[q].since = ord[q].since
<1>1. CASE OrderCommit(s)
  <2>1. PICK p \in Ords : ord[p] = NoOrd
                        /\ ord' = [ord EXCEPT ![p] = [status |-> "Pending", since |-> noted[s].id]]
    BY <1>1 DEF OrderCommit
  <2> QED
    BY <2>1 DEF ShiftsTypeOK
<1>2. CASE OrderUpdate(s)
  <2>1. PICK p \in Ords, st \in OrderStatuses : ord' = [ord EXCEPT ![p].status = st]
    BY <1>2 DEF OrderUpdate, OrderStatuses
  <2> QED
    BY <2>1 DEF ShiftsTypeOK, OrderRecord
<1>3. CASE PayCommit(s)
  <2>1. PICK p, st : ord' = [ord EXCEPT ![p].status = st]
    BY <1>3, Zenon DEF PayCommit
  <2> QED
    BY <2>1 DEF ShiftsTypeOK, OrderRecord
<1>4. CASE PayEdit(s)
  <2>1. PICK p \in Pays, amt \in Amounts, by \in Methods, st \in {"Success", "Failed"} :
        LET o   == pay[p].ord
            new == [pay EXCEPT ![p].amt = amt, ![p].by = by, ![p].status = st]
        IN  /\ "editPay" \in Ops
            /\ stage[s] = "idle"
            /\ pay[p] # NoPay /\ ~Locked(o)
            /\ pay' = new
            /\ ord' = [ord EXCEPT ![o].status = Refreshed(o, new)]
            /\ UNCHANGED <<shift, stage, noted>> /\ Remember
    BY <1>4, Zenon DEF PayEdit
  <2>2. ord' = [ord EXCEPT ![pay[p].ord].status = Refreshed(pay[p].ord, pay')]
    BY <2>1
  <2> QED
    BY <2>2 DEF ShiftsTypeOK, OrderRecord
<1>5. CASE \/ OpenFind(s) \/ OpenInsert(s) \/ OpenRefused(s) \/ OpenAgain(s) \/ OpenReturn(s)
           \/ CloseRead(s) \/ CloseCheck(s) \/ CloseSum(s) \/ CloseSave(s)
           \/ OrderCheck(s) \/ OrderBegin(s) \/ PayBegin(s) \/ CallerDies(s)
  BY <1>5 DEF OpenFind, OpenInsert, OpenRefused, OpenAgain, OpenReturn, CloseRead, CloseCheck,
    CloseSum, CloseSave, OrderCheck, OrderBegin, PayBegin, CallerDies
<1> QED
  BY <1>1, <1>2, <1>3, <1>4, <1>5 DEF CallerStep

\* Where a caller is past the check of a close, it has just passed it, or it
\* was past it before.
LEMMA CheckedNext ==
    ASSUME ShiftsTypeOK, NEW s \in Callers, CallerStep(s), NEW x \in Callers, Names(x), Checked(x)
    PROVE  Checked(x)'
<1> USE DEF Begin, Advance, End
<1>1. watch'[x].stuck \subseteq Pending(ord')
  <2>1. CASE stage'[x] = "idle"
    BY <2>1, StepRemembers DEF Remember, Watched, NoWatch
  <2>2. CASE stage'[x] # "idle"
    BY <2>2, WatchGrows
  <2> QED
    BY <2>1, <2>2
<1>2. SUFFICES ASSUME stage'[x] \in {"close.sum", "close.save"}, NEW o \in watch'[x].stuck
               PROVE  ord'[o].since < noted'[x].shift
  BY <1>1 DEF Checked
<1>3. CASE stage[x] \in {"close.sum", "close.save"} /\ noted'[x].shift = noted[x].shift
  <2>1. o \in watch[x].stuck
    BY <1>2, <1>3, WatchGrows
  <2>2. o \in Ords /\ ord[o] # NoOrd /\ ord[o].since < noted[x].shift
    BY <1>3, <2>1 DEF Checked, Pending, NoOrd
  <2> QED
    BY <1>3, <2>2, SinceStays
<1>4. CASE x # s
  BY <1>2, <1>3, <1>4, OneSteps
<1>5. CASE x = s
  <2>1. CASE CloseCheck(s)
    <3>1. /\ stage[s] = "close.check" /\ PendingIn(noted[s].shift) = {}
          /\ noted'[s] = noted[s] /\ ord' = ord
      BY <1>2, <1>5, <2>1 DEF CloseCheck, ShiftsTypeOK
    <3>2. o \in Ords /\ ord[o].status \in PendingStatuses
      BY <1>1, <1>2, <3>1 DEF Pending, PendingStatuses
    <3>3. ~(ord[o].since >= noted[s].shift)
      BY <3>1, <3>2 DEF PendingIn
    <3>4. ord[o].since \in Nat /\ noted[s].shift \in Nat
      BY <1>5, <3>1, <3>2, ShiftBounds DEF ShiftsTypeOK, OrderRecord, Names, ClosePhases
    <3> QED
      BY <1>5, <3>1, <3>3, <3>4
  <2>2. CASE CloseSum(s)
    <3>1. stage[s] = "close.sum" /\ noted'[s].shift = noted[s].shift
      BY <2>2 DEF CloseSum, ShiftsTypeOK, SeenRecord
    <3> QED
      BY <1>3, <1>5, <3>1
  <2>3. CASE OrderUpdate(s) \/ PayEdit(s)
    <3>1. stage' = stage /\ noted' = noted
      BY <2>3 DEF OrderUpdate, PayEdit
    <3> QED
      BY <1>2, <1>3, <3>1
  <2>4. CASE \/ OpenFind(s) \/ OpenInsert(s) \/ OpenRefused(s) \/ OpenAgain(s) \/ OpenReturn(s)
             \/ CloseRead(s) \/ CloseSave(s) \/ OrderCheck(s) \/ OrderBegin(s) \/ OrderCommit(s)
             \/ PayBegin(s) \/ PayCommit(s) \/ CallerDies(s)
    <3>1. stage'[s] \notin {"close.sum", "close.save"}
      BY <2>4 DEF OpenFind, OpenInsert, OpenRefused, OpenAgain, OpenReturn, CloseRead, CloseSave,
        OrderCheck, OrderBegin, OrderCommit, PayBegin, PayCommit, CallerDies, ShiftsTypeOK
    <3> QED
      BY <1>2, <1>5, <3>1
  <2> QED
    BY <2>1, <2>2, <2>3, <2>4 DEF CallerStep
<1> QED
  BY <1>4, <1>5

-----------------------------------------------------------------------------
LEMMA InitInv == ShiftsInit => ShiftsIInv
<1> SUFFICES ASSUME ShiftsInit PROVE ShiftsIInv
  OBVIOUS
<1>1. ShiftsTypeOK
  BY NullTypes DEF ShiftsInit, ShiftsTypeOK, NoShift, NoOrd, ShiftRecord, OrderRecord, OrderStatuses, Stages
<1>2. OpenIsIdempotent
  BY DEF ShiftsInit, OpenIsIdempotent, OneOpenShift, OpenAnswers, OpenFails, Open, NoShift
<1>3. \A s \in Callers : Facts(s)
  BY DEF ShiftsInit, Facts, Names, SawRival, Checked, ClosePhases, NoWatch
<1> QED
  BY <1>1, <1>2, <1>3 DEF ShiftsIInv

LEMMA NextInv == ShiftsIInv /\ [ShiftsNext]_shiftVars => ShiftsIInv'
<1> SUFFICES ASSUME ShiftsIInv, [ShiftsNext]_shiftVars PROVE ShiftsIInv'
  OBVIOUS
<1>1. CASE ShiftsNext
  <2>1. PICK s \in Callers : CallerStep(s)
    BY <1>1 DEF ShiftsNext
  <2>2. ShiftsTypeOK'
    BY <1>1, TypeNext DEF ShiftsIInv, Facts
  <2>3. OneOpenShift'
    BY <2>1, OneOpenNext DEF ShiftsIInv, OpenIsIdempotent
  <2>4. ASSUME NEW x \in Callers
        PROVE  OpenAnswers(x)' /\ OpenFails(x)' /\ Facts(x)'
    <3>1. ShiftsTypeOK /\ Names(x) /\ SawRival(x) /\ Checked(x) /\ OpenAnswers(x) /\ OpenFails(x)
      BY DEF ShiftsIInv, OpenIsIdempotent, Facts
    <3>2. Names(x)'
      BY <2>1, <3>1, NamesNext
    <3>3. OpenAnswers(x)' /\ OpenFails(x)' /\ SawRival(x)'
      BY <2>1, <3>1, OpenNext
    <3>4. Checked(x)'
      BY <2>1, <3>1, CheckedNext
    <3> QED
      BY <3>2, <3>3, <3>4 DEF Facts
  <2> QED
    BY <2>2, <2>3, <2>4 DEF ShiftsIInv, OpenIsIdempotent
<1>2. CASE UNCHANGED shiftVars
  BY <1>2 DEF shiftVars, ShiftsIInv, ShiftsTypeOK, OpenIsIdempotent, OneOpenShift, Open, OpenAnswers, OpenFails,
    Facts, Names, SawRival, Checked, Pending
<1> QED
  BY <1>1, <1>2

\* The inductive invariant of the shifts of a branch.
THEOREM ShiftInvariance == ShiftsSpec => []ShiftsIInv
BY InitInv, NextInv, PTL DEF ShiftsSpec

\* Rows and callers keep their types, and no payment is without a shift.
THEOREM ShiftTypeCorrect == ShiftsSpec => []ShiftsTypeOK
<1>1. ShiftsIInv => ShiftsTypeOK
  BY DEF ShiftsIInv
<1> QED
  BY <1>1, ShiftInvariance, PTL

\* Opening a shift (openShift) is idempotent for any number of callers.
THEOREM OpeningIsIdempotent == ShiftsSpec => []OpenIsIdempotent
<1>1. ShiftsIInv => OpenIsIdempotent
  BY DEF ShiftsIInv
<1> QED
  BY <1>1, ShiftInvariance, PTL

\* An order that is open during the whole of a close (closeShift) stops it.
THEOREM OldOrdersStopCloses == ShiftsSpec => OldOrderStopsClose
<1>1. ShiftsIInv /\ [ShiftsNext]_shiftVars =>
        [\A s \in Callers : stage[s] = "close.save" /\ shift' # shift =>
            \A o \in watch[s].stuck : ord[o].since < noted[s].shift]_shiftVars
  BY DEF ShiftsIInv, Facts, Checked
<1> QED
  BY <1>1, ShiftInvariance, PTL DEF ShiftsSpec, OldOrderStopsClose
=============================================================================

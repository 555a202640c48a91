---------------------------- MODULE StaffProofs ----------------------------
(***************************************************************************)
(* Theorems about Permissions for any staff, administrators, actions,      *)
(* processes and requests, and however they stop and interleave; and about *)
(* Realtime for any users, branches, tables and sockets, RoleDefaults for  *)
(* whatever capabilities are followed, and Endpoints for every route.      *)
(***************************************************************************)
EXTENDS Permissions, Realtime, Endpoints, TLAPS

\* What was asked for is of a user, and risky.
ApprovalsOK ==
    \A k \in Approvals : approvals[k].status # "none" =>
        approvals[k].user \in Staff /\ Risky(approvals[k].rule)

\* What a review has read is still what was asked for, but for its status.
Reviewing(m) ==
    /\ m.id \in Approvals /\ m.of \in Staff /\ m.by \in Admins
    /\ approvals[m.id].status # "none"
    /\ approvals[m.id].user = m.of /\ approvals[m.id].rule = m.rule /\ approvals[m.id].by # m.by

MemoOK(j) ==
    /\ memo[j].kind # "none" => memo[j].proc \in Processes
    /\ task[j] # "idle" => memo[j].kind # "none"
    /\ task[j] = "fetched" => memo[j].of \in Staff /\ memo[j].act \in Asked
    /\ memo[j].kind \in {"edit", "offboard"} /\ memo[j].of \in Staff => ~Risky(memo[j].rule)
    /\ memo[j].kind \in {"approve", "reject"} => Reviewing(memo[j])
    /\ task[j] \in {"mark", "commit"} => memo[j].kind \in {"approve", "reject"}
    /\ task[j] = "commit" /\ memo[j].hit => approvals[memo[j].id].status = "pending"

OneCommit ==
    \A i, j \in Jobs :
        task[i] = "commit" /\ task[j] = "commit" /\ memo[i].id = memo[j].id => i = j

PermInv ==
    /\ PermTypeOK /\ ApprovalsOK /\ OneCommit /\ TwoPersonRule
    /\ \A j \in Jobs : MemoOK(j)

OneOwner ==
    \A i, j \in Jobs : memo[i].owns /\ memo[j].owns /\ memo[i].of = memo[j].of => i = j
-----------------------------------------------------------------------------
LEMMA PermTypes ==
    ASSUME PermInv
    PROVE  /\ rules \in [Subjects -> Rules]
           /\ approvals \in [Approvals -> ApprovalRecord]
           /\ answers \in [Processes -> [Staff -> [Asked -> AnswerRecord]]]
           /\ task \in [Jobs -> Tasks]
           /\ memo \in [Jobs -> MemoRecord]
           /\ applied \subseteq Approvals \X Admins
           /\ OneOwner
           /\ \A j \in Jobs : memo[j] \in MemoRecord /\ MemoOK(j)
           /\ \A k \in Approvals : approvals[k] \in ApprovalRecord
           /\ \A s \in Subjects : rules[s] \in Rules
BY DEF PermInv, PermTypeOK, OneOwner

LEMMA NoTypes ==
    /\ NoMemo \in MemoRecord /\ ~NoMemo.owns /\ NoMemo.kind = "none"
    /\ NoApproval \in ApprovalRecord /\ NoApproval.status = "none"
    /\ NoAnswer \in AnswerRecord /\ NoRows \in Rules /\ ~Risky(NoRows)
    /\ StaffRole \in Subjects /\ StaffRole \notin Staff /\ Staff \subseteq Subjects
    /\ "none" \notin Scopes /\ BaselineRule \in Rules
<1>1. NoRows \in Rules /\ BaselineRule \in Rules
  BY PermissionSets DEF NoRows, Rules, BaselineRule, Levels
<1>2. StaffRole \in Subjects /\ StaffRole \notin Staff /\ Staff \subseteq Subjects /\ "none" \notin Scopes
  BY PermissionSets DEF Subjects
<1>3. NoMemo \in MemoRecord /\ ~NoMemo.owns /\ NoMemo.kind = "none"
  BY <1>1, <1>2 DEF NoMemo, MemoRecord
<1>4. NoApproval \in ApprovalRecord /\ NoApproval.status = "none"
  BY <1>1, <1>2 DEF NoApproval, ApprovalRecord
<1>5. NoAnswer \in AnswerRecord
  BY DecisionLifetime DEF NoAnswer, AnswerRecord
<1>6. ~Risky(NoRows)
  BY <1>2 DEF Risky, NoRows
<1> QED
  BY <1>1, <1>2, <1>3, <1>4, <1>5, <1>6

LEMMA PayloadTypes == Payloads \subseteq Rules
BY NoTypes DEF Payloads, Payload, Rules, Levels

LEMMA DecisionType ==
    ASSUME PermInv, NEW u \in Staff, NEW a \in Asked
    PROVE  Decision(u, a) \in Levels \cup {"none"}
BY PermTypes, NoTypes, PermissionSets DEF Decision, Rules

LEMMA PermInitInv == ASSUME PermInit PROVE PermInv
<1>1. PermTypeOK
  BY NoTypes DEF PermInit, PermTypeOK, Tasks
<1>2. ApprovalsOK
  BY NoTypes DEF PermInit, ApprovalsOK
<1>3. OneCommit
  BY DEF PermInit, OneCommit
<1>4. TwoPersonRule
  BY NoTypes DEF PermInit, TwoPersonRule
<1>5. \A j \in Jobs : MemoOK(j)
  BY NoTypes DEF PermInit, MemoOK
<1> QED
  BY <1>1, <1>2, <1>3, <1>4, <1>5 DEF PermInv
-----------------------------------------------------------------------------
(***************************************************************************)
(* What the requests remember, when one or some of them move.              *)
(***************************************************************************)
JobsOK ==
    /\ task \in [Jobs -> Tasks] /\ memo \in [Jobs -> MemoRecord] /\ OneOwner /\ OneCommit
    /\ \A j \in Jobs : MemoOK(j)

LEMMA JobsAreOK == ASSUME PermInv PROVE JobsOK
BY PermTypes DEF PermInv, JobsOK

\* A request moves to t with the memo m.
LEMMA JobMoves ==
    ASSUME PermInv, UNCHANGED approvals, NEW j \in Jobs, NEW t \in Tasks, NEW m \in MemoRecord,
           MoveOn(j, t, m),
           m.owns => \A i \in Jobs \ {j} : ~(memo[i].owns /\ memo[i].of = m.of),
           t = "commit" => \A i \in Jobs \ {j} : ~(task[i] = "commit" /\ memo[i].id = m.id),
           MemoOK(j)'
    PROVE  JobsOK'
<1>1. /\ task' \in [Jobs -> Tasks] /\ memo' \in [Jobs -> MemoRecord] /\ task'[j] = t /\ memo'[j] = m
      /\ \A i \in Jobs \ {j} : task'[i] = task[i] /\ memo'[i] = memo[i]
  BY PermTypes DEF MoveOn
<1>2. \A i \in Jobs \ {j} : MemoOK(i)'
  BY <1>1 DEF PermInv, MemoOK, Reviewing
<1>3. OneOwner'
  BY <1>1, PermTypes DEF OneOwner
<1>4. OneCommit'
  BY <1>1 DEF PermInv, OneCommit
<1> QED
  BY <1>1, <1>2, <1>3, <1>4 DEF JobsOK

\* Requests end, and those that waited for them go on.
LEMMA JobsEnd ==
    ASSUME PermInv, NEW gone \in SUBSET Jobs, NEW next \in {"delete", "insert"}, EndAll(gone, next),
           \A j \in Jobs \ gone : MemoOK(j) =>
               (memo[j].kind \in {"approve", "reject"} =>
                  Reviewing(memo[j])') /\
               (task[j] = "commit" /\ memo[j].hit => approvals'[memo[j].id].status = "pending")
    PROVE  JobsOK'
<1>1. /\ \A j \in gone : task'[j] = "idle" /\ memo'[j] = NoMemo
      /\ \A j \in Jobs \ gone :
           memo'[j] = memo[j] /\ (task'[j] = task[j] \/ (task[j] = "wait" /\ task'[j] = next))
  BY DEF EndAll
<1>2. task' \in [Jobs -> Tasks] /\ memo' \in [Jobs -> MemoRecord]
  BY <1>1, PermTypes, NoTypes DEF EndAll, Tasks
<1>3. \A j \in gone : MemoOK(j)'
  BY <1>1, NoTypes DEF MemoOK
<1>4. \A j \in Jobs \ gone : MemoOK(j)'
  BY <1>1 DEF PermInv, MemoOK
<1>5. OneOwner'
  <2>1. \A j \in Jobs : memo'[j].owns => memo'[j] = memo[j]
    BY <1>1, NoTypes
  <2> QED
    BY <2>1, PermTypes DEF OneOwner
<1>6. OneCommit'
  <2>1. \A j \in Jobs : task'[j] = "commit" => memo'[j] = memo[j] /\ task[j] = "commit"
    BY <1>1
  <2> QED
    BY <2>1 DEF PermInv, OneCommit
<1> QED
  BY <1>2, <1>3, <1>4, <1>5, <1>6 DEF JobsOK

\* Rules that become risky are not written unless a review does.
LEMMA SamePeople ==
    ASSUME PermInv, UNCHANGED <<approvals, applied>>,
           \A u \in Staff : Risky(rules'[u]) => rules'[u] = rules[u]
    PROVE  TwoPersonRule'
<1>1. ASSUME NEW u \in Staff, Risky(rules'[u])
      PROVE  \E k \in Approvals, x \in Admins :
               <<k, x>> \in applied' /\ approvals'[k].user = u /\ approvals'[k].rule = rules'[u]
                 /\ approvals'[k].by # x
  <2>1. rules'[u] = rules[u] /\ Risky(rules[u])
    BY <1>1
  <2> QED
    BY <2>1 DEF PermInv, TwoPersonRule
<1> QED
  BY <1>1 DEF TwoPersonRule

AnswersType == [Processes -> [Staff -> [Asked -> AnswerRecord]]]

\* Where neither rules nor requests for approval change.
LEMMA NoRulesChange ==
    ASSUME PermInv, JobsOK', UNCHANGED <<rules, approvals, applied>>, answers' \in AnswersType
    PROVE  PermInv'
<1>1. PermTypeOK'
  BY PermTypes DEF JobsOK, PermTypeOK, OneOwner, AnswersType
<1>2. ApprovalsOK'
  BY DEF PermInv, ApprovalsOK
<1>3. TwoPersonRule'
  BY DEF PermInv, TwoPersonRule
<1> QED
  BY <1>1, <1>2, <1>3 DEF PermInv, JobsOK

LEMMA ForgetType ==
    ASSUME PermInv, NEW p \in Processes, NEW s
    PROVE  Forget(p, s) \in AnswersType
<1> DEFINE row == [u \in Staff |-> IF s \in {u, StaffRole} THEN [a \in Asked |-> NoAnswer]
                                   ELSE answers[p][u]]
<1>1. row \in [Staff -> [Asked -> AnswerRecord]]
  BY PermTypes, NoTypes
<1>2. Forget(p, s) = [answers EXCEPT ![p] = row]
  BY DEF Forget
<1> HIDE DEF row
<1> QED
  BY <1>1, <1>2, PermTypes DEF AnswersType

LEMMA SameAnswers == ASSUME PermInv, UNCHANGED answers PROVE answers' \in AnswersType
BY PermTypes DEF AnswersType
-----------------------------------------------------------------------------
(***************************************************************************)
(* The steps of reading and remembering.                                   *)
(***************************************************************************)
LEMMA TimePassesInv == ASSUME PermInv, TimePasses PROVE PermInv'
<1>1. \A e \in AnswerRecord : Older(e) \in AnswerRecord
  BY NoTypes, DecisionLifetime DEF Older, AnswerRecord
<1>2. answers' \in AnswersType
  BY <1>1, PermTypes DEF TimePasses, AnswersType
<1>3. JobsOK'
  BY JobsAreOK DEF TimePasses, JobsOK, OneOwner, OneCommit, MemoOK, Reviewing
<1> QED
  BY <1>2, <1>3, NoRulesChange DEF TimePasses

LEMMA StutterInv == ASSUME PermInv, UNCHANGED permVars PROVE PermInv'
<1>1. JobsOK'
  BY JobsAreOK DEF permVars, JobsOK, OneOwner, OneCommit, MemoOK, Reviewing
<1> QED
  BY <1>1, SameAnswers, NoRulesChange DEF permVars

\* A request begins with a memo that owns nothing.
LEMMA Starts ==
    ASSUME PermInv, UNCHANGED <<rules, approvals, answers, applied>>, NEW j \in Jobs,
           NEW t \in Tasks, NEW m \in MemoRecord, Start(j, t, m), ~m.owns, t # "commit",
           m.proc \in Processes, m.kind # "none",
           t = "fetched" => m.of \in Staff /\ m.act \in Asked,
           m.kind \in {"edit", "offboard"} /\ m.of \in Staff => ~Risky(m.rule),
           m.kind \in {"approve", "reject"} => Reviewing(m),
           t = "mark" => m.kind \in {"approve", "reject"}
    PROVE  PermInv'
<1>1. MoveOn(j, t, m) /\ task'[j] = t /\ memo'[j] = m
  BY PermTypes DEF Start, MoveOn
<1>2. MemoOK(j)'
  BY <1>1 DEF MemoOK, Reviewing
<1> QED
  BY <1>1, <1>2, JobMoves, SameAnswers, NoRulesChange

LEMMA FetchInv == ASSUME PermInv, NEW j \in Jobs, Fetch(j) PROVE PermInv'
<1>1. PICK p \in Processes, u \in Staff, a \in Asked :
        Start(j, "fetched", [NoMemo EXCEPT !.kind = "ask", !.proc = p, !.of = u, !.act = a,
                                           !.value = Decision(u, a)])
  BY DEF Fetch
<1> DEFINE v == Decision(u, a)
<1>2. v \in Levels \cup {"none"}
  BY DecisionType
<1> HIDE DEF v
<1> DEFINE m == [NoMemo EXCEPT !.kind = "ask", !.proc = p, !.of = u, !.act = a, !.value = v]
<1>3. m \in MemoRecord /\ ~m.owns /\ m.kind = "ask" /\ m.proc = p
      /\ m.of = u /\ m.act = a
  BY <1>2, NoTypes DEF MemoRecord
<1>4. Start(j, "fetched", m)
  BY <1>1 DEF v
<1> HIDE DEF m
<1>5. UNCHANGED <<rules, approvals, answers, applied>> /\ "fetched" \in Tasks
  BY DEF Fetch, Tasks
<1> QED
  BY <1>3, <1>4, <1>5, Starts

LEMMA EditType ==
    ASSUME NEW p \in Processes, NEW s \in Subjects, NEW rule \in Rules
    PROVE  /\ Edit(p, s, rule) \in MemoRecord /\ ~Edit(p, s, rule).owns
           /\ Edit(p, s, rule).kind = "edit" /\ Edit(p, s, rule).of = s
           /\ Edit(p, s, rule).rule = rule /\ Edit(p, s, rule).proc = p
BY NoTypes DEF Edit, MemoRecord

LEMMA SubmitInv == ASSUME PermInv, NEW j \in Jobs, SubmitOverride(j) PROVE PermInv'
<1>1. PICK p \in Processes, u \in Staff, rule \in Payloads :
        ~Risky(rule) /\ Start(j, "delete", Edit(p, u, rule))
  BY DEF SubmitOverride
<1>2. UNCHANGED <<rules, approvals, answers, applied>> /\ "delete" \in Tasks /\ u \in Subjects /\ rule \in Rules
  BY NoTypes, PayloadTypes DEF SubmitOverride, Tasks
<1> QED
  BY <1>1, <1>2, EditType, Starts

LEMMA ReplaceRoleInv == ASSUME PermInv, NEW j \in Jobs, ReplaceRole(j) PROVE PermInv'
<1>1. PICK p \in Processes, rule \in Payloads : Start(j, "delete", Edit(p, StaffRole, rule))
  BY DEF ReplaceRole
<1>2. UNCHANGED <<rules, approvals, answers, applied>> /\ "delete" \in Tasks /\ rule \in Rules
  BY PayloadTypes DEF ReplaceRole, Tasks
<1> QED
  BY <1>1, <1>2, EditType, NoTypes, Starts

LEMMA OffboardInv == ASSUME PermInv, NEW j \in Jobs, Offboard(j) PROVE PermInv'
<1>1. PICK p \in Processes, u \in Staff :
        Start(j, IF rules[u] # NoRows THEN "delete" ELSE "invalidate",
              [Edit(p, u, NoRows) EXCEPT !.kind = "offboard"])
  BY DEF Offboard
<1> DEFINE m == [Edit(p, u, NoRows) EXCEPT !.kind = "offboard"]
           t == IF rules[u] # NoRows THEN "delete" ELSE "invalidate"
<1>2. m \in MemoRecord /\ ~m.owns /\ m.kind = "offboard" /\ m.of = u /\ m.rule = NoRows
      /\ m.proc = p
  BY EditType, NoTypes DEF MemoRecord
<1>3. UNCHANGED <<rules, approvals, answers, applied>> /\ t \in Tasks /\ t \in {"delete", "invalidate"}
  BY DEF Offboard, Tasks
<1> HIDE DEF m, t
<1> QED
  BY <1>1, <1>2, <1>3, NoTypes, Starts DEF m, t

LEMMA ReviewInv == ASSUME PermInv, NEW j \in Jobs, Review(j) PROVE PermInv'
<1>1. PICK p \in Processes, k \in Approvals, x \in Admins, verdict \in {"approve", "reject"} :
        /\ MayReview(k, x)
        /\ Start(j, IF verdict = "approve" THEN "delete" ELSE "mark",
                 [NoMemo EXCEPT !.kind = verdict, !.proc = p, !.of = approvals[k].user,
                                !.rule = approvals[k].rule, !.by = x, !.id = k])
  BY DEF Review
<1> DEFINE u == approvals[k].user
           rule == approvals[k].rule
           m == [NoMemo EXCEPT !.kind = verdict, !.proc = p, !.of = u, !.rule = rule, !.by = x, !.id = k]
           t == IF verdict = "approve" THEN "delete" ELSE "mark"
<1>2. u \in Staff /\ u \in Subjects /\ rule \in Rules
  BY <1>1, PermTypes, NoTypes DEF MayReview, PermInv, ApprovalsOK, ApprovalRecord
<1> HIDE DEF u, rule
<1>3. /\ m \in MemoRecord /\ ~m.owns /\ m.kind = verdict /\ m.of = u /\ m.rule = rule /\ m.by = x
      /\ m.id = k /\ m.proc = p
  BY <1>2, NoTypes DEF MemoRecord
<1>4. t \in Tasks /\ t \in {"delete", "mark"} /\ UNCHANGED <<rules, approvals, answers, applied>>
  BY DEF Review, Tasks
<1>5. Start(j, t, m)
  BY <1>1 DEF u, rule
<1> HIDE DEF m, t
<1>6. Reviewing(m)
  BY <1>1, <1>2, <1>3 DEF Reviewing, MayReview, u, rule
<1> QED
  BY <1>3, <1>4, <1>5, <1>6, Starts

LEMMA AskApprovalInv == ASSUME PermInv, RequestApproval PROVE PermInv'
<1>1. PICK k \in Approvals, u \in Staff, x \in Admins, rule \in Payloads :
        /\ Risky(rule) /\ approvals[k] = NoApproval
        /\ approvals' = [approvals EXCEPT ![k] = [status |-> "pending", user |-> u, by |-> x, rule |-> rule]]
  BY DEF RequestApproval
<1> DEFINE new == [status |-> "pending", user |-> u, by |-> x, rule |-> rule]
<1>2. new \in ApprovalRecord /\ new.status = "pending" /\ new.user = u /\ new.rule = rule
  BY NoTypes, PayloadTypes DEF ApprovalRecord
<1> HIDE DEF new
<1>3. /\ approvals' \in [Approvals -> ApprovalRecord] /\ approvals'[k] = new
      /\ \A i \in Approvals \ {k} : approvals'[i] = approvals[i]
      /\ UNCHANGED <<rules, answers, task, memo, applied>>
  BY <1>1, <1>2, PermTypes DEF new, RequestApproval
<1>4. JobsOK'
  <2>1. ASSUME NEW j \in Jobs PROVE MemoOK(j)'
    <3>1. MemoOK(j)
      BY DEF PermInv
    <3>2. memo[j].kind \in {"approve", "reject"} => memo[j].id # k
      BY <1>1, <3>1, NoTypes DEF MemoOK, Reviewing
    <3> QED
      BY <1>3, <3>1, <3>2 DEF MemoOK, Reviewing
  <2> QED
    BY <1>3, <2>1, JobsAreOK DEF JobsOK, OneOwner, OneCommit
<1>5. ApprovalsOK'
  BY <1>1, <1>2, <1>3 DEF PermInv, ApprovalsOK, Risky
<1>6. TwoPersonRule'
  <2>1. ASSUME NEW s \in Staff, Risky(rules[s])
        PROVE  \E i \in Approvals, y \in Admins :
                 <<i, y>> \in applied /\ approvals'[i].user = s /\ approvals'[i].rule = rules[s]
                   /\ approvals'[i].by # y
    <3>1. PICK i \in Approvals, y \in Admins :
            <<i, y>> \in applied /\ approvals[i].user = s /\ approvals[i].rule = rules[s]
              /\ approvals[i].by # y
      BY <2>1 DEF PermInv, TwoPersonRule
    <3>2. i # k
      BY <1>1, <3>1, NoTypes DEF NoApproval
    <3> QED
      BY <1>3, <3>1, <3>2
  <2> QED
    BY <1>3, <2>1 DEF TwoPersonRule
<1>7. PermTypeOK'
  BY <1>3, <1>4, PermTypes DEF PermTypeOK, JobsOK, OneOwner
<1> QED
  BY <1>4, <1>5, <1>6, <1>7 DEF PermInv, JobsOK
-----------------------------------------------------------------------------
(***************************************************************************)
(* The steps of a transaction.                                             *)
(***************************************************************************)
LEMMA DeleteRowsInv == ASSUME PermInv, NEW j \in Jobs, DeleteRows(j) PROVE PermInv'
<1> DEFINE present == rules[memo[j].of] # NoRows
<1>1. /\ task[j] = "delete" /\ UNCHANGED <<rules, approvals, answers, applied>>
      /\ memo[j] \in MemoRecord /\ MemoOK(j)
  BY PermTypes DEF DeleteRows
<1>2. CASE present /\ HeldByOther(j)
  <2>1. MoveOn(j, "wait", memo[j])
    BY <1>2 DEF DeleteRows
  <2>2. "wait" \in Tasks /\ MemoOK(j)'
    BY <1>1, <2>1, PermTypes DEF MoveOn, Tasks, MemoOK, Reviewing
  <2>3. memo[j].owns => \A i \in Jobs \ {j} : ~(memo[i].owns /\ memo[i].of = memo[j].of)
    BY PermTypes DEF OneOwner
  <2> QED
    BY <1>1, <2>1, <2>2, <2>3, JobMoves, SameAnswers, NoRulesChange
<1>3. CASE ~(present /\ HeldByOther(j))
  <2> DEFINE m == [memo[j] EXCEPT !.owns = present]
  <2>1. MoveOn(j, "insert", m)
    BY <1>3 DEF DeleteRows
  <2>2. /\ m \in MemoRecord /\ m.owns = present /\ m.of = memo[j].of /\ m.kind = memo[j].kind
        /\ m.rule = memo[j].rule /\ m.id = memo[j].id /\ m.by = memo[j].by /\ m.proc = memo[j].proc
    BY <1>1 DEF MemoRecord
  <2>3. m.owns => \A i \in Jobs \ {j} : ~(memo[i].owns /\ memo[i].of = m.of)
    BY <1>3, <2>2 DEF HeldByOther
  <2> HIDE DEF m
  <2>4. "insert" \in Tasks /\ MemoOK(j)'
    BY <1>1, <2>1, <2>2, PermTypes DEF MoveOn, Tasks, MemoOK, Reviewing
  <2> QED
    BY <1>1, <2>1, <2>2, <2>3, <2>4, JobMoves, SameAnswers, NoRulesChange
<1> QED
  BY <1>2, <1>3

LEMMA ApproveInsertInv == ASSUME PermInv, NEW j \in Jobs, ApproveInsert(j) PROVE PermInv'
<1>1. /\ task[j] = "insert" /\ UNCHANGED <<rules, approvals, answers, applied>>
      /\ memo[j] \in MemoRecord /\ MemoOK(j) /\ memo[j].kind = "approve"
      /\ memo[j].rule = NoRows \/ ~HeldByOther(j)
  BY PermTypes DEF ApproveInsert, CanInsert
<1> DEFINE m == [memo[j] EXCEPT !.owns = TRUE]
<1>2. MoveOn(j, "mark", m)
  BY DEF ApproveInsert
<1>3. /\ m \in MemoRecord /\ m.of = memo[j].of /\ m.kind = memo[j].kind
      /\ m.rule = memo[j].rule /\ m.id = memo[j].id /\ m.by = memo[j].by /\ m.proc = memo[j].proc
  BY <1>1 DEF MemoRecord
<1> HIDE DEF m
<1>4. memo[j].rule # NoRows
  BY <1>1, NoTypes DEF MemoOK, Reviewing, PermInv, ApprovalsOK
<1>5. \A i \in Jobs \ {j} : ~(memo[i].owns /\ memo[i].of = m.of)
  BY <1>1, <1>3, <1>4 DEF HeldByOther
<1>6. "mark" \in Tasks /\ MemoOK(j)'
  BY <1>1, <1>2, <1>3, PermTypes DEF MoveOn, Tasks, MemoOK, Reviewing
<1> QED
  BY <1>1, <1>2, <1>3, <1>5, <1>6, JobMoves, SameAnswers, NoRulesChange

LEMMA MarkInv == ASSUME PermInv, NEW j \in Jobs, Mark(j) PROVE PermInv'
<1> DEFINE hit == approvals[memo[j].id].status = "pending"
           m == [memo[j] EXCEPT !.hit = hit]
<1>1. /\ task[j] = "mark" /\ UNCHANGED <<rules, approvals, applied>>
      /\ \A x \in Jobs : task[x] = "commit" => memo[x].id # memo[j].id
      /\ memo[j] \in MemoRecord /\ MemoOK(j) /\ MoveOn(j, "commit", m)
  BY PermTypes DEF Mark, StillPending
<1>2. /\ m \in MemoRecord /\ m.of = memo[j].of /\ m.kind = memo[j].kind /\ m.owns = memo[j].owns
      /\ m.rule = memo[j].rule /\ m.id = memo[j].id /\ m.by = memo[j].by /\ m.proc = memo[j].proc /\ m.hit = hit
  BY <1>1 DEF MemoRecord
<1> HIDE DEF m
<1>3. m.owns => \A i \in Jobs \ {j} : ~(memo[i].owns /\ memo[i].of = m.of)
  BY <1>2, PermTypes DEF OneOwner
<1>4. "commit" \in Tasks /\ MemoOK(j)'
  BY <1>1, <1>2, PermTypes DEF MoveOn, Tasks, MemoOK, Reviewing
<1>5. \A i \in Jobs \ {j} : ~(task[i] = "commit" /\ memo[i].id = m.id)
  BY <1>1, <1>2
<1>6. JobsOK'
  BY <1>1, <1>2, <1>3, <1>4, <1>5, JobMoves
<1>7. answers' \in AnswersType
  <2>1. memo[j].kind = "approve" => memo[j].proc \in Processes
    BY <1>1 DEF MemoOK
  <2> QED
    BY <2>1, ForgetType, SameAnswers DEF Mark
<1> QED
  BY <1>1, <1>6, <1>7, NoRulesChange

(***************************************************************************)
(* Steps that end a request.                                               *)
(***************************************************************************)
LEMMA ReturnKeeps ==
    ASSUME PermInv, UNCHANGED approvals, NEW j \in Jobs, Return(j) \/ Rollback({j})
    PROVE  JobsOK'
<1> DEFINE gone == {j}
<1>1. PICK next \in {"delete", "insert"} :
         gone \in SUBSET Jobs /\ EndAll(gone, next) /\ \A i \in Jobs \ gone : memo'[i] = memo[i]
  BY DEF Return, Rollback, EndAll
<1>2. \A i \in Jobs \ gone : MemoOK(i) =>
        (memo[i].kind \in {"approve", "reject"} => Reviewing(memo[i])')
        /\ (task[i] = "commit" /\ memo[i].hit => approvals'[memo[i].id].status = "pending")
  BY <1>1 DEF MemoOK, Reviewing
<1> HIDE DEF gone
<1> QED
  BY <1>1, <1>2, JobsEnd

LEMMA KeepAnswerInv == ASSUME PermInv, NEW j \in Jobs, KeepAnswer(j) PROVE PermInv'
<1>1. /\ task[j] = "fetched" /\ Return(j) /\ UNCHANGED <<rules, approvals, applied>>
      /\ answers' = [answers EXCEPT ![memo[j].proc][memo[j].of][memo[j].act] =
                        [value |-> memo[j].value, age |-> 0]]
  BY DEF KeepAnswer
<1>2. /\ memo[j].proc \in Processes /\ memo[j].of \in Staff /\ memo[j].act \in Asked
      /\ memo[j] \in MemoRecord
  BY <1>1, PermTypes DEF MemoOK
<1> DEFINE e == [value |-> memo[j].value, age |-> 0]
<1>3. e \in AnswerRecord
  BY <1>2, DecisionLifetime DEF MemoRecord, AnswerRecord
<1> HIDE DEF e
<1>4. answers' \in AnswersType
  BY <1>1, <1>2, <1>3, PermTypes DEF e, AnswersType
<1> QED
  BY <1>1, <1>4, ReturnKeeps, NoRulesChange

LEMMA InsertRefusedInv == ASSUME PermInv, NEW j \in Jobs, InsertRefused(j) PROVE PermInv'
BY ReturnKeeps, SameAnswers, NoRulesChange DEF InsertRefused

LEMMA InsertVictimInv == ASSUME PermInv, NEW j \in Jobs, InsertVictim(j) PROVE PermInv'
BY ReturnKeeps, SameAnswers, NoRulesChange DEF InsertVictim

LEMMA InvalidateInv == ASSUME PermInv, NEW j \in Jobs, Invalidate(j) PROVE PermInv'
<1>1. /\ task[j] = "invalidate" /\ Return(j) /\ UNCHANGED <<rules, approvals, applied>>
      /\ answers' = Forget(memo[j].proc, memo[j].of)
  BY DEF Invalidate
<1>2. memo[j].proc \in Processes
  BY <1>1, PermTypes DEF MemoOK
<1> QED
  BY <1>1, <1>2, ReturnKeeps, ForgetType, NoRulesChange

\* An edit is written by a request that holds the rows, or finds none.
LEMMA InsertRowsInv == ASSUME PermInv, NEW j \in Jobs, InsertRows(j) PROVE PermInv'
<1>1. /\ task[j] = "insert" /\ memo[j].kind \in {"edit", "offboard"} /\ rules' = Written(j)
      /\ memo' = [memo EXCEPT ![j].owns = FALSE] /\ UNCHANGED <<approvals, answers, applied>>
      /\ memo[j] \in MemoRecord /\ MemoOK(j)
  BY PermTypes DEF InsertRows, CanInsert
<1> DEFINE m == [memo[j] EXCEPT !.owns = FALSE]
<1>2. /\ m \in MemoRecord /\ m.of = memo[j].of /\ m.kind = memo[j].kind /\ ~m.owns
      /\ m.rule = memo[j].rule /\ m.id = memo[j].id /\ m.by = memo[j].by /\ m.proc = memo[j].proc
  BY <1>1 DEF MemoRecord
<1>3. memo' = [memo EXCEPT ![j] = m]
  BY <1>1, PermTypes
<1> HIDE DEF m
<1>4. /\ memo' \in [Jobs -> MemoRecord] /\ memo'[j] = m /\ task'[j] = "invalidate"
      /\ \A i \in Jobs \ {j} : memo'[i] = memo[i]
                               /\ (task'[i] = task[i] \/ (task[i] = "wait" /\ task'[i] = "insert"))
  BY <1>2, <1>3, PermTypes DEF InsertRows
<1>5. task' \in [Jobs -> Tasks]
  <2>1. \A i \in Jobs : task'[i] \in Tasks
    BY <1>4, PermTypes DEF Tasks
  <2> QED
    BY <2>1 DEF InsertRows
<1>6. \A i \in Jobs : MemoOK(i)'
  <2>1. MemoOK(j)'
    BY <1>1, <1>2, <1>4 DEF MemoOK
  <2>2. \A i \in Jobs \ {j} : MemoOK(i)'
    BY <1>1, <1>4 DEF PermInv, MemoOK, Reviewing
  <2> QED
    BY <2>1, <2>2
<1>7. OneOwner' /\ OneCommit'
  BY <1>2, <1>4, PermTypes DEF PermInv, OneOwner, OneCommit
<1>8. rules' = rules \/ rules' = [rules EXCEPT ![memo[j].of] = memo[j].rule]
  BY <1>1 DEF Written
<1>9. rules' \in [Subjects -> Rules]
  BY <1>1, <1>8, PermTypes DEF MemoRecord
<1>10. TwoPersonRule'
  <2>1. ASSUME NEW u \in Staff, Risky(rules'[u]) PROVE rules'[u] = rules[u]
    BY <1>1, <1>8, <2>1, PermTypes, NoTypes DEF MemoOK, MemoRecord
  <2> QED
    BY <1>1, <2>1, SamePeople
<1>11. ApprovalsOK'
  BY <1>1 DEF PermInv, ApprovalsOK
<1>12. PermTypeOK'
  BY <1>1, <1>4, <1>5, <1>7, <1>9, PermTypes DEF PermTypeOK, OneOwner
<1> QED
  BY <1>6, <1>7, <1>10, <1>11, <1>12 DEF PermInv

\* A review puts in force what was asked for by another administrator, and decides
\* a request only while it is pending.
LEMMA CommitInv == ASSUME PermInv, NEW j \in Jobs, CommitReview(j) PROVE PermInv'
<1> DEFINE k == memo[j].id
           m == memo[j]
<1>1. /\ task[j] = "commit" /\ Return(j) /\ UNCHANGED answers
      /\ m \in MemoRecord /\ MemoOK(j) /\ m.kind \in {"approve", "reject"} /\ Reviewing(m)
      /\ approvals' = IF m.hit THEN [approvals EXCEPT ![k].status = Ruling(m.kind)] ELSE approvals
      /\ rules' = IF m.kind = "approve" THEN Written(j) ELSE rules
      /\ applied' = IF m.kind = "approve" THEN applied \cup {<<k, m.by>>} ELSE applied
  BY PermTypes DEF CommitReview, MemoOK
<1>2. k \in Approvals /\ approvals[k] \in ApprovalRecord
  BY <1>1, PermTypes DEF Reviewing
<1>3. /\ approvals' \in [Approvals -> ApprovalRecord]
      /\ \A i \in Approvals :
           /\ approvals'[i].user = approvals[i].user /\ approvals'[i].rule = approvals[i].rule
           /\ approvals'[i].by = approvals[i].by
           /\ approvals'[i].status = "none" <=> approvals[i].status = "none"
           /\ i # k => approvals'[i] = approvals[i]
  <2>1. CASE m.hit
    <3> DEFINE new == [approvals[k] EXCEPT !.status = Ruling(m.kind)]
    <3>1. approvals' = [approvals EXCEPT ![k] = new]
      BY <1>1, <2>1
    <3>2. /\ new \in ApprovalRecord /\ new.user = approvals[k].user /\ new.rule = approvals[k].rule
          /\ new.by = approvals[k].by /\ new.status # "none"
      BY <1>2 DEF ApprovalRecord, Ruling
    <3>3. approvals[k].status # "none"
      BY <1>1 DEF Reviewing
    <3> HIDE DEF new, k
    <3> QED
      BY <1>2, <3>1, <3>2, <3>3, PermTypes
  <2>2. CASE ~m.hit
    BY <1>1, <2>2, PermTypes
  <2> QED
    BY <2>1, <2>2
<1>4. JobsOK'
  <2> DEFINE gone == {j}
             next == "insert"
  <2>1. /\ gone \in SUBSET Jobs /\ next \in {"delete", "insert"} /\ EndAll(gone, next)
        /\ \A i \in Jobs \ gone : memo'[i] = memo[i] /\ i # j
    BY <1>1 DEF Return, EndAll
  <2>2. ASSUME NEW i \in Jobs \ gone, MemoOK(i), memo[i].kind \in {"approve", "reject"}
        PROVE  Reviewing(memo[i])'
    <3>1. Reviewing(memo[i]) /\ memo'[i] = memo[i]
      BY <2>1, <2>2 DEF MemoOK
    <3> QED
      BY <1>3, <3>1 DEF Reviewing
  <2>3. ASSUME NEW i \in Jobs \ gone, MemoOK(i), task[i] = "commit", memo[i].hit
        PROVE  approvals'[memo[i].id].status = "pending"
    <3>1. memo[i].id # k
      BY <1>1, <2>1, <2>3 DEF PermInv, OneCommit
    <3>2. memo[i].id \in Approvals /\ approvals[memo[i].id].status = "pending"
      BY <2>3 DEF MemoOK, Reviewing
    <3> QED
      BY <1>3, <3>1, <3>2
  <2> HIDE DEF gone, next
  <2> QED
    BY <2>1, <2>2, <2>3, JobsEnd
<1>5. ApprovalsOK'
  BY <1>3 DEF PermInv, ApprovalsOK
<1>6. applied \subseteq applied' /\ applied' \subseteq Approvals \X Admins
  BY <1>1, PermTypes DEF Reviewing
<1>7. /\ rules' \in [Subjects -> Rules]
      /\ \A u \in Staff : rules'[u] = rules[u] \/ (m.kind = "approve" /\ u = m.of /\ rules'[u] = m.rule)
  BY <1>1, PermTypes, NoTypes DEF Written, MemoRecord
<1>8. TwoPersonRule'
  <2>1. ASSUME NEW u \in Staff, Risky(rules'[u])
        PROVE  \E i \in Approvals, x \in Admins :
                 <<i, x>> \in applied' /\ approvals'[i].user = u /\ approvals'[i].rule = rules'[u]
                   /\ approvals'[i].by # x
    <3>1. CASE rules'[u] = rules[u]
      <4>1. PICK i \in Approvals, x \in Admins :
              <<i, x>> \in applied /\ approvals[i].user = u /\ approvals[i].rule = rules[u]
                /\ approvals[i].by # x
        BY <2>1, <3>1 DEF PermInv, TwoPersonRule
      <4> QED
        BY <1>3, <1>6, <3>1, <4>1
    <3>2. CASE m.kind = "approve" /\ u = m.of /\ rules'[u] = m.rule
      <4>1. <<k, m.by>> \in applied'
        BY <1>1, <3>2
      <4>2. /\ k \in Approvals /\ m.by \in Admins /\ approvals[k].user = u /\ approvals[k].rule = rules'[u]
            /\ approvals[k].by # m.by
        BY <1>1, <3>2 DEF Reviewing
      <4> QED
        BY <1>3, <4>1, <4>2
    <3> QED
      BY <1>7, <3>1, <3>2
  <2> QED
    BY <2>1 DEF TwoPersonRule
<1>9. PermTypeOK'
  BY <1>1, <1>3, <1>4, <1>6, <1>7, SameAnswers DEF PermTypeOK, JobsOK, OneOwner, AnswersType
<1> QED
  BY <1>4, <1>5, <1>8, <1>9 DEF PermInv, JobsOK

LEMMA RestartInv == ASSUME PermInv, NEW p \in Processes, Restart(p) PROVE PermInv'
<1> DEFINE gone == {j \in Jobs : memo[j].proc = p}
           next == "delete"
<1>1. /\ gone \in SUBSET Jobs /\ next \in {"delete", "insert"} /\ EndAll(gone, next)
      /\ \A i \in Jobs \ gone : memo'[i] = memo[i]
      /\ UNCHANGED <<approvals, applied>>
  BY DEF Restart, Rollback, EndAll
<1>2. \A i \in Jobs \ gone : MemoOK(i) =>
        (memo[i].kind \in {"approve", "reject"} => Reviewing(memo[i])')
        /\ (task[i] = "commit" /\ memo[i].hit => approvals'[memo[i].id].status = "pending")
  BY <1>1 DEF MemoOK, Reviewing
<1> HIDE DEF gone, next
<1>3. JobsOK'
  BY <1>1, <1>2, JobsEnd
<1>4. answers' \in AnswersType
  <2> DEFINE none == [u \in Staff |-> [a \in Asked |-> NoAnswer]]
  <2>1. none \in [Staff -> [Asked -> AnswerRecord]]
    BY NoTypes
  <2>2. answers' = [answers EXCEPT ![p] = none]
    BY DEF Restart
  <2> HIDE DEF none
  <2> QED
    BY <2>1, <2>2, PermTypes DEF AnswersType
<1>5. rules' \in [Subjects -> Rules] /\ \A u \in Staff : rules'[u] = rules[u]
  <2>1. Booted(rules[StaffRole]) \in Rules
    BY PermTypes, NoTypes DEF Booted, Rules, BaselineRule
  <2> QED
    BY <2>1, PermTypes, NoTypes DEF Restart
<1>6. ApprovalsOK' /\ TwoPersonRule'
  BY <1>1, <1>5, SamePeople DEF PermInv, ApprovalsOK
<1>7. PermTypeOK'
  BY <1>1, <1>3, <1>4, <1>5, PermTypes DEF PermTypeOK, JobsOK, OneOwner, AnswersType
<1> QED
  BY <1>3, <1>6, <1>7 DEF PermInv, JobsOK

LEMMA PermNextInv == ASSUME PermInv, [PermNext]_permVars PROVE PermInv'
<1>1. CASE TimePasses \/ RequestApproval \/ UNCHANGED permVars
  BY <1>1, TimePassesInv, AskApprovalInv, StutterInv
<1>2. ASSUME NEW p \in Processes, Restart(p) PROVE PermInv'
  BY <1>2, RestartInv
<1>3. ASSUME NEW p \in Processes, NEW u \in Staff, NEW a \in Asked, AnswerFromMemory(p, u, a) PROVE PermInv'
  BY <1>3, StutterInv DEF AnswerFromMemory
<1>4. ASSUME NEW j \in Jobs, Fetch(j) \/ SubmitOverride(j) \/ ReplaceRole(j) \/ Offboard(j) \/ Review(j)
      PROVE  PermInv'
  BY <1>4, FetchInv, SubmitInv, ReplaceRoleInv, OffboardInv, ReviewInv
<1>5. ASSUME NEW j \in Jobs, Proceed(j) PROVE PermInv'
  BY <1>5, KeepAnswerInv, DeleteRowsInv, InsertRefusedInv, InsertVictimInv, InsertRowsInv, InvalidateInv,
     ApproveInsertInv, MarkInv, CommitInv DEF Proceed
<1> QED
  BY <1>1, <1>2, <1>3, <1>4, <1>5 DEF PermNext
-----------------------------------------------------------------------------
(***************************************************************************)
(* Theorems.                                                               *)
(***************************************************************************)
\* The invariant that is inductive.
THEOREM PermInductive == PermSpec => []PermInv
<1>1. PermInit => PermInv
  BY PermInitInv
<1>2. PermInv /\ [PermNext]_permVars => PermInv'
  BY PermNextInv
<1> QED
  BY <1>1, <1>2, PTL DEF PermSpec

\* Rows, memories and requests have their types, and one writer holds the rows of a subject.
THEOREM PermTypesHold == PermSpec => []PermTypeOK
<1>1. PermInv => PermTypeOK
  BY DEF PermInv
<1> QED
  BY <1>1, PermInductive, PTL

\* However reviews, edits and restarts interleave, a risky override is in force only
\* because a second administrator approved just what a first one had asked for.
THEOREM TwoPersonRuleHolds == PermSpec => []TwoPersonRule
<1>1. PermInv => TwoPersonRule
  BY DEF PermInv
<1> QED
  BY <1>1, PermInductive, PTL

\* A request that was decided is decided for good.
THEOREM ReviewedOnceHolds == PermSpec => ReviewedOnce
<1> DEFINE Kept == \A k \in Approvals :
             approvals[k].status \in {"approved", "rejected"} => approvals'[k] = approvals[k]
<1>1. ASSUME PermInv, [PermNext]_permVars PROVE [Kept]_permVars
  <2>1. CASE RequestApproval
    BY <1>1, <2>1, PermTypes, NoTypes DEF RequestApproval
  <2>2. ASSUME NEW j \in Jobs, CommitReview(j) PROVE Kept
    <3>1. /\ MemoOK(j) /\ task[j] = "commit"
          /\ approvals' = IF memo[j].hit
                          THEN [approvals EXCEPT ![memo[j].id].status = Ruling(memo[j].kind)] ELSE approvals
      BY <1>1, <2>2, PermTypes DEF CommitReview
    <3> QED
      BY <1>1, <3>1, PermTypes DEF MemoOK
  <2>3. CASE UNCHANGED approvals
    BY <2>3
  <2> QED
    BY <1>1, <2>1, <2>2, <2>3 DEF PermNext, Proceed, TimePasses, Restart, AnswerFromMemory, Fetch,
       SubmitOverride, ReplaceRole, Offboard, Review, KeepAnswer, DeleteRows, InsertRefused, InsertRows,
       InsertVictim, Invalidate, ApproveInsert, Mark, permVars
<1> QED
  BY <1>1, PermInductive, PTL DEF PermSpec, ReviewedOnce
-----------------------------------------------------------------------------
(***************************************************************************)
(* Realtime.  A socket is in rooms of its own only.                        *)
(***************************************************************************)
Heard == Topics \cup Branches \cup TableRooms
SomeRooms == {UserRoom(u) : u \in Members \cup TableRooms \cup {"none"}} \cup {RoleRoom(r) : r \in Ranks \cup {"none"}}
             \cup {BranchRoom(b) : b \in Branches \cup {"none"}} \cup {PublicTableRoom(t) : t \in TableRooms}
SocketRecord == [at: {"closed", "joining", "open"}, as: Members \cup TableRooms \cup {"none"},
                 role: Ranks \cup {"none"}, branch: Branches \cup {"none"},
                 rooms: SUBSET SomeRooms, heard: SUBSET Heard]
CopyRecord == [there: BOOLEAN, fresh: BOOLEAN, row: Row]

InOwnRooms(k) == k.rooms \subseteq RoomsOf(k)
HeardOwn(k) ==
    /\ "users" \in k.heard => k.role = "Admin"
    /\ k.as \in TableRooms => k.heard \subseteq {"system", "other", k.as}
    /\ k.heard \cap Branches \subseteq {k.branch}

RealtimeInv ==
    /\ member \in [Members -> Row] /\ session \in [Members -> CopyRecord]
    /\ socket \in [Sockets -> SocketRecord]
    /\ \A s \in Sockets : InOwnRooms(socket[s]) /\ HeardOwn(socket[s])

LEMMA NoSocketOK == NoSocket \in SocketRecord /\ InOwnRooms(NoSocket) /\ HeardOwn(NoSocket)
BY DEF NoSocket, SocketRecord, InOwnRooms, HeardOwn

\* A socket that was let in has heard nothing and is in no room yet.
LEMMA JoiningOK ==
    ASSUME NEW a \in Members \cup TableRooms, NEW r \in Ranks \cup {"none"}, NEW b \in Branches \cup {"none"}
    PROVE  LET k == [NoSocket EXCEPT !.at = "joining", !.as = a, !.role = r, !.branch = b]
           IN  k \in SocketRecord /\ InOwnRooms(k) /\ HeardOwn(k)
<1> DEFINE k == [NoSocket EXCEPT !.at = "joining", !.as = a, !.role = r, !.branch = b]
<1>1. NoSocket.rooms = {} /\ NoSocket.heard = {}
  BY DEF NoSocket
<1>2. k \in SocketRecord /\ k.rooms = {} /\ k.heard = {}
  BY <1>1, NoSocketOK DEF SocketRecord
<1> HIDE DEF k
<1>3. InOwnRooms(k) /\ HeardOwn(k)
  BY <1>2 DEF InOwnRooms, HeardOwn
<1> QED
  BY <1>2, <1>3 DEF k

\* One socket changes, and perhaps the copy of a user.
LEMMA BecomesInv ==
    ASSUME RealtimeInv, NEW s \in Sockets, NEW k \in SocketRecord, InOwnRooms(k), HeardOwn(k),
           Becomes(s, k), member' = member, session' \in [Members -> CopyRecord]
    PROVE  RealtimeInv'
<1>1. /\ socket' \in [Sockets -> SocketRecord] /\ socket'[s] = k
      /\ \A q \in Sockets \ {s} : socket'[q] = socket[q]
  BY DEF RealtimeInv, Becomes
<1>2. \A q \in Sockets : InOwnRooms(socket'[q]) /\ HeardOwn(socket'[q])
  BY <1>1 DEF RealtimeInv
<1> QED
  BY <1>1, <1>2 DEF RealtimeInv

LEMMA RefuseInv ==
    ASSUME RealtimeInv, NEW s \in Sockets, Refuse(s), member' = member,
           session' \in [Members -> CopyRecord]
    PROVE  RealtimeInv'
BY NoSocketOK, BecomesInv DEF Refuse

LEMMA EntersInv ==
    ASSUME RealtimeInv, NEW s \in Sockets, NEW u \in Members, NEW r \in Ranks, Enters(s, u, r),
           member' = member, session' \in [Members -> CopyRecord]
    PROVE  RealtimeInv'
<1>1. PICK b \in Branches :
        Becomes(s, [NoSocket EXCEPT !.at = "joining", !.as = u, !.role = r, !.branch = b])
  BY DEF Enters
<1> QED
  BY <1>1, JoiningOK, BecomesInv

LEMMA AuthUserInv == ASSUME RealtimeInv, NEW s \in Sockets, AuthUser(s) PROVE RealtimeInv'
<1>1. PICK u \in Members :
        IF ~session[u].there \/ ~redis.up THEN Refuse(s) /\ UNCHANGED session
        ELSE IF ~session[u].fresh THEN FromDb(s, u)
        ELSE /\ IF session[u].row.use THEN Enters(s, u, session[u].row.role) ELSE Refuse(s)
             /\ UNCHANGED session
  BY DEF AuthUser
<1>2. /\ member' = member /\ session \in [Members -> CopyRecord] /\ session[u].row.role \in Ranks
      /\ member[u] \in Row /\ member[u].role \in Ranks /\ session[u] \in CopyRecord
  BY DEF AuthUser, RealtimeInv, CopyRecord, Row
<1>3. CASE UNCHANGED session
  <2>1. Refuse(s) \/ Enters(s, u, session[u].row.role) \/ FromDb(s, u)
    BY <1>1
  <2>2. CASE FromDb(s, u)
    BY <1>2, <1>3, <2>2, RefuseInv, EntersInv DEF FromDb
  <2> QED
    BY <1>2, <1>3, <2>1, <2>2, RefuseInv, EntersInv
<1>4. CASE FromDb(s, u)
  <2>1. CASE member[u].use
    <3>1. /\ session' = [session EXCEPT ![u] = [there |-> TRUE, fresh |-> TRUE, row |-> member[u]]]
          /\ Enters(s, u, member[u].role)
      BY <1>4, <2>1 DEF FromDb
    <3>2. session' \in [Members -> CopyRecord]
      BY <1>2, <3>1 DEF CopyRecord
    <3> QED
      BY <1>2, <3>1, <3>2, EntersInv
  <2>2. CASE ~member[u].use
    <3>1. session' = [session EXCEPT ![u].there = FALSE] /\ Refuse(s)
      BY <1>4, <2>2 DEF FromDb
    <3>2. session' \in [Members -> CopyRecord]
      BY <1>2, <3>1 DEF CopyRecord
    <3> QED
      BY <1>2, <3>1, <3>2, RefuseInv
  <2> QED
    BY <2>1, <2>2
<1> QED
  BY <1>1, <1>3, <1>4

LEMMA AuthTableInv == ASSUME RealtimeInv, NEW s \in Sockets, AuthPublicTable(s) PROVE RealtimeInv'
<1>1. PICK t \in TableRooms, valid \in BOOLEAN :
        IF valid THEN Becomes(s, [NoSocket EXCEPT !.at = "joining", !.as = t]) ELSE Refuse(s)
  BY DEF AuthPublicTable
<1>2. member' = member /\ session' \in [Members -> CopyRecord]
  BY DEF AuthPublicTable, RealtimeInv
<1> DEFINE k == [NoSocket EXCEPT !.at = "joining", !.as = t]
<1>3. k \in SocketRecord /\ k.rooms = {} /\ k.heard = {}
  <2>1. NoSocket.rooms = {} /\ NoSocket.heard = {}
    BY DEF NoSocket
  <2> QED
    BY <2>1, NoSocketOK DEF SocketRecord
<1> HIDE DEF k
<1>4. InOwnRooms(k) /\ HeardOwn(k)
  BY <1>3 DEF InOwnRooms, HeardOwn
<1>5. Becomes(s, k) \/ Refuse(s)
  BY <1>1 DEF k
<1> QED
  BY <1>2, <1>3, <1>4, <1>5, RefuseInv, BecomesInv

LEMMA JoinInv == ASSUME RealtimeInv, NEW s \in Sockets, JoinRooms(s) PROVE RealtimeInv'
<1>1. PICK rooms \in SUBSET RoomsOf(socket[s]) :
        Becomes(s, [socket[s] EXCEPT !.at = "open", !.rooms = rooms])
  BY DEF JoinRooms
<1> DEFINE k == [socket[s] EXCEPT !.at = "open", !.rooms = rooms]
<1>2. /\ socket[s] \in SocketRecord /\ HeardOwn(socket[s]) /\ member' = member
      /\ session' \in [Members -> CopyRecord]
  BY DEF JoinRooms, RealtimeInv
<1>3. RoomsOf(socket[s]) \subseteq SomeRooms
  BY <1>2 DEF RoomsOf, SomeRooms, SocketRecord
<1>4. /\ k \in SocketRecord /\ k.rooms = rooms /\ k.heard = socket[s].heard
      /\ k.as = socket[s].as /\ k.role = socket[s].role /\ k.branch = socket[s].branch
  <2>1. rooms \in SUBSET SomeRooms
    BY <1>1, <1>3
  <2> QED
    BY <1>2, <2>1 DEF SocketRecord
<1>5. Becomes(s, k)
  BY <1>1
<1> HIDE DEF k
<1>6. InOwnRooms(k) /\ HeardOwn(k)
  BY <1>1, <1>2, <1>4 DEF InOwnRooms, HeardOwn, RoomsOf
<1> QED
  BY <1>2, <1>4, <1>5, <1>6, BecomesInv

\* What is sent to a room is heard by its own sockets; a topic of theirs.
MayHear(k, topic) ==
    /\ topic = "users" => k.role = "Admin"
    /\ k.as \in TableRooms => topic \in {"system", "other", k.as}
    /\ topic \in Branches => topic = k.branch

LEMMA HearsInv ==
    ASSUME RealtimeInv, NEW rooms, NEW topic \in Heard, Hears(rooms, topic),
           \A s \in Sockets : socket[s].rooms \cap rooms # {} => MayHear(socket[s], topic),
           member' = member, session' = session
    PROVE  RealtimeInv'
<1>1. ASSUME NEW s \in Sockets
      PROVE  socket'[s] \in SocketRecord /\ InOwnRooms(socket'[s]) /\ HeardOwn(socket'[s])
  <2>1. socket[s] \in SocketRecord /\ InOwnRooms(socket[s]) /\ HeardOwn(socket[s])
    BY <1>1 DEF RealtimeInv
  <2>2. CASE socket[s].rooms \cap rooms = {}
    BY <1>1, <2>1, <2>2 DEF Hears
  <2>3. CASE socket[s].rooms \cap rooms # {}
    <3> DEFINE k == [socket[s] EXCEPT !.heard = @ \cup {topic}]
    <3>1. socket'[s] = k
      BY <1>1, <2>3 DEF Hears
    <3>2. /\ k \in SocketRecord /\ k.rooms = socket[s].rooms /\ k.heard = socket[s].heard \cup {topic}
          /\ k.as = socket[s].as /\ k.role = socket[s].role /\ k.branch = socket[s].branch
      BY <2>1 DEF SocketRecord
    <3>3. MayHear(socket[s], topic)
      BY <1>1, <2>3
    <3> HIDE DEF k
    <3>4. InOwnRooms(k)
      BY <2>1, <3>2 DEF InOwnRooms, RoomsOf
    <3>5. HeardOwn(k)
      BY <2>1, <3>2, <3>3 DEF HeardOwn, MayHear
    <3> QED
      BY <3>1, <3>2, <3>4, <3>5
  <2> QED
    BY <2>2, <2>3
<1>2. socket' \in [Sockets -> SocketRecord]
  BY <1>1 DEF Hears
<1> QED
  BY <1>1, <1>2 DEF RealtimeInv

\* The socket that is in a room.
LEMMA WhoIsThere ==
    ASSUME RealtimeInv, NEW s \in Sockets
    PROVE  /\ \A r \in Ranks : RoleRoom(r) \in socket[s].rooms => socket[s].as \notin TableRooms /\ socket[s].role = r
           /\ \A b \in Branches : BranchRoom(b) \in socket[s].rooms => socket[s].as \notin TableRooms /\ socket[s].branch = b
           /\ \A t \in TableRooms : PublicTableRoom(t) \in socket[s].rooms => socket[s].as = t
<1>1. socket[s].rooms \subseteq RoomsOf(socket[s])
  BY DEF RealtimeInv, InOwnRooms
<1> QED
  BY <1>1 DEF RoomsOf, RoleRoom, BranchRoom, PublicTableRoom, UserRoom

LEMMA EmitInv == ASSUME RealtimeInv, EmitAny PROVE RealtimeInv'
<1>1. member' = member /\ session' = session
  BY DEF EmitAny
<1>2. CASE Hears({RoleRoom("Admin")}, "users")
  <2>1. \A s \in Sockets : socket[s].rooms \cap {RoleRoom("Admin")} # {} => MayHear(socket[s], "users")
    BY WhoIsThere, RealtimeSets DEF MayHear, Ranks
  <2> QED
    BY <1>1, <1>2, <2>1, HearsInv DEF Heard, Topics
<1>3. ASSUME NEW topic \in {"system", "other"}, Hears(EveryRoom, topic) PROVE RealtimeInv'
  <2>1. \A s \in Sockets : MayHear(socket[s], topic)
    BY <1>3, RealtimeSets DEF MayHear
  <2> QED
    BY <1>1, <1>3, <2>1, HearsInv DEF Heard, Topics
<1>4. ASSUME NEW b \in Branches, Hears({BranchRoom(b)}, b) PROVE RealtimeInv'
  <2>1. \A s \in Sockets : socket[s].rooms \cap {BranchRoom(b)} # {} => MayHear(socket[s], b)
    BY WhoIsThere, RealtimeSets DEF MayHear
  <2> QED
    BY <1>1, <1>4, <2>1, HearsInv DEF Heard
<1>5. ASSUME NEW t \in TableRooms, Hears({PublicTableRoom(t)}, t) PROVE RealtimeInv'
  <2>1. \A s \in Sockets : socket[s].rooms \cap {PublicTableRoom(t)} # {} => MayHear(socket[s], t)
    BY WhoIsThere, RealtimeSets DEF MayHear
  <2> QED
    BY <1>1, <1>5, <2>1, HearsInv DEF Heard
<1> QED
  BY <1>2, <1>3, <1>4, <1>5 DEF EmitAny, Emit, EmitToRole, EmitToBranch, EmitToPublicTable, Topics

LEMMA AroundInv ==
    ASSUME RealtimeInv, NEW u \in Members, SessionChanges(u) \/ EditMember(u) PROVE RealtimeInv'
<1>1. socket' = socket
  BY DEF SessionChanges, EditMember
<1>2. CASE EditMember(u)
  <2>1. session' = session /\ member' \in [Members -> Row]
    BY <1>2 DEF EditMember, RealtimeInv, Row
  <2> QED
    BY <1>1, <2>1 DEF RealtimeInv
<1>3. CASE SessionChanges(u)
  <2>1. member' = member /\ member \in [Members -> Row] /\ session \in [Members -> CopyRecord]
    BY <1>3 DEF SessionChanges, RealtimeInv
  <2>2. session' \in [Members -> CopyRecord]
    <3>1. CASE session' = [session EXCEPT ![u] = [there |-> TRUE, fresh |-> TRUE, row |-> member[u]]]
      <4>1. [there |-> TRUE, fresh |-> TRUE, row |-> member[u]] \in CopyRecord
        BY <2>1 DEF CopyRecord
      <4> QED
        BY <2>1, <3>1, <4>1
    <3>2. CASE session' = [session EXCEPT ![u].fresh = FALSE]
      BY <2>1, <3>2 DEF CopyRecord
    <3> QED
      BY <1>3, <3>1, <3>2 DEF SessionChanges
  <2> QED
    BY <1>1, <2>1, <2>2 DEF RealtimeInv
<1> QED
  BY <1>2, <1>3

\* Inductive: a socket is in its own rooms, and heard what is sent to those.
THEOREM RealtimeInductive == RealtimeSpec => []RealtimeInv
<1>1. ASSUME RealtimeInit PROVE RealtimeInv
  <2>1. NewMember \in Row
    BY DEF NewMember, Row, Ranks
  <2>2. [there |-> FALSE, fresh |-> FALSE, row |-> NewMember] \in CopyRecord
    BY <2>1 DEF CopyRecord
  <2>3. /\ member = [u \in Members |-> NewMember]
        /\ session = [u \in Members |-> [there |-> FALSE, fresh |-> FALSE, row |-> NewMember]]
        /\ socket = [s \in Sockets |-> NoSocket]
    BY <1>1 DEF RealtimeInit
  <2>4. member \in [Members -> Row] /\ session \in [Members -> CopyRecord]
    BY <2>1, <2>2, <2>3
  <2>5. \A s \in Sockets : socket[s] = NoSocket
    BY <2>3
  <2>6. socket \in [Sockets -> SocketRecord]
    BY <2>3, NoSocketOK
  <2> QED
    BY <2>4, <2>5, <2>6, NoSocketOK DEF RealtimeInv
<1>2. ASSUME RealtimeInv, [RealtimeNext]_realtimeVars PROVE RealtimeInv'
  <2>1. ASSUME NEW s \in Sockets, AuthPublicTable(s) \/ AuthUser(s) \/ JoinRooms(s) PROVE RealtimeInv'
    BY <1>2, <2>1, AuthTableInv, AuthUserInv, JoinInv
  <2>2. ASSUME NEW s \in Sockets, Disconnect(s) PROVE RealtimeInv'
    <3>1. Refuse(s) /\ member' = member /\ session' \in [Members -> CopyRecord]
      BY <1>2, <2>2 DEF Disconnect, RealtimeInv
    <3> QED
      BY <1>2, <3>1, RefuseInv
  <2>3. CASE EmitAny
    BY <1>2, <2>3, EmitInv
  <2>4. ASSUME NEW u \in Members, SessionChanges(u) \/ EditMember(u) PROVE RealtimeInv'
    BY <1>2, <2>4, AroundInv
  <2>5. CASE AdapterSteps \/ GoDown \/ ComeUp \/ UNCHANGED realtimeVars
    <3>1. UNCHANGED <<member, session, socket>>
      BY <2>5 DEF AdapterSteps, InitRedisAdapter, ClientReady, BothConnected, ConnectFails, GoDown, ComeUp,
         Rest, realtimeVars
    <3> QED
      BY <1>2, <3>1 DEF RealtimeInv
  <2> QED
    BY <1>2, <2>1, <2>2, <2>3, <2>4, <2>5 DEF RealtimeNext
<1> QED
  BY <1>1, <1>2, PTL DEF RealtimeSpec

\* No socket ever hears what is not its own: of users unless it is an
\* administrator's, of another branch, or of another table (socket.service).
THEOREM OnlyTheirsHolds == RealtimeSpec => []OnlyTheirs
<1>1. RealtimeInv => OnlyTheirs
  BY DEF RealtimeInv, HeardOwn, OnlyTheirs
<1> QED
  BY <1>1, RealtimeInductive, PTL

\* The adapter by itself: what its flags and its clients say of one another.
AdapterFits(a) ==
    /\ a.pub \in {"none", "connecting", "ready"} /\ a.sub \in {"none", "connecting", "ready"}
    /\ a.ready <=> (a.pub = "ready" /\ a.sub = "ready")
    /\ a.at \in {"connecting", "breaking", "on"} => a.pub # "none" /\ a.sub # "none"
    /\ a.at \notin {"connecting", "breaking", "on"} => ~a.started /\ a.at \in {"off", "failed"}
    /\ a.at = "failed" => a.timer
AdapterRecord == [at: {"off", "connecting", "breaking", "on", "failed"}, pub: {"none", "connecting", "ready"},
                  sub: {"none", "connecting", "ready"}, ready: BOOLEAN, started: BOOLEAN, timer: BOOLEAN]
AdapterInv == adapter \in AdapterRecord /\ AdapterFits(adapter)

LEMMA AdapterKeeps ==
    ASSUME AdapterInv, [RealtimeNext]_realtimeVars
    PROVE  AdapterInv'
<1>1. CASE UNCHANGED adapter
  BY <1>1 DEF AdapterInv
<1>2. CASE InitRedisAdapter \/ ConnectFails
  BY <1>2 DEF InitRedisAdapter, ConnectFails, Adapts, NoAdapter, AdapterInv, AdapterFits, AdapterRecord
<1>3. ASSUME NEW c \in Clients, ClientReady(c) PROVE AdapterInv'
  <2>1. CASE c = "pub"
    BY <1>3, <2>1 DEF ClientReady, Adapts, ReadyState, AdapterInv, AdapterFits, AdapterRecord
  <2>2. CASE c = "sub"
    BY <1>3, <2>2 DEF ClientReady, Adapts, ReadyState, AdapterInv, AdapterFits, AdapterRecord
  <2> QED
    BY <1>3, <2>1, <2>2 DEF Clients
<1>4. CASE BothConnected
  BY <1>4 DEF BothConnected, Adapts, Clients, AdapterInv, AdapterFits, AdapterRecord
<1>5. CASE GoDown
  BY <1>5 DEF GoDown, Adapts, ReadyState, AdapterInv, AdapterFits, AdapterRecord
<1> QED
  BY <1>1, <1>2, <1>3, <1>4, <1>5
  DEF RealtimeNext, AdapterSteps, AuthPublicTable, AuthUser, JoinRooms, Disconnect, EmitAny,
      SessionChanges, EditMember, ComeUp, Apart, realtimeVars

LEMMA AdapterAlwaysFits == RealtimeSpec => []AdapterInv
<1>1. RealtimeInit => AdapterInv
  <2>1. NoAdapter \in AdapterRecord /\ AdapterFits(NoAdapter)
    BY DEF NoAdapter, AdapterFits, AdapterRecord
  <2> QED
    BY <2>1 DEF RealtimeInit, AdapterInv
<1>2. AdapterInv /\ [RealtimeNext]_realtimeVars => AdapterInv'
  BY AdapterKeeps
<1> QED
  BY <1>1, <1>2, PTL DEF RealtimeSpec

\* An adapter that does not share the rooms has its next step before it, whatever failed
\* and whenever Redis went: it is never left with a flag that keeps it from starting over.
THEOREM AdapterGoesOnHolds == RealtimeSpec => []AdapterGoesOn
<1>1. AdapterInv => AdapterGoesOn
  BY DEF AdapterInv, AdapterFits, AdapterRecord, AdapterGoesOn, Clients, Failing
<1> QED
  BY <1>1, AdapterAlwaysFits, PTL

\* How often Redis may still go down.
RedisRecord == [up: BOOLEAN, left: 0..Outages]

LEMMA RedisKeeps ==
    ASSUME redis \in RedisRecord, [RealtimeNext]_realtimeVars
    PROVE  redis' \in RedisRecord
<1>1. CASE GoDown
  <2>1. redis.left \in 0..Outages /\ redis.left > 0
    BY <1>1 DEF RedisRecord, GoDown
  <2>2. redis.left - 1 \in 0..Outages
    BY <2>1, RealtimeBounds
  <2> QED
    BY <1>1, <2>2 DEF GoDown, RedisRecord
<1>2. CASE ComeUp
  BY <1>2 DEF ComeUp, RedisRecord
<1>3. CASE UNCHANGED redis
  BY <1>3
<1> QED
  BY <1>1, <1>2, <1>3
  DEF RealtimeNext, AdapterSteps, AuthPublicTable, AuthUser, JoinRooms, Disconnect, EmitAny,
      SessionChanges, EditMember, InitRedisAdapter, ClientReady, BothConnected, ConnectFails,
      Apart, realtimeVars

\* Users, the copies of their sessions, sockets, Redis and the adapter keep their types.
THEOREM RealtimeTypesHold == RealtimeSpec => []RealtimeTypeOK
<1>1. RealtimeInit => redis \in RedisRecord
  BY RealtimeBounds DEF RealtimeInit, RedisRecord
<1>2. redis \in RedisRecord /\ [RealtimeNext]_realtimeVars => (redis \in RedisRecord)'
  BY RedisKeeps
<1>3. ASSUME RealtimeInv, AdapterInv, redis \in RedisRecord PROVE RealtimeTypeOK
  <2>1. ASSUME NEW s \in Sockets
        PROVE  DOMAIN socket[s] = DOMAIN NoSocket /\ socket[s].at \in {"closed", "joining", "open"}
    <3>1. socket[s] \in SocketRecord
      BY <1>3 DEF RealtimeInv
    <3> QED
      BY <3>1 DEF SocketRecord, NoSocket
  <2> QED
    BY <1>3, <2>1 DEF RealtimeInv, CopyRecord, AdapterInv, AdapterRecord, RedisRecord, RealtimeTypeOK
<1> QED
  BY <1>1, <1>2, <1>3, AdapterAlwaysFits, RealtimeInductive, PTL DEF RealtimeSpec

(***************************************************************************)
(* RoleDefaults: a start adds what the policy allows and takes nothing away.*)
(***************************************************************************)

Policies == {Deny} \cup {Allow(s) : s \in {"own", "branch", "all"}}
RowsKnown == roleRows = [r \in Roles |-> [c \in Followed |-> roleRows[r][c]]]

LEMMA PoliciesAre ==
  ASSUME NEW r \in Roles, NEW res, NEW act
  PROVE  ToPermissionPolicy(r, res, act) \in Policies
<1>1. ManagerPolicy(res, act) \in Policies
  BY DEF ManagerPolicy, Policies
<1>2. EmployeePolicy(res, act) \in Policies
  BY DEF EmployeePolicy, Policies
<1>3. Allow("all") \in Policies
  BY DEF Policies
<1> QED
  BY <1>1, <1>2, <1>3 DEF ToPermissionPolicy, Roles

LEMMA AllowIsNot ==
  /\ NoRow.effect # "allow" /\ Deny.effect # "allow"
  /\ \A s : Allow(s).effect = "allow"
BY DEF NoRow, Deny, Allow

LEMMA EnsuredRow ==
  ASSUME EnsureRbacDefaults, NEW r \in Roles, NEW c \in Followed
  PROVE  \/ roleRows' = roleRows
         \/ roleRows'[r][c] = Ensured(roleRows[r][c], ToPermissionPolicy(r, c[1], c[2]))
BY DEF EnsureRbacDefaults, EnsureRolePermissionDefaults

\* A start of a server leaves every grant as an administrator gave it, and what
\* it changes it brings to the baseline.
THEOREM StartOnlyAddsHolds == DefaultsSpec => StartOnlyAdds
<1>1. ASSUME [DefaultsNext]_defaultsVars
      PROVE  [starting = "off" => \A r \in Roles : \A c \in Followed :
                /\ roleRows[r][c].effect = "allow" => roleRows'[r][c] = roleRows[r][c]
                /\ roleRows'[r][c] # roleRows[r][c] => roleRows'[r][c] = ToPermissionPolicy(r, c[1], c[2])
             ]_defaultsVars
  <2> SUFFICES ASSUME starting = "off", NEW r \in Roles, NEW c \in Followed
               PROVE  /\ roleRows[r][c].effect = "allow" => roleRows'[r][c] = roleRows[r][c]
                      /\ roleRows'[r][c] # roleRows[r][c] => roleRows'[r][c] = ToPermissionPolicy(r, c[1], c[2])
    OBVIOUS
  <2>1. roleRows' = roleRows \/ EnsureRbacDefaults
    BY <1>1 DEF DefaultsNext, StopServer, ReplaceRolePermissions, defaultsVars
  <2>2. CASE roleRows' = roleRows
    BY <2>2
  <2>3. CASE roleRows'[r][c] = Ensured(roleRows[r][c], ToPermissionPolicy(r, c[1], c[2]))
    BY <2>3, AllowIsNot DEF Ensured
  <2> QED
    BY <2>1, <2>2, <2>3, EnsuredRow
<1> QED
  BY <1>1, PTL DEF DefaultsSpec, StartOnlyAdds

DefaultsInv == RowsKnown /\ DefaultsTypeOK

LEMMA DefaultsKeep ==
  ASSUME DefaultsInv, [DefaultsNext]_defaultsVars
  PROVE  DefaultsInv'
<1> DEFINE T == {NoRow, Deny} \cup {Allow(s) : s \in EditScopes \cup {"own", "branch", "all"}}
<1>0. Policies \subseteq T
  BY DEF Policies
<1>1. CASE UNCHANGED defaultsVars
  BY <1>1 DEF defaultsVars, DefaultsInv, RowsKnown, DefaultsTypeOK
<1>2. CASE EnsureRbacDefaults
  <2>1. CASE UNCHANGED <<roleRows, starting>>
    BY <2>1 DEF DefaultsInv, RowsKnown, DefaultsTypeOK
  <2>2. CASE roleRows' = EnsureRolePermissionDefaults /\ starting' = "on"
    <3>1. \A r \in Roles : \A c \in Followed :
            roleRows'[r][c] = Ensured(roleRows[r][c], ToPermissionPolicy(r, c[1], c[2]))
      BY <2>2 DEF EnsureRolePermissionDefaults
    <3>2. ASSUME NEW r \in Roles, NEW c \in Followed PROVE roleRows'[r][c] \in T
      <4>1. roleRows[r][c] \in T
        BY DEF DefaultsInv, DefaultsTypeOK
      <4>2. ToPermissionPolicy(r, c[1], c[2]) \in T
        BY <1>0, PoliciesAre
      <4> HIDE DEF T
      <4> QED
        BY <3>1, <4>1, <4>2 DEF Ensured
    <3>3. RowsKnown'
      BY <2>2 DEF RowsKnown, EnsureRolePermissionDefaults
    <3> QED
      BY <2>2, <3>2, <3>3 DEF DefaultsInv, DefaultsTypeOK
  <2> QED
    BY <1>2, <2>1, <2>2 DEF EnsureRbacDefaults
<1>3. CASE StopServer
  BY <1>3 DEF StopServer, DefaultsInv, RowsKnown, DefaultsTypeOK
<1>4. ASSUME NEW role \in Roles, ReplaceRolePermissions(role)
      PROVE  DefaultsInv'
  <2>1. PICK sent \in SUBSET {c[1] : c \in Followed}, checked \in SUBSET Followed, scope \in EditScopes :
          roleRows' = [roleRows EXCEPT ![role] =
                         [c \in Followed |-> IF c[1] \notin sent THEN NoRow
                                             ELSE IF c \in checked THEN Allow(scope) ELSE Deny]]
    BY <1>4 DEF ReplaceRolePermissions
  <2> DEFINE new == [c \in Followed |-> IF c[1] \notin sent THEN NoRow
                                         ELSE IF c \in checked THEN Allow(scope) ELSE Deny]
  <2>2. ASSUME NEW c \in Followed PROVE new[c] \in T
    <3>1. Allow(scope) \in T
      OBVIOUS
    <3>2. new[c] \in {NoRow, Deny, Allow(scope)}
      OBVIOUS
    <3> HIDE DEF new
    <3> QED
      BY <3>1, <3>2
  <2>3. new = [c \in Followed |-> new[c]]
    OBVIOUS
  <2>4. roleRows' = [roleRows EXCEPT ![role] = new]
    BY <2>1
  <2> HIDE DEF new
  <2>5. \A r \in Roles : roleRows'[r] = IF r = role THEN new ELSE roleRows[r]
    BY <2>4 DEF DefaultsInv, RowsKnown
  <2>6. \A r \in Roles : roleRows'[r] = [c \in Followed |-> roleRows'[r][c]]
    BY <2>3, <2>5 DEF DefaultsInv, RowsKnown
  <2>7. roleRows' = [r \in Roles |-> roleRows'[r]]
    BY <2>4 DEF DefaultsInv, RowsKnown
  <2>8. RowsKnown'
    BY <2>6, <2>7 DEF RowsKnown
  <2>9. \A r \in Roles : \A c \in Followed : roleRows'[r][c] \in T
    BY <2>2, <2>5 DEF DefaultsInv, DefaultsTypeOK
  <2> QED
    BY <1>4, <2>8, <2>9 DEF DefaultsInv, DefaultsTypeOK, ReplaceRolePermissions
<1> QED
  BY <1>1, <1>2, <1>3, <1>4 DEF DefaultsNext

\* A row is missing, a denial, or a grant with a scope that an administrator
\* or the baseline gives.
THEOREM DefaultsTypesHold == DefaultsSpec => []DefaultsTypeOK
<1>1. DefaultsInit => DefaultsInv
  BY DEF DefaultsInit, DefaultsInv, RowsKnown, DefaultsTypeOK
<1>2. DefaultsInv /\ [DefaultsNext]_defaultsVars => DefaultsInv'
  BY DefaultsKeep
<1>3. DefaultsInv => DefaultsTypeOK
  BY DEF DefaultsInv
<1> QED
  BY <1>1, <1>2, <1>3, PTL DEF DefaultsSpec

(***************************************************************************)
(* Endpoints: what BaselineFits says of a call follows from four facts     *)
(* about the endpoint, which hold of every one of them.                    *)
(***************************************************************************)

\* What BaselineFits says of an endpoint, whoever calls it and whatever for.
AskedOf(e)  == e.needs \cup e.more \cup e.rest
MayWrite(r, e) == \E c \in AskedOf(e) : c[2] \notin Read /\ Granted(r, c)
ActsTogether(e) ==
    \A r \in Roles : MayWrite(r, e) =>
        \A d \in e.needs \cup e.rest : Granted(r, d) /\ (e.limit = "all_only" => ScopeOf(r, d) = "all")
OwnIsLimited(e) ==
    \A r \in Roles, sent \in SUBSET e.more :
        (\E c \in Used(e, sent) : ScopeOf(r, c) = "own") =>
            \/ e.limit = "closer"
            \/ e.limit \in {"opener", "financials", "history"} /\ \E c \in Looks(e, sent) : ScopeOf(r, c) = "own"
GuardOpens(e) ==
    \/ e.guard \in {"none", "self"}
    \/ e.guard \in {"GET", "POST", "PUT", "DELETE"} /\ \A r \in Roles : MayWrite(r, e) => r \in {"Admin", "Manager"}
Fits(e) ==
    /\ AskedOf(e) \subseteq Capabilities /\ ActsTogether(e) /\ OwnIsLimited(e) /\ GuardOpens(e)
    /\ e.limit = "all_only" => e.more = {}

\* Each area has its page, and one that is listed what a list needs.
LEMMA PartsFacts ==
    /\ DOMAIN PartsOf = {"permissions", "users", "roles", "branches", "audit", "health_system",
          "orders", "products", "products_unit", "category", "topping", "topping_group", "payments",
          "delivery", "discounts", "payment_method", "tables", "qr_code", "pos_settings",
          "shop_profile", "payment_accounts", "print_settings", "shifts", "shift_history", "reports"}
    /\ \A a \in DOMAIN PartsOf : "page" \in PartsOf[a]
    /\ \A a \in Listed : Manageable \subseteq PartsOf[a]
  BY DEF PartsOf, Editable, Manageable, Listed

\* A part of an area is a resource, and every action with it a capability.
LEMMA PartExists ==
  ASSUME NEW a \in DOMAIN PartsOf, NEW p \in PartsOf[a], NEW act \in ActionKeys
  PROVE  F(a, p, act) \in Capabilities
<1>1. <<a, p>> \in {<<a, q>> : q \in PartsOf[a]}
  OBVIOUS
<1>2. <<a, p>> \in UNION {{<<b, q>> : q \in PartsOf[b]} : b \in DOMAIN PartsOf}
  BY <1>1
<1>. QED
  BY <1>2 DEF F, Capabilities, Resources

\* So is the page of an area, also where it has nothing else.
LEMMA PageExists ==
  ASSUME NEW a \in DOMAIN PartsOf \cup StockAreas, NEW act \in ActionKeys
  PROVE  P(a, act) \in Capabilities
<1>1. CASE a \in DOMAIN PartsOf
  BY <1>1, PartExists, PartsFacts DEF P, F
<1>2. CASE a \in StockAreas
  <2>1. <<a, "page">> \in StockAreas \X {"page"}
    BY <1>2
  <2> DEFINE parts == UNION {{<<b, q>> : q \in PartsOf[b]} : b \in DOMAIN PartsOf}
             pages == StockAreas \X {"page"}
  <2>2. Resources = parts \cup pages \cup MenuKeys
    BY DEF Resources
  <2> HIDE DEF parts, pages
  <2>3. <<a, "page">> \in pages
    BY <2>1 DEF pages
  <2>4. <<a, "page">> \in Resources
    BY <2>2, <2>3
  <2>. QED
    BY <2>4 DEF P, Capabilities
<1>. QED
  BY <1>1, <1>2

\* The scope "own" is only an employee's, with shifts; "all" only an administrator's.
LEMMA WhoseScope ==
  ASSUME NEW r \in Roles, NEW c
  PROVE  LET p == ToPermissionPolicy(r, c[1], c[2]) IN
         /\ p \in {Deny, Allow("all"), Allow("branch"), Allow("own")}
         /\ p = Allow("own") => r = "Employee" /\ c[1][1] \in DOMAIN EmployeeOwn
         /\ r = "Admin" <=> p = Allow("all")
<1>1. CASE r = "Admin"
  BY <1>1 DEF ToPermissionPolicy, Allow, Deny
<1>2. CASE r = "Manager"
  BY <1>2 DEF ToPermissionPolicy, Allow, Deny, ManagerPolicy
<1>3. CASE r = "Employee"
  BY <1>3 DEF ToPermissionPolicy, Allow, Deny, EmployeePolicy, Nothing
<1>. QED
  BY <1>1, <1>2, <1>3 DEF Roles

\* With other areas nobody's scope is "own".
LEMMA OwnAreas ==
  ASSUME NEW r \in Roles, NEW c, c[1][1] \notin DOMAIN EmployeeOwn
  PROVE  ScopeOf(r, c) # "own"
BY WhoseScope DEF ScopeOf, Allow, Deny

\* Endpoints of other areas than the shifts', without a guard.
LEMMA AreaFits ==
  ASSUME NEW n \in SUBSET Capabilities, NEW m \in SUBSET Capabilities, NEW rest \in SUBSET Capabilities,
         NEW l, l = "all_only" => m = {},
         \A d \in n \cup m \cup rest : d[1][1] \notin DOMAIN EmployeeOwn,
         ActsTogether(OrElse(Asking(n, m, l), rest))
  PROVE  Fits(OrElse(Asking(n, m, l), rest))
<1> DEFINE e == OrElse(Asking(n, m, l), rest)
<1>1. /\ e.needs = n /\ e.more = m /\ e.rest = rest /\ e.limit = l /\ e.guard = "none"
  BY DEF OrElse, Asking
<1>. HIDE DEF e
<1>2. AskedOf(e) \subseteq Capabilities
  BY <1>1 DEF AskedOf
<1>3. \A sent \in SUBSET e.more : Used(e, sent) \subseteq n \cup m \cup rest
  BY <1>1 DEF Used
<1>4. OwnIsLimited(e)
  BY <1>1, <1>3, OwnAreas DEF OwnIsLimited
<1>5. GuardOpens(e)
  BY <1>1 DEF GuardOpens
<1>. QED
  BY <1>1, <1>2, <1>4, <1>5 DEF Fits, e

\* Without a rest it is what it was.
LEMMA NoRest ==
  ASSUME NEW n, NEW m, NEW l
  PROVE  OrElse(Asking(n, m, l), {}) = Asking(n, m, l)
BY DEF OrElse, Asking

\* One capability is asked for, and at most reads more.
LEMMA OneActs ==
  ASSUME NEW c, NEW m, NEW l, \A d \in m : d[2] \in Read, l # "all_only"
  PROVE  ActsTogether(Asking({c}, m, l))
BY DEF ActsTogether, MayWrite, Asking, AskedOf

LEMMA OneFits ==
  ASSUME NEW c \in Capabilities, NEW m \in SUBSET Capabilities, NEW l,
         \A d \in m : d[2] \in Read, l # "all_only",
         \A d \in m \cup {c} : d[1][1] \notin DOMAIN EmployeeOwn
  PROVE  Fits(Asking({c}, m, l))
<1>1. OrElse(Asking({c}, m, l), {}) = Asking({c}, m, l)
  BY NoRest
<1>2. ActsTogether(Asking({c}, m, l))
  BY OneActs
<1>3. ActsTogether(OrElse(Asking({c}, m, l), {}))
  BY <1>1, <1>2
<1>4. Fits(OrElse(Asking({c}, m, l), {}))
  BY <1>3, AreaFits
<1>. QED
  BY <1>1, <1>4

\* Nothing but reads.
LEMMA ReadsFit ==
  ASSUME NEW n \in SUBSET Capabilities, NEW m \in SUBSET Capabilities, NEW l, l # "all_only",
         \A d \in n \cup m : d[2] \in Read,
         \A d \in n \cup m : d[1][1] \notin DOMAIN EmployeeOwn
  PROVE  Fits(Asking(n, m, l))
<1>1. ActsTogether(Asking(n, m, l))
  BY DEF ActsTogether, MayWrite, Asking, AskedOf
<1>2. Fits(OrElse(Asking(n, m, l), {}))
  BY <1>1, NoRest, AreaFits
<1>. QED
  BY <1>2, NoRest

\* Roles and permissions are an administrator's.
LEMMA AdministratorsOnly ==
  ASSUME NEW r \in Roles, NEW a \in {"roles", "permissions"}, NEW act, Granted(r, P(a, act))
  PROVE  r = "Admin" /\ ScopeOf(r, P(a, act)) = "all"
<1>1. ManagerPolicy(<<a, "page">>, act) = Deny
  BY DEF ManagerPolicy, ManagerRestricted, Nothing
<1>2. EmployeePolicy(<<a, "page">>, act) = Deny
  BY DEF EmployeePolicy, Nothing, EmployeeReads, EmployeeOwn, StockAreas
<1>. QED
  BY <1>1, <1>2 DEF Granted, ScopeOf, P, ToPermissionPolicy, Roles, Deny, Allow

\* So a handler that takes no other scope than "all" turns nobody away.
LEMMA AdministratorsFit ==
  ASSUME NEW a \in {"roles", "permissions"}, NEW act \in ActionKeys
  PROVE  Fits(Asking({P(a, act)}, {}, "all_only"))
<1>1. P(a, act) \in Capabilities
  BY PageExists, PartsFacts
<1>2. ActsTogether(Asking({P(a, act)}, {}, "all_only"))
  BY AdministratorsOnly DEF ActsTogether, MayWrite, Asking, AskedOf
<1>3. P(a, act)[1][1] = a /\ a \notin DOMAIN EmployeeOwn
  BY DEF P, EmployeeOwn
<1>4. Fits(OrElse(Asking({P(a, act)}, {}, "all_only"), {}))
  BY <1>1, <1>2, <1>3, NoRest, AreaFits
<1>. QED
  BY <1>4, NoRest

\* A route that asks for the page alone.
LEMMA PageFits ==
  ASSUME NEW a \in DOMAIN PartsOf \cup StockAreas, NEW act \in ActionKeys, NEW l,
         l # "all_only", a \notin DOMAIN EmployeeOwn
  PROVE  Fits(Asking({P(a, act)}, {}, l))
<1>1. P(a, act) \in Capabilities
  BY PageExists
<1>2. P(a, act)[1][1] = a
  BY DEF P
<1>. QED
  BY <1>1, <1>2, OneFits

\* A route that asks for one part alone.
LEMMA PartFits ==
  ASSUME NEW a \in DOMAIN PartsOf, NEW p \in PartsOf[a], NEW act \in ActionKeys, NEW l,
         l # "all_only", a \notin DOMAIN EmployeeOwn
  PROVE  Fits(Asking({F(a, p, act)}, {}, l))
<1>1. F(a, p, act) \in Capabilities
  BY PartExists
<1>2. F(a, p, act)[1][1] = a
  BY DEF F
<1>. QED
  BY <1>1, <1>2, OneFits

\* What managers may do with the areas that are listed.
LEMMA ManagersMay ==
  ASSUME NEW a \in Listed
  PROVE  /\ a \in DOMAIN ManagerFeatures
         /\ In(ManagerFeatures, a, "manager") = Read
         /\ In(ManagerFeatures, a, "create") = Creates
         /\ In(ManagerFeatures, a, "delete") = Nothing
         /\ a \notin ManagerReadsOnly /\ <<a, "page">> \notin ManagerRestricted
<1>1. a \in DOMAIN ManagerFeatures
  BY DEF ManagerFeatures, Listed
<1>2. a \notin ManagerReadsOnly
  BY DEF ManagerReadsOnly, Listed
<1>3. \A p : <<a, p>> \notin ManagerRestricted
  BY DEF ManagerRestricted, Listed
<1>4. ManagerFeatures[a] \in {ManagerTables, ManagerProducts, ManagerProductsUnit, ManagerCategory,
         ManagerTopping, ManagerToppingGroup, ManagerDelivery, ManagerDiscounts, ManagerPaymentMethod}
  BY DEF ManagerFeatures, Listed
<1>5. \A f \in {ManagerTables, ManagerProducts, ManagerProductsUnit, ManagerCategory,
         ManagerTopping, ManagerToppingGroup, ManagerDelivery, ManagerDiscounts, ManagerPaymentMethod} :
       /\ {"manager", "create", "delete"} \subseteq DOMAIN f
       /\ f["manager"] = Read /\ f["create"] = Creates /\ f["delete"] = Nothing
  BY DEF ManagerTables, ManagerProducts, ManagerProductsUnit, ManagerCategory,
         ManagerTopping, ManagerToppingGroup, ManagerDelivery, ManagerDiscounts, ManagerPaymentMethod
<1>. QED
  BY <1>1, <1>2, <1>3, <1>4, <1>5 DEF In

\* Managers write all of a listed area, and delete nothing.
LEMMA ManagersWrite ==
  ASSUME NEW a \in Listed
  PROVE  /\ Granted("Manager", P(a, "create")) /\ Granted("Manager", P(a, "update"))
         /\ Granted("Manager", F(a, "manager", "access")) /\ Granted("Manager", F(a, "create", "create"))
         /\ ~Granted("Manager", P(a, "delete")) /\ ~Granted("Manager", F(a, "delete", "delete"))
<1>1. \A act \in ActionKeys :
        ToPermissionPolicy("Manager", <<a, "page">>, act) = IF act = "delete" THEN Deny ELSE Allow("branch")
  <2>. TAKE act \in ActionKeys
  <2>1. (act \in Creates \cup Updates) <=> act # "delete"
    BY DEF ActionKeys, Creates, Updates, Read
  <2>2. ManagerPolicy(<<a, "page">>, act) = IF act \in Creates \cup Updates THEN Allow("branch") ELSE Deny
    BY ManagersMay DEF ManagerPolicy
  <2>. QED
    BY <2>1, <2>2 DEF ToPermissionPolicy
<1>2. \A act : \A p \in {"manager", "create", "delete"} :
        ToPermissionPolicy("Manager", <<a, p>>, act)
          = IF act \in In(ManagerFeatures, a, p) THEN Allow("branch") ELSE Deny
  <2>. TAKE act
  <2>. TAKE p \in {"manager", "create", "delete"}
  <2>1. <<a, p>> \notin ManagerRestricted
    BY DEF ManagerRestricted, Listed
  <2>2. ManagerPolicy(<<a, p>>, act) = IF act \in In(ManagerFeatures, a, p) THEN Allow("branch") ELSE Deny
    BY <2>1, ManagersMay DEF ManagerPolicy
  <2>. QED
    BY <2>2 DEF ToPermissionPolicy
<1>3. "access" \in Read /\ "create" \in Creates /\ "delete" \notin Nothing
  BY DEF Read, Creates, Nothing
<1>4. Deny.effect # "allow" /\ Allow("branch").effect = "allow"
  BY DEF Deny, Allow
<1>5. /\ Granted("Manager", P(a, "create")) /\ Granted("Manager", P(a, "update"))
      /\ ~Granted("Manager", P(a, "delete"))
  BY <1>1, <1>4 DEF Granted, P, ActionKeys
<1>6. /\ Granted("Manager", F(a, "manager", "access")) /\ Granted("Manager", F(a, "create", "create"))
      /\ ~Granted("Manager", F(a, "delete", "delete"))
  BY <1>2, <1>3, <1>4, ManagersMay DEF Granted, F
<1>. QED
  BY <1>5, <1>6

\* Employees only read in a listed area.
LEMMA EmployeesRead ==
  ASSUME NEW a \in Listed, NEW p, NEW act, act \notin Read
  PROVE  ~Granted("Employee", <<<<a, p>>, act>>)
<1>1. a \notin DOMAIN EmployeeOwn /\ a # "stock_orders" /\ a \in DOMAIN ManagerFeatures
  BY ManagersMay DEF EmployeeOwn, Listed
<1>2. EmployeeFeatures[a] = EmployeeLists /\ a \in DOMAIN EmployeeFeatures
  BY <1>1 DEF EmployeeFeatures, Listed
<1>3. act \notin In(EmployeeFeatures, a, p)
  BY <1>2 DEF In, EmployeeLists, Nothing
<1>4. EmployeePolicy(<<a, p>>, act) = Deny
  BY <1>1, <1>2, <1>3 DEF EmployeePolicy, Nothing
<1>. QED
  BY <1>4 DEF Granted, ToPermissionPolicy, Deny

\* They change what an update that names no part takes.
LEMMA ManagersEdit ==
    /\ Granted("Manager", F("tables", "edit", "update"))
    /\ Granted("Manager", F("topping", "catalog", "update"))
    /\ Granted("Manager", F("topping_group", "edit", "update"))
    /\ Granted("Manager", F("shop_profile", "identity", "update"))
<1>1. \A c \in {<<"tables", "edit">>, <<"topping", "catalog">>, <<"topping_group", "edit">>,
               <<"shop_profile", "identity">>} :
        c \notin ManagerRestricted /\ c[1] \in DOMAIN ManagerFeatures /\ c[2] # "page"
  BY DEF ManagerRestricted, ManagerFeatures
<1>2. /\ "update" \in In(ManagerFeatures, "tables", "edit")
      /\ "update" \in In(ManagerFeatures, "topping", "catalog")
      /\ "update" \in In(ManagerFeatures, "topping_group", "edit")
      /\ "update" \in In(ManagerFeatures, "shop_profile", "identity")
  BY DEF In, ManagerFeatures, ManagerTables, ManagerTopping, ManagerToppingGroup, ManagerShopProfile, Updates
<1>3. \A a, p : <<a, p>> \notin ManagerRestricted /\ a \in DOMAIN ManagerFeatures /\ p # "page"
               /\ "update" \in In(ManagerFeatures, a, p) => Granted("Manager", F(a, p, "update"))
  <2>. TAKE a, p
  <2>. HAVE <<a, p>> \notin ManagerRestricted /\ a \in DOMAIN ManagerFeatures /\ p # "page"
            /\ "update" \in In(ManagerFeatures, a, p)
  <2>1. ManagerPolicy(<<a, p>>, "update") = Allow("branch")
    BY DEF ManagerPolicy
  <2>. QED
    BY <2>1 DEF Granted, ToPermissionPolicy, F, Allow
<1>. QED
  BY <1>1, <1>2, <1>3

\* An administrator may do anything.
LEMMA AdminMay ==
  ASSUME NEW c
  PROVE  Granted("Admin", c)
BY DEF Granted, ToPermissionPolicy, Allow

\* The parts of a listed area that its routes name.
LEMMA ListedParts ==
  ASSUME NEW a \in Listed
  PROVE  /\ a \in DOMAIN PartsOf /\ a \notin DOMAIN EmployeeOwn
         /\ \A act \in ActionKeys :
              /\ P(a, act) \in Capabilities
              /\ \A p \in PartsOf[a] : F(a, p, act) \in Capabilities
         /\ Manageable \subseteq PartsOf[a]
<1>1. a \in DOMAIN PartsOf /\ Manageable \subseteq PartsOf[a]
  BY PartsFacts DEF Listed
<1>2. a \notin DOMAIN EmployeeOwn
  BY DEF Listed, EmployeeOwn
<1>. QED
  BY <1>1, <1>2, PageExists, PartExists

\* What its writing routes always need.
LEMMA NeedsExist ==
  ASSUME NEW a \in Listed
  PROVE  \A c \in CreateNeeds(a) \cup UpdateNeeds(a) \cup DeleteNeeds(a) :
            c \in Capabilities /\ c = <<<<a, c[1][2]>>, c[2]>>
<1>1. /\ P(a, "create") \in Capabilities /\ P(a, "update") \in Capabilities
      /\ P(a, "delete") \in Capabilities
  BY ListedParts DEF ActionKeys
<1>2. /\ F(a, "manager", "access") \in Capabilities /\ F(a, "create", "create") \in Capabilities
      /\ F(a, "delete", "delete") \in Capabilities
  BY ListedParts DEF Manageable, ActionKeys
<1>3. \A act : P(a, act) = <<<<a, P(a, act)[1][2]>>, P(a, act)[2]>>
  BY DEF P
<1>4. \A p, act : F(a, p, act) = <<<<a, F(a, p, act)[1][2]>>, F(a, p, act)[2]>>
  BY DEF F
<1>. QED
  BY <1>1, <1>2, <1>3, <1>4 DEF CreateNeeds, UpdateNeeds, DeleteNeeds

\* Its lists and look-ups.
LEMMA ListsFit ==
  ASSUME NEW a \in Listed
  PROVE  /\ Fits(LooksUp(a))
         /\ Fits(NeedsMore({P(a, "view")}, {F(a, "search", "view"), F(a, "filter", "view")}))
<1>1. /\ P(a, "view") \in Capabilities /\ F(a, "search", "view") \in Capabilities
      /\ F(a, "filter", "view") \in Capabilities /\ F(a, "manager", "access") \in Capabilities
  BY ListedParts DEF Manageable, ActionKeys
<1>2. a \notin DOMAIN EmployeeOwn
  BY ListedParts
<1>3. Fits(Asking({F(a, "manager", "access")}, {}, "unlimited"))
  BY <1>1, <1>2, PartFits, ListedParts DEF Manageable, ActionKeys
<1>4. \A d \in {P(a, "view")} \cup {F(a, "search", "view"), F(a, "filter", "view")} :
        d \in Capabilities /\ d[2] \in Read /\ d[1][1] = a
  BY <1>1 DEF P, F, Read
<1>5. Fits(Asking({P(a, "view")}, {F(a, "search", "view"), F(a, "filter", "view")}, "unlimited"))
  BY <1>2, <1>4, ReadsFit
<1>. QED
  BY <1>3, <1>5 DEF LooksUp, Needs, NeedsMore

\* With an area that is listed only administrators and managers write, and a
\* manager who may use any of it may use what it always takes.
LEMMA WritesFit ==
  ASSUME NEW a \in Listed, NEW n \in SUBSET Capabilities, NEW m \in SUBSET Capabilities,
         NEW rest \in SUBSET Capabilities,
         \A c \in n \cup m \cup rest : c = <<<<a, c[1][2]>>, c[2]>>,
         \/ \A c \in n \cup rest : Granted("Manager", c)
         \/ \A c \in n \cup m \cup rest : c[2] \notin Read => ~Granted("Manager", c)
  PROVE  Fits(OrElse(NeedsMore(n, m), rest))
<1>1. \A c \in n \cup m \cup rest : c[2] \notin Read => ~Granted("Employee", c)
  BY EmployeesRead
<1>2. ActsTogether(OrElse(Asking(n, m, "unlimited"), rest))
  BY <1>1, AdminMay DEF ActsTogether, MayWrite, OrElse, Asking, AskedOf, Roles
<1>3. \A c \in n \cup m \cup rest : c[1][1] = a
  OBVIOUS
<1>4. a \notin DOMAIN EmployeeOwn
  BY ListedParts
<1>. QED
  BY <1>2, <1>3, <1>4, AreaFits DEF NeedsMore

LEMMA WritesFitAlone ==
  ASSUME NEW a \in Listed, NEW n \in SUBSET Capabilities, NEW m \in SUBSET Capabilities,
         \A c \in n \cup m : c = <<<<a, c[1][2]>>, c[2]>>,
         \/ \A c \in n : Granted("Manager", c)
         \/ \A c \in n \cup m : c[2] \notin Read => ~Granted("Manager", c)
  PROVE  Fits(NeedsMore(n, m))
<1>1. Fits(OrElse(NeedsMore(n, m), {}))
  BY WritesFit
<1>. QED
  BY <1>1, NoRest DEF NeedsMore

\* Its creations.
LEMMA CreateFits ==
  ASSUME NEW a \in Listed
  PROVE  Fits(Needs(CreateNeeds(a)))
<1>1. \A c \in CreateNeeds(a) : c \in Capabilities /\ c = <<<<a, c[1][2]>>, c[2]>>
  BY NeedsExist
<1>2. \A c \in CreateNeeds(a) : Granted("Manager", c)
  BY ManagersWrite DEF CreateNeeds
<1>3. Fits(NeedsMore(CreateNeeds(a), {}))
  BY <1>1, <1>2, WritesFitAlone
<1>. QED
  BY <1>3 DEF Needs, NeedsMore

\* Its deletions.
LEMMA DeleteFits ==
  ASSUME NEW a \in Listed
  PROVE  Fits(Needs(DeleteNeeds(a)))
<1>1. \A c \in DeleteNeeds(a) : c \in Capabilities /\ c = <<<<a, c[1][2]>>, c[2]>>
  BY NeedsExist
<1>2. \A c \in DeleteNeeds(a) : c[2] \notin Read => ~Granted("Manager", c)
  <2>1. F(a, "manager", "access")[2] \in Read
    BY DEF F, Read
  <2>. QED
    BY <2>1, ManagersWrite DEF DeleteNeeds
<1>3. Fits(NeedsMore(DeleteNeeds(a), {}))
  BY <1>1, <1>2, WritesFitAlone
<1>. QED
  BY <1>3 DEF Needs, NeedsMore

\* Its updates, whichever parts the body touches, with or without something
\* that is needed when it touches none.
LEMMA UpdateFits ==
  ASSUME NEW a \in Listed, NEW parts \in SUBSET PartsOf[a]
  PROVE  /\ Fits(NeedsMore(UpdateNeeds(a), {F(a, p, "update") : p \in parts}))
         /\ \A p \in PartsOf[a] : Granted("Manager", F(a, p, "update")) =>
              Fits(OrElse(NeedsMore(UpdateNeeds(a), {F(a, q, "update") : q \in parts}), {F(a, p, "update")}))
<1> DEFINE m == {F(a, p, "update") : p \in parts}
<1>1. \A c \in UpdateNeeds(a) : c \in Capabilities /\ c = <<<<a, c[1][2]>>, c[2]>>
  BY NeedsExist
<1>2. \A p \in PartsOf[a] : LET c == F(a, p, "update") IN c \in Capabilities /\ c = <<<<a, c[1][2]>>, c[2]>>
  <2>1. \A p \in PartsOf[a] : F(a, p, "update") \in Capabilities
    BY ListedParts DEF ActionKeys
  <2>. QED
    BY <2>1 DEF F
<1>3. \A c \in UpdateNeeds(a) : Granted("Manager", c)
  BY ManagersWrite DEF UpdateNeeds
<1>4. \A c \in m : c \in Capabilities /\ c = <<<<a, c[1][2]>>, c[2]>>
  BY <1>2
<1>. HIDE DEF m
<1>5. Fits(NeedsMore(UpdateNeeds(a), m))
  BY <1>1, <1>3, <1>4, WritesFitAlone
<1>6. ASSUME NEW p \in PartsOf[a], Granted("Manager", F(a, p, "update"))
      PROVE  Fits(OrElse(NeedsMore(UpdateNeeds(a), m), {F(a, p, "update")}))
  <2> DEFINE rest == {F(a, p, "update")}
  <2>1. /\ rest \in SUBSET Capabilities /\ \A c \in rest : c = <<<<a, c[1][2]>>, c[2]>>
        /\ \A c \in rest : Granted("Manager", c)
    BY <1>2, <1>6
  <2>. HIDE DEF rest
  <2>2. Fits(OrElse(NeedsMore(UpdateNeeds(a), m), rest))
    BY <1>1, <1>3, <1>4, <2>1, WritesFit
  <2>. QED
    BY <2>2 DEF rest
<1>. QED
  BY <1>5, <1>6 DEF m

\* What the routes of an area that is listed ask for.
ListedFit(a, parts) ==
    /\ Fits(NeedsMore({P(a, "view")}, {F(a, "search", "view"), F(a, "filter", "view")}))
    /\ Fits(NeedsMore({P(a, "view")}, {F(a, "filter", "view")}))
    /\ Fits(LooksUp(a)) /\ Fits(Needs({P(a, "view")}))
    /\ Fits(Needs(CreateNeeds(a))) /\ Fits(Needs(DeleteNeeds(a)))
    /\ Fits(NeedsMore(UpdateNeeds(a), {F(a, p, "update") : p \in parts}))

\* All of its routes.
LEMMA ListedFits ==
  ASSUME NEW a \in Listed, NEW parts \in SUBSET PartsOf[a]
  PROVE  ListedFit(a, parts)
<1>1. Fits(Needs({P(a, "view")}))
  BY PageFits, ListedParts DEF Needs, ActionKeys
<1>2. Fits(NeedsMore({P(a, "view")}, {F(a, "filter", "view")}))
  <2>1. P(a, "view") \in Capabilities /\ F(a, "filter", "view") \in Capabilities
    BY ListedParts DEF Manageable, ActionKeys
  <2>2. \A d \in {P(a, "view")} \cup {F(a, "filter", "view")} :
          d \in Capabilities /\ d[2] \in Read /\ d[1][1] = a
    BY <2>1 DEF P, F, Read
  <2>3. a \notin DOMAIN EmployeeOwn
    BY ListedParts
  <2>. QED
    BY <2>2, <2>3, ReadsFit DEF NeedsMore
<1>3. Fits(NeedsMore(UpdateNeeds(a), {F(a, p, "update") : p \in parts}))
  BY UpdateFits
<1>. QED
  BY <1>1, <1>2, <1>3, ListsFit, CreateFits, DeleteFits DEF ListedFit

\* What the routes of a page ask for.
PageFit(a, l) ==
    /\ Fits(Asking({P(a, "view")}, {}, l)) /\ Fits(Asking({P(a, "create")}, {}, l))
    /\ Fits(Asking({P(a, "update")}, {}, l)) /\ Fits(Asking({P(a, "delete")}, {}, l))

\* All of its routes, whatever the limit.
LEMMA PagesFit ==
  ASSUME NEW a \in DOMAIN PartsOf \cup StockAreas, a \notin DOMAIN EmployeeOwn, NEW l, l # "all_only"
  PROVE  PageFit(a, l)
BY PageFits DEF PageFit, ActionKeys

\* Those of an administrator's page.
LEMMA AdministratorsPage ==
  ASSUME NEW a \in {"roles", "permissions"}
  PROVE  PageFit(a, "all_only")
BY AdministratorsFit DEF PageFit, ActionKeys

(***************************************************************************)
(* The tables of routes, one by one.                                       *)
(***************************************************************************)
LEMMA CategoryFit == \A e \in Of(CategoryRoutes) : Fits(e)
<1>1. {"edit", "status"} \in SUBSET PartsOf["category"]
  BY DEF PartsOf, Editable, Manageable
<1>2. ListedFit("category", {"edit", "status"})
  BY <1>1, ListedFits DEF Listed
<1>. QED
  BY <1>2 DEF ListedFit, Of, CategoryRoutes, CategoryListMore

LEMMA DeliveryFit == \A e \in Of(DeliveryRoutes) : Fits(e)
<1>1. {"edit", "status"} \in SUBSET PartsOf["delivery"]
  BY DEF PartsOf, Editable, Manageable
<1>2. ListedFit("delivery", {"edit", "status"})
  BY <1>1, ListedFits DEF Listed
<1>. QED
  BY <1>2 DEF ListedFit, Of, DeliveryRoutes, DeliveryListMore

LEMMA DiscountsFit == \A e \in Of(DiscountsRoutes) : Fits(e)
<1>1. {"edit", "pricing", "status"} \in SUBSET PartsOf["discounts"]
  BY DEF PartsOf, Editable, Manageable
<1>2. ListedFit("discounts", {"edit", "pricing", "status"})
  BY <1>1, ListedFits DEF Listed
<1>. QED
  BY <1>2 DEF ListedFit, Of, DiscountsRoutes, DiscountsListMore

LEMMA PaymentMethodFit == \A e \in Of(PaymentMethodRoutes) : Fits(e)
<1>1. {"catalog", "status"} \in SUBSET PartsOf["payment_method"]
  BY DEF PartsOf, Editable, Manageable
<1>2. ListedFit("payment_method", {"catalog", "status"})
  BY <1>1, ListedFits DEF Listed
<1>. QED
  BY <1>2 DEF ListedFit, Of, PaymentMethodRoutes, PaymentMethodListMore

LEMMA ProductsFit == \A e \in Of(ProductsRoutes) : Fits(e)
<1>1. {"catalog", "pricing", "structure", "status"} \in SUBSET PartsOf["products"]
  BY DEF PartsOf, Editable, Manageable
<1>2. ListedFit("products", {"catalog", "pricing", "structure", "status"})
  BY <1>1, ListedFits DEF Listed
<1>. QED
  BY <1>2 DEF ListedFit, Of, ProductsRoutes, ProductsListMore

LEMMA ProductsUnitFit == \A e \in Of(ProductsUnitRoutes) : Fits(e)
<1>1. {"edit", "status"} \in SUBSET PartsOf["products_unit"]
  BY DEF PartsOf, Editable, Manageable
<1>2. ListedFit("products_unit", {"edit", "status"})
  BY <1>1, ListedFits DEF Listed
<1>. QED
  BY <1>2 DEF ListedFit, Of, ProductsUnitRoutes, ProductsUnitListMore

LEMMA ToppingFit == \A e \in Of(ToppingRoutes) : Fits(e)
<1>1. {"catalog", "pricing", "status"} \in SUBSET PartsOf["topping"]
  BY DEF PartsOf, Editable, Manageable
<1>2. ListedFit("topping", {"catalog", "pricing", "status"})
  BY <1>1, ListedFits DEF Listed
<1>3. Fits(OrElse(NeedsMore(UpdateNeeds("topping"), {F("topping", p, "update") : p \in {"catalog", "pricing", "status"}}),
                  {F("topping", "catalog", "update")}))
  <2>1. "catalog" \in PartsOf["topping"] /\ "topping" \in Listed
    BY DEF PartsOf, Editable, Manageable, Listed
  <2>. QED
    BY <1>1, <2>1, UpdateFits, ManagersEdit
<1>. QED
  BY <1>2, <1>3 DEF ListedFit, Of, ToppingRoutes

LEMMA ToppingGroupFit == \A e \in Of(ToppingGroupRoutes) : Fits(e)
<1>1. {"edit", "status"} \in SUBSET PartsOf["topping_group"]
  BY DEF PartsOf, Editable, Manageable
<1>2. ListedFit("topping_group", {"edit", "status"})
  BY <1>1, ListedFits DEF Listed
<1>3. Fits(OrElse(NeedsMore(UpdateNeeds("topping_group"), {F("topping_group", p, "update") : p \in {"edit", "status"}}),
                  {F("topping_group", "edit", "update")}))
  <2>1. "edit" \in PartsOf["topping_group"] /\ "topping_group" \in Listed
    BY DEF PartsOf, Editable, Manageable, Listed
  <2>. QED
    BY <1>1, <2>1, UpdateFits, ManagersEdit
<1>. QED
  BY <1>2, <1>3 DEF ListedFit, Of, ToppingGroupRoutes

LEMMA TablesFit == \A e \in Of(TablesRoutes) : Fits(e)
<1>1. {"edit", "status"} \in SUBSET PartsOf["tables"]
  BY DEF PartsOf, Editable, Manageable
<1>2. ListedFit("tables", {"edit", "status"})
  BY <1>1, ListedFits DEF Listed
<1>3. Fits(Needs({P("qr_code", "view")}))
  BY PageFits, PartsFacts DEF Needs, EmployeeOwn, ActionKeys
<1>4. /\ Fits(Needs({F("qr_code", "preview", "view")}))
      /\ Fits(Needs({F("qr_code", "rotate", "update")}))
  BY PartFits, PartsFacts DEF Needs, EmployeeOwn, ActionKeys, PartsOf
<1>5. Fits(OrElse(NeedsMore(UpdateNeeds("tables"), {F("tables", p, "update") : p \in {"edit", "status"}}),
                  {F("tables", "edit", "update")}))
  <2>1. "edit" \in PartsOf["tables"] /\ "tables" \in Listed
    BY DEF PartsOf, Editable, Manageable, Listed
  <2>. QED
    BY <1>1, <2>1, UpdateFits, ManagersEdit
<1>. QED
  BY <1>2, <1>3, <1>4, <1>5 DEF ListedFit, Of, TablesRoutes

LEMMA AuthFit == \A e \in Of(AuthRoutes) : Fits(e)
<1>1. PageFit("branches", "unlimited")
  BY PagesFit, PartsFacts DEF EmployeeOwn, StockAreas
<1>. QED
  BY <1>1 DEF PageFit, Of, AuthRoutes, Needs

LEMMA SystemFit == \A e \in Of(SystemRoutes) : Fits(e)
<1>1. PageFit("health_system", "unlimited")
  BY PagesFit, PartsFacts DEF EmployeeOwn, StockAreas
<1>. QED
  BY <1>1 DEF PageFit, Of, SystemRoutes, Needs

LEMMA StockCategoryFit == \A e \in Of(StockCategoryRoutes) : Fits(e)
<1>1. PageFit("stock_category", "unlimited")
  BY PagesFit, PartsFacts DEF EmployeeOwn, StockAreas
<1>. QED
  BY <1>1 DEF PageFit, Of, StockCategoryRoutes, Needs

LEMMA IngredientsFit == \A e \in Of(IngredientsRoutes) : Fits(e)
<1>1. PageFit("ingredients", "unlimited")
  BY PagesFit, PartsFacts DEF EmployeeOwn, StockAreas
<1>. QED
  BY <1>1 DEF PageFit, Of, IngredientsRoutes, Needs

LEMMA IngredientsUnitFit == \A e \in Of(IngredientsUnitRoutes) : Fits(e)
<1>1. PageFit("ingredients_unit", "unlimited")
  BY PagesFit, PartsFacts DEF EmployeeOwn, StockAreas
<1>. QED
  BY <1>1 DEF PageFit, Of, IngredientsUnitRoutes, Needs

LEMMA StockOrdersFit == \A e \in Of(StockOrdersRoutes) : Fits(e)
<1>1. PageFit("stock_orders", "unlimited")
  BY PagesFit, PartsFacts DEF EmployeeOwn, StockAreas
<1>. QED
  BY <1>1 DEF PageFit, Of, StockOrdersRoutes, Needs

LEMMA SalesOrderDetailFit == \A e \in Of(SalesOrderDetailRoutes) : Fits(e)
<1>1. PageFit("orders", "access")
  BY PagesFit, PartsFacts DEF EmployeeOwn, StockAreas
<1>. QED
  BY <1>1 DEF PageFit, Of, SalesOrderDetailRoutes

LEMMA SalesOrderItemFit == \A e \in Of(SalesOrderItemRoutes) : Fits(e)
<1>1. PageFit("orders", "access")
  BY PagesFit, PartsFacts DEF EmployeeOwn, StockAreas
<1>. QED
  BY <1>1 DEF PageFit, Of, SalesOrderItemRoutes

LEMMA AuditFit == \A e \in Of(AuditRoutes) : Fits(e)
<1>1. PageFit("audit", "unlimited") /\ PageFit("audit", "audit_log")
  BY PagesFit, PartsFacts DEF EmployeeOwn
<1>. QED
  BY <1>1 DEF PageFit, Of, AuditRoutes, Needs

LEMMA BranchFit == \A e \in Of(BranchRoutes) : Fits(e)
<1>1. PageFit("branches", "unlimited") /\ PageFit("branches", "branch")
  BY PagesFit, PartsFacts DEF EmployeeOwn
<1>. QED
  BY <1>1 DEF PageFit, Of, BranchRoutes, Needs

\* Nobody but administrators and managers writes users, so the guard in front
\* leaves no grant idle.
LEMMA GuardFits ==
  ASSUME NEW act \in ActionKeys, NEW l, l # "all_only", NEW g \in {"GET", "POST", "PUT", "DELETE"}
  PROVE  Fits(Guarded(Asking({P("users", act)}, {}, l), g))
<1> DEFINE e == Asking({P("users", act)}, {}, l)
           d == Guarded(e, g)
<1>1. Fits(e)
  BY PageFits, PartsFacts DEF EmployeeOwn
<1>2. /\ d.needs = e.needs /\ d.more = e.more /\ d.rest = e.rest /\ d.limit = e.limit /\ d.guard = g
      /\ e.needs = {P("users", act)} /\ e.more = {} /\ e.rest = {}
  BY DEF Guarded, Asking
<1>. HIDE DEF e, d
<1>3. AskedOf(d) = AskedOf(e) /\ AskedOf(d) = {P("users", act)}
  BY <1>2 DEF AskedOf
<1>4. \A sent : Used(d, sent) = Used(e, sent) /\ Looks(d, sent) = Looks(e, sent)
  BY <1>2 DEF Used, Looks
<1>5. ~Granted("Employee", P("users", act))
  <2>1. EmployeePolicy(<<"users", "page">>, act) = Deny
    BY DEF EmployeePolicy, Nothing, EmployeeReads, EmployeeOwn, StockAreas
  <2>. QED
    BY <2>1 DEF Granted, ToPermissionPolicy, P, Deny
<1>6. GuardOpens(d)
  BY <1>2, <1>3, <1>5 DEF GuardOpens, MayWrite, Roles
<1>7. ActsTogether(d)
  BY <1>1, <1>2, <1>3 DEF Fits, ActsTogether, MayWrite
<1>8. OwnIsLimited(d)
  BY <1>1, <1>2, <1>4 DEF Fits, OwnIsLimited
<1>9. Fits(d)
  BY <1>1, <1>2, <1>3, <1>6, <1>7, <1>8 DEF Fits
<1>. QED
  BY <1>9 DEF d, e

LEMMA UsersFit == \A e \in Of(UsersRoutes) : Fits(e)
<1>1. /\ Fits(Guarded(Asking({P("users", "view")}, {}, "access"), "GET"))
      /\ Fits(Guarded(Asking({P("users", "view")}, {}, "user"), "GET"))
      /\ Fits(Guarded(Asking({P("users", "create")}, {}, "unlimited"), "POST"))
      /\ Fits(Guarded(Asking({P("users", "update")}, {}, "user"), "PUT"))
      /\ Fits(Guarded(Asking({P("users", "delete")}, {}, "user"), "DELETE"))
  BY GuardFits DEF ActionKeys
<1>. QED
  BY <1>1 DEF Of, UsersRoutes, Needs

LEMMA RolesFit == \A e \in Of(RolesRoutes) : Fits(e)
<1>1. PageFit("roles", "unlimited") /\ PageFit("roles", "all_only")
  BY PagesFit, PartsFacts, AdministratorsPage DEF EmployeeOwn
<1>. QED
  BY <1>1 DEF PageFit, Of, RolesRoutes, Needs

LEMMA PermissionsFit == \A e \in Of(PermissionsRoutes) : Fits(e)
<1>1. PageFit("permissions", "unlimited") /\ PageFit("permissions", "user") /\ PageFit("permissions", "all_only")
  BY PagesFit, PartsFacts, AdministratorsPage DEF EmployeeOwn
<1>2. Fits(Guarded(Asking({P("permissions", "view")}, {}, "user"), "self"))
  <2> DEFINE e == Asking({P("permissions", "view")}, {}, "user")
             d == Guarded(e, "self")
  <2>1. Fits(e)
    BY <1>1 DEF PageFit
  <2>2. d.needs = e.needs /\ d.more = e.more /\ d.rest = e.rest /\ d.limit = e.limit /\ d.guard = "self"
    BY DEF Guarded, Asking
  <2>. HIDE DEF e, d
  <2>3. AskedOf(d) = AskedOf(e) /\ \A sent : Used(d, sent) = Used(e, sent) /\ Looks(d, sent) = Looks(e, sent)
    BY <2>2 DEF AskedOf, Used, Looks
  <2>4. Fits(d)
    BY <2>1, <2>2, <2>3 DEF Fits, ActsTogether, MayWrite, OwnIsLimited, GuardOpens
  <2>. QED
    BY <2>4 DEF d, e
<1>. QED
  BY <1>1, <1>2 DEF PageFit, Of, PermissionsRoutes, Needs

LEMMA BackgroundJobsFit == \A e \in Of(BackgroundJobsRoutes) : Fits(e)
<1>1. /\ PageFit("reports", "unlimited") /\ PageFit("stock_orders", "unlimited")
      /\ PageFit("reports", "job") /\ PageFit("stock_orders", "job")
  BY PagesFit, PartsFacts DEF EmployeeOwn, StockAreas
<1>. QED
  BY <1>1 DEF PageFit, Of, BackgroundJobsRoutes, Needs

LEMMA PaymentsFit == \A e \in Of(PaymentsRoutes) : Fits(e)
<1>1. Fits(Asking({F("payments", "checkout", "create")}, {}, "access"))
  BY PartFits, PartsFacts DEF PartsOf, ActionKeys, EmployeeOwn
<1>2. PageFit("payments", "access")
  BY PagesFit, PartsFacts DEF EmployeeOwn
<1>. QED
  BY <1>1, <1>2 DEF PageFit, Of, PaymentsRoutes

LEMMA TakeawayQrFit == \A e \in Of(TakeawayQrRoutes) : Fits(e)
<1>1. /\ Fits(Needs({F("qr_code", "takeaway", "view")}))
      /\ Fits(Needs({F("qr_code", "takeaway_rotate", "update")}))
  BY PartFits, PartsFacts DEF Needs, PartsOf, ActionKeys, EmployeeOwn
<1>. QED
  BY <1>1 DEF Of, TakeawayQrRoutes

\* A route that asks for a part, and for reading others when the query says so.
LEMMA PartMore ==
  ASSUME NEW a \in DOMAIN PartsOf, NEW p \in PartsOf[a], NEW act \in ActionKeys, NEW m, NEW l,
         \A d \in m : \E q \in PartsOf[a], v \in Read : d = F(a, q, v),
         l # "all_only", a \notin DOMAIN EmployeeOwn
  PROVE  Fits(Asking({F(a, p, act)}, m, l))
<1>1. F(a, p, act) \in Capabilities /\ F(a, p, act)[1][1] = a
  BY PartExists DEF F
<1>2. \A q \in PartsOf[a], v \in Read : F(a, q, v) \in Capabilities /\ F(a, q, v)[1][1] = a /\ F(a, q, v)[2] = v
  <2>1. Read \subseteq ActionKeys
    BY DEF Read, ActionKeys
  <2>2. \A q, v : F(a, q, v)[1][1] = a /\ F(a, q, v)[2] = v
    BY DEF F
  <2>. QED
    BY <2>1, <2>2, PartExists
<1>3. \A d \in m : d \in Capabilities /\ d[1][1] = a /\ d[2] \in Read
  BY <1>2
<1>. QED
  BY <1>1, <1>3, OneFits

\* The same with the page.
LEMMA PageMore ==
  ASSUME NEW a \in DOMAIN PartsOf, NEW act \in ActionKeys, NEW m, NEW l,
         \A d \in m : \E q \in PartsOf[a], v \in Read : d = F(a, q, v),
         l # "all_only", a \notin DOMAIN EmployeeOwn
  PROVE  Fits(Asking({P(a, act)}, m, l))
<1>1. P(a, act) = F(a, "page", act) /\ "page" \in PartsOf[a]
  BY PartsFacts DEF P, F
<1>. QED
  BY <1>1, PartMore

LEMMA DashboardFit == \A e \in Of(DashboardRoutes) : Fits(e)
<1>1. /\ {"summary", "filters", "channels", "top_items", "recent_orders", "order_detail"} \subseteq PartsOf["reports"]
      /\ "reports" \in DOMAIN PartsOf /\ "reports" \notin DOMAIN EmployeeOwn
  BY PartsFacts DEF PartsOf, EmployeeOwn
<1>2. "view" \in Read /\ "view" \in ActionKeys /\ "access" \in ActionKeys
  BY DEF Read, ActionKeys
<1>3. Shown(OverviewSections) = {F("reports", "summary", "view"), F("reports", "channels", "view"),
                                 F("reports", "top_items", "view"), F("reports", "recent_orders", "view")}
  BY DEF Shown, OverviewSections
<1>4. Fits(NeedsMore({P("reports", "view")}, {F("reports", "filters", "view")} \cup Shown(OverviewSections)))
  BY <1>1, <1>2, <1>3, PageMore DEF NeedsMore
<1>5. Fits(NeedsMore({F("reports", "summary", "view")}, {F("reports", "filters", "view")}))
  BY <1>1, <1>2, PartMore DEF NeedsMore
<1>6. /\ Fits(Asking({F("reports", "order_detail", "access")}, {}, "order"))
      /\ Fits(Asking({F("reports", "top_items", "view")}, {}, "unlimited"))
  BY <1>1, <1>2, PartFits
<1>. QED
  BY <1>4, <1>5, <1>6 DEF Of, DashboardRoutes, Needs

LEMMA OrdersFit == \A e \in Of(OrdersRoutes) : Fits(e)
<1>1. /\ {"page", "search", "filter", "summary", "detail", "channels", "channel_create", "serving_board",
          "serving_board_update", "line_items", "item_status", "edit", "cancel"} = PartsOf["orders"]
      /\ "orders" \in DOMAIN PartsOf /\ "orders" \notin DOMAIN EmployeeOwn
  BY PartsFacts DEF PartsOf, EmployeeOwn
<1>2. Read = {"access", "view"} /\ ActionKeys = {"access", "view", "create", "update", "delete"}
  BY DEF Read, ActionKeys
<1>3. Fits(Asking({F("orders", "summary", "view")}, OrdersListMore \cup {F("orders", "channels", "view")}, "order"))
  BY <1>1, <1>2, PartMore DEF OrdersListMore
<1>4. Fits(Asking({P("orders", "view")}, OrdersListMore, "order"))
  BY <1>1, <1>2, PageMore DEF OrdersListMore
<1>5. Fits(Asking({F("orders", "edit", "update")}, {F("orders", "cancel", "access")}, "order"))
  BY <1>1, <1>2, PartMore
<1>6. Fits(Asking({P("orders", "view")}, {}, "order")) /\ Fits(Asking({P("orders", "delete")}, {}, "order"))
  BY <1>1, <1>2, PageFits
<1>7. /\ Fits(Asking({F("orders", "summary", "view")}, {}, "order"))
      /\ Fits(Asking({F("orders", "serving_board", "view")}, {}, "unlimited"))
      /\ Fits(Asking({F("orders", "serving_board_update", "update")}, {}, "item"))
      /\ Fits(Asking({F("orders", "serving_board_update", "update")}, {}, "group"))
      /\ Fits(Asking({F("orders", "detail", "access")}, {}, "order"))
  BY <1>1, <1>2, PartFits
<1>8. /\ Fits(Asking({F("orders", "channel_create", "create")}, {}, "unlimited"))
      /\ Fits(Asking({F("orders", "item_status", "update")}, {}, "item"))
      /\ Fits(Asking({F("orders", "line_items", "update")}, {}, "order"))
      /\ Fits(Asking({F("orders", "line_items", "update")}, {}, "item"))
  BY <1>1, <1>2, PartFits
<1>. QED
  BY <1>3, <1>4, <1>5, <1>6, <1>7, <1>8 DEF Of, OrdersRoutes, Needs

LEMMA PaymentAccountFit == \A e \in Of(PaymentAccountRoutes) : Fits(e)
<1>1. /\ PartsOf["payment_accounts"]
            = {"page", "search", "filter", "detail", "manager", "create", "edit", "activate", "delete"}
      /\ "payment_accounts" \in DOMAIN PartsOf /\ "payment_accounts" \notin DOMAIN EmployeeOwn
  BY PartsFacts DEF PartsOf, EmployeeOwn
<1>2. Read = {"access", "view"} /\ ActionKeys = {"access", "view", "create", "update", "delete"}
  BY DEF Read, ActionKeys
<1>3. Fits(NeedsMore({P("payment_accounts", "view")},
                     {F("payment_accounts", "search", "view"), F("payment_accounts", "filter", "view")}))
  BY <1>1, <1>2, PageMore DEF NeedsMore
<1>4. /\ Fits(Asking({F("payment_accounts", "detail", "view")}, {}, "unlimited"))
      /\ Fits(Asking({F("payment_accounts", "create", "create")}, {}, "unlimited"))
      /\ Fits(Asking({F("payment_accounts", "edit", "update")}, {}, "unlimited"))
      /\ Fits(Asking({F("payment_accounts", "activate", "update")}, {}, "unlimited"))
      /\ Fits(Asking({F("payment_accounts", "delete", "delete")}, {}, "unlimited"))
  BY <1>1, <1>2, PartFits
<1>. QED
  BY <1>3, <1>4 DEF Of, PaymentAccountRoutes, Needs

LEMMA ShopProfileFit == \A e \in Of(ShopProfileRoutes) : Fits(e)
<1>1. PageFit("shop_profile", "unlimited")
  BY PagesFit, PartsFacts DEF EmployeeOwn
<1> DEFINE m == {F("shop_profile", "identity", "update"), F("shop_profile", "contact", "update"),
                 F("payment_accounts", "edit", "update")}
<1>2. /\ "identity" \in PartsOf["shop_profile"] /\ "contact" \in PartsOf["shop_profile"]
      /\ "edit" \in PartsOf["payment_accounts"] /\ "update" \in ActionKeys
  BY DEF PartsOf, ActionKeys
<1>3. m \subseteq Capabilities
  BY <1>2, PartExists, PartsFacts
<1> DEFINE rest == {F("shop_profile", "identity", "update")}
<1>4. \A c \in m : c[1][1] \notin DOMAIN EmployeeOwn
  BY DEF EmployeeOwn, F
<1>5. \A c \in m : ~Granted("Employee", c)
  <2>1. EmployeeFeatures["shop_profile"] = << >> /\ EmployeeFeatures["payment_accounts"] = << >>
    BY DEF EmployeeFeatures, ManagerFeatures, Listed
  <2>2. \A p : In(EmployeeFeatures, "shop_profile", p) = Nothing /\ In(EmployeeFeatures, "payment_accounts", p) = Nothing
    BY <2>1 DEF In
  <2>3. {"shop_profile", "payment_accounts"} \subseteq DOMAIN EmployeeFeatures
    BY DEF EmployeeFeatures, ManagerFeatures
  <2>4. {"shop_profile", "payment_accounts"} \cap DOMAIN EmployeeOwn = {}
    BY DEF EmployeeOwn
  <2>5. \A a \in {"shop_profile", "payment_accounts"} : \A p : p # "page" => EmployeePolicy(<<a, p>>, "update") = Deny
    BY <2>2, <2>3, <2>4 DEF EmployeePolicy, Nothing
  <2>. QED
    BY <2>5 DEF Granted, ToPermissionPolicy, F, Deny
<1>6. rest \subseteq m /\ \A c \in rest : Granted("Manager", c)
  BY ManagersEdit
<1>. HIDE DEF m, rest
<1>7. ActsTogether(OrElse(Asking({}, m, "unlimited"), rest))
  BY <1>5, <1>6, AdminMay DEF ActsTogether, MayWrite, OrElse, Asking, AskedOf, Roles
<1>8. Fits(OrElse(NeedsMore({}, m), rest))
  BY <1>3, <1>4, <1>6, <1>7, AreaFits DEF NeedsMore
<1>. QED
  BY <1>1, <1>8 DEF m, rest, PageFit, Of, ShopProfileRoutes, Needs

\* With the shifts, what the table of an employee's own does not name is
\* nobody's own only.
LEMMA NotOwn ==
  ASSUME NEW a \in DOMAIN EmployeeOwn, NEW p, NEW act, act \notin In(EmployeeOwn, a, p)
  PROVE  \A r \in Roles : ScopeOf(r, F(a, p, act)) # "own"
<1> DEFINE c == F(a, p, act)
<1>1. c[1] = <<a, p>> /\ c[2] = act
  BY DEF F
<1>2. EmployeePolicy(<<a, p>>, act) # Allow("own")
  BY DEF EmployeePolicy, Nothing, Allow, Deny
<1>. HIDE DEF c
<1>3. ASSUME NEW r \in Roles, ScopeOf(r, c) = "own"
      PROVE  FALSE
  <2>1. /\ ToPermissionPolicy(r, c[1], c[2]) \in {Deny, Allow("all"), Allow("branch"), Allow("own")}
        /\ ToPermissionPolicy(r, c[1], c[2]) = Allow("own") => r = "Employee"
    BY WhoseScope
  <2>2. ToPermissionPolicy(r, c[1], c[2]) = Allow("own") /\ r = "Employee"
    BY <1>3, <2>1 DEF ScopeOf, Allow, Deny
  <2>. QED
    BY <1>1, <1>2, <2>2 DEF ToPermissionPolicy
<1>. QED
  BY <1>3 DEF c

\* Endpoints of the shifts that ask for one capability and reads.
LEMMA ShiftFits ==
  ASSUME NEW c \in Capabilities, NEW m \in SUBSET Capabilities, NEW l, l # "all_only",
         \A d \in m : d[2] \in Read, OwnIsLimited(Asking({c}, m, l))
  PROVE  Fits(Asking({c}, m, l))
<1>1. ActsTogether(Asking({c}, m, l))
  BY OneActs
<1>2. GuardOpens(Asking({c}, m, l)) /\ AskedOf(Asking({c}, m, l)) \subseteq Capabilities
  BY DEF GuardOpens, AskedOf, Asking
<1>. QED
  BY <1>1, <1>2 DEF Fits, Asking

LEMMA ShiftsFit == \A e \in Of(ShiftsRoutes) : Fits(e)
<1> DEFINE page    == P("shifts", "view")
           amounts == F("shifts", "financials", "view")
           history == P("shift_history", "view")
<1>1. /\ PartsOf["shifts"] = {"page", "open", "close_preview", "close", "summary", "financials", "channels",
                              "top_products", "history_nav"}
      /\ PartsOf["shift_history"] = {"page", "search", "filter", "stats", "summary", "financials"}
      /\ "shifts" \in DOMAIN PartsOf /\ "shift_history" \in DOMAIN PartsOf
  BY PartsFacts DEF PartsOf
<1>2. Read = {"access", "view"} /\ ActionKeys = {"access", "view", "create", "update", "delete"}
  BY DEF Read, ActionKeys
<1>3. /\ \A p \in PartsOf["shifts"], act \in ActionKeys : F("shifts", p, act) \in Capabilities
      /\ \A p \in PartsOf["shift_history"], act \in ActionKeys : F("shift_history", p, act) \in Capabilities
  BY <1>1, PartExists
<1>4. \A a, p, act : F(a, p, act)[2] = act /\ F(a, p, act)[1] = <<a, p>> /\ P(a, act) = F(a, "page", act)
  BY DEF F, P
<1>5. \A r \in Roles : /\ ScopeOf(r, F("shifts", "open", "create")) # "own"
                      /\ ScopeOf(r, page) # "own" /\ ScopeOf(r, F("shifts", "summary", "view")) # "own"
                      /\ ScopeOf(r, F("shifts", "channels", "view")) # "own"
                      /\ ScopeOf(r, F("shifts", "top_products", "view")) # "own"
  <2>1. "shifts" \in DOMAIN EmployeeOwn
    BY DEF EmployeeOwn
  <2>2. \A p \in {"open", "page", "summary", "channels", "top_products"} : In(EmployeeOwn, "shifts", p) = Nothing
    BY DEF In, EmployeeOwn, EmployeeOwnShifts
  <2>3. \A p \in {"open", "page", "summary", "channels", "top_products"} : \A act :
          \A r \in Roles : ScopeOf(r, F("shifts", p, act)) # "own"
    BY <2>1, <2>2, NotOwn DEF Nothing
  <2>. QED
    BY <1>4, <2>3
<1>6. \A r \in Roles : \A c : ScopeOf(r, c) = "own" => ScopeOf(r, history) = "own"
  <2>. TAKE r \in Roles
  <2>. TAKE c
  <2>1. ToPermissionPolicy(r, c[1], c[2]) \in {Deny, Allow("all"), Allow("branch"), Allow("own")}
    BY WhoseScope
  <2>2. ToPermissionPolicy(r, c[1], c[2]) = Allow("own") => r = "Employee"
    BY WhoseScope
  <2>3. ScopeOf(r, c) = "own" => r = "Employee"
    BY <2>1, <2>2 DEF ScopeOf, Allow, Deny
  <2>4. EmployeePolicy(<<"shift_history", "page">>, "view") = Allow("own")
    <3>1. "view" \in In(EmployeeOwn, "shift_history", "page") /\ "shift_history" \in DOMAIN EmployeeOwn
      BY DEF In, EmployeeOwn, EmployeeOwnHistory, Read
    <3>2. <<"shift_history", "page">>[1] = "shift_history" /\ <<"shift_history", "page">>[2] = "page"
      OBVIOUS
    <3>3. <<"shift_history", "page">> \notin EmployeeReads
      BY DEF EmployeeReads, StockAreas
    <3> DEFINE res == <<"shift_history", "page">>
    <3>. HIDE DEF res
    <3>4. "view" \in In(EmployeeOwn, res[1], res[2]) /\ res[1] \in DOMAIN EmployeeOwn /\ res[2] = "page" /\ res \notin EmployeeReads
      BY <3>1, <3>2, <3>3 DEF res
    <3>5. EmployeePolicy(res, "view") = Allow("own")
      BY <3>4 DEF EmployeePolicy, Nothing
    <3>. QED
      BY <3>5 DEF res
  <2>5. ScopeOf("Employee", history) = "own"
    BY <2>4 DEF ScopeOf, ToPermissionPolicy, P, Allow
  <2>. QED
    BY <2>3, <2>5
<1>7. Fits(Asking({F("shifts", "open", "create")}, {}, "unlimited"))
  <2>1. OwnIsLimited(Asking({F("shifts", "open", "create")}, {}, "unlimited"))
    BY <1>5 DEF OwnIsLimited, Used, Asking
  <2>. QED
    BY <1>1, <1>2, <1>3, <2>1, ShiftFits
<1>8. \A c \in {F("shifts", "close_preview", "access"), F("shifts", "close", "update")} : Fits(Asking({c}, {}, "closer"))
  <2>. TAKE c \in {F("shifts", "close_preview", "access"), F("shifts", "close", "update")}
  <2>1. OwnIsLimited(Asking({c}, {}, "closer"))
    BY DEF OwnIsLimited, Asking
  <2>2. c \in Capabilities
    BY <1>1, <1>2, <1>3
  <2>. QED
    BY <2>1, <2>2, ShiftFits
<1>9. Fits(Asking({F("shift_history", "summary", "access")}, {}, "opener"))
  <2> DEFINE c == F("shift_history", "summary", "access")
             e == Asking({c}, {}, "opener")
  <2>1. c \in Capabilities
    BY <1>1, <1>2, <1>3
  <2>2. e.needs = {c} /\ e.more = {} /\ e.rest = {} /\ e.limit = "opener"
    BY DEF Asking
  <2>. HIDE DEF c, e
  <2>3. \A sent \in SUBSET e.more : Used(e, sent) = {c} /\ Looks(e, sent) = {c}
    BY <2>2 DEF Used, Looks
  <2>4. OwnIsLimited(e)
    BY <2>2, <2>3 DEF OwnIsLimited
  <2>5. Fits(e)
    BY <2>1, <2>4, ShiftFits DEF e
  <2>. QED
    BY <2>5 DEF e, c
<1>10. \A n \in {page, F("shifts", "summary", "view")},
          m \in SUBSET {amounts, F("shifts", "channels", "view"), F("shifts", "top_products", "view")} :
         Fits(Asking({n}, m, "financials"))
  <2>. TAKE n \in {page, F("shifts", "summary", "view")}
  <2>. TAKE m \in SUBSET {amounts, F("shifts", "channels", "view"), F("shifts", "top_products", "view")}
  <2> DEFINE e == Asking({n}, m, "financials")
  <2>1. n \in Capabilities /\ m \in SUBSET Capabilities /\ \A d \in m : d[2] \in Read
    BY <1>1, <1>2, <1>3, <1>4
  <2>2. e.needs = {n} /\ e.more = m /\ e.rest = {} /\ e.limit = "financials"
    BY DEF Asking
  <2>. HIDE DEF e
  <2>3. ASSUME NEW sent \in SUBSET e.more
        PROVE  Used(e, sent) = {n} \cup sent /\ Looks(e, sent) = sent \cap {amounts}
    <3>1. Used(e, sent) = {n} \cup sent
      BY <2>2 DEF Used
    <3>2. Looks(e, sent) = sent \cap {amounts}
      BY <2>2 DEF Looks
    <3>. QED
      BY <3>1, <3>2
  <2>4. ASSUME NEW r \in Roles, NEW sent \in SUBSET e.more, NEW c \in Used(e, sent), ScopeOf(r, c) = "own"
        PROVE  c \in Looks(e, sent)
    BY <1>5, <2>2, <2>3, <2>4
  <2>5. OwnIsLimited(e)
    BY <2>2, <2>4 DEF OwnIsLimited
  <2>. QED
    BY <2>1, <2>5, ShiftFits DEF e
<1>11. Fits(Asking({history}, {F("shift_history", "search", "view"), F("shift_history", "filter", "view")}
                              \cup Shown(HistorySections), "history"))
  <2> DEFINE m == {F("shift_history", "search", "view"), F("shift_history", "filter", "view")}
                  \cup Shown(HistorySections)
             e == Asking({history}, m, "history")
  <2>1. Shown(HistorySections) = {F("shift_history", "stats", "view"), F("shift_history", "financials", "view")}
    BY DEF Shown, HistorySections
  <2>2. \A d \in m \cup {history} : \E p \in PartsOf["shift_history"] : d = F("shift_history", p, "view")
    BY <1>1, <1>4, <2>1
  <2>3. history \in Capabilities /\ m \in SUBSET Capabilities /\ \A d \in m : d[2] \in Read
    BY <1>2, <1>3, <1>4, <2>2
  <2>4. e.needs = {history} /\ e.more = m /\ e.rest = {} /\ e.limit = "history"
    BY DEF Asking
  <2>. HIDE DEF e, m
  <2>5. \A sent \in SUBSET e.more : Used(e, sent) \subseteq {history} \cup m /\ Looks(e, sent) = {history}
    BY <2>4 DEF Used, Looks
  <2>6. OwnIsLimited(e)
    BY <1>2, <1>6, <2>2, <2>4, <2>5 DEF OwnIsLimited
  <2>7. Fits(e)
    BY <2>3, <2>6, ShiftFits DEF e
  <2>. QED
    BY <2>7 DEF e, m
<1>12. Shown(CurrentSummarySections) = {amounts, F("shifts", "channels", "view"), F("shifts", "top_products", "view")}
  BY DEF Shown, CurrentSummarySections
<1>. QED
  BY <1>7, <1>8, <1>9, <1>10, <1>11, <1>12 DEF Of, ShiftsRoutes, Needs

LEMMA PrintSettingsFit == \A e \in Of(PrintSettingsRoutes) : Fits(e)
<1> DEFINE n == {P("print_settings", "update"), F("print_settings", "publish", "update")}
           m == PrintSettingsMore
<1>1. /\ PartsOf["print_settings"]
            = {"page", "preview", "test_print", "presets", "layout", "visibility", "automation",
               "branch_defaults", "override_policy", "reset", "publish"}
      /\ "print_settings" \in DOMAIN PartsOf /\ "print_settings" \notin DOMAIN EmployeeOwn
  BY PartsFacts DEF PartsOf, EmployeeOwn
<1>2. "update" \in ActionKeys /\ "view" \in ActionKeys
  BY DEF ActionKeys
<1>3. \A p \in PartsOf["print_settings"] : F("print_settings", p, "update") \in Capabilities
  BY <1>1, <1>2, PartExists
<1>4. /\ P("print_settings", "update") = F("print_settings", "page", "update")
      /\ \A p, act : F("print_settings", p, act)[1][1] = "print_settings"
  BY DEF P, F
<1>5. \A c \in n \cup m : \E p \in PartsOf["print_settings"] : c = F("print_settings", p, "update")
  BY <1>1, <1>4 DEF PrintSettingsMore
<1>6. \A c \in n : Granted("Manager", c)
  <2>1. /\ <<"print_settings", "page">> \notin ManagerRestricted
        /\ <<"print_settings", "publish">> \notin ManagerRestricted
        /\ "print_settings" \notin ManagerReadsOnly
    BY DEF ManagerRestricted, ManagerReadsOnly
  <2>2. "update" \in In(ManagerFeatures, "print_settings", "publish") /\ "update" \in Updates
    BY DEF In, ManagerFeatures, ManagerPrintSettings, Updates
  <2>3. "print_settings" \in DOMAIN ManagerFeatures
    BY DEF ManagerFeatures
  <2>4. /\ ManagerPolicy(<<"print_settings", "page">>, "update") = Allow("branch")
        /\ ManagerPolicy(<<"print_settings", "publish">>, "update") = Allow("branch")
    BY <2>1, <2>2, <2>3 DEF ManagerPolicy
  <2>. QED
    BY <2>4 DEF Granted, ToPermissionPolicy, P, F, Allow
<1>7. \A c \in n \cup m : ~Granted("Employee", c)
  <2>1. \A p : In(EmployeeFeatures, "print_settings", p) = Nothing
    <3>1. EmployeeFeatures["print_settings"] = << >>
      BY DEF EmployeeFeatures, ManagerFeatures, Listed
    <3>. QED
      BY <3>1 DEF In
  <2>2. "print_settings" \in DOMAIN EmployeeFeatures
    BY DEF EmployeeFeatures, ManagerFeatures
  <2>3. <<"print_settings", "page">> \notin EmployeeReads
    BY DEF EmployeeReads, StockAreas
  <2>4. \A p \in PartsOf["print_settings"] : EmployeePolicy(<<"print_settings", p>>, "update") = Deny
    BY <1>1, <2>1, <2>2, <2>3 DEF EmployeePolicy, Nothing
  <2>. QED
    BY <1>5, <2>4 DEF Granted, ToPermissionPolicy, F, Deny
<1>. HIDE DEF n, m
<1>8. Fits(NeedsMore(n, m))
  <2>1. n \cup m \subseteq Capabilities /\ \A c \in n \cup m : c[1][1] \notin DOMAIN EmployeeOwn
    BY <1>1, <1>3, <1>4, <1>5
  <2>2. ActsTogether(Asking(n, m, "unlimited"))
    BY <1>6, <1>7, AdminMay DEF ActsTogether, MayWrite, Asking, AskedOf, Roles
  <2>3. Fits(OrElse(Asking(n, m, "unlimited"), {}))
    BY <2>1, <2>2, NoRest, AreaFits
  <2>. QED
    BY <2>3, NoRest DEF NeedsMore
<1>9. Fits(Needs({P("print_settings", "view")}))
  BY <1>1, <1>2, PageFits DEF Needs
<1>. QED
  BY <1>8, <1>9 DEF n, m, Of, PrintSettingsRoutes

\* Whatever endpoint of the application, and whatever its handler adds to what
\* the route asks for: all of it exists; who may write with any of it may use
\* what is always needed, or needed when the body names no part; the guard in
\* front of the users lets everybody through who may write; and a scope of one's
\* own, where the baseline gives it, is one that the handler looks at, or a close.
THEOREM EndpointsFit == \A e \in AllRoutes : Fits(e)
  BY AuditFit, AuthFit, SystemFit, BranchFit, RolesFit, UsersFit, PermissionsFit, BackgroundJobsFit,
     CategoryFit, DashboardFit, DeliveryFit, DiscountsFit, OrdersFit, PaymentAccountFit, PaymentMethodFit,
     PaymentsFit, PrintSettingsFit, ProductsFit, ProductsUnitFit, SalesOrderDetailFit, SalesOrderItemFit,
     ShiftsFit, ShopProfileFit, TablesFit, TakeawayQrFit, ToppingFit, ToppingGroupFit, StockCategoryFit,
     IngredientsFit, IngredientsUnitFit, StockOrdersFit DEF AllRoutes

\* A call that was answered.
VisitorOK ==
    visitor # NoVisitor =>
        /\ visitor.role \in Roles /\ Fits(visitor.asks)
        /\ visitor.sent \in SUBSET visitor.asks.more
        /\ visitor.asks.limit # "closer" => visitor.hit = visitor.row
        /\ visitor.served = Served(visitor.role, visitor.asks, visitor.sent, visitor.row)

\* A row of my branch is in reach of every scope, when it is mine or I am no
\* employee, but where only "all" counts.
LEMMA ReachOK ==
  ASSUME NEW r \in Roles, NEW c, NEW l, NEW row, Granted(r, c), row.here, row.mine \/ r # "Employee",
         l = "all_only" => ScopeOf(r, c) = "all"
  PROVE  InReach(l, ScopeOf(r, c), row)
<1>1. ScopeOf(r, c) \in {"own", "branch", "all"} /\ (ScopeOf(r, c) = "own" => r = "Employee")
  BY WhoseScope DEF ScopeOf, Granted, Allow, Deny
<1>. QED
  BY <1>1 DEF InReach, EnforceUserTargetScope, EnforceOrderTargetScope, EnforceOrderItemTargetScope,
     EnforceServingGroupTargetScope, EnforceBranchTargetScope, EnforceAuditLogTargetScope,
     EnforceAllScopeOnly, GetAccess, CanAccessJob, OwnShift

\* There is a row that nothing but the grants keeps anybody from.
LEMMA GoodRow ==
  ASSUME NEW r \in Roles, NEW e, GuardOpens(e), MayWrite(r, e)
  PROVE  \E row \in RowsOf(r) :
            /\ row.here /\ (row.mine \/ r # "Employee")
            /\ e.guard \notin {"none", "self"} => EnforceUserManagementPolicy(e.guard, r, row)
<1> DEFINE own   == [mine |-> TRUE, here |-> TRUE, employee |-> r = "Employee", modest |-> TRUE]
           their == [mine |-> FALSE, here |-> TRUE, employee |-> TRUE, modest |-> TRUE]
<1>1. own \in RowsOf(r) /\ their \in RowsOf(r)
  BY DEF RowsOf
<1>2. CASE e.guard \in {"none", "self"}
  BY <1>1, <1>2
<1>3. CASE e.guard \in {"GET", "POST", "PUT", "DELETE"} /\ r \in {"Admin", "Manager"}
  BY <1>1, <1>3 DEF EnforceUserManagementPolicy
<1>. QED
  BY <1>2, <1>3 DEF GuardOpens

\* What holds of the endpoint holds of the call.
LEMMA VisitorFits == VisitorOK => BaselineFits
<1>. SUFFICES ASSUME VisitorOK, visitor # NoVisitor PROVE BaselineFits
  BY DEF BaselineFits
<1> DEFINE e    == visitor.asks
           r    == visitor.role
           sent == visitor.sent
           used == Used(e, sent)
<1>1. e.needs \cup e.more \cup e.rest \subseteq Capabilities
  BY DEF VisitorOK, Fits, AskedOf
<1>2. r \in Roles /\ Fits(e) /\ sent \in SUBSET e.more
  BY DEF VisitorOK
<1>3. used \subseteq AskedOf(e)
  BY <1>2 DEF Used, AskedOf
<1>4. ASSUME NEW c \in used, c[2] \notin Read, Granted(r, c), sent \subseteq {c}
      PROVE  \E row \in RowsOf(r) : Served(r, e, sent, row)
  <2>1. MayWrite(r, e)
    BY <1>3, <1>4 DEF MayWrite
  <2>2. \A d \in e.needs \cup e.rest : Granted(r, d) /\ (e.limit = "all_only" => ScopeOf(r, d) = "all")
    BY <1>2, <2>1 DEF Fits, ActsTogether
  <2>3. \A d \in e.needs \cup e.rest \cup sent :
          Granted(r, d) /\ (e.limit = "all_only" => ScopeOf(r, d) = "all")
    BY <1>2, <1>4, <2>2 DEF Fits
  <2>4. used \subseteq e.needs \cup e.rest \cup sent /\ Looks(e, sent) \subseteq e.needs \cup e.rest \cup sent
    BY DEF Used, Looks, LastOf
  <2>5. PICK row \in RowsOf(r) :
          /\ row.here /\ (row.mine \/ r # "Employee")
          /\ e.guard \notin {"none", "self"} => EnforceUserManagementPolicy(e.guard, r, row)
    BY <1>2, <2>1, GoodRow DEF Fits
  <2>6. \A d \in Looks(e, sent) : InReach(e.limit, ScopeOf(r, d), row)
    BY <1>2, <2>3, <2>4, <2>5, ReachOK
  <2>7. AssertCanCloseShift(r, row)
    BY <1>2, <2>5 DEF AssertCanCloseShift, Roles
  <2>8. Served(r, e, sent, row)
    BY <2>3, <2>4, <2>5, <2>6, <2>7 DEF Served
  <2>. QED
    BY <2>8
<1>5. ASSUME visitor.served, NEW c \in used, ScopeOf(r, c) = "own"
      PROVE  visitor.hit.mine \/ (e.limit = "closer" /\ visitor.row.mine)
  <2>1. /\ e.limit = "closer" \/ (e.limit \in {"opener", "financials", "history"} /\ \E d \in Looks(e, sent) : ScopeOf(r, d) = "own")
        /\ r = "Employee"
    <3>1. r = "Employee"
      BY <1>2, <1>5, WhoseScope DEF ScopeOf, Allow, Deny
    <3>. QED
      BY <1>2, <1>5, <3>1 DEF Fits, OwnIsLimited
  <2>2. Served(r, e, sent, visitor.row)
    BY <1>5 DEF VisitorOK
  <2>3. visitor.row.mine
    BY <2>1, <2>2 DEF Served, InReach, OwnShift, AssertCanCloseShift
  <2>. QED
    BY <2>1, <2>3 DEF VisitorOK
<1>. QED
  BY <1>1, <1>4, <1>5 DEF BaselineFits

\* Inductive: a call was of an endpoint that fits, and was answered as its guards decide.
THEOREM VisitorInductive == EndpointsSpec => []VisitorOK
<1>1. EndpointsInit => VisitorOK
  BY DEF EndpointsInit, VisitorOK
<1>2. VisitorOK /\ [EndpointsNext]_visitor => VisitorOK'
  <2>. SUFFICES ASSUME VisitorOK, [EndpointsNext]_visitor PROVE VisitorOK'
    OBVIOUS
  <2>1. CASE CallEnds
    BY <2>1 DEF CallEnds, VisitorOK
  <2>2. ASSUME NEW r \in Roles, NEW e \in AllRoutes, CallEndpoint(r, e)
        PROVE  VisitorOK'
    <3>1. PICK sent \in Sendings(e), row \in RowsOf(r) :
            \E hit \in IF e.limit = "closer" THEN RowsOf(r) ELSE {row} :
              visitor' = [role |-> r, asks |-> e, sent |-> sent, row |-> row, hit |-> hit,
                          served |-> Served(r, e, sent, row)]
      BY <2>2 DEF CallEndpoint
    <3>2. Fits(e) /\ sent \in SUBSET e.more
      BY EndpointsFit DEF Sendings
    <3>. QED
      BY <3>1, <3>2 DEF VisitorOK
  <2>3. CASE UNCHANGED visitor
    BY <2>3 DEF VisitorOK
  <2>. QED
    BY <2>1, <2>2, <2>3 DEF EndpointsNext
<1>. QED
  BY <1>1, <1>2, PTL DEF EndpointsSpec

\* No endpoint asks for what nobody can be granted, no grant of writing is idle
\* for want of another or for a guard, and "own" never opens what is another's,
\* but that a close may find another shift than the one that was checked
\* (rbac-defaults, and the routes and controllers).
THEOREM BaselineFitsHolds == EndpointsSpec => []BaselineFits
<1>. QED
  BY VisitorInductive, VisitorFits, PTL
=============================================================================

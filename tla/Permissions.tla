---------------------------- MODULE Permissions ----------------------------
(***************************************************************************)
(* What the staff may do: the rules of a role, the overrides of a user,    *)
(* the requests for a risky override that a second administrator reviews,  *)
(* and the decisions that every process keeps in its memory for a while.   *)
(*                                                                         *)
(* There is one role and one resource.  The rows of a subject (the role or *)
(* a user) for the resource are written together, so a rule is a function  *)
(* from actions to the scope that is allowed, to "deny", or to "none" when *)
(* there are no rows.  A write deletes the rows of the subject and inserts *)
(* new ones in a transaction: two writers of one subject meet on the rows  *)
(* that the first deletes, or on the unique index, key by key.  A request  *)
(* ends its transaction: what a client that hangs up leaves open is in     *)
(* DbPool.                                                                 *)
(*                                                                         *)
(* A definition named Wrong... is a mistake that the next one could        *)
(* contain; it is used to test the properties.                             *)
(***************************************************************************)
EXTENDS Naturals, FiniteSets

CONSTANTS
    Staff, StaffRole,   \* users, and the role they have
    Admins,             \* administrators: they ask for risky overrides and review them
    Actions, Scopes,    \* actions on the resource, scopes that can be granted
    Asked,              \* the actions that requests ask about
    Baseline,           \* what the role gets when a process starts
    Processes,          \* each with a memory of its own
    Jobs,               \* the concurrent requests
    MaxApprovals,       \* how many approval requests may exist
    DecisionTTL         \* for how many ticks a remembered decision is used

Subjects == Staff \cup {StaffRole}
Approvals == 1 .. MaxApprovals
Levels == Scopes \cup {"deny"}
NoRows == [a \in Actions |-> "none"]
BaselineRule == [a \in Actions |-> Baseline]

ASSUME PermissionSets ==
    /\ StaffRole \notin Staff /\ Asked \subseteq Actions /\ MaxApprovals \in Nat
    /\ Baseline \in Levels /\ {"deny", "none"} \cap Scopes = {}
ASSUME DecisionLifetime == DecisionTTL \in Nat

VARIABLES
    rules,      \* role_permissions, user_permissions
    approvals,  \* permission_override_approvals
    answers,    \* memoryCache of each process
    task,       \* where each request is
    memo,       \* what the request read and will use
    applied     \* history: which approvals were put in force, and by whom

permVars == <<rules, approvals, answers, task, memo, applied>>

NoApproval == [status |-> "none", user |-> StaffRole, by |-> StaffRole, rule |-> NoRows]
NoMemo == [kind |-> "none", proc |-> StaffRole, of |-> StaffRole, rule |-> NoRows, by |-> StaffRole,
           id |-> 0, owns |-> FALSE, hit |-> FALSE, act |-> "none", value |-> "none"]
NoAnswer == [value |-> "missing", age |-> 0]

\* expandPermissionActions: one flag per action and one scope for all of them.
Payload(granted, scope) == [a \in Actions |-> IF a \in granted THEN scope ELSE "deny"]
Payloads == {NoRows} \cup {Payload(g, s) : g \in SUBSET Actions, s \in Scopes}

\* The rows of the user come first, those of the role otherwise.
Decision(u, a) == IF rules[u][a] # "none" THEN rules[u][a] ELSE rules[StaffRole][a]

\* collectApprovalRiskFlags
Risky(p) == \E a \in Actions : p[a] \in Scopes /\ (a = "delete" \/ p[a] = "all")

Start(j, next, read) ==
    /\ task[j] = "idle"
    /\ task' = [task EXCEPT ![j] = next]
    /\ memo' = [memo EXCEPT ![j] = read]
MoveOn(j, next, read) ==
    /\ task' = [task EXCEPT ![j] = next]
    /\ memo' = [memo EXCEPT ![j] = read]

\* The requests of gone end; who waited for rows that they held goes on: with the
\* delete that now finds nothing, or from its start when they were rolled back.
EndAll(gone, next) ==
    /\ task' = [j \in Jobs |->
         IF j \in gone THEN "idle"
         ELSE IF task[j] = "wait" /\ \E g \in gone : memo[g].owns /\ memo[g].of = memo[j].of
         THEN next ELSE task[j]]
    /\ memo' = [j \in Jobs |-> IF j \in gone THEN NoMemo ELSE memo[j]]
Rollback(gone) == EndAll(gone, "delete")
Return(j) == EndAll({j}, "insert")

HeldByOther(j) == \E x \in Jobs \ {j} : memo[x].owns /\ memo[x].of = memo[j].of

\* invalidatePermissionDecisionCacheByUser, invalidateAllPermissionDecisionCache:
\* the memory of this process only.
Forget(p, s) ==
    [answers EXCEPT ![p] = [u \in Staff |-> IF s \in {u, StaffRole} THEN [a \in Asked |-> NoAnswer]
                                            ELSE answers[p][u]]]

(***************************************************************************)
(* authorizePermission, and simulate: a decision from the memory of the    *)
(* process, or from the database and then remembered.  What was remembered *)
(* in Redis is never read.                                                 *)
(***************************************************************************)
Remembered(p, u, a) == answers[p][u][a].value # "missing" /\ answers[p][u][a].age <= DecisionTTL

WrongAnswerFromMemory(p, u, a) ==  \* an answer that is used is kept longer
    /\ Remembered(p, u, a)
    /\ answers' = [answers EXCEPT ![p][u][a].age = 0]
    /\ UNCHANGED <<rules, approvals, task, memo, applied>>
AnswerFromMemory(p, u, a) ==
    /\ Remembered(p, u, a)
    /\ UNCHANGED permVars

Fetch(j) ==
    \E p \in Processes, u \in Staff, a \in Asked :
        /\ ~Remembered(p, u, a)
        /\ Start(j, "fetched", [NoMemo EXCEPT !.kind = "ask", !.proc = p, !.of = u, !.act = a,
                                              !.value = Decision(u, a)])
        /\ UNCHANGED <<rules, approvals, answers, applied>>

KeepAnswer(j) ==
    /\ task[j] = "fetched"
    /\ answers' = [answers EXCEPT ![memo[j].proc][memo[j].of][memo[j].act] =
                      [value |-> memo[j].value, age |-> 0]]
    /\ Return(j)
    /\ UNCHANGED <<rules, approvals, applied>>

Older(e) == IF e.value # "missing" /\ e.age <= DecisionTTL THEN [e EXCEPT !.age = e.age + 1] ELSE NoAnswer
TimePasses ==
    /\ answers' = [p \in Processes |-> [u \in Staff |-> [a \in Asked |-> Older(answers[p][u][a])]]]
    /\ answers' # answers
    /\ UNCHANGED <<rules, approvals, task, memo, applied>>

(***************************************************************************)
(* Writing the rules of a subject.  submitUserOverrideUpdate replaces at   *)
(* once what is no risk and asks for approval otherwise; a role is         *)
(* replaced at once.                                                       *)
(***************************************************************************)
Edit(p, s, rule) == [NoMemo EXCEPT !.kind = "edit", !.proc = p, !.of = s, !.rule = rule]

SubmitOverride(j) ==
    \E p \in Processes, u \in Staff, rule \in Payloads :
        /\ ~Risky(rule)
        /\ Start(j, "delete", Edit(p, u, rule))
        /\ UNCHANGED <<rules, approvals, answers, applied>>

RequestApproval ==
    \E k \in Approvals, u \in Staff, x \in Admins, rule \in Payloads :
        /\ Risky(rule)
        /\ approvals[k] = NoApproval /\ \A i \in 1 .. (k - 1) : approvals[i] # NoApproval
        /\ approvals' = [approvals EXCEPT ![k] = [status |-> "pending", user |-> u, by |-> x, rule |-> rule]]
        /\ UNCHANGED <<rules, answers, task, memo, applied>>

ReplaceRole(j) ==
    \E p \in Processes, rule \in Payloads :
        /\ Start(j, "delete", Edit(p, StaffRole, rule))
        /\ UNCHANGED <<rules, approvals, answers, applied>>

\* users.update with is_use = false: revokeUserPermissionOverrides counts first.
Offboard(j) ==
    \E p \in Processes, u \in Staff :
        /\ Start(j, IF rules[u] # NoRows THEN "delete" ELSE "invalidate",
                 [Edit(p, u, NoRows) EXCEPT !.kind = "offboard"])
        /\ UNCHANGED <<rules, approvals, answers, applied>>

\* DELETE: rows that another transaction has deleted are waited for.
DeleteRows(j) ==
    LET present == rules[memo[j].of] # NoRows
    IN  /\ task[j] = "delete"
        /\ IF present /\ HeldByOther(j) THEN MoveOn(j, "wait", memo[j])
           ELSE MoveOn(j, "insert", [memo[j] EXCEPT !.owns = present])
        /\ UNCHANGED <<rules, approvals, answers, applied>>

\* A row that is there and was not deleted by this transaction is a unique violation.
Duplicate(j) == memo[j].rule # NoRows /\ rules[memo[j].of] # NoRows /\ ~memo[j].owns
CanInsert(j) ==
    /\ task[j] = "insert"
    /\ memo[j].rule = NoRows \/ ~HeldByOther(j)

InsertRefused(j) ==
    /\ CanInsert(j)
    /\ Duplicate(j)
    /\ Return(j)
    /\ UNCHANGED <<rules, approvals, answers, applied>>

\* The INSERT takes one key after the other, in the order that its plan finds them: two
\* of them can each hold a key that the other needs.  PostgreSQL ends one of the two.
InsertVictim(j) ==
    /\ task[j] = "insert" /\ memo[j].rule # NoRows
    /\ \E x \in Jobs \ {j} :
          task[x] = "insert" /\ memo[x].rule # NoRows /\ memo[x].of = memo[j].of
    /\ Rollback({j})
    /\ UNCHANGED <<rules, approvals, answers, applied>>

\* What the transaction leaves behind: its own rows, or those it did not see.
Written(j) ==
    IF memo[j].owns \/ memo[j].rule # NoRows THEN [rules EXCEPT ![memo[j].of] = memo[j].rule] ELSE rules

InsertRows(j) ==
    /\ CanInsert(j) /\ ~Duplicate(j)
    /\ memo[j].kind \in {"edit", "offboard"}
    /\ rules' = Written(j)
    /\ task' = [x \in Jobs |->
         IF x = j THEN "invalidate"
         ELSE IF task[x] = "wait" /\ memo[j].owns /\ memo[x].of = memo[j].of THEN "insert" ELSE task[x]]
    /\ memo' = [memo EXCEPT ![j].owns = FALSE]
    /\ UNCHANGED <<approvals, answers, applied>>

Invalidate(j) ==
    /\ task[j] = "invalidate"
    /\ answers' = Forget(memo[j].proc, memo[j].of)
    /\ Return(j)
    /\ UNCHANGED <<rules, approvals, applied>>

(***************************************************************************)
(* reviewOverrideApproval: one transaction.  The request is read without a *)
(* lock; the update at the end looks at its status again, but what it      *)
(* returns is never null, so the review goes on when it changed nothing.   *)
(* The memory is cleared before the commit.                                *)
(***************************************************************************)
WrongMayReview(k, x) == approvals[k].status = "pending"  \* one's own request, too
MayReview(k, x) == approvals[k].status = "pending" /\ approvals[k].by # x

Review(j) ==
    \E p \in Processes, k \in Approvals, x \in Admins, verdict \in {"approve", "reject"} :
        /\ MayReview(k, x)
        /\ Start(j, IF verdict = "approve" THEN "delete" ELSE "mark",
                 [NoMemo EXCEPT !.kind = verdict, !.proc = p, !.of = approvals[k].user,
                                !.rule = approvals[k].rule, !.by = x, !.id = k])
        /\ UNCHANGED <<rules, approvals, answers, applied>>

ApproveInsert(j) ==
    /\ CanInsert(j) /\ ~Duplicate(j)
    /\ memo[j].kind = "approve"
    /\ MoveOn(j, "mark", [memo[j] EXCEPT !.owns = TRUE])
    /\ UNCHANGED <<rules, approvals, answers, applied>>

WrongStillPending(k) == TRUE  \* the update does not look at the status
StillPending(k) == approvals[k].status = "pending"

Mark(j) ==
    /\ task[j] = "mark"
    /\ \A x \in Jobs : task[x] = "commit" => memo[x].id # memo[j].id
    /\ answers' = IF memo[j].kind = "approve" THEN Forget(memo[j].proc, memo[j].of) ELSE answers
    /\ MoveOn(j, "commit", [memo[j] EXCEPT !.hit = StillPending(memo[j].id)])
    /\ UNCHANGED <<rules, approvals, applied>>

Ruling(kind) == IF kind = "approve" THEN "approved" ELSE "rejected"

CommitReview(j) ==
    LET k == memo[j].id
    IN  /\ task[j] = "commit"
        /\ approvals' = IF memo[j].hit
                        THEN [approvals EXCEPT ![k].status = Ruling(memo[j].kind)] ELSE approvals
        /\ rules' = IF memo[j].kind = "approve" THEN Written(j) ELSE rules
        /\ applied' = IF memo[j].kind = "approve" THEN applied \cup {<<k, memo[j].by>>} ELSE applied
        /\ Return(j)
        /\ UNCHANGED answers

\* A process dies and starts again: its transactions are rolled back, its memory is
\* empty, and ensureRbacDefaults allows by default what the role is denied.
Booted(r) == [a \in Actions |-> IF r[a] \in {"deny", "none"} THEN BaselineRule[a] ELSE r[a]]
Restart(p) ==
    LET gone == {j \in Jobs : memo[j].proc = p}
    IN  /\ \A j \in Jobs \ gone : memo[j].owns => memo[j].of # StaffRole
        /\ Rollback(gone)
        /\ answers' = [answers EXCEPT ![p] = [u \in Staff |-> [a \in Asked |-> NoAnswer]]]
        /\ rules' = [rules EXCEPT ![StaffRole] = Booted(rules[StaffRole])]
        /\ UNCHANGED <<approvals, applied>>

(***************************************************************************)
(* The specification.  Time passes, and a request that was begun ends:     *)
(* every statement has a timeout.                                          *)
(***************************************************************************)
PermInit ==
    /\ rules = [s \in Subjects |-> IF s = StaffRole THEN BaselineRule ELSE NoRows]
    /\ approvals = [k \in Approvals |-> NoApproval]
    /\ answers = [p \in Processes |-> [u \in Staff |-> [a \in Asked |-> NoAnswer]]]
    /\ task = [j \in Jobs |-> "idle"]
    /\ memo = [j \in Jobs |-> NoMemo]
    /\ applied = {}

Proceed(j) ==
    \/ KeepAnswer(j) \/ DeleteRows(j) \/ InsertRefused(j) \/ InsertVictim(j) \/ InsertRows(j)
    \/ Invalidate(j) \/ ApproveInsert(j) \/ Mark(j) \/ CommitReview(j)

PermNext ==
    \/ TimePasses \/ RequestApproval
    \/ \E p \in Processes : Restart(p) \/ \E u \in Staff, a \in Asked : AnswerFromMemory(p, u, a)
    \/ \E j \in Jobs : Fetch(j) \/ SubmitOverride(j) \/ ReplaceRole(j) \/ Offboard(j) \/ Review(j)
                         \/ Proceed(j)

PermSpec == PermInit /\ [][PermNext]_permVars

(***************************************************************************)
(* Properties.                                                             *)
(***************************************************************************)
Tasks == {"idle", "fetched", "delete", "wait", "insert", "invalidate", "mark", "commit"}
Rules == [Actions -> Levels \cup {"none"}]
ApprovalRecord == [status: {"none", "pending", "approved", "rejected"}, user: Subjects,
                   by: Admins \cup {StaffRole}, rule: Rules]
MemoRecord == [kind: {"none", "ask", "edit", "offboard", "approve", "reject"},
               proc: Processes \cup {StaffRole}, of: Subjects, rule: Rules, by: Admins \cup {StaffRole},
               id: Approvals \cup {0}, owns: BOOLEAN, hit: BOOLEAN, act: Asked \cup {"none"},
               value: Levels \cup {"none"}]
AnswerRecord == [value: Levels \cup {"none", "missing"}, age: 0 .. (DecisionTTL + 1)]

\* Rows, remembered decisions and requests have their types; one writer holds the
\* rows of a subject.
PermTypeOK ==
    /\ rules \in [Subjects -> Rules]
    /\ approvals \in [Approvals -> ApprovalRecord]
    /\ answers \in [Processes -> [Staff -> [Asked -> AnswerRecord]]]
    /\ task \in [Jobs -> Tasks]
    /\ memo \in [Jobs -> MemoRecord]
    /\ applied \subseteq Approvals \X Admins
    /\ \A i, j \in Jobs : memo[i].owns /\ memo[j].owns /\ memo[i].of = memo[j].of => i = j

\* A risky override is in force only because one administrator asked for just that
\* and another one approved it (Two-person approval required).
TwoPersonRule ==
    \A u \in Staff : Risky(rules[u]) =>
        \E k \in Approvals, x \in Admins :
            <<k, x>> \in applied /\ approvals[k].user = u /\ approvals[k].rule = rules[u]
                /\ approvals[k].by # x

\* Two reviews of one request: the first that commits decides, and for good.
ReviewedOnce ==
    [][\A k \in Approvals :
          approvals[k].status \in {"approved", "rejected"} => approvals'[k] = approvals[k]]_permVars

\* However edits, reviews, restarts and reads interleave, when the rules no longer
\* change every process comes to answer what they say.
Agree(p, u, a) == Remembered(p, u, a) => answers[p][u][a].value = Decision(u, a)
Quiet == [][rules' = rules]_permVars
DecisionsSettle ==
    <>Quiet => <>[](\A p \in Processes, u \in Staff, a \in Asked : Agree(p, u, a))

(***************************************************************************)
(* What the repository says and the code does not do.                      *)
(***************************************************************************)

\* What an administrator rejected is not put in force by another's approval
\* (Approval request is no longer pending).
RejectedHasNoEffect ==
    \A k \in Approvals : approvals[k].status = "rejected" => \A x \in Admins : <<k, x>> \notin applied
=============================================================================

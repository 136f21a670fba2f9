---------------------------- MODULE LedgerProofs ----------------------------
(***************************************************************************)
(* What holds of the audit ledger for any number of callers, handles and   *)
(* requests: types and mutual exclusion always, the hash chain when every  *)
(* caller goes through one handle.                                         *)
(***************************************************************************)
EXTENDS Ledger, PDDLCheck, SequenceTheorems, TLAPS

-----------------------------------------------------------------------------
(* The engine's verdict is a well-formed result whatever it is asked, so   *)
(* that its columns can be hashed.                                         *)

LEMMA ValidateType ==
  ASSUME NEW act, NEW context, NEW clock
  PROVE  validate(act, context, clock) \in PDDLResult
<1>1. RE01(act, context, clock) \in PDDLResult
  BY DEF RE01, compliant, non_compliant, PDDLResult, PDDLStatus, RuleNames, Violations
<1>2. RE02Scope(act, context) \in PDDLResult
  BY DEF RE02Scope, compliant, non_compliant, partial, PDDLResult, PDDLStatus,
         RuleNames, Violations
<1>3. RE02Timeout(act, context, clock) \in PDDLResult
  BY DEF RE02Timeout, compliant, non_compliant, PDDLResult, PDDLStatus, RuleNames,
         Violations
<1>4. compliant("aggregate") \in PDDLResult
  BY DEF compliant, PDDLResult, PDDLStatus, RuleNames, Violations
<1>5. ASSUME NEW agg \in PDDLResult, NEW res \in PDDLResult
      PROVE  Fold(agg, res) \in PDDLResult
  BY <1>5 DEF Fold, PDDLResult
<1>6. QED
  BY <1>1, <1>2, <1>3, <1>4, <1>5 DEF validate

LEMMA ColumnsType ==
  ASSUME NEW verdict \in PDDLResult
  PROVE  Columns(verdict) \in LedgerContent
BY DEF Columns, LedgerContent, PDDLResult

LEMMA AuditColumnsType ==
  ASSUME NEW confidence \in AIConfidence
  PROVE  [action |-> "summarize_findings", pddl_status |-> confidence,
          pddl_rule_violation |-> NULL] \in LedgerContent
BY DEF LedgerContent

-----------------------------------------------------------------------------
(* The verdict of one call, against the rules stated without a pipeline.   *)

(* Each rule for itself: what it promises is what it accepts, and what it  *)
(* refuses has a reason.                                                   *)
LEMMA ConsentRule ==
  ASSUME action \in Actions, ctx \in Contexts, now \in 0..MaxClock
  PROVE  IF Consented THEN RE01(action, ctx, now) = compliant("RE-01")
         ELSE \E why \in Violations :
                RE01(action, ctx, now) = non_compliant("RE-01", why)
<1>1. now \in Int
  BY RulesAssumption
<1>2. ctx.consent_timestamp = NULL \/ ctx.consent_timestamp \in Int
  BY RulesAssumption DEF Contexts, Instants
<1>3. ctx.consent_timestamp # NULL =>
        (ctx.consent_timestamp > now <=> ~(ctx.consent_timestamp <= now))
  BY <1>1, <1>2
<1>4. QED
  BY <1>3 DEF RE01, Consented, Violations

LEMMA ScopeRule ==
  ASSUME action \in Actions
  PROVE  IF ~InScope
         THEN \E why \in Violations : RE02Scope(action, ctx) = non_compliant("RE-02a", why)
         ELSE IF action.requires_scope /\ ctx.target = NULL
         THEN RE02Scope(action, ctx) = partial("RE-02a", "no_target")
         ELSE RE02Scope(action, ctx) = compliant("RE-02a")
  BY DEF RE02Scope, InScope, Covered, Violations

LEMMA TimeRule ==
  ASSUME action \in Actions, ctx \in Contexts, now \in 0..MaxClock
  PROVE  IF InTime THEN RE02Timeout(action, ctx, now) = compliant("RE-02b")
         ELSE \E why \in Violations :
                RE02Timeout(action, ctx, now) = non_compliant("RE-02b", why)
<1>1. ctx.max_session_duration_seconds = Limit
  BY DEF Contexts
<1>2. Limit \in Nat /\ now \in Int
  BY RulesAssumption
<1>3. /\ ctx.planned_seconds = NULL \/ ctx.planned_seconds \in Int
      /\ ctx.session_started_at = NULL \/ ctx.session_started_at \in Int
  BY <1>2, RulesAssumption DEF Contexts, Instants
<1>4. QED
  BY <1>1, <1>2, <1>3 DEF RE02Timeout, InTime, Violations

(* One turn of the loop, by what the aggregate and the rule say.           *)
LEMMA FoldTurns ==
  ASSUME NEW agg, agg \in PDDLResult, NEW rule \in RuleNames, NEW why \in Violations
  PROVE  /\ agg.status \in {"COMPLIANT", "PARTIAL", "NON_COMPLIANT"} =>
              Fold(agg, compliant(rule)) = agg
         /\ agg.status = "COMPLIANT" =>
              Fold(agg, partial(rule, why)) = [agg EXCEPT !.status = "PARTIAL"]
         /\ agg.status = "NON_COMPLIANT" =>
              Fold(agg, partial(rule, why)) = agg
         /\ agg.rule_violation = NULL /\ agg.status \in {"COMPLIANT", "PARTIAL"} =>
              Fold(agg, non_compliant(rule, why)) = non_compliant(rule, why)
         /\ agg.rule_violation # NULL /\ agg.status = "NON_COMPLIANT" =>
              Fold(agg, non_compliant(rule, why)) = agg
<1>1. /\ ~is_worse_than("COMPLIANT", "COMPLIANT") /\ ~is_worse_than("COMPLIANT", "PARTIAL")
      /\ ~is_worse_than("COMPLIANT", "NON_COMPLIANT")
      /\ is_worse_than("PARTIAL", "COMPLIANT") /\ ~is_worse_than("PARTIAL", "NON_COMPLIANT")
      /\ is_worse_than("NON_COMPLIANT", "COMPLIANT")
      /\ is_worse_than("NON_COMPLIANT", "PARTIAL")
      /\ ~is_worse_than("NON_COMPLIANT", "NON_COMPLIANT")
  BY DEF is_worse_than, Severity, PDDLStatus
<1>2. agg = [status |-> agg.status, rule_name |-> agg.rule_name,
             rule_violation |-> agg.rule_violation]
  BY DEF PDDLResult
<1>3. QED
  BY <1>1, <1>2 DEF Fold, compliant, partial, non_compliant, PDDLResult

(* The whole pipeline, rule by rule.                                       *)
LEMMA PipelineVerdict ==
  ASSUME action \in Actions, ctx \in Contexts, now \in 0..MaxClock
  PROVE  MatchesRules(validate(action, ctx, now))
<1> DEFINE start   == compliant("aggregate")
           first   == Fold(start, RE01(action, ctx, now))
           second  == Fold(first, RE02Scope(action, ctx))
           third   == Fold(second, RE02Timeout(action, ctx, now))
           lenient == action.requires_scope /\ ctx.target = NULL
           halfway == [start EXCEPT !.status = "PARTIAL"]
<1>1. /\ start \in PDDLResult /\ start.status = "COMPLIANT"
      /\ start.rule_violation = NULL /\ start.rule_name = "aggregate"
  BY DEF compliant, PDDLResult, PDDLStatus, RuleNames
<1>2. /\ halfway \in PDDLResult /\ halfway.status = "PARTIAL"
      /\ halfway.rule_violation = NULL /\ halfway.rule_name = "aggregate"
  BY DEF compliant, PDDLResult, PDDLStatus, RuleNames
<1>3. ASSUME NEW rule \in RuleNames, NEW why \in Violations
      PROVE  /\ non_compliant(rule, why) \in PDDLResult
             /\ non_compliant(rule, why).status = "NON_COMPLIANT"
             /\ non_compliant(rule, why).rule_violation # NULL
             /\ non_compliant(rule, why).rule_name = rule
  BY <1>3, RulesAssumption DEF non_compliant, PDDLResult, PDDLStatus
<1>4. {"RE-01", "RE-02a", "RE-02b"} \subseteq RuleNames /\ "no_target" \in Violations
  BY DEF RuleNames, Violations
<1>5. IF Consented THEN first = start
      ELSE \E why \in Violations : first = non_compliant("RE-01", why)
  <2>1. CASE Consented
    BY <2>1, <1>1, <1>4, ConsentRule, FoldTurns
  <2>2. CASE ~Consented
    <3>1. PICK why \in Violations : RE01(action, ctx, now) = non_compliant("RE-01", why)
      BY <2>2, ConsentRule
    <3>2. first = non_compliant("RE-01", why)
      BY <3>1, <1>1, <1>4, FoldTurns
    <3>3. QED
      BY <2>2, <3>2
  <2>3. QED
    BY <2>1, <2>2
<1>6. IF ~Consented THEN \E why \in Violations : second = non_compliant("RE-01", why)
      ELSE IF ~InScope THEN \E why \in Violations : second = non_compliant("RE-02a", why)
      ELSE second = IF lenient THEN halfway ELSE start
  <2>1. CASE ~Consented
    <3>1. PICK why \in Violations : first = non_compliant("RE-01", why)
      BY <2>1, <1>5
    <3>2. first \in PDDLResult /\ first.status = "NON_COMPLIANT"
          /\ first.rule_violation # NULL
      BY <3>1, <1>3, <1>4
    <3>3. \E r \in Violations :
            \/ RE02Scope(action, ctx) = non_compliant("RE-02a", r)
            \/ RE02Scope(action, ctx) = partial("RE-02a", r)
            \/ RE02Scope(action, ctx) = compliant("RE-02a")
      BY <1>4, ScopeRule
    <3>4. second = first
      BY <3>2, <3>3, <1>4, FoldTurns
    <3>5. QED
      BY <2>1, <3>1, <3>4
  <2>2. CASE Consented /\ ~InScope
    <3>1. first = start
      BY <2>2, <1>5
    <3>2. PICK why \in Violations : RE02Scope(action, ctx) = non_compliant("RE-02a", why)
      BY <2>2, ScopeRule
    <3>3. second = non_compliant("RE-02a", why)
      BY <3>1, <3>2, <1>1, <1>4, FoldTurns
    <3>4. QED
      BY <2>2, <3>3
  <2>3. CASE Consented /\ InScope
    <3>1. first = start
      BY <2>3, <1>5
    <3>2. CASE lenient
      BY <2>3, <3>1, <3>2, <1>1, <1>4, ScopeRule, FoldTurns
    <3>3. CASE ~lenient
      BY <2>3, <3>1, <3>3, <1>1, <1>4, ScopeRule, FoldTurns
    <3>4. QED
      BY <2>3, <3>2, <3>3
  <2>4. QED
    BY <2>1, <2>2, <2>3
<1>7. IF ~Consented THEN \E why \in Violations : third = non_compliant("RE-01", why)
      ELSE IF ~InScope THEN \E why \in Violations : third = non_compliant("RE-02a", why)
      ELSE IF ~InTime THEN \E why \in Violations : third = non_compliant("RE-02b", why)
      ELSE third = IF lenient THEN halfway ELSE start
  <2>1. CASE ~Consented \/ ~InScope
    <3>1. PICK rule \in {"RE-01", "RE-02a"}, why \in Violations :
            /\ second = non_compliant(rule, why)
            /\ rule = IF Consented THEN "RE-02a" ELSE "RE-01"
      BY <2>1, <1>6
    <3>2. second \in PDDLResult /\ second.status = "NON_COMPLIANT"
          /\ second.rule_violation # NULL
      BY <3>1, <1>3, <1>4
    <3>3. \E r \in Violations :
            \/ RE02Timeout(action, ctx, now) = non_compliant("RE-02b", r)
            \/ RE02Timeout(action, ctx, now) = compliant("RE-02b")
      BY <1>4, TimeRule
    <3>4. third = second
      BY <3>2, <3>3, <1>4, FoldTurns
    <3>5. QED
      BY <2>1, <3>1, <3>4
  <2>2. CASE Consented /\ InScope
    <3>1. second \in {start, halfway}
      BY <2>2, <1>6
    <3>2. second \in PDDLResult /\ second.status \in {"COMPLIANT", "PARTIAL"}
          /\ second.rule_violation = NULL
      BY <3>1, <1>1, <1>2
    <3>3. CASE InTime
      <4>1. third = second
        BY <3>2, <3>3, <1>4, TimeRule, FoldTurns
      <4>2. QED
        BY <4>1, <3>3, <2>2, <1>6
    <3>4. CASE ~InTime
      <4>1. PICK why \in Violations :
              RE02Timeout(action, ctx, now) = non_compliant("RE-02b", why)
        BY <3>4, TimeRule
      <4>2. third = non_compliant("RE-02b", why)
        BY <3>2, <4>1, <1>4, FoldTurns
      <4>3. QED
        BY <4>2, <3>4, <2>2
    <3>5. QED
      BY <3>3, <3>4
  <2>3. QED
    BY <2>1, <2>2
<1>8. validate(action, ctx, now) = third
  BY DEF validate
<1> HIDE DEF start, first, second, third, halfway
<1>9. ASSUME NEW rule \in {"RE-01", "RE-02a", "RE-02b"}, NEW why \in Violations,
             third = non_compliant(rule, why)
      PROVE  /\ Denied(third) /\ third.status # "COMPLIANT"
             /\ third.rule_violation # NULL /\ third.rule_name = rule
  BY <1>3, <1>4, <1>9 DEF Denied
<1>10. CASE ~Consented
  <2>1. PICK why \in Violations : third = non_compliant("RE-01", why)
    BY <1>7, <1>10
  <2>2. QED
    BY <1>8, <1>9, <1>10, <2>1 DEF MatchesRules
<1>11. CASE Consented /\ ~InScope
  <2>1. PICK why \in Violations : third = non_compliant("RE-02a", why)
    BY <1>7, <1>11
  <2>2. QED
    BY <1>8, <1>9, <1>11, <2>1 DEF MatchesRules
<1>12. CASE Consented /\ InScope /\ ~InTime
  <2>1. PICK why \in Violations : third = non_compliant("RE-02b", why)
    BY <1>7, <1>12
  <2>2. QED
    BY <1>8, <1>9, <1>12, <2>1 DEF MatchesRules
<1>13. CASE Consented /\ InScope /\ InTime
  <2>1. third = IF lenient THEN halfway ELSE start
    BY <1>7, <1>13
  <2>2. /\ ~Denied(third) /\ third.rule_violation = NULL
        /\ third.rule_name = "aggregate"
        /\ third.status = "COMPLIANT" <=> ~lenient
    BY <2>1, <1>1, <1>2 DEF Denied
  <2>3. QED
    BY <1>8, <1>13, <2>2 DEF MatchesRules
<1>14. QED
  BY <1>10, <1>11, <1>12, <1>13

(* The verdict is the one the rules together call for, whatever the        *)
(* scopes, targets, limits and clock (pddl.rs:383-412): a call is refused  *)
(* exactly when a rule is broken, the first one broken is named, and only  *)
(* a missing target makes an accepted call PARTIAL.                        *)
Asking == /\ action \in Actions /\ ctx \in Contexts /\ now \in 0..MaxClock
          /\ result = NULL \/ result = validate(action, ctx, now)

THEOREM VerdictsMatchRules == JudgeSpec => []VerdictMatchesRules
<1>1. Asked => Asking
  BY DEF Asked, Asking
<1>2. Asking /\ [Judge]_call => Asking'
  BY DEF Asking, Judge, call
<1>3. Asking => VerdictMatchesRules
  <2>1. SUFFICES ASSUME Asking, result # NULL PROVE MatchesRules(result)
    BY <2>1 DEF VerdictMatchesRules, Judged
  <2>2. QED
    BY <2>1, PipelineVerdict DEF Asking
<1>4. QED
  BY <1>1, <1>2, <1>3, PTL DEF JudgeSpec

-----------------------------------------------------------------------------
(* Type correctness needs to know that a caller inside append has columns  *)
(* to insert.                                                              *)

Typed == TypeOK /\ \A t \in Threads : Holding(t) => content[t] \in LedgerContent

LEMMA ChainedType ==
  ASSUME NEW p \in Hash, NEW c \in LedgerContent
  PROVE  /\ Chained(p, c) \in AuditEntry
         /\ Chained(p, c).hash = Append(p, c)
BY DEF Chained, AuditEntry, calculate_hash, Hash

LEMMA LastHashType ==
  ASSUME log \in Seq(AuditEntry)
  PROVE  get_last_entry(log) \in Hash
<1>1. CASE Len(log) = 0
  BY <1>1 DEF get_last_entry, StoredHash, Hash, Genesis
<1>2. CASE Len(log) # 0
  <2>1. Len(log) \in 1..Len(log)
    BY <1>2
  <2>2. log[Len(log)] \in AuditEntry
    BY <2>1, ElementOfSeq
  <2>3. QED
    BY <1>2, <2>2 DEF get_last_entry, StoredHash, AuditEntry
<1>3. QED
  BY <1>1, <1>2

LEMMA StatusType ==
  ASSUME NEW c \in LedgerContent
  PROVE  c.pddl_status \in PDDLStatus \cup AIConfidence
BY DEF LedgerContent

LEMMA TypedInductive == Typed /\ [Next]_vars => Typed'
<1> SUFFICES ASSUME Typed, [Next]_vars PROVE Typed'
  OBVIOUS
<1> USE LedgerAssumption DEF Typed, TypeOK, Holding, PC
<1>1. ASSUME NEW t \in Threads, NEW c \in LedgerContent, Lock(t, c),
             UNCHANGED <<log, synced, prev, outcome, restarts>>
      PROVE  Typed'
  BY <1>1 DEF Lock
<1>2. ASSUME NEW t \in Threads, ReadLast(t) PROVE Typed'
  BY <1>2, LastHashType DEF ReadLast
<1>3. ASSUME NEW t \in Threads, Insert(t) PROVE Typed'
  <2>1. content[t] \in LedgerContent
    BY <1>3 DEF Insert
  <2> DEFINE row == Chained(prev[t], content[t])
  <2>2. row \in AuditEntry /\ row.hash \in Hash
    BY <2>1, ChainedType DEF Hash, AuditEntry
  <2>3. log' = Append(log, row) /\ synced' = synced
    BY <1>3 DEF Insert
  <2>4. log' \in Seq(AuditEntry) /\ synced' \in 0..Len(log')
    BY <2>2, <2>3
  <2>5. outcome' \in [Threads -> Outcomes]
    <3>1. Returned("ok", row.hash, content[t].pddl_status) \in Outcomes
      BY <2>1, <2>2, StatusType DEF Returned, Outcomes
    <3>2. QED
      BY <3>1, <1>3 DEF Insert
  <2>6. QED
    BY <2>4, <2>5, <1>3 DEF Insert, Unlock
<1>4. ASSUME NEW t \in Threads, AppendFails(t) PROVE Typed'
  <2>1. Returned("failed", Genesis, NULL) \in Outcomes
    BY DEF Returned, Outcomes, Genesis, Hash
  <2>2. QED
    BY <1>4, <2>1 DEF AppendFails, Unlock
<1>5. ASSUME NEW t \in Threads, NEW confidence \in AIConfidence,
             AuditEvent(t, confidence)
      PROVE  Typed'
  BY <1>1, <1>5, AuditColumnsType DEF AuditEvent
<1>6. ASSUME NEW t \in Threads, NEW r \in Requests, NEW deny \in BOOLEAN,
             ValidateAndAppend(t, r, deny)
      PROVE  Typed'
  BY <1>1, <1>6, ValidateType, ColumnsType DEF ValidateAndAppend
<1>7. ASSUME NEW t \in Threads, NEW r \in Requests, Refuse(t, r) PROVE Typed'
  <2> DEFINE verdict == validate(r.action, r.ctx, r.now)
  <2>1. Returned("refused", Genesis, verdict.status) \in Outcomes
    BY ValidateType DEF Returned, Outcomes, Genesis, Hash, PDDLResult
  <2>2. QED
    BY <1>7, <2>1 DEF Refuse
<1>8. ASSUME NEW kept \in synced..Len(log), Restart(kept) PROVE Typed'
  <2>1. SubSeq(log, 1, kept) \in Seq(AuditEntry) /\ Len(SubSeq(log, 1, kept)) = kept
    BY SubSeqProperties
  <2>2. NoOutcome \in Outcomes /\ Genesis \in Hash
    BY DEF NoOutcome, Outcomes, Genesis, Hash
  <2>3. QED
    BY <1>8, <2>1, <2>2 DEF Restart
<1>9. CASE Checkpoint
  BY <1>9 DEF Checkpoint, local
<1>10. CASE UNCHANGED vars
  BY <1>10 DEF vars
<1>11. QED
  <2>1. Len(log) \in synced..Len(log)
    OBVIOUS
  <2>2. QED
    BY <1>2, <1>3, <1>4, <1>5, <1>6, <1>7, <1>8, <1>9, <1>10, <2>1
       DEF Next, Step, Crash, PowerLoss

LEMMA TypedInit == Init => Typed
BY LedgerAssumption
   DEF Init, Typed, TypeOK, Holding, PC, Outcomes, NoOutcome, Genesis, Hash

(* Every variable keeps its type.                                          *)
THEOREM TypeCorrect == Spec => []TypeOK
<1>1. Typed => TypeOK
  BY DEF Typed
<1>2. QED
  BY <1>1, TypedInit, TypedInductive, PTL DEF Spec

-----------------------------------------------------------------------------
(* The mutex of a handle names exactly the caller inside its append, on    *)
(* every path out of it and across restarts.                               *)
THEOREM MutexHeld == Spec => []MutexDiscipline
<1> USE LedgerAssumption DEF MutexDiscipline, Holding
<1>1. Init => MutexDiscipline
  BY DEF Init
<1>2. Typed /\ MutexDiscipline /\ [Next]_vars => MutexDiscipline'
  <2> SUFFICES ASSUME Typed, MutexDiscipline, [Next]_vars
               PROVE  MutexDiscipline'
    OBVIOUS
  <2> USE DEF Typed, TypeOK, PC
  <2>1. ASSUME NEW t \in Threads, NEW c, Lock(t, c) PROVE MutexDiscipline'
    BY <2>1 DEF Lock
  <2>2. ASSUME NEW t \in Threads, ReadLast(t) PROVE MutexDiscipline'
    BY <2>2 DEF ReadLast
  <2>3. ASSUME NEW t \in Threads, Holding(t), Unlock(t) PROVE MutexDiscipline'
    BY <2>3 DEF Unlock
  <2>4. ASSUME NEW t \in Threads, Insert(t) \/ AppendFails(t)
        PROVE  MutexDiscipline'
    BY <2>3, <2>4 DEF Insert, AppendFails
  <2>5. ASSUME NEW t \in Threads, NEW r \in Requests, Refuse(t, r)
        PROVE  MutexDiscipline'
    BY <2>5 DEF Refuse
  <2>6. ASSUME NEW kept, Restart(kept) PROVE MutexDiscipline'
    BY <2>6 DEF Restart
  <2>7. CASE Checkpoint
    BY <2>7 DEF Checkpoint, local
  <2>8. CASE UNCHANGED vars
    BY <2>8 DEF vars
  <2>9. QED
    BY <2>1, <2>2, <2>4, <2>5, <2>6, <2>7, <2>8
       DEF Next, Step, AuditEvent, ValidateAndAppend, Crash, PowerLoss
<1>3. QED
  BY <1>1, <1>2, TypedInit, TypedInductive, PTL DEF Spec

-----------------------------------------------------------------------------
(* The chain.  With one handle the hash a caller has read stays the last   *)
(* hash until its own insert, because only the caller that holds the mutex *)
(* inserts.  The rows are then the chain: each covers the contents up to   *)
(* its own.                                                                *)

SingleHandle == \A t, u \in Threads : HandleOf[t] = HandleOf[u]

PrevIsLast == \A t \in Threads : pc[t] = "read" => prev[t] = get_last_entry(log)

(* What chaining amounts to: the hash of a row lists the contents of every *)
(* row up to its own.                                                      *)
HashesCover ==
  \A i \in 1..Len(log) :
    /\ Len(log[i].hash) = i
    /\ \A j \in 1..i : log[i].hash[j] = log[j].content

ChainInv == PrevIsLast /\ Intact(log) /\ HashesCover

Base == Typed /\ MutexDiscipline

LEMMA ChainInit == Init => ChainInv
BY DEF Init, ChainInv, PrevIsLast, Intact, HashesCover

LEMMA BaseAlways == Spec => []Base
<1>1. Spec => []Typed
  BY TypedInit, TypedInductive, PTL DEF Spec
<1>2. QED
  BY <1>1, MutexHeld, PTL DEF Base

LEMMA AppendKeepsChain ==
  ASSUME NEW s \in Seq(AuditEntry), NEW c \in LedgerContent,
         NEW row, row = Chained(get_last_entry(s), c), row \in AuditEntry,
         Intact(s)
  PROVE  Intact(Append(s, row))
BY DEF Intact, RowFails, StoredHash, get_last_entry, Chained

LEMMA PrefixKeepsChain ==
  ASSUME NEW s \in Seq(AuditEntry), NEW k \in 0..Len(s), Intact(s)
  PROVE  Intact(SubSeq(s, 1, k))
<1> DEFINE p == SubSeq(s, 1, k)
<1>1. Len(p) = k /\ \A i \in 1..k : p[i] = s[i]
  BY SubSeqProperties
<1>2. ASSUME NEW i \in 1..k PROVE ~RowFails(p, i)
  <2>1. ~RowFails(s, i)
    BY DEF Intact
  <2>2. StoredHash(p, i - 1) = StoredHash(s, i - 1)
    BY <1>1 DEF StoredHash
  <2>3. QED
    BY <1>1, <2>1, <2>2 DEF RowFails
<1>3. QED
  BY <1>1, <1>2 DEF Intact

LEMMA ChainInductive ==
  ASSUME SingleHandle, Base, ChainInv, [Next]_vars
  PROVE  ChainInv'
<1> USE LedgerAssumption DEF Base, Typed, TypeOK, Holding, PC
<1>1. ASSUME NEW t \in Threads, NEW c, Lock(t, c), log' = log, prev' = prev
      PROVE  ChainInv'
  BY <1>1 DEF Lock, ChainInv, PrevIsLast, HashesCover
<1>2. ASSUME NEW t \in Threads, ReadLast(t) PROVE ChainInv'
  BY <1>2 DEF ReadLast, ChainInv, PrevIsLast, HashesCover
<1>3. ASSUME NEW t \in Threads, Insert(t) PROVE ChainInv'
  <2> DEFINE c   == content[t]
             row == Chained(prev[t], c)
             n   == Len(log)
  <2>1. /\ c \in LedgerContent /\ prev[t] = get_last_entry(log)
        /\ row \in AuditEntry /\ row.hash = Append(get_last_entry(log), c)
        /\ row.content = c
    BY <1>3, ChainedType DEF Insert, ChainInv, PrevIsLast, Chained
  <2>2. log' = Append(log, row)
    BY <1>3 DEF Insert
  <2>3. Intact(log')
    BY <2>1, <2>2, AppendKeepsChain DEF ChainInv
  <2>4. PrevIsLast'
    <3>1. ASSUME NEW u \in Threads \ {t} PROVE pc'[u] # "read"
      BY <1>3, <3>1, SingleHandle DEF Insert, Unlock, MutexDiscipline, SingleHandle
    <3>2. pc'[t] = "idle"
      BY <1>3 DEF Insert, Unlock
    <3>3. QED
      BY <3>1, <3>2 DEF PrevIsLast
  <2>5. HashesCover'
    <3>1. /\ Len(log') = n + 1 /\ n \in Nat /\ log'[n + 1] = row
          /\ \A i \in 1..n : log'[i] = log[i]
      BY <2>1, <2>2
    <3>2. /\ get_last_entry(log) \in Seq(LedgerContent)
          /\ Len(get_last_entry(log)) = n
          /\ \A j \in 1..n : get_last_entry(log)[j] = log[j].content
      <4>1. CASE n = 0
        BY <4>1 DEF get_last_entry, StoredHash, Genesis
      <4>2. CASE n # 0
        <5>1. n \in 1..Len(log) /\ get_last_entry(log) = log[n].hash
          BY <4>2, <3>1 DEF get_last_entry, StoredHash
        <5>2. get_last_entry(log) \in Seq(LedgerContent)
          BY LastHashType DEF Hash
        <5>3. Len(log[n].hash) = n /\ \A j \in 1..n : log[n].hash[j] = log[j].content
          BY <5>1 DEF ChainInv, HashesCover
        <5>4. QED
          BY <5>1, <5>2, <5>3
      <4>3. QED
        BY <4>1, <4>2
    <3>3. /\ Len(row.hash) = n + 1 /\ row.hash[n + 1] = c
          /\ \A j \in 1..n : row.hash[j] = log[j].content
      <4>1. PICK last \in Seq(LedgerContent) : last = get_last_entry(log)
        BY <3>2
      <4>2. /\ Len(Append(last, c)) = Len(last) + 1 /\ Append(last, c)[Len(last) + 1] = c
            /\ \A j \in 1..Len(last) : Append(last, c)[j] = last[j]
        OBVIOUS
      <4>3. row.hash = Append(last, c) /\ Len(last) = n
        BY <2>1, <3>2, <4>1
      <4>4. QED
        BY <3>2, <4>1, <4>2, <4>3
    <3>4. ASSUME NEW i \in 1..n
          PROVE  Len(log'[i].hash) = i /\ \A j \in 1..i : log'[i].hash[j] = log'[j].content
      <4>1. Len(log[i].hash) = i /\ \A j \in 1..i : log[i].hash[j] = log[j].content
        BY DEF ChainInv, HashesCover
      <4>2. log'[i] = log[i] /\ \A j \in 1..i : log'[j] = log[j]
        BY <3>1
      <4>3. QED
        BY ONLY <4>1, <4>2
    <3>5. Len(log'[n + 1].hash) = n + 1
          /\ \A j \in 1..(n + 1) : log'[n + 1].hash[j] = log'[j].content
      <4>1. ASSUME NEW j \in 1..n
            PROVE  log'[n + 1].hash[j] = log'[j].content
        BY <3>1, <3>3
      <4>2. log'[n + 1].hash[n + 1] = log'[n + 1].content
        BY <2>1, <3>1, <3>3
      <4>3. Len(log'[n + 1].hash) = n + 1
        BY <3>1, <3>3
      <4>4. QED
        BY <3>1, <4>1, <4>2, <4>3
    <3>6. ASSUME NEW i \in 1..Len(log')
          PROVE  Len(log'[i].hash) = i /\ \A j \in 1..i : log'[i].hash[j] = log'[j].content
      <4>1. i \in 1..n \/ i = n + 1
        BY <3>1
      <4>2. QED
        BY ONLY <3>4, <3>5, <4>1
    <3>7. QED
      BY <3>6 DEF HashesCover
  <2>6. QED
    BY <2>3, <2>4, <2>5 DEF ChainInv
<1>4. ASSUME NEW t \in Threads, AppendFails(t) PROVE ChainInv'
  BY <1>4 DEF AppendFails, Unlock, ChainInv, PrevIsLast, HashesCover
<1>5. ASSUME NEW t \in Threads, NEW r, Refuse(t, r) PROVE ChainInv'
  BY <1>5 DEF Refuse, ChainInv, PrevIsLast, HashesCover
<1>6. ASSUME NEW kept \in 0..Len(log), Restart(kept) PROVE ChainInv'
  <2>1. /\ Len(log') = kept /\ \A i \in 1..kept : log'[i] = log[i]
    BY <1>6, SubSeqProperties DEF Restart
  <2>2. Intact(log')
    BY <1>6, PrefixKeepsChain DEF Restart, ChainInv
  <2>3. PrevIsLast'
    BY <1>6 DEF Restart, PrevIsLast
  <2>4. HashesCover'
    <3>1. SUFFICES ASSUME NEW i \in 1..kept
                   PROVE  /\ Len(log'[i].hash) = i
                          /\ \A j \in 1..i : log'[i].hash[j] = log'[j].content
      BY <2>1 DEF HashesCover
    <3>2. Len(log[i].hash) = i /\ \A j \in 1..i : log[i].hash[j] = log[j].content
      <4>1. i \in 1..Len(log)
        OBVIOUS
      <4>2. QED
        BY <4>1 DEF ChainInv, HashesCover
    <3>3. log'[i] = log[i] /\ \A j \in 1..i : log'[j] = log[j]
      BY <2>1
    <3>4. QED
      BY ONLY <3>2, <3>3
  <2>5. QED
    BY <2>2, <2>3, <2>4 DEF ChainInv
<1>7. CASE Checkpoint
  BY <1>7 DEF Checkpoint, local, ChainInv, PrevIsLast, HashesCover
<1>8. CASE UNCHANGED vars
  BY <1>8 DEF vars, ChainInv, PrevIsLast, HashesCover
<1>9. QED
  <2>1. Len(log) \in 0..Len(log) /\ synced..Len(log) \subseteq 0..Len(log)
    OBVIOUS
  <2>2. ASSUME NEW t \in Threads, Step(t) PROVE ChainInv'
    BY <1>2, <1>3, <1>4, <2>2 DEF Step
  <2>3. ASSUME NEW t \in Threads, NEW confidence \in AIConfidence,
               AuditEvent(t, confidence)
        PROVE  ChainInv'
    BY <1>1, <2>3 DEF AuditEvent
  <2>4. ASSUME NEW t \in Threads, NEW r, NEW deny, ValidateAndAppend(t, r, deny)
        PROVE  ChainInv'
    BY <1>1, <2>4 DEF ValidateAndAppend
  <2>5. CASE Crash \/ PowerLoss
    BY <1>6, <2>1, <2>5 DEF Crash, PowerLoss
  <2>6. QED
    BY <1>5, <1>7, <1>8, <2>2, <2>3, <2>4, <2>5 DEF Next

LEMMA ChainAlways == ASSUME SingleHandle PROVE Spec => []ChainInv
<1>1. Base /\ ChainInv /\ [Next]_vars => ChainInv'
  BY SingleHandle, ChainInductive
<1>2. QED
  BY <1>1, ChainInit, BaseAlways, PTL DEF Spec

(* However many callers share one handle, the walk of verify_integrity     *)
(* finds nothing wrong in a log only append has written.                   *)
THEOREM ChainStaysIntact == ASSUME SingleHandle PROVE Spec => []ChainIntact
<1>1. ChainInv => ChainIntact
  BY DEF ChainInv, ChainIntact, Intact, verify_integrity, FailingRows
<1>2. QED
  BY <1>1, ChainAlways, PTL

-----------------------------------------------------------------------------
(* Tampering.  The walk stops at the first row that fails, so the question *)
(* is which rows fail once one was altered or removed: none before it, and *)
(* behind it only a row whose link came from the one that changed.         *)

LEMMA FirstFailing ==
  ASSUME NEW rows, Len(rows) \in Nat, NEW i \in 1..Len(rows), RowFails(rows, i),
         \A j \in 1..(i - 1) : ~RowFails(rows, j)
  PROVE  verify_integrity(rows) = i
<1>1. i \in FailingRows(rows) /\ \A j \in FailingRows(rows) : j \in Nat /\ i <= j
  BY DEF FailingRows
<1>2. Min(FailingRows(rows)) = i
  <2> DEFINE F == FailingRows(rows)
  <2> HIDE DEF F
  <2>1. i \in F /\ \A j \in F : j \in Nat /\ i <= j
    BY <1>1 DEF F
  <2>2. Min(F) \in F /\ \A j \in F : Min(F) <= j
    BY <2>1 DEF Min
  <2>3. QED
    <3>1. i \in Nat /\ Min(F) \in Nat
      BY <2>1, <2>2
    <3>2. i <= Min(F)
      BY <2>1, <2>2
    <3>3. Min(F) <= i
      BY <2>1, <2>2
    <3>4. Min(F) = i
      BY <3>1, <3>2, <3>3
    <3>5. QED
      BY <3>4 DEF F
<1>3. QED
  BY <1>1, <1>2 DEF verify_integrity

LEMMA NoneFailing ==
  ASSUME NEW rows, Intact(rows)
  PROVE  verify_integrity(rows) = 0
BY DEF Intact, FailingRows, verify_integrity

(* A row that fits its place differs from the one it replaced in what it   *)
(* says, and so in its hash.                                               *)
LEMMA NewContentNewHash ==
  ASSUME NEW p \in Hash, NEW c \in LedgerContent, NEW d \in LedgerContent, c # d
  PROVE  calculate_hash(p, c) # calculate_hash(p, d)
<1>1. calculate_hash(p, c)[Len(p) + 1] = c /\ calculate_hash(p, d)[Len(p) + 1] = d
  BY DEF calculate_hash, Hash
<1>2. QED
  BY <1>1

LEMMA AlteredRowFound ==
  ASSUME log \in Seq(AuditEntry), Intact(log), NEW i \in 1..Len(log),
         NEW row \in AuditEntry, row # log[i]
  PROVE  verify_integrity([log EXCEPT ![i] = row]) = Detection(i, row)
<1> DEFINE rows == [log EXCEPT ![i] = row]
<1>1. /\ Len(rows) = Len(log) /\ rows[i] = row
      /\ \A j \in 1..Len(log) : j # i => rows[j] = log[j]
  OBVIOUS
<1> HIDE DEF rows
<1>2. \A j \in 1..Len(log) : ~RowFails(log, j)
  BY DEF Intact
<1>3. ASSUME NEW j \in 1..Len(log), j # i, j # i + 1 PROVE ~RowFails(rows, j)
  <2>1. StoredHash(rows, j - 1) = StoredHash(log, j - 1)
    BY <1>1, <1>3 DEF StoredHash
  <2>2. QED
    BY <1>1, <1>2, <1>3, <2>1 DEF RowFails
<1>4. CASE RowFails(rows, i)
  <2>1. Len(rows) \in Nat /\ i \in 1..Len(rows)
    BY <1>1
  <2>2. \A j \in 1..(i - 1) : ~RowFails(rows, j)
    BY <1>3
  <2>3. verify_integrity(rows) = i
    BY <1>4, <2>1, <2>2, FirstFailing
  <2>4. QED
    BY <1>4, <2>3 DEF Detection, rows
<1>5. CASE ~RowFails(rows, i)
  <2>1. row.hash # log[i].hash
    <3>1. StoredHash(rows, i - 1) = StoredHash(log, i - 1)
      BY <1>1 DEF StoredHash
    <3>2. /\ row.prev_hash = log[i].prev_hash
          /\ row.hash = calculate_hash(row.prev_hash, row.content)
          /\ log[i].hash = calculate_hash(row.prev_hash, log[i].content)
      BY <1>1, <1>2, <1>5, <3>1 DEF RowFails
    <3>3. log[i] \in AuditEntry
      OBVIOUS
    <3>4. row.content # log[i].content
      BY <3>2, <3>3 DEF AuditEntry
    <3>5. QED
      BY <3>2, <3>3, <3>4, NewContentNewHash DEF AuditEntry
  <2>2. CASE i = Len(log)
    <3>1. \A j \in 1..Len(rows) : ~RowFails(rows, j)
      BY <1>1, <1>3, <1>5, <2>2
    <3>2. verify_integrity(rows) = 0
      BY <3>1, NoneFailing DEF Intact
    <3>3. QED
      BY <1>5, <2>2, <3>2 DEF Detection, rows
  <2>3. CASE i # Len(log)
    <3>1. i + 1 \in 1..Len(rows) /\ Len(rows) \in Nat
      BY <1>1, <2>3
    <3>2. log[i + 1].prev_hash = log[i].hash
      BY <1>1, <1>2, <3>1 DEF RowFails, StoredHash
    <3>3. RowFails(rows, i + 1)
      BY <1>1, <2>1, <3>1, <3>2 DEF RowFails, StoredHash
    <3>4. ASSUME NEW j \in 1..((i + 1) - 1) PROVE ~RowFails(rows, j)
      <4>1. j \in 1..Len(log) /\ j # i + 1
        BY <2>3
      <4>2. QED
        BY <1>3, <1>5, <4>1
    <3>5. verify_integrity(rows) = i + 1
      BY <3>1, <3>3, <3>4, FirstFailing
    <3>6. QED
      BY <1>5, <2>3, <3>5 DEF Detection, rows
  <2>4. QED
    BY <2>2, <2>3
<1>6. QED
  BY <1>4, <1>5

LEMMA RemovedRowFound ==
  ASSUME log \in Seq(AuditEntry), Intact(log), HashesCover,
         NEW i \in 1..Len(log), i < Len(log)
  PROVE  verify_integrity(RemoveAt(log, i)) = i
<1> DEFINE rows == RemoveAt(log, i)
           front == SubSeq(log, 1, i - 1)
           back == SubSeq(log, i + 1, Len(log))
<1>1. /\ front \in Seq(AuditEntry) /\ Len(front) = i - 1
      /\ \A j \in 1..(i - 1) : front[j] = log[j]
  BY SubSeqProperties
<1>2. /\ back \in Seq(AuditEntry) /\ Len(back) = Len(log) - i
      /\ back[1] = log[i + 1]
  BY SubSeqProperties
<1>3. /\ Len(rows) = Len(log) - 1 /\ rows[i] = log[i + 1]
      /\ \A j \in 1..(i - 1) : rows[j] = log[j]
  <2>1. rows = front \o back
    BY DEF RemoveAt
  <2> HIDE DEF rows, front, back
  <2>2. /\ Len(rows) = Len(front) + Len(back)
        /\ \A j \in 1..Len(front) : rows[j] = front[j]
        /\ rows[Len(front) + 1] = back[1]
    <3>1. 1 \in 1..Len(back)
      BY <1>2
    <3>2. /\ Len(rows) = Len(front) + Len(back)
          /\ \A j \in 1..(Len(front) + Len(back)) :
               rows[j] = IF j <= Len(front) THEN front[j] ELSE back[j - Len(front)]
      BY <1>1, <1>2, <2>1, ConcatProperties
    <3>3. Len(front) \in Nat /\ Len(back) \in Nat
      BY <1>1, <1>2
    <3>4. QED
      BY <3>1, <3>2, <3>3
  <2>3. QED
    BY <1>1, <1>2, <2>2
<1> HIDE DEF rows
<1>4. \A j \in 1..Len(log) : ~RowFails(log, j)
  BY DEF Intact
<1>5. ASSUME NEW j \in 1..(i - 1) PROVE ~RowFails(rows, j)
  <2>1. StoredHash(rows, j - 1) = StoredHash(log, j - 1)
    BY <1>3 DEF StoredHash
  <2>2. j \in 1..Len(log) /\ rows[j] = log[j]
    BY <1>3
  <2>3. ~RowFails(log, j)
    BY <1>4, <2>2
  <2>4. QED
    BY ONLY <2>1, <2>2, <2>3 DEF RowFails
<1>6. RowFails(rows, i)
  <2>1. rows[i].prev_hash = log[i].hash
    <3>1. i + 1 \in 1..Len(log) /\ (i + 1) - 1 = i /\ i # 0
      OBVIOUS
    <3>2. log[i + 1].prev_hash = StoredHash(log, i)
      BY <1>4, <3>1 DEF RowFails
    <3>3. StoredHash(log, i) = log[i].hash
      BY <3>1 DEF StoredHash
    <3>4. QED
      BY <1>3, <3>2, <3>3, Zenon
  <2>2. StoredHash(rows, i - 1) = StoredHash(log, i - 1)
    BY <1>3 DEF StoredHash
  <2>3. Len(log[i].hash) = i /\ Len(StoredHash(log, i - 1)) = i - 1
    BY DEF HashesCover, StoredHash, Genesis
  <2>4. QED
    BY <2>1, <2>2, <2>3 DEF RowFails
<1>7. QED
  <2>1. Len(rows) \in Nat /\ i \in 1..Len(rows)
    BY <1>3
  <2>2. verify_integrity(rows) = i
    BY <1>5, <1>6, <2>1, FirstFailing
  <2>3. QED
    BY <2>2 DEF rows

LEMMA ForgeriesType ==
  ASSUME log \in Seq(AuditEntry)
  PROVE  Forgeries \subseteq AuditEntry
<1>1. ASSUME NEW j \in 1..Len(log)
      PROVE  log[j].content \in LedgerContent /\ log[j].hash \in Hash
  <2>1. log[j] \in AuditEntry
    OBVIOUS
  <2>2. QED
    BY <2>1 DEF AuditEntry
<1>2. \A j \in 0..Len(log) : StoredHash(log, j) \in Hash
  BY <1>1 DEF StoredHash, Genesis, Hash
<1>3. QED
  BY <1>1, <1>2, ChainedType DEF Forgeries, AuditEntry

(* Of a log of any length that only append has written, one row altered or *)
(* removed is found where it is, or at the row after it.                   *)
THEOREM TamperingAlwaysFound == ASSUME SingleHandle PROVE Spec => []TamperingFound
<1>1. Base /\ ChainInv => TamperingFound
  <2> SUFFICES ASSUME Base, ChainInv PROVE TamperingFound
    OBVIOUS
  <2>1. log \in Seq(AuditEntry) /\ Intact(log) /\ HashesCover
    BY DEF Base, Typed, TypeOK, ChainInv
  <2>2. QED
    BY <2>1, AlteredRowFound, RemovedRowFound, ForgeriesType DEF TamperingFound
<1>2. QED
  BY <1>1, BaseAlways, ChainAlways, PTL

(* Rows are only ever added one at a time at the end; what a restart drops *)
(* is unsynced.  No assumption on handles: this is SQLite's doing.         *)
THEOREM LogAppendOnly == Spec => AppendOnly
<1>1. Typed /\ [Next]_vars =>
        [\/ IsPrefix(log, log') /\ Len(log') <= Len(log) + 1
         \/ IsPrefix(log', log) /\ Len(log') >= synced /\ restarts' # restarts]_vars
  <2> SUFFICES ASSUME Typed, Next
               PROVE  \/ IsPrefix(log, log') /\ Len(log') <= Len(log) + 1
                      \/ /\ IsPrefix(log', log) /\ Len(log') >= synced
                         /\ restarts' # restarts
    OBVIOUS
  <2> USE DEF Typed, TypeOK
  <2>1. CASE log' = log
    BY <2>1, SubSeqProperties DEF IsPrefix
  <2>2. ASSUME NEW t \in Threads, Insert(t)
        PROVE  IsPrefix(log, log') /\ Len(log') <= Len(log) + 1
    <3> DEFINE row == Chained(prev[t], content[t])
    <3>1. row \in AuditEntry /\ log' = Append(log, row)
      BY <2>2, ChainedType DEF Insert, Holding
    <3>2. SubSeq(log', 1, Len(log)) = SubSeq(log, 1, Len(log))
      BY <3>1
    <3>3. QED
      BY <3>1, <3>2 DEF IsPrefix
  <2>3. ASSUME NEW kept \in synced..Len(log), Restart(kept)
        PROVE  /\ IsPrefix(log', log) /\ Len(log') >= synced
               /\ restarts' # restarts
    <3>1. /\ log' = SubSeq(log, 1, kept) /\ Len(log') = kept
          /\ log' \in Seq(AuditEntry)
      BY <2>3, SubSeqProperties DEF Restart
    <3>2. SubSeq(log', 1, kept) = SubSeq(log, 1, kept)
      BY <3>1
    <3>3. QED
      BY <2>3, <3>1, <3>2 DEF IsPrefix, Restart
  <2>4. QED
    <3>1. Len(log) \in synced..Len(log)
      OBVIOUS
    <3>2. QED
      BY <2>1, <2>2, <2>3, <3>1
         DEF Next, Step, ReadLast, AppendFails, AuditEvent, ValidateAndAppend,
             Refuse, Checkpoint, Crash, PowerLoss
<1>2. QED
  BY <1>1, TypedInit, TypedInductive, PTL DEF Spec, AppendOnly

-----------------------------------------------------------------------------
(* Receipts.  A returned hash is as long as its row is deep, and the row   *)
(* it names still holds it; only append hands one out.                     *)

ReceiptInv ==
  /\ \A t \in Threads :
       IF outcome[t].kind = "ok"
       THEN LET i == Len(outcome[t].hash)
            IN /\ i \in 1..Len(log)
               /\ log[i].hash = outcome[t].hash
               /\ log[i].content.pddl_status = outcome[t].status
       ELSE outcome[t].hash = Genesis
  /\ \A t, u \in Threads :
       outcome[t].kind = "ok" /\ t # u => outcome[t].hash # outcome[u].hash

LEMMA NewRow ==
  ASSUME Base, ChainInv, NEW t \in Threads, Insert(t)
  PROVE  /\ log' \in Seq(AuditEntry) /\ Len(log') = Len(log) + 1
         /\ \A i \in 1..Len(log) : log'[i] = log[i]
         /\ log'[Len(log) + 1] = Chained(get_last_entry(log), content[t])
         /\ log'[Len(log) + 1].content = content[t]
         /\ log'[Len(log) + 1].hash = Append(get_last_entry(log), content[t])
         /\ outcome' = [outcome EXCEPT ![t] =
                          Returned("ok", log'[Len(log) + 1].hash,
                                   content[t].pddl_status)]
         /\ content[t] \in LedgerContent
<1> DEFINE row == Chained(prev[t], content[t])
<1>1. content[t] \in LedgerContent /\ prev[t] = get_last_entry(log)
  BY DEF Base, Typed, Holding, Insert, ChainInv, PrevIsLast
<1>2. prev[t] \in Hash
  BY DEF Base, Typed, TypeOK
<1>3. row \in AuditEntry /\ row.hash = Append(prev[t], content[t])
      /\ row.content = content[t]
  BY <1>1, <1>2, ChainedType DEF Chained
<1>4. log \in Seq(AuditEntry) /\ log' = Append(log, row)
  BY DEF Base, Typed, TypeOK, Insert
<1>5. /\ log' \in Seq(AuditEntry) /\ Len(log') = Len(log) + 1
      /\ \A i \in 1..Len(log) : log'[i] = log[i]
      /\ log'[Len(log) + 1] = row
  BY <1>3, <1>4
<1>6. QED
  BY <1>1, <1>3, <1>5 DEF Insert

LEMMA LastHashLength ==
  ASSUME Base, ChainInv
  PROVE  /\ get_last_entry(log) \in Seq(LedgerContent)
         /\ Len(get_last_entry(log)) = Len(log)
         /\ \A j \in 1..Len(log) : get_last_entry(log)[j] = log[j].content
<1> USE DEF Base, Typed, TypeOK
<1>1. CASE Len(log) = 0
  BY <1>1 DEF get_last_entry, StoredHash, Genesis
<1>2. CASE Len(log) # 0
  BY <1>2, LastHashType DEF get_last_entry, StoredHash, ChainInv, HashesCover, Hash
<1>3. QED
  BY <1>1, <1>2

LEMMA ReceiptInductive ==
  ASSUME Base, ChainInv, ReceiptInv, [Next]_vars
  PROVE  ReceiptInv'
<1> USE DEF Base, Typed, TypeOK
<1>1. CASE UNCHANGED <<log, outcome>>
  BY <1>1 DEF ReceiptInv
<1>2. ASSUME NEW t \in Threads, Insert(t) PROVE ReceiptInv'
  <2> DEFINE n == Len(log)
             new == log'[n + 1].hash
  <2>1. new \in Seq(LedgerContent) /\ Len(new) = n + 1
    <3>1. new = Append(get_last_entry(log), content[t]) /\ content[t] \in LedgerContent
      BY <1>2, NewRow
    <3>2. QED
      BY <3>1, LastHashLength, AppendProperties
  <2>2. /\ outcome'[t].kind = "ok" /\ outcome'[t].hash = new
        /\ outcome'[t].status = log'[n + 1].content.pddl_status
        /\ \A u \in Threads \ {t} : outcome'[u] = outcome[u]
    BY <1>2, NewRow DEF Returned
  <2>3. ASSUME NEW u \in Threads \ {t}
        PROVE  Len(outcome[u].hash) \in 0..n /\ outcome[u].hash # new
    BY <2>1 DEF ReceiptInv, Genesis
  <2>4. ASSUME NEW u \in Threads
        PROVE  IF outcome'[u].kind = "ok"
               THEN LET i == Len(outcome'[u].hash)
                    IN /\ i \in 1..Len(log')
                       /\ log'[i].hash = outcome'[u].hash
                       /\ log'[i].content.pddl_status = outcome'[u].status
               ELSE outcome'[u].hash = Genesis
    <3>1. CASE u = t
      BY <3>1, <1>2, <2>1, <2>2, NewRow
    <3>2. CASE u # t
      BY <3>2, <1>2, <2>2, NewRow DEF ReceiptInv
    <3>3. QED
      BY <3>1, <3>2
  <2>5. ASSUME NEW u \in Threads, NEW v \in Threads, u # v,
               outcome'[u].kind = "ok"
        PROVE  outcome'[u].hash # outcome'[v].hash
    BY <2>2, <2>3, <2>5 DEF ReceiptInv
  <2>6. QED
    BY <2>4, <2>5 DEF ReceiptInv
<1>3. ASSUME NEW t \in Threads, NEW kind \in {"refused", "failed"}, NEW status,
             log' = log,
             outcome' = [outcome EXCEPT ![t] = Returned(kind, Genesis, status)]
      PROVE  ReceiptInv'
  <2>1. /\ outcome'[t].kind # "ok" /\ outcome'[t].hash = Genesis
        /\ \A u \in Threads \ {t} : outcome'[u] = outcome[u]
    BY <1>3 DEF Returned
  <2>2. \A u \in Threads : outcome[u].kind = "ok" => outcome[u].hash # Genesis
    BY DEF ReceiptInv, Genesis
  <2>3. QED
    BY <1>3, <2>1, <2>2 DEF ReceiptInv
<1>4. ASSUME NEW kept, Restart(kept) PROVE ReceiptInv'
  BY <1>4 DEF Restart, ReceiptInv, NoOutcome
<1>5. QED
  BY <1>1, <1>2, <1>3, <1>4
     DEF Next, Step, ReadLast, AppendFails, AuditEvent, ValidateAndAppend,
         Refuse, Checkpoint, local, Crash, PowerLoss, vars

(* The hash a caller was given names its own row, which is still there     *)
(* with the status it was given for, and no other caller holds that hash.  *)
THEOREM ReceiptsAlwaysHold == ASSUME SingleHandle PROVE Spec => []ReceiptsHold
<1>1. Init => ReceiptInv
  BY DEF Init, ReceiptInv, NoOutcome
<1>2. Base /\ ChainInv /\ ReceiptInv /\ [Next]_vars => ReceiptInv'
  BY ReceiptInductive
<1>3. ReceiptInv => ReceiptsHold
  BY DEF ReceiptInv, ReceiptsHold
<1>4. QED
  BY <1>1, <1>2, <1>3, BaseAlways, ChainAlways, PTL DEF Spec

-----------------------------------------------------------------------------
(* The refinement.                                                         *)

LEMMA AbsInit == Init => Abs!Init
BY DEF Init, Abs!Init, Abs!NoReceipt, get_last_entry, StoredHash, Genesis, NoOutcome

LEMMA AbsStep ==
  ASSUME SingleHandle, Base, ChainInv, [Next]_vars
  PROVE  [Abs!Next]_(Abs!vars)
<1> USE DEF Base, Typed, TypeOK
<1> DEFINE receipts == [t \in Threads |-> outcome[t].hash]
<1>1. CASE UNCHANGED <<log, synced, outcome>>
  BY <1>1 DEF Abs!vars
<1>2. ASSUME NEW t \in Threads, Insert(t) PROVE Abs!Next
  <2>1. get_last_entry(log') = log'[Len(log) + 1].hash
    BY <1>2, NewRow DEF get_last_entry, StoredHash
  <2>2. get_last_entry(log)' = Append(get_last_entry(log), content[t])
    BY <1>2, <2>1, NewRow
  <2>3. receipts' = [receipts EXCEPT ![t] = get_last_entry(log)']
    <3>1. outcome'[t].hash = get_last_entry(log') /\ outcome' \in [Threads -> Outcomes]
          /\ \A u \in Threads \ {t} : outcome'[u] = outcome[u]
      BY <1>2, <2>1, NewRow, TypedInductive DEF Returned
    <3>2. QED
      BY <3>1
  <2>4. synced' = synced
    BY <1>2 DEF Insert
  <2>5. PICK c \in LedgerContent : c = content[t]
    BY <1>2, NewRow
  <2>6. Abs!Record(t, c)
    BY <2>2, <2>3, <2>4, <2>5 DEF Abs!Record
  <2>7. QED
    BY <2>6 DEF Abs!Next
<1>3. ASSUME NEW t \in Threads, NEW kind, NEW status, UNCHANGED <<log, synced>>,
             outcome' = [outcome EXCEPT ![t] = Returned(kind, Genesis, status)]
      PROVE  Abs!Next
  <2>1. receipts' = [receipts EXCEPT ![t] = Genesis]
    BY <1>3 DEF Returned
  <2>2. Abs!Decline(t)
    BY <1>3, <2>1 DEF Abs!Decline, Abs!NoReceipt, Genesis
  <2>3. QED
    BY <2>2 DEF Abs!Next
<1>4. ASSUME NEW kept \in synced..Len(log), Restart(kept) PROVE Abs!Next
  <2> DEFINE head == get_last_entry(log)
  <2>1. /\ Len(log') = kept /\ \A i \in 1..kept : log'[i] = log[i]
        /\ kept \in 0..Len(log)
    BY <1>4, SubSeqProperties DEF Restart
  <2>2. get_last_entry(log') = SubSeq(head, 1, kept)
    <3>1. CASE kept = 0
      BY <3>1, <2>1, LastHashLength DEF get_last_entry, StoredHash, Genesis
    <3>2. CASE kept # 0
      <4>1. get_last_entry(log') = log[kept].hash
        BY <3>2, <2>1 DEF get_last_entry, StoredHash
      <4>2. log[kept].hash \in Seq(LedgerContent) /\ Len(log[kept].hash) = kept
            /\ \A j \in 1..kept : log[kept].hash[j] = log[j].content
        <5>1. kept \in 1..Len(log) /\ log[kept] \in AuditEntry
          BY <2>1, <3>2
        <5>2. QED
          BY <5>1 DEF ChainInv, HashesCover, AuditEntry, Hash
      <4>3. /\ SubSeq(head, 1, kept) \in Seq(LedgerContent)
            /\ Len(SubSeq(head, 1, kept)) = kept
            /\ \A j \in 1..kept : SubSeq(head, 1, kept)[j] = log[j].content
        BY <2>1, LastHashLength, SubSeqProperties
      <4>4. QED
        BY <4>1, <4>2, <4>3, SeqEqual
    <3>3. QED
      BY <3>1, <3>2
  <2>3. receipts' = [t \in Threads |-> Genesis] /\ synced' = synced
    BY <1>4 DEF Restart, NoOutcome
  <2>4. kept \in synced..Len(head)
    BY <2>1, LastHashLength
  <2>5. Abs!Restart
    BY <2>2, <2>3, <2>4 DEF Abs!Restart, Abs!NoReceipt, Genesis
  <2>6. QED
    BY <2>5 DEF Abs!Next
<1>5. CASE Checkpoint
  <2>1. Abs!Sync
    BY <1>5, LastHashLength DEF Checkpoint, local, Abs!Sync
  <2>2. QED
    BY <2>1 DEF Abs!Next
<1>6. QED
  <2>1. Len(log) \in synced..Len(log)
    OBVIOUS
  <2>2. ASSUME NEW t \in Threads, Step(t) PROVE [Abs!Next]_(Abs!vars)
    BY <2>2, <1>1, <1>2, <1>3 DEF Step, ReadLast, AppendFails
  <2>3. ASSUME NEW t \in Threads, NEW r, Refuse(t, r)
        PROVE  [Abs!Next]_(Abs!vars)
    BY <2>3, <1>3 DEF Refuse
  <2>4. QED
    BY <1>1, <1>4, <1>5, <2>1, <2>2, <2>3
       DEF Next, AuditEvent, ValidateAndAppend, Crash, PowerLoss, vars

(* With one handle the ledger implements the abstract append-only log:     *)
(* every insert is one Record whose receipt covers the whole log, and      *)
(* every other step leaves the abstract log alone or loses an unsynced     *)
(* tail.                                                                   *)
THEOREM LedgerImplementsLog == ASSUME SingleHandle PROVE Spec => Refinement
<1>1. Base /\ ChainInv /\ [Next]_vars => [Abs!Next]_(Abs!vars)
  BY SingleHandle, AbsStep
<1>2. QED
  BY <1>1, AbsInit, BaseAlways, ChainAlways, PTL DEF Spec, Refinement, Abs!Spec
=============================================================================

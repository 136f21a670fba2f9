-------------------------------- MODULE PDDL --------------------------------
(***************************************************************************)
(* The compliance engine of netsentinel-core (pddl.rs): three rules, each  *)
(* a pure function of an action and its context, and the pipeline that     *)
(* folds their results into one verdict.                                   *)
(*                                                                         *)
(* The rule texts are the French messages of the code reduced to a short   *)
(* name each.  A scope entry or a target is a record: an "ip" carries its  *)
(* address bits, a "net" the bits of its prefix, and every kind carries    *)
(* the dot-separated labels of its text, which is what the domain-suffix   *)
(* comparison looks at.  Trimming and letter case are left out.            *)
(***************************************************************************)
EXTENDS Naturals, Sequences, SequencesExt

CONSTANT NULL        \* None in an Option field, or a string that is blank

ActionTypes == {"Discover", "Scan", "Capture", "SessionCreate",
                "ReportGenerate", "Export", "Unknown"}

PDDLStatus == {"COMPLIANT", "PARTIAL", "NON_COMPLIANT", "ERROR"}
RuleNames  == {"aggregate", "RE-01", "RE-02a", "RE-02b"}
Violations == {"no_consent", "consent_in_future", "no_target", "no_scope",
               "out_of_scope", "already_active", "planned_too_long", "expired"}

PDDLResult == [status         : PDDLStatus,
               rule_name      : RuleNames,
               rule_violation : Violations \cup {NULL}]

compliant(rule) ==
  [status |-> "COMPLIANT", rule_name |-> rule, rule_violation |-> NULL]
non_compliant(rule, why) ==
  [status |-> "NON_COMPLIANT", rule_name |-> rule, rule_violation |-> why]
partial(rule, why) ==
  [status |-> "PARTIAL", rule_name |-> rule, rule_violation |-> why]

Severity == [s \in PDDLStatus |->
  CASE s = "COMPLIANT" -> 0 [] s = "PARTIAL" -> 1
    [] s = "NON_COMPLIANT" -> 2 [] OTHER -> 3]

is_worse_than(s, other) == Severity[s] > Severity[other]

-----------------------------------------------------------------------------
(* RE-01: explicit consent.                                                *)

RE01(action, ctx, now) ==
  IF ~action.requires_consent THEN compliant("RE-01")
  ELSE IF ctx.consent_hash = NULL
    THEN non_compliant("RE-01", "no_consent")
  ELSE IF ctx.consent_timestamp # NULL /\ ctx.consent_timestamp > now
    THEN non_compliant("RE-01", "consent_in_future")
  ELSE compliant("RE-01")

(* RE-02a: the target lies inside the authorised scope.  Two network forms *)
(* are compared as networks and by nothing else; any other pair falls      *)
(* through to the comparison of the texts' last labels.                    *)

Comparable(target, scope) == scope.kind = "net" /\ target.kind \in {"ip", "net"}

match_target(target, scope) ==
  \/ target = scope
  \/ /\ Comparable(target, scope)
     /\ IsPrefix(scope.bits, target.bits)
  \/ /\ ~Comparable(target, scope)
     /\ IsStrictSuffix(scope.labels, target.labels)

RE02Scope(action, ctx) ==
  IF ~action.requires_scope THEN compliant("RE-02a")
  ELSE IF ctx.target = NULL THEN partial("RE-02a", "no_target")
  ELSE IF ctx.authorized_scope = {} THEN non_compliant("RE-02a", "no_scope")
  ELSE IF \E scope \in ctx.authorized_scope : match_target(ctx.target, scope)
    THEN compliant("RE-02a")
  ELSE non_compliant("RE-02a", "out_of_scope")

(* RE-02b: one capture at a time, and none longer than the session allows. *)
RE02Timeout(action, ctx, now) ==
  LET exclusive == action.requires_unicity \/ action.action_type = "Capture"
      timed     == action.action_type \in {"Capture", "Scan"}
      max       == ctx.max_session_duration_seconds
  IN IF exclusive /\ ctx.session_already_active
       THEN non_compliant("RE-02b", "already_active")
     ELSE IF exclusive /\ ctx.planned_seconds # NULL /\ ctx.planned_seconds > max
       THEN non_compliant("RE-02b", "planned_too_long")
     ELSE IF /\ timed /\ ctx.session_started_at # NULL
             /\ now > ctx.session_started_at + max
       THEN non_compliant("RE-02b", "expired")
     ELSE compliant("RE-02b")

-----------------------------------------------------------------------------
(* One turn of the pipeline's loop: the worst status so far wins, and the  *)
(* first refused rule gives its name and its reason.                       *)

(* Mutant: the last rule's status wins.                                    *)
Fold_LastStatus(agg, res) ==
  LET names == res.status = "NON_COMPLIANT" /\ agg.rule_violation = NULL
  IN [status         |-> res.status,
      rule_name      |-> IF names THEN res.rule_name ELSE agg.rule_name,
      rule_violation |-> IF names THEN res.rule_violation ELSE agg.rule_violation]

Fold(agg, res) ==
  LET names == res.status = "NON_COMPLIANT" /\ agg.rule_violation = NULL
  IN [status         |-> IF is_worse_than(res.status, agg.status)
                           THEN res.status ELSE agg.status,
      rule_name      |-> IF names THEN res.rule_name ELSE agg.rule_name,
      rule_violation |-> IF names THEN res.rule_violation ELSE agg.rule_violation]

validate(action, ctx, now) ==
  Fold(Fold(Fold(compliant("aggregate"), RE01(action, ctx, now)),
            RE02Scope(action, ctx)),
       RE02Timeout(action, ctx, now))

(* What a caller that denies non-compliant actions refuses.                *)
Denied(result) == result.status \in {"NON_COMPLIANT", "ERROR"}
=============================================================================

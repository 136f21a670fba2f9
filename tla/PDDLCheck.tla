----------------------------- MODULE PDDLCheck ------------------------------
(***************************************************************************)
(* The verdicts of PDDL.tla over bounded inputs, against what the three    *)
(* rules promise together.  One behaviour is one call of validate: an      *)
(* action, a context and a clock reading are chosen, then judged.          *)
(***************************************************************************)
EXTENDS PDDL, FiniteSets

CONSTANTS Types,      \* the action types tried
          Scopes,     \* scope entries a session may authorise
          Targets,    \* targets an action may name
          MaxClock,   \* last instant tried
          Limit       \* max_session_duration_seconds

ASSUME RulesAssumption ==
  /\ MaxClock \in Nat /\ Limit \in Nat
  /\ NULL \notin PDDLResult /\ NULL \notin Violations

VARIABLES action, ctx, now, result
call == <<action, ctx, now, result>>

Instants == {NULL} \cup 0..MaxClock

Actions == [action_type      : Types,
            requires_consent : BOOLEAN,
            requires_scope   : BOOLEAN,
            requires_unicity : BOOLEAN]

Contexts == [authorized_scope             : {S \in SUBSET Scopes : Cardinality(S) <= 2},
             consent_hash                 : {NULL, "sha256"},
             consent_timestamp            : Instants,
             target                       : {NULL} \cup Targets,
             session_started_at           : Instants,
             max_session_duration_seconds : {Limit},
             session_already_active       : BOOLEAN,
             planned_seconds              : {NULL, Limit, Limit + 1}]

Asked == /\ action \in Actions
         /\ ctx \in Contexts
         /\ now \in 0..MaxClock
         /\ result = NULL

Judge == /\ result = NULL
         /\ result' = validate(action, ctx, now)
         /\ UNCHANGED <<action, ctx, now>>

JudgeSpec == Asked /\ [][Judge]_call

Judged == result # NULL

-----------------------------------------------------------------------------
(* What the rules promise, stated without the pipeline and without their   *)
(* order.                                                                  *)

Consented ==
  action.requires_consent =>
    /\ ctx.consent_hash # NULL
    /\ ctx.consent_timestamp = NULL \/ ctx.consent_timestamp <= now

Covered(target) == \E scope \in ctx.authorized_scope : match_target(target, scope)

InScope == action.requires_scope /\ ctx.target # NULL => Covered(ctx.target)

InTime ==
  /\ action.requires_unicity \/ action.action_type = "Capture" =>
       /\ ~ctx.session_already_active
       /\ ctx.planned_seconds = NULL \/ ctx.planned_seconds <= Limit
  /\ action.action_type \in {"Capture", "Scan"} =>
       ctx.session_started_at = NULL \/ now <= ctx.session_started_at + Limit

MatchesRules(verdict) ==
  LET ok == Consented /\ InScope /\ InTime
  IN /\ Denied(verdict) <=> ~ok
     /\ verdict.status = "COMPLIANT" <=>
          ok /\ (action.requires_scope => ctx.target # NULL)
     /\ verdict.rule_violation # NULL <=> ~ok
     /\ verdict.rule_name = IF ok THEN "aggregate"
                            ELSE IF ~Consented THEN "RE-01"
                            ELSE IF ~InScope THEN "RE-02a" ELSE "RE-02b"

(* The verdict is one a reader of the rules would give: an action is       *)
(* refused exactly when it lacks a consent that is due, names a target     *)
(* outside the scope or breaks the time and unicity rule, and of the rest  *)
(* only one with no target to look at is PARTIAL.  A refusal says why and  *)
(* blames the first rule that is broken, whatever is folded around it      *)
(* (pddl.rs:383-412); anything accepted carries no reason at all.          *)
VerdictMatchesRules == Judged => MatchesRules(result)
=============================================================================

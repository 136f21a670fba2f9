------------------------------ MODULE MCLedger ------------------------------
EXTENDS Ledger

Scan == [action_type |-> "Scan", requires_consent |-> TRUE,
         requires_scope |-> TRUE, requires_unicity |-> FALSE]

Subnet == [kind |-> "net", bits |-> <<1>>,    labels |-> <<1>>]
Inside == [kind |-> "ip",  bits |-> <<1, 0>>, labels |-> <<1, 0>>]

Context(hash, target) ==
  [authorized_scope |-> {Subnet}, consent_hash |-> hash,
   consent_timestamp |-> NULL, target |-> target,
   session_started_at |-> NULL, max_session_duration_seconds |-> 1800,
   session_already_active |-> FALSE, planned_seconds |-> NULL]

Request(ctx) == [action |-> Scan, ctx |-> ctx, now |-> 0]

(* One request of each verdict: in scope, without consent, without target. *)
MCRequests == {Request(Context("sha256", Inside)), Request(Context(NULL, Inside)),
               Request(Context("sha256", NULL))}

OneHandle == [t \in Threads |-> CHOOSE h \in Handles : TRUE]
=============================================================================

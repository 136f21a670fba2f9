------------------------------- MODULE Ledger -------------------------------
(***************************************************************************)
(* The audit ledger of netsentinel-core (ledger.rs) as concurrent callers  *)
(* see it.  An AuditLedger is a handle: a std Mutex around one SQLite      *)
(* connection.  append holds the mutex of its handle over a SELECT of the  *)
(* last row and an INSERT of the next one, each a transaction of its own,  *)
(* so two handles on one file interleave between the two.  The database    *)
(* runs in WAL mode with synchronous = NORMAL: a killed process loses      *)
(* nothing that was committed, a power cut may lose what no checkpoint     *)
(* has synced yet.                                                         *)
(***************************************************************************)
EXTENDS PDDL

CONSTANTS Threads,     \* callers
          Handles,     \* open AuditLedger values on the one file
          HandleOf,    \* the handle each caller uses
          Requests,    \* what validate_and_append may be asked
          MaxLog,      \* bound: no call starts once the log is this long
          MaxRestarts  \* bound on crashes and power cuts

AIConfidence == {"HIGH", "LOW", "BLOCKED"}

(* The hashed columns the properties tell apart.  A validated action is    *)
(* named by result.rule_name, an AI call by its function.                  *)
LedgerContent ==
  [action              : RuleNames \cup {"summarize_findings"},
   pddl_status         : PDDLStatus \cup AIConfidence,
   pddl_rule_violation : Violations \cup {NULL}]

INSTANCE HashChain WITH Content <- LedgerContent

ASSUME LedgerAssumption ==
  /\ HandleOf \in [Threads -> Handles]
  /\ NULL \notin Threads /\ NULL \notin Violations /\ NULL \notin LedgerContent
  /\ MaxLog \in Nat /\ MaxRestarts \in Nat

VARIABLES log,       \* table audit_log, in id order
          synced,    \* how many rows have reached the disk for certain
          mutex,     \* per handle: the caller holding conn's mutex, or NULL
          pc,        \* per caller: where its append stands
          content,   \* per caller: the columns it is about to insert
          prev,      \* per caller: the hash it read as its predecessor
          outcome,   \* per caller: what its last call returned
          restarts
vars == <<log, synced, mutex, pc, content, prev, outcome, restarts>>
local == <<pc, content, prev, outcome>>

PC == {"idle", "locked", "read"}

Outcomes == [kind : {"none", "ok", "refused", "failed"}, hash : Hash,
             status : PDDLStatus \cup AIConfidence \cup {NULL}]

NoOutcome == [kind |-> "none", hash |-> Genesis, status |-> NULL]
Returned(kind, hash, status) == [kind |-> kind, hash |-> hash, status |-> status]

TypeOK ==
  /\ log \in Seq(AuditEntry)
  /\ synced \in 0..Len(log)
  /\ mutex \in [Handles -> Threads \cup {NULL}]
  /\ pc \in [Threads -> PC]
  /\ content \in [Threads -> LedgerContent \cup {NULL}]
  /\ prev \in [Threads -> Hash]
  /\ outcome \in [Threads -> Outcomes]
  /\ restarts \in 0..MaxRestarts

Init ==
  /\ log = <<>>
  /\ synced = 0
  /\ mutex = [h \in Handles |-> NULL]
  /\ pc = [t \in Threads |-> "idle"]
  /\ content = [t \in Threads |-> NULL]
  /\ prev = [t \in Threads |-> Genesis]
  /\ outcome = [t \in Threads |-> NoOutcome]
  /\ restarts = 0

-----------------------------------------------------------------------------
(* append, in the three steps another handle can fall between.             *)

Lock(t, c) ==
  /\ pc[t] = "idle"
  /\ mutex[HandleOf[t]] = NULL
  /\ Len(log) < MaxLog
  /\ mutex' = [mutex EXCEPT ![HandleOf[t]] = t]
  /\ pc' = [pc EXCEPT ![t] = "locked"]
  /\ content' = [content EXCEPT ![t] = c]

Unlock(t) ==
  /\ mutex' = [mutex EXCEPT ![HandleOf[t]] = NULL]
  /\ pc' = [pc EXCEPT ![t] = "idle"]
  /\ content' = [content EXCEPT ![t] = NULL]

ReadLast(t) ==
  /\ pc[t] = "locked"
  /\ prev' = [prev EXCEPT ![t] = get_last_entry(log)]
  /\ pc' = [pc EXCEPT ![t] = "read"]
  /\ UNCHANGED <<log, synced, mutex, content, outcome, restarts>>

Insert(t) ==
  /\ pc[t] = "read"
  /\ LET row == Chained(prev[t], content[t])
     IN /\ log' = Append(log, row)
        /\ outcome' = [outcome EXCEPT ![t] =
                         Returned("ok", row.hash, content[t].pddl_status)]
  /\ Unlock(t)
  /\ UNCHANGED <<synced, prev, restarts>>

(* Mutant: the error of the INSERT is swallowed.                           *)
AppendFails_SaysOk(t) ==
  /\ pc[t] = "read"
  /\ outcome' = [outcome EXCEPT ![t] =
                   Returned("ok", calculate_hash(prev[t], content[t]),
                            content[t].pddl_status)]
  /\ Unlock(t)
  /\ UNCHANGED <<log, synced, prev, restarts>>

(* Mutant: an error is retried, under the mutex, for as long as it lasts.  *)
AppendFails_Retries(t) ==
  /\ pc[t] = "read"
  /\ pc' = [pc EXCEPT ![t] = "locked"]
  /\ UNCHANGED <<log, synced, mutex, content, prev, outcome, restarts>>

(* The SELECT or the INSERT returns an SQLite error (disk full, busy).     *)
AppendFails(t) ==
  /\ pc[t] \in {"locked", "read"}
  /\ outcome' = [outcome EXCEPT ![t] = Returned("failed", Genesis, NULL)]
  /\ Unlock(t)
  /\ UNCHANGED <<log, synced, prev, restarts>>

(* A bare append: GeminiClient::audit_event.                               *)
AuditEvent(t, confidence) ==
  /\ Lock(t, [action              |-> "summarize_findings",
              pddl_status         |-> confidence,
              pddl_rule_violation |-> NULL])
  /\ UNCHANGED <<log, synced, prev, outcome, restarts>>

(* to_ledger_columns keeps the rule's violation; the action column is the  *)
(* result's rule name.                                                     *)
Columns(result) ==
  [action              |-> result.rule_name,
   pddl_status         |-> result.status,
   pddl_rule_violation |-> result.rule_violation]

ValidateAndAppend(t, r, deny_non_compliant) ==
  LET result == validate(r.action, r.ctx, r.now)
  IN /\ pc[t] = "idle"
     /\ ~(deny_non_compliant /\ Denied(result))
     /\ Lock(t, Columns(result))
     /\ UNCHANGED <<log, synced, prev, outcome, restarts>>

Refuse(t, r) ==
  LET result == validate(r.action, r.ctx, r.now)
  IN /\ pc[t] = "idle"
     /\ Denied(result)
     /\ outcome' = [outcome EXCEPT ![t] =
                      Returned("refused", Genesis, result.status)]
     /\ UNCHANGED <<log, synced, mutex, pc, content, prev, restarts>>

-----------------------------------------------------------------------------
(* Every process with the file open dies; the mutexes die with it.         *)
Restart(kept) ==
  /\ restarts < MaxRestarts
  /\ restarts' = restarts + 1
  /\ log' = SubSeq(log, 1, kept)
  /\ mutex' = [h \in Handles |-> NULL]
  /\ pc' = [t \in Threads |-> "idle"]
  /\ content' = [t \in Threads |-> NULL]
  /\ prev' = [t \in Threads |-> Genesis]
  /\ outcome' = [t \in Threads |-> NoOutcome]
  /\ UNCHANGED synced

Crash == Restart(Len(log))

(* Mutant: a power cut takes rows that were synced.                        *)
PowerLoss_TakesSynced == \E kept \in 0..Len(log) : Restart(kept)

PowerLoss == \E kept \in synced..Len(log) : Restart(kept)

(* SQLite checkpoints the WAL on its own and syncs the file when it does.  *)
Checkpoint ==
  /\ synced < Len(log)
  /\ synced' = Len(log)
  /\ UNCHANGED <<log, mutex, local, restarts>>

-----------------------------------------------------------------------------
Step(t) == ReadLast(t) \/ Insert(t) \/ AppendFails(t)

Next ==
  \/ \E t \in Threads :
       \/ Step(t)
       \/ \E confidence \in AIConfidence : AuditEvent(t, confidence)
       \/ \E r \in Requests, deny \in BOOLEAN : ValidateAndAppend(t, r, deny)
       \/ \E r \in Requests : Refuse(t, r)
  \/ Checkpoint
  \/ Crash
  \/ PowerLoss

Spec == Init /\ [][Next]_vars

(* A thread inside append blocks on nothing but the local file.            *)
FairSpec == Spec /\ \A t \in Threads : WF_vars(Step(t))

-----------------------------------------------------------------------------
Holding(t) == pc[t] # "idle"

(* One caller at a time is between SELECT and INSERT of a handle, and it   *)
(* is the one the mutex names: no error path keeps the mutex (ledger.rs    *)
(* append, the guard's scope).                                             *)
MutexDiscipline ==
  /\ \A t \in Threads : Holding(t) <=> mutex[HandleOf[t]] = t
  /\ \A h \in Handles : mutex[h] # NULL => HandleOf[mutex[h]] = h

(* Every row of a ledger that only append ever wrote passes the walk of    *)
(* verify_integrity, through concurrent callers, failed inserts, crashes   *)
(* and power cuts (ledger.rs:112-164 against 209-278).                     *)
ChainIntact == verify_integrity(log) = 0

(* The hash an append returned stands for the whole log up to its entry:   *)
(* while no power is lost, the row it names is there, holds that hash and  *)
(* the status that was returned, and no other caller was given it.         *)
ReceiptsHold ==
  \A t \in Threads : outcome[t].kind = "ok" =>
    /\ \E i \in 1..Len(log) : /\ log[i].hash = outcome[t].hash
                              /\ log[i].content.pddl_status = outcome[t].status
    /\ \A u \in Threads \ {t} : outcome[u].hash # outcome[t].hash

(* A row something other than append may have left in the file: one that   *)
(* quotes any hashes there are, or one whose hash was computed anew.       *)
Forgeries ==
  LET hashes   == {StoredHash(log, i) : i \in 0..Len(log)}
      contents == {log[i].content : i \in 1..Len(log)}
  IN [content : contents, prev_hash : hashes, hash : hashes]
       \cup {Chained(h, c) : h \in hashes, c \in contents}

(* Where the walk stops after row i of the log was replaced.               *)
Detection(i, row) ==
  CASE RowFails([log EXCEPT ![i] = row], i) -> i
    [] OTHER                                -> IF i = Len(log) THEN 0 ELSE i + 1

(* One row altered or removed behind the ledger's back: the walk stops at  *)
(* that row, or at the next when the altered row is consistent in itself.  *)
(* It never runs past it, and the only changes it cannot see are at the    *)
(* end: a last row append could have written, and a shorter log (the loop  *)
(* of ledger.rs:239-275).                                                  *)
TamperingFound ==
  \A i \in 1..Len(log) :
    /\ \A row \in Forgeries \ {log[i]} :
         verify_integrity([log EXCEPT ![i] = row]) = Detection(i, row)
    /\ i < Len(log) => verify_integrity(RemoveAt(log, i)) = i

(* Nothing rewrites a row: a step adds at most one row at the end, and the *)
(* only loss is of an unsynced tail, in a restart.                         *)
AppendOnly ==
  [][\/ IsPrefix(log, log') /\ Len(log') <= Len(log) + 1
     \/ IsPrefix(log', log) /\ Len(log') >= synced /\ restarts' # restarts]_vars

(* Every append that took the mutex comes back and frees it.               *)
AppendReturns == \A t \in Threads : Holding(t) ~> ~Holding(t)

-----------------------------------------------------------------------------
(* With the last hash read as the sequence of contents it covers, the      *)
(* ledger of one handle is the abstract log.                               *)
Abs == INSTANCE LedgerAbs WITH
         Content <- LedgerContent,
         entries <- get_last_entry(log),
         durable <- synced,
         receipt <- [t \in Threads |-> outcome[t].hash]

Refinement == Abs!Spec
=============================================================================

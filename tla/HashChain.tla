------------------------------ MODULE HashChain -----------------------------
(***************************************************************************)
(* The hash chain of the audit ledger (ledger.rs): how an entry is linked  *)
(* to its predecessor and how verify_integrity walks the chain.            *)
(*                                                                         *)
(* A hash is the sequence of contents it covers, so that it is injective   *)
(* and depends on every earlier entry, as SHA-256(prev_hash || content)    *)
(* is taken to do.  The content of an entry stands for the eight columns   *)
(* that are hashed, the timestamp included.  Rows are numbered by an       *)
(* AUTOINCREMENT key and none is deleted, so an entry's id is its place.   *)
(***************************************************************************)
EXTENDS Integers, Sequences, FiniteSetsExt

CONSTANT Content      \* what an entry may say

Hash == Seq(Content)

Genesis == <<>>       \* sixty-four zeros

calculate_hash(prev, content) == Append(prev, content)

AuditEntry == [content : Content, prev_hash : Hash, hash : Hash]

Chained(prev, content) ==
  [content |-> content, prev_hash |-> prev, hash |-> calculate_hash(prev, content)]

(* The hash the next entry must name as its predecessor: the stored hash   *)
(* of the last row before position i.                                      *)
StoredHash(log, i) == IF i = 0 THEN Genesis ELSE log[i].hash

(* Mutant: the query returns the row before the last.                      *)
get_last_entry_Before(log) == StoredHash(log, IF log = <<>> THEN 0 ELSE Len(log) - 1)

get_last_entry(log) == StoredHash(log, Len(log))

(* Mutant: the walk recomputes each hash and forgets the links.            *)
RowFails_HashOnly(log, i) ==
  log[i].hash # calculate_hash(log[i].prev_hash, log[i].content)

(* A row fails the walk when its predecessor is not the row before it, or  *)
(* when its own hash is not the one its columns give.                      *)
RowFails(log, i) ==
  \/ log[i].prev_hash # StoredHash(log, i - 1)
  \/ log[i].hash # calculate_hash(log[i].prev_hash, log[i].content)

FailingRows(log) == {i \in 1..Len(log) : RowFails(log, i)}

(* The walk stops at the first failing row; 0 is the Ok((true, None)) of   *)
(* the code.                                                               *)
verify_integrity(log) ==
  IF FailingRows(log) = {} THEN 0 ELSE Min(FailingRows(log))

Intact(log) == \A i \in 1..Len(log) : ~RowFails(log, i)
=============================================================================

------------------------------ MODULE LedgerAbs -----------------------------
(***************************************************************************)
(* What the audit ledger promises its callers: one sequence of entries     *)
(* that grows by one entry at a time; an append hands back a receipt that  *)
(* covers every entry up to its own, so that no two appends ever hold the  *)
(* same receipt; a restart loses at most the entries not yet on disk.      *)
(***************************************************************************)
EXTENDS Integers, Sequences

CONSTANTS Content, Threads

VARIABLES entries,   \* the contents recorded so far
          durable,   \* how many of them are on disk
          receipt    \* what each caller's last append returned
vars == <<entries, durable, receipt>>

NoReceipt == <<>>

Init == /\ entries = <<>>
        /\ durable = 0
        /\ receipt = [t \in Threads |-> NoReceipt]

Record(t, c) ==
  /\ entries' = Append(entries, c)
  /\ receipt' = [receipt EXCEPT ![t] = entries']
  /\ UNCHANGED durable

(* A call that records nothing: it was refused, or its insert failed.      *)
Decline(t) ==
  /\ receipt' = [receipt EXCEPT ![t] = NoReceipt]
  /\ UNCHANGED <<entries, durable>>

Sync == /\ durable' = Len(entries)
        /\ UNCHANGED <<entries, receipt>>

Restart ==
  /\ \E k \in durable..Len(entries) : entries' = SubSeq(entries, 1, k)
  /\ receipt' = [t \in Threads |-> NoReceipt]
  /\ UNCHANGED durable

Next == \/ \E t \in Threads : Decline(t) \/ \E c \in Content : Record(t, c)
        \/ Sync
        \/ Restart

Spec == Init /\ [][Next]_vars
=============================================================================

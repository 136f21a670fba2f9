---------------------------- MODULE SessionStore ----------------------------
(***************************************************************************)
(* The session database of netsentinel-core (session.rs): sessions, the    *)
(* findings and hosts recorded under them, and the application settings.   *)
(* Every method takes the connection's mutex for one SQL statement, so     *)
(* each is one action here; save_settings is five of them.  The module     *)
(* gives the actions on the store alone; Workspace.tla composes them with  *)
(* the pages that call them.                                               *)
(*                                                                         *)
(* Instants are days.  A row of session_findings or session_hosts is       *)
(* reduced to its session and the scan result it holds.                    *)
(***************************************************************************)
EXTENDS Integers, Sequences, FiniteSetsExt

CONSTANTS MaxSessions,   \* bound on sessions created
          MaxClock,      \* bound on the clock, in days
          Retentions,    \* retention periods purge_expired is called with
          MaxSaves,      \* bound on calls of save_settings
          KeyCount,      \* keys save_settings writes, in their order (5)
          NULL

SessionRow == [status : {"active", "completed"}, created_at : 0..MaxClock]

ASSUME StoreAssumption == /\ MaxSessions \in Nat /\ MaxClock \in Nat /\ MaxSaves \in Nat
                          /\ KeyCount \in Nat \ {0}
                          /\ Retentions \subseteq Nat
                          /\ NULL \notin Nat \cup SessionRow

Ids    == 1..MaxSessions
Tables == {"findings", "hosts"}

Keys   == 1..KeyCount

VARIABLES sessions,   \* table sessions: status and created_at, or NULL
          next_id,    \* AUTOINCREMENT: an id is never given twice
          rows,       \* tables session_findings and session_hosts
          settings,   \* table app_settings: the save each value comes from, 0 if unset
          saves,      \* history: calls of save_settings, to name each
          clock
store == <<sessions, next_id, rows, settings, saves, clock>>

StoreInit ==
  /\ sessions = [i \in Ids |-> NULL] /\ next_id = 1
  /\ rows = {}
  /\ settings = [k \in Keys |-> 0] /\ saves = 0
  /\ clock = 0

-----------------------------------------------------------------------------
Stored == {i \in Ids : sessions[i] # NULL}
Active == {i \in Stored : sessions[i].status = "active"}

create_session ==
  /\ next_id \in Ids
  /\ sessions' = [sessions EXCEPT ![next_id] =
                    [status |-> "active", created_at |-> clock]]
  /\ next_id' = next_id + 1
  /\ UNCHANGED <<rows, settings, saves, clock>>

(* The newest active session: ORDER BY id DESC LIMIT 1.                    *)
get_active_session == IF Active = {} THEN NULL ELSE Max(Active)

(* An UPDATE of an id that is not there changes nothing.                   *)
complete_session(id) ==
  /\ sessions' = IF id \in Stored THEN [sessions EXCEPT ![id].status = "completed"]
                 ELSE sessions
  /\ UNCHANGED <<next_id, rows, settings, saves, clock>>

(* add_finding and add_host_full: the foreign key refuses a row whose      *)
(* session is gone.                                                        *)
add(row) == /\ row.session_id \in Stored
            /\ rows' = rows \cup {row}
            /\ UNCHANGED <<sessions, next_id, settings, saves, clock>>

(* get_findings and get_hosts.                                             *)
recorded(table, id) == {r \in rows : r.table = table /\ r.session_id = id}

(* Mutant: the age decides alone.                                          *)
Expired_AnyStatus(retention_days) ==
  {i \in Stored : sessions[i].created_at < clock - retention_days}

Expired(retention_days) ==
  {i \in Stored : /\ sessions[i].created_at < clock - retention_days
                  /\ sessions[i].status # "active"}

(* Mutant: the rows of a purged session stay (foreign_keys off).           *)
purge_expired_NoCascade(retention_days) ==
  /\ sessions' = [i \in Ids |-> IF i \in Expired(retention_days) THEN NULL
                                ELSE sessions[i]]
  /\ UNCHANGED <<next_id, rows, settings, saves, clock>>

(* The rows go with their session: ON DELETE CASCADE.                      *)
purge_expired(retention_days) ==
  LET gone == Expired(retention_days)
  IN /\ sessions' = [i \in Ids |-> IF i \in gone THEN NULL ELSE sessions[i]]
     /\ rows' = {r \in rows : r.session_id \notin gone}
     /\ UNCHANGED <<next_id, settings, saves, clock>>

set_setting(key) ==
  /\ settings' = [settings EXCEPT ![key] = saves]
  /\ UNCHANGED <<sessions, next_id, rows, saves, clock>>

NextDay == /\ clock < MaxClock
           /\ clock' = clock + 1
           /\ UNCHANGED <<sessions, next_id, rows, settings, saves>>
=============================================================================

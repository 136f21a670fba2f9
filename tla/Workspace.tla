------------------------------ MODULE Workspace -----------------------------
(***************************************************************************)
(* The application around the session store: the discovery page            *)
(* (views/discover.rs), the audit page (views/scan.rs) and the settings    *)
(* page (views/settings.rs).  A scan is an asynchronous call of a daemon;  *)
(* what follows its answer runs without an await, so on the one thread of  *)
(* the main loop nothing else of the application comes between.  The audit *)
(* page's daemon is ScanDaemon.tla; of the discovery daemon only the       *)
(* number of hosts in an answer matters here.  Sessions are created,       *)
(* completed and purged by callers of the library outside the main loop:   *)
(* no page of this code does it.                                           *)
(***************************************************************************)
EXTENDS SessionStore, ScanDaemon

CONSTANTS MaxItems,      \* bound on the results of one scan
          MaxScans,      \* bound on scans started
          MaxWork,       \* bound on scans started and settings saved, together
          MaxCrashes     \* bound on deaths of the application

ASSUME WorkspaceAssumption == /\ MaxItems \in Nat /\ MaxScans \in Nat
                              /\ MaxWork \in Nat /\ MaxCrashes \in Nat
                              /\ Calls = 1..MaxScans

VARIABLES page,       \* per page (by the table it fills): its button and scan
          batch,      \* the results being stored by the main loop, or NULL
          saving,     \* the key save_settings writes next, or NULL
          saved,      \* what the last save_settings returned
          scans,      \* history: scans started, to name each
          current,    \* per page, the scan it awaits
          crashes
pages == <<page, batch, saving, saved, scans, current, crashes>>
vars  == <<store, pages, daemon>>

Batch == [table : Tables, scan : Calls, session_id : Ids, item : 1..MaxItems,
          of : 1..MaxItems]

Row == [table : Tables, scan : Calls, session_id : Ids, item : 1..MaxItems]

TypeOK ==
  /\ sessions \in [Ids -> SessionRow \cup {NULL}] /\ next_id \in 1..(MaxSessions + 1)
  /\ rows \subseteq Row
  /\ settings \in [Keys -> 0..MaxSaves] /\ saves \in 0..MaxSaves
  /\ clock \in 0..MaxClock
  /\ page \in [Tables -> {"ready", "scanning", "storing"}]
  /\ current \in [Tables -> 0..MaxScans]
  /\ batch \in Batch \cup {NULL}
  /\ saving \in Keys \cup {NULL} /\ saved \in {"none", "ok", "error"}
  /\ scans \in 0..MaxScans /\ crashes \in 0..MaxCrashes
  /\ phase \in [Calls -> Awaiting \cup {"idle", "answered", "error"}]
  /\ children \subseteq {Child(c, tool) : c \in Calls, tool \in Awaiting}
  /\ findings \in [Calls -> Seq(Finding)]
  /\ printed \in [Calls -> NmapOutputs \cup {<<>>}]

Init ==
  /\ StoreInit /\ DaemonInit
  /\ page = [p \in Tables |-> "ready"]
  /\ batch = NULL
  /\ saving = NULL /\ saved = "none"
  /\ scans = 0 /\ current = [p \in Tables |-> 0]
  /\ crashes = 0

MayWork == scans + saves < MaxWork

(* The main loop is between two handlers.                                  *)
LoopFree == batch = NULL /\ saving = NULL

-----------------------------------------------------------------------------
(* The call behind a click: the audit page's reaches its daemon, if there  *)
(* is a bus and a service.                                                 *)
CallDaemon(p, c) == \/ p = "findings" /\ (deep_scan(c) \/ NmapFails(c))
                    \/ UNCHANGED daemon

(* Mutant: the button stays sensitive.                                     *)
ScanClicked_StaysSensitive(p) ==
  /\ LoopFree
  /\ scans < MaxScans /\ MayWork
  /\ scans' = scans + 1
  /\ current' = [current EXCEPT ![p] = scans']
  /\ page' = [page EXCEPT ![p] = "scanning"]
  /\ CallDaemon(p, scans')
  /\ UNCHANGED <<store, batch, saving, saved, crashes>>

(* The button goes insensitive and the daemon is called.                   *)
ScanClicked(p) ==
  /\ LoopFree /\ page[p] = "ready"
  /\ scans < MaxScans /\ MayWork
  /\ scans' = scans + 1
  /\ current' = [current EXCEPT ![p] = scans']
  /\ page' = [page EXCEPT ![p] = "scanning"]
  /\ CallDaemon(p, scans')
  /\ UNCHANGED <<store, batch, saving, saved, crashes>>

(* The call fails on its way or in the daemon.                             *)
ScanFails(p) ==
  /\ LoopFree /\ page[p] = "scanning"
  /\ p = "hosts" \/ phase[current[p]] \in {"idle", "error"}
  /\ page' = [page EXCEPT ![p] = "ready"]
  /\ UNCHANGED <<store, daemon, batch, saving, saved, scans, current, crashes>>

Answered == {c \in Calls : phase[c] = "answered"}

(* How many results an answer may hold.                                    *)
Answer(p) == IF p = "hosts" THEN 0..MaxItems
             ELSE {Len(findings[c]) : c \in Answered \cap {current[p]}}

(* The answer: the active session is the one of this moment, not of the    *)
(* click; without one, or without a result, nothing is stored.             *)
ScanAnswered(p, count) ==
  /\ LoopFree /\ page[p] = "scanning" /\ count \in Answer(p)
  /\ IF get_active_session = NULL \/ count = 0
       THEN /\ page' = [page EXCEPT ![p] = "ready"]
            /\ UNCHANGED batch
       ELSE /\ batch' = [table |-> p, scan |-> current[p], item |-> 1, of |-> count,
                         session_id |-> get_active_session]
            /\ page' = [page EXCEPT ![p] = "storing"]
  /\ UNCHANGED <<store, daemon, saving, saved, scans, current, crashes>>

(* Mutant: the loop ends and forgets the button.                           *)
Advance_NoButton ==
  /\ batch' = IF batch.item < batch.of THEN [batch EXCEPT !.item = @ + 1] ELSE NULL
  /\ UNCHANGED <<daemon, page, saving, saved, scans, current, crashes>>

(* The loop goes on after an error as after a success; after the last      *)
(* result the button is offered again.                                     *)
Advance ==
  /\ IF batch.item < batch.of
       THEN batch' = [batch EXCEPT !.item = @ + 1] /\ UNCHANGED page
       ELSE batch' = NULL /\ page' = [page EXCEPT ![batch.table] = "ready"]
  /\ UNCHANGED <<daemon, saving, saved, scans, current, crashes>>

(* Mutant: each result asks again which session is active.                 *)
StoreItem_Reread ==
  /\ batch # NULL /\ get_active_session # NULL
  /\ add([table |-> batch.table, scan |-> batch.scan, item |-> batch.item,
          session_id |-> get_active_session])
  /\ Advance

StoreItem ==
  /\ batch # NULL
  /\ add([table |-> batch.table, scan |-> batch.scan, item |-> batch.item,
          session_id |-> batch.session_id])
  /\ Advance

(* The insert fails, for its foreign key or for the disk: it is dropped.   *)
StoreItemFails == batch # NULL /\ Advance /\ UNCHANGED store

-----------------------------------------------------------------------------
SaveClicked ==
  /\ LoopFree
  /\ saves < MaxSaves /\ MayWork
  /\ saves' = saves + 1
  /\ saving' = 1
  /\ UNCHANGED <<sessions, next_id, rows, settings, clock, daemon, page, batch, saved,
                 scans, current, crashes>>

SaveStep ==
  /\ saving # NULL
  /\ set_setting(saving)
  /\ IF saving < KeyCount THEN saving' = saving + 1 /\ UNCHANGED saved
     ELSE saving' = NULL /\ saved' = "ok"
  /\ UNCHANGED <<daemon, page, batch, scans, current, crashes>>

(* Mutant: an upsert that fails is skipped, as a failed insert is.         *)
SaveFails_GoesOn ==
  /\ saving # NULL
  /\ IF saving < KeyCount THEN saving' = saving + 1 /\ UNCHANGED saved
     ELSE saving' = NULL /\ saved' = "ok"
  /\ UNCHANGED <<store, daemon, page, batch, scans, current, crashes>>

(* The ? of each upsert: the keys written so far stay written.             *)
SaveFails ==
  /\ saving # NULL
  /\ saving' = NULL /\ saved' = "error"
  /\ UNCHANGED <<store, daemon, page, batch, scans, current, crashes>>

-----------------------------------------------------------------------------
(* What the report page (views/report.rs) shows and exports at a click:    *)
(* the findings under the active session, or invented ones when it has     *)
(* none.                                                                   *)
Demo == [table |-> "findings", scan |-> 0, session_id |-> 0, item |-> 0]

collect_report_data ==
  LET stored == IF get_active_session = NULL THEN {}
                ELSE recorded("findings", get_active_session)
  IN IF stored = {} THEN {Demo} ELSE stored

-----------------------------------------------------------------------------
(* The application dies and is started again: what SQLite committed stays, *)
(* and the daemon goes on with a call nobody awaits.                       *)
Crash ==
  /\ crashes < MaxCrashes
  /\ crashes' = crashes + 1
  /\ page' = [p \in Tables |-> "ready"]
  /\ batch' = NULL /\ saving' = NULL /\ saved' = "none"
  /\ UNCHANGED <<store, daemon, scans, current>>

(* Callers of the library on other threads.                                *)
Library ==
  /\ \/ create_session
     \/ \E id \in Ids : complete_session(id)
     \/ \E retention_days \in Retentions : purge_expired(retention_days)
     \/ NextDay
  /\ UNCHANGED <<daemon, pages>>

Next == \/ \E p \in Tables : \/ ScanClicked(p) \/ ScanFails(p)
                             \/ \E count \in 0..MaxItems : ScanAnswered(p, count)
        \/ StoreItem \/ StoreItemFails
        \/ SaveClicked \/ SaveStep \/ SaveFails
        \/ Crash
        \/ Library
        \/ DaemonNext /\ UNCHANGED <<store, pages>>

Spec == Init /\ [][Next]_vars

(* The discovery daemon answers or fails at its deadline; the audit        *)
(* daemon's limits fire; and a handler that runs on the main loop runs to  *)
(* its end.                                                                *)
FairSpec ==
  /\ Spec
  /\ DaemonFairness
  /\ \A p \in Tables : SF_vars(ScanFails(p) \/ \E count \in 0..MaxItems : ScanAnswered(p, count))
  /\ WF_vars(StoreItem \/ StoreItemFails)
  /\ WF_vars(SaveStep \/ SaveFails)

-----------------------------------------------------------------------------
(* Every finding and host belongs to a session that is there, through      *)
(* purges that run between two inserts of one scan (session.rs:509-521     *)
(* deletes sessions only and relies on the cascade).                       *)
NoOrphans == \A r \in rows : r.session_id \in Stored

(* The results of one scan are recorded under one session, each at most    *)
(* once, though sessions change while they are being stored.               *)
BatchInOneSession ==
  \A p \in Tables, i \in Stored : \A r \in recorded(p, i), s \in rows :
    r.scan = s.scan => s \in recorded(p, i) /\ (r.item = s.item => r = s)

(* Settings are five statements and no transaction: a failure or a death   *)
(* between two leaves the first keys new and the rest old, in the order of *)
(* save_settings, over any number of torn saves; and when the page says    *)
(* the save succeeded, no key is left behind.                              *)
SettingsTearInOrder ==
  /\ \A i, j \in Keys : i < j => settings[i] >= settings[j]
  /\ saved = "ok" /\ saving = NULL =>
       \A k \in Keys : settings[k] = saves

(* The insensitive button keeps the page's audits from running side by     *)
(* side: one more than one means that the application died in between; and *)
(* a retry behind a time limit, whose child lives on, is a call of its own *)
(* with one child of its own.                                              *)
AuditsHaveCause ==
  /\ Cardinality({c \in Calls : phase[c] \in Awaiting}) <= 1 + crashes
  /\ \A c \in Calls : Cardinality({child \in children : child.call = c}) <= 1

(* A finding that a report holds is in every later one, until a session is *)
(* created or its own is completed: no scan, purge or death of the         *)
(* application takes it away or puts invented ones in its place            *)
(* (views/report.rs:328-373 asks for the active session each time).        *)
ReportLosesNothing ==
  [][LET id == get_active_session
     IN \/ collect_report_data = {Demo}
        \/ collect_report_data \subseteq collect_report_data'
        \/ next_id' # next_id
        \/ sessions'[id] # NULL /\ sessions'[id].status = "completed"]_vars

(* A page that scans or stores always takes clicks again.                  *)
PagesRecover == \A p \in Tables : page[p] # "ready" ~> page[p] = "ready"
=============================================================================

--------------------------- MODULE WorkspaceProofs --------------------------
(***************************************************************************)
(* What holds of the session store, the pages over it and the audit daemon *)
(* behind them, for any number of sessions, scans, results, settings and   *)
(* deaths, and whatever the tools print.                                   *)
(***************************************************************************)
EXTENDS Workspace, FiniteSetTheorems, SequenceTheorems, WellFoundedInduction, TLAPS

-----------------------------------------------------------------------------
(* The inductive invariant, by parts.                                      *)

(* A scan's number names it: rows and pages bear the numbers given so far, *)
(* and no two pages the same.                                              *)
Numbered ==
  /\ \A r \in rows : r.scan <= scans
  /\ \A p \in Tables : /\ current[p] <= scans
                       /\ page[p] = "scanning" => current[p] > 0
  /\ \A p, q \in Tables : p # q /\ current[p] > 0 => current[p] # current[q]
  /\ \A c \in Calls : phase[c] # "idle" => c <= scans

(* While a page waits for an answer nothing is recorded of its scan; while *)
(* the answer is being stored, its first results are.                      *)
Recorded ==
  /\ \A p \in Tables : page[p] = "scanning" => \A r \in rows : r.scan # current[p]
  /\ batch # NULL =>
       /\ batch.scan = current[batch.table] /\ page[batch.table] = "storing"
       /\ \A r \in rows : r.scan = batch.scan =>
            /\ r.table = batch.table /\ r.session_id = batch.session_id
            /\ r.item < batch.item
  /\ \A r, s \in rows : r.scan = s.scan =>
       /\ r.table = s.table /\ r.session_id = s.session_id
       /\ r.item = s.item => r = s

(* The keys before the one save_settings writes next are of this save.     *)
Saving ==
  /\ \A k \in Keys : settings[k] <= saves
  /\ \A i, j \in Keys : i < j => settings[i] >= settings[j]
  /\ saving # NULL => \A k \in Keys : k < saving => settings[k] = saves
  /\ saved = "ok" /\ saving = NULL => \A k \in Keys : settings[k] = saves

(* A call has findings when nmap has answered, and the ports first.        *)
Ports ==
  \A c \in Calls :
    /\ phase[c] \in {"idle", "nmap", "error"} => findings[c] = <<>>
    /\ phase[c] = "nuclei" => findings[c] = OpenPorts(printed[c])
    /\ phase[c] \in {"nuclei", "answered"} => printed[c] \in NmapOutputs

(* A child that runs is the one its call awaits, or the one it awaited     *)
(* last.                                                                   *)
ChildOf(c, child) == /\ child.call = c
                     /\ child.tool = IF phase[c] \in {"nmap", "error"} THEN "nmap" ELSE "nuclei"
                     /\ phase[c] # "idle"

Children == \A child \in children : \E c \in Calls : ChildOf(c, child)

(* The calls that run though no page awaits them: each was left behind by  *)
(* a death of the application.                                             *)
Abandoned == {c \in Calls : phase[c] \in Awaiting
                            /\ ~(page["findings"] = "scanning" /\ c = current["findings"])}

Deserted == Cardinality(Abandoned) <= crashes

-----------------------------------------------------------------------------
(* Least and greatest elements.                                            *)

LEMMA LeastNatural ==
  ASSUME NEW T \in SUBSET Nat, T # {}
  PROVE  \E x \in T : \A y \in T : x <= y
<1> DEFINE R == OpToRel(<, Nat)
<1>1. IsWellFoundedOn(R, Nat)
  BY NatLessThanWellFounded
<1>2. \A x, y \in Nat : y < x => <<y, x>> \in R
  BY DEF OpToRel
<1> HIDE DEF R
<1>3. PICK x \in T : \A y \in T : ~ (<<y, x>> \in R)
  BY <1>1, WFMin
<1>4. \A y \in T : x \in Nat /\ y \in Nat /\ ~(y < x)
  BY <1>2, <1>3
<1>5. QED
  BY <1>4

LEMMA GreatestNatural ==
  ASSUME NEW n \in Nat, NEW T \in SUBSET (0..n), T # {}
  PROVE  /\ Max(T) \in T
         /\ \A y \in T : y <= Max(T)
<1> DEFINE Below == {n - i : i \in T}
<1>1. Below \in SUBSET Nat /\ Below # {}
  <2>1. \A i \in T : i \in 0..n /\ n - i \in Nat
    OBVIOUS
  <2>2. \E i \in T : n - i \in Below
    OBVIOUS
  <2>3. QED
    BY <2>1, <2>2
<1>2. PICK b \in Below : \A y \in Below : b <= y
  BY <1>1, LeastNatural
<1>3. PICK x \in T : b = n - x
  BY <1>2
<1>4. \A y \in T : x \in 0..n /\ y \in 0..n /\ n - x <= n - y
  BY <1>2, <1>3
<1>5. \A y \in T : x >= y
  BY <1>4
<1>6. QED
  BY <1>5 DEF Max

LEMMA GreatestIsUnique ==
  ASSUME NEW n \in Nat, NEW T \in SUBSET (0..n), NEW x \in T, \A y \in T : y <= x
  PROVE  Max(T) = x
<1>1. Max(T) \in T /\ x <= Max(T)
  BY GreatestNatural
<1>2. Max(T) <= x /\ Max(T) \in 0..n /\ x \in 0..n
  BY <1>1
<1>3. QED
  BY <1>1, <1>2

(* The newest active session is an active session, and no other one is     *)
(* newer.                                                                  *)
LEMMA NewestActive ==
  ASSUME get_active_session # NULL
  PROVE  /\ get_active_session \in Active /\ get_active_session \in Ids
         /\ \A i \in Active : i <= get_active_session
<1>1. Active # {} /\ get_active_session = Max(Active)
  BY DEF get_active_session
<1>2. MaxSessions \in Nat /\ Active \in SUBSET (0..MaxSessions)
  BY StoreAssumption DEF Active, Stored, Ids
<1>3. QED
  BY <1>1, <1>2, GreatestNatural DEF Active, Stored

NewestIsActive ==
  \A x \in Active : (\A i \in Active : i <= x) =>
                      get_active_session = x /\ get_active_session # NULL

LEMMA NewestIs == NewestIsActive
<1> SUFFICES ASSUME NEW x \in Active, \A i \in Active : i <= x
             PROVE  get_active_session = x /\ get_active_session # NULL
  BY DEF NewestIsActive
<1>1. MaxSessions \in Nat /\ Active \in SUBSET (0..MaxSessions)
  BY StoreAssumption DEF Active, Stored, Ids
<1>2. x \in Nat
  BY <1>1
<1>3. QED
  BY <1>1, <1>2, GreatestIsUnique, StoreAssumption DEF get_active_session

-----------------------------------------------------------------------------
(* Types.                                                                  *)

(* The actions by what they leave alone, for the invariants that follow.   *)
LEMMA StoredSession ==
  ASSUME TypeOK, NEW i \in Stored
  PROVE  i \in Ids /\ sessions[i] \in SessionRow /\ sessions[i] # NULL
  BY StoreAssumption DEF TypeOK, Stored

LEMMA InitTypes == Init => TypeOK
<1> SUFFICES ASSUME Init PROVE TypeOK
  OBVIOUS
<1> USE StoreAssumption, WorkspaceAssumption
<1>1. <<>> \in Seq(Finding)
  OBVIOUS
<1>2. /\ sessions \in [Ids -> SessionRow \cup {NULL}] /\ next_id \in 1..(MaxSessions + 1)
      /\ rows \subseteq Row /\ settings \in [Keys -> 0..MaxSaves] /\ saves \in 0..MaxSaves
      /\ clock \in 0..MaxClock
  BY DEF Init, StoreInit
<1>3. /\ phase \in [Calls -> Awaiting \cup {"idle", "answered", "error"}]
      /\ children \subseteq {Child(c, tool) : c \in Calls, tool \in Awaiting}
      /\ findings \in [Calls -> Seq(Finding)]
      /\ printed \in [Calls -> NmapOutputs \cup {<<>>}]
  BY <1>1 DEF Init, DaemonInit
<1>4. /\ page \in [Tables -> {"ready", "scanning", "storing"}]
      /\ current \in [Tables -> 0..MaxScans]
      /\ batch \in Batch \cup {NULL}
      /\ saving \in Keys \cup {NULL} /\ saved \in {"none", "ok", "error"}
      /\ scans \in 0..MaxScans /\ crashes \in 0..MaxCrashes
  BY DEF Init
<1>5. QED
  BY <1>2, <1>3, <1>4 DEF TypeOK

(* Types of the store's tables, of the daemon and of the pages.            *)
StoreTypes ==
  /\ sessions \in [Ids -> SessionRow \cup {NULL}] /\ next_id \in 1..(MaxSessions + 1)
  /\ rows \subseteq Row
  /\ settings \in [Keys -> 0..MaxSaves] /\ saves \in 0..MaxSaves
  /\ clock \in 0..MaxClock

DaemonTypes ==
  /\ phase \in [Calls -> Awaiting \cup {"idle", "answered", "error"}]
  /\ children \subseteq {Child(c, tool) : c \in Calls, tool \in Awaiting}
  /\ findings \in [Calls -> Seq(Finding)]
  /\ printed \in [Calls -> NmapOutputs \cup {<<>>}]

PageTypes ==
  /\ page \in [Tables -> {"ready", "scanning", "storing"}]
  /\ current \in [Tables -> 0..MaxScans]
  /\ batch \in Batch \cup {NULL}
  /\ saving \in Keys \cup {NULL} /\ saved \in {"none", "ok", "error"}
  /\ scans \in 0..MaxScans /\ crashes \in 0..MaxCrashes

LEMMA TypeParts == TypeOK <=> StoreTypes /\ DaemonTypes /\ PageTypes
  BY DEF TypeOK, StoreTypes, DaemonTypes, PageTypes

LEMMA BatchFields ==
  ASSUME TypeOK, batch # NULL
  PROVE  /\ batch \in Batch /\ batch.table \in Tables /\ batch.scan \in Calls
         /\ batch.session_id \in Ids /\ batch.item \in 1..MaxItems
         /\ batch.of \in 1..MaxItems
  BY DEF TypeOK, Batch

LEMMA CallsAre == Calls = 1..MaxScans /\ MaxScans \in Nat
  BY WorkspaceAssumption

(* What a step may do to the daemon, alone or behind a click.              *)
DaemonStep ==
  \/ DaemonNext
  \/ \E c \in Calls : deep_scan(c) \/ NmapFails(c)
  \/ UNCHANGED daemon

(* What it may do to the store.                                            *)
StoreStep ==
  \/ create_session
  \/ \E id \in Ids : complete_session(id)
  \/ \E retention_days \in Retentions : purge_expired(retention_days)
  \/ NextDay
  \/ \E row \in Row : add(row)
  \/ SaveClicked
  \/ \E key \in Keys : set_setting(key)
  \/ UNCHANGED store

(* The steps that are not the daemon's or the library's own.               *)
PageStep ==
  \/ \E p \in Tables : \/ ScanClicked(p) \/ ScanFails(p)
                       \/ \E count \in 0..MaxItems : ScanAnswered(p, count)
  \/ StoreItem \/ StoreItemFails
  \/ SaveClicked \/ SaveStep \/ SaveFails
  \/ Crash

LEMMA Steps ==
  ASSUME [Next]_vars
  PROVE  \/ PageStep
         \/ Library /\ UNCHANGED <<daemon, pages>>
         \/ DaemonNext /\ UNCHANGED <<store, pages>>
         \/ UNCHANGED <<store, daemon, pages>>
<1>1. CASE UNCHANGED vars
  BY <1>1 DEF vars
<1>2. CASE Library
  BY <1>2 DEF Library
<1>3. QED
  BY <1>1, <1>2 DEF Next, PageStep

LEMMA ClickedCall ==
  ASSUME TypeOK, NEW p \in Tables, ScanClicked(p)
  PROVE  /\ scans' = scans + 1 /\ scans' \in Calls
         /\ \/ p = "findings" /\ (deep_scan(scans') \/ NmapFails(scans'))
            \/ UNCHANGED daemon
<1>1. scans \in 0..MaxScans /\ scans < MaxScans /\ scans' = scans + 1
  BY DEF TypeOK, ScanClicked
<1>2. scans' \in Calls
  BY <1>1, CallsAre
<1>3. QED
  BY <1>1, <1>2 DEF ScanClicked, CallDaemon

LEMMA DaemonSteps == TypeOK /\ [Next]_vars => DaemonStep
<1> SUFFICES ASSUME TypeOK, [Next]_vars PROVE DaemonStep
  OBVIOUS
<1>1. CASE \E p \in Tables : ScanClicked(p)
  BY <1>1, ClickedCall DEF DaemonStep
<1>2. CASE PageStep /\ ~ \E p \in Tables : ScanClicked(p)
  <2>1. UNCHANGED daemon
    BY <1>2 DEF PageStep, ScanFails, ScanAnswered, StoreItem, StoreItemFails, Advance,
                SaveClicked, SaveStep, SaveFails, Crash, daemon
  <2>2. QED
    BY <2>1 DEF DaemonStep
<1>3. CASE Library /\ UNCHANGED <<daemon, pages>>
  BY <1>3 DEF DaemonStep
<1>4. QED
  BY <1>1, <1>2, <1>3, Steps DEF DaemonStep

LEMMA StoreSteps == TypeOK /\ [Next]_vars => StoreStep
<1> SUFFICES ASSUME TypeOK, [Next]_vars PROVE StoreStep
  OBVIOUS
<1>1. CASE StoreItem
  <2>1. batch # NULL
    BY <1>1 DEF StoreItem
  <2>2. [table |-> batch.table, scan |-> batch.scan, item |-> batch.item,
         session_id |-> batch.session_id] \in Row
    BY <2>1, BatchFields DEF Row
  <2>3. QED
    BY <1>1, <2>2 DEF StoreItem, StoreStep
<1>2. CASE SaveStep
  BY <1>2 DEF SaveStep, StoreStep, TypeOK
<1>3. CASE SaveClicked
  BY <1>3 DEF StoreStep
<1>4. CASE PageStep /\ ~StoreItem /\ ~SaveStep /\ ~SaveClicked
  <2>1. UNCHANGED store
    BY <1>4 DEF PageStep, ScanClicked, ScanFails, ScanAnswered, StoreItemFails, SaveFails,
                Crash
  <2>2. QED
    BY <2>1 DEF StoreStep
<1>5. CASE Library
  BY <1>5 DEF StoreStep, Library
<1>6. QED
  BY <1>1, <1>2, <1>3, <1>4, <1>5, Steps DEF StoreStep

LEMMA AddedSession ==
  ASSUME TypeOK, next_id \in Ids
  PROVE  /\ [status |-> "active", created_at |-> clock] \in SessionRow
         /\ [status |-> "active", created_at |-> clock] # NULL
         /\ next_id + 1 \in 1..(MaxSessions + 1)
  BY StoreAssumption DEF TypeOK, SessionRow, Ids

LEMMA CompletedSession ==
  ASSUME TypeOK, NEW id \in Stored
  PROVE  /\ [sessions[id] EXCEPT !.status = "completed"] \in SessionRow
         /\ [sessions[id] EXCEPT !.status = "completed"] # NULL
<1>1. sessions[id] \in SessionRow
  BY StoredSession
<1>2. [sessions[id] EXCEPT !.status = "completed"] \in SessionRow
  BY <1>1 DEF SessionRow
<1>3. QED
  BY <1>2, StoreAssumption

LEMMA StoreKeepsTypes == TypeOK /\ StoreStep => StoreTypes'
<1> SUFFICES ASSUME TypeOK, StoreStep PROVE StoreTypes'
  OBVIOUS
<1> USE DEF StoreTypes
<1>0. StoreTypes
  BY TypeParts
<1>1. CASE create_session
  <2>1. sessions' \in [Ids -> SessionRow \cup {NULL}]
    BY <1>1, <1>0, AddedSession DEF create_session
  <2>2. next_id' \in 1..(MaxSessions + 1)
    BY <1>1, AddedSession DEF create_session
  <2>3. QED
    BY <1>1, <1>0, <2>1, <2>2 DEF create_session
<1>2. ASSUME NEW id \in Ids, complete_session(id) PROVE StoreTypes'
  <2>1. sessions' \in [Ids -> SessionRow \cup {NULL}]
    <3>1. CASE id \in Stored
      BY <1>2, <1>0, <3>1, CompletedSession DEF complete_session
    <3>2. CASE id \notin Stored
      BY <1>2, <1>0, <3>2 DEF complete_session
    <3>3. QED
      BY <3>1, <3>2
  <2>2. QED
    BY <1>2, <1>0, <2>1 DEF complete_session
<1>3. ASSUME NEW retention_days \in Retentions, purge_expired(retention_days)
      PROVE  StoreTypes'
  BY <1>3, <1>0 DEF purge_expired
<1>4. CASE NextDay
  BY <1>4, <1>0, StoreAssumption DEF NextDay
<1>5. ASSUME NEW row \in Row, add(row) PROVE StoreTypes'
  BY <1>5, <1>0 DEF add
<1>6. CASE SaveClicked
  BY <1>6, <1>0, StoreAssumption DEF SaveClicked
<1>7. ASSUME NEW key \in Keys, set_setting(key) PROVE StoreTypes'
  BY <1>7, <1>0 DEF set_setting
<1>8. CASE UNCHANGED store
  BY <1>8, <1>0 DEF store
<1>9. QED
  BY <1>1, <1>2, <1>3, <1>4, <1>5, <1>6, <1>7, <1>8 DEF StoreStep

LEMMA DaemonKeepsTypes == TypeOK /\ DaemonStep => DaemonTypes'
<1> SUFFICES ASSUME TypeOK, DaemonStep PROVE DaemonTypes'
  OBVIOUS
<1>0. /\ phase \in [Calls -> Awaiting \cup {"idle", "answered", "error"}]
      /\ findings \in [Calls -> Seq(Finding)]
      /\ printed \in [Calls -> NmapOutputs \cup {<<>>}]
  BY DEF TypeOK
<1> DEFINE Someone == {Child(c, tool) : c \in Calls, tool \in Awaiting}
<1>a. \A c \in Calls : Child(c, "nmap") \in Someone /\ Child(c, "nuclei") \in Someone
  BY DEF Awaiting
<1>e. children \subseteq Someone
  BY DEF TypeOK
<1>f. ASSUME phase' \in [Calls -> Awaiting \cup {"idle", "answered", "error"}],
             children' \subseteq Someone,
             findings' \in [Calls -> Seq(Finding)],
             printed' \in [Calls -> NmapOutputs \cup {<<>>}]
      PROVE  DaemonTypes'
  BY <1>f DEF DaemonTypes
<1>b. \A output \in NmapOutputs : OpenPorts(output) \in Seq(Finding)
  BY OutputAssumption
<1>c. \A output \in NucleiOutputs : Detections(output) \in Seq(Finding)
  BY OutputAssumption
<1>d. <<>> \in Seq(Finding)
  OBVIOUS
<1> HIDE DEF Someone
<1> USE DEF Goto
<1>1. ASSUME NEW c \in Calls, deep_scan(c) PROVE DaemonTypes'
  <2>1. children' \subseteq Someone
    BY <1>1, <1>a, <1>e DEF deep_scan
  <2>2. phase' \in [Calls -> Awaiting \cup {"idle", "answered", "error"}]
    BY <1>1, <1>0 DEF deep_scan, Awaiting
  <2>3. QED
    BY <1>1, <1>0, <1>f, <2>1, <2>2 DEF deep_scan
<1>2. ASSUME NEW c \in Calls, NmapFails(c) PROVE DaemonTypes'
  <2>1. children' \subseteq Someone
    BY <1>2, <1>e DEF NmapFails
  <2>2. phase' \in [Calls -> Awaiting \cup {"idle", "answered", "error"}]
    BY <1>2, <1>0 DEF NmapFails
  <2>3. QED
    BY <1>2, <1>0, <1>f, <2>1, <2>2 DEF NmapFails
<1>3. ASSUME NEW c \in Calls, NmapTimeout(c) \/ NucleiTimeout(c) PROVE DaemonTypes'
  <2>1. phase' \in [Calls -> Awaiting \cup {"idle", "answered", "error"}]
    BY <1>3, <1>0 DEF NmapTimeout, NucleiTimeout
  <2>2. UNCHANGED <<children, findings, printed>>
    BY <1>3 DEF NmapTimeout, NucleiTimeout
  <2>3. QED
    BY <1>0, <1>e, <1>f, <2>1, <2>2
<1>4. ASSUME NEW c \in Calls, NEW output \in NmapOutputs, NmapExits(c, output)
      PROVE  DaemonTypes'
  <2>1. findings' \in [Calls -> Seq(Finding)]
    BY <1>4, <1>0, <1>b DEF NmapExits
  <2>2. printed' \in [Calls -> NmapOutputs \cup {<<>>}]
    BY <1>4, <1>0 DEF NmapExits
  <2>3. phase' \in [Calls -> Awaiting \cup {"idle", "answered", "error"}]
    BY <1>4, <1>0 DEF NmapExits, Awaiting
  <2>4. children' \subseteq Someone
    BY <1>4, <1>a, <1>e DEF NmapExits
  <2>5. QED
    BY <1>f, <2>1, <2>2, <2>3, <2>4
<1>5. ASSUME NEW c \in Calls, NEW output \in NucleiOutputs, NucleiExits(c, output)
      PROVE  DaemonTypes'
  <2>1. findings[c] \o Detections(output) \in Seq(Finding)
    BY <1>0, <1>c
  <2>2. findings' \in [Calls -> Seq(Finding)]
    BY <1>5, <1>0, <2>1 DEF NucleiExits
  <2>3. children' \subseteq Someone
    BY <1>5, <1>e DEF NucleiExits
  <2>4. phase' \in [Calls -> Awaiting \cup {"idle", "answered", "error"}]
    BY <1>5, <1>0 DEF NucleiExits
  <2>5. QED
    BY <1>5, <1>0, <1>f, <2>2, <2>3, <2>4 DEF NucleiExits
<1>6. ASSUME NEW child \in children, LeftoverExits(child) PROVE DaemonTypes'
  BY <1>6, <1>0, <1>e, <1>f DEF LeftoverExits
<1>7. CASE DaemonDies
  <2>1. phase' \in [Calls -> Awaiting \cup {"idle", "answered", "error"}]
    BY <1>7, <1>0 DEF DaemonDies
  <2>2. findings' \in [Calls -> Seq(Finding)]
    BY <1>7, <1>0, <1>d DEF DaemonDies
  <2>3. QED
    BY <1>7, <1>0, <1>f, <2>1, <2>2 DEF DaemonDies
<1>8. CASE UNCHANGED daemon
  BY <1>8, <1>0, <1>e, <1>f DEF daemon
<1>9. QED
  BY <1>1, <1>2, <1>3, <1>4, <1>5, <1>6, <1>7, <1>8 DEF DaemonStep, DaemonNext

(* What is left of a batch after a result.                                 *)
LEMMA NextItem ==
  ASSUME TypeOK, batch # NULL, batch.item < batch.of
  PROVE  [batch EXCEPT !.item = @ + 1] \in Batch
<1>1. /\ batch \in Batch
      /\ batch.item \in 1..MaxItems /\ batch.of \in 1..MaxItems /\ MaxItems \in Nat
  BY BatchFields, WorkspaceAssumption
<1>2. batch.item + 1 \in 1..MaxItems
  BY <1>1
<1>3. QED
  BY <1>1, <1>2 DEF Batch

(* The batch an answer starts.                                             *)
LEMMA AnswerTypes ==
  ASSUME TypeOK, Numbered, NEW p \in Tables, NEW count \in 0..MaxItems,
         page[p] = "scanning", get_active_session # NULL, count # 0
  PROVE  [table |-> p, scan |-> current[p], item |-> 1, of |-> count,
          session_id |-> get_active_session] \in Batch
<1>1. current[p] \in 0..MaxScans /\ current[p] > 0
  BY DEF TypeOK, Numbered
<1>2. current[p] \in Calls
  BY <1>1, CallsAre
<1>3. count \in 1..MaxItems /\ 1 \in 1..MaxItems
  BY WorkspaceAssumption
<1>4. get_active_session \in Ids
  BY NewestActive
<1>5. QED
  BY <1>2, <1>3, <1>4 DEF Batch

LEMMA PagesKeepTypes == TypeOK /\ Numbered /\ PageStep => PageTypes'
<1> SUFFICES ASSUME TypeOK, Numbered, PageStep PROVE PageTypes'
  OBVIOUS
<1> USE DEF PageTypes
<1>0. PageTypes
  BY TypeParts
<1>1. ASSUME NEW p \in Tables, ScanClicked(p) PROVE PageTypes'
  <2>1. scans' \in 0..MaxScans
    BY <1>1, ClickedCall, CallsAre
  <2>2. /\ current' \in [Tables -> 0..MaxScans]
        /\ page' \in [Tables -> {"ready", "scanning", "storing"}]
    BY <1>1, <1>0, <2>1 DEF ScanClicked
  <2>3. QED
    BY <1>1, <1>0, <2>1, <2>2 DEF ScanClicked
<1>2. ASSUME NEW p \in Tables, ScanFails(p) PROVE PageTypes'
  BY <1>2, <1>0 DEF ScanFails
<1>3. ASSUME NEW p \in Tables, NEW count \in 0..MaxItems, ScanAnswered(p, count)
      PROVE  PageTypes'
  <2>1. batch' \in Batch \cup {NULL}
    BY <1>3, <1>0, AnswerTypes DEF ScanAnswered
  <2>2. page' \in [Tables -> {"ready", "scanning", "storing"}]
    BY <1>3, <1>0 DEF ScanAnswered
  <2>3. QED
    BY <1>3, <1>0, <2>1, <2>2 DEF ScanAnswered
<1>4. CASE StoreItem \/ StoreItemFails
  <2>1. batch # NULL /\ Advance
    BY <1>4 DEF StoreItem, StoreItemFails
  <2>2. batch' \in Batch \cup {NULL}
    BY <2>1, NextItem DEF Advance
  <2>3. page' \in [Tables -> {"ready", "scanning", "storing"}]
    BY <2>1, <1>0, BatchFields DEF Advance
  <2>4. QED
    BY <2>1, <1>0, <2>2, <2>3 DEF Advance
<1>5. CASE SaveClicked
  BY <1>5, <1>0, StoreAssumption DEF SaveClicked, Keys
<1>6. CASE SaveStep
  <2>1. saving \in 1..KeyCount /\ KeyCount \in Nat
    BY <1>6, <1>0, StoreAssumption DEF SaveStep, Keys
  <2>2. saving' \in Keys \cup {NULL}
    BY <1>6, <2>1 DEF SaveStep, Keys
  <2>3. QED
    BY <1>6, <1>0, <2>2 DEF SaveStep
<1>7. CASE SaveFails
  BY <1>7, <1>0 DEF SaveFails
<1>8. CASE Crash
  BY <1>8, <1>0, WorkspaceAssumption DEF Crash
<1>9. QED
  BY <1>1, <1>2, <1>3, <1>4, <1>5, <1>6, <1>7, <1>8 DEF PageStep

LEMMA StepTypes == TypeOK /\ Numbered /\ [Next]_vars => TypeOK'
<1> SUFFICES ASSUME TypeOK, Numbered, [Next]_vars PROVE TypeOK'
  OBVIOUS
<1>1. StoreTypes' /\ DaemonTypes'
  BY StoreSteps, StoreKeepsTypes, DaemonSteps, DaemonKeepsTypes
<1>2. PageTypes'
  <2>1. CASE UNCHANGED pages
    BY <2>1, TypeParts DEF PageTypes, pages
  <2>2. QED
    BY <2>1, Steps, PagesKeepTypes
<1>3. QED
  BY <1>1, <1>2, TypeParts, PTL

-----------------------------------------------------------------------------
(* Numbers, and what is recorded of a scan.                                *)

(* The daemon by itself only moves calls that await a child.               *)
LEMMA DaemonMoves ==
  ASSUME TypeOK, DaemonNext, NEW c \in Calls
  PROVE  phase'[c] = phase[c] \/ phase[c] \in Awaiting
<1>0. phase \in [Calls -> Awaiting \cup {"idle", "answered", "error"}]
  BY DEF TypeOK
<1>1. ASSUME NEW d \in Calls, NEW from \in Awaiting, NEW to, Goto(d, from, to)
      PROVE  phase'[c] = phase[c] \/ phase[c] \in Awaiting
  BY <1>1, <1>0 DEF Goto
<1>2. CASE \E d \in Calls : \/ phase[d] = "nmap" /\ NmapFails(d)
                            \/ NmapTimeout(d) \/ NucleiTimeout(d)
                            \/ \E output \in NmapOutputs : NmapExits(d, output)
                            \/ \E output \in NucleiOutputs : NucleiExits(d, output)
  <2>1. PICK d \in Calls : \E from \in Awaiting, to \in {"nuclei", "answered", "error"} :
                              Goto(d, from, to)
    BY <1>2 DEF NmapFails, NmapTimeout, NucleiTimeout, NmapExits, NucleiExits, Goto, Awaiting
  <2>2. QED
    BY <2>1, <1>1
<1>3. CASE \E child \in children : LeftoverExits(child)
  BY <1>3 DEF LeftoverExits
<1>4. CASE DaemonDies
  BY <1>4 DEF DaemonDies
<1>5. QED
  BY <1>2, <1>3, <1>4 DEF DaemonNext

LEMMA RowFields ==
  ASSUME TypeOK, NEW r \in rows
  PROVE  /\ r \in Row /\ r.table \in Tables /\ r.scan \in Calls /\ r.scan \in Nat
         /\ r.session_id \in Ids /\ r.item \in Nat
<1>1. r \in Row
  BY DEF TypeOK
<1>2. QED
  BY <1>1, CallsAre, WorkspaceAssumption DEF Row

(* What Library may do to the rows.                                        *)
LEMMA LibraryRows ==
  ASSUME Library
  PROVE  rows' \subseteq rows /\ UNCHANGED <<settings, saves, daemon, pages>>
  BY DEF Library, create_session, complete_session, purge_expired, NextDay

(* The row StoreItem adds.                                                 *)
NewRow == [table |-> batch.table, scan |-> batch.scan, item |-> batch.item,
           session_id |-> batch.session_id]

LEMMA Stores ==
  ASSUME TypeOK, StoreItem
  PROVE  /\ batch # NULL /\ Advance /\ rows' = rows \cup {NewRow} /\ NewRow \in Row
         /\ batch.session_id \in Stored
         /\ UNCHANGED <<sessions, next_id, settings, saves, clock>>
<1>1. batch # NULL
  BY DEF StoreItem
<1>2. NewRow \in Row
  BY <1>1, BatchFields DEF NewRow, Row
<1>3. QED
  BY <1>1, <1>2 DEF StoreItem, add, NewRow

LEMMA StepNumbered == TypeOK /\ Numbered /\ Recorded /\ [Next]_vars => Numbered'
<1> SUFFICES ASSUME TypeOK, Numbered, Recorded, [Next]_vars PROVE Numbered'
  OBVIOUS
<1>0. /\ scans \in Nat /\ current \in [Tables -> 0..MaxScans] /\ MaxScans \in Nat
      /\ page \in [Tables -> {"ready", "scanning", "storing"}]
      /\ phase \in [Calls -> Awaiting \cup {"idle", "answered", "error"}]
      /\ \A c \in Calls : c \in Nat
  BY CallsAre DEF TypeOK
<1>a. \A p \in Tables : current[p] \in Nat
  BY <1>0
<1>b. \A r \in rows : r.scan \in Nat /\ r.scan <= scans
  BY RowFields DEF Numbered
<1>1. ASSUME NEW p \in Tables, ScanClicked(p) PROVE Numbered'
  <2>1. /\ scans' = scans + 1 /\ current' = [current EXCEPT ![p] = scans + 1]
        /\ page' = [page EXCEPT ![p] = "scanning"] /\ rows' = rows
    BY <1>1 DEF ScanClicked, store
  <2>2. ASSUME NEW c \in Calls, phase'[c] # "idle" PROVE c <= scans'
    <3>1. CASE UNCHANGED daemon
      BY <3>1, <2>1, <2>2, <1>0 DEF Numbered, daemon
    <3>2. CASE deep_scan(scans') \/ NmapFails(scans')
      <4>1. \E to : Goto(scans', "idle", to) \/ Goto(scans', "nmap", to)
        BY <3>2 DEF deep_scan, NmapFails
      <4>2. phase'[c] = phase[c] \/ c = scans'
        BY <4>1, <1>0 DEF Goto
      <4>3. QED
        BY <4>2, <2>1, <2>2, <1>0 DEF Numbered
    <3>3. QED
      BY <3>1, <3>2, <1>1, ClickedCall
  <2>3. \A r \in rows' : r.scan <= scans'
    BY <2>1, <1>b, <1>0
  <2>4. \A q \in Tables : current'[q] <= scans' /\ (page'[q] = "scanning" => current'[q] > 0)
    BY <2>1, <1>0, <1>a DEF Numbered
  <2>5. \A q, s \in Tables : q # s /\ current'[q] > 0 => current'[q] # current'[s]
    BY <2>1, <1>0, <1>a DEF Numbered
  <2>6. QED
    BY <2>2, <2>3, <2>4, <2>5 DEF Numbered
<1>2. ASSUME UNCHANGED <<scans, current, phase>>,
             \A p \in Tables : page'[p] = "scanning" => page[p] = "scanning",
             \A r \in rows' : r.scan <= scans
      PROVE  Numbered'
  BY <1>2 DEF Numbered
<1>3. ASSUME NEW p \in Tables,
             ScanFails(p) \/ \E count \in 0..MaxItems : ScanAnswered(p, count)
      PROVE  Numbered'
  <2>1. UNCHANGED <<scans, current, phase, rows>>
    BY <1>3 DEF ScanFails, ScanAnswered, store, daemon
  <2>2. \A q \in Tables : page'[q] = "scanning" => page[q] = "scanning"
    BY <1>3, <1>0 DEF ScanFails, ScanAnswered
  <2>3. QED
    BY <2>1, <2>2, <1>2, <1>b
<1>4. CASE StoreItem \/ StoreItemFails
  <2>1. batch # NULL /\ Advance
    BY <1>4 DEF StoreItem, StoreItemFails
  <2>2. UNCHANGED <<scans, current, phase>>
    BY <2>1 DEF Advance, daemon
  <2>3. \A q \in Tables : page'[q] = "scanning" => page[q] = "scanning"
    BY <2>1, <1>0 DEF Advance
  <2>4. batch.scan <= scans
    BY <2>1, BatchFields DEF Recorded, Numbered
  <2>5. \A r \in rows' : r \in rows \/ r = NewRow
    BY <1>4, Stores DEF StoreItemFails, store
  <2>6. \A r \in rows' : r.scan <= scans
    BY <2>4, <2>5, <1>b DEF NewRow
  <2>7. QED
    BY <2>2, <2>3, <2>6, <1>2
<1>5. CASE SaveClicked \/ SaveStep \/ SaveFails \/ Crash
  <2>1. UNCHANGED <<scans, current, phase, rows>>
    BY <1>5 DEF SaveClicked, SaveStep, SaveFails, Crash, store, daemon, set_setting
  <2>2. \A q \in Tables : page'[q] = "scanning" => page[q] = "scanning"
    BY <1>5, <1>0 DEF SaveClicked, SaveStep, SaveFails, Crash
  <2>3. QED
    BY <2>1, <2>2, <1>2, <1>b
<1>6. CASE Library
  BY <1>6, <1>2, <1>b, LibraryRows DEF pages, daemon
<1>7. CASE DaemonNext /\ UNCHANGED <<store, pages>>
  <2>1. \A c \in Calls : phase'[c] # "idle" => phase[c] # "idle"
    BY <1>7, DaemonMoves DEF Awaiting
  <2>2. UNCHANGED <<scans, current, page, rows>>
    BY <1>7 DEF store, pages
  <2>3. QED
    BY <2>1, <2>2 DEF Numbered
<1>8. CASE UNCHANGED <<store, daemon, pages>>
  BY <1>8, <1>2, <1>b DEF store, daemon, pages
<1>9. QED
  BY <1>1, <1>3, <1>4, <1>5, <1>6, <1>7, <1>8, Steps DEF PageStep

LEMMA StepRecorded == TypeOK /\ Numbered /\ Recorded /\ [Next]_vars => Recorded'
<1> SUFFICES ASSUME TypeOK, Numbered, Recorded, [Next]_vars PROVE Recorded'
  OBVIOUS
<1>0. /\ scans \in Nat /\ current \in [Tables -> 0..MaxScans] /\ MaxScans \in Nat
      /\ page \in [Tables -> {"ready", "scanning", "storing"}]
  BY CallsAre DEF TypeOK
<1>a. \A p \in Tables : current[p] \in Nat
  BY <1>0
<1>b. \A r \in rows : r.scan \in Nat /\ r.scan <= scans /\ r.item \in Nat
  BY RowFields DEF Numbered
<1>c. \A p \in Tables : page[p] = "scanning" => \A r \in rows : r.scan # current[p]
  BY DEF Recorded
<1>d. \A r, s \in rows : r.scan = s.scan =>
         /\ r.table = s.table /\ r.session_id = s.session_id
         /\ r.item = s.item => r = s
  BY DEF Recorded
<1>1. ASSUME NEW p \in Tables, ScanClicked(p) PROVE Recorded'
  <2>1. /\ scans' = scans + 1 /\ current' = [current EXCEPT ![p] = scans + 1]
        /\ page' = [page EXCEPT ![p] = "scanning"] /\ rows' = rows
        /\ batch' = NULL
    BY <1>1 DEF ScanClicked, store, LoopFree
  <2>2. \A q \in Tables : page'[q] = "scanning" => \A r \in rows' : r.scan # current'[q]
    BY <2>1, <1>0, <1>a, <1>b, <1>c
  <2>3. QED
    BY <2>1, <2>2, <1>d DEF Recorded
<1>2. ASSUME UNCHANGED <<current, batch>>, rows' \subseteq rows,
             \A p \in Tables : page'[p] = "scanning" => page[p] = "scanning",
             batch # NULL => page' = page
      PROVE  Recorded'
  BY <1>2 DEF Recorded
<1>3. ASSUME NEW p \in Tables, ScanFails(p) PROVE Recorded'
  <2>1. UNCHANGED <<current, batch, rows>> /\ batch = NULL
    BY <1>3 DEF ScanFails, LoopFree, store
  <2>2. \A q \in Tables : page'[q] = "scanning" => page[q] = "scanning"
    BY <1>3, <1>0 DEF ScanFails
  <2>3. QED
    BY <2>1, <2>2, <1>2
<1>4. ASSUME NEW p \in Tables, NEW count \in 0..MaxItems, ScanAnswered(p, count)
      PROVE  Recorded'
  <2>1. UNCHANGED <<current, rows>> /\ batch = NULL /\ page[p] = "scanning"
    BY <1>4 DEF ScanAnswered, LoopFree, store
  <2>2. \A q \in Tables : page'[q] = "scanning" => page[q] = "scanning"
    BY <1>4, <1>0 DEF ScanAnswered
  <2>3. CASE UNCHANGED batch
    BY <2>1, <2>2, <2>3, <1>2
  <2>4. CASE /\ batch' = [table |-> p, scan |-> current[p], item |-> 1, of |-> count,
                          session_id |-> get_active_session]
             /\ page' = [page EXCEPT ![p] = "storing"]
    <3>1. batch'.table = p /\ batch'.scan = current[p] /\ page'[p] = "storing"
      BY <2>4, <1>0
    <3>2. \A r \in rows : r.scan # batch'.scan
      BY <3>1, <2>1, <1>c
    <3>3. \A q \in Tables : page'[q] = "scanning" => \A r \in rows' : r.scan # current'[q]
      BY <2>1, <2>2, <1>c
    <3>4. QED
      BY <2>1, <3>1, <3>2, <3>3, <1>d DEF Recorded
  <2>5. QED
    BY <2>3, <2>4, <1>4 DEF ScanAnswered
<1>5. CASE StoreItem \/ StoreItemFails
  <2>1. batch # NULL /\ Advance
    BY <1>5 DEF StoreItem, StoreItemFails
  <2>2. /\ batch.table \in Tables /\ batch.item \in Nat /\ batch \in Batch
        /\ batch.scan = current[batch.table] /\ page[batch.table] = "storing"
    BY <2>1, BatchFields DEF Recorded
  <2>3. \A r \in rows : r.scan = batch.scan =>
           /\ r.table = batch.table /\ r.session_id = batch.session_id
           /\ r.item < batch.item
    BY <2>1 DEF Recorded
  <2>4. \A r \in rows' : r \in rows \/ r = NewRow
    BY <1>5, Stores DEF StoreItemFails, store
  <2>5. current' = current /\ \A q \in Tables : page'[q] = "scanning" => page[q] = "scanning"
    BY <2>1, <1>0 DEF Advance
  <2>6. ASSUME NEW q \in Tables, page'[q] = "scanning", NEW r \in rows'
        PROVE  r.scan # current'[q]
    <3>1. page[q] = "scanning" /\ q # batch.table /\ current[q] > 0
      BY <2>5, <2>6, <2>2 DEF Numbered
    <3>2. current[q] # batch.scan
      BY <3>1, <2>2 DEF Numbered
    <3>3. QED
      BY <3>1, <3>2, <2>4, <2>5, <1>c DEF NewRow
  <2>7. ASSUME NEW r \in rows', NEW s \in rows', r.scan = s.scan
        PROVE  /\ r.table = s.table /\ r.session_id = s.session_id
               /\ r.item = s.item => r = s
    <3>1. CASE r \in rows /\ s \in rows
      BY <3>1, <2>7, <1>d
    <3>2. CASE r = NewRow /\ s = NewRow
      BY <3>2
    <3>3. CASE r \in rows /\ s = NewRow
      BY <3>3, <2>7, <2>3, <2>2, <1>b DEF NewRow
    <3>4. CASE r = NewRow /\ s \in rows
      BY <3>4, <2>7, <2>3, <2>2, <1>b DEF NewRow
    <3>5. QED
      BY <3>1, <3>2, <3>3, <3>4, <2>4
  <2>8. ASSUME batch' # NULL
        PROVE  /\ batch'.scan = current'[batch'.table] /\ page'[batch'.table] = "storing"
               /\ \A r \in rows' : r.scan = batch'.scan =>
                    /\ r.table = batch'.table /\ r.session_id = batch'.session_id
                    /\ r.item < batch'.item
    <3>1. batch' = [batch EXCEPT !.item = @ + 1] /\ UNCHANGED page
      BY <2>1, <2>8 DEF Advance
    <3>2. /\ batch'.table = batch.table /\ batch'.scan = batch.scan
          /\ batch'.session_id = batch.session_id /\ batch'.item = batch.item + 1
      BY <3>1, <2>2 DEF Batch
    <3>3. \A r \in rows' : r.scan = batch.scan =>
             /\ r.table = batch.table /\ r.session_id = batch.session_id
             /\ r.item < batch.item + 1
      BY <2>2, <2>3, <2>4, <1>b DEF NewRow
    <3>4. QED
      BY <3>1, <3>2, <3>3, <2>2, <2>5
  <2>9. QED
    BY <2>6, <2>7, <2>8 DEF Recorded
<1>6. CASE SaveClicked \/ SaveStep \/ SaveFails
  <2>1. UNCHANGED <<current, batch, rows, page>>
    BY <1>6 DEF SaveClicked, SaveStep, SaveFails, store, set_setting
  <2>2. QED
    BY <2>1, <1>2
<1>7. CASE Crash
  <2>1. batch' = NULL /\ UNCHANGED rows /\ \A q \in Tables : page'[q] = "ready"
    BY <1>7 DEF Crash, store
  <2>2. QED
    BY <2>1, <1>d DEF Recorded
<1>8. CASE Library
  BY <1>8, <1>2, LibraryRows DEF pages
<1>9. CASE UNCHANGED <<store, pages>>
  BY <1>9, <1>2 DEF store, pages
<1>10. QED
  BY <1>1, <1>3, <1>4, <1>5, <1>6, <1>7, <1>8, <1>9, Steps DEF PageStep

(* The rows of one scan are under one session, each result once.           *)
LEMMA RecordedOnce == Recorded => BatchInOneSession
<1> SUFFICES ASSUME Recorded, NEW p \in Tables, NEW i \in Stored, NEW r \in recorded(p, i),
                    NEW s \in rows, r.scan = s.scan
             PROVE  s \in recorded(p, i) /\ (r.item = s.item => r = s)
  BY DEF BatchInOneSession
<1>1. r \in rows /\ r.table = p /\ r.session_id = i
  BY DEF recorded
<1>2. QED
  BY <1>1 DEF Recorded, recorded

-----------------------------------------------------------------------------
(* Rows and their sessions.                                                *)

LEMMA StepNoOrphans == TypeOK /\ NoOrphans /\ [Next]_vars => NoOrphans'
<1> SUFFICES ASSUME TypeOK, NoOrphans, StoreStep PROVE NoOrphans'
  BY StoreSteps
<1>0. sessions \in [Ids -> SessionRow \cup {NULL}]
  BY DEF TypeOK
<1>1. ASSUME rows' \subseteq rows, Stored \subseteq Stored' PROVE NoOrphans'
  BY <1>1 DEF NoOrphans
<1>2. CASE create_session
  <2>1. \A i \in Ids : sessions[i] # NULL => sessions'[i] # NULL
    BY <1>2, <1>0, AddedSession DEF create_session
  <2>2. QED
    BY <1>1, <1>2, <2>1 DEF create_session, Stored
<1>3. ASSUME NEW id \in Ids, complete_session(id) PROVE NoOrphans'
  <2>1. \A i \in Ids : sessions[i] # NULL => sessions'[i] # NULL
    BY <1>3, <1>0, CompletedSession DEF complete_session
  <2>2. QED
    BY <1>1, <1>3, <2>1 DEF complete_session, Stored
<1>4. ASSUME NEW retention_days \in Retentions, purge_expired(retention_days)
      PROVE  NoOrphans'
  <2>1. \A r \in rows' : r \in rows /\ r.session_id \notin Expired(retention_days)
    BY <1>4 DEF purge_expired
  <2>2. \A i \in Ids : i \notin Expired(retention_days) => sessions'[i] = sessions[i]
    BY <1>4 DEF purge_expired
  <2>3. QED
    BY <2>1, <2>2 DEF NoOrphans, Stored
<1>5. ASSUME NEW row \in Row, add(row) PROVE NoOrphans'
  BY <1>5 DEF add, NoOrphans, Stored
<1>6. CASE NextDay \/ SaveClicked \/ UNCHANGED store \/ \E key \in Keys : set_setting(key)
  <2>1. UNCHANGED <<rows, sessions>>
    BY <1>6 DEF NextDay, SaveClicked, store, set_setting
  <2>2. QED
    BY <2>1 DEF NoOrphans, Stored
<1>7. QED
  BY <1>2, <1>3, <1>4, <1>5, <1>6 DEF StoreStep

-----------------------------------------------------------------------------
(* Settings.                                                               *)

LEMMA StepSaving == TypeOK /\ Saving /\ [Next]_vars => Saving'
<1> SUFFICES ASSUME TypeOK, Saving, [Next]_vars PROVE Saving'
  OBVIOUS
<1>0. /\ settings \in [Keys -> 0..MaxSaves] /\ saves \in Nat /\ MaxSaves \in Nat
      /\ saving \in Keys \cup {NULL} /\ KeyCount \in Nat \ {0} /\ Keys = 1..KeyCount
  BY StoreAssumption DEF TypeOK, Keys
<1>a. \A k \in Keys : settings[k] \in Nat /\ settings[k] <= saves /\ k \in Nat
  BY <1>0 DEF Saving
<1>b. \A i, j \in Keys : i < j => settings[i] >= settings[j]
  BY DEF Saving
<1>n. \A k \in Keys : k # NULL
  BY <1>0, StoreAssumption
<1>1. ASSUME UNCHANGED <<settings, saves, saving, saved>> PROVE Saving'
  BY <1>1 DEF Saving
<1>2. CASE SaveClicked
  <2>1. settings' = settings /\ saves' = saves + 1 /\ saving' = 1
    BY <1>2 DEF SaveClicked
  <2>2. 1 \in Keys /\ 1 # NULL /\ \A k \in Keys : ~(k < 1)
    BY <1>0, <1>n
  <2>3. \A k \in Keys : settings'[k] <= saves'
    BY <2>1, <1>0, <1>a
  <2>4. QED
    BY <2>1, <2>2, <2>3, <1>b DEF Saving
<1>3. CASE SaveStep
  <2>1. /\ saving \in Keys /\ saving # NULL /\ saves' = saves
        /\ settings' = [settings EXCEPT ![saving] = saves]
    BY <1>3, <1>0 DEF SaveStep, set_setting
  <2>2. \A k \in Keys : k < saving => settings[k] = saves
    BY <2>1 DEF Saving
  <2>3. \A k \in Keys : settings'[k] = IF k = saving THEN saves ELSE settings[k]
    BY <2>1, <1>0
  <2>4. \A k \in Keys : settings'[k] <= saves'
    BY <2>1, <2>3, <1>0, <1>a
  <2>5. \A k \in Keys : k <= saving => settings'[k] = saves
    BY <2>1, <2>2, <2>3, <1>a
  <2>6. \A i, j \in Keys : i < j => settings'[i] >= settings'[j]
    <3>1. SUFFICES ASSUME NEW i \in Keys, NEW j \in Keys, i < j
                   PROVE  settings'[i] >= settings'[j]
      OBVIOUS
    <3>2. CASE i <= saving
      BY <3>2, <2>4, <2>5, <2>3, <2>1, <1>0, <1>a
    <3>3. CASE ~(i <= saving)
      BY <3>1, <3>3, <2>3, <2>1, <1>a, <1>b
    <3>4. QED
      BY <3>2, <3>3
  <2>7. CASE saving < KeyCount
    <3>1. saving' = saving + 1
      BY <1>3, <2>7 DEF SaveStep
    <3>2. \A k \in Keys : k < saving + 1 => k <= saving
      BY <2>1, <1>a
    <3>3. saving' \in Keys
      BY <3>1, <2>1, <2>7, <1>0
    <3>4. QED
      BY <3>1, <3>2, <3>3, <1>n, <2>1, <2>4, <2>5, <2>6 DEF Saving
  <2>8. CASE ~(saving < KeyCount)
    <3>1. saving' = NULL
      BY <1>3, <2>8 DEF SaveStep
    <3>2. \A k \in Keys : k <= saving
      BY <2>1, <2>8, <1>0
    <3>3. QED
      BY <3>1, <3>2, <2>1, <2>4, <2>5, <2>6 DEF Saving
  <2>9. QED
    BY <2>7, <2>8
<1>4. CASE SaveFails \/ Crash
  <2>1. UNCHANGED <<settings, saves>> /\ saving' = NULL /\ saved' # "ok"
    BY <1>4 DEF SaveFails, Crash, store
  <2>2. QED
    BY <2>1 DEF Saving
<1>5. CASE PageStep /\ ~SaveClicked /\ ~SaveStep /\ ~SaveFails /\ ~Crash
  <2>1. UNCHANGED <<settings, saves, saving, saved>>
    BY <1>5 DEF PageStep, ScanClicked, ScanFails, ScanAnswered, StoreItem, StoreItemFails,
                Advance, add, store
  <2>2. QED
    BY <2>1, <1>1
<1>6. CASE Library
  BY <1>6, <1>1, LibraryRows DEF pages
<1>7. CASE UNCHANGED <<store, pages>>
  BY <1>7, <1>1 DEF store, pages
<1>8. QED
  BY <1>2, <1>3, <1>4, <1>5, <1>6, <1>7, Steps DEF PageStep

-----------------------------------------------------------------------------
(* The audit daemon.                                                       *)

(* A list begins with itself, whatever is appended to it.                  *)
LEMMA BeginsWith ==
  ASSUME NEW s \in Seq(Finding), NEW t \in Seq(Finding)
  PROVE  SubSeq(s \o t, 1, Len(s)) = s
<1>1. /\ s \o t \in Seq(Finding) /\ Len(s \o t) = Len(s) + Len(t)
      /\ Len(s) \in Nat /\ Len(t) \in Nat
      /\ \A i \in 1..Len(s) : (s \o t)[i] = s[i]
  BY ConcatProperties
<1>2. \A i \in 1..Len(s) : (s \o t)[i] \in Finding
  BY <1>1
<1>3. /\ SubSeq(s \o t, 1, Len(s)) \in Seq(Finding)
      /\ Len(SubSeq(s \o t, 1, Len(s))) = Len(s)
      /\ \A i \in 1..Len(s) : SubSeq(s \o t, 1, Len(s))[i] = s[i]
  BY <1>1
<1>4. QED
  BY <1>3, SeqEqual

LEMMA StepPorts ==
  TypeOK /\ Ports /\ AuditKeepsPorts /\ [Next]_vars => Ports' /\ AuditKeepsPorts'
<1> SUFFICES ASSUME TypeOK, Ports, AuditKeepsPorts, DaemonStep
             PROVE  Ports' /\ AuditKeepsPorts'
  BY DaemonSteps
<1>0. /\ phase \in [Calls -> Awaiting \cup {"idle", "answered", "error"}]
      /\ findings \in [Calls -> Seq(Finding)]
      /\ printed \in [Calls -> NmapOutputs \cup {<<>>}]
  BY DEF TypeOK
<1> DEFINE Begins(s, t) == SubSeq(s, 1, Len(t)) = t
           Sound(d) ==
             /\ phase'[d] \in {"idle", "nmap", "error"} => findings'[d] = <<>>
             /\ phase'[d] = "nuclei" => findings'[d] = OpenPorts(printed'[d])
             /\ phase'[d] \in {"nuclei", "answered"} => printed'[d] \in NmapOutputs
             /\ phase'[d] = "answered" => Begins(findings'[d], OpenPorts(printed'[d]))
           AllSound == \A d \in Calls : Sound(d)
<1>a. ASSUME AllSound PROVE Ports' /\ AuditKeepsPorts'
  BY <1>a DEF Ports, AuditKeepsPorts
<1>b. \A output \in NmapOutputs : /\ OpenPorts(output) \in Seq(Finding)
                                  /\ Begins(OpenPorts(output), OpenPorts(output))
  BY OutputAssumption, SubSeqFull
<1>c. \A output \in NmapOutputs : \A t \in Seq(Finding) :
         Begins(OpenPorts(output) \o t, OpenPorts(output))
  BY OutputAssumption, BeginsWith
<1>d. \A d \in Calls :
         /\ phase[d] \in {"idle", "nmap", "error"} => findings[d] = <<>>
         /\ phase[d] = "nuclei" => findings[d] = OpenPorts(printed[d])
         /\ phase[d] \in {"nuclei", "answered"} => printed[d] \in NmapOutputs
         /\ phase[d] = "answered" => Begins(findings[d], OpenPorts(printed[d]))
  BY DEF Ports, AuditKeepsPorts
<1> HIDE DEF Begins
<1>e. ASSUME NEW d \in Calls, phase'[d] = phase[d], findings'[d] = findings[d],
             printed'[d] = printed[d]
      PROVE  Sound(d)
  BY <1>e, <1>d
<1>1. ASSUME NEW c \in Calls, deep_scan(c) \/ NmapFails(c) PROVE AllSound
  <2>1. UNCHANGED <<findings, printed>> /\ phase[c] \in {"idle", "nmap"}
    BY <1>1 DEF deep_scan, NmapFails, Goto
  <2>2. /\ phase'[c] \in {"nmap", "error"} /\ \A d \in Calls \ {c} : phase'[d] = phase[d]
    BY <1>1, <1>0 DEF deep_scan, NmapFails, Goto
  <2>3. Sound(c)
    BY <2>1, <2>2, <1>d
  <2>4. QED
    BY <2>1, <2>2, <2>3, <1>e
<1>2. ASSUME NEW c \in Calls, NmapTimeout(c) PROVE AllSound
  <2>1. UNCHANGED <<findings, printed>> /\ phase[c] = "nmap" /\ phase'[c] = "error"
    BY <1>2, <1>0 DEF NmapTimeout, Goto
  <2>2. \A d \in Calls \ {c} : phase'[d] = phase[d]
    BY <1>2, <1>0 DEF NmapTimeout, Goto
  <2>3. Sound(c)
    BY <2>1, <1>d
  <2>4. QED
    BY <2>1, <2>2, <2>3, <1>e
<1>3. ASSUME NEW c \in Calls, NucleiTimeout(c) PROVE AllSound
  <2>1. UNCHANGED <<findings, printed>> /\ phase[c] = "nuclei" /\ phase'[c] = "answered"
    BY <1>3, <1>0 DEF NucleiTimeout, Goto
  <2>2. \A d \in Calls \ {c} : phase'[d] = phase[d]
    BY <1>3, <1>0 DEF NucleiTimeout, Goto
  <2>3. Sound(c)
    BY <2>1, <1>b, <1>d
  <2>4. QED
    BY <2>1, <2>2, <2>3, <1>e
<1>4. ASSUME NEW c \in Calls, NEW output \in NmapOutputs, NmapExits(c, output)
      PROVE  AllSound
  <2>1. /\ findings'[c] = OpenPorts(output) /\ printed'[c] = output
        /\ phase'[c] \in {"answered", "nuclei"}
    BY <1>4, <1>0 DEF NmapExits, Goto
  <2>2. \A d \in Calls \ {c} : /\ phase'[d] = phase[d] /\ findings'[d] = findings[d]
                               /\ printed'[d] = printed[d]
    BY <1>4, <1>0 DEF NmapExits, Goto
  <2>3. Sound(c)
    BY <2>1, <1>b
  <2>4. QED
    BY <2>2, <2>3, <1>e
<1>5. ASSUME NEW c \in Calls, NEW output \in NucleiOutputs, NucleiExits(c, output)
      PROVE  AllSound
  <2>1. /\ phase[c] = "nuclei" /\ phase'[c] = "answered" /\ printed' = printed
        /\ findings'[c] = findings[c] \o Detections(output)
    BY <1>5, <1>0 DEF NucleiExits, Goto
  <2>2. \A d \in Calls \ {c} : /\ phase'[d] = phase[d] /\ findings'[d] = findings[d]
                               /\ printed'[d] = printed[d]
    BY <1>5, <1>0 DEF NucleiExits, Goto
  <2>3. Detections(output) \in Seq(Finding)
    BY OutputAssumption
  <2>4. findings[c] = OpenPorts(printed[c]) /\ printed[c] \in NmapOutputs
    BY <2>1, <1>d
  <2>5. Begins(findings'[c], OpenPorts(printed[c]))
    BY <2>1, <2>3, <2>4, <1>c
  <2>6. Sound(c)
    BY <2>1, <2>4, <2>5
  <2>7. QED
    BY <2>2, <2>6, <1>e
<1>6. ASSUME UNCHANGED <<phase, findings, printed>> PROVE AllSound
  BY <1>6, <1>e
<1>7. ASSUME DaemonDies PROVE AllSound
  <2>1. \A d \in Calls : phase[d] \in Awaiting => Sound(d)
    BY <1>7 DEF DaemonDies
  <2>2. \A d \in Calls : phase[d] \notin Awaiting => Sound(d)
    BY <1>7, <1>e DEF DaemonDies
  <2> HIDE DEF Sound
  <2>3. QED
    BY <2>1, <2>2
<1>8. AllSound
  <2>1. ASSUME NEW child \in children, LeftoverExits(child) PROVE AllSound
    BY <2>1, <1>6 DEF LeftoverExits
  <2>2. CASE UNCHANGED daemon
    BY <2>2, <1>6 DEF daemon
  <2> HIDE DEF AllSound
  <2>3. QED
    BY <2>1, <2>2, <1>1, <1>2, <1>3, <1>4, <1>5, <1>7 DEF DaemonStep, DaemonNext
<1>9. QED
  BY <1>8, <1>a

LEMMA StepChildren == TypeOK /\ Children /\ [Next]_vars => Children'
<1> SUFFICES ASSUME TypeOK, Children, DaemonStep PROVE Children'
  BY DaemonSteps
<1>0. /\ phase \in [Calls -> Awaiting \cup {"idle", "answered", "error"}]
      /\ children \subseteq {Child(c, tool) : c \in Calls, tool \in Awaiting}
  BY DEF TypeOK
<1>a. \A child \in children :
         /\ child.call \in Calls /\ phase[child.call] # "idle"
         /\ child.tool = IF phase[child.call] \in {"nmap", "error"} THEN "nmap" ELSE "nuclei"
         /\ child = Child(child.call, child.tool)
  BY <1>0 DEF Children, ChildOf, Child
<1>b. ASSUME \A child \in children' :
               /\ child.call \in Calls /\ phase'[child.call] # "idle"
               /\ child.tool = IF phase'[child.call] \in {"nmap", "error"} THEN "nmap"
                               ELSE "nuclei"
      PROVE  Children'
  BY <1>b DEF Children, ChildOf
<1>c. \A c \in Calls : \A tool \in Awaiting : Child(c, tool).call = c /\ Child(c, tool).tool = tool
  BY DEF Child
<1> USE DEF Goto, Awaiting
<1>1. ASSUME NEW c \in Calls, deep_scan(c) PROVE Children'
  <2>1. /\ phase[c] = "idle" /\ phase' = [phase EXCEPT ![c] = "nmap"]
        /\ children' = children \cup {Child(c, "nmap")}
    BY <1>1 DEF deep_scan
  <2>2. QED
    BY <2>1, <1>0, <1>a, <1>b, <1>c
<1>2. ASSUME NEW c \in Calls, NmapFails(c) PROVE Children'
  <2>1. /\ phase[c] \in {"idle", "nmap"} /\ phase' = [phase EXCEPT ![c] = "error"]
        /\ children' \subseteq children
    BY <1>2 DEF NmapFails
  <2>2. QED
    BY <2>1, <1>0, <1>a, <1>b
<1>3. ASSUME NEW c \in Calls, NmapTimeout(c) PROVE Children'
  <2>1. /\ phase[c] = "nmap" /\ phase' = [phase EXCEPT ![c] = "error"]
        /\ children' \subseteq children
    BY <1>3 DEF NmapTimeout
  <2>2. QED
    BY <2>1, <1>0, <1>a, <1>b
<1>4. ASSUME NEW c \in Calls,
             NucleiTimeout(c) \/ \E output \in NucleiOutputs : NucleiExits(c, output)
      PROVE  Children'
  <2>1. /\ phase[c] = "nuclei" /\ phase' = [phase EXCEPT ![c] = "answered"]
        /\ children' \subseteq children
    BY <1>4 DEF NucleiTimeout, NucleiExits
  <2>2. QED
    BY <2>1, <1>0, <1>a, <1>b
<1>5. ASSUME NEW c \in Calls, NEW output \in NmapOutputs, NmapExits(c, output) PROVE Children'
  <2>1. phase[c] = "nmap" /\ \A child \in children : child.call = c => child = Child(c, "nmap")
    BY <1>5, <1>a DEF NmapExits
  <2>2. CASE /\ phase' = [phase EXCEPT ![c] = "answered"]
             /\ children' = children \ {Child(c, "nmap")}
    BY <2>1, <2>2, <1>0, <1>a, <1>b
  <2>3. CASE /\ phase' = [phase EXCEPT ![c] = "nuclei"]
             /\ children' = (children \ {Child(c, "nmap")}) \cup {Child(c, "nuclei")}
    BY <2>1, <2>3, <1>0, <1>a, <1>b, <1>c
  <2>4. QED
    BY <2>2, <2>3, <1>5 DEF NmapExits
<1>6. ASSUME children' \subseteq children, phase' = phase PROVE Children'
  BY <1>6, <1>a, <1>b
<1>7. CASE DaemonDies
  BY <1>7, <1>b DEF DaemonDies
<1>8. ASSUME NEW child \in children, LeftoverExits(child) PROVE Children'
  BY <1>8, <1>6 DEF LeftoverExits
<1>9. CASE UNCHANGED daemon
  BY <1>9, <1>6 DEF daemon
<1>10. QED
  BY <1>1, <1>2, <1>3, <1>4, <1>5, <1>7, <1>8, <1>9 DEF DaemonStep, DaemonNext

LEMMA SubsetCounts ==
  ASSUME NEW S \in SUBSET Calls, NEW T \in SUBSET S
  PROVE  /\ IsFiniteSet(S) /\ Cardinality(S) \in Nat
         /\ Cardinality(T) \in Nat /\ Cardinality(T) <= Cardinality(S)
<1>1. IsFiniteSet(Calls)
  BY CallsAre, FS_Interval
<1>2. IsFiniteSet(S)
  BY <1>1, FS_Subset
<1>3. QED
  BY <1>2, FS_Subset, FS_CardinalityType

LEMMA OneMore ==
  ASSUME NEW S \in SUBSET Calls, NEW x, NEW T \in SUBSET Calls, T \subseteq S \cup {x}
  PROVE  Cardinality(T) <= Cardinality(S) + 1
<1>1. IsFiniteSet(S) /\ Cardinality(S) \in Nat
  BY SubsetCounts
<1>2. IsFiniteSet(S \cup {x}) /\ Cardinality(S \cup {x}) <= Cardinality(S) + 1
  BY <1>1, FS_AddElement
<1>3. Cardinality(T) <= Cardinality(S \cup {x})
  BY <1>2, FS_Subset
<1>4. Cardinality(T) \in Nat /\ Cardinality(S \cup {x}) \in Nat
  BY <1>2, SubsetCounts, FS_CardinalityType
<1>5. QED
  BY <1>1, <1>2, <1>3, <1>4

LEMMA StepDeserted == TypeOK /\ Numbered /\ Recorded /\ Deserted /\ [Next]_vars => Deserted'
<1> SUFFICES ASSUME TypeOK, Numbered, Recorded, Deserted, [Next]_vars PROVE Deserted'
  OBVIOUS
<1>0. /\ phase \in [Calls -> Awaiting \cup {"idle", "answered", "error"}]
      /\ page \in [Tables -> {"ready", "scanning", "storing"}]
      /\ current \in [Tables -> 0..MaxScans] /\ crashes \in Nat
  BY WorkspaceAssumption DEF TypeOK
<1>a. Abandoned \in SUBSET Calls /\ Abandoned' \in SUBSET Calls
  BY DEF Abandoned
<1>b. ASSUME \A c \in Abandoned' : c \in Abandoned, crashes' = crashes PROVE Deserted'
  <2>1. Abandoned' \in SUBSET Abandoned
    BY <1>b
  <2>2. Cardinality(Abandoned') <= Cardinality(Abandoned)
        /\ Cardinality(Abandoned) \in Nat /\ Cardinality(Abandoned') \in Nat
    BY <2>1, <1>a, SubsetCounts
  <2>3. QED
    BY <2>2, <1>b, <1>0 DEF Deserted
<1>c. "findings" \in Tables
  BY DEF Tables
<1>d. \A c \in Calls : c \in Abandoned <=>
         phase[c] \in Awaiting /\ ~(page["findings"] = "scanning" /\ c = current["findings"])
  BY DEF Abandoned
<1>e. \A c \in Calls : c \in Abandoned' <=>
         phase'[c] \in Awaiting /\ ~(page'["findings"] = "scanning" /\ c = current'["findings"])
  BY DEF Abandoned
<1>1. ASSUME NEW p \in Tables, ScanClicked(p) PROVE Deserted'
  <2>1. /\ page[p] = "ready" /\ current' = [current EXCEPT ![p] = scans']
        /\ page' = [page EXCEPT ![p] = "scanning"] /\ crashes' = crashes
    BY <1>1 DEF ScanClicked
  <2>2. CASE p = "findings"
    <3>1. \A c \in Calls \ {scans'} : phase'[c] = phase[c]
      BY <1>1, <1>0, ClickedCall DEF deep_scan, NmapFails, Goto, daemon
    <3>2. \A c \in Abandoned' : c # scans'
      BY <2>1, <2>2, <1>0, <1>c, <1>a, <1>e
    <3>3. QED
      BY <3>1, <3>2, <2>1, <2>2, <1>a, <1>b, <1>d, <1>e
  <2>3. CASE p # "findings"
    <3>1. phase' = phase
      BY <2>3, <1>1, ClickedCall DEF daemon
    <3>2. page'["findings"] = page["findings"] /\ current'["findings"] = current["findings"]
      BY <2>1, <2>3, <1>0, <1>c
    <3>3. QED
      BY <3>1, <3>2, <2>1, <1>a, <1>b, <1>d, <1>e
  <2>4. QED
    BY <2>2, <2>3
<1>2. ASSUME NEW p \in Tables,
             ScanFails(p) \/ \E count \in 0..MaxItems : ScanAnswered(p, count)
      PROVE  Deserted'
  <2>1. UNCHANGED <<current, crashes, phase>> /\ page[p] = "scanning"
    BY <1>2 DEF ScanFails, ScanAnswered, daemon
  <2>2. CASE p = "findings"
    <3>1. phase[current["findings"]] \in {"idle", "error", "answered"}
      BY <1>2, <2>2 DEF ScanFails, ScanAnswered, Answer, Answered
    <3>2. QED
      BY <3>1, <2>1, <1>a, <1>b, <1>d, <1>e DEF Awaiting
  <2>3. CASE p # "findings"
    <3>1. page'["findings"] = page["findings"]
      BY <2>3, <1>2, <1>0, <1>c DEF ScanFails, ScanAnswered
    <3>2. QED
      BY <3>1, <2>1, <1>a, <1>b, <1>d, <1>e
  <2>4. QED
    BY <2>2, <2>3
<1>3. CASE StoreItem \/ StoreItemFails
  <2>1. batch # NULL /\ Advance
    BY <1>3 DEF StoreItem, StoreItemFails
  <2>2. UNCHANGED <<current, crashes, phase>>
    BY <2>1 DEF Advance, daemon
  <2>3. page["findings"] = "scanning" => page'["findings"] = "scanning"
    <3>1. page["findings"] = "scanning" => batch.table # "findings"
      BY <2>1 DEF Recorded
    <3>2. QED
      BY <3>1, <2>1, <1>0, <1>c DEF Advance
  <2>4. QED
    BY <2>2, <2>3, <1>a, <1>b, <1>d, <1>e
<1>4. CASE SaveClicked \/ SaveStep \/ SaveFails
  <2>1. UNCHANGED <<current, crashes, phase, page>>
    BY <1>4 DEF SaveClicked, SaveStep, SaveFails, daemon
  <2>2. QED
    BY <2>1, <1>a, <1>b, <1>d, <1>e
<1>5. CASE Crash
  <2>1. crashes' = crashes + 1 /\ UNCHANGED <<current, phase>>
    BY <1>5 DEF Crash, daemon
  <2>2. Abandoned' \subseteq Abandoned \cup {current["findings"]}
    BY <2>1, <1>a, <1>d, <1>e
  <2>3. Cardinality(Abandoned') <= Cardinality(Abandoned) + 1
    BY <2>2, <1>a, OneMore
  <2>4. Cardinality(Abandoned) \in Nat /\ Cardinality(Abandoned') \in Nat
    BY <1>a, SubsetCounts
  <2>5. QED
    BY <2>1, <2>3, <2>4, <1>0 DEF Deserted
<1>6. CASE (Library \/ UNCHANGED <<store, daemon>>) /\ UNCHANGED <<daemon, pages>>
  <2>1. UNCHANGED <<current, crashes, phase, page>>
    BY <1>6 DEF daemon, pages
  <2>2. QED
    BY <2>1, <1>a, <1>b, <1>d, <1>e
<1>7. CASE DaemonNext /\ UNCHANGED <<store, pages>>
  <2>1. \A c \in Calls : phase'[c] \in Awaiting => phase[c] \in Awaiting
    BY <1>7, DaemonMoves
  <2>2. UNCHANGED <<current, crashes, page>>
    BY <1>7 DEF pages
  <2>3. QED
    BY <2>1, <2>2, <1>a, <1>b, <1>d, <1>e
<1>8. QED
  BY <1>1, <1>2, <1>3, <1>4, <1>5, <1>6, <1>7, Steps DEF PageStep

(* Why audits run side by side.                                            *)
LEMMA Causes == TypeOK /\ Children /\ Deserted => AuditsHaveCause
<1> SUFFICES ASSUME TypeOK, Children, Deserted PROVE AuditsHaveCause
  OBVIOUS
<1> DEFINE Running == {c \in Calls : phase[c] \in Awaiting}
<1>1. Running \in SUBSET Calls /\ Abandoned \in SUBSET Calls
  BY DEF Abandoned
<1>2. Running \subseteq Abandoned \cup {current["findings"]}
  BY DEF Abandoned
<1>3. Cardinality(Running) <= Cardinality(Abandoned) + 1
  <2> HIDE DEF Running
  <2>1. QED
    BY <1>1, <1>2, OneMore
<1>4. Cardinality(Abandoned) \in Nat /\ Cardinality(Running) \in Nat /\ crashes \in Nat
  <2> HIDE DEF Running
  <2>1. Cardinality(Abandoned) \in Nat /\ Cardinality(Running) \in Nat
    BY <1>1, SubsetCounts
  <2>2. crashes \in Nat
    BY WorkspaceAssumption DEF TypeOK
  <2>3. QED
    BY <2>1, <2>2
<1>5. Cardinality(Running) <= 1 + crashes
  <2> HIDE DEF Running
  <2>1. QED
    BY <1>3, <1>4 DEF Deserted
<1>6. ASSUME NEW c \in Calls
      PROVE  Cardinality({child \in children : child.call = c}) <= 1
  <2> DEFINE Own == {child \in children : child.call = c}
  <2>1. \A child \in children : child = Child(child.call, child.tool)
    BY DEF TypeOK, Child
  <2>2. \A child \in Own :
           child.tool = IF phase[c] \in {"nmap", "error"} THEN "nmap" ELSE "nuclei"
    BY DEF Children, ChildOf
  <2>3. \A child, other \in Own : child = other
    BY <2>1, <2>2
  <2> HIDE DEF Own
  <2>4. CASE Own = {}
    <3>1. Cardinality(Own) = 0
      BY <2>4, FS_EmptySet
    <3>2. QED
      BY <3>1 DEF Own
  <2>5. CASE Own # {}
    <3>1. PICK child \in Own : TRUE
      BY <2>5
    <3>2. Own = {child}
      BY <2>3, <3>1
    <3>3. Cardinality(Own) = 1
      BY <3>2, FS_Singleton
    <3>4. QED
      BY <3>3 DEF Own
  <2>6. QED
    BY <2>4, <2>5
<1>7. QED
  BY <1>5, <1>6 DEF AuditsHaveCause

-----------------------------------------------------------------------------
(* Reports.                                                                *)

(* A step after which the active session is still the newest, and has its  *)
(* rows, leaves the report all it holds.                                   *)
LEMMA ReportKept ==
  ASSUME TypeOK, get_active_session # NULL,
         recorded("findings", get_active_session) # {},
         Active' \subseteq Active, get_active_session \in Active',
         \A r \in rows : r.session_id = get_active_session => r \in rows'
  PROVE  collect_report_data \subseteq collect_report_data'
<1> DEFINE id == get_active_session
<1>1. \A i \in Active : i <= id
  BY NewestActive
<1>2. NewestIsActive'
  BY NewestIs, PTL
<1>3. get_active_session' = id /\ get_active_session' # NULL
  BY <1>1, <1>2 DEF NewestIsActive
<1>4. recorded("findings", id) \subseteq recorded("findings", get_active_session)'
  BY <1>3 DEF recorded
<1>5. recorded("findings", get_active_session)' # {}
  BY <1>4
<1>6. collect_report_data = recorded("findings", id)
  BY DEF collect_report_data
<1>7. collect_report_data' = recorded("findings", get_active_session)'
  BY <1>3, <1>5 DEF collect_report_data
<1>8. QED
  BY <1>4, <1>6, <1>7

LEMMA StepReport ==
  ASSUME TypeOK, StoreStep
  PROVE  \/ collect_report_data = {Demo}
         \/ collect_report_data \subseteq collect_report_data'
         \/ next_id' # next_id
         \/ /\ sessions'[get_active_session] # NULL
            /\ sessions'[get_active_session].status = "completed"
<1> DEFINE id == get_active_session
           Goal == \/ collect_report_data \subseteq collect_report_data'
                   \/ next_id' # next_id
                   \/ sessions'[id] # NULL /\ sessions'[id].status = "completed"
<1> SUFFICES ASSUME collect_report_data # {Demo} PROVE Goal
  OBVIOUS
<1>0. sessions \in [Ids -> SessionRow \cup {NULL}] /\ next_id \in Nat
  BY StoreAssumption DEF TypeOK
<1>1. id # NULL /\ recorded("findings", id) # {}
  BY DEF collect_report_data
<1>2. id \in Active /\ id \in Ids /\ id \in Stored /\ sessions[id].status = "active"
  BY <1>1, NewestActive DEF Active
<1>3. ASSUME \A i \in Ids : sessions'[i] # NULL /\ sessions'[i].status = "active" =>
               sessions[i] # NULL /\ sessions[i].status = "active",
             sessions'[id] # NULL, sessions'[id].status = "active",
             \A r \in rows : r.session_id = id => r \in rows'
      PROVE  Goal
  <2>1. Active' \subseteq Active /\ id \in Active'
    BY <1>2, <1>3 DEF Active, Stored
  <2>2. QED
    BY <2>1, <1>1, <1>3, ReportKept
<1> HIDE DEF Goal
<1>4. CASE create_session
  BY <1>4, <1>0 DEF create_session, Goal
<1>5. ASSUME NEW other \in Ids, complete_session(other) PROVE Goal
  <2>1. CASE other = id
    BY <2>1, <1>5, <1>0, <1>2, CompletedSession DEF complete_session, Goal, SessionRow
  <2>2. CASE other # id /\ other \in Stored
    <3>1. /\ sessions' = [sessions EXCEPT ![other] = [@ EXCEPT !.status = "completed"]]
          /\ rows' = rows
      BY <2>2, <1>5 DEF complete_session
    <3>2. sessions'[other].status = "completed"
      BY <3>1, <1>0, <2>2, StoredSession DEF SessionRow
    <3>3. \A i \in Ids \ {other} : sessions'[i] = sessions[i]
      BY <3>1, <1>0
    <3>4. QED
      BY <3>1, <3>2, <3>3, <2>2, <1>2, <1>3 DEF Stored
  <2>3. CASE other \notin Stored
    BY <2>3, <1>5, <1>2, <1>3 DEF complete_session, Stored
  <2>4. QED
    BY <2>1, <2>2, <2>3
<1>6. ASSUME NEW retention_days \in Retentions, purge_expired(retention_days) PROVE Goal
  <2>1. id \notin Expired(retention_days)
    BY <1>2 DEF Expired
  <2>2. \A i \in Ids : sessions'[i] = sessions[i] \/ sessions'[i] = NULL
    BY <1>6 DEF purge_expired
  <2>3. sessions'[id] = sessions[id]
    BY <1>6, <1>2, <2>1 DEF purge_expired
  <2>4. \A r \in rows : r.session_id = id => r \in rows'
    BY <1>6, <2>1 DEF purge_expired
  <2>5. QED
    BY <2>2, <2>3, <2>4, <1>2, <1>3 DEF Stored
<1>7. ASSUME sessions' = sessions, rows \subseteq rows' PROVE Goal
  BY <1>7, <1>2, <1>3 DEF Stored
<1>8. CASE \E row \in Row : add(row)
  BY <1>8, <1>7 DEF add
<1>9. CASE NextDay \/ SaveClicked \/ UNCHANGED store \/ \E key \in Keys : set_setting(key)
  BY <1>9, <1>7 DEF NextDay, SaveClicked, store, set_setting
<1>10. QED
  BY <1>4, <1>5, <1>6, <1>8, <1>9 DEF StoreStep

-----------------------------------------------------------------------------
(* The theorems.                                                           *)

Inv == /\ TypeOK /\ Numbered /\ Recorded /\ NoOrphans /\ Saving
       /\ Ports /\ AuditKeepsPorts /\ Children /\ Deserted

LEMMA InitInv == Init => Inv
<1> SUFFICES ASSUME Init PROVE Inv
  OBVIOUS
<1>1. TypeOK
  BY InitTypes
<1>2. Numbered
  BY DEF Init, StoreInit, DaemonInit, Numbered
<1>3. Recorded
  BY DEF Init, StoreInit, Recorded
<1>4. NoOrphans
  BY DEF Init, StoreInit, NoOrphans
<1>5. Saving
  BY DEF Init, StoreInit, Saving
<1>6. Ports /\ AuditKeepsPorts
  BY DEF Init, DaemonInit, Ports, AuditKeepsPorts
<1>7. Children
  BY DEF Init, DaemonInit, Children
<1>8. Deserted
  <2>1. Abandoned = {}
    BY DEF Init, DaemonInit, Abandoned, Awaiting
  <2>2. QED
    BY <2>1, FS_EmptySet DEF Init, Deserted
<1>9. QED
  BY <1>1, <1>2, <1>3, <1>4, <1>5, <1>6, <1>7, <1>8 DEF Inv

LEMMA StepInv == Inv /\ [Next]_vars => Inv'
<1> SUFFICES ASSUME Inv, [Next]_vars PROVE Inv'
  OBVIOUS
<1> USE DEF Inv
<1>1. TypeOK'
  BY StepTypes
<1>2. Numbered' /\ Recorded' /\ NoOrphans' /\ Saving'
  BY StepNumbered, StepRecorded, StepNoOrphans, StepSaving
<1>3. Ports' /\ AuditKeepsPorts' /\ Children' /\ Deserted'
  BY StepPorts, StepChildren, StepDeserted
<1>4. QED
  BY <1>1, <1>2, <1>3

LEMMA Invariant == Spec => []Inv
  BY InitInv, StepInv, PTL DEF Spec

(* Tables, pages and calls keep the shape the code gives them.             *)
THEOREM TypeCorrect == Spec => []TypeOK
<1>1. Inv => TypeOK
  BY DEF Inv
<1>2. QED
  BY <1>1, Invariant, PTL

(* No finding or host is left without its session, whatever the purges     *)
(* that run between two inserts of a scan.                                 *)
THEOREM NoRowsOrphaned == Spec => []NoOrphans
<1>1. Inv => NoOrphans
  BY DEF Inv
<1>2. QED
  BY <1>1, Invariant, PTL

(* The results of a scan are recorded under one session, each at most      *)
(* once, though sessions come and go while they are stored.                *)
THEOREM BatchesKeepSession == Spec => []BatchInOneSession
<1>1. Inv => BatchInOneSession
  BY RecordedOnce DEF Inv
<1>2. QED
  BY <1>1, Invariant, PTL

(* Torn saves leave a prefix of the keys new, and a save that says it      *)
(* succeeded leaves no key behind.                                         *)
THEOREM SettingsTear == Spec => []SettingsTearInOrder
<1>1. Inv => SettingsTearInOrder
  BY DEF Inv, Saving, SettingsTearInOrder
<1>2. QED
  BY <1>1, Invariant, PTL

(* An audit that answers holds every open port nmap printed, and one that  *)
(* fails holds nothing.                                                    *)
THEOREM PortsKept == Spec => []AuditKeepsPorts
<1>1. Inv => AuditKeepsPorts
  BY DEF Inv
<1>2. QED
  BY <1>1, Invariant, PTL

(* Audits run side by side only across deaths of the application, and each *)
(* has at most one child of its own.                                       *)
THEOREM AuditsExplained == Spec => []AuditsHaveCause
<1>1. Inv => AuditsHaveCause
  BY Causes DEF Inv
<1>2. QED
  BY <1>1, Invariant, PTL

(* Nothing but a new session, or the end of its own, takes a finding out   *)
(* of the report.                                                          *)
THEOREM ReportsGrow == Spec => ReportLosesNothing
<1> DEFINE Grows == LET id == get_active_session
                    IN \/ collect_report_data = {Demo}
                       \/ collect_report_data \subseteq collect_report_data'
                       \/ next_id' # next_id
                       \/ sessions'[id] # NULL /\ sessions'[id].status = "completed"
<1>1. Inv /\ [Next]_vars => [Grows]_vars
  BY StoreSteps, StepReport DEF Inv
<1>2. ReportLosesNothing <=> [][Grows]_vars
  BY DEF ReportLosesNothing
<1>3. QED
  BY <1>1, <1>2, Invariant, PTL DEF Spec

=============================================================================

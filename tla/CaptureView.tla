----------------------------- MODULE CaptureView ----------------------------
(***************************************************************************)
(* The capture page of the GTK application (views/capture.rs) in front of  *)
(* the capture service.  Each click spawns a task on the main loop; each   *)
(* task opens a bus connection of its own, so two calls reach the service  *)
(* in any order, and a reply comes back after any delay.  Between its      *)
(* awaits a task runs alone: the main loop is one thread.                  *)
(*                                                                         *)
(* The service is CaptureAbs, which Capture.tla implements.  An accepted   *)
(* start goes on as a loop over the service's signals, with a count of its *)
(* own; nothing ends the loop, and all loops write to one list of rows and *)
(* one label.  The filter is empty: every packet a loop takes gets a row.  *)
(***************************************************************************)
EXTENDS Integers, FiniteSets

CONSTANTS MaxStarts,   \* bound on clicks of the start button
          MaxStops,    \* bound on clicks of the stop button
          MaxDeaths,   \* bound on deaths of the daemon
          MaxPackets,  \* bound on packets signalled
          NULL

ASSUME ViewAssumption ==
  /\ MaxStarts \in Nat /\ MaxStops \in Nat /\ MaxDeaths \in Nat /\ MaxPackets \in Nat
  /\ NULL \notin Nat

Starts  == 1..MaxStarts
Stops   == 1..MaxStops
Packets == 1..MaxPackets

VARIABLES running,          \* the capture in progress, named by its click
          over,             \* captures that are over, or never began
          start_sensitive,  \* the start button takes clicks
          stop_sensitive,   \* the stop button takes clicks
          error_banner,     \* the banner asking for more rights is shown
          startTask,        \* per start click: where its task stands
          stopTask,         \* per stop click: where its task stands
          deaths,
          signalled,        \* packets signalled so far, numbered in order
          since,            \* per loop: the packets signalled before it listened
          count,            \* per loop: the packets it has taken
          rows,             \* per packet: its rows in the list
          packets_lbl,      \* the number on the page's first card
          crossed,          \* history: stop clicked before a start was answered
          stopLost          \* history: a stop task found no bus
service == <<running, over>>
page    == <<start_sensitive, stop_sensitive, error_banner>>
loops   == <<signalled, since, count, rows, packets_lbl>>
history == <<crossed, stopLost>>
vars    == <<service, page, startTask, stopTask, deaths, loops, history>>

Service == INSTANCE CaptureAbs WITH Captures <- Starts

(* A start task is unused, connecting, accepted, rejected, listening or     *)
(* ended; a stop task unused, connecting or ended.                         *)
Unanswered == {"connecting", "accepted", "rejected"}

Init ==
  /\ Service!Init
  /\ start_sensitive = TRUE /\ stop_sensitive = FALSE /\ error_banner = FALSE
  /\ startTask = [c \in Starts |-> "unused"]
  /\ stopTask = [s \in Stops |-> "unused"]
  /\ deaths = 0
  /\ signalled = 0
  /\ since = [c \in Starts |-> 0] /\ count = [c \in Starts |-> 0]
  /\ rows = [p \in Packets |-> 0]
  /\ packets_lbl = 0
  /\ crossed = FALSE /\ stopLost = FALSE

-----------------------------------------------------------------------------
ShowStarted == start_sensitive' = FALSE /\ stop_sensitive' = TRUE
ShowStopped == start_sensitive' = TRUE /\ stop_sensitive' = FALSE

StartTask(c, from, to) == /\ startTask[c] = from
                          /\ startTask' = [startTask EXCEPT ![c] = to]

StartClicked(c) ==
  /\ start_sensitive
  /\ \A d \in 1..(c - 1) : startTask[d] # "unused"
  /\ StartTask(c, "unused", "connecting")
  /\ ShowStarted
  /\ error_banner' = FALSE
  /\ UNCHANGED <<service, stopTask, deaths, loops, history>>

(* No system bus, or no proxy: the task gives up.                          *)
StartNoBus(c) ==
  /\ StartTask(c, "connecting", "ended")
  /\ ShowStopped
  /\ UNCHANGED <<service, error_banner, stopTask, deaths, loops, history>>

(* The call reaches the service, which accepts it, fails on it, or already *)
(* has a capture.                                                          *)
StartServed(c) ==
  /\ \/ StartTask(c, "connecting", "accepted") /\ Service!Start(c)
     \/ StartTask(c, "connecting", "rejected") /\ Service!FailedStart(c)
     \/ /\ StartTask(c, "connecting", "rejected")
        /\ running # NULL
        /\ UNCHANGED service
  /\ UNCHANGED <<page, stopTask, deaths, loops, history>>

(* Mutant: a rejected start is taken for an accepted one.                  *)
StartRefused_Ignored(c) ==
  /\ StartTask(c, "rejected", "listening")
  /\ UNCHANGED <<service, page, stopTask, deaths, loops, history>>

(* The answer: on an error the banner and the buttons, else a loop over    *)
(* the signals that nothing ends while the connection lives.               *)
StartRefused(c) ==
  /\ StartTask(c, "rejected", "ended")
  /\ ShowStopped
  /\ error_banner' = TRUE
  /\ UNCHANGED <<service, stopTask, deaths, loops, history>>

StartListens(c) ==
  /\ StartTask(c, "accepted", "listening")
  /\ since' = [since EXCEPT ![c] = signalled]
  /\ UNCHANGED <<service, page, stopTask, deaths, signalled, count, rows, packets_lbl,
                 history>>

(* receive_packet_captured fails: the task ends without a word.            *)
ListenFails(c) ==
  /\ StartTask(c, "accepted", "ended")
  /\ UNCHANGED <<service, page, stopTask, deaths, loops, history>>

(* A packet of the capture in progress, or a late one of a capture that is *)
(* over, is signalled to every loop there is.                              *)
PacketSignalled ==
  /\ running # NULL \/ over # {}
  /\ signalled < MaxPackets
  /\ signalled' = signalled + 1
  /\ UNCHANGED <<service, page, startTask, stopTask, deaths, since, count, rows,
                 packets_lbl, history>>

(* Mutant: a loop gives up once the page shows the capture as stopped.     *)
ShowPacket_WhileCapturing(c) ==
  /\ startTask[c] = "listening" /\ since[c] + count[c] < signalled
  /\ LET p == since[c] + count[c] + 1
     IN rows' = IF stop_sensitive THEN [rows EXCEPT ![p] = @ + 1] ELSE rows
  /\ count' = [count EXCEPT ![c] = @ + 1]
  /\ packets_lbl' = count'[c]
  /\ UNCHANGED <<service, page, startTask, stopTask, deaths, signalled, since, history>>

(* A loop takes the next packet of its stream.                             *)
ShowPacket(c) ==
  /\ startTask[c] = "listening" /\ since[c] + count[c] < signalled
  /\ LET p == since[c] + count[c] + 1
     IN rows' = [rows EXCEPT ![p] = @ + 1]
  /\ count' = [count EXCEPT ![c] = @ + 1]
  /\ packets_lbl' = count'[c]
  /\ UNCHANGED <<service, page, startTask, stopTask, deaths, signalled, since, history>>

-----------------------------------------------------------------------------
StopTask(s, from, to) == /\ stopTask[s] = from
                         /\ stopTask' = [stopTask EXCEPT ![s] = to]

(* The buttons and the toast come first, the call after.                   *)
StopClicked(s) ==
  /\ stop_sensitive
  /\ \A r \in 1..(s - 1) : stopTask[r] # "unused"
  /\ StopTask(s, "unused", "connecting")
  /\ ShowStopped
  /\ crossed' = (crossed \/ \E c \in Starts : startTask[c] \in Unanswered)
  /\ UNCHANGED <<service, error_banner, startTask, deaths, loops, stopLost>>

StopNoBus(s) ==
  /\ StopTask(s, "connecting", "ended")
  /\ stopLost' = TRUE
  /\ UNCHANGED <<service, page, startTask, deaths, loops, crossed>>

(* Whatever the service answers, the task drops it.                        *)
StopServed(s) ==
  /\ StopTask(s, "connecting", "ended")
  /\ Service!End \/ (running = NULL /\ UNCHANGED service)
  /\ UNCHANGED <<page, startTask, deaths, loops, history>>

(* The daemon dies and is started again by its unit: its capture is gone,  *)
(* nobody tells the page, and a caller waiting for an answer gets an error.*)
DaemonDies ==
  /\ deaths < MaxDeaths
  /\ deaths' = deaths + 1
  /\ Service!End \/ (running = NULL /\ UNCHANGED service)
  /\ startTask' \in {startTask,
       [c \in Starts |-> IF startTask[c] = "accepted" THEN "rejected" ELSE startTask[c]]}
  /\ UNCHANGED <<page, stopTask, loops, history>>

-----------------------------------------------------------------------------
StartTaskStep(c) ==
  \/ StartNoBus(c) \/ StartServed(c) \/ StartRefused(c)
  \/ StartListens(c) \/ ListenFails(c) \/ ShowPacket(c)
StopTaskStep(s) == StopNoBus(s) \/ StopServed(s)

Next == \/ \E c \in Starts : StartClicked(c) \/ StartTaskStep(c)
        \/ \E s \in Stops : StopClicked(s) \/ StopTaskStep(s)
        \/ DaemonDies
        \/ PacketSignalled

Spec == Init /\ [][Next]_vars

-----------------------------------------------------------------------------
Settled == /\ \A c \in Starts : startTask[c] \notin Unanswered
           /\ \A s \in Stops : stopTask[s] # "connecting"

(* What the toast of the stop button says: once every task has settled,    *)
(* and every stop has reached the service, a page that shows the capture   *)
(* as stopped has no capture running behind it.                            *)
StoppedMeansStopped ==
  Settled /\ ~stopLost /\ start_sensitive => running = NULL

(* The page and the service can only disagree for a reason: a stop clicked *)
(* before a start was answered, a stop that never reached the bus, or a    *)
(* daemon that died.  A user who waits for each answer always sees the     *)
(* truth, through rejected starts and bus errors on the start side.        *)
DisagreementHasCause ==
  Settled /\ (stop_sensitive <=> running = NULL) => crossed \/ stopLost \/ deaths > 0

Listening == {c \in Starts : startTask[c] = "listening"}
Behind(c) == since[c] + count[c] < signalled

(* What the list shows: a packet has a row for every loop that listened    *)
(* when it was signalled, once these have come to it, and no row if none   *)
(* did.  More than one needs a capture that is over, since the service has *)
(* one at a time; and as long as there is one loop only, the first card    *)
(* counts the rows (views/capture.rs:393-429, a loop per accepted start).  *)
RowsMatchLoops ==
  /\ \A p \in 1..signalled :
       /\ rows[p] <= 1 + Cardinality(over)
       /\ (\A c \in Listening : ~Behind(c)) =>
            rows[p] = Cardinality({c \in Listening : since[c] < p})
  /\ Cardinality(Listening) = 1 =>
       packets_lbl = Cardinality({p \in Packets : rows[p] = 1})
=============================================================================

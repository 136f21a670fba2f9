-------------------------- MODULE CaptureViewProofs -------------------------
(***************************************************************************)
(* What holds of the capture page in front of the capture service, for any *)
(* number of clicks, deaths of the daemon and packets.                     *)
(***************************************************************************)
EXTENDS CaptureView, FiniteSetTheorems, TLAPS

-----------------------------------------------------------------------------
(* The inductive invariant, by parts.                                      *)

TypeOK ==
  /\ running \in Starts \cup {NULL} /\ over \subseteq Starts
  /\ start_sensitive \in BOOLEAN /\ stop_sensitive \in BOOLEAN
  /\ startTask \in [Starts -> Unanswered \cup {"unused", "listening", "ended"}]
  /\ stopTask \in [Stops -> {"unused", "connecting", "ended"}]
  /\ deaths \in Nat
  /\ signalled \in 0..MaxPackets
  /\ since \in [Starts -> Nat] /\ count \in [Starts -> Nat]
  /\ rows \in [Packets -> Nat] /\ packets_lbl \in Nat
  /\ crossed \in BOOLEAN /\ stopLost \in BOOLEAN

(* None of the causes of a disagreement has come up.                       *)
Calm == ~crossed /\ ~stopLost /\ deaths = 0

Waiting  == {c \in Starts : startTask[c] \in Unanswered}
Stopping == {s \in Stops : stopTask[s] = "connecting"}

(* The service has all that the page has asked of it.                      *)
Caught == stop_sensitive /\ \A c \in Waiting : startTask[c] = "accepted"

(* With no cause, at most one start and one stop are under way.  The page  *)
(* that offers the stop and waits for no start has a capture behind it and *)
(* no stop on its way; else the service has a capture just as long as the  *)
(* stop that ends it is on its way.                                        *)
Agreement ==
  /\ start_sensitive = ~stop_sensitive
  /\ Calm =>
       /\ \A c, d \in Waiting : c = d
       /\ Waiting # {} => stop_sensitive
       /\ \A s, r \in Stopping : s = r
       /\ Caught => running # NULL /\ Stopping = {}
       /\ ~Caught => (running # NULL <=> Stopping # {})

(* A loop is of a capture that runs or is over.                            *)
OwnCapture ==
  \A c \in Starts : startTask[c] \in {"accepted", "listening"} => c = running \/ c \in over

(* A loop has taken a stretch of the packets signalled, and a packet has a *)
(* row for each loop that has taken it.                                    *)
Took(c, p) == since[c] < p /\ p <= since[c] + count[c]
Takers(p)  == {c \in Starts : Took(c, p)}

Stretches ==
  /\ \A c \in Starts : /\ since[c] + count[c] <= signalled
                       /\ startTask[c] # "listening" => count[c] = 0
  /\ \A p \in Packets : rows[p] = Cardinality(Takers(p))

(* The label is the count of the only loop there is.                       *)
Label ==
  /\ Listening = {} => packets_lbl = 0
  /\ \A c \in Starts : Listening = {c} => packets_lbl = count[c]

Inv == TypeOK /\ Agreement /\ OwnCapture /\ Stretches /\ Label

-----------------------------------------------------------------------------
LEMMA StartTypes ==
  ASSUME TypeOK, NEW c \in Starts, NEW from, NEW to, StartTask(c, from, to)
  PROVE  /\ startTask[c] = from /\ startTask'[c] = to
         /\ \A d \in Starts \ {c} : startTask'[d] = startTask[d]
         /\ to \in Unanswered \cup {"unused", "listening", "ended"} =>
              startTask' \in [Starts -> Unanswered \cup {"unused", "listening", "ended"}]
  BY DEF TypeOK, StartTask

LEMMA StopTypes ==
  ASSUME TypeOK, NEW s \in Stops, NEW from, NEW to, StopTask(s, from, to)
  PROVE  /\ stopTask[s] = from /\ stopTask'[s] = to
         /\ \A r \in Stops \ {s} : stopTask'[r] = stopTask[r]
         /\ to \in {"unused", "connecting", "ended"} =>
              stopTask' \in [Stops -> {"unused", "connecting", "ended"}]
  BY DEF TypeOK, StopTask

LEMMA NextPacket ==
  ASSUME TypeOK, NEW c \in Starts, since[c] + count[c] < signalled
  PROVE  since[c] + count[c] + 1 \in Packets
  BY ViewAssumption DEF TypeOK, Packets

(* What a step may do to the service.                                      *)
LEMMA ServiceStep ==
  ASSUME TypeOK, [Next]_vars
  PROVE  \/ \E c \in Starts : Service!Start(c) \/ Service!FailedStart(c)
         \/ Service!End
         \/ UNCHANGED service
<1>1. ASSUME NEW c \in Starts, StartClicked(c) \/ StartTaskStep(c)
      PROVE  Service!Start(c) \/ Service!FailedStart(c) \/ UNCHANGED service
  BY <1>1 DEF StartClicked, StartTaskStep, StartNoBus, StartServed, StartRefused, StartListens,
              ListenFails, ShowPacket
<1>2. ASSUME NEW s \in Stops, StopClicked(s) \/ StopTaskStep(s)
      PROVE  Service!End \/ UNCHANGED service
  BY <1>2 DEF StopClicked, StopTaskStep, StopNoBus, StopServed
<1>3. CASE DaemonDies
  BY <1>3 DEF DaemonDies
<1>4. CASE PacketSignalled
  BY <1>4 DEF PacketSignalled
<1>5. CASE UNCHANGED vars
  BY <1>5 DEF vars
<1>6. QED
  BY <1>1, <1>2, <1>3, <1>4, <1>5 DEF Next

LEMMA ServiceTypes ==
  ASSUME TypeOK, [Next]_vars
  PROVE  /\ running' \in Starts \cup {NULL} /\ over' \subseteq Starts
         /\ over \subseteq over'
         /\ \A c \in Starts : c = running => c = running' \/ c \in over'
<1>1. running \in Starts \cup {NULL} /\ over \subseteq Starts /\ NULL \notin Starts
  BY ViewAssumption DEF TypeOK, Starts
<1>2. QED
  BY <1>1, ServiceStep DEF Service!Start, Service!FailedStart, Service!End, service

LEMMA StepTypes == TypeOK /\ [Next]_vars => TypeOK'
<1> SUFFICES ASSUME TypeOK, [Next]_vars PROVE TypeOK'
  OBVIOUS
<1> USE DEF TypeOK
<1>0. running' \in Starts \cup {NULL} /\ over' \subseteq Starts
  BY ServiceTypes
<1>1. ASSUME NEW c \in Starts, StartClicked(c) \/ StartNoBus(c) \/ StartRefused(c)
      PROVE  TypeOK'
  <2>1. startTask' \in [Starts -> Unanswered \cup {"unused", "listening", "ended"}]
    BY <1>1, StartTypes DEF StartClicked, StartNoBus, StartRefused, Unanswered
  <2>2. QED
    BY <1>0, <1>1, <2>1 DEF StartClicked, StartNoBus, StartRefused, ShowStarted, ShowStopped,
                            loops, history
<1>2. ASSUME NEW c \in Starts, StartServed(c) \/ ListenFails(c) PROVE TypeOK'
  <2>1. startTask' \in [Starts -> Unanswered \cup {"unused", "listening", "ended"}]
    BY <1>2, StartTypes DEF StartServed, ListenFails, Unanswered
  <2>2. QED
    BY <1>0, <1>2, <2>1 DEF StartServed, ListenFails, page, loops, history
<1>3. ASSUME NEW c \in Starts, StartListens(c) PROVE TypeOK'
  <2>1. startTask' \in [Starts -> Unanswered \cup {"unused", "listening", "ended"}]
    BY <1>3, StartTypes DEF StartListens
  <2>2. since' \in [Starts -> Nat]
    BY <1>3, ViewAssumption DEF StartListens
  <2>3. QED
    BY <1>0, <1>3, <2>1, <2>2 DEF StartListens, page, history
<1>4. ASSUME NEW c \in Starts, ShowPacket(c) PROVE TypeOK'
  <2>1. since[c] + count[c] + 1 \in Packets
    BY <1>4, NextPacket DEF ShowPacket
  <2>2. rows' \in [Packets -> Nat]
    BY <1>4, <2>1 DEF ShowPacket
  <2>3. count' \in [Starts -> Nat] /\ packets_lbl' \in Nat
    BY <1>4 DEF ShowPacket
  <2>4. QED
    BY <1>0, <1>4, <2>2, <2>3 DEF ShowPacket, page, history
<1>5. ASSUME NEW s \in Stops, StopClicked(s) \/ StopTaskStep(s) PROVE TypeOK'
  <2>1. stopTask' \in [Stops -> {"unused", "connecting", "ended"}]
    BY <1>5, StopTypes DEF StopClicked, StopTaskStep, StopNoBus, StopServed
  <2>2. QED
    BY <1>0, <1>5, <2>1 DEF StopClicked, StopTaskStep, StopNoBus, StopServed, ShowStopped,
                            page, loops, history
<1>6. CASE DaemonDies
  <2>1. startTask' \in [Starts -> Unanswered \cup {"unused", "listening", "ended"}]
    BY <1>6 DEF DaemonDies, Unanswered
  <2>2. QED
    BY <1>0, <1>6, <2>1 DEF DaemonDies, page, loops, history
<1>7. CASE PacketSignalled
  <2>1. signalled' \in 0..MaxPackets
    BY <1>7, ViewAssumption DEF PacketSignalled
  <2>2. QED
    BY <1>0, <1>7, <2>1 DEF PacketSignalled, page, history
<1>8. CASE UNCHANGED vars
  BY <1>8 DEF vars, service, page, loops, history
<1>9. QED
  BY <1>1, <1>2, <1>3, <1>4, <1>5, <1>6, <1>7, <1>8 DEF Next, StartTaskStep

-----------------------------------------------------------------------------
(* The page and the service.                                               *)

LEMMA StepAgreement == TypeOK /\ Agreement /\ [Next]_vars => Agreement'
<1> SUFFICES ASSUME TypeOK, Agreement, [Next]_vars PROVE Agreement'
  OBVIOUS
<1>0. /\ running \in Starts \cup {NULL} /\ NULL \notin Starts
      /\ startTask \in [Starts -> Unanswered \cup {"unused", "listening", "ended"}]
      /\ stopTask \in [Stops -> {"unused", "connecting", "ended"}]
      /\ start_sensitive \in BOOLEAN /\ stop_sensitive \in BOOLEAN
      /\ deaths \in Nat
  BY ViewAssumption DEF TypeOK, Starts
<1>a. start_sensitive = ~stop_sensitive
  BY DEF Agreement
<1>b. ASSUME Calm
      PROVE  /\ \A c, d \in Waiting : c = d
             /\ Waiting # {} => stop_sensitive
             /\ \A s, r \in Stopping : s = r
             /\ Caught => running # NULL /\ Stopping = {}
             /\ ~Caught => (running # NULL <=> Stopping # {})
  BY <1>b DEF Agreement
<1> USE DEF Waiting, Stopping, Caught, Unanswered
<1>1. ASSUME NEW c \in Starts, StartClicked(c) PROVE Agreement'
  <2>1. /\ start_sensitive /\ start_sensitive' = FALSE /\ stop_sensitive' = TRUE
        /\ startTask[c] = "unused" /\ startTask'[c] = "connecting"
        /\ \A d \in Starts \ {c} : startTask'[d] = startTask[d]
        /\ UNCHANGED <<running, stopTask, deaths, crossed, stopLost>>
    BY <1>1, StartTypes DEF StartClicked, ShowStarted, service, history
  <2>2. Calm' => Calm
    BY <2>1 DEF Calm
  <2>3. Calm => Waiting = {} /\ ~Caught
    BY <2>1, <1>0, <1>a, <1>b
  <2>4. Calm => Waiting' = {c}
    BY <2>1, <2>3
  <2>5. Stopping' = Stopping /\ ~Caught'
    BY <2>1
  <2>6. QED
    BY <2>1, <2>2, <2>3, <2>4, <2>5, <1>b DEF Agreement
<1>2. ASSUME NEW c \in Starts, StartNoBus(c) \/ StartRefused(c) PROVE Agreement'
  <2>1. /\ start_sensitive' = TRUE /\ stop_sensitive' = FALSE
        /\ startTask[c] \in {"connecting", "rejected"} /\ startTask'[c] = "ended"
        /\ \A d \in Starts \ {c} : startTask'[d] = startTask[d]
        /\ UNCHANGED <<running, stopTask, deaths, crossed, stopLost>>
    BY <1>2, StartTypes DEF StartNoBus, StartRefused, ShowStopped, service, history
  <2>2. Calm' => Calm
    BY <2>1 DEF Calm
  <2>3. ~Caught /\ c \in Waiting
    BY <2>1
  <2>4. Calm => Waiting' = {}
    BY <2>1, <2>3, <1>b
  <2>5. Stopping' = Stopping /\ ~Caught'
    BY <2>1
  <2>6. QED
    BY <2>1, <2>2, <2>3, <2>4, <2>5, <1>b DEF Agreement
<1>3. ASSUME NEW c \in Starts, StartServed(c) PROVE Agreement'
  <2>1. /\ startTask[c] = "connecting" /\ startTask'[c] \in {"accepted", "rejected"}
        /\ \A d \in Starts \ {c} : startTask'[d] = startTask[d]
        /\ UNCHANGED <<start_sensitive, stop_sensitive, stopTask, deaths, crossed, stopLost>>
    BY <1>3, StartTypes DEF StartServed, page, history
  <2>2. (Calm' => Calm) /\ c \in Waiting /\ ~Caught /\ Stopping' = Stopping /\ Waiting' = Waiting
    BY <2>1 DEF Calm
  <2>3. CASE startTask'[c] = "accepted"
    <3>1. running = NULL /\ running' = c
      BY <1>3, <2>3, StartTypes DEF StartServed, Service!Start
    <3>2. Calm => Caught'
      BY <2>1, <2>2, <2>3, <1>b
    <3>3. QED
      BY <2>1, <2>2, <3>1, <3>2, <1>0, <1>a, <1>b DEF Agreement
  <2>4. CASE startTask'[c] = "rejected"
    <3>1. running' = running
      BY <1>3, <2>4, StartTypes DEF StartServed, Service!FailedStart, service
    <3>2. ~Caught'
      BY <2>2, <2>4
    <3>3. QED
      BY <2>1, <2>2, <3>1, <3>2, <1>a, <1>b DEF Agreement
  <2>5. QED
    BY <2>1, <2>3, <2>4
<1>4. ASSUME NEW c \in Starts, StartListens(c) \/ ListenFails(c) PROVE Agreement'
  <2>1. /\ startTask[c] = "accepted" /\ startTask'[c] \in {"listening", "ended"}
        /\ \A d \in Starts \ {c} : startTask'[d] = startTask[d]
        /\ UNCHANGED <<running, start_sensitive, stop_sensitive, stopTask, deaths, crossed,
                       stopLost>>
    BY <1>4, StartTypes DEF StartListens, ListenFails, service, page, history
  <2>2. (Calm' => Calm) /\ c \in Waiting /\ Stopping' = Stopping
    BY <2>1 DEF Calm
  <2>3. Calm => Caught /\ Waiting' = {}
    BY <2>1, <2>2, <1>b
  <2>4. Calm => Caught'
    BY <2>1, <2>3
  <2>5. QED
    BY <2>1, <2>2, <2>3, <2>4, <1>a, <1>b DEF Agreement
<1>5. ASSUME UNCHANGED <<running, start_sensitive, stop_sensitive, startTask, stopTask, deaths,
                         crossed, stopLost>>
      PROVE  Agreement'
  BY <1>5 DEF Agreement, Calm
<1>6. ASSUME NEW c \in Starts, ShowPacket(c) PROVE Agreement'
  BY <1>6, <1>5 DEF ShowPacket, service, page, history
<1>7. ASSUME NEW s \in Stops, StopClicked(s) PROVE Agreement'
  <2>1. /\ stop_sensitive /\ start_sensitive' = TRUE /\ stop_sensitive' = FALSE
        /\ stopTask[s] = "unused" /\ stopTask'[s] = "connecting"
        /\ \A r \in Stops \ {s} : stopTask'[r] = stopTask[r]
        /\ crossed' = (crossed \/ \E c \in Starts : startTask[c] \in Unanswered)
        /\ UNCHANGED <<running, startTask, deaths, stopLost>>
    BY <1>7, StopTypes DEF StopClicked, ShowStopped, service
  <2>2. Calm' => Calm /\ Waiting = {} /\ Waiting' = {}
    BY <2>1 DEF Calm
  <2>3. Calm' => Caught /\ Stopping' = {s}
    BY <2>1, <2>2, <1>b
  <2>4. ~Caught'
    BY <2>1
  <2>5. QED
    BY <2>1, <2>2, <2>3, <2>4, <1>b DEF Agreement
<1>8. ASSUME NEW s \in Stops, StopNoBus(s) PROVE Agreement'
  <2>1. ~Calm' /\ UNCHANGED <<start_sensitive, stop_sensitive>>
    BY <1>8 DEF StopNoBus, Calm, page
  <2>2. QED
    BY <2>1, <1>a DEF Agreement
<1>9. ASSUME NEW s \in Stops, StopServed(s) PROVE Agreement'
  <2>1. /\ stopTask[s] = "connecting" /\ stopTask'[s] = "ended"
        /\ \A r \in Stops \ {s} : stopTask'[r] = stopTask[r]
        /\ running' = NULL
        /\ UNCHANGED <<start_sensitive, stop_sensitive, startTask, deaths, crossed, stopLost>>
    BY <1>9, StopTypes DEF StopServed, Service!End, service, page, history
  <2>2. (Calm' => Calm) /\ s \in Stopping /\ Waiting' = Waiting
    BY <2>1 DEF Calm
  <2>3. Calm => ~Caught /\ Stopping' = {}
    BY <2>1, <2>2, <1>b
  <2>4. Calm => ~Caught'
    BY <2>1, <2>3
  <2>5. QED
    BY <2>1, <2>2, <2>3, <2>4, <1>a, <1>b DEF Agreement
<1>10. CASE DaemonDies
  <2>1. ~Calm' /\ UNCHANGED <<start_sensitive, stop_sensitive>>
    BY <1>10, <1>0 DEF DaemonDies, Calm, page
  <2>2. QED
    BY <2>1, <1>a DEF Agreement
<1>11. CASE PacketSignalled
  BY <1>11, <1>5 DEF PacketSignalled, service, page, history
<1>12. CASE UNCHANGED vars
  BY <1>12, <1>5 DEF vars, service, page, history
<1>13. QED
  BY <1>1, <1>2, <1>3, <1>4, <1>6, <1>7, <1>8, <1>9, <1>10, <1>11, <1>12
     DEF Next, StartTaskStep, StopTaskStep

LEMMA DisagreementExplained == TypeOK /\ Agreement => DisagreementHasCause
<1> SUFFICES ASSUME TypeOK, Agreement, Settled, Calm
             PROVE  stop_sensitive <=> running # NULL
  BY DEF DisagreementHasCause, Calm, TypeOK
<1>1. Waiting = {} /\ Stopping = {}
  BY DEF Settled, Waiting, Stopping
<1>2. QED
  BY <1>1 DEF Agreement, Caught, TypeOK

-----------------------------------------------------------------------------
(* Loops and their captures.                                               *)

LEMMA StepOwnCapture == TypeOK /\ OwnCapture /\ [Next]_vars => OwnCapture'
<1> SUFFICES ASSUME TypeOK, OwnCapture, [Next]_vars,
                    NEW c \in Starts, startTask'[c] \in {"accepted", "listening"}
             PROVE  c = running' \/ c \in over'
  BY DEF OwnCapture
<1>1. CASE startTask[c] \in {"accepted", "listening"}
  BY <1>1, ServiceTypes DEF OwnCapture
<1>2. CASE startTask[c] \notin {"accepted", "listening"}
  <2>1. ASSUME NEW d \in Starts, StartClicked(d) \/ StartTaskStep(d)
        PROVE  c = running' \/ c \in over'
    <3>1. CASE StartServed(d)
      <4>1. c = d /\ startTask'[d] = "accepted"
        BY <1>2, <3>1, StartTypes DEF StartServed
      <4>2. QED
        BY <3>1, <4>1, StartTypes DEF StartServed, Service!Start
    <3>2. CASE ~StartServed(d)
      BY <1>2, <2>1, <3>2, StartTypes DEF StartClicked, StartTaskStep, StartNoBus,
         StartRefused, StartListens, ListenFails, ShowPacket
    <3>3. QED
      BY <3>1, <3>2
  <2>2. ASSUME NEW s \in Stops, StopClicked(s) \/ StopTaskStep(s) PROVE FALSE
    BY <1>2, <2>2 DEF StopClicked, StopTaskStep, StopNoBus, StopServed
  <2>3. CASE DaemonDies
    BY <1>2, <2>3 DEF DaemonDies, TypeOK
  <2>4. CASE PacketSignalled \/ UNCHANGED vars
    BY <1>2, <2>4 DEF PacketSignalled, vars
  <2>5. QED
    BY <2>1, <2>2, <2>3, <2>4 DEF Next
<1>3. QED
  BY <1>1, <1>2

-----------------------------------------------------------------------------
(* Rows.                                                                   *)

LEMMA StartsFinite ==
  ASSUME NEW S \in SUBSET Starts
  PROVE  IsFiniteSet(S) /\ Cardinality(S) \in Nat
<1>1. IsFiniteSet(Starts)
  BY ViewAssumption, FS_Interval DEF Starts
<1>2. QED
  BY <1>1, FS_Subset, FS_CardinalityType

LEMMA FewerStarts ==
  ASSUME NEW S \in SUBSET Starts, NEW T \in SUBSET S
  PROVE  Cardinality(T) <= Cardinality(S)
  BY StartsFinite, FS_Subset

LEMMA OneMoreStart ==
  ASSUME NEW S \in SUBSET Starts, NEW c \in Starts, c \notin S,
         NEW T \in SUBSET Starts, \A d \in Starts : d \in T <=> d \in S \/ d = c
  PROVE  Cardinality(T) = Cardinality(S) + 1
<1>1. IsFiniteSet(S)
  BY StartsFinite
<1>2. T = S \cup {c}
  OBVIOUS
<1>3. QED
  BY <1>1, <1>2, FS_AddElement

(* A stretch of the packets has as many as it is long.                     *)
LEMMA StretchLength ==
  ASSUME NEW a \in Nat, NEW n \in Nat
  PROVE  Cardinality((a + 1)..(a + n)) = n
<1>1. Cardinality((a + 1)..(a + n)) = IF a + 1 > a + n THEN 0 ELSE (a + n) - (a + 1) + 1
  BY FS_Interval
<1>2. QED
  BY <1>1

LEMMA StepStretches == TypeOK /\ Stretches /\ [Next]_vars => Stretches'
<1> SUFFICES ASSUME TypeOK, Stretches, [Next]_vars PROVE Stretches'
  OBVIOUS
<1>0. /\ since \in [Starts -> Nat] /\ count \in [Starts -> Nat] /\ signalled \in Nat
      /\ startTask \in [Starts -> Unanswered \cup {"unused", "listening", "ended"}]
      /\ rows \in [Packets -> Nat] /\ \A p \in Packets : p \in Nat
  BY ViewAssumption DEF TypeOK, Packets
<1>a. \A c \in Starts : /\ since[c] + count[c] <= signalled
                        /\ startTask[c] # "listening" => count[c] = 0
  BY DEF Stretches
<1>b. \A p \in Packets : rows[p] = Cardinality(Takers(p))
  BY DEF Stretches
<1>1. ASSUME UNCHANGED <<since, count, rows>>, signalled' \in Nat, signalled' >= signalled,
             \A c \in Starts : startTask'[c] # "listening" => startTask[c] # "listening"
      PROVE  Stretches'
  <2>1. \A c \in Starts : /\ since'[c] + count'[c] <= signalled'
                          /\ startTask'[c] # "listening" => count'[c] = 0
    BY <1>0, <1>a, <1>1
  <2>2. \A p \in Packets : Takers(p)' = Takers(p)
    BY <1>1 DEF Takers, Took
  <2>3. QED
    BY <1>1, <1>b, <2>1, <2>2 DEF Stretches
<1>2. ASSUME NEW c \in Starts,
             StartClicked(c) \/ (StartTaskStep(c) /\ ~StartListens(c) /\ ~ShowPacket(c))
      PROVE  Stretches'
  <2>1. UNCHANGED <<since, count, rows, signalled>>
    BY <1>2 DEF StartClicked, StartTaskStep, StartNoBus, StartServed, StartRefused, ListenFails,
                loops
  <2>2. \A d \in Starts : startTask'[d] # "listening" => startTask[d] # "listening"
    BY <1>2, StartTypes DEF StartClicked, StartTaskStep, StartNoBus, StartServed, StartRefused,
                            ListenFails
  <2>3. QED
    BY <1>0, <1>1, <2>1, <2>2
<1>3. ASSUME NEW c \in Starts, StartListens(c) PROVE Stretches'
  <2>1. /\ startTask[c] = "accepted" /\ startTask'[c] = "listening"
        /\ \A d \in Starts \ {c} : startTask'[d] = startTask[d]
        /\ since' = [since EXCEPT ![c] = signalled]
        /\ UNCHANGED <<signalled, count, rows>>
    BY <1>3, StartTypes DEF StartListens
  <2>2. count[c] = 0
    BY <2>1, <1>a
  <2>3. \A d \in Starts : /\ since'[d] + count'[d] <= signalled'
                          /\ startTask'[d] # "listening" => count'[d] = 0
    BY <2>1, <2>2, <1>0, <1>a
  <2>4. \A p \in Packets, d \in Starts : Took(d, p)' <=> Took(d, p)
    BY <2>1, <2>2, <1>0 DEF Took
  <2>5. \A p \in Packets : Takers(p)' = Takers(p)
    BY <2>4 DEF Takers
  <2>6. QED
    BY <2>1, <2>3, <2>5, <1>b DEF Stretches
<1>4. ASSUME NEW c \in Starts, ShowPacket(c) PROVE Stretches'
  <2> DEFINE q == since[c] + count[c] + 1
  <2>1. /\ startTask[c] = "listening" /\ q <= signalled /\ q \in Packets
        /\ rows' = [rows EXCEPT ![q] = @ + 1] /\ count' = [count EXCEPT ![c] = @ + 1]
        /\ UNCHANGED <<startTask, signalled, since>>
    BY <1>4, <1>0, NextPacket DEF ShowPacket
  <2>2. \A d \in Starts : /\ since'[d] + count'[d] <= signalled'
                          /\ startTask'[d] # "listening" => count'[d] = 0
    BY <2>1, <1>0, <1>a
  <2>3. ASSUME NEW p \in Packets, NEW d \in Starts
        PROVE  Took(d, p)' <=> Took(d, p) \/ (d = c /\ p = q)
    BY <2>1, <1>0 DEF Took
  <2>4. ~Took(c, q)
    BY <1>0 DEF Took
  <2> HIDE DEF q
  <2>5. ASSUME NEW p \in Packets PROVE rows'[p] = Cardinality(Takers(p))'
    <3>1. Takers(p) \in SUBSET Starts /\ Takers(p)' \in SUBSET Starts
      BY DEF Takers
    <3>2. \A d \in Starts : d \in Takers(p)' <=> d \in Takers(p) \/ (d = c /\ p = q)
      BY <2>3 DEF Takers
    <3>3. CASE p = q
      <4>1. c \notin Takers(p)
        BY <2>4, <3>3 DEF Takers
      <4>2. \A d \in Starts : d \in Takers(p)' <=> d \in Takers(p) \/ d = c
        BY <3>2, <3>3
      <4>3. Cardinality(Takers(p)') = Cardinality(Takers(p)) + 1
        BY <3>1, <4>1, <4>2, OneMoreStart
      <4>4. QED
        BY <4>3, <3>3, <2>1, <1>0, <1>b
    <3>4. CASE p # q
      <4>1. Takers(p)' = Takers(p)
        BY <3>1, <3>2, <3>4
      <4>2. QED
        BY <4>1, <3>4, <2>1, <1>0, <1>b
    <3>5. QED
      BY <3>3, <3>4
  <2>6. QED
    BY <2>2, <2>5 DEF Stretches
<1>5. ASSUME NEW s \in Stops, StopClicked(s) \/ StopTaskStep(s) PROVE Stretches'
  BY <1>0, <1>1, <1>5 DEF StopClicked, StopTaskStep, StopNoBus, StopServed, loops
<1>6. CASE DaemonDies
  BY <1>0, <1>1, <1>6 DEF DaemonDies, loops
<1>7. CASE PacketSignalled
  BY <1>0, <1>1, <1>7 DEF PacketSignalled
<1>8. CASE UNCHANGED vars
  BY <1>0, <1>1, <1>8 DEF vars, loops
<1>9. QED
  BY <1>2, <1>3, <1>4, <1>5, <1>6, <1>7, <1>8 DEF Next, StartTaskStep

LEMMA StepLabel == TypeOK /\ Stretches /\ Label /\ [Next]_vars => Label'
<1> SUFFICES ASSUME TypeOK, Stretches, Label, [Next]_vars PROVE Label'
  OBVIOUS
<1>0. count \in [Starts -> Nat]
  BY DEF TypeOK
<1>1. ASSUME UNCHANGED <<count, packets_lbl>>,
             \A c \in Starts : startTask'[c] = "listening" <=> startTask[c] = "listening"
      PROVE  Label'
  <2>1. Listening' = Listening
    BY <1>1 DEF Listening
  <2>2. QED
    BY <1>1, <2>1 DEF Label
<1>2. ASSUME NEW c \in Starts,
             StartClicked(c) \/ (StartTaskStep(c) /\ ~StartListens(c) /\ ~ShowPacket(c))
      PROVE  Label'
  <2>1. UNCHANGED <<count, packets_lbl>>
    BY <1>2 DEF StartClicked, StartTaskStep, StartNoBus, StartServed, StartRefused, ListenFails,
                loops
  <2>2. \A d \in Starts : startTask'[d] = "listening" <=> startTask[d] = "listening"
    BY <1>2, StartTypes DEF StartClicked, StartTaskStep, StartNoBus, StartServed, StartRefused,
                            ListenFails
  <2>3. QED
    BY <1>1, <2>1, <2>2
<1>3. ASSUME NEW c \in Starts, StartListens(c) PROVE Label'
  <2>1. /\ startTask[c] = "accepted" /\ startTask'[c] = "listening"
        /\ \A d \in Starts \ {c} : startTask'[d] = startTask[d]
        /\ UNCHANGED <<count, packets_lbl>>
    BY <1>3, StartTypes DEF StartListens
  <2>2. Listening' = Listening \cup {c} /\ c \notin Listening
    BY <2>1 DEF Listening
  <2>3. count[c] = 0
    BY <2>1 DEF Stretches
  <2>4. ASSUME NEW d \in Starts, Listening' = {d} PROVE packets_lbl' = count'[d]
    <3>1. Listening = {} /\ d = c
      BY <2>2, <2>4
    <3>2. QED
      BY <3>1, <2>1, <2>3 DEF Label
  <2>5. QED
    BY <2>2, <2>4 DEF Label
<1>4. ASSUME NEW c \in Starts, ShowPacket(c) PROVE Label'
  <2>1. /\ c \in Listening /\ Listening' = Listening
        /\ packets_lbl' = count'[c]
    BY <1>4 DEF ShowPacket, Listening
  <2>2. QED
    BY <2>1 DEF Label
<1>5. ASSUME NEW s \in Stops, StopClicked(s) \/ StopTaskStep(s) PROVE Label'
  BY <1>1, <1>5 DEF StopClicked, StopTaskStep, StopNoBus, StopServed, loops
<1>6. CASE DaemonDies
  BY <1>1, <1>6 DEF DaemonDies, loops, TypeOK
<1>7. CASE PacketSignalled
  BY <1>1, <1>7 DEF PacketSignalled
<1>8. CASE UNCHANGED vars
  BY <1>1, <1>8 DEF vars, loops
<1>9. QED
  BY <1>2, <1>3, <1>4, <1>5, <1>6, <1>7, <1>8 DEF Next, StartTaskStep

LEMMA RowsExplained == TypeOK /\ OwnCapture /\ Stretches /\ Label => RowsMatchLoops
<1> SUFFICES ASSUME TypeOK, OwnCapture, Stretches, Label PROVE RowsMatchLoops
  OBVIOUS
<1>0. /\ since \in [Starts -> Nat] /\ count \in [Starts -> Nat] /\ signalled \in 0..MaxPackets
      /\ MaxPackets \in Nat /\ over \subseteq Starts /\ Packets = 1..MaxPackets
  BY ViewAssumption DEF TypeOK, Packets
<1>a. \A c \in Starts : /\ since[c] + count[c] <= signalled
                        /\ startTask[c] # "listening" => count[c] = 0
  BY DEF Stretches
<1>b. Listening \in SUBSET Starts
  BY DEF Listening
<1>c. \A c \in Starts, p \in Packets : Took(c, p) => c \in Listening
  BY <1>0, <1>a DEF Took, Listening
<1>1. ASSUME NEW p \in 1..signalled PROVE rows[p] <= 1 + Cardinality(over)
  <2>1. p \in Packets /\ rows[p] = Cardinality(Takers(p))
    BY <1>0 DEF Stretches
  <2>2. Takers(p) \in SUBSET Starts /\ \A c \in Takers(p) : c = running \/ c \in over
    BY <2>1, <1>c DEF Takers, OwnCapture, Listening
  <2>3. IsFiniteSet(over) /\ Cardinality(over) \in Nat
    BY <1>0, StartsFinite
  <2>4. /\ IsFiniteSet(over \cup {running})
        /\ Cardinality(over \cup {running}) <= Cardinality(over) + 1
    BY <2>3, FS_AddElement
  <2>5. Cardinality(Takers(p)) <= Cardinality(over \cup {running})
    BY <2>2, <2>4, FS_Subset
  <2>6. Cardinality(Takers(p)) \in Nat /\ Cardinality(over \cup {running}) \in Nat
    BY <2>2, <2>4, StartsFinite, FS_CardinalityType
  <2>7. QED
    BY <2>1, <2>3, <2>4, <2>5, <2>6
<1>2. ASSUME NEW p \in 1..signalled, \A c \in Listening : ~Behind(c)
      PROVE  rows[p] = Cardinality({c \in Listening : since[c] < p})
  <2>1. p \in Packets /\ p \in Nat /\ rows[p] = Cardinality(Takers(p))
    BY <1>0 DEF Stretches
  <2>2. \A c \in Listening : since[c] + count[c] = signalled
    BY <1>2, <1>0, <1>a, <1>b DEF Behind
  <2>3. \A c \in Starts : Took(c, p) <=> c \in Listening /\ since[c] < p
    BY <2>1, <2>2, <1>0, <1>b, <1>c DEF Took
  <2>4. Takers(p) = {c \in Listening : since[c] < p}
    BY <2>3, <1>b DEF Takers
  <2>5. QED
    BY <2>1, <2>4
<1>3. ASSUME Cardinality(Listening) = 1
      PROVE  packets_lbl = Cardinality({p \in Packets : rows[p] = 1})
  <2>1. PICK c \in Starts : Listening = {c}
    <3>1. IsFiniteSet(Listening)
      BY <1>b, StartsFinite
    <3>2. PICK c : Listening = {c}
      BY <1>3, <3>1, FS_Singleton
    <3>3. QED
      BY <3>2, <1>b
  <2>2. ASSUME NEW p \in Packets PROVE rows[p] = 1 <=> Took(c, p)
    <3>1. rows[p] = Cardinality(Takers(p)) /\ Takers(p) \subseteq {c}
      BY <2>1, <1>c DEF Stretches, Takers
    <3>2. CASE Took(c, p)
      <4>1. Takers(p) = {c}
        BY <3>1, <3>2 DEF Takers
      <4>2. QED
        BY <3>1, <3>2, <4>1, FS_Singleton
    <3>3. CASE ~Took(c, p)
      <4>1. Takers(p) = {}
        BY <3>1, <3>3 DEF Takers
      <4>2. QED
        BY <3>1, <3>3, <4>1, FS_EmptySet
    <3>4. QED
      BY <3>2, <3>3
  <2>3. \A p \in Int : p \in (since[c] + 1)..(since[c] + count[c]) <=> p \in Packets /\ Took(c, p)
    BY <1>0, <1>a DEF Took
  <2>4. {p \in Packets : rows[p] = 1} = (since[c] + 1)..(since[c] + count[c])
    BY <2>2, <2>3, <1>0
  <2>5. Cardinality((since[c] + 1)..(since[c] + count[c])) = count[c]
    BY <1>0, StretchLength
  <2>6. QED
    BY <2>1, <2>4, <2>5 DEF Label
<1>4. QED
  BY <1>1, <1>2, <1>3 DEF RowsMatchLoops

-----------------------------------------------------------------------------
(* The theorems.                                                           *)

LEMMA InitInv == Init => Inv
<1> SUFFICES ASSUME Init PROVE Inv
  OBVIOUS
<1>0. /\ running = NULL /\ over = {} /\ start_sensitive = TRUE /\ stop_sensitive = FALSE
      /\ startTask = [c \in Starts |-> "unused"] /\ stopTask = [s \in Stops |-> "unused"]
      /\ deaths = 0 /\ signalled = 0
      /\ since = [c \in Starts |-> 0] /\ count = [c \in Starts |-> 0]
      /\ rows = [p \in Packets |-> 0] /\ packets_lbl = 0
      /\ crossed = FALSE /\ stopLost = FALSE
  BY DEF Init, Service!Init
<1>1. TypeOK
  <2>1. /\ startTask \in [Starts -> Unanswered \cup {"unused", "listening", "ended"}]
        /\ stopTask \in [Stops -> {"unused", "connecting", "ended"}]
    BY <1>0
  <2>2. since \in [Starts -> Nat] /\ count \in [Starts -> Nat] /\ rows \in [Packets -> Nat]
    BY <1>0
  <2>3. signalled \in 0..MaxPackets
    BY <1>0, ViewAssumption
  <2>4. QED
    BY <1>0, <2>1, <2>2, <2>3 DEF TypeOK
<1>2. Waiting = {} /\ Stopping = {} /\ Listening = {}
  BY <1>0 DEF Waiting, Stopping, Listening, Unanswered
<1>3. Agreement
  BY <1>0, <1>2 DEF Agreement, Caught
<1>4. OwnCapture
  BY <1>0 DEF OwnCapture
<1>5. Stretches
  <2>1. ASSUME NEW p \in Packets PROVE Takers(p) = {}
    BY <1>0 DEF Takers, Took, Packets
  <2>2. QED
    BY <1>0, <2>1, FS_EmptySet DEF Stretches
<1>6. Label
  BY <1>0, <1>2 DEF Label
<1>7. QED
  BY <1>1, <1>3, <1>4, <1>5, <1>6 DEF Inv

LEMMA StepInv == Inv /\ [Next]_vars => Inv'
<1> SUFFICES ASSUME Inv, [Next]_vars PROVE Inv'
  OBVIOUS
<1>1. TypeOK /\ Agreement /\ OwnCapture /\ Stretches /\ Label
  BY DEF Inv
<1>2. TypeOK' /\ Agreement' /\ OwnCapture' /\ Stretches' /\ Label'
  BY <1>1, StepTypes, StepAgreement, StepOwnCapture, StepStretches, StepLabel
<1>3. QED
  BY <1>2 DEF Inv

LEMMA Invariant == Spec => []Inv
  BY InitInv, StepInv, PTL DEF Spec

(* The page and the service disagree only when a stop was clicked before a *)
(* start was answered, a stop was lost or the daemon died.                 *)
THEOREM DisagreementsExplained == Spec => []DisagreementHasCause
<1>1. Inv => DisagreementHasCause
  BY DisagreementExplained DEF Inv
<1>2. QED
  BY <1>1, Invariant, PTL

(* A packet has a row for every loop that listened when it was signalled,  *)
(* and more than one only when a capture is over.                          *)
THEOREM RowsExplainedByLoops == Spec => []RowsMatchLoops
<1>1. Inv => RowsMatchLoops
  BY RowsExplained DEF Inv
<1>2. QED
  BY <1>1, Invariant, PTL

=============================================================================

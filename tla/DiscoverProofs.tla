---------------------------- MODULE DiscoverProofs --------------------------
(***************************************************************************)
(* What holds of the discovery daemon for any number of calls at once, any *)
(* subnet, cap, chunk size and deadlines, whatever the segment carries.    *)
(***************************************************************************)
EXTENDS Discover, FiniteSetTheorems, TLAPS

-----------------------------------------------------------------------------
(* The inductive invariant, by parts.                                      *)

Frames == Heard \cup {build_arp_request}
Hosts  == Alive \cup {frame.sender : frame \in Frames}

TypeOK ==
  /\ pc \in [Calls -> {"idle", "send", "listen", "drain", "resolve"}]
  /\ deadline \in [Calls -> Nat] /\ listen_until \in [Calls -> Nat]
  /\ pass \in [Calls -> 0..2] /\ at \in [Calls -> Nat]
  /\ rx \in [Calls -> SUBSET Frames] /\ found \in [Calls -> SUBSET Hosts]
  /\ outcome \in [Calls -> {"none", "hosts", "error"}]
  /\ last_scan \subseteq Hosts /\ cache \subseteq Alive
  /\ clock \in Nat
  /\ asked \in [Calls -> [subnet_hosts -> Nat]]
  /\ known \in [Calls -> SUBSET Alive]

(* A scan that runs or has answered holds all that the cache told it, and  *)
(* no call ever holds us or an address that names no host.                 *)
Holds ==
  \A c \in Calls :
    /\ pc[c] # "idle" \/ outcome[c] = "hosts" => known[c] \subseteq found[c]
    /\ found[c] \cap (Invalid \cup {Self}) = {}

ChunkOf(x) == Rank(x) \div ChunkSize + 1

(* How often each address has been asked: in the first pass once in the    *)
(* chunks behind, and in the second pass once more; but a second pass that *)
(* begins with addresses not asked begins too late to ask any.             *)
FirstPass(c) ==
  \A x \in subnet_hosts : asked[c][x] = IF ChunkOf(x) < at[c] THEN 1 ELSE 0

SecondPass(c) ==
  \A x \in subnet_hosts : asked[c][x] = IF ChunkOf(x) < at[c] THEN 2 ELSE 1

TooLate(c) == /\ clock >= deadline[c]
              /\ \A x \in subnet_hosts : asked[c][x] <= 1

Fair(c) ==
  \A x, y \in subnet_hosts :
    asked[c][x] <= 2 /\ (asked[c][x] = 2 => asked[c][y] > 0)

Passes ==
  \A c \in Calls :
    /\ pc[c] \in {"send", "listen"} =>
         /\ pass[c] \in {1, 2} /\ at[c] >= 1
         /\ pass[c] = 1 => FirstPass(c)
         /\ pass[c] = 2 => SecondPass(c) \/ TooLate(c)
    /\ pc[c] \in {"idle", "resolve"} => at[c] = 1
    /\ pc[c] = "idle" /\ outcome[c] = "none" => \A x \in subnet_hosts : asked[c][x] = 0
    /\ Fair(c)

Inv == TypeOK /\ Holds /\ Passes

-----------------------------------------------------------------------------
(* Addresses and their chunks.                                             *)

LEMMA HostsFinite ==
  /\ subnet_hosts \subseteq Nat
  /\ \A S \in SUBSET subnet_hosts : IsFiniteSet(S) /\ Cardinality(S) \in Nat
<1> DEFINE capped == IF BlockSize - 1 < HostCap THEN BlockSize - 1 ELSE HostCap
           span == 1..(capped - 1)
<1>1. BlockSize \in Nat \ {0} /\ HostCap \in Nat
  BY DiscoverAssumption DEF BlockSize
<1>2. Self \in Nat
  BY DiscoverAssumption
<1>3. Network \in Nat
  BY <1>1, <1>2 DEF Network
<1>4. capped \in Int
  BY <1>1
<1> HIDE DEF capped
<1>5. subnet_hosts = {Network + offset : offset \in span} \ {Self}
  BY DEF subnet_hosts, capped
<1>6. \A x \in subnet_hosts : x \in Nat /\ x \in (Network + 1)..(Network + capped)
  BY <1>3, <1>4, <1>5
<1>7. IsFiniteSet((Network + 1)..(Network + capped))
  BY <1>3, <1>4, FS_Interval
<1>8. subnet_hosts \in SUBSET ((Network + 1)..(Network + capped))
  BY <1>6
<1>9. IsFiniteSet(subnet_hosts)
  BY <1>7, <1>8, FS_Subset
<1>10. QED
  BY <1>6, <1>9, FS_Subset, FS_CardinalityType

LEMMA ChunksBound ==
  ASSUME NEW n \in Nat, NEW size \in Nat \ {0}, NEW r \in Nat, r < n
  PROVE  r \div size + 1 <= (n + size - 1) \div size /\ r \div size \in Nat
  BY Z3

LEMMA ChunkOfHost ==
  ASSUME NEW x \in subnet_hosts
  PROVE  /\ ChunkOf(x) \in Nat /\ ChunkOf(x) >= 1 /\ ChunkOf(x) <= Chunks
         /\ Chunks \in Int
         /\ \A k \in Nat : x \in Chunk(k) <=> ChunkOf(x) = k
<1> DEFINE Before == {y \in subnet_hosts : y < x}
<1>1. Before \in SUBSET subnet_hosts /\ x \notin Before
  BY HostsFinite
<1>2. /\ Cardinality(Before) \in Nat /\ Cardinality(subnet_hosts) \in Nat
      /\ Cardinality(Before) <= Cardinality(subnet_hosts)
      /\ Cardinality(Before) # Cardinality(subnet_hosts)
  <2> HIDE DEF Before
  <2>1. QED
    BY <1>1, HostsFinite, FS_Subset
<1>3. Rank(x) = Cardinality(Before)
  BY DEF Rank
<1> HIDE DEF Before
<1>4. Rank(x) \in Nat /\ Rank(x) < Cardinality(subnet_hosts) /\ Cardinality(subnet_hosts) \in Nat
  BY <1>2, <1>3
<1>5. /\ Rank(x) \div ChunkSize + 1 <= Chunks /\ Rank(x) \div ChunkSize \in Nat
  BY <1>4, ChunksBound, DiscoverAssumption DEF Chunks
<1>6. Chunks \in Int
  BY <1>4, DiscoverAssumption DEF Chunks
<1> DEFINE q == Rank(x) \div ChunkSize
<1>7. ChunkOf(x) = q + 1 /\ \A k \in Nat : x \in Chunk(k) <=> q = k - 1
  BY DEF ChunkOf, Chunk
<1>8. q \in Nat /\ q + 1 <= Chunks
  BY <1>5
<1> HIDE DEF q
<1>9. QED
  BY <1>6, <1>7, <1>8

-----------------------------------------------------------------------------
(* Steps.                                                                  *)

(* A step of a call that has begun, or that never does.                    *)
CallStep(c) ==
  \/ ScanRefused(c) \/ SendChunk(c) \/ PassEnds(c)
  \/ ReadFails(c) \/ ListenEnds(c) \/ DrainEnds(c) \/ ScanReturns(c)
  \/ \E frame \in rx[c] : ReadFrame(c, frame)

Segment ==
  \/ \E frame \in Heard : HostSpeaks(frame)
  \/ \E x \in Alive : CacheLearns(x) \/ CacheForgets(x)
  \/ Tick

LEMMA Steps ==
  ASSUME [Next]_vars
  PROVE  \/ \E c \in Calls, timeout \in Timeouts : arp_scan(c, timeout)
         \/ \E c \in Calls : CallStep(c)
         \/ Segment
         \/ UNCHANGED vars
<1>1. ASSUME NEW c \in Calls, NEW timeout \in Timeouts, NEW scope \in Scopes,
             NEW consent_hash \in Consents, scan_with_scope(c, timeout, scope, consent_hash)
      PROVE  ScanRefused(c) \/ arp_scan(c, timeout)
  BY <1>1 DEF scan_with_scope
<1>2. QED
  BY <1>1 DEF Next, CallStep, Segment

LEMMA Moves ==
  ASSUME TypeOK, NEW c \in Calls, NEW from, NEW to, Goto(c, from, to)
  PROVE  /\ pc[c] = from /\ pc'[c] = to
         /\ \A d \in Calls \ {c} : pc'[d] = pc[d]
         /\ to \in {"idle", "send", "listen", "drain", "resolve"} =>
              pc' \in [Calls -> {"idle", "send", "listen", "drain", "resolve"}]
  BY DEF TypeOK, Goto

LEMMA FrameHost ==
  ASSUME NEW frame \in Frames
  PROVE  /\ parse_arp_frame(frame) \subseteq Hosts
         /\ parse_arp_frame(frame) \cap (Invalid \cup {Self}) = {}
  BY DEF parse_arp_frame, Hosts

LEMMA OwnRequest == build_arp_request \in Frames /\ Heard \subseteq Frames /\ Alive \subseteq Hosts
  BY DEF Frames, Hosts

LEMMA StartTypes ==
  ASSUME TypeOK, NEW c \in Calls, NEW timeout \in Timeouts, arp_scan(c, timeout)
  PROVE  TypeOK'
<1>1. clock + timeout \in Nat
  BY DiscoverAssumption DEF TypeOK
<1>2. pc' \in [Calls -> {"idle", "send", "listen", "drain", "resolve"}]
  BY Moves DEF arp_scan
<1>3. deadline' \in [Calls -> Nat] /\ pass' \in [Calls -> 0..2]
  BY <1>1 DEF arp_scan, TypeOK
<1>4. found' \in [Calls -> SUBSET Hosts] /\ known' \in [Calls -> SUBSET Alive]
  BY OwnRequest DEF arp_scan, TypeOK, read_arp_cache
<1>5. QED
  BY <1>2, <1>3, <1>4 DEF arp_scan, TypeOK

LEMMA CallTypes ==
  ASSUME TypeOK, NEW c \in Calls, CallStep(c)
  PROVE  TypeOK'
<1> USE DEF TypeOK
<1>1. CASE ScanRefused(c)
  BY <1>1 DEF ScanRefused, Fails, history
<1>2. CASE SendChunk(c)
  <2>1. pc' \in [Calls -> {"idle", "send", "listen", "drain", "resolve"}]
    BY <1>2, Moves DEF SendChunk
  <2>2. [x \in subnet_hosts |-> IF x \in Chunk(at[c]) THEN asked[c][x] + 1 ELSE asked[c][x]]
          \in [subnet_hosts -> Nat]
    OBVIOUS
  <2>3. asked' \in [Calls -> [subnet_hosts -> Nat]]
    BY <1>2, <2>2 DEF SendChunk
  <2>4. at' \in [Calls -> Nat] /\ listen_until' \in [Calls -> Nat]
    BY <1>2, DiscoverAssumption DEF SendChunk
  <2>5. rx' \in [Calls -> SUBSET Frames]
    BY <1>2, OwnRequest DEF SendChunk
  <2>6. QED
    BY <1>2, <2>1, <2>3, <2>4, <2>5 DEF SendChunk
<1>3. CASE PassEnds(c)
  <2>1. pc' \in [Calls -> {"idle", "send", "listen", "drain", "resolve"}]
    BY <1>3, Moves DEF PassEnds, NextPass
  <2>2. at' \in [Calls -> Nat] /\ pass' \in [Calls -> 0..2]
    BY <1>3 DEF PassEnds, NextPass
  <2>3. QED
    BY <1>3, <2>1, <2>2 DEF PassEnds, history
<1>4. ASSUME LeaveScope(c)
      PROVE  /\ rx' \in [Calls -> SUBSET Frames] /\ deadline' \in [Calls -> Nat]
             /\ listen_until' \in [Calls -> Nat] /\ pass' \in [Calls -> 0..2]
             /\ at' \in [Calls -> Nat]
  BY <1>4 DEF LeaveScope
<1>5. CASE ReadFails(c)
  <2>1. pc' \in [Calls -> {"idle", "send", "listen", "drain", "resolve"}]
    BY <1>5 DEF ReadFails
  <2>2. found' \in [Calls -> SUBSET Hosts] /\ outcome' \in [Calls -> {"none", "hosts", "error"}]
    BY <1>5 DEF ReadFails, Fails
  <2>3. QED
    BY <1>4, <1>5, <2>1, <2>2 DEF ReadFails, history
<1>6. CASE ListenEnds(c)
  <2>1. pc' \in [Calls -> {"idle", "send", "listen", "drain", "resolve"}]
    BY <1>6, Moves DEF ListenEnds
  <2>2. QED
    BY <1>6, <2>1 DEF ListenEnds, history
<1>7. CASE DrainEnds(c)
  <2>1. pc' \in [Calls -> {"idle", "send", "listen", "drain", "resolve"}]
    BY <1>7, Moves DEF DrainEnds
  <2>2. found' \in [Calls -> SUBSET Hosts] /\ known' \in [Calls -> SUBSET Alive]
    BY <1>7, OwnRequest DEF DrainEnds, read_arp_cache
  <2>3. QED
    BY <1>4, <1>7, <2>1, <2>2 DEF DrainEnds
<1>8. CASE ScanReturns(c)
  <2>1. pc' \in [Calls -> {"idle", "send", "listen", "drain", "resolve"}]
    BY <1>8, Moves DEF ScanReturns
  <2>2. QED
    BY <1>8, <2>1 DEF ScanReturns, history
<1>9. ASSUME NEW frame \in rx[c], ReadFrame(c, frame) PROVE TypeOK'
  <2>1. frame \in Frames
    OBVIOUS
  <2>2. rx' \in [Calls -> SUBSET Frames]
    BY <1>9 DEF ReadFrame
  <2>3. found' \in [Calls -> SUBSET Hosts]
    BY <1>9, <2>1, FrameHost DEF ReadFrame
  <2>4. QED
    BY <1>9, <2>2, <2>3 DEF ReadFrame, history
<1>10. QED
  BY <1>1, <1>2, <1>3, <1>5, <1>6, <1>7, <1>8, <1>9 DEF CallStep

LEMMA StepTypes == TypeOK /\ [Next]_vars => TypeOK'
<1> SUFFICES ASSUME TypeOK, [Next]_vars PROVE TypeOK'
  OBVIOUS
<1>1. ASSUME NEW frame \in Heard, HostSpeaks(frame) PROVE TypeOK'
  <2>1. rx' \in [Calls -> SUBSET Frames]
    BY <1>1, OwnRequest DEF HostSpeaks, TypeOK
  <2>2. QED
    BY <1>1, <2>1 DEF HostSpeaks, history, TypeOK
<1>2. CASE (\E x \in Alive : CacheLearns(x) \/ CacheForgets(x)) \/ Tick \/ UNCHANGED vars
  BY <1>2 DEF CacheLearns, CacheForgets, Tick, vars, scans, history, TypeOK
<1>3. QED
  BY <1>1, <1>2, Steps, StartTypes, CallTypes DEF Segment

-----------------------------------------------------------------------------
(* What a call holds.                                                      *)

LEMMA CacheHosts ==
  ASSUME TypeOK
  PROVE  cache \cap (Invalid \cup {Self}) = {}
  BY DiscoverAssumption DEF TypeOK

LEMMA StepHolds == TypeOK /\ Holds /\ [Next]_vars => Holds'
<1> SUFFICES ASSUME TypeOK, Holds, [Next]_vars PROVE Holds'
  OBVIOUS
<1> DEFINE Held(c) ==
             /\ pc'[c] # "idle" \/ outcome'[c] = "hosts" => known'[c] \subseteq found'[c]
             /\ found'[c] \cap (Invalid \cup {Self}) = {}
<1>0. /\ found \in [Calls -> SUBSET Hosts] /\ known \in [Calls -> SUBSET Alive]
      /\ pc \in [Calls -> {"idle", "send", "listen", "drain", "resolve"}]
      /\ outcome \in [Calls -> {"none", "hosts", "error"}]
  BY DEF TypeOK
<1>a. \A c \in Calls :
         /\ pc[c] # "idle" \/ outcome[c] = "hosts" => known[c] \subseteq found[c]
         /\ found[c] \cap (Invalid \cup {Self}) = {}
  BY DEF Holds
<1>b. ASSUME NEW c \in Calls, found'[c] = found[c], known'[c] = known[c],
             pc'[c] # "idle" => pc[c] # "idle",
             outcome'[c] = "hosts" => outcome[c] = "hosts" \/ pc[c] # "idle"
      PROVE  Held(c)
  BY <1>a, <1>b
<1>1. ASSUME NEW c \in Calls, NEW timeout \in Timeouts, arp_scan(c, timeout) PROVE Holds'
  <2>1. Held(c)
    BY <1>1, <1>0, CacheHosts DEF arp_scan, read_arp_cache
  <2>2. \A d \in Calls \ {c} : Held(d)
    BY <1>1, <1>0, <1>b, Moves DEF arp_scan
  <2>3. QED
    BY <2>1, <2>2 DEF Holds
<1>2. ASSUME NEW c \in Calls, CallStep(c) PROVE Holds'
  <2>1. ASSUME NEW d \in Calls \ {c} PROVE Held(d)
    <3>1. /\ found'[d] = found[d] /\ known'[d] = known[d] /\ pc'[d] = pc[d]
          /\ outcome'[d] = outcome[d]
      BY <1>2, <1>0 DEF CallStep, ScanRefused, SendChunk, PassEnds, NextPass, ReadFails,
         ListenEnds, DrainEnds, ScanReturns, ReadFrame, Goto, Fails, history
    <3>2. QED
      BY <3>1, <1>b
  <2>2. CASE ScanRefused(c) \/ SendChunk(c) \/ PassEnds(c) \/ ListenEnds(c) \/ ScanReturns(c)
    <3>1. /\ found'[c] = found[c] /\ known'[c] = known[c]
          /\ pc'[c] # "idle" => pc[c] # "idle"
          /\ outcome'[c] = "hosts" => outcome[c] = "hosts" \/ pc[c] # "idle"
      BY <2>2, <1>0 DEF ScanRefused, SendChunk, PassEnds, NextPass, ListenEnds, ScanReturns, Goto,
         Fails, history
    <3>2. Held(c)
      BY <3>1, <1>b
    <3>3. QED
      BY <2>1, <3>2 DEF Holds
  <2>3. CASE ReadFails(c)
    <3>1. Held(c)
      BY <2>3, <1>0 DEF ReadFails, Fails
    <3>2. QED
      BY <2>1, <3>1 DEF Holds
  <2>4. CASE DrainEnds(c)
    <3>1. pc[c] # "idle" /\ found'[c] = found[c] \cup cache /\ known'[c] = known[c] \cup cache
      BY <2>4, <1>0 DEF DrainEnds, read_arp_cache, Goto
    <3>2. Held(c)
      BY <3>1, <1>a, CacheHosts
    <3>3. QED
      BY <2>1, <3>2 DEF Holds
  <2>5. ASSUME NEW frame \in rx[c], ReadFrame(c, frame) PROVE Holds'
    <3>1. /\ found'[c] = found[c] \cup parse_arp_frame(frame)
          /\ UNCHANGED <<known, pc, outcome>>
      BY <2>5, <1>0 DEF ReadFrame, history
    <3>2. parse_arp_frame(frame) \cap (Invalid \cup {Self}) = {}
      BY FrameHost DEF TypeOK
    <3>3. Held(c)
      BY <3>1, <3>2, <1>a
    <3>4. QED
      BY <2>1, <3>3 DEF Holds
  <2>6. QED
    BY <1>2, <2>2, <2>3, <2>4, <2>5 DEF CallStep
<1>3. CASE Segment \/ UNCHANGED vars
  <2>1. UNCHANGED <<found, known, pc, outcome>>
    BY <1>3 DEF Segment, HostSpeaks, CacheLearns, CacheForgets, Tick, vars, scans, history
  <2>2. QED
    BY <2>1 DEF Holds
<1>4. QED
  BY <1>1, <1>2, <1>3, Steps

-----------------------------------------------------------------------------
(* How often addresses are asked.                                          *)

(* The part of Passes that is about one call.                              *)
PassOf(c) ==
  /\ pc[c] \in {"send", "listen"} =>
       /\ pass[c] \in {1, 2} /\ at[c] >= 1
       /\ pass[c] = 1 => FirstPass(c)
       /\ pass[c] = 2 => SecondPass(c) \/ TooLate(c)
  /\ pc[c] \in {"idle", "resolve"} => at[c] = 1
  /\ pc[c] = "idle" /\ outcome[c] = "none" => \A x \in subnet_hosts : asked[c][x] = 0
  /\ Fair(c)

(* A call that does not move keeps its part while the clock goes on.       *)
LEMMA PassKept ==
  ASSUME TypeOK, NEW c \in Calls, PassOf(c), clock' \in Nat, clock' >= clock,
         asked'[c] = asked[c], deadline'[c] = deadline[c], at'[c] = at[c],
         pass'[c] = pass[c],
         pc'[c] = pc[c] \/ (pc[c] = "listen" /\ pc'[c] = "send"),
         outcome'[c] = outcome[c] \/ outcome'[c] # "none"
  PROVE  PassOf(c)'
<1>1. (FirstPass(c) => FirstPass(c)') /\ (SecondPass(c) => SecondPass(c)') /\ Fair(c)'
  BY DEF FirstPass, SecondPass, Fair, PassOf
<1>2. TooLate(c) => TooLate(c)'
  BY DEF TooLate, TypeOK
<1>3. QED
  BY <1>1, <1>2 DEF PassOf

LEMMA StepPasses == TypeOK /\ Passes /\ [Next]_vars => Passes'
<1> SUFFICES ASSUME TypeOK, Passes, [Next]_vars PROVE Passes'
  OBVIOUS
<1>0. /\ pc \in [Calls -> {"idle", "send", "listen", "drain", "resolve"}]
      /\ outcome \in [Calls -> {"none", "hosts", "error"}]
      /\ pass \in [Calls -> 0..2] /\ at \in [Calls -> Nat] /\ clock \in Nat
      /\ asked \in [Calls -> [subnet_hosts -> Nat]] /\ deadline \in [Calls -> Nat]
  BY DEF TypeOK
<1>a. \A c \in Calls : PassOf(c)
  BY DEF Passes, PassOf
<1>b. ASSUME \A c \in Calls : PassOf(c)' PROVE Passes'
  BY <1>b DEF Passes, PassOf
<1>1. ASSUME NEW c \in Calls, NEW timeout \in Timeouts, arp_scan(c, timeout) PROVE Passes'
  <2>1. /\ pc[c] = "idle" /\ outcome[c] = "none" /\ pc'[c] = "send" /\ pass'[c] = 1
        /\ UNCHANGED <<at, asked, outcome, clock>>
        /\ \A d \in Calls \ {c} : /\ pc'[d] = pc[d] /\ pass'[d] = pass[d]
                                  /\ deadline'[d] = deadline[d]
    BY <1>1, <1>0 DEF arp_scan, Goto
  <2>2. at[c] = 1 /\ \A x \in subnet_hosts : asked[c][x] = 0
    BY <2>1, <1>a DEF PassOf
  <2>3. \A x \in subnet_hosts : ~(ChunkOf(x) < 1)
    BY ChunkOfHost
  <2>4. FirstPass(c)' /\ Fair(c)'
    BY <2>1, <2>2, <2>3 DEF FirstPass, Fair
  <2>5. PassOf(c)'
    BY <2>1, <2>2, <2>4 DEF PassOf
  <2>6. \A d \in Calls \ {c} : PassOf(d)'
    BY <2>1, <1>0, <1>a, PassKept
  <2>7. QED
    BY <2>5, <2>6, <1>b
<1>2. ASSUME NEW c \in Calls, CallStep(c) PROVE Passes'
  <2>1. ASSUME NEW d \in Calls \ {c} PROVE PassOf(d)'
    <3>1. /\ pc'[d] = pc[d] /\ outcome'[d] = outcome[d] /\ pass'[d] = pass[d]
          /\ at'[d] = at[d] /\ asked'[d] = asked[d] /\ deadline'[d] = deadline[d]
          /\ clock' = clock
      BY <1>2, <1>0 DEF CallStep, ScanRefused, SendChunk, PassEnds, NextPass, ReadFails,
         ListenEnds, DrainEnds, ScanReturns, ReadFrame, Goto, Fails, LeaveScope, history
    <3>2. QED
      BY <3>1, <1>0, <1>a, PassKept
  <2>2. CASE ScanRefused(c) \/ ListenEnds(c) \/ \E frame \in rx[c] : ReadFrame(c, frame)
    <3>1. /\ pc'[c] = pc[c] \/ (pc[c] = "listen" /\ pc'[c] = "send")
          /\ outcome'[c] = outcome[c] \/ outcome'[c] # "none"
          /\ UNCHANGED <<pass, at, asked, deadline, clock>>
      BY <2>2, <1>0 DEF ScanRefused, ListenEnds, ReadFrame, Goto, Fails, history
    <3>2. PassOf(c)'
      BY <3>1, <1>0, <1>a, PassKept
    <3>3. QED
      BY <2>1, <3>2, <1>b
  <2>3. CASE ReadFails(c) \/ DrainEnds(c) \/ ScanReturns(c)
    <3>1. /\ asked' = asked
          /\ at'[c] = 1 \/ (pc[c] = "resolve" /\ at' = at)
          /\ pc'[c] = "resolve" \/ (pc'[c] = "idle" /\ outcome'[c] # "none")
      BY <2>3, <1>0 DEF ReadFails, DrainEnds, ScanReturns, Goto, Fails, LeaveScope, history
    <3>2. at'[c] = 1
      BY <3>1, <1>a DEF PassOf
    <3>3. Fair(c)'
      BY <3>1, <1>a DEF PassOf, Fair
    <3>4. PassOf(c)'
      BY <3>1, <3>2, <3>3 DEF PassOf
    <3>5. QED
      BY <2>1, <3>4, <1>b
  <2>4. CASE SendChunk(c)
    <3>1. /\ pc[c] = "send" /\ pc'[c] = "listen" /\ clock < deadline[c]
          /\ at'[c] = at[c] + 1 /\ UNCHANGED <<pass, outcome, clock, deadline>>
          /\ \A x \in subnet_hosts :
               asked'[c][x] = IF x \in Chunk(at[c]) THEN asked[c][x] + 1 ELSE asked[c][x]
      BY <2>4, <1>0 DEF SendChunk, Goto
    <3>2. \A x \in subnet_hosts :
             /\ ChunkOf(x) \in Nat
             /\ asked'[c][x] = IF ChunkOf(x) = at[c] THEN asked[c][x] + 1 ELSE asked[c][x]
      BY <3>1, <1>0, ChunkOfHost
    <3>3. at[c] \in Nat /\ pass[c] \in {1, 2} /\ at[c] >= 1 /\ ~TooLate(c)
      BY <3>1, <1>0, <1>a DEF PassOf, TooLate
    <3>4. CASE pass[c] = 1
      <4>1. FirstPass(c)
        BY <3>1, <3>4, <1>a DEF PassOf
      <4>2. FirstPass(c)'
        BY <4>1, <3>1, <3>2, <3>3 DEF FirstPass
      <4>3. Fair(c)'
        BY <4>2, <3>1, <3>2, <3>3 DEF FirstPass, Fair
      <4>4. QED
        BY <4>2, <4>3, <3>1, <3>3, <3>4, <2>1, <1>b DEF PassOf
    <3>5. CASE pass[c] = 2
      <4>1. SecondPass(c)
        BY <3>1, <3>3, <3>5, <1>a DEF PassOf
      <4>2. SecondPass(c)'
        BY <4>1, <3>1, <3>2, <3>3 DEF SecondPass
      <4>3. Fair(c)'
        BY <4>2, <3>1, <3>2, <3>3 DEF SecondPass, Fair
      <4>4. QED
        BY <4>2, <4>3, <3>1, <3>3, <3>5, <2>1, <1>b DEF PassOf
    <3>6. QED
      BY <3>3, <3>4, <3>5
  <2>5. CASE PassEnds(c)
    <3>1. /\ pc[c] = "send" /\ at'[c] = 1 /\ UNCHANGED <<outcome, clock, deadline, asked>>
          /\ at[c] > Chunks \/ clock >= deadline[c]
      BY <2>5, <1>0 DEF PassEnds, NextPass, history
    <3>2. Fair(c)'
      BY <3>1, <1>a DEF Fair, PassOf
    <3>3. CASE pass[c] = 1
      <4>1. pass'[c] = 2 /\ pc' = pc /\ FirstPass(c)
        BY <2>5, <3>1, <3>3, <1>0, <1>a DEF PassEnds, NextPass, PassOf
      <4>2. CASE at[c] > Chunks
        <5>1. \A x \in subnet_hosts : ChunkOf(x) < at[c] /\ ~(ChunkOf(x) < 1)
          BY <4>2, <1>0, ChunkOfHost
        <5>2. SecondPass(c)'
          BY <5>1, <4>1, <3>1 DEF FirstPass, SecondPass
        <5>3. PassOf(c)'
          BY <5>2, <4>1, <3>1, <3>2 DEF PassOf
        <5>4. QED
          BY <5>3, <2>1, <1>b
      <4>3. CASE clock >= deadline[c]
        <5>1. TooLate(c)'
          BY <4>1, <4>3, <3>1 DEF FirstPass, TooLate
        <5>2. PassOf(c)'
          BY <5>1, <4>1, <3>1, <3>2 DEF PassOf
        <5>3. QED
          BY <5>2, <2>1, <1>b
      <4>4. QED
        BY <4>2, <4>3, <3>1
    <3>4. CASE pass[c] # 1
      <4>1. pc'[c] = "drain"
        BY <2>5, <3>4, <1>0 DEF PassEnds, NextPass, Goto
      <4>2. PassOf(c)'
        BY <4>1, <3>2 DEF PassOf
      <4>3. QED
        BY <4>2, <2>1, <1>b
    <3>5. QED
      BY <3>3, <3>4
  <2>6. QED
    BY <1>2, <2>2, <2>3, <2>4, <2>5 DEF CallStep
<1>3. CASE Segment \/ UNCHANGED vars
  <2>1. UNCHANGED <<pc, outcome, pass, at, asked, deadline>> /\ clock' \in Nat /\ clock' >= clock
    BY <1>3, <1>0 DEF Segment, HostSpeaks, CacheLearns, CacheForgets, Tick, vars, scans, history
  <2>2. QED
    BY <2>1, <1>a, <1>b, PassKept
<1>4. QED
  BY <1>1, <1>2, <1>3, Steps

LEMMA InitInv == Init => Inv
<1> SUFFICES ASSUME Init PROVE Inv
  OBVIOUS
<1>1. TypeOK
  BY DEF Init, TypeOK
<1>2. Holds
  BY DEF Init, Holds
<1>3. Passes
  BY DEF Init, Passes, Fair
<1>4. QED
  BY <1>1, <1>2, <1>3 DEF Inv

LEMMA StepInv == Inv /\ [Next]_vars => Inv'
  BY StepTypes, StepHolds, StepPasses DEF Inv

LEMMA Invariant == Spec => []Inv
  BY InitInv, StepInv, PTL DEF Spec

-----------------------------------------------------------------------------
(* Theorems.                                                               *)

(* Sockets, scans, the answer kept in last_scan and the kernel's cache     *)
(* only ever hold frames and hosts of the segment (main.rs:37-55,          *)
(* 107-218).                                                               *)
THEOREM TypeCorrect == Spec => []TypeOK
  BY Invariant, PTL DEF Inv

(* However long the subnet and short the deadline, the second pass asks    *)
(* again only when the first asked every address: no address is asked      *)
(* twice while another was not asked, and none three times                 *)
(* (main.rs:146-180).                                                      *)
THEOREM SecondPassSecond == Spec => []SecondPassComesSecond
<1>1. Inv => SecondPassComesSecond
  BY DEF Inv, Passes, Fair, SecondPassComesSecond
<1>2. QED
  BY <1>1, Invariant, PTL

(* What the kernel's cache held before the scan or holds after it is in    *)
(* the answer of the scan, whatever the sockets lost; and no answer names  *)
(* ourselves or an address of no host (main.rs:139-144, 200-205, 315-352). *)
THEOREM NeighboursReported == Spec => []KnownNeighboursReported
<1>1. Inv => KnownNeighboursReported
  BY DEF Inv, Holds, KnownNeighboursReported
<1>2. QED
  BY <1>1, Invariant, PTL

(* Whatever the scope of a call, the rules refuse it only for want of      *)
(* consent: with the target left empty no subnet is ever out of scope, so  *)
(* that scan_with_scope scans what scan scans (main.rs:81-100).            *)
THEOREM ScopeRefusesNothing ==
  ASSUME TypeOK, NEW c \in Calls, NEW timeout \in Timeouts, NEW scope, NEW consent,
         consent # NULL
  PROVE  scan_with_scope(c, timeout, scope, consent) <=> arp_scan(c, timeout)
<1> DEFINE ctx == ScopeContext(scope, consent)
<1>1. RE01(ScopeAction, ctx, clock) = compliant("RE-01")
  <2>1. /\ ScopeAction.requires_consent /\ ctx.consent_hash = consent
        /\ ctx.consent_timestamp = clock
    BY DEF ScopeAction, ScopeContext
  <2>2. ~(clock > clock)
    BY DEF TypeOK
  <2> QED
    BY <2>1, <2>2 DEF RE01
<1>2. RE02Scope(ScopeAction, ctx) = partial("RE-02a", "no_target")
  BY DEF RE02Scope, ScopeAction, ScopeContext
<1>3. RE02Timeout(ScopeAction, ctx, clock) = compliant("RE-02b")
  BY DEF RE02Timeout, ScopeAction, ScopeContext
<1> DEFINE verdict == validate(ScopeAction, ctx, clock)
<1>4. verdict = Fold(Fold(Fold(compliant("aggregate"), compliant("RE-01")),
                          partial("RE-02a", "no_target")), compliant("RE-02b"))
  BY <1>1, <1>2, <1>3 DEF validate
<1>5. Severity["COMPLIANT"] = 0 /\ Severity["PARTIAL"] = 1
  BY DEF Severity, PDDLStatus
<1>6. verdict.status = "PARTIAL"
  BY <1>4, <1>5 DEF Fold, compliant, partial, is_worse_than
<1> QED
  BY <1>6 DEF scan_with_scope, Denied
=============================================================================

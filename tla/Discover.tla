------------------------------ MODULE Discover ------------------------------
(***************************************************************************)
(* The discovery daemon (netsentinel-discover/src/main.rs): concurrent     *)
(* calls of scan and scan_with_scope, each an ARP scan on a thread of its  *)
(* own.  A scan asks the addresses of the local subnet chunk by chunk, in  *)
(* two passes, listens after each chunk, and gives up asking at one        *)
(* deadline; the kernel's ARP cache is merged in before and after.         *)
(*                                                                         *)
(* The socket of a scan sees every ARP frame of the segment.  A host is    *)
(* its address: what else is reported of it (MAC, vendor, name, system) is *)
(* left out.  Addresses have AddressBits bits.                             *)
(***************************************************************************)
EXTENDS PDDL, Integers, FiniteSets

CONSTANTS Calls,        \* calls of the two methods
          AddressBits,  \* 32
          Self,         \* the interface's address
          PrefixLen,    \* and the length of its prefix
          HostCap,      \* most addresses asked (65536)
          ChunkSize,    \* addresses asked before listening (64)
          Listen,       \* time to listen after a chunk
          Timeouts,     \* deadlines callers ask for
          Scopes,       \* scopes and consents of scan_with_scope
          Consents,
          Alive,        \* addresses of other hosts
          Heard,        \* ARP frames they send: operation and sender
          Invalid,      \* addresses that name no host: unspecified and loopback
          MaxClock      \* bound on the clock

ASSUME DiscoverAssumption ==
  /\ AddressBits \in Nat /\ PrefixLen \in 0..AddressBits
  /\ 2^(AddressBits - PrefixLen) \in Nat \ {0}   \* known to TLC, not to the provers
  /\ Self \in 0..(2^AddressBits - 1)
  /\ HostCap \in Nat /\ ChunkSize \in Nat \ {0} /\ Listen \in Nat \ {0}
  /\ Timeouts \subseteq Nat /\ MaxClock \in Nat
  /\ Alive \subseteq 0..(2^AddressBits - 1) \ (Invalid \cup {Self})

-----------------------------------------------------------------------------
(* subnet_hosts: the addresses between network and broadcast, our own      *)
(* left out, as many as the cap allows.  They are asked in ascending       *)
(* order, so that a chunk is a stretch of their ranks.                     *)
BlockSize == 2^(AddressBits - PrefixLen)
Network   == Self - (Self % BlockSize)

subnet_hosts ==
  LET capped_count == IF BlockSize - 1 < HostCap THEN BlockSize - 1 ELSE HostCap
  IN {Network + offset : offset \in 1..(capped_count - 1)} \ {Self}

Rank(addr) == Cardinality({x \in subnet_hosts : x < addr})
Chunks     == (Cardinality(subnet_hosts) + ChunkSize - 1) \div ChunkSize
Chunk(k)   == {addr \in subnet_hosts : Rank(addr) \div ChunkSize = k - 1}

VARIABLES pc,         \* where each call stands
          deadline,   \* of its scan
          pass, at,   \* the pass, and the chunk to be asked next
          listen_until,
          rx,         \* frames in its socket
          found,      \* hosts it has
          outcome,    \* "none" yet, "hosts" when found is its answer, or "error"
          last_scan,
          cache,      \* the kernel's ARP cache
          clock,
          asked,      \* history: how often the scan asked each address
          known       \* history: hosts in the cache when it looked
scans   == <<pc, deadline, pass, at, listen_until, rx, found, outcome>>
history == <<asked, known>>
vars    == <<scans, last_scan, cache, clock, history>>

Init ==
  /\ pc = [c \in Calls |-> "idle"]
  /\ deadline = [c \in Calls |-> 0] /\ listen_until = [c \in Calls |-> 0]
  /\ pass = [c \in Calls |-> 0] /\ at = [c \in Calls |-> 1]
  /\ rx = [c \in Calls |-> {}] /\ found = [c \in Calls |-> {}]
  /\ outcome = [c \in Calls |-> "none"]
  /\ last_scan = {}
  /\ cache \in SUBSET Alive
  /\ clock = 0
  /\ asked = [c \in Calls |-> [x \in subnet_hosts |-> 0]]
  /\ known = [c \in Calls |-> {}]

-----------------------------------------------------------------------------
Goto(c, from, to) == pc[c] = from /\ pc' = [pc EXCEPT ![c] = to]
Fails(c) == outcome' = [outcome EXCEPT ![c] = "error"]

(* A request names an address too, which none of the sockets looks at.     *)
build_arp_request == [op |-> "request", sender |-> Self]

(* Requests say as much of their sender as replies do; our own are dropped.*)
parse_arp_frame(frame) ==
  IF frame.op \in {"request", "reply"} THEN {frame.sender} \ (Invalid \cup {Self}) ELSE {}

(* The neighbours the kernel has a whole entry for.                        *)
read_arp_cache == cache

(* The socket is open before the cache is read.                            *)
arp_scan(c, timeout) ==
  /\ Goto(c, "idle", "send")
  /\ outcome[c] = "none"
  /\ deadline' = [deadline EXCEPT ![c] = clock + timeout]
  /\ pass' = [pass EXCEPT ![c] = 1]
  /\ found' = [found EXCEPT ![c] = read_arp_cache]
  /\ known' = [known EXCEPT ![c] = read_arp_cache]
  /\ UNCHANGED <<at, listen_until, rx, outcome, last_scan, cache, clock, asked>>

(* No such interface, no address on it, no raw socket.                     *)
ScanRefused(c) ==
  /\ pc[c] = "idle" /\ outcome[c] = "none"
  /\ Fails(c)
  /\ UNCHANGED <<pc, deadline, pass, at, listen_until, rx, found, last_scan, cache,
                 clock, history>>

ScopeAction == [action_type |-> "Discover", requires_consent |-> TRUE,
                requires_scope |-> TRUE, requires_unicity |-> FALSE]

(* ..Default::default() leaves the target of the context empty.            *)
ScopeContext(scope, consent_hash) ==
  [authorized_scope |-> scope, consent_hash |-> consent_hash,
   consent_timestamp |-> clock, target |-> NULL, session_started_at |-> NULL,
   max_session_duration_seconds |-> 0, session_already_active |-> FALSE,
   planned_seconds |-> NULL]

scan_with_scope(c, timeout, scope, consent_hash) ==
  IF Denied(validate(ScopeAction, ScopeContext(scope, consent_hash), clock))
  THEN ScanRefused(c) ELSE arp_scan(c, timeout)

-----------------------------------------------------------------------------
(* The chunk that starts at the deadline or later is not asked, nor any    *)
(* after it in this pass; the next pass begins all the same.               *)
NextPass(c) ==
  /\ at' = [at EXCEPT ![c] = 1]
  /\ IF pass[c] = 1
     THEN pass' = [pass EXCEPT ![c] = 2] /\ UNCHANGED pc
     ELSE Goto(c, "send", "drain") /\ UNCHANGED pass

(* Mutant: each pass has the whole time.                                   *)
PassEnds_NewDeadline(c) ==
  /\ pc[c] = "send"
  /\ at[c] > Chunks \/ clock >= deadline[c]
  /\ NextPass(c)
  /\ deadline' = [deadline EXCEPT ![c] = IF pass[c] = 1 THEN clock + Listen ELSE @]
  /\ UNCHANGED <<listen_until, rx, found, outcome, last_scan, cache, clock, history>>

PassEnds(c) ==
  /\ pc[c] = "send"
  /\ at[c] > Chunks \/ clock >= deadline[c]
  /\ NextPass(c)
  /\ UNCHANGED <<deadline, listen_until, rx, found, outcome, last_scan, cache, clock,
                 history>>

Open(c) == pc[c] \in {"send", "listen", "drain"}

(* The requests reach the sockets of the other scans, too.                 *)
SendChunk(c) ==
  /\ at[c] <= Chunks /\ clock < deadline[c]
  /\ Goto(c, "send", "listen")
  /\ asked' = [asked EXCEPT ![c] = [x \in subnet_hosts |->
                                          IF x \in Chunk(at[c]) THEN @[x] + 1 ELSE @[x]]]
  /\ at' = [at EXCEPT ![c] = @ + 1]
  /\ listen_until' = [listen_until EXCEPT ![c] = clock + Listen]
  /\ rx' = [d \in Calls |-> IF d # c /\ Open(d) THEN rx[d] \cup {build_arp_request}
                            ELSE rx[d]]
  /\ UNCHANGED <<deadline, pass, found, outcome, last_scan, cache, clock, known>>

Listening(c) == \/ /\ pc[c] = "listen"
                   /\ clock < listen_until[c] /\ clock < deadline[c]
                \/ pc[c] = "drain" /\ clock < deadline[c]

ReadFrame(c, frame) ==
  /\ Listening(c)
  /\ frame \in rx[c]
  /\ rx' = [rx EXCEPT ![c] = @ \ {frame}]
  /\ found' = [found EXCEPT ![c] = @ \cup parse_arp_frame(frame)]
  /\ UNCHANGED <<pc, deadline, pass, at, listen_until, outcome, last_scan, cache, clock,
                 history>>

(* The socket and the locals of the two loops go out of scope.             *)
LeaveScope(c) ==
  /\ rx' = [rx EXCEPT ![c] = {}]
  /\ deadline' = [deadline EXCEPT ![c] = 0]
  /\ listen_until' = [listen_until EXCEPT ![c] = 0]
  /\ pass' = [pass EXCEPT ![c] = 0]
  /\ at' = [at EXCEPT ![c] = 1]

(* An error of the socket other than a timeout: all that was found is      *)
(* dropped.                                                                *)
ReadFails(c) ==
  /\ Listening(c)
  /\ pc' = [pc EXCEPT ![c] = "idle"]
  /\ Fails(c)
  /\ found' = [found EXCEPT ![c] = {}]
  /\ LeaveScope(c)
  /\ UNCHANGED <<last_scan, cache, clock, history>>

ListenEnds(c) ==
  /\ ~Listening(c)
  /\ Goto(c, "listen", "send")
  /\ listen_until' = [listen_until EXCEPT ![c] = 0]
  /\ UNCHANGED <<deadline, pass, at, rx, found, outcome, last_scan, cache, clock,
                 history>>

(* Mutant: the cache is not looked at again.                               *)
DrainEnds_NoCache(c) ==
  /\ ~Listening(c)
  /\ Goto(c, "drain", "resolve")
  /\ known' = [known EXCEPT ![c] = @ \cup read_arp_cache]
  /\ LeaveScope(c)
  /\ UNCHANGED <<found, outcome, last_scan, cache, clock, asked>>

(* Nothing but the hosts found is looked at after the last loop.           *)
DrainEnds(c) ==
  /\ ~Listening(c)
  /\ Goto(c, "drain", "resolve")
  /\ found' = [found EXCEPT ![c] = @ \cup read_arp_cache]
  /\ known' = [known EXCEPT ![c] = @ \cup read_arp_cache]
  /\ LeaveScope(c)
  /\ UNCHANGED <<outcome, last_scan, cache, clock, asked>>

(* Names and systems have been looked up; the scan's task is over.         *)
ScanReturns(c) ==
  /\ Goto(c, "resolve", "idle")
  /\ last_scan' = found[c]
  /\ outcome' = [outcome EXCEPT ![c] = "hosts"]
  /\ UNCHANGED <<deadline, pass, at, listen_until, rx, found, cache, clock, history>>

-----------------------------------------------------------------------------
(* The segment: an ARP frame reaches every open socket; the kernel's cache *)
(* learns and forgets on its own.                                          *)
HostSpeaks(frame) ==
  /\ rx' = [c \in Calls |-> IF Open(c) THEN rx[c] \cup {frame} ELSE rx[c]]
  /\ rx' # rx
  /\ UNCHANGED <<pc, deadline, pass, at, listen_until, found, outcome, last_scan, cache,
                 clock, history>>

CacheLearns(x) ==
  /\ cache' = cache \cup {x}
  /\ UNCHANGED <<scans, last_scan, clock, history>>

CacheForgets(x) ==
  /\ cache' = cache \ {x}
  /\ UNCHANGED <<scans, last_scan, clock, history>>

Tick == /\ clock < MaxClock
        /\ clock' = clock + 1
        /\ UNCHANGED <<scans, last_scan, cache, history>>

Next ==
  \/ \E c \in Calls, timeout \in Timeouts :
       \/ arp_scan(c, timeout)
       \/ \E scope \in Scopes, consent_hash \in Consents :
            scan_with_scope(c, timeout, scope, consent_hash)
  \/ \E c \in Calls :
       \/ ScanRefused(c) \/ SendChunk(c) \/ PassEnds(c)
       \/ ReadFails(c) \/ ListenEnds(c) \/ DrainEnds(c) \/ ScanReturns(c)
  \/ \E c \in Calls : \E frame \in rx[c] : ReadFrame(c, frame)
  \/ \E frame \in Heard : HostSpeaks(frame)
  \/ \E x \in Alive : CacheLearns(x) \/ CacheForgets(x)
  \/ Tick

Spec == Init /\ [][Next]_vars

-----------------------------------------------------------------------------
(* The second pass is for hosts that missed the first request (main.rs:    *)
(* 146-148): however short the time, no address is asked twice while       *)
(* another has not been asked at all, and none is asked three times.       *)
SecondPassComesSecond ==
  \A c \in Calls, x, y \in subnet_hosts :
    asked[c][x] <= 2 /\ (asked[c][x] = 2 => asked[c][y] > 0)

(* A neighbour the kernel knew when the scan began, or knows when it ends, *)
(* is in the answer, though it missed every broadcast and the cache forgot *)
(* it in between; and neither we, whose requests the sockets of the other  *)
(* scans see, nor an address that names no host is in it.                  *)
KnownNeighboursReported ==
  \A c \in Calls : outcome[c] = "hosts" => /\ known[c] \subseteq found[c]
                                         /\ found[c] \cap (Invalid \cup {Self}) = {}
=============================================================================

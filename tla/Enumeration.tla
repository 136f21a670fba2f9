----------------------------- MODULE Enumeration ----------------------------
(***************************************************************************)
(* One Enumerator::full_enumeration (enumeration.rs): the record types of  *)
(* a domain one after the other, its subdomains through the bounded pool   *)
(* of SubdomainBruter::brute, and the paths of every host found through    *)
(* the bounded pool of DirectoryBruter::scan.                              *)
(*                                                                         *)
(* A DNS query binds a port of its own, connects it to the resolver and    *)
(* takes the first datagram that comes: every query has the identifier     *)
(* 0x1234 and nothing compares the question, so an answer belongs to a     *)
(* query only by the port it is sent to.  The network loses, delays and    *)
(* duplicates datagrams: as long as a socket is open, the answer to any    *)
(* query ever sent from its port may come in, or none.  A datagram that is *)
(* lost is one that is never received.                                     *)
(***************************************************************************)
EXTENDS Integers, Sequences, FiniteSets

CONSTANTS Domain,      \* the domain enumerated
          RecordTypes, \* the types asked of it, in order
          Words,       \* the subdomains to try, in order
          Paths,       \* the paths to try on each host, in order
          Zone,        \* what the resolver knows: question |-> types of records
          Ports,       \* ephemeral ports
          Concurrency, \* width of the two pools
          StatusCodes  \* what web servers answer

Question(name, type) == [name |-> name, type |-> type]

Elements(s) == {s[i] : i \in 1..Len(s)}

Questions == {Question(Domain, t) : t \in Elements(RecordTypes)}
               \cup {Question(w, "A") : w \in Elements(Words)}

ASSUME EnumerationAssumption ==
  /\ RecordTypes \in Seq(Elements(RecordTypes))
  /\ Words \in Seq(Elements(Words)) /\ Len(Paths) \in Nat
  /\ Concurrency \in Nat \ {0}       \* a pool of width 0 never begins
  /\ Questions \subseteq DOMAIN Zone
  /\ \A q \in Questions :            \* addresses are of the type asked for
       Zone[q] \cap {"A", "AAAA"} \subseteq {q.type}
  /\ 0 \notin StatusCodes

VARIABLES stage,       \* which part of full_enumeration runs
          next,        \* the next item of the list it goes through
          queries,     \* every query sent, in order (history)
          dns_records, \* the report's records
          subdomains,  \* the report's subdomains, in order of completion
          host,        \* the found subdomain whose paths are being tried
          getting,     \* requests under way
          directories  \* the report's directories, in order of completion
vars == <<stage, next, queries, dns_records, subdomains, host, getting, directories>>
report == <<dns_records, subdomains, directories>>

Stages == {"dns", "subdomains", "directories", "done"}

Waiting == {i \in DOMAIN queries : queries[i].state = "waiting"}

Found(entry) == entry.found
found_subs   == SelectSeq(subdomains, Found)

Init ==
  /\ stage = "dns" /\ next = 1
  /\ queries = <<>>
  /\ dns_records = {} /\ subdomains = <<>> /\ directories = <<>>
  /\ host = 0 /\ getting = {}

-----------------------------------------------------------------------------
(* The two loops over queries.  enumerate_all awaits each query before the *)
(* next, brute keeps up to Concurrency of them going.                      *)

Asked ==
  CASE stage = "dns"        -> [i \in DOMAIN RecordTypes |-> Question(Domain, RecordTypes[i])]
    [] stage = "subdomains" -> [i \in DOMAIN Words |-> Question(Words[i], "A")]
    [] OTHER                -> <<>>

Width == IF stage = "dns" THEN 1 ELSE Concurrency

CanBegin ==
  /\ next \in DOMAIN Asked
  /\ Cardinality(Waiting) < Width

(* parse_response labels an address with the type that was asked for and   *)
(* anything else with its own.  by is the query behind an entry, 0 for one *)
(* that was never sent (history).                                          *)
Labelled(question, records, by) ==
  {[record_type |-> IF r \in {"A", "AAAA"} THEN question.type ELSE r,
    by          |-> by] : r \in records}

(* Mutant: every answer counts as a find, an empty one too.                *)
Subdomain_AnyAnswer(question, answered, records, by) ==
  [subdomain |-> question.name, found |-> answered, by |-> by]

(* A subdomain is found when its answer has any record at all.             *)
Subdomain(question, answered, records, by) ==
  [subdomain |-> question.name, found |-> answered /\ records # {}, by |-> by]

(* What the caller of query makes of its Result: enumerate_all passes over *)
(* an error, which has no records; brute has an entry for everything.      *)
Settle(question, answered, records, by) ==
  /\ IF stage = "dns"
     THEN /\ dns_records' = dns_records \cup Labelled(question, records, by)
          /\ UNCHANGED subdomains
     ELSE /\ subdomains' =
               Append(subdomains, Subdomain(question, answered, records, by))
          /\ UNCHANGED dns_records
  /\ UNCHANGED directories

(* bind takes any port that is free, then the query is sent.               *)
Send ==
  /\ CanBegin
  /\ \E port \in Ports \ {queries[i].port : i \in Waiting} :
       queries' = Append(queries, [question |-> Asked[next], port |-> port,
                                   state |-> "waiting"])
  /\ next' = next + 1
  /\ UNCHANGED <<stage, host, getting, report>>

(* bind, connect or send returns an error.                                 *)
SendFails ==
  /\ CanBegin
  /\ Settle(Asked[next], FALSE, {}, 0)
  /\ next' = next + 1
  /\ UNCHANGED <<stage, queries, host, getting>>

Close(i, state) == queries' = [queries EXCEPT ![i].state = state]

(* recv returns a datagram: the answer to query j, sent from this port.    *)
Receive(i, j) ==
  /\ i \in Waiting
  /\ queries[j].port = queries[i].port
  /\ Close(i, "answered")
  /\ Settle(queries[i].question, TRUE, Zone[queries[j].question], i)
  /\ UNCHANGED <<stage, next, host, getting>>

(* Mutant: recv without the time limit around it.                          *)
QueryFails_Never(i) == FALSE

(* Mutant: a query that got no answer is sent again from its port.         *)
QueryFails_Retries(i) ==
  /\ i \in Waiting
  /\ queries' = Append([queries EXCEPT ![i].state = "failed"], queries[i])
  /\ UNCHANGED <<stage, next, host, getting, report>>

(* The time limit passes, or recv returns an error.  No query is repeated. *)
QueryFails(i) ==
  /\ i \in Waiting
  /\ Close(i, "failed")
  /\ Settle(queries[i].question, FALSE, {}, i)
  /\ UNCHANGED <<stage, next, host, getting>>

ListEnds == next \notin DOMAIN Asked /\ Waiting = {}

-----------------------------------------------------------------------------
(* From one list to the next.                                              *)

SubdomainsBegin ==
  /\ stage = "dns" /\ ListEnds
  /\ stage' = "subdomains" /\ next' = 1
  /\ UNCHANGED <<queries, host, getting, report>>

(* Mutant: a scan is over once its last request has been sent.             *)
ScanEnds_Unawaited == next > Len(Paths)

ScanEnds == next > Len(Paths) /\ getting = {}

HostBegins ==
  /\ \/ stage = "subdomains" /\ ListEnds
     \/ stage = "directories" /\ ScanEnds
  /\ host < Len(found_subs)
  /\ stage' = "directories" /\ host' = host + 1 /\ next' = 1
  /\ UNCHANGED <<queries, getting, report>>

ReportMade ==
  /\ \/ stage = "subdomains" /\ ListEnds
     \/ stage = "directories" /\ ScanEnds
  /\ host = Len(found_subs)
  /\ stage' = "done"
  /\ UNCHANGED <<next, queries, host, getting, report>>

-----------------------------------------------------------------------------
(* DirectoryBruter::scan on one host.                                      *)

Get ==
  /\ stage = "directories"
  /\ next <= Len(Paths) /\ Cardinality(getting) < Concurrency
  /\ getting' = getting \cup {[host |-> host, path |-> next]}
  /\ next' = next + 1
  /\ UNCHANGED <<stage, queries, host, report>>

(* An entry of the report has its path and status; the host is history.    *)
Got(g, status) ==
  /\ getting' = getting \ {g}
  /\ directories' = Append(directories,
       [host |-> g.host, path |-> g.path, status_code |-> status])
  /\ UNCHANGED <<stage, next, queries, host, dns_records, subdomains>>

Responds(g) == \E status \in StatusCodes : Got(g, status)

(* The client's time limit, or any other error, is reported as status 0.   *)
GetFails(g) == Got(g, 0)

-----------------------------------------------------------------------------
Timer == (\E i \in DOMAIN queries : QueryFails(i)) \/ (\E g \in getting : GetFails(g))

Advance == Send \/ SendFails \/ SubdomainsBegin \/ HostBegins \/ ReportMade \/ Get

Next ==
  \/ Advance
  \/ Timer
  \/ \E i, j \in DOMAIN queries : Receive(i, j)
  \/ \E g \in getting : Responds(g)

Spec == Init /\ [][Next]_vars

(* tokio polls the future and fires its time limits; the resolver and the  *)
(* web servers need never answer.                                          *)
FairSpec == Spec /\ WF_vars(Advance) /\ WF_vars(Timer)

-----------------------------------------------------------------------------
Reused(i) == \E j \in 1..(i - 1) : queries[j].port = queries[i].port

(* Every entry of the report is what the resolver says of its name, but    *)
(* for two causes: its query got no answer, or its port had been another   *)
(* query's before, whose answer came late or twice and was taken for its   *)
(* own (enumeration.rs:309-338, no identifier or question compared).       *)
ReportTellsZone ==
  /\ \A r \in dns_records :
       r.record_type \in Zone[queries[r.by].question] \/ Reused(r.by)
  /\ \A k \in DOMAIN subdomains :
       LET s == subdomains[k]
       IN \/ s.found <=> Zone[Question(s.subdomain, "A")] # {}
          \/ ~s.found /\ (s.by = 0 \/ queries[s.by].state = "failed")
          \/ s.by # 0 /\ queries[s.by].state = "answered" /\ Reused(s.by)

Count(s, Test(_)) == Cardinality({i \in DOMAIN s : Test(s[i])})

(* A finished report has every word as often as the list, though answers,  *)
(* errors and time limits come in any order; and though an entry of        *)
(* directories does not name its host, the hosts can be told: the k-th     *)
(* stretch as long as the list of paths holds each path of the k-th found  *)
(* subdomain once (enumeration.rs:381-412, 770-787).                       *)
ReportComplete ==
  /\ \A i \in DOMAIN directories :
       directories[i].host = 1 + (i - 1) \div Len(Paths)
  /\ \A i, j \in DOMAIN directories :
       i # j => \/ directories[i].host # directories[j].host
                \/ directories[i].path # directories[j].path
  /\ stage = "done" =>
       /\ Len(directories) = Len(found_subs) * Len(Paths)
       /\ \A w \in Elements(Words) :
            Count(subdomains, LAMBDA s : s.subdomain = w) = Count(Words, LAMBDA v : v = w)

(* What is left to do, most telling part first: lists, hosts, items of the *)
(* list, and what is under way.                                            *)
ListsLeft ==
  CASE stage = "dns" -> 3 [] stage = "subdomains" -> 2 [] stage = "directories" -> 1
    [] stage = "done" -> 0

HostsLeft == IF stage = "directories" THEN Len(found_subs) - host ELSE 0

ItemsLeft ==
  CASE stage = "dns"         -> Len(RecordTypes) + 1 - next
    [] stage = "subdomains"  -> Len(Words) + 1 - next
    [] stage = "directories" -> Len(Paths) + 1 - next
    [] stage = "done"        -> 0

WorkLeft == <<ListsLeft, HostsLeft, ItemsLeft, Cardinality(Waiting) + Cardinality(getting)>>

Before(s, t) ==
  \E i \in 1..4 : s[i] < t[i] /\ \A j \in 1..(i - 1) : s[j] = t[j]

(* No datagram, error or time limit makes the enumeration begin anything   *)
(* again, and no host is added while the hosts are gone through: each step *)
(* goes down an order of four naturals, in which nothing descends for ever *)
(* (enumeration.rs:345-352, 381-412, 781-787).                             *)
WorkRunsOut ==
  [][Before(WorkLeft', WorkLeft) /\ \A i \in 1..4 : WorkLeft'[i] \in Nat]_vars

(* The report is made in the end, whatever the network does: each query    *)
(* and each request is given up in time (enumeration.rs:319-325, 573).     *)
EnumerationReturns == <>(stage = "done")
=============================================================================

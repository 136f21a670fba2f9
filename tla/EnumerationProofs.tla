-------------------------- MODULE EnumerationProofs -------------------------
(***************************************************************************)
(* What an enumeration reports for any lists of record types, words and    *)
(* paths, pools of any width and any number of ports, whatever the network *)
(* does to the datagrams.                                                  *)
(***************************************************************************)
EXTENDS Enumeration, FiniteSetTheorems, SequenceTheorems, TLAPS

-----------------------------------------------------------------------------
(* The inductive invariant, by parts.                                      *)

Query     == [question : Questions, port : Ports, state : {"waiting", "answered", "failed"}]
Types     == {"A"} \cup Elements(RecordTypes) \cup UNION {Zone[q] : q \in Questions}
Entry     == [subdomain : Elements(Words), found : BOOLEAN, by : Nat]
Directory == [host : Nat, path : Nat, status_code : {0} \cup StatusCodes]

TypeOK ==
  /\ stage \in Stages
  /\ next \in Nat \ {0} /\ host \in Nat
  /\ queries \in Seq(Query)
  /\ dns_records \subseteq [record_type : Types, by : Nat]
  /\ subdomains \in Seq(Entry)
  /\ getting \subseteq [host : Nat, path : Nat] /\ IsFiniteSet(getting)
  /\ directories \in Seq(Directory)

(* A port is bound to one socket at a time, so that an answer to another   *)
(* query can only be one to an earlier query of the port.                  *)
PortsApart ==
  \A i \in Waiting, j \in DOMAIN queries : j > i => queries[j].port # queries[i].port

(* Only the two loops over queries wait for any.                           *)
WaitingInLoops ==
  \A i \in Waiting :
    /\ stage \in {"dns", "subdomains"}
    /\ stage = "subdomains" =>
         \E w \in Elements(Words) : queries[i].question = Question(w, "A")

(* What is reported has been decided, and for the causes named.            *)
RecordTold(r) ==
  /\ r.by \in DOMAIN queries
  /\ r.record_type \in Zone[queries[r.by].question] \/ Reused(r.by)

EntryTold(s) ==
  \/ s.found <=> Zone[Question(s.subdomain, "A")] # {}
  \/ ~s.found /\ s.by = 0
  \/ ~s.found /\ s.by \in DOMAIN queries /\ queries[s.by].state = "failed"
  \/ s.by \in DOMAIN queries /\ queries[s.by].state = "answered" /\ Reused(s.by)

Told ==
  /\ \A r \in dns_records : RecordTold(r)
  /\ \A k \in DOMAIN subdomains : EntryTold(subdomains[k])

(* Each time a word was taken from the list it has an entry or is waited   *)
(* for.                                                                    *)
Entries(w)  == {k \in DOMAIN subdomains : subdomains[k].subdomain = w}
Pending(w)  == {i \in Waiting : queries[i].question.name = w}
Taken(w, n) == {k \in 1..n : Words[k] = w}

WordsTold ==
  /\ stage = "dns" => subdomains = <<>>
  /\ stage = "subdomains" =>
       /\ next <= Len(Words) + 1
       /\ \A w \in Elements(Words) :
            Cardinality(Entries(w)) + Cardinality(Pending(w)) = Cardinality(Taken(w, next - 1))
  /\ stage \in {"directories", "done"} =>
       \A w \in Elements(Words) :
         Cardinality(Entries(w)) = Cardinality(Taken(w, Len(Words)))

(* The requests under way are for the host whose turn it is; each of its   *)
(* paths up to the next has an entry or a request.                         *)
Stretches ==
  /\ \A i \in DOMAIN directories : directories[i].host = 1 + (i - 1) \div Len(Paths)
  /\ \A i, j \in DOMAIN directories :
       i # j => \/ directories[i].host # directories[j].host
                \/ directories[i].path # directories[j].path

PathsTried ==
  /\ stage \in {"dns", "subdomains"} => host = 0 /\ directories = <<>>
  /\ stage # "directories" => getting = {}
  /\ stage = "directories" =>
       /\ host >= 1 /\ next <= Len(Paths) + 1
       /\ Cardinality(getting) <= next - 1
       /\ Len(directories) = (host - 1) * Len(Paths) + (next - 1 - Cardinality(getting))
       /\ \A g \in getting : g.host = host /\ g.path < next
       /\ \A i \in DOMAIN directories :
            /\ directories[i].host <= host
            /\ directories[i].host = host => directories[i].path < next
            /\ [host |-> directories[i].host, path |-> directories[i].path] \notin getting
  /\ stage = "done" =>
       host = Len(found_subs) /\ Len(directories) = host * Len(Paths)

Inv == /\ TypeOK /\ PortsApart /\ WaitingInLoops /\ Told
       /\ WordsTold /\ Stretches /\ PathsTried

-----------------------------------------------------------------------------
(* Sequences and what is read of them.                                     *)

LEMMA AppendFacts ==
  ASSUME NEW S, NEW s \in Seq(S), NEW e
  PROVE  /\ Len(s) \in Nat /\ DOMAIN s = 1..Len(s)
         /\ Len(Append(s, e)) = Len(s) + 1
         /\ DOMAIN Append(s, e) = 1..(Len(s) + 1)
         /\ \A i \in 1..Len(s) : Append(s, e)[i] = s[i]
         /\ Append(s, e)[Len(s) + 1] = e
         /\ \A i \in 1..Len(s) : s[i] \in S
         /\ e \in S => Append(s, e) \in Seq(S)
  OBVIOUS

LEMMA QueryTypes ==
  ASSUME TypeOK
  PROVE  /\ Len(queries) \in Nat /\ DOMAIN queries = 1..Len(queries)
         /\ \A i \in DOMAIN queries :
              /\ queries[i] \in Query /\ queries[i].question \in Questions
              /\ queries[i].port \in Ports
              /\ queries[i].state \in {"waiting", "answered", "failed"}
         /\ Waiting \subseteq DOMAIN queries
<1>1. queries \in Seq(Query)
  BY DEF TypeOK
<1>2. Len(queries) \in Nat /\ DOMAIN queries = 1..Len(queries)
  BY <1>1
<1>3. \A i \in DOMAIN queries : queries[i] \in Query
  BY <1>1
<1>4. QED
  BY <1>2, <1>3 DEF Query, Waiting

LEMMA ListFacts ==
  /\ Len(Words) \in Nat /\ DOMAIN Words = 1..Len(Words)
  /\ \A k \in DOMAIN Words : Words[k] \in Elements(Words) /\ Question(Words[k], "A") \in Questions
  /\ \A k \in DOMAIN RecordTypes :
       RecordTypes[k] \in Elements(RecordTypes) /\ Question(Domain, RecordTypes[k]) \in Questions
  /\ DOMAIN RecordTypes \subseteq Nat \ {0}
<1>1. Words \in Seq(Elements(Words)) /\ RecordTypes \in Seq(Elements(RecordTypes))
  BY EnumerationAssumption
<1>2. /\ Len(Words) \in Nat /\ DOMAIN Words = 1..Len(Words)
      /\ \A k \in DOMAIN Words : Words[k] \in Elements(Words)
  BY <1>1
<1>3. /\ DOMAIN RecordTypes \subseteq Nat \ {0}
      /\ \A k \in DOMAIN RecordTypes : RecordTypes[k] \in Elements(RecordTypes)
  BY <1>1
<1>4. QED
  BY <1>2, <1>3 DEF Questions

LEMMA AskedNext ==
  ASSUME TypeOK, next \in DOMAIN Asked
  PROVE  /\ stage \in {"dns", "subdomains"} /\ Asked[next] \in Questions
         /\ stage = "subdomains" => /\ next \in 1..Len(Words)
                                    /\ Asked[next] = Question(Words[next], "A")
                                    /\ Words[next] \in Elements(Words)
         /\ stage = "dns" => Asked[next].type \in Elements(RecordTypes)
<1>1. CASE stage = "dns"
  <2>1. Asked = [i \in DOMAIN RecordTypes |-> Question(Domain, RecordTypes[i])]
    BY <1>1 DEF Asked
  <2>2. next \in DOMAIN RecordTypes /\ Asked[next] = Question(Domain, RecordTypes[next])
    BY <2>1
  <2>3. QED
    BY <1>1, <2>2, ListFacts DEF Question
<1>2. CASE stage = "subdomains"
  <2>1. Asked = [i \in DOMAIN Words |-> Question(Words[i], "A")]
    BY <1>2 DEF Asked
  <2>2. next \in DOMAIN Words /\ Asked[next] = Question(Words[next], "A")
    BY <2>1
  <2>3. QED
    BY <1>2, <2>2, ListFacts
<1>3. CASE stage \notin {"dns", "subdomains"}
  <2>1. Asked = <<>>
    BY <1>3 DEF Asked
  <2>2. QED
    BY <2>1
<1>4. QED
  BY <1>1, <1>2, <1>3

(* A query is sent.                                                        *)
LEMMA Sent ==
  ASSUME TypeOK, Send
  PROVE  /\ queries' \in Seq(Query) /\ Len(queries') = Len(queries) + 1
         /\ DOMAIN queries' = 1..(Len(queries) + 1)
         /\ \A i \in 1..Len(queries) : queries'[i] = queries[i]
         /\ queries'[Len(queries) + 1].question = Asked[next]
         /\ \A i \in Waiting : queries'[Len(queries) + 1].port # queries[i].port
         /\ Waiting' = Waiting \cup {Len(queries) + 1}
<1>1. PICK port \in Ports \ {queries[i].port : i \in Waiting} :
         queries' = Append(queries, [question |-> Asked[next], port |-> port,
                                     state |-> "waiting"])
  BY DEF Send
<1> DEFINE q == [question |-> Asked[next], port |-> port, state |-> "waiting"]
<1>2. q \in Query /\ q.state = "waiting" /\ q.question = Asked[next] /\ q.port = port
  BY AskedNext DEF Send, CanBegin, Query
<1> HIDE DEF q
<1>3. queries' = Append(queries, q)
  BY <1>1 DEF q
<1>4. queries \in Seq(Query)
  BY DEF TypeOK
<1>5. /\ Len(queries) \in Nat /\ DOMAIN queries = 1..Len(queries)
      /\ Len(queries') = Len(queries) + 1 /\ DOMAIN queries' = 1..(Len(queries) + 1)
      /\ \A i \in 1..Len(queries) : queries'[i] = queries[i]
      /\ queries'[Len(queries) + 1] = q /\ queries' \in Seq(Query)
  BY <1>2, <1>3, <1>4, AppendFacts
<1>6. \A i \in Waiting : port # queries[i].port
  OBVIOUS
<1>7. Waiting' = Waiting \cup {Len(queries) + 1}
  BY <1>2, <1>5 DEF Waiting
<1>8. QED
  BY <1>2, <1>5, <1>6, <1>7

(* A query is answered or given up.                                        *)
LEMMA Closed ==
  ASSUME TypeOK, NEW i \in Waiting, NEW state \in {"answered", "failed"}, Close(i, state)
  PROVE  /\ queries' \in Seq(Query) /\ DOMAIN queries' = DOMAIN queries
         /\ \A j \in DOMAIN queries :
              /\ queries'[j].question = queries[j].question
              /\ queries'[j].port = queries[j].port
              /\ queries'[j].state = IF j = i THEN state ELSE queries[j].state
         /\ Waiting' = Waiting \ {i}
<1>1. queries' = [queries EXCEPT ![i] = [queries[i] EXCEPT !.state = state]]
  BY DEF Close
<1>2. [queries[i] EXCEPT !.state = state] \in Query
  BY QueryTypes DEF Query
<1> DEFINE q == [queries[i] EXCEPT !.state = state]
<1>3. queries' \in Seq(Query)
  <2>1. queries \in Seq(Query) /\ i \in 1..Len(queries) /\ q \in Query
    BY <1>2, QueryTypes DEF TypeOK
  <2> HIDE DEF q
  <2>2. [queries EXCEPT ![i] = q] \in Seq(Query)
    BY <2>1
  <2>3. QED
    BY <1>1, <2>2 DEF q
<1>4. /\ DOMAIN queries' = DOMAIN queries
      /\ \A j \in DOMAIN queries :
           queries'[j] = IF j = i THEN [queries[i] EXCEPT !.state = state] ELSE queries[j]
  BY <1>1, QueryTypes
<1>5. /\ [queries[i] EXCEPT !.state = state].question = queries[i].question
      /\ [queries[i] EXCEPT !.state = state].port = queries[i].port
      /\ [queries[i] EXCEPT !.state = state].state = state
  BY QueryTypes DEF Query
<1>6. \A j \in DOMAIN queries :
        /\ queries'[j].question = queries[j].question
        /\ queries'[j].port = queries[j].port
        /\ queries'[j].state = IF j = i THEN state ELSE queries[j].state
  BY <1>4, <1>5
<1>7. Waiting' = Waiting \ {i}
  BY <1>4, <1>6, QueryTypes DEF Waiting
<1>8. QED
  BY <1>3, <1>4, <1>6, <1>7

-----------------------------------------------------------------------------
(* Steps.                                                                  *)

Gets == Get \/ \E g \in getting, status \in {0} \cup StatusCodes : Got(g, status)
Turns == SubdomainsBegin \/ HostBegins \/ ReportMade

LEMMA Steps ==
  ASSUME TypeOK, [Next]_vars
  PROVE  \/ Send \/ SendFails
         \/ \E i \in Waiting : QueryFails(i) \/ \E j \in DOMAIN queries : Receive(i, j)
         \/ Turns \/ Gets \/ UNCHANGED vars
<1>1. ASSUME NEW i \in DOMAIN queries, QueryFails(i) PROVE i \in Waiting
  BY <1>1 DEF QueryFails
<1>2. ASSUME NEW i \in DOMAIN queries, NEW j \in DOMAIN queries, Receive(i, j)
      PROVE  i \in Waiting
  BY <1>2 DEF Receive
<1>3. ASSUME NEW g \in getting, GetFails(g) \/ Responds(g) PROVE Gets
  BY <1>3 DEF GetFails, Responds, Gets
<1>4. Advance => Send \/ SendFails \/ Turns \/ Gets
  BY DEF Advance, Turns, Gets
<1>5. QED
  BY <1>1, <1>2, <1>3, <1>4 DEF Next, Timer

LEMMA QuestionTypes ==
  ASSUME NEW q \in Questions
  PROVE  q.type \in Types /\ Zone[q] \subseteq Types /\ q = Question(q.name, q.type)
  BY DEF Questions, Question, Types

LEMMA SettleTypes ==
  ASSUME TypeOK, NEW question \in Questions, NEW answered \in BOOLEAN,
         NEW records \in SUBSET Types, NEW by \in Nat,
         stage # "dns" => question.name \in Elements(Words),
         Settle(question, answered, records, by)
  PROVE  /\ dns_records' \subseteq [record_type : Types, by : Nat]
         /\ subdomains' \in Seq(Entry) /\ directories' = directories
<1>1. directories' = directories
  BY DEF Settle
<1>2. CASE stage = "dns"
  <2>1. Labelled(question, records, by) \subseteq [record_type : Types, by : Nat]
    BY QuestionTypes DEF Labelled
  <2>2. QED
    BY <1>1, <1>2, <2>1 DEF Settle, TypeOK
<1>3. CASE stage # "dns"
  <2>1. Subdomain(question, answered, records, by) \in Entry
    BY <1>3 DEF Subdomain, Entry
  <2>2. subdomains \in Seq(Entry) /\ UNCHANGED dns_records
    BY <1>3 DEF Settle, TypeOK
  <2>3. subdomains' = Append(subdomains, Subdomain(question, answered, records, by))
    BY <1>3 DEF Settle
  <2>4. subdomains' \in Seq(Entry)
    BY <2>1, <2>2, <2>3, AppendFacts
  <2>5. QED
    BY <1>1, <2>2, <2>4 DEF TypeOK
<1>4. QED
  BY <1>2, <1>3

(* The word of a query that brute waits for.                               *)
LEMMA WordWaited ==
  ASSUME WaitingInLoops, NEW i \in Waiting, stage # "dns"
  PROVE  /\ stage = "subdomains" /\ queries[i].question.name \in Elements(Words)
         /\ queries[i].question = Question(queries[i].question.name, "A")
<1>1. stage = "subdomains"
  BY DEF WaitingInLoops
<1>2. PICK w \in Elements(Words) : queries[i].question = Question(w, "A")
  BY <1>1 DEF WaitingInLoops
<1>3. Question(w, "A").name = w
  BY DEF Question
<1>4. QED
  BY <1>1, <1>2, <1>3

LEMMA StepTypes == TypeOK /\ WaitingInLoops /\ [Next]_vars => TypeOK'
<1> SUFFICES ASSUME TypeOK, WaitingInLoops, [Next]_vars PROVE TypeOK'
  OBVIOUS
<1>1. CASE Send
  BY <1>1, Sent DEF Send, report, TypeOK
<1>2. CASE SendFails
  <2>1. Settle(Asked[next], FALSE, {}, 0)
    BY <1>2 DEF SendFails
  <2>2. Asked[next] \in Questions /\ (stage # "dns" => Asked[next].name \in Elements(Words))
    BY <1>2, AskedNext DEF SendFails, CanBegin, Question
  <2>3. /\ dns_records' \subseteq [record_type : Types, by : Nat]
        /\ subdomains' \in Seq(Entry) /\ directories' = directories
    BY <2>1, <2>2, SettleTypes
  <2>4. QED
    BY <1>2, <2>3 DEF SendFails, TypeOK
<1>3. ASSUME NEW i \in Waiting, QueryFails(i) \/ \E j \in DOMAIN queries : Receive(i, j)
      PROVE  TypeOK'
  <2>1. queries' \in Seq(Query)
    BY <1>3, Closed DEF QueryFails, Receive
  <2>2. queries[i].question \in Questions
    BY QueryTypes
  <2>3. \A j \in DOMAIN queries : Zone[queries[j].question] \in SUBSET Types
    BY QueryTypes, QuestionTypes
  <2>4. PICK answered \in BOOLEAN, records \in SUBSET Types :
           Settle(queries[i].question, answered, records, i)
    BY <1>3, <2>3 DEF QueryFails, Receive
  <2>5. i \in Nat
    BY QueryTypes
  <2>6. /\ dns_records' \subseteq [record_type : Types, by : Nat]
        /\ subdomains' \in Seq(Entry) /\ directories' = directories
    BY <2>2, <2>4, <2>5, WordWaited, SettleTypes
  <2>7. UNCHANGED <<stage, next, host, getting>>
    BY <1>3 DEF QueryFails, Receive
  <2>8. QED
    BY <2>1, <2>6, <2>7 DEF TypeOK
<1>4. CASE Turns
  BY <1>4 DEF Turns, SubdomainsBegin, HostBegins, ReportMade, report, TypeOK, Stages
<1>5. CASE Get
  <2>1. [host |-> host, path |-> next] \in [host : Nat, path : Nat]
    BY DEF TypeOK
  <2>2. IsFiniteSet(getting \cup {[host |-> host, path |-> next]})
    BY FS_AddElement DEF TypeOK
  <2>3. QED
    BY <1>5, <2>1, <2>2 DEF Get, report, TypeOK
<1>6. ASSUME NEW g \in getting, NEW status \in {0} \cup StatusCodes, Got(g, status)
      PROVE  TypeOK'
  <2> DEFINE d == [host |-> g.host, path |-> g.path, status_code |-> status]
  <2>1. d \in Directory /\ directories \in Seq(Directory)
    BY DEF Directory, TypeOK
  <2>2. directories' = Append(directories, d)
    BY <1>6 DEF Got
  <2> HIDE DEF d
  <2>3. directories' \in Seq(Directory)
    BY <2>1, <2>2, AppendFacts
  <2>4. IsFiniteSet(getting \ {g})
    BY FS_RemoveElement DEF TypeOK
  <2>5. QED
    BY <1>6, <2>3, <2>4 DEF Got, TypeOK
<1>7. CASE UNCHANGED vars
  BY <1>7 DEF vars, TypeOK
<1>8. QED
  BY <1>1, <1>2, <1>3, <1>4, <1>5, <1>6, <1>7, Steps DEF Gets

(* What the steps that send or close nothing leave alone.                  *)
LEMMA Quiet ==
  ASSUME SendFails \/ Turns \/ Gets \/ UNCHANGED vars
  PROVE  queries' = queries /\ Waiting' = Waiting
<1>1. queries' = queries
  BY DEF SendFails, Turns, SubdomainsBegin, HostBegins, ReportMade, Gets, Get, Got, vars
<1>2. QED
  BY <1>1 DEF Waiting

LEMMA StepPorts == TypeOK /\ PortsApart /\ [Next]_vars => PortsApart'
<1> SUFFICES ASSUME TypeOK, PortsApart, [Next]_vars PROVE PortsApart'
  OBVIOUS
<1>1. CASE Send
  <2>1. SUFFICES ASSUME NEW i \in Waiting', NEW j \in DOMAIN queries', j > i
                 PROVE  queries'[j].port # queries'[i].port
    BY DEF PortsApart
  <2>2. /\ Waiting \subseteq 1..Len(queries) /\ Len(queries) \in Nat
        /\ DOMAIN queries = 1..Len(queries)
    BY QueryTypes
  <2>a. j \in 1..(Len(queries) + 1) /\ i \in Waiting \cup {Len(queries) + 1}
    BY <1>1, Sent
  <2>3. i \in Waiting /\ j \in 1..(Len(queries) + 1) /\ queries'[i] = queries[i]
    <3>1. i \in Waiting
      BY <2>1, <2>2, <2>a
    <3>2. i \in 1..Len(queries)
      BY <2>2, <3>1
    <3>3. QED
      BY <1>1, <2>a, <3>1, <3>2, Sent
  <2>4. CASE j = Len(queries) + 1
    BY <1>1, <2>3, <2>4, Sent
  <2>5. CASE j \in 1..Len(queries)
    BY <1>1, <2>1, <2>2, <2>3, <2>5, Sent DEF PortsApart
  <2>6. QED
    BY <2>2, <2>3, <2>4, <2>5
<1>2. ASSUME NEW i \in Waiting, QueryFails(i) \/ \E j \in DOMAIN queries : Receive(i, j)
      PROVE  PortsApart'
  <2>1. /\ DOMAIN queries' = DOMAIN queries /\ Waiting' = Waiting \ {i}
        /\ \A j \in DOMAIN queries : queries'[j].port = queries[j].port
    BY <1>2, Closed DEF QueryFails, Receive
  <2>2. QED
    BY <2>1, QueryTypes DEF PortsApart
<1>3. CASE SendFails \/ Turns \/ Gets \/ UNCHANGED vars
  BY <1>3, Quiet DEF PortsApart
<1>4. QED
  BY <1>1, <1>2, <1>3, Steps

LEMMA StepWaiting == TypeOK /\ WaitingInLoops /\ [Next]_vars => WaitingInLoops'
<1> SUFFICES ASSUME TypeOK, WaitingInLoops, [Next]_vars PROVE WaitingInLoops'
  OBVIOUS
<1>1. CASE Send
  <2>1. stage' = stage /\ next \in DOMAIN Asked
    BY <1>1 DEF Send, CanBegin
  <2>2. \A i \in Waiting : queries'[i] = queries[i]
    BY <1>1, Sent, QueryTypes
  <2>3. QED
    BY <1>1, <2>1, <2>2, Sent, AskedNext DEF WaitingInLoops
<1>2. ASSUME NEW i \in Waiting, QueryFails(i) \/ \E j \in DOMAIN queries : Receive(i, j)
      PROVE  WaitingInLoops'
  <2>1. /\ Waiting' = Waiting \ {i} /\ stage' = stage
        /\ \A j \in DOMAIN queries : queries'[j].question = queries[j].question
    BY <1>2, Closed DEF QueryFails, Receive
  <2>2. QED
    BY <2>1, QueryTypes DEF WaitingInLoops
<1>3. CASE SendFails \/ Gets \/ UNCHANGED vars
  <2>1. stage' = stage
    BY <1>3 DEF SendFails, Gets, Get, Got, vars
  <2>2. QED
    BY <1>3, <2>1, Quiet DEF WaitingInLoops
<1>4. CASE Turns
  <2>1. Waiting = {}
    BY <1>4 DEF Turns, SubdomainsBegin, HostBegins, ReportMade, ListEnds, WaitingInLoops
  <2>2. QED
    BY <1>4, <2>1, Quiet DEF WaitingInLoops
<1>5. QED
  BY <1>1, <1>2, <1>3, <1>4, Steps

-----------------------------------------------------------------------------
(* The report against the zone.                                            *)

(* What was told stays told: a query keeps its question and port, and how  *)
(* it ended, and later queries do not count.                               *)
LEMMA ToldKept ==
  ASSUME TypeOK, Told, DOMAIN queries \subseteq DOMAIN queries',
         \A j \in DOMAIN queries :
           /\ queries'[j].question = queries[j].question
           /\ queries'[j].port = queries[j].port
           /\ queries[j].state # "waiting" => queries'[j].state = queries[j].state
  PROVE  /\ \A r \in dns_records : RecordTold(r)'
         /\ \A e \in Entry : EntryTold(e) => EntryTold(e)'
<1>1. \A i \in DOMAIN queries : Reused(i) => Reused(i)'
  <2>1. SUFFICES ASSUME NEW i \in DOMAIN queries, Reused(i) PROVE Reused(i)'
    OBVIOUS
  <2>2. PICK j \in 1..(i - 1) : queries[j].port = queries[i].port
    BY <2>1 DEF Reused
  <2>3. j \in DOMAIN queries
    BY <2>2, QueryTypes
  <2>4. queries'[j].port = queries'[i].port
    BY <2>2, <2>3
  <2>5. QED
    BY <2>2, <2>4 DEF Reused
<1>2. ASSUME NEW r \in dns_records PROVE RecordTold(r)'
  <2>1. RecordTold(r)
    BY DEF Told
  <2>2. QED
    BY <2>1, <1>1 DEF RecordTold
<1>3. ASSUME NEW e \in Entry, EntryTold(e) PROVE EntryTold(e)'
  BY <1>1, <1>3 DEF EntryTold
<1>4. QED
  BY <1>2, <1>3

(* One more entry, told like the ones before.                              *)
LEMMA ToldMore ==
  ASSUME TypeOK, dns_records' = dns_records,
         \A r \in dns_records : RecordTold(r)', Told,
         \A e \in Entry : EntryTold(e) => EntryTold(e)',
         NEW e \in Entry, EntryTold(e)', subdomains' = Append(subdomains, e)
  PROVE  Told'
<1>1. subdomains \in Seq(Entry)
  BY DEF TypeOK
<1>2. /\ Len(subdomains) \in Nat /\ DOMAIN subdomains = 1..Len(subdomains)
      /\ DOMAIN subdomains' = 1..(Len(subdomains) + 1)
      /\ \A k \in 1..Len(subdomains) : subdomains'[k] = subdomains[k] /\ subdomains[k] \in Entry
      /\ subdomains'[Len(subdomains) + 1] = e
  BY <1>1, AppendFacts
<1>3. ASSUME NEW k \in DOMAIN subdomains' PROVE EntryTold(subdomains[k])'
  <2>1. PICK s : s = subdomains'[k]
    OBVIOUS
  <2>2. CASE k = Len(subdomains) + 1
    <3>1. EntryTold(s)'
      BY <1>2, <2>1, <2>2
    <3>2. QED
      BY <2>1, <3>1 DEF EntryTold
  <2>3. CASE k \in 1..Len(subdomains)
    <3>1. s = subdomains[k] /\ s \in Entry /\ EntryTold(subdomains[k])
      BY <1>2, <2>1, <2>3 DEF Told
    <3>2. EntryTold(s)
      BY <3>1
    <3>3. EntryTold(s)'
      BY <3>1, <3>2
    <3>4. QED
      BY <2>1, <3>3 DEF EntryTold
  <2>4. QED
    BY <1>2, <2>2, <2>3
<1>4. QED
  BY <1>3 DEF Told

(* No more entries, and records told like the ones before.                 *)
LEMMA ToldAlike ==
  ASSUME TypeOK, Told, subdomains' = subdomains,
         \A r \in dns_records' : RecordTold(r)',
         \A e \in Entry : EntryTold(e) => EntryTold(e)'
  PROVE  Told'
<1>1. ASSUME NEW k \in DOMAIN subdomains PROVE EntryTold(subdomains[k])'
  <2>1. PICK s : s = subdomains[k]
    OBVIOUS
  <2>2. s \in Entry
    BY <2>1 DEF TypeOK
  <2>3. EntryTold(s)
    BY <2>1 DEF Told
  <2>4. EntryTold(s)'
    BY <2>2, <2>3
  <2>5. QED
    BY <2>1, <2>4 DEF EntryTold
<1>2. QED
  BY <1>1 DEF Told

(* An answer to the query's own question tells of it.                      *)
LEMMA OwnAnswer ==
  ASSUME NEW q \in Questions, NEW by, NEW r \in Labelled(q, Zone[q], by)
  PROVE  r.record_type \in Zone[q] /\ r.by = by
<1>1. PICK x \in Zone[q] :
         r = [record_type |-> IF x \in {"A", "AAAA"} THEN q.type ELSE x, by |-> by]
  BY DEF Labelled
<1>2. x \in {"A", "AAAA"} => x = q.type
  BY EnumerationAssumption
<1>3. QED
  BY <1>1, <1>2

(* A datagram that is not the answer to this query answers an earlier one. *)
LEMMA OtherAnswer ==
  ASSUME TypeOK, PortsApart, NEW i \in Waiting, NEW j \in DOMAIN queries, Receive(i, j)
  PROVE  i = j \/ Reused(i)
<1>1. queries[j].port = queries[i].port
  BY DEF Receive
<1>2. ~(j > i)
  BY <1>1 DEF PortsApart
<1>3. i \in Nat /\ j \in Nat /\ j >= 1
  BY QueryTypes
<1>4. QED
  BY <1>1, <1>2, <1>3 DEF Reused

LEMMA StepTold ==
  TypeOK /\ PortsApart /\ WaitingInLoops /\ Told /\ [Next]_vars => Told'
<1> SUFFICES ASSUME TypeOK, PortsApart, WaitingInLoops, Told, [Next]_vars PROVE Told'
  OBVIOUS
<1>1. CASE Send
  <2>1. UNCHANGED <<subdomains, dns_records>>
    BY <1>1 DEF Send, report
  <2>2. /\ DOMAIN queries \subseteq DOMAIN queries'
        /\ \A j \in DOMAIN queries : queries'[j] = queries[j]
    BY <1>1, Sent, QueryTypes
  <2>3. /\ \A r \in dns_records : RecordTold(r)'
        /\ \A e \in Entry : EntryTold(e) => EntryTold(e)'
    BY <2>2, ToldKept
  <2>4. QED
    BY <2>1, <2>3, ToldAlike
<1>2. CASE SendFails
  <2>1. queries' = queries
    BY <1>2 DEF SendFails
  <2>2. /\ \A r \in dns_records : RecordTold(r)'
        /\ \A e \in Entry : EntryTold(e) => EntryTold(e)'
    BY <2>1, ToldKept
  <2>3. CASE stage = "dns"
    <3>1. UNCHANGED <<dns_records, subdomains>>
      BY <1>2, <2>3 DEF SendFails, Settle, Labelled
    <3>2. QED
      BY <2>2, <3>1, ToldAlike
  <2>4. CASE stage # "dns"
    <3>1. PICK e : e = Subdomain(Asked[next], FALSE, {}, 0)
      OBVIOUS
    <3>2. subdomains' = Append(subdomains, e) /\ UNCHANGED dns_records
      BY <1>2, <2>4, <3>1 DEF SendFails, Settle
    <3>3. Asked[next].name \in Elements(Words)
      BY <1>2, <2>4, AskedNext DEF SendFails, CanBegin, Question
    <3>4. e \in Entry /\ ~e.found /\ e.by = 0
      BY <3>1, <3>3 DEF Subdomain, Entry
    <3>5. EntryTold(e)'
      BY <3>4 DEF EntryTold
    <3>6. QED
      BY <2>2, <3>2, <3>4, <3>5, ToldMore
  <2>5. QED
    BY <2>3, <2>4
<1>3. ASSUME NEW i \in Waiting, NEW state \in {"answered", "failed"}, Close(i, state)
      PROVE  /\ \A r \in dns_records : RecordTold(r)'
             /\ \A e \in Entry : EntryTold(e) => EntryTold(e)'
             /\ DOMAIN queries' = DOMAIN queries
             /\ i \in DOMAIN queries' /\ i \in Nat /\ i # 0 /\ queries'[i].state = state
             /\ queries'[i].question = queries[i].question
             /\ Reused(i) => Reused(i)'
  <2>1. /\ DOMAIN queries' = DOMAIN queries
        /\ \A k \in DOMAIN queries :
             /\ queries'[k].question = queries[k].question
             /\ queries'[k].port = queries[k].port
             /\ queries'[k].state = IF k = i THEN state ELSE queries[k].state
    BY <1>3, Closed
  <2>2. queries[i].state = "waiting" /\ i \in DOMAIN queries /\ i \in Nat /\ i # 0
    BY QueryTypes DEF Waiting
  <2>3. /\ \A r \in dns_records : RecordTold(r)'
        /\ \A e \in Entry : EntryTold(e) => EntryTold(e)'
    BY <2>1, <2>2, ToldKept
  <2>4. Reused(i) => Reused(i)'
    BY <2>1, <2>2, QueryTypes DEF Reused
  <2>5. QED
    BY <2>1, <2>2, <2>3, <2>4
<1>4. ASSUME NEW i \in Waiting, QueryFails(i) PROVE Told'
  <2>1. /\ \A r \in dns_records : RecordTold(r)'
        /\ \A e \in Entry : EntryTold(e) => EntryTold(e)'
        /\ i \in DOMAIN queries' /\ i \in Nat /\ queries'[i].state = "failed"
    BY <1>3, <1>4 DEF QueryFails
  <2>2. CASE stage = "dns"
    <3>1. UNCHANGED <<dns_records, subdomains>>
      BY <1>4, <2>2 DEF QueryFails, Settle, Labelled
    <3>2. QED
      BY <2>1, <3>1, ToldAlike
  <2>3. CASE stage # "dns"
    <3>1. PICK e : e = Subdomain(queries[i].question, FALSE, {}, i)
      OBVIOUS
    <3>2. subdomains' = Append(subdomains, e) /\ UNCHANGED dns_records
      BY <1>4, <2>3, <3>1 DEF QueryFails, Settle
    <3>3. e \in Entry /\ ~e.found /\ e.by = i
      BY <2>1, <2>3, <3>1, WordWaited DEF Subdomain, Entry
    <3>4. EntryTold(e)'
      BY <2>1, <3>3 DEF EntryTold
    <3>5. QED
      BY <2>1, <3>2, <3>3, <3>4, ToldMore
  <2>4. QED
    BY <2>2, <2>3
<1>5. ASSUME NEW i \in Waiting, NEW j \in DOMAIN queries, Receive(i, j) PROVE Told'
  <2>1. /\ \A r \in dns_records : RecordTold(r)'
        /\ \A e \in Entry : EntryTold(e) => EntryTold(e)'
        /\ i \in DOMAIN queries' /\ i \in Nat /\ queries'[i].state = "answered"
        /\ queries'[i].question = queries[i].question
        /\ Reused(i) => Reused(i)'
    BY <1>3, <1>5 DEF Receive
  <2>2. i = j \/ Reused(i)'
    BY <1>5, <2>1, OtherAnswer
  <2>3. Settle(queries[i].question, TRUE, Zone[queries[j].question], i)
    BY <1>5 DEF Receive
  <2>4. queries[i].question \in Questions
    BY QueryTypes
  <2>5. CASE stage = "dns"
    <3>1. /\ subdomains' = subdomains
          /\ dns_records' = dns_records
               \cup Labelled(queries[i].question, Zone[queries[j].question], i)
      BY <2>3, <2>5 DEF Settle
    <3>2. ASSUME NEW r \in Labelled(queries[i].question, Zone[queries[j].question], i)
          PROVE  RecordTold(r)'
      <4>1. r.by = i
        BY <3>2 DEF Labelled
      <4>2. i = j => r.record_type \in Zone[queries[i].question]
        BY <2>4, <3>2, OwnAnswer
      <4>3. QED
        BY <2>1, <2>2, <4>1, <4>2 DEF RecordTold
    <3>3. \A r \in dns_records' : RecordTold(r)'
      BY <2>1, <3>1, <3>2
    <3>4. QED
      BY <2>1, <3>1, <3>3, ToldAlike
  <2>6. CASE stage # "dns"
    <3>1. PICK e : e = Subdomain(queries[i].question, TRUE, Zone[queries[j].question], i)
      OBVIOUS
    <3>2. subdomains' = Append(subdomains, e) /\ UNCHANGED dns_records
      BY <2>3, <2>6, <3>1 DEF Settle
    <3>3. /\ e \in Entry /\ e.by = i /\ e.subdomain = queries[i].question.name
          /\ e.found <=> Zone[queries[j].question] # {}
      BY <2>1, <2>6, <3>1, WordWaited DEF Subdomain, Entry
    <3>4. queries[i].question = Question(e.subdomain, "A")
      BY <2>6, <3>3, WordWaited
    <3>5. EntryTold(e)'
      <4>1. CASE i = j
        BY <3>3, <3>4, <4>1 DEF EntryTold
      <4>2. CASE Reused(i)'
        BY <2>1, <3>3, <4>2 DEF EntryTold
      <4>3. QED
        BY <2>2, <4>1, <4>2
    <3>6. QED
      BY <2>1, <3>2, <3>3, <3>5, ToldMore
  <2>7. QED
    BY <2>5, <2>6
<1>6. CASE Turns \/ Gets \/ UNCHANGED vars
  <2>1. UNCHANGED <<subdomains, dns_records, queries>>
    BY <1>6 DEF Turns, SubdomainsBegin, HostBegins, ReportMade, Gets, Get, Got, report, vars
  <2>2. /\ \A r \in dns_records : RecordTold(r)'
        /\ \A e \in Entry : EntryTold(e) => EntryTold(e)'
    BY <2>1, ToldKept
  <2>3. QED
    BY <2>1, <2>2, ToldAlike
<1>7. QED
  BY <1>1, <1>2, <1>4, <1>5, <1>6, Steps

-----------------------------------------------------------------------------
(* Words and their entries.                                                *)

LEMMA OneMore ==
  ASSUME NEW S, IsFiniteSet(S), NEW x, x \notin S, NEW test \in BOOLEAN,
         NEW T, T = IF test THEN S \cup {x} ELSE S
  PROVE  /\ Cardinality(S) \in Nat /\ Cardinality(T) \in Nat
         /\ Cardinality(T) = Cardinality(S) + (IF test THEN 1 ELSE 0)
<1>1. Cardinality(S) \in Nat /\ IsFiniteSet(S \cup {x})
  BY FS_CardinalityType, FS_AddElement
<1>2. Cardinality(S \cup {x}) = Cardinality(S) + 1
  BY FS_AddElement
<1>3. QED
  BY <1>1, <1>2

LEMMA Finite ==
  ASSUME NEW n \in Nat, NEW S \in SUBSET (1..n)
  PROVE  IsFiniteSet(S) /\ Cardinality(S) \in Nat
<1>1. IsFiniteSet(1..n)
  BY FS_Interval
<1>2. QED
  BY <1>1, FS_Subset, FS_CardinalityType

LEMMA EntriesGrow ==
  ASSUME TypeOK, NEW e \in Entry, subdomains' = Append(subdomains, e), NEW w
  PROVE  /\ Cardinality(Entries(w)) \in Nat
         /\ Cardinality(Entries(w)') =
              Cardinality(Entries(w)) + (IF e.subdomain = w THEN 1 ELSE 0)
<1> DEFINE S == Entries(w)
           T == Entries(w)'
           new == e.subdomain = w
<1>1. /\ Len(subdomains) \in Nat /\ DOMAIN subdomains = 1..Len(subdomains)
      /\ DOMAIN subdomains' = 1..(Len(subdomains) + 1)
      /\ \A k \in 1..Len(subdomains) : subdomains'[k] = subdomains[k]
      /\ subdomains'[Len(subdomains) + 1] = e
  BY AppendFacts DEF TypeOK
<1>2. IsFiniteSet(S) /\ Len(subdomains) + 1 \notin S
  <2>1. S \in SUBSET (1..Len(subdomains)) /\ Len(subdomains) \in Nat
    BY <1>1 DEF Entries
  <2> HIDE DEF S
  <2>2. IsFiniteSet(S)
    BY <2>1, Finite
  <2>3. QED
    BY <2>1, <2>2
<1>3. T = IF new THEN S \cup {Len(subdomains) + 1} ELSE S
  BY <1>1 DEF Entries
<1>4. new \in BOOLEAN
  OBVIOUS
<1> HIDE DEF S, T, new
<1>5. /\ Cardinality(S) \in Nat
      /\ Cardinality(T) = Cardinality(S) + (IF new THEN 1 ELSE 0)
  BY <1>2, <1>3, <1>4, OneMore
<1>6. QED
  BY <1>5 DEF S, T, new

LEMMA TakenGrows ==
  ASSUME NEW n \in Nat, NEW w
  PROVE  /\ Cardinality(Taken(w, n)) \in Nat
         /\ Cardinality(Taken(w, n + 1)) =
              Cardinality(Taken(w, n)) + (IF Words[n + 1] = w THEN 1 ELSE 0)
<1> DEFINE S == Taken(w, n)
           T == Taken(w, n + 1)
           new == Words[n + 1] = w
<1>1. IsFiniteSet(S) /\ n + 1 \notin S
  <2>1. S \in SUBSET (1..n) /\ n \in Nat
    BY DEF Taken
  <2> HIDE DEF S
  <2>2. IsFiniteSet(S)
    BY <2>1, Finite
  <2>3. QED
    BY <2>1, <2>2
<1>2. T = IF new THEN S \cup {n + 1} ELSE S
  BY DEF Taken
<1>3. new \in BOOLEAN
  OBVIOUS
<1> HIDE DEF S, T, new
<1>4. /\ Cardinality(S) \in Nat
      /\ Cardinality(T) = Cardinality(S) + (IF new THEN 1 ELSE 0)
  BY <1>1, <1>2, <1>3, OneMore
<1>5. QED
  BY <1>4 DEF S, T, new

LEMMA PendingGrows ==
  ASSUME TypeOK, Send, NEW w
  PROVE  /\ Cardinality(Pending(w)) \in Nat
         /\ Cardinality(Pending(w)') =
              Cardinality(Pending(w)) + (IF Asked[next].name = w THEN 1 ELSE 0)
<1> DEFINE S == Pending(w)
           T == Pending(w)'
           new == Asked[next].name = w
<1>1. Len(queries) \in Nat /\ Waiting \subseteq 1..Len(queries)
  BY QueryTypes
<1>2. IsFiniteSet(S) /\ Len(queries) + 1 \notin S
  <2>1. S \in SUBSET (1..Len(queries)) /\ Len(queries) \in Nat
    BY <1>1 DEF Pending
  <2> HIDE DEF S
  <2>2. IsFiniteSet(S)
    BY <2>1, Finite
  <2>3. QED
    BY <2>1, <2>2
<1>3. T = IF new THEN S \cup {Len(queries) + 1} ELSE S
  <2>1. /\ Waiting' = Waiting \cup {Len(queries) + 1}
        /\ \A i \in Waiting : queries'[i] = queries[i]
        /\ queries'[Len(queries) + 1].question = Asked[next]
    BY <1>1, Sent
  <2>2. QED
    BY <2>1 DEF Pending
<1>4. new \in BOOLEAN
  OBVIOUS
<1> HIDE DEF S, T, new
<1>5. /\ Cardinality(S) \in Nat
      /\ Cardinality(T) = Cardinality(S) + (IF new THEN 1 ELSE 0)
  BY <1>2, <1>3, <1>4, OneMore
<1>6. QED
  BY <1>5 DEF S, T, new

LEMMA PendingShrinks ==
  ASSUME TypeOK, NEW i \in Waiting, NEW state \in {"answered", "failed"}, Close(i, state),
         NEW w
  PROVE  /\ Cardinality(Pending(w)') \in Nat
         /\ Cardinality(Pending(w)) =
              Cardinality(Pending(w)') + (IF queries[i].question.name = w THEN 1 ELSE 0)
<1> DEFINE S == Pending(w)
           T == Pending(w)'
           old == queries[i].question.name = w
<1>1. Len(queries) \in Nat /\ Waiting \subseteq 1..Len(queries)
  BY QueryTypes
<1>2. /\ Waiting' = Waiting \ {i} /\ i \in Waiting
      /\ \A j \in Waiting : queries'[j].question = queries[j].question
  BY Closed, QueryTypes
<1>3. IsFiniteSet(T) /\ i \notin T
  BY <1>1, <1>2, Finite DEF Pending
<1>4. S = IF old THEN T \cup {i} ELSE T
  BY <1>2 DEF Pending
<1>5. old \in BOOLEAN
  OBVIOUS
<1> HIDE DEF S, T, old
<1>6. /\ Cardinality(T) \in Nat
      /\ Cardinality(S) = Cardinality(T) + (IF old THEN 1 ELSE 0)
  BY <1>3, <1>4, <1>5, OneMore
<1>7. QED
  BY <1>6 DEF S, T, old

(* What is counted is a number.                                            *)
LEMMA Counts ==
  ASSUME TypeOK, NEW w
  PROVE  /\ Cardinality(Entries(w)) \in Nat /\ Cardinality(Pending(w)) \in Nat
         /\ \A n \in Nat : Cardinality(Taken(w, n)) \in Nat
<1>1. Len(queries) \in Nat /\ Waiting \subseteq 1..Len(queries)
  BY QueryTypes
<1>2. Len(subdomains) \in Nat /\ DOMAIN subdomains = 1..Len(subdomains)
  BY DEF TypeOK
<1>3. Cardinality(Entries(w)) \in Nat
  BY <1>2, Finite DEF Entries
<1>4. Cardinality(Pending(w)) \in Nat
  BY <1>1, Finite DEF Pending
<1>5. \A n \in Nat : Cardinality(Taken(w, n)) \in Nat
  BY Finite DEF Taken
<1>6. QED
  BY <1>3, <1>4, <1>5

(* brute has one more entry, with the word of the query.                   *)
LEMMA SettledEntry ==
  ASSUME NEW question, question.name \in Elements(Words), NEW answered \in BOOLEAN,
         NEW records, NEW by \in Nat, stage # "dns",
         Settle(question, answered, records, by)
  PROVE  \E e \in Entry : /\ subdomains' = Append(subdomains, e)
                         /\ e.subdomain = question.name
<1> DEFINE e == Subdomain(question, answered, records, by)
<1>1. e \in Entry /\ e.subdomain = question.name
  BY DEF Subdomain, Entry
<1>2. subdomains' = Append(subdomains, e)
  BY DEF Settle
<1> HIDE DEF e
<1>3. QED
  BY <1>1, <1>2

LEMMA StepWords ==
  TypeOK /\ WaitingInLoops /\ WordsTold /\ [Next]_vars => WordsTold'
<1> SUFFICES ASSUME TypeOK, WaitingInLoops, WordsTold, [Next]_vars PROVE WordsTold'
  OBVIOUS
<1>0. next \in Nat \ {0} /\ Len(Words) \in Nat /\ stage \in Stages
  BY ListFacts DEF TypeOK
<1>1. CASE Send
  <2>1. UNCHANGED <<stage, subdomains>> /\ next' = next + 1 /\ next \in DOMAIN Asked
    BY <1>1 DEF Send, CanBegin, report
  <2>2. stage \in {"dns", "subdomains"}
    BY <2>1, AskedNext
  <2>3. CASE stage = "dns"
    BY <2>1, <2>3 DEF WordsTold
  <2>4. CASE stage = "subdomains"
    <3>1. next \in 1..Len(Words) /\ Asked[next].name = Words[next]
      BY <2>1, <2>4, AskedNext DEF Question
    <3>2. ASSUME NEW w \in Elements(Words)
          PROVE  Cardinality(Entries(w)') + Cardinality(Pending(w)')
                   = Cardinality(Taken(w, next))
      <4>1. Entries(w)' = Entries(w)
        BY <2>1 DEF Entries
      <4>2. /\ Cardinality(Pending(w)) \in Nat /\ Cardinality(Entries(w)) \in Nat
            /\ Cardinality(Pending(w)') =
                 Cardinality(Pending(w)) + (IF Words[next] = w THEN 1 ELSE 0)
        BY <1>1, <3>1, Counts, PendingGrows
      <4>3. /\ Cardinality(Taken(w, next - 1)) \in Nat
            /\ Cardinality(Taken(w, next - 1 + 1)) =
                 Cardinality(Taken(w, next - 1)) + (IF Words[next - 1 + 1] = w THEN 1 ELSE 0)
        BY <1>0, TakenGrows
      <4>4. next - 1 + 1 = next
        BY <1>0
      <4>5. Cardinality(Entries(w)) + Cardinality(Pending(w))
              = Cardinality(Taken(w, next - 1))
        BY <2>4 DEF WordsTold
      <4>6. QED
        BY <4>1, <4>2, <4>3, <4>4, <4>5
    <3>3. next' - 1 = next
      BY <1>0, <2>1
    <3>4. \A w : Taken(w, next' - 1) = Taken(w, next)
      BY <3>3
    <3>5. ASSUME NEW w \in Elements(Words)
          PROVE  (Cardinality(Entries(w)) + Cardinality(Pending(w))
                    = Cardinality(Taken(w, next - 1)))'
      BY <3>2, <3>4
    <3>6. QED
      BY <1>0, <2>1, <2>4, <3>1, <3>5 DEF WordsTold
  <2>5. QED
    BY <2>2, <2>3, <2>4

<1>2. CASE SendFails
  <2>1. /\ UNCHANGED <<stage, queries>> /\ next' = next + 1 /\ next \in DOMAIN Asked
        /\ Settle(Asked[next], FALSE, {}, 0)
    BY <1>2 DEF SendFails, CanBegin
  <2>2. stage \in {"dns", "subdomains"}
    BY <2>1, AskedNext
  <2>3. CASE stage = "dns"
    BY <2>1, <2>3 DEF WordsTold, Settle
  <2>4. CASE stage = "subdomains"
    <3>1. /\ next \in 1..Len(Words) /\ Asked[next].name = Words[next]
          /\ Words[next] \in Elements(Words)
      BY <2>1, <2>4, AskedNext DEF Question
    <3>2. PICK e \in Entry : subdomains' = Append(subdomains, e) /\ e.subdomain = Words[next]
      BY <2>1, <2>4, <3>1, SettledEntry
    <3>3. ASSUME NEW w \in Elements(Words)
          PROVE  Cardinality(Entries(w)') + Cardinality(Pending(w)')
                   = Cardinality(Taken(w, next))
      <4>1. Pending(w)' = Pending(w)
        BY <2>1 DEF Pending, Waiting
      <4>2. /\ Cardinality(Pending(w)) \in Nat /\ Cardinality(Entries(w)) \in Nat
            /\ Cardinality(Entries(w)') =
                 Cardinality(Entries(w)) + (IF Words[next] = w THEN 1 ELSE 0)
        BY <3>2, Counts, EntriesGrow
      <4>3. /\ Cardinality(Taken(w, next - 1)) \in Nat
            /\ Cardinality(Taken(w, next - 1 + 1)) =
                 Cardinality(Taken(w, next - 1)) + (IF Words[next - 1 + 1] = w THEN 1 ELSE 0)
        BY <1>0, TakenGrows
      <4>4. next - 1 + 1 = next
        BY <1>0
      <4>5. Cardinality(Entries(w)) + Cardinality(Pending(w))
              = Cardinality(Taken(w, next - 1))
        BY <2>4 DEF WordsTold
      <4>6. QED
        BY <4>1, <4>2, <4>3, <4>4, <4>5
    <3>4. \A w : Taken(w, next' - 1) = Taken(w, next)
      BY <1>0, <2>1
    <3>5. ASSUME NEW w \in Elements(Words)
          PROVE  (Cardinality(Entries(w)) + Cardinality(Pending(w))
                    = Cardinality(Taken(w, next - 1)))'
      BY <3>3, <3>4
    <3>6. QED
      BY <1>0, <2>1, <2>4, <3>1, <3>5 DEF WordsTold
  <2>5. QED
    BY <2>2, <2>3, <2>4
<1>3. ASSUME NEW i \in Waiting, QueryFails(i) \/ \E j \in DOMAIN queries : Receive(i, j)
      PROVE  WordsTold'
  <2>1. UNCHANGED <<stage, next>>
    BY <1>3 DEF QueryFails, Receive
  <2>2. PICK state \in {"answered", "failed"} : Close(i, state)
    BY <1>3 DEF QueryFails, Receive
  <2>a. \A j \in DOMAIN queries : Zone[queries[j].question] \in SUBSET Types
    BY QueryTypes, QuestionTypes
  <2>3. PICK answered \in BOOLEAN, records \in SUBSET Types :
           Settle(queries[i].question, answered, records, i)
    BY <1>3, <2>a DEF QueryFails, Receive
  <2>4. CASE stage = "dns"
    BY <2>1, <2>3, <2>4 DEF WordsTold, Settle
  <2>5. CASE stage = "subdomains"
    <3>1. queries[i].question.name \in Elements(Words) /\ i \in Nat
      BY <2>5, WordWaited, QueryTypes
    <3>2. PICK e \in Entry : /\ subdomains' = Append(subdomains, e)
                             /\ e.subdomain = queries[i].question.name
      BY <2>3, <2>5, <3>1, SettledEntry
    <3>3. ASSUME NEW w \in Elements(Words)
          PROVE  Cardinality(Entries(w)') + Cardinality(Pending(w)')
                   = Cardinality(Taken(w, next - 1))
      <4>1. /\ Cardinality(Entries(w)) \in Nat
            /\ Cardinality(Entries(w)') =
                 Cardinality(Entries(w)) + (IF queries[i].question.name = w THEN 1 ELSE 0)
        BY <3>2, EntriesGrow
      <4>2. /\ Cardinality(Pending(w)') \in Nat
            /\ Cardinality(Pending(w)) =
                 Cardinality(Pending(w)') + (IF queries[i].question.name = w THEN 1 ELSE 0)
        BY <2>2, PendingShrinks
      <4>3. Cardinality(Entries(w)) + Cardinality(Pending(w))
              = Cardinality(Taken(w, next - 1))
        BY <2>5 DEF WordsTold
      <4>4. QED
        BY <4>1, <4>2, <4>3
    <3>4. \A w : Taken(w, next' - 1) = Taken(w, next - 1)
      BY <2>1
    <3>5. ASSUME NEW w \in Elements(Words)
          PROVE  (Cardinality(Entries(w)) + Cardinality(Pending(w))
                    = Cardinality(Taken(w, next - 1)))'
      BY <3>3, <3>4
    <3>6. QED
      BY <2>1, <2>5, <3>5 DEF WordsTold
  <2>6. QED
    BY <2>4, <2>5, WordWaited
<1>4. CASE SubdomainsBegin
  <2>1. /\ stage = "dns" /\ stage' = "subdomains" /\ next' = 1 /\ Waiting' = {}
        /\ subdomains' = <<>>
    BY <1>4, Quiet DEF SubdomainsBegin, ListEnds, Turns, report, WordsTold
  <2>2. ASSUME NEW w \in Elements(Words)
        PROVE  (Cardinality(Entries(w)) + Cardinality(Pending(w))
                  = Cardinality(Taken(w, next - 1)))'
    <3>1. Entries(w)' = {} /\ Pending(w)' = {} /\ Taken(w, next' - 1) = {}
      BY <2>1 DEF Entries, Pending, Taken
    <3>2. QED
      BY <3>1, FS_EmptySet
  <2>3. QED
    BY <1>0, <2>1, <2>2 DEF WordsTold
<1>5. CASE HostBegins \/ ReportMade
  <2>1. /\ stage' \in {"directories", "done"} /\ UNCHANGED subdomains
        /\ stage \in {"subdomains", "directories"} /\ (stage = "subdomains" => ListEnds)
    BY <1>5 DEF HostBegins, ReportMade, report
  <2>2. ASSUME NEW w \in Elements(Words)
        PROVE  Cardinality(Entries(w)) = Cardinality(Taken(w, Len(Words)))
    <3>1. CASE stage = "subdomains"
      <4>1. DOMAIN Asked = DOMAIN Words
        BY <3>1 DEF Asked
      <4>2. next \notin 1..Len(Words) /\ next <= Len(Words) + 1 /\ Waiting = {}
        BY <2>1, <3>1, <4>1, ListFacts DEF ListEnds, WordsTold
      <4>3. next - 1 = Len(Words) /\ Pending(w) = {}
        BY <1>0, <4>2 DEF Pending
      <4>4. Cardinality(Entries(w)) + Cardinality(Pending(w))
              = Cardinality(Taken(w, next - 1))
        BY <3>1 DEF WordsTold
      <4>5. Cardinality(Pending(w)) = 0 /\ Cardinality(Entries(w)) \in Nat
        BY <4>3, FS_EmptySet, Counts
      <4>6. QED
        BY <4>3, <4>4, <4>5
    <3>2. CASE stage = "directories"
      BY <3>2 DEF WordsTold
    <3>3. QED
      BY <2>1, <3>1, <3>2
  <2>3. \A w : Entries(w)' = Entries(w)
    BY <2>1 DEF Entries
  <2>4. ASSUME NEW w \in Elements(Words)
        PROVE  (Cardinality(Entries(w)) = Cardinality(Taken(w, Len(Words))))'
    BY <2>2, <2>3
  <2>5. QED
    BY <2>1, <2>4 DEF WordsTold
<1>6. CASE Gets \/ UNCHANGED vars
  <2>1. UNCHANGED <<stage, subdomains, queries>> /\ (next' = next \/ stage = "directories")
    BY <1>6 DEF Gets, Get, Got, report, vars
  <2>2. \A w : Entries(w)' = Entries(w) /\ Pending(w)' = Pending(w)
    BY <2>1 DEF Entries, Pending, Waiting
  <2>3. CASE stage = "directories"
    <3>1. ASSUME NEW w \in Elements(Words)
          PROVE  (Cardinality(Entries(w)) = Cardinality(Taken(w, Len(Words))))'
      BY <2>2, <2>3 DEF WordsTold
    <3>2. QED
      BY <2>1, <2>3, <3>1 DEF WordsTold
  <2>4. CASE next' = next
    <3>1. \A w, n : Taken(w, n)' = Taken(w, n)
      BY DEF Taken
    <3>2. QED
      BY <2>1, <2>2, <2>4 DEF WordsTold
  <2>5. QED
    BY <2>1, <2>3, <2>4
<1>7. QED
  BY <1>1, <1>2, <1>3, <1>4, <1>5, <1>6, Steps DEF Turns

-----------------------------------------------------------------------------
(* Paths and their entries.                                                *)

LEMMA Quotient ==
  ASSUME NEW h \in Nat, NEW size \in Nat, NEW m \in Nat, m < size
  PROVE  (h * size + m) \div size = h
  BY Z3

(* The next path gets its entry.                                           *)
LEMMA StepGot ==
  ASSUME TypeOK, Stretches, PathsTried, NEW g \in getting,
         NEW status \in {0} \cup StatusCodes, Got(g, status)
  PROVE  Stretches' /\ PathsTried'
<1> DEFINE d == [host |-> g.host, path |-> g.path, status_code |-> status]
           n == Len(directories)
<1>1. /\ stage = "directories" /\ g.host = host /\ g.path < next
      /\ g = [host |-> g.host, path |-> g.path]
      /\ host \in Nat /\ host >= 1 /\ next \in Nat /\ next >= 1 /\ next <= Len(Paths) + 1
  BY DEF PathsTried, TypeOK
<1>2. Len(Paths) \in Nat
  BY EnumerationAssumption
<1>3. /\ Cardinality(getting) \in Nat /\ Cardinality(getting') = Cardinality(getting) - 1
      /\ Cardinality(getting) >= 1
  <2>1. IsFiniteSet(getting) /\ getting' = getting \ {g}
    BY DEF TypeOK, Got
  <2>2. Cardinality(getting \ {g}) = Cardinality(getting) - 1
    BY <2>1, FS_RemoveElement
  <2>3. Cardinality(getting) \in Nat /\ Cardinality(getting \ {g}) \in Nat
    BY <2>1, FS_CardinalityType, FS_RemoveElement
  <2>4. QED
    BY <2>1, <2>2, <2>3
<1>4. d.host = host /\ d.path = g.path /\ directories' = Append(directories, d)
  BY <1>1 DEF Got
<1> HIDE DEF d
<1>5. /\ n \in Nat /\ DOMAIN directories = 1..n /\ DOMAIN directories' = 1..(n + 1)
      /\ Len(directories') = n + 1
      /\ \A i \in 1..n : directories'[i] = directories[i]
      /\ directories'[n + 1] = d
  BY <1>4, AppendFacts DEF TypeOK
<1>6. UNCHANGED <<stage, next, host, subdomains>> /\ getting' = getting \ {g}
  BY DEF Got
<1> DEFINE m == next - 1 - Cardinality(getting)
<1>7. m \in Nat /\ m < Len(Paths) /\ n = (host - 1) * Len(Paths) + m
  BY <1>1, <1>2, <1>3 DEF PathsTried
<1>8. n \div Len(Paths) = host - 1
  <2> HIDE DEF m, n
  <2>1. host - 1 \in Nat
    BY <1>1
  <2>2. QED
    BY <1>2, <1>7, <2>1, Quotient
<1> HIDE DEF n
<1>9. \A i \in 1..n :
         /\ directories[i].host <= host
         /\ directories[i].host = host => directories[i].path < next
         /\ [host |-> directories[i].host, path |-> directories[i].path] \notin getting
  BY <1>1, <1>5 DEF PathsTried
<1>10. \A i \in 1..n : directories[i].host # host \/ directories[i].path # g.path
  BY <1>1, <1>9
<1>11. Stretches'
  <2>1. \A i \in 1..(n + 1) : directories'[i].host = 1 + (i - 1) \div Len(Paths)
    <3>1. directories'[n + 1].host = 1 + n \div Len(Paths) /\ n + 1 - 1 = n
      BY <1>1, <1>4, <1>5, <1>8
    <3>2. \A i \in 1..n : directories'[i].host = 1 + (i - 1) \div Len(Paths)
      BY <1>5 DEF Stretches
    <3>3. SUFFICES ASSUME NEW i \in 1..(n + 1)
                   PROVE  directories'[i].host = 1 + (i - 1) \div Len(Paths)
      OBVIOUS
    <3>4. CASE i = n + 1
      <4>1. i - 1 = n
        BY <1>5, <3>4
      <4>2. QED
        BY <3>1, <3>4, <4>1
    <3>5. i # n + 1 => i \in 1..n
      BY <1>5, <3>3
    <3>6. QED
      BY <3>2, <3>4, <3>5
  <2>2. \A i, j \in 1..n :
           i # j => \/ directories'[i].host # directories'[j].host
                    \/ directories'[i].path # directories'[j].path
    BY <1>5 DEF Stretches
  <2>3. \A i \in 1..n : \/ directories'[i].host # directories'[n + 1].host
                        \/ directories'[i].path # directories'[n + 1].path
    BY <1>4, <1>5, <1>10
  <2>4. ASSUME NEW i \in 1..(n + 1), NEW j \in 1..(n + 1), i # j
        PROVE  \/ directories'[i].host # directories'[j].host
               \/ directories'[i].path # directories'[j].path
    <3>1. /\ i = n + 1 \/ i \in 1..n
          /\ j = n + 1 \/ j \in 1..n
      BY <1>5
    <3>2. QED
      BY <2>2, <2>3, <2>4, <3>1
  <2>5. QED
    BY <1>5, <2>1, <2>4 DEF Stretches
<1>12. PathsTried'
  <2>1. Len(directories') = (host - 1) * Len(Paths) + (next - 1 - Cardinality(getting'))
    <3> DEFINE before == (host - 1) * Len(Paths)
    <3>1. before \in Int /\ n = before + m
      BY <1>1, <1>2, <1>7
    <3> HIDE DEF before
    <3>2. n + 1 = before + (next - 1 - (Cardinality(getting) - 1))
      BY <1>1, <1>3, <3>1
    <3>3. QED
      BY <1>3, <1>5, <3>2 DEF before
  <2>2. /\ Cardinality(getting') <= next - 1
        /\ \A x \in getting' : x.host = host /\ x.path < next
    BY <1>1, <1>3, <1>6 DEF PathsTried
  <2>3. \A i \in 1..(n + 1) :
          /\ directories'[i].host <= host
          /\ directories'[i].host = host => directories'[i].path < next
          /\ [host |-> directories'[i].host, path |-> directories'[i].path] \notin getting'
    <3>1. [host |-> d.host, path |-> d.path] \notin getting'
      BY <1>1, <1>4, <1>6
    <3>2. QED
      BY <1>1, <1>4, <1>5, <1>6, <1>9, <3>1
  <2>4. QED
    BY <1>1, <1>5, <1>6, <2>1, <2>2, <2>3 DEF PathsTried
<1>13. QED
  BY <1>11, <1>12

LEMMA DirectoryTypes ==
  ASSUME TypeOK, NEW i \in DOMAIN directories
  PROVE  directories[i].host \in Nat /\ directories[i].path \in Nat
<1>1. directories \in Seq(Directory)
  BY DEF TypeOK
<1>2. directories[i] \in Directory
  BY <1>1
<1>3. QED
  BY <1>2 DEF Directory

LEMMA Product ==
  ASSUME NEW h \in Nat, NEW size \in Nat
  PROVE  /\ h * size \in Nat /\ (h + 1 - 1) * size = h * size
         /\ (h - 1) * size + size = h * size
  OBVIOUS

(* A host's turn ends when all its paths have an entry.                    *)
LEMMA HostDone ==
  ASSUME TypeOK, PathsTried,
         (stage = "subdomains" /\ ListEnds) \/ (stage = "directories" /\ ScanEnds)
  PROVE  /\ getting = {} /\ Len(directories) = host * Len(Paths)
         /\ \A i \in DOMAIN directories : directories[i].host <= host
<1>1. Len(Paths) \in Nat /\ host \in Nat /\ next \in Nat
  BY EnumerationAssumption DEF TypeOK
<1>2. CASE stage = "subdomains"
  <2>1. getting = {} /\ host = 0 /\ directories = <<>>
    BY <1>2 DEF PathsTried
  <2>2. QED
    BY <1>1, <2>1
<1>3. CASE stage = "directories" /\ ScanEnds
  <2>1. /\ getting = {} /\ next = Len(Paths) + 1 /\ host >= 1
        /\ Len(directories) = (host - 1) * Len(Paths) + (next - 1 - Cardinality(getting))
        /\ \A i \in DOMAIN directories : directories[i].host <= host
    BY <1>1, <1>3 DEF PathsTried, ScanEnds
  <2>2. Cardinality(getting) = 0
    BY <2>1, FS_EmptySet
  <2>3. next - 1 - Cardinality(getting) = Len(Paths)
    BY <1>1, <2>1, <2>2
  <2>4. (host - 1) * Len(Paths) + Len(Paths) = host * Len(Paths)
    BY <1>1, Product
  <2>5. QED
    BY <2>1, <2>3, <2>4
<1>4. QED
  BY <1>2, <1>3

LEMMA StepPaths ==
  TypeOK /\ WaitingInLoops /\ Stretches /\ PathsTried /\ [Next]_vars => Stretches' /\ PathsTried'
<1> SUFFICES ASSUME TypeOK, WaitingInLoops, Stretches, PathsTried, [Next]_vars
             PROVE  Stretches' /\ PathsTried'
  OBVIOUS
<1>0. /\ Len(Paths) \in Nat /\ host \in Nat /\ next \in Nat \ {0}
      /\ IsFiniteSet(getting) /\ Cardinality(getting) \in Nat
  BY EnumerationAssumption, FS_CardinalityType DEF TypeOK
<1>1. CASE Send \/ SendFails
          \/ \E i \in Waiting : QueryFails(i) \/ \E j \in DOMAIN queries : Receive(i, j)
  <2>1. /\ stage \in {"dns", "subdomains"}
        /\ UNCHANGED <<stage, host, getting, directories>>
    BY <1>1, AskedNext DEF Send, SendFails, CanBegin, QueryFails, Receive, Settle, report,
       WaitingInLoops
  <2>2. QED
    BY <2>1 DEF Stretches, PathsTried
<1>2. CASE SubdomainsBegin
  BY <1>2 DEF SubdomainsBegin, report, Stretches, PathsTried
<1>3. CASE HostBegins
  <2>1. /\ getting = {} /\ Len(directories) = host * Len(Paths)
        /\ \A i \in DOMAIN directories : directories[i].host <= host
    BY <1>3, HostDone DEF HostBegins
  <2>2. /\ stage' = "directories" /\ host' = host + 1 /\ next' = 1
        /\ UNCHANGED <<getting, directories>>
    BY <1>3 DEF HostBegins, report
  <2>3. Cardinality(getting) = 0
    BY <2>1, FS_EmptySet
  <2>4. Len(directories) = (host + 1 - 1) * Len(Paths) + (1 - 1 - Cardinality(getting))
    <3> DEFINE tried == host * Len(Paths)
    <3>1. tried \in Nat /\ (host + 1 - 1) * Len(Paths) = tried
      BY <1>0, Product
    <3> HIDE DEF tried
    <3>2. Len(directories) = tried
      BY <2>1 DEF tried
    <3>3. QED
      BY <2>3, <3>1, <3>2
  <2>5. \A i \in DOMAIN directories :
          /\ directories[i].host <= host + 1
          /\ directories[i].host # host + 1
    <3>1. \A i \in DOMAIN directories : directories[i].host \in Nat
      BY DirectoryTypes
    <3>2. QED
      BY <1>0, <2>1, <3>1
  <2>6. PathsTried'
    BY <1>0, <2>1, <2>2, <2>3, <2>4, <2>5 DEF PathsTried
  <2>7. QED
    BY <2>2, <2>6 DEF Stretches
<1>4. CASE ReportMade
  <2>1. getting = {} /\ Len(directories) = host * Len(Paths)
    BY <1>4, HostDone DEF ReportMade
  <2>2. /\ stage' = "done" /\ host = Len(found_subs)
        /\ UNCHANGED <<host, getting, directories, subdomains>>
    BY <1>4 DEF ReportMade, report
  <2>3. found_subs' = found_subs
    BY <2>2 DEF found_subs
  <2>4. QED
    BY <2>1, <2>2, <2>3 DEF Stretches, PathsTried
<1>5. CASE Get
  <2> DEFINE g == [host |-> host, path |-> next]
  <2>1. /\ stage = "directories" /\ next <= Len(Paths) /\ getting' = getting \cup {g}
        /\ next' = next + 1 /\ UNCHANGED <<stage, host, directories>>
    BY <1>5 DEF Get, report
  <2>2. g.host = host /\ g.path = next
    OBVIOUS
  <2>3. g \notin getting
    BY <1>0, <2>1, <2>2 DEF PathsTried
  <2>4. \A i \in DOMAIN directories :
           directories[i].host = host => directories[i].path < next + 1
    <3>1. \A i \in DOMAIN directories : directories[i].path \in Nat
      BY DirectoryTypes
    <3>2. \A i \in DOMAIN directories :
             directories[i].host = host => directories[i].path < next
      BY <2>1 DEF PathsTried
    <3>3. QED
      BY <1>0, <3>1, <3>2
  <2>5. \A i \in DOMAIN directories :
           [host |-> directories[i].host, path |-> directories[i].path] \notin getting'
    <3>1. ASSUME NEW i \in DOMAIN directories,
                 [host |-> directories[i].host, path |-> directories[i].path] = g
          PROVE  FALSE
      <4>1. directories[i].host = host /\ directories[i].path = next
        BY <2>2, <3>1
      <4>2. next < next
        BY <2>1, <4>1 DEF PathsTried
      <4>3. QED
        BY <1>0, <4>2
    <3>2. \A i \in DOMAIN directories :
            [host |-> directories[i].host, path |-> directories[i].path] \notin getting
      BY <2>1 DEF PathsTried
    <3>3. QED
      BY <2>1, <3>1, <3>2
  <2> HIDE DEF g
  <2>6. Cardinality(getting') = Cardinality(getting) + 1
    BY <1>0, <2>1, <2>3, FS_AddElement
  <2>7. Len(directories) = (host - 1) * Len(Paths) + ((next + 1) - 1 - Cardinality(getting'))
    <3> DEFINE before == (host - 1) * Len(Paths)
    <3>1. Len(directories) = before + (next - 1 - Cardinality(getting))
      BY <2>1 DEF PathsTried
    <3> HIDE DEF before
    <3>2. (next + 1) - 1 - Cardinality(getting') = next - 1 - Cardinality(getting)
      BY <1>0, <2>6
    <3>3. QED
      BY <3>1, <3>2 DEF before
  <2>8. \A x \in getting' : x.host = host /\ x.path < next + 1
    <3>1. \A x \in getting : x.path \in Nat /\ x.host = host /\ x.path < next
      BY <2>1 DEF PathsTried, TypeOK
    <3>2. QED
      BY <1>0, <2>1, <2>2, <3>1
  <2>9. PathsTried'
    <3>1. \A i \in DOMAIN directories : directories[i].host <= host
      BY <2>1 DEF PathsTried
    <3>2. next' <= Len(Paths) + 1 /\ Cardinality(getting') <= next' - 1 /\ host >= 1
      <4>1. Cardinality(getting) <= next - 1 /\ host >= 1
        BY <2>1 DEF PathsTried
      <4>2. QED
        BY <1>0, <2>1, <2>6, <4>1
    <3>3. Len(directories') = (host' - 1) * Len(Paths) + (next' - 1 - Cardinality(getting'))
      <4>1. next' = next + 1 /\ host' = host /\ directories' = directories
        BY <2>1
      <4>2. QED
        BY <2>7, <4>1, Zenon
    <3>4. /\ stage' = "directories" /\ host' >= 1
          /\ \A x \in getting' : x.host = host' /\ x.path < next'
      BY <2>1, <2>8, <3>2
    <3>5. \A i \in DOMAIN directories' :
            /\ directories'[i].host <= host'
            /\ directories'[i].host = host' => directories'[i].path < next'
            /\ [host |-> directories'[i].host, path |-> directories'[i].path] \notin getting'
      BY <2>1, <2>4, <2>5, <3>1
    <3>6. QED
      BY <3>2, <3>3, <3>4, <3>5 DEF PathsTried
  <2>10. QED
    BY <2>1, <2>9 DEF Stretches
<1>6. ASSUME NEW g \in getting, NEW status \in {0} \cup StatusCodes, Got(g, status)
      PROVE  Stretches' /\ PathsTried'
  BY <1>6, StepGot
<1>7. CASE UNCHANGED vars
  <2>1. UNCHANGED <<stage, next, host, getting, directories, subdomains>>
    BY <1>7 DEF vars
  <2>2. found_subs' = found_subs
    BY <2>1 DEF found_subs
  <2>3. QED
    BY <2>1, <2>2 DEF Stretches, PathsTried
<1>8. QED
  BY <1>1, <1>2, <1>3, <1>4, <1>5, <1>6, <1>7, Steps DEF Turns, Gets

-----------------------------------------------------------------------------
LEMMA InitInv == Init => Inv
<1> SUFFICES ASSUME Init PROVE Inv
  OBVIOUS
<1>1. TypeOK
  BY FS_EmptySet DEF Init, TypeOK, Stages
<1>2. Waiting = {}
  BY DEF Init, Waiting
<1>3. PortsApart /\ WaitingInLoops
  BY <1>2 DEF PortsApart, WaitingInLoops
<1>4. Told /\ WordsTold /\ Stretches /\ PathsTried
  BY DEF Init, Told, WordsTold, Stretches, PathsTried
<1>5. QED
  BY <1>1, <1>3, <1>4 DEF Inv

LEMMA StepInv == Inv /\ [Next]_vars => Inv'
  BY StepTypes, StepPorts, StepWaiting, StepTold, StepWords, StepPaths DEF Inv

LEMMA Invariant == Spec => []Inv
  BY InitInv, StepInv, PTL DEF Spec

-----------------------------------------------------------------------------
(* Theorems.                                                               *)

(* The report and what full_enumeration keeps of the queries and requests  *)
(* under way have their types, for any lists, pools and ports              *)
(* (enumeration.rs:731-800).                                               *)
THEOREM TypeCorrect == Spec => []TypeOK
  BY Invariant, PTL DEF Inv

(* Whatever is lost, delayed or doubled, an entry that is not what the     *)
(* resolver says of its name comes from a query without an answer, or from *)
(* a port that an earlier query had (enumeration.rs:309-338).              *)
THEOREM ReportsTellZone == Spec => []ReportTellsZone
<1>1. ASSUME Inv PROVE ReportTellsZone
  <2>1. TypeOK /\ Told
    BY <1>1 DEF Inv
  <2>2. ASSUME NEW r \in dns_records
        PROVE  r.record_type \in Zone[queries[r.by].question] \/ Reused(r.by)
    BY <2>1 DEF Told, RecordTold
  <2>3. ASSUME NEW k \in DOMAIN subdomains, NEW s, s = subdomains[k]
        PROVE  \/ s.found <=> Zone[Question(s.subdomain, "A")] # {}
               \/ ~s.found /\ (s.by = 0 \/ queries[s.by].state = "failed")
               \/ s.by # 0 /\ queries[s.by].state = "answered" /\ Reused(s.by)
    <3>1. EntryTold(s)
      BY <2>1, <2>3 DEF Told
    <3>2. 0 \notin DOMAIN queries
      BY <2>1, QueryTypes
    <3>3. QED
      BY <3>1, <3>2 DEF EntryTold
  <2>4. QED
    BY <2>2, <2>3 DEF ReportTellsZone
<1>2. QED
  BY <1>1, Invariant, PTL

(* For any number of words, hosts and paths and pools of any width, a      *)
(* finished report has an entry for each time a word is listed and a       *)
(* stretch of entries, each path once, for each host found                 *)
(* (enumeration.rs:381-412, 770-787).                                      *)
THEOREM ReportsComplete == Spec => []ReportComplete
<1>1. ASSUME Inv PROVE ReportComplete
  <2>1. stage = "done" => Len(directories) = Len(found_subs) * Len(Paths)
    BY <1>1 DEF Inv, PathsTried
  <2>2. ASSUME NEW w \in Elements(Words), stage = "done"
        PROVE  Count(subdomains, LAMBDA s : s.subdomain = w) = Count(Words, LAMBDA v : v = w)
    <3>1. Cardinality(Entries(w)) = Cardinality(Taken(w, Len(Words)))
      BY <1>1, <2>2 DEF Inv, WordsTold
    <3>2. Count(subdomains, LAMBDA s : s.subdomain = w) = Cardinality(Entries(w))
      BY DEF Count, Entries
    <3>3. DOMAIN Words = 1..Len(Words)
      BY ListFacts
    <3>4. Count(Words, LAMBDA v : v = w) = Cardinality(Taken(w, Len(Words)))
      BY <3>3 DEF Count, Taken
    <3>5. QED
      BY <3>1, <3>2, <3>4
  <2>3. QED
    BY <1>1, <2>1, <2>2 DEF ReportComplete, Inv, Stretches
<1>2. QED
  BY <1>1, Invariant, PTL

-----------------------------------------------------------------------------
(* The work runs out.                                                      *)

(* No list and no set of hosts is gone through past its end.               *)
WithinLists ==
  /\ stage = "dns" => next <= Len(RecordTypes) + 1
  /\ stage = "directories" => host <= Len(found_subs)

LEMMA Lengths ==
  /\ Len(RecordTypes) \in Nat /\ DOMAIN RecordTypes = 1..Len(RecordTypes)
  /\ Len(Words) \in Nat /\ DOMAIN Words = 1..Len(Words)
  /\ Len(Paths) \in Nat
<1>1. RecordTypes \in Seq(Elements(RecordTypes)) /\ Len(Paths) \in Nat
  BY EnumerationAssumption
<1> QED
  BY <1>1, ListFacts

LEMMA FoundLength == ASSUME TypeOK PROVE Len(found_subs) \in Nat
<1>1. subdomains \in Seq(Entry)
  BY DEF TypeOK
<1> QED
  BY <1>1 DEF found_subs

(* An item is taken only while there is one.                               *)
LEMMA TakesItem ==
  ASSUME TypeOK, CanBegin
  PROVE  /\ stage \in {"dns", "subdomains"}
         /\ stage = "dns" => next <= Len(RecordTypes)
         /\ stage = "subdomains" => next <= Len(Words)
<1>1. next \in DOMAIN Asked
  BY DEF CanBegin
<1>2. stage \in {"dns", "subdomains"} /\ (stage = "subdomains" => next \in 1..Len(Words))
  BY <1>1, AskedNext
<1>3. ASSUME stage = "dns" PROVE next \in 1..Len(RecordTypes)
  <2>1. Asked = [i \in DOMAIN RecordTypes |-> Question(Domain, RecordTypes[i])]
    BY <1>3 DEF Asked
  <2> QED
    BY <1>1, <2>1, Lengths
<1> QED
  BY <1>2, <1>3, Lengths

LEMMA StepWithin == Inv /\ WithinLists /\ [Next]_vars => WithinLists'
<1> SUFFICES ASSUME Inv, WithinLists, [Next]_vars PROVE WithinLists'
  OBVIOUS
<1>0. TypeOK /\ WaitingInLoops /\ next \in Nat /\ host \in Nat
  BY DEF Inv, TypeOK
<1>1. CASE Send \/ SendFails
  <2>1. stage' = stage /\ next' = next + 1 /\ CanBegin
    BY <1>1 DEF Send, SendFails
  <2>2. stage \in {"dns", "subdomains"} /\ (stage = "dns" => next <= Len(RecordTypes))
    BY <1>0, <2>1, TakesItem
  <2> QED
    BY <1>0, <2>1, <2>2, Lengths DEF WithinLists
<1>2. ASSUME NEW i \in Waiting, QueryFails(i) \/ \E j \in DOMAIN queries : Receive(i, j)
      PROVE  WithinLists'
  <2>1. UNCHANGED <<stage, next>>
    BY <1>2 DEF QueryFails, Receive
  <2>2. stage # "directories"
    BY <1>0 DEF WaitingInLoops
  <2> QED
    BY <2>1, <2>2 DEF WithinLists
<1>3. CASE SubdomainsBegin \/ ReportMade
  <2>1. stage' \in {"subdomains", "done"}
    BY <1>3 DEF SubdomainsBegin, ReportMade
  <2> QED
    BY <2>1 DEF WithinLists
<1>4. CASE HostBegins
  <2>1. /\ stage' = "directories" /\ host' = host + 1 /\ host < Len(found_subs)
        /\ subdomains' = subdomains
    BY <1>4 DEF HostBegins, report
  <2>2. found_subs' = found_subs
    BY <2>1 DEF found_subs
  <2>3. Len(found_subs) \in Nat
    BY <1>0, FoundLength
  <2>4. host' <= Len(found_subs)
    BY <1>0, <2>1, <2>3
  <2> QED
    BY <2>1, <2>2, <2>4 DEF WithinLists
<1>5. CASE Gets \/ UNCHANGED vars
  <2>1. /\ UNCHANGED <<stage, host, subdomains>>
        /\ UNCHANGED next \/ stage = "directories"
    BY <1>5 DEF Gets, Get, Got, report, vars
  <2>2. found_subs' = found_subs
    BY <2>1 DEF found_subs
  <2> QED
    BY <2>1, <2>2 DEF WithinLists
<1> QED
  BY <1>0, <1>1, <1>2, <1>3, <1>4, <1>5, Steps DEF Turns

LEMMA AlwaysWithin == Spec => []WithinLists
<1>1. Init => WithinLists
  BY Lengths DEF Init, WithinLists
<1> QED
  BY <1>1, StepWithin, Invariant, PTL DEF Spec

(* One of the four parts goes down, and those before it stay.              *)
UnderWay == Cardinality(Waiting) + Cardinality(getting)

Lower ==
  \/ ListsLeft' < ListsLeft
  \/ ListsLeft' = ListsLeft /\ HostsLeft' < HostsLeft
  \/ ListsLeft' = ListsLeft /\ HostsLeft' = HostsLeft /\ ItemsLeft' < ItemsLeft
  \/ /\ ListsLeft' = ListsLeft /\ HostsLeft' = HostsLeft /\ ItemsLeft' = ItemsLeft
     /\ UnderWay' < UnderWay

LEMMA LowerIsBefore == ASSUME Lower PROVE Before(WorkLeft', WorkLeft)
<1> DEFINE s == WorkLeft
           t == WorkLeft'
<1>1. /\ s[1] = ListsLeft /\ s[2] = HostsLeft /\ s[3] = ItemsLeft /\ s[4] = UnderWay
      /\ t[1] = ListsLeft' /\ t[2] = HostsLeft' /\ t[3] = ItemsLeft' /\ t[4] = UnderWay'
  BY DEF WorkLeft, UnderWay
<1> HIDE DEF s, t
<1>2. \/ t[1] < s[1]
      \/ t[1] = s[1] /\ t[2] < s[2]
      \/ t[1] = s[1] /\ t[2] = s[2] /\ t[3] < s[3]
      \/ t[1] = s[1] /\ t[2] = s[2] /\ t[3] = s[3] /\ t[4] < s[4]
  BY <1>1 DEF Lower
<1>3. \E i \in 1..4 : t[i] < s[i] /\ \A j \in 1..(i - 1) : t[j] = s[j]
  BY <1>2
<1> QED
  BY <1>3 DEF Before, s, t

LEMMA UnderWayTyped ==
  ASSUME TypeOK
  PROVE  /\ IsFiniteSet(Waiting) /\ Cardinality(Waiting) \in Nat
         /\ IsFiniteSet(getting) /\ Cardinality(getting) \in Nat
<1>1. Len(queries) \in Nat /\ Waiting \subseteq 1..Len(queries)
  BY QueryTypes
<1>2. IsFiniteSet(Waiting) /\ Cardinality(Waiting) \in Nat
  BY <1>1, Finite
<1>3. IsFiniteSet(getting)
  BY DEF TypeOK
<1> QED
  BY <1>2, <1>3, FS_CardinalityType

WorkNatural == \A i \in 1..4 : WorkLeft[i] \in Nat

LEMMA WorkTyped == Inv /\ WithinLists => WorkNatural
<1> SUFFICES ASSUME Inv, WithinLists PROVE WorkNatural
  OBVIOUS
<1>1. TypeOK /\ stage \in Stages /\ next \in Nat \ {0} /\ host \in Nat
  BY DEF Inv, TypeOK
<1>2. ListsLeft \in Nat
  BY <1>1 DEF ListsLeft, Stages
<1>3. HostsLeft \in Nat
  <2>1. Len(found_subs) \in Nat
    BY <1>1, FoundLength
  <2>2. CASE stage = "directories"
    <3>1. host <= Len(found_subs)
      BY <2>2 DEF WithinLists
    <3> QED
      BY <1>1, <2>1, <2>2, <3>1 DEF HostsLeft
  <2> QED
    BY <2>2 DEF HostsLeft
<1>4. ItemsLeft \in Nat
  <2>1. CASE stage = "dns"
    <3>1. next <= Len(RecordTypes) + 1
      BY <2>1 DEF WithinLists
    <3> QED
      BY <1>1, <2>1, <3>1, Lengths DEF ItemsLeft
  <2>2. CASE stage = "subdomains"
    <3>1. next <= Len(Words) + 1
      BY <2>2 DEF Inv, WordsTold
    <3> QED
      BY <1>1, <2>2, <3>1, Lengths DEF ItemsLeft
  <2>3. CASE stage = "directories"
    <3>1. next <= Len(Paths) + 1
      BY <2>3 DEF Inv, PathsTried
    <3> QED
      BY <1>1, <2>3, <3>1, Lengths DEF ItemsLeft
  <2>4. CASE stage = "done"
    BY <2>4 DEF ItemsLeft
  <2> QED
    BY <1>1, <2>1, <2>2, <2>3, <2>4 DEF Stages
<1>5. UnderWay \in Nat
  BY <1>1, UnderWayTyped DEF UnderWay
<1> QED
  BY <1>2, <1>3, <1>4, <1>5 DEF WorkNatural, WorkLeft, UnderWay

LEMMA Less == \A a, b, m \in Nat : a - (b + 1) < a - b /\ a + 1 - (b + 1) < a + 1 - b
                                   /\ (m > 0 => m - 1 < m)
  OBVIOUS

LEMMA StepLowers == Inv /\ Next => Lower \/ UNCHANGED vars
<1> SUFFICES ASSUME Inv, Next PROVE Lower \/ UNCHANGED vars
  OBVIOUS
<1>0. /\ TypeOK /\ WaitingInLoops /\ PathsTried
      /\ stage \in Stages /\ next \in Nat \ {0} /\ host \in Nat
  BY DEF Inv, TypeOK
<1>1. CASE Send \/ SendFails
  <2>1. stage' = stage /\ next' = next + 1 /\ stage \in {"dns", "subdomains"}
    BY <1>0, <1>1, TakesItem DEF Send, SendFails
  <2>2. ListsLeft' = ListsLeft /\ HostsLeft' = HostsLeft
    BY <2>1 DEF ListsLeft, HostsLeft
  <2>3. ItemsLeft' < ItemsLeft
    <3>1. CASE stage = "dns"
      <4>1. /\ ItemsLeft = Len(RecordTypes) + 1 - next
            /\ ItemsLeft' = Len(RecordTypes) + 1 - (next + 1)
        BY <2>1, <3>1 DEF ItemsLeft
      <4> QED
        BY <1>0, <4>1, Lengths, Less
    <3>2. CASE stage = "subdomains"
      <4>1. ItemsLeft = Len(Words) + 1 - next /\ ItemsLeft' = Len(Words) + 1 - (next + 1)
        BY <2>1, <3>2 DEF ItemsLeft
      <4> QED
        BY <1>0, <4>1, Lengths, Less
    <3> QED
      BY <2>1, <3>1, <3>2
  <2> QED
    BY <2>2, <2>3 DEF Lower
<1>2. ASSUME NEW i \in Waiting, QueryFails(i) \/ \E j \in DOMAIN queries : Receive(i, j)
      PROVE  Lower
  <2>1. UNCHANGED <<stage, next, host, getting>>
    BY <1>2 DEF QueryFails, Receive
  <2>2. stage # "directories"
    BY <1>0 DEF WaitingInLoops
  <2>3. ListsLeft' = ListsLeft /\ HostsLeft' = HostsLeft /\ ItemsLeft' = ItemsLeft
    BY <2>1, <2>2 DEF ListsLeft, HostsLeft, ItemsLeft
  <2>4. Waiting' = Waiting \ {i}
    BY <1>0, <1>2, Closed DEF QueryFails, Receive
  <2>5. UnderWay' < UnderWay
    <3>1. /\ IsFiniteSet(Waiting) /\ Cardinality(Waiting) \in Nat
          /\ Cardinality(getting) \in Nat
      BY <1>0, UnderWayTyped
    <3>2. Cardinality(Waiting \ {i}) = Cardinality(Waiting) - 1
      BY <3>1, FS_RemoveElement
    <3>3. UnderWay' = Cardinality(Waiting) - 1 + Cardinality(getting)
      BY <2>1, <2>4, <3>2 DEF UnderWay
    <3> QED
      BY <3>1, <3>3 DEF UnderWay
  <2> QED
    BY <2>3, <2>5 DEF Lower
<1>3. CASE SubdomainsBegin
  BY <1>3 DEF SubdomainsBegin, Lower, ListsLeft
<1>4. CASE ReportMade
  BY <1>4 DEF ReportMade, Lower, ListsLeft
<1>5. CASE HostBegins
  <2>1. /\ stage' = "directories" /\ host' = host + 1 /\ subdomains' = subdomains
        /\ stage \in {"subdomains", "directories"}
    BY <1>5 DEF HostBegins, report
  <2>2. CASE stage = "subdomains"
    BY <2>1, <2>2 DEF Lower, ListsLeft
  <2>3. CASE stage = "directories"
    <3>1. ListsLeft' = ListsLeft
      BY <2>1, <2>3 DEF ListsLeft
    <3>2. found_subs' = found_subs
      BY <2>1 DEF found_subs
    <3>3. HostsLeft = Len(found_subs) - host /\ HostsLeft' = Len(found_subs) - (host + 1)
      BY <2>1, <2>3, <3>2 DEF HostsLeft
    <3>4. HostsLeft' < HostsLeft
      BY <1>0, <3>3, FoundLength, Less
    <3> QED
      BY <3>1, <3>4 DEF Lower
  <2> QED
    BY <2>1, <2>2, <2>3
<1>6. CASE Get
  <2>1. /\ stage = "directories" /\ next' = next + 1
        /\ UNCHANGED <<stage, host, subdomains>>
    BY <1>6 DEF Get, report
  <2>2. found_subs' = found_subs
    BY <2>1 DEF found_subs
  <2>3. ListsLeft' = ListsLeft /\ HostsLeft' = HostsLeft
    BY <2>1, <2>2 DEF ListsLeft, HostsLeft
  <2>4. ItemsLeft = Len(Paths) + 1 - next /\ ItemsLeft' = Len(Paths) + 1 - (next + 1)
    BY <2>1 DEF ItemsLeft
  <2>5. ItemsLeft' < ItemsLeft
    BY <1>0, <2>4, Lengths, Less
  <2> QED
    BY <2>3, <2>5 DEF Lower
<1>7. ASSUME NEW g \in getting, NEW status \in {0} \cup StatusCodes, Got(g, status)
      PROVE  Lower
  <2>1. UNCHANGED <<stage, next, queries, host, subdomains>> /\ getting' = getting \ {g}
    BY <1>7 DEF Got
  <2>2. found_subs' = found_subs /\ Waiting' = Waiting
    BY <2>1 DEF found_subs, Waiting
  <2>3. ListsLeft' = ListsLeft /\ HostsLeft' = HostsLeft /\ ItemsLeft' = ItemsLeft
    BY <2>1, <2>2 DEF ListsLeft, HostsLeft, ItemsLeft
  <2>4. UnderWay' < UnderWay
    <3>1. /\ IsFiniteSet(getting) /\ Cardinality(getting) \in Nat
          /\ Cardinality(Waiting) \in Nat
      BY <1>0, UnderWayTyped
    <3>2. Cardinality(getting \ {g}) = Cardinality(getting) - 1
      BY <3>1, FS_RemoveElement
    <3>3. UnderWay' = Cardinality(Waiting) + (Cardinality(getting) - 1)
      BY <2>1, <2>2, <3>2 DEF UnderWay
    <3> QED
      BY <3>1, <3>3 DEF UnderWay
  <2> QED
    BY <2>3, <2>4 DEF Lower
<1> QED
  BY <1>0, <1>1, <1>2, <1>3, <1>4, <1>5, <1>6, <1>7, Steps DEF Turns, Gets

(* For any lists, hosts and widths of the pools, no answer, error or time  *)
(* limit gives the enumeration anything more to do than it had: each step  *)
(* goes down an order in which nothing descends for ever                   *)
(* (enumeration.rs:345-352, 381-412, 781-787).                             *)
THEOREM WorkAlwaysRunsOut == Spec => WorkRunsOut
<1>1. Inv /\ WorkNatural' /\ [Next]_vars
        => [Before(WorkLeft', WorkLeft) /\ \A i \in 1..4 : WorkLeft'[i] \in Nat]_vars
  <2> SUFFICES ASSUME Inv, WorkNatural', Next, ~UNCHANGED vars
               PROVE  Before(WorkLeft', WorkLeft) /\ \A i \in 1..4 : WorkLeft'[i] \in Nat
    OBVIOUS
  <2>1. Before(WorkLeft', WorkLeft)
    BY StepLowers, LowerIsBefore
  <2> QED
    BY <2>1 DEF WorkNatural
<1> QED
  BY <1>1, Invariant, AlwaysWithin, WorkTyped, PTL DEF Spec, WorkRunsOut
=============================================================================

------------------------------ MODULE DnsProofs -----------------------------
(***************************************************************************)
(* For every message, of any length, parse_response and parse_name keep    *)
(* to the octets they have and follow at most sixteen pointers per name,   *)
(* and their loops run out; and of a message that is laid out as the       *)
(* standard says they find what it answers.                                *)
(***************************************************************************)
EXTENDS DnsParse, TLAPS

(* The record whose strings are read lies inside the message: the one      *)
(* fact about an earlier check that a later step relies on.                *)
TextInside == pc = "text" => next <= Size

DnsInv == TypeOK /\ TextInside /\ ReadsInside

-----------------------------------------------------------------------------
(* What an index yields is an octet, inside the message or beyond it.      *)
LEMMA OctetRead ==
  ASSUME data \in Seq(Octets), NEW i \in Nat
  PROVE  Octet(i) \in 0..255
<1>1. CASE i < Len(data)
  <2>1. data[i + 1] \in Octets
    BY <1>1
  <2> QED
    BY <1>1, <2>1 DEF Octet, Octets, Size
<1>2. CASE ~(i < Len(data))
  BY <1>2 DEF Octet, Size
<1> QED
  BY <1>1, <1>2

(* A word of two octets; a pointer's is not below 0xC000.                  *)
LEMMA Word ==
  ASSUME NEW i, Octet(i) \in 0..255, Octet(i + 1) \in 0..255
  PROVE  /\ U16(i) \in Nat
         /\ IsPointer(Octet(i)) => Target(i) \in Nat
<1>1. PICK high \in 0..255 : high = Octet(i)
  OBVIOUS
<1>2. PICK low \in 0..255 : low = Octet(i + 1)
  OBVIOUS
<1>3. U16(i) = 256 * high + low
  BY <1>1, <1>2 DEF U16
<1>4. U16(i) \in Nat
  BY <1>3
<1>5. ASSUME high >= 192 PROVE U16(i) - 49152 \in Nat
  BY <1>3, <1>5
<1> QED
  BY <1>1, <1>4, <1>5 DEF IsPointer, Target

LEMMA WordRead ==
  ASSUME data \in Seq(Octets), NEW i \in Nat
  PROVE  /\ U16(i) \in Nat
         /\ IsPointer(Octet(i)) => Target(i) \in Nat
<1>1. Octet(i) \in 0..255 /\ Octet(i + 1) \in 0..255
  BY OctetRead
<1> QED
  BY <1>1, Word

(* Where the message and the name being read are left alone, what the walk *)
(* writes decides.                                                         *)
LEMMA Walked ==
  ASSUME DnsInv, data' = data, UNCHANGED decode,
         pc' \in {"header", "question", "answer", "owner", "fixed", "record", "done"},
         offset' \in Nat, left' \in Nat, rtype' \in Nat, next' \in Nat,
         reach' \in Nat, reach' <= Size
  PROVE  DnsInv'
<1>1. TypeOK'
  BY DEF DnsInv, TypeOK, decode
<1>2. TextInside' /\ ReadsInside'
  BY DEF TextInside, ReadsInside, Size
<1> QED
  BY <1>1, <1>2 DEF DnsInv

(* Where the walk stands still, what the name's reader writes decides.     *)
LEMMA Decoded ==
  ASSUME DnsInv, data' = data, UNCHANGED <<walk, pc>>,
         cursor' \in Nat, jumps' \in 0..16, last_jump_pos' \in Nat \cup {NULL},
         reach' \in Nat, reach' <= Size
  PROVE  DnsInv'
<1>1. TypeOK'
  BY DEF DnsInv, TypeOK, walk
<1>2. TextInside' /\ ReadsInside'
  BY DEF DnsInv, TextInside, ReadsInside, Size, walk
<1> QED
  BY <1>1, <1>2 DEF DnsInv

LEMMA GivingUp ==
  ASSUME DnsInv, NEW from, GiveUp(from)
  PROVE  DnsInv'
<1>1. /\ data' = data /\ pc' = "done" /\ UNCHANGED decode
      /\ UNCHANGED <<offset, left, rtype, next, reach>>
  BY DEF GiveUp, Goto, walk
<1>2. /\ offset \in Nat /\ left \in Nat /\ rtype \in Nat /\ next \in Nat
      /\ reach \in Nat /\ reach <= Size
  BY DEF DnsInv, TypeOK, ReadsInside
<1> QED
  BY <1>1, <1>2, Walked

-----------------------------------------------------------------------------
LEMMA InitHolds == Init => DnsInv
<1> SUFFICES ASSUME Init PROVE DnsInv
  OBVIOUS
<1>1. data \in Seq(Octets)
  BY MessageAssumption DEF Init
<1>2. Size \in Nat
  BY <1>1 DEF Size
<1> QED
  BY <1>1, <1>2 DEF Init, DnsInv, TypeOK, TextInside, ReadsInside

(* The walk over header, question and answer records.                      *)
LEMMA ResponseKeeps == DnsInv /\ parse_response => DnsInv'
<1> SUFFICES ASSUME DnsInv, parse_response PROVE DnsInv'
  OBVIOUS
<1>1. /\ data \in Seq(Octets) /\ offset \in Nat /\ left \in Nat /\ rtype \in Nat
      /\ next \in Nat /\ cursor \in Nat /\ reach \in Nat /\ reach <= Size
      /\ jumps \in 0..16 /\ last_jump_pos \in Nat \cup {NULL}
  BY DEF DnsInv, TypeOK, ReadsInside
<1>2. Size \in Nat
  BY <1>1 DEF Size
<1>3. /\ Octet(offset) \in Nat /\ Octet(cursor) \in Nat
      /\ U16(6) \in Nat /\ U16(offset) \in Nat /\ U16(offset + 8) \in Nat
  <2>1. 6 \in Nat /\ offset + 8 \in Nat
    BY <1>1
  <2>2. Octet(offset) \in 0..255 /\ Octet(cursor) \in 0..255
    BY <1>1, OctetRead
  <2>3. 0..255 \subseteq Nat
    OBVIOUS
  <2> QED
    BY <1>1, <2>1, <2>2, <2>3, WordRead, Zenon
<1>4. CASE Header
  <2>1. CASE GiveUp("header")
    BY <2>1, GivingUp
  <2>2. CASE ~GiveUp("header")
    <3>1. /\ data' = data /\ UNCHANGED <<rtype, next, decode>> /\ pc' = "question"
          /\ left' = U16(6) /\ offset' = 12 /\ reach' = 8 /\ Size >= 12
      BY <1>4, <2>2 DEF Header, Goto
    <3> QED
      BY <1>1, <1>2, <1>3, <3>1, Walked
  <2> QED
    BY <2>1, <2>2
<1>5. CASE QuestionLabel
  <2>1. /\ data' = data /\ UNCHANGED <<left, rtype, next, decode>>
        /\ pc' \in {"question", "answer"}
        /\ offset < Size /\ reach' = offset + 1
    BY <1>5 DEF QuestionLabel
  <2>2. offset' \in Nat
    BY <1>1, <1>3, <1>5 DEF QuestionLabel
  <2> QED
    BY <1>1, <1>2, <2>1, <2>2, Walked
<1>6. CASE QuestionEnds
  <2>1. /\ data' = data /\ UNCHANGED <<left, rtype, next, decode, reach>>
        /\ pc' = "answer" /\ offset' = offset + 5
    BY <1>6 DEF QuestionEnds, Goto
  <2> QED
    BY <1>1, <2>1, Walked
<1>7. CASE NextAnswer
  <2>1. CASE GiveUp("answer")
    BY <2>1, GivingUp
  <2>2. CASE ~GiveUp("answer")
    <3>1. /\ data' = data /\ UNCHANGED <<rtype, next, decode>>
          /\ pc' \in {"fixed", "owner"} /\ offset' \in {offset, offset + 2}
          /\ left > 0 /\ left' = left - 1
          /\ offset + 12 <= Size /\ reach' = offset + 1
      BY <1>7, <2>2 DEF NextAnswer, Goto
    <3> QED
      BY <1>1, <1>2, <3>1, Walked
  <2> QED
    BY <2>1, <2>2
<1>8. CASE OwnerLabel
  <2>1. /\ data' = data /\ UNCHANGED <<left, rtype, next, decode>> /\ pc' = "owner"
        /\ offset' = offset + 1 + Octet(offset)
        /\ offset < Size /\ reach' = offset + 1
    BY <1>8 DEF OwnerLabel
  <2> QED
    BY <1>1, <1>2, <1>3, <2>1, Walked
<1>9. CASE OwnerEnds
  <2>1. /\ data' = data /\ UNCHANGED <<left, rtype, next, decode, reach>>
        /\ pc' = "fixed" /\ offset' = offset + 1
    BY <1>9 DEF OwnerEnds, Goto
  <2> QED
    BY <1>1, <2>1, Walked
<1>10. CASE FixedPart
  <2>1. CASE GiveUp("fixed")
    BY <2>1, GivingUp
  <2>2. CASE ~GiveUp("fixed")
    <3>1. /\ data' = data /\ UNCHANGED <<left, decode>> /\ pc' = "record"
          /\ rtype' = U16(offset) /\ next' = offset + 10 + U16(offset + 8)
          /\ offset' = offset + 10 /\ reach' = offset + 10 /\ offset + 10 <= Size
      BY <1>10, <2>2 DEF FixedPart, Goto
    <3> QED
      BY <1>1, <1>2, <1>3, <3>1, Walked
  <2> QED
    BY <2>1, <2>2
<1>11. CASE Record
  <2>1. CASE GiveUp("record")
    BY <2>1, GivingUp
  <2>2. CASE ~GiveUp("record")
    <3>1. /\ data' = data /\ UNCHANGED <<left, rtype, next>>
          /\ next <= Size /\ reach' = next
      BY <1>11, <2>2 DEF Record
    <3>2. CASE Advance("record") /\ UNCHANGED decode
      <4>1. pc' = "answer" /\ offset' = next
        BY <3>2 DEF Advance, Goto
      <4> QED
        BY <1>1, <3>1, <3>2, <4>1, Walked
    <3>3. CASE ~(Advance("record") /\ UNCHANGED decode)
      <4>1. /\ pc' \in {"name", "text"} /\ cursor' = offset /\ offset' = offset
            /\ jumps' = 0 /\ last_jump_pos' = NULL
        BY <1>11, <2>2, <3>3 DEF Record, Goto
      <4>2. TypeOK'
        BY <1>1, <3>1, <4>1 DEF TypeOK
      <4>3. TextInside' /\ ReadsInside'
        BY <3>1 DEF TextInside, ReadsInside, Size
      <4> QED
        BY <4>2, <4>3 DEF DnsInv
    <3> QED
      BY <3>2, <3>3
  <2> QED
    BY <2>1, <2>2
<1>12. CASE Text
  <2>1. /\ data' = data /\ UNCHANGED <<walk, pc>> /\ UNCHANGED <<jumps, last_jump_pos>>
        /\ pc = "text" /\ cursor < next
        /\ cursor' = cursor + 1 + Octet(cursor)
        /\ \/ cursor' <= next /\ reach' = cursor'
           \/ reach' = cursor + 1
    BY <1>12 DEF Text
  <2>2. next <= Size
    BY <2>1 DEF DnsInv, TextInside
  <2>3. cursor' \in Nat /\ reach' \in Nat /\ reach' <= Size
    <3>1. cursor \in Nat /\ next \in Nat /\ Size \in Nat /\ Octet(cursor) \in Nat
      BY <1>1, <1>2, <1>3, <2>1, <2>2
    <3>2. cursor' = cursor + 1 + Octet(cursor) /\ cursor + 1 <= next
      BY <2>1, <3>1
    <3>3. QED
      BY <2>1, <2>2, <3>1, <3>2
  <2> QED
    BY <1>1, <2>1, <2>3, Decoded
<1>13. CASE TextEnds
  <2>1. /\ data' = data /\ UNCHANGED <<left, rtype, next, decode, reach>>
        /\ pc' = "answer" /\ offset' = next
    BY <1>13 DEF TextEnds, Advance, Goto
  <2> QED
    BY <1>1, <2>1, Walked
<1> QED
  BY <1>4, <1>5, <1>6, <1>7, <1>8, <1>9, <1>10, <1>11, <1>12, <1>13
     DEF parse_response

(* The walk along one name.                                                *)
LEMMA NameKeeps == DnsInv /\ parse_name => DnsInv'
<1> SUFFICES ASSUME DnsInv, parse_name PROVE DnsInv'
  OBVIOUS
<1>1. /\ data \in Seq(Octets) /\ offset \in Nat /\ left \in Nat /\ rtype \in Nat
      /\ next \in Nat /\ cursor \in Nat /\ reach \in Nat /\ reach <= Size
      /\ jumps \in 0..16 /\ last_jump_pos \in Nat \cup {NULL}
  BY DEF DnsInv, TypeOK, ReadsInside
<1>2. Size \in Nat
  BY <1>1 DEF Size
<1>3. /\ Octet(cursor) \in 0..255 /\ Octet(cursor) \in Nat
      /\ IsPointer(Octet(cursor)) => Target(cursor) \in Nat
  <2>1. Octet(cursor) \in 0..255
    BY <1>1, OctetRead
  <2>2. 0..255 \subseteq Nat
    OBVIOUS
  <2> QED
    BY <1>1, <2>1, <2>2, WordRead, Zenon
<1>4. CASE NameEnds
  <2>1. /\ data' = data /\ UNCHANGED <<left, rtype, next, decode, reach>>
        /\ pc' = "answer" /\ offset' = next
    BY <1>4 DEF NameEnds, Advance, Goto
  <2> QED
    BY <1>1, <2>1, Walked
<1>5. CASE Jump
  <2>1. /\ data' = data /\ UNCHANGED <<walk, pc>>
        /\ cursor' = Target(cursor) /\ last_jump_pos' = cursor
        /\ jumps' = jumps + 1 /\ reach' = cursor + 2
        /\ IsPointer(Octet(cursor)) /\ ~NameOver
    BY <1>5 DEF Jump
  <2>2. ~(cursor + 2 > Size) /\ jumps # 16
    BY <2>1 DEF NameOver
  <2> QED
    BY <1>1, <1>2, <1>3, <2>1, <2>2, Decoded
<1>6. CASE Label
  <2>1. /\ data' = data /\ UNCHANGED <<walk, pc>> /\ UNCHANGED <<jumps, last_jump_pos>>
        /\ cursor' = cursor + 1 + Octet(cursor) /\ reach' = cursor'
        /\ ~IsPointer(Octet(cursor)) /\ ~NameOver
    BY <1>6 DEF Label
  <2>2. Octet(cursor) < 64
    BY <1>3, <2>1 DEF NameOver, IsPointer
  <2>3. ~(cursor + 1 + Octet(cursor) > Size)
    BY <2>1, <2>2 DEF NameOver
  <2> QED
    BY <1>1, <1>2, <1>3, <2>1, <2>3, Decoded
<1> QED
  BY <1>4, <1>5, <1>6 DEF parse_name

LEMMA DnsInvariant == Spec => []DnsInv
<1>1. DnsInv /\ [Next]_vars => DnsInv'
  <2> SUFFICES ASSUME DnsInv, [Next]_vars PROVE DnsInv'
    OBVIOUS
  <2>1. CASE UNCHANGED vars
    <3>1. /\ data' = data /\ UNCHANGED <<walk, pc>> /\ reach' = reach
          /\ UNCHANGED <<cursor, jumps, last_jump_pos>>
      BY <2>1 DEF vars, decode
    <3>2. /\ cursor \in Nat /\ jumps \in 0..16 /\ last_jump_pos \in Nat \cup {NULL}
          /\ reach \in Nat /\ reach <= Size
      BY DEF DnsInv, TypeOK, ReadsInside
    <3> QED
      BY <3>1, <3>2, Decoded
  <2> QED
    BY <2>1, ResponseKeeps, NameKeeps DEF Next
<1> QED
  BY InitHolds, <1>1, PTL DEF Spec

(* The state of the parser keeps its types; in particular no name follows  *)
(* more than sixteen pointers, which is the limit parse_name documents.    *)
THEOREM ParserTyped == Spec => []TypeOK
  BY DnsInvariant, PTL DEF DnsInv

(* No message makes the parser index an octet it does not have, so it      *)
(* never panics on what a resolver sends.                                  *)
THEOREM ParserStaysInside == Spec => []ReadsInside
  BY DnsInvariant, PTL DEF DnsInv

-----------------------------------------------------------------------------
(* What is read is what was written.                                       *)

Stops     == meant.stops
InARecord == {"owner", "fixed", "record", "name", "text"}

(* Where the reader stands in a name or in a text.                         *)
AtLabel(stops, j) ==
  /\ cursor = stops[j].at /\ name = stops[j].labels /\ jumps = stops[j].jumps
  /\ last_jump_pos = NULL \/ \E i \in 1..(j - 1) : last_jump_pos = stops[i].at

AtString(stops, j) == cursor = stops[j].at /\ name = stops[j].labels

(* Where it stands in record r, and what of r it has read.                 *)
AtRecord(r, after) ==
  /\ pc = "owner" => /\ InFull(data, r.owner, r.at, r.fixed)
                     /\ \E j \in 1..Len(r.owner) : offset = r.owner[j]
  /\ pc = "fixed" => offset = r.fixed
  /\ pc \in {"record", "name", "text"} =>
       /\ offset = r.fixed + 10 /\ next = after.at /\ rtype = WordAt(data, r.fixed)
  /\ pc = "name" => rtype \in {2, 5} /\ \E j \in 1..Len(r.data) : AtLabel(r.data, j)
  /\ pc = "text" => rtype = 16 /\ \E j \in 1..Len(r.data) : AtString(r.data, j)

(* The reader stands at a stop of the layout, and has found what the       *)
(* layout says up to there.                                                *)
AtStop(k) ==
  /\ k \in 1..Len(Stops) /\ left = Len(Stops) - k
  /\ offset = Stops[k].at /\ results = Stops[k].told

PastStop(k, r, after) ==
  /\ k \in 1..(Len(Stops) - 1) /\ left = Len(Stops) - k - 1
  /\ r = Stops[k] /\ after = Stops[k + 1]
  /\ results = r.told

ReadSoFar ==
  /\ pc = "header" => results = <<>>
  /\ pc = "question" => /\ results = <<>> /\ left = Len(Stops) - 1
                        /\ \E j \in 1..Len(meant.question) : offset = meant.question[j]
  /\ pc = "answer" => \E k \in 1..Len(Stops) : AtStop(k)
  /\ pc \in InARecord =>
       \E k \in 1..(Len(Stops) - 1) : /\ PastStop(k, Stops[k], Stops[k + 1])
                                      /\ AtRecord(Stops[k], Stops[k + 1])
  /\ pc = "done" => results = Answers(meant)

AnswerInv == meant # NULL => Laid(data, meant) /\ ReadSoFar

LEMMA Element ==
  ASSUME NEW S, NEW s \in Seq(S), NEW i \in 1..Len(s)
  PROVE  s[i] \in S
  OBVIOUS

(* The reader's octets and words are the layout's.                         *)
LEMMA SameOctet ==
  ASSUME data \in Seq(Octets), NEW i \in Nat, i < Size
  PROVE  Octet(i) = OctetAt(data, i) /\ OctetAt(data, i) \in 0..255
<1>1. data[i + 1] \in Octets
  BY DEF Size
<1> QED
  BY <1>1 DEF Octet, OctetAt, Octets

LEMMA SameWord ==
  ASSUME data \in Seq(Octets), NEW i \in Nat, i + 1 < Size
  PROVE  U16(i) = WordAt(data, i) /\ WordAt(data, i) \in Nat
<1>0. Size \in Nat
  BY DEF Size
<1>1. Octet(i) = OctetAt(data, i) /\ Octet(i + 1) = OctetAt(data, i + 1)
  BY <1>0, SameOctet
<1>2. U16(i) = WordAt(data, i)
  BY <1>1 DEF U16, WordAt
<1> QED
  BY <1>2, WordRead

(* What the layout says of the stops.                                      *)
LEMMA StopFacts ==
  ASSUME DnsInv, Laid(data, meant)
  PROVE  /\ Size >= 12 /\ Len(Stops) \in Nat \ {0} /\ Len(Stops) = U16(6) + 1
         /\ InFull(data, meant.question, 12, Stops[1].at - 4)
         /\ Stops[1].told = <<>>
         /\ Answers(meant) = Stops[Len(Stops)].told
         /\ \A k \in 1..Len(Stops) : Stops[k].at \in Nat
         /\ \A k \in 1..(Len(Stops) - 1) : RecordLaid(data, Stops[k], Stops[k + 1])
<1>1. data \in Seq(Octets)
  BY DEF DnsInv, TypeOK
<1>2. /\ Len(data) >= 12 /\ Len(Stops) = WordAt(data, 6) + 1
      /\ InFull(data, meant.question, 12, Stops[1].at - 4)
      /\ Stops[1].told = <<>>
      /\ \A k \in 1..Len(Stops) : Stops[k].at \in Nat
      /\ \A k \in 1..(Len(Stops) - 1) : RecordLaid(data, Stops[k], Stops[k + 1])
  BY DEF Laid, Stops
<1>3. Size \in Nat /\ Size >= 12
  BY <1>1, <1>2 DEF Size
<1>4. U16(6) = WordAt(data, 6) /\ WordAt(data, 6) \in Nat
  BY <1>1, <1>3, SameWord
<1> QED
  BY <1>2, <1>3, <1>4 DEF Answers, Final, Stops

(* A step inside a record, and one from its end to the next stop.          *)
LEMMA StaysInRecord ==
  ASSUME NEW k, NEW r, NEW after, PastStop(k, r, after),
         meant' = meant, left' = left, results' = results,
         pc' \in InARecord, AtRecord(r, after)'
  PROVE  ReadSoFar'
<1>1. r = Stops'[k] /\ after = Stops'[k + 1] /\ Stops' = Stops
  BY DEF PastStop, Stops
<1>2. AtRecord(Stops[k], Stops[k + 1])'
  BY <1>1
<1>3. PastStop(k, Stops[k], Stops[k + 1])' /\ k \in 1..(Len(Stops') - 1)
  BY <1>1 DEF PastStop
<1>4. pc' \notin {"header", "question", "answer", "done"}
  BY DEF InARecord
<1> QED
  BY <1>2, <1>3, <1>4 DEF ReadSoFar

LEMMA ReachesStop ==
  ASSUME NEW k \in 1..Len(Stops), meant' = meant, pc' = "answer",
         left' = Len(Stops) - k, offset' = Stops[k].at, results' = Stops[k].told
  PROVE  ReadSoFar'
<1>1. AtStop(k)' /\ k \in 1..Len(Stops')
  BY DEF AtStop, Stops
<1> QED
  BY <1>1 DEF ReadSoFar, InARecord

LEMMA LeavesRecord ==
  ASSUME Len(Stops) \in Nat, NEW k, NEW r, NEW after, PastStop(k, r, after),
         meant' = meant, left' = left, pc' = "answer",
         offset' = after.at, results' = after.told
  PROVE  ReadSoFar'
<1>1. k + 1 \in 1..Len(Stops) /\ left = Len(Stops) - (k + 1) /\ after = Stops[k + 1]
  BY DEF PastStop
<1> QED
  BY <1>1, ReachesStop

(* The record that is being read, under names of its own.                  *)
LEMMA RecordAt ==
  ASSUME DnsInv, Laid(data, meant), ReadSoFar, pc \in InARecord
  PROVE  \E k, r, after : /\ PastStop(k, r, after) /\ AtRecord(r, after)
                          /\ RecordLaid(data, r, after)
                          /\ r.at \in Nat /\ after.at \in Nat
<1>1. PICK k \in 1..(Len(Stops) - 1) : /\ PastStop(k, Stops[k], Stops[k + 1])
                                       /\ AtRecord(Stops[k], Stops[k + 1])
  BY DEF ReadSoFar
<1>2. Len(Stops) \in Nat
  BY StopFacts
<1>3. k \in 1..Len(Stops) /\ k + 1 \in 1..Len(Stops)
  BY <1>2
<1>4. /\ RecordLaid(data, Stops[k], Stops[k + 1])
      /\ Stops[k].at \in Nat /\ Stops[k + 1].at \in Nat
  BY <1>3, StopFacts
<1> QED
  BY <1>1, <1>4

-----------------------------------------------------------------------------
(* The header and the question.                                            *)
LEMMA QuestionRead ==
  ASSUME DnsInv, Laid(data, meant), ReadSoFar,
         Header \/ QuestionLabel \/ QuestionEnds
  PROVE  ReadSoFar'
<1>1. /\ data \in Seq(Octets) /\ Size \in Nat /\ offset \in Nat
      /\ Len(Stops) \in Nat \ {0} /\ Stops[1].at \in Nat
  BY StopFacts DEF DnsInv, TypeOK, Size
<1>2. PICK places : places = meant.question
  OBVIOUS
<1>3. InFull(data, places, 12, Stops[1].at - 4)
  BY <1>2, StopFacts
<1>4. /\ places \in Seq(Nat) /\ Len(places) \in Nat \ {0} /\ places[1] = 12
      /\ \A j \in 1..Len(places) : places[j] \in Nat /\ places[j] < Size
  BY <1>3 DEF InFull, Size
<1>5. CASE Header
  <2>1. /\ pc = "header" /\ pc' = "question" /\ meant' = meant
        /\ left' = U16(6) /\ offset' = 12 /\ results' = results
    BY <1>5, StopFacts, <1>1 DEF Header, Goto, GiveUp
  <2>2. /\ results' = <<>> /\ left' = Len(Stops') - 1
        /\ 1 \in 1..Len(meant'.question) /\ offset' = meant'.question[1]
    <3>1. results' = <<>>
      BY <2>1 DEF ReadSoFar
    <3>2. U16(6) = Len(Stops) - 1
      <4>1. U16(6) \in Nat
        BY <1>1, WordRead
      <4> QED
        BY <1>1, <4>1, StopFacts
    <3>3. left' = Len(Stops') - 1
      BY <2>1, <3>2 DEF Stops
    <3> QED
      BY <1>2, <1>4, <2>1, <3>1, <3>3
  <2> QED
    BY <2>1, <2>2 DEF ReadSoFar, InARecord
<1>6. CASE QuestionLabel
  <2>1. /\ pc = "question" /\ offset < Size /\ Octet(offset) # 0
        /\ meant' = meant /\ left' = left /\ results' = results
    BY <1>6 DEF QuestionLabel
  <2>2. PICK j \in 1..Len(places) : offset = places[j]
    BY <2>1, <1>2 DEF ReadSoFar
  <2>3. Octet(offset) = OctetAt(data, places[j])
    BY <1>1, <2>1, <2>2, SameOctet
  <2>4. j # Len(places)
    BY <1>3, <2>1, <2>3 DEF InFull, Final
  <2>5. /\ j + 1 \in 1..Len(places) /\ Octet(offset) \in 1..63
        /\ places[j + 1] = offset + 1 + Octet(offset)
    BY <1>3, <1>4, <2>2, <2>3, <2>4 DEF InFull
  <2>6. pc' = "question" /\ offset' = places[j + 1]
    <3>1. ~IsPointer(Octet(offset))
      <4>1. PICK o \in 1..63 : o = Octet(offset)
        BY <2>5
      <4>2. ~IsPointer(o)
        BY DEF IsPointer
      <4> QED
        BY <4>1, <4>2, Zenon
    <3> QED
      BY <1>6, <2>1, <2>5, <3>1 DEF QuestionLabel
  <2>7. \E i \in 1..Len(meant'.question) : offset' = meant'.question[i]
    BY <1>2, <2>1, <2>5, <2>6
  <2>8. results' = <<>> /\ left' = Len(Stops') - 1
    BY <2>1 DEF ReadSoFar, Stops
  <2> QED
    BY <2>6, <2>7, <2>8 DEF ReadSoFar, InARecord
<1>7. CASE QuestionEnds
  <2>1. /\ pc = "question" /\ pc' = "answer" /\ offset' = offset + 5
        /\ offset >= Size \/ Octet(offset) = 0
        /\ meant' = meant /\ left' = left /\ results' = results
    BY <1>7 DEF QuestionEnds, Goto
  <2>2. PICK j \in 1..Len(places) : offset = places[j]
    BY <2>1, <1>2 DEF ReadSoFar
  <2>3. offset < Size /\ Octet(offset) = OctetAt(data, places[j])
    BY <1>1, <1>4, <2>2, SameOctet
  <2>4. OctetAt(data, places[j]) = 0
    BY <1>1, <2>1, <2>3
  <2>5. j = Len(places)
    <3>1. SUFFICES ASSUME j # Len(places) PROVE FALSE
      OBVIOUS
    <3>2. j \in 1..(Len(places) - 1)
      BY <1>4, <3>1
    <3>3. OctetAt(data, places[j]) \in 1..63
      BY <1>3, <3>2 DEF InFull
    <3> QED
      BY <2>4, <3>3
  <2>6. Stops[1].at - 4 = offset + 1
    BY <1>3, <2>2, <2>5 DEF InFull, Final
  <2>7. offset' = Stops[1].at /\ results' = Stops[1].told /\ left' = Len(Stops) - 1
    <3>1. results = <<>> /\ left = Len(Stops) - 1
      BY <2>1 DEF ReadSoFar
    <3>2. Stops[1].told = <<>> /\ Stops[1].at \in Nat
      BY <1>1, StopFacts
    <3>3. offset' = Stops[1].at
      BY <1>1, <2>1, <2>6, <3>2
    <3> QED
      BY <2>1, <3>1, <3>2, <3>3
  <2> QED
    BY <1>1, <2>1, <2>7, ReachesStop
<1> QED
  BY <1>5, <1>6, <1>7

-----------------------------------------------------------------------------
(* A record: its owner, its fixed part, its data up to a name or a text.   *)
LEMMA OwnerBegins ==
  ASSUME DnsInv, Laid(data, meant), ReadSoFar, NextAnswer
  PROVE  ReadSoFar'
<1>1. /\ data \in Seq(Octets) /\ Size \in Nat /\ left \in Nat
      /\ Len(Stops) \in Nat \ {0} /\ pc = "answer"
  BY StopFacts DEF DnsInv, TypeOK, Size, NextAnswer, GiveUp, Goto
<1>2. PICK k \in 1..Len(Stops) : AtStop(k)
  BY <1>1 DEF ReadSoFar
<1>3. CASE left = 0
  <2>1. pc' = "done" /\ meant' = meant /\ results' = results
    BY <1>1, <1>3 DEF NextAnswer, GiveUp, Goto
  <2>2. k = Len(Stops)
    BY <1>1, <1>2, <1>3 DEF AtStop
  <2>3. results' = Answers(meant')
    BY <1>2, <2>1, <2>2, StopFacts DEF AtStop
  <2> QED
    BY <2>1, <2>3 DEF ReadSoFar, InARecord
<1>4. CASE left # 0
  <2>1. k \in 1..(Len(Stops) - 1)
    BY <1>1, <1>2, <1>4 DEF AtStop
  <2>2. PICK r, after : r = Stops[k] /\ after = Stops[k + 1]
    OBVIOUS
  <2>3. RecordLaid(data, r, after) /\ r.at \in Nat
    BY <2>1, <2>2, <1>1, StopFacts
  <2>4. offset = r.at /\ results = r.told /\ left = Len(Stops) - k
    BY <1>2, <2>2 DEF AtStop
  <2>5. offset + 12 <= Size
    BY <2>3, <2>4 DEF RecordLaid, Size
  <2>6. PICK o \in 0..255 : o = Octet(offset) /\ o = OctetAt(data, r.at)
    <3>1. r.at < Size
      BY <1>1, <2>3, <2>4, <2>5
    <3>2. Octet(r.at) = OctetAt(data, r.at) /\ OctetAt(data, r.at) \in 0..255
      BY <1>1, <2>3, <3>1, SameOctet
    <3> QED
      BY <2>4, <3>2
  <2>7. left > 0 /\ ~(offset + 12 > Size)
    <3>1. offset \in Nat
      BY <2>3, <2>4
    <3> QED
      BY <1>1, <1>4, <2>5, <3>1
  <2>8. /\ meant' = meant /\ data' = data /\ results' = results /\ left' = left - 1
        /\ IF o >= 192 THEN pc' = "fixed" /\ offset' = offset + 2
                       ELSE pc' = "owner" /\ offset' = offset
    <3>1. /\ meant' = meant /\ data' = data /\ results' = results /\ left' = left - 1
          /\ IF IsPointer(Octet(offset)) THEN pc' = "fixed" /\ offset' = offset + 2
                                         ELSE pc' = "owner" /\ offset' = offset
      BY <1>4, <2>7 DEF NextAnswer, Goto
    <3>2. IsPointer(o) <=> o >= 192
      BY DEF IsPointer
    <3>3. IsPointer(Octet(offset)) <=> o >= 192
      BY <2>6, <3>2, Zenon
    <3> QED
      BY <3>1, <3>3
  <2>9. PastStop(k, r, after)' /\ k \in 1..(Len(Stops') - 1)
    BY <1>1, <2>1, <2>2, <2>4, <2>8 DEF PastStop, Stops
  <2>10. AtRecord(r, after)'
    <3>1. CASE o >= 192
      <4>1. r.fixed = r.at + 2
        <5>1. ~InFull(data, r.owner, r.at, r.fixed)
          <6>1. SUFFICES ASSUME InFull(data, r.owner, r.at, r.fixed) PROVE FALSE
            OBVIOUS
          <6>2. PICK places : places = r.owner
            OBVIOUS
          <6>3. /\ places \in Seq(Nat) /\ places # <<>> /\ places[1] = r.at
                /\ \A j \in 1..(Len(places) - 1) : OctetAt(data, places[j]) \in 1..63
                /\ OctetAt(data, places[Len(places)]) = 0
            BY <6>1, <6>2 DEF InFull, Final
          <6>4. Len(places) \in Nat \ {0}
            BY <6>3
          <6>5. o \in 1..63 \/ o = 0
            <7>1. CASE Len(places) = 1
              <8>1. places[Len(places)] = r.at
                BY <6>3, <7>1
              <8>2. OctetAt(data, r.at) = 0
                BY <6>3, <8>1
              <8> QED
                BY <2>6, <8>2
            <7>2. CASE Len(places) # 1
              <8>1. 1 \in 1..(Len(places) - 1)
                BY <6>4, <7>2
              <8> QED
                BY <2>6, <6>3, <8>1
            <7> QED
              BY <7>1, <7>2
          <6> QED
            BY <3>1, <6>5
        <5> QED
          BY <2>3, <5>1 DEF RecordLaid
      <4> QED
        BY <2>4, <2>8, <3>1, <4>1 DEF AtRecord
    <3>2. CASE ~(o >= 192)
      <4>1. InFull(data, r.owner, r.at, r.fixed)
        BY <2>3, <2>6, <3>2 DEF RecordLaid
      <4>2. 1 \in 1..Len(r.owner) /\ offset = r.owner[1]
        BY <2>4, <4>1 DEF InFull
      <4> QED
        BY <2>8, <3>2, <4>1, <4>2 DEF AtRecord
    <3> QED
      BY <3>1, <3>2
  <2>11. AtRecord(Stops[k], Stops[k + 1])' /\ PastStop(k, Stops[k], Stops[k + 1])'
    BY <2>2, <2>8, <2>9, <2>10 DEF PastStop
  <2>12. pc' \in InARecord \ {"header", "question", "answer", "done"}
    BY <2>8 DEF InARecord
  <2> QED
    BY <2>9, <2>11, <2>12 DEF ReadSoFar
<1> QED
  BY <1>3, <1>4

LEMMA OwnerRead ==
  ASSUME DnsInv, Laid(data, meant), ReadSoFar, OwnerLabel \/ OwnerEnds
  PROVE  ReadSoFar'
<1>1. /\ data \in Seq(Octets) /\ Size \in Nat /\ offset \in Nat
      /\ pc = "owner" /\ pc \in InARecord
      /\ meant' = meant /\ data' = data /\ left' = left /\ results' = results
  BY DEF DnsInv, TypeOK, Size, OwnerLabel, OwnerEnds, Goto, InARecord
<1>2. PICK k, r, after : PastStop(k, r, after) /\ AtRecord(r, after)
  BY <1>1, RecordAt
<1>3. PICK places : places = r.owner
  OBVIOUS
<1>4. /\ InFull(data, places, r.at, r.fixed)
      /\ \E j \in 1..Len(places) : offset = places[j]
  BY <1>1, <1>2, <1>3 DEF AtRecord
<1>5. PICK j \in 1..Len(places) : offset = places[j]
  BY <1>4
<1>6. Len(places) \in Nat /\ offset < Size
  BY <1>4, <1>5 DEF InFull, Size
<1>7. PICK o \in 0..255 : o = Octet(offset) /\ o = OctetAt(data, places[j])
  BY <1>1, <1>5, <1>6, SameOctet
<1>8. CASE OwnerLabel
  <2>1. pc' = "owner" /\ offset' = offset + 1 + o /\ o # 0
    BY <1>1, <1>7, <1>8 DEF OwnerLabel
  <2>2. j # Len(places)
    BY <1>4, <1>7, <2>1 DEF InFull, Final
  <2>3. j + 1 \in 1..Len(places) /\ offset' = places[j + 1]
    <3>1. j + 1 \in 1..Len(places) /\ j \in 1..(Len(places) - 1)
      BY <1>6, <2>2
    <3>2. places[j + 1] = places[j] + 1 + OctetAt(data, places[j])
      BY <1>4, <3>1 DEF InFull
    <3> QED
      BY <1>5, <1>7, <2>1, <3>1, <3>2
  <2>4. AtRecord(r, after)'
    BY <1>1, <1>3, <1>4, <2>1, <2>3 DEF AtRecord
  <2> QED
    BY <1>1, <1>2, <2>1, <2>4, StaysInRecord
<1>9. CASE OwnerEnds
  <2>1. pc' = "fixed" /\ offset' = offset + 1 /\ o = 0
    BY <1>6, <1>7, <1>1, <1>9 DEF OwnerEnds, Goto
  <2>2. j = Len(places)
    <3>1. SUFFICES ASSUME j # Len(places) PROVE FALSE
      OBVIOUS
    <3>2. j \in 1..(Len(places) - 1)
      BY <1>6, <3>1
    <3>3. OctetAt(data, places[j]) \in 1..63
      BY <1>4, <3>2 DEF InFull
    <3> QED
      BY <1>7, <2>1, <3>3
  <2>3. offset' = r.fixed
    BY <1>4, <1>5, <2>1, <2>2 DEF InFull, Final
  <2>4. AtRecord(r, after)'
    BY <2>1, <2>3 DEF AtRecord
  <2>5. pc' \in InARecord
    BY <2>1 DEF InARecord
  <2> QED
    BY <1>1, <1>2, <2>4, <2>5, StaysInRecord
<1> QED
  BY <1>8, <1>9

LEMMA FixedRead ==
  ASSUME DnsInv, Laid(data, meant), ReadSoFar, FixedPart
  PROVE  ReadSoFar'
<1>1. data \in Seq(Octets) /\ Size \in Nat /\ pc = "fixed" /\ pc \in InARecord
  BY DEF DnsInv, TypeOK, Size, FixedPart, GiveUp, Goto, InARecord
<1>2. PICK k, r, after : /\ PastStop(k, r, after) /\ AtRecord(r, after)
                         /\ RecordLaid(data, r, after)
  BY <1>1, RecordAt
<1>3. PICK at : at = r.fixed
  OBVIOUS
<1>4. /\ offset = at /\ at \in Nat /\ at + 10 <= Size
      /\ after.at = at + 10 + WordAt(data, at + 8)
  BY <1>1, <1>2, <1>3 DEF AtRecord, RecordLaid, Size
<1>5. U16(at) = WordAt(data, at) /\ U16(at + 8) = WordAt(data, at + 8)
  <2>1. at + 8 \in Nat /\ at + 1 < Size /\ (at + 8) + 1 < Size
    BY <1>1, <1>4
  <2> QED
    BY <1>1, <1>4, <2>1, SameWord
<1>6. /\ meant' = meant /\ data' = data /\ left' = left /\ results' = results
      /\ pc' = "record" /\ rtype' = U16(at) /\ offset' = at + 10
      /\ next' = at + 10 + U16(at + 8)
  <2>1. ~(offset + 10 > Size)
    BY <1>1, <1>4
  <2> QED
    BY <1>4, <2>1 DEF FixedPart, Goto
<1>7. AtRecord(r, after)' /\ pc' \in InARecord
  BY <1>3, <1>4, <1>5, <1>6 DEF AtRecord, InARecord
<1> QED
  BY <1>2, <1>6, <1>7, StaysInRecord

(* What the reader knows of a record once its fixed part is read.          *)
LEMMA DataAt ==
  ASSUME DnsInv, Laid(data, meant), ReadSoFar, pc \in {"record", "name", "text"}
  PROVE  \E k, r, after :
           /\ PastStop(k, r, after) /\ AtRecord(r, after)
           /\ offset \in Nat /\ next = after.at /\ next \in Nat /\ next <= Size
           /\ rtype = WordAt(data, r.fixed) /\ rtype \in Nat
           /\ offset = r.fixed + 10
           /\ \/ Silent(rtype) /\ after.told = r.told
              \/ /\ DataLaid(data, rtype, r.data, offset, next, r.value)
                 /\ after.told = Append(r.told, <<rtype, r.value>>)
<1>1. pc \in InARecord
  BY DEF InARecord
<1>2. PICK k, r, after : /\ PastStop(k, r, after) /\ AtRecord(r, after)
                         /\ RecordLaid(data, r, after)
  BY <1>1, RecordAt
<1>3. offset = r.fixed + 10 /\ next = after.at /\ rtype = WordAt(data, r.fixed)
  BY <1>2 DEF AtRecord
<1>4. offset \in Nat /\ next \in Nat /\ rtype \in Nat
  BY DEF DnsInv, TypeOK
<1>5. next <= Size
  BY <1>2, <1>3 DEF RecordLaid, Size
<1>6. \/ Silent(rtype) /\ after.told = r.told
      \/ /\ DataLaid(data, rtype, r.data, offset, next, r.value)
         /\ after.told = Append(r.told, <<rtype, r.value>>)
  BY <1>2, <1>3 DEF RecordLaid
<1> QED
  BY <1>2, <1>3, <1>4, <1>5, <1>6

LEMMA RecordRead ==
  ASSUME DnsInv, Laid(data, meant), ReadSoFar, Record
  PROVE  ReadSoFar'
<1>1. pc = "record" /\ Len(Stops) \in Nat
  BY StopFacts DEF Record, GiveUp, Advance, Goto
<1>2. PICK k, r, after :
        /\ PastStop(k, r, after) /\ AtRecord(r, after)
        /\ offset \in Nat /\ next = after.at /\ next \in Nat /\ next <= Size
        /\ rtype = WordAt(data, r.fixed) /\ rtype \in Nat
        /\ offset = r.fixed + 10
        /\ \/ Silent(rtype) /\ after.told = r.told
           \/ /\ DataLaid(data, rtype, r.data, offset, next, r.value)
              /\ after.told = Append(r.told, <<rtype, r.value>>)
  BY <1>1, DataAt
<1>3. /\ meant' = meant /\ data' = data /\ left' = left /\ rtype' = rtype /\ next' = next
      /\ \/ /\ IsAddress /\ Found(Slice(offset, next))
            /\ pc' = "answer" /\ offset' = next
         \/ /\ HoldsName \/ rtype = 16
            /\ pc' = (IF HoldsName THEN "name" ELSE "text")
            /\ cursor' = offset /\ name' = <<>> /\ jumps' = 0 /\ last_jump_pos' = NULL
            /\ offset' = offset /\ results' = results
         \/ /\ ~IsAddress /\ ~HoldsName /\ rtype # 16
            /\ pc' = "answer" /\ offset' = next /\ results' = results
  <2>1. Size \in Nat
    BY DEF Size, DnsInv, TypeOK
  <2>2. ~(next > Size)
    BY <1>2, <2>1
  <2> QED
    BY <2>2 DEF Record, Advance, Goto
<1>4. CASE Silent(rtype) /\ after.told = r.told
  <2>1. ~IsAddress /\ ~HoldsName /\ rtype # 16
    BY <1>4 DEF Silent, IsAddress, HoldsName
  <2>2. pc' = "answer" /\ offset' = after.at /\ results' = after.told
    BY <1>2, <1>3, <1>4, <2>1 DEF PastStop
  <2> QED
    BY <1>1, <1>2, <1>3, <2>2, LeavesRecord
<1>5. CASE /\ DataLaid(data, rtype, r.data, offset, next, r.value)
           /\ after.told = Append(r.told, <<rtype, r.value>>)
  <2>1. CASE rtype = 1 \/ rtype = 28
    <3>1. /\ IsAddress /\ ~HoldsName /\ rtype # 16
          /\ r.value = Part(data, offset, next)
      BY <1>5, <2>1 DEF DataLaid, IsAddress, HoldsName
    <3>2. /\ pc' = "answer" /\ offset' = after.at
          /\ results' = Append(results, <<rtype, Part(data, offset, next)>>)
      BY <1>2, <1>3, <3>1 DEF Found, Slice, Part
    <3>3. results' = after.told
      BY <1>2, <1>5, <3>1, <3>2 DEF PastStop
    <3> QED
      BY <1>1, <1>2, <1>3, <3>2, <3>3, LeavesRecord
  <2>2. CASE rtype \in {2, 5}
    <3>1. ~IsAddress /\ HoldsName /\ NameLaid(data, r.data, offset)
      BY <1>5, <2>2 DEF DataLaid, IsAddress, HoldsName
    <3>2. /\ pc' = "name" /\ offset' = offset /\ results' = results
          /\ cursor' = offset /\ name' = <<>> /\ jumps' = 0 /\ last_jump_pos' = NULL
      BY <1>3, <2>2, <3>1
    <3>3. /\ 1 \in 1..Len(r.data)
          /\ r.data[1] = [at |-> offset, labels |-> <<>>, jumps |-> 0]
      BY <3>1 DEF NameLaid
    <3>4. AtLabel(r.data, 1)'
      BY <3>2, <3>3 DEF AtLabel
    <3>5. AtRecord(r, after)' /\ pc' \in InARecord
      BY <1>2, <1>3, <2>2, <3>2, <3>3, <3>4 DEF AtRecord, InARecord
    <3> QED
      BY <1>2, <1>3, <3>2, <3>5, StaysInRecord
  <2>3. CASE rtype = 16
    <3>1. ~IsAddress /\ ~HoldsName /\ TextLaid(data, r.data, offset, next)
      BY <1>5, <2>3 DEF DataLaid, IsAddress, HoldsName
    <3>2. /\ pc' = "text" /\ offset' = offset /\ results' = results
          /\ cursor' = offset /\ name' = <<>>
      BY <1>3, <2>3, <3>1
    <3>3. 1 \in 1..Len(r.data) /\ r.data[1] = [at |-> offset, labels |-> <<>>]
      BY <3>1 DEF TextLaid
    <3>4. AtString(r.data, 1)'
      BY <3>2, <3>3 DEF AtString
    <3>5. AtRecord(r, after)' /\ pc' \in InARecord
      BY <1>2, <1>3, <2>3, <3>2, <3>3, <3>4 DEF AtRecord, InARecord
    <3> QED
      BY <1>2, <1>3, <3>2, <3>5, StaysInRecord
  <2> QED
    BY <1>5, <2>1, <2>2, <2>3 DEF DataLaid
<1> QED
  BY <1>2, <1>4, <1>5

(* A name, label by label and pointer by pointer; a text.                  *)
LEMMA NameRead ==
  ASSUME DnsInv, Laid(data, meant), ReadSoFar, parse_name
  PROVE  ReadSoFar'
<1>1. /\ data \in Seq(Octets) /\ Size \in Nat /\ cursor \in Nat
      /\ jumps \in 0..16 /\ Len(Stops) \in Nat /\ pc = "name" /\ pc \in InARecord
  BY StopFacts DEF DnsInv, TypeOK, Size, parse_name, NameEnds, Jump, Label, Advance,
                   Goto, InARecord
<1>2. PICK k, r, after :
        /\ PastStop(k, r, after) /\ AtRecord(r, after)
        /\ offset \in Nat /\ next = after.at /\ next \in Nat /\ next <= Size
        /\ rtype = WordAt(data, r.fixed) /\ rtype \in Nat
        /\ offset = r.fixed + 10
        /\ \/ Silent(rtype) /\ after.told = r.told
           \/ /\ DataLaid(data, rtype, r.data, offset, next, r.value)
              /\ after.told = Append(r.told, <<rtype, r.value>>)
  BY <1>1, DataAt
<1>3. PICK stops : stops = r.data
  OBVIOUS
<1>4. /\ rtype \in {2, 5}
      /\ \E j \in 1..Len(stops) : AtLabel(stops, j)
  BY <1>1, <1>2, <1>3 DEF AtRecord
<1>5. /\ NameLaid(data, stops, offset)
      /\ after.told = Append(r.told, <<rtype, Final(stops).labels>>)
  BY <1>2, <1>3, <1>4 DEF Silent, DataLaid
<1>6. PICK j \in 1..Len(stops) : AtLabel(stops, j)
  BY <1>4
<1>7. /\ stops \in Seq([at : Nat, labels : Labels, jumps : 0..16])
      /\ Len(stops) \in Nat \ {0}
      /\ \A i \in 1..Len(stops) : stops[i].at < Size
      /\ \A h, i \in 1..Len(stops) : stops[h].at = stops[i].at => h = i
      /\ \A i \in 1..(Len(stops) - 1) : \/ LabelFits(data, stops[i], stops[i + 1])
                                        \/ PointerFits(data, stops[i], stops[i + 1])
      /\ OctetAt(data, stops[Len(stops)].at) = 0
  BY <1>5 DEF NameLaid, Final, Size
<1>8. PICK here : here = stops[j]
  OBVIOUS
<1>9. /\ here \in [at : Nat, labels : Labels, jumps : 0..16]
      /\ here.at = cursor /\ here.labels = name /\ here.jumps = jumps
      /\ cursor < Size
  <2>1. here \in [at : Nat, labels : Labels, jumps : 0..16]
    BY <1>7, <1>8, Element
  <2>2. here.at = cursor /\ here.labels = name /\ here.jumps = jumps
    BY <1>6, <1>8 DEF AtLabel
  <2>3. here.at < Size
    BY <1>7, <1>8
  <2> QED
    BY <2>1, <2>2, <2>3
<1>10. PICK o \in 0..255 : o = Octet(cursor) /\ o = OctetAt(data, cursor)
  BY <1>1, <1>9, SameOctet
<1>11. IsPointer(Octet(cursor)) <=> o >= 192
  <2>1. IsPointer(o) <=> o >= 192
    BY DEF IsPointer
  <2> QED
    BY <1>10, <2>1, Zenon
<1>12. last_jump_pos # cursor
  <2>1. CASE last_jump_pos = NULL
    BY <1>1, <2>1, MessageAssumption
  <2>2. CASE \E i \in 1..(j - 1) : last_jump_pos = stops[i].at
    <3>1. PICK i \in 1..(j - 1) : last_jump_pos = stops[i].at
      BY <2>2
    <3>2. i \in 1..Len(stops) /\ i # j
      BY <1>7
    <3> QED
      BY <1>6, <1>7, <1>8, <1>9, <3>1, <3>2
  <2> QED
    BY <1>6, <2>1, <2>2 DEF AtLabel
<1>13. CASE j = Len(stops)
  <2>1. o = 0
    BY <1>7, <1>8, <1>9, <1>10, <1>13
  <2>2. NameOver
    BY <1>10, <2>1 DEF NameOver
  <2>3. /\ pc' = "answer" /\ offset' = next /\ Found(Preference \o name)
        /\ meant' = meant /\ left' = left
    BY <2>2 DEF parse_name, NameEnds, Jump, Label, Advance, Goto
  <2>4. Preference \o name = name
    <3>1. Preference = <<>>
      BY <1>4 DEF Preference
    <3>2. name \in Seq(Seq(0..255))
      BY <1>9 DEF Labels
    <3> QED
      BY <3>1, <3>2
  <2>5. results' = after.told
    BY <1>2, <1>5, <1>8, <1>9, <1>13, <2>3, <2>4 DEF Found, PastStop, Final
  <2> QED
    BY <1>1, <1>2, <2>3, <2>5, LeavesRecord
<1>14. CASE j # Len(stops)
  <2>1. j \in 1..(Len(stops) - 1) /\ j + 1 \in 1..Len(stops)
    BY <1>7, <1>14
  <2>2. PICK there : there = stops[j + 1]
    OBVIOUS
  <2>3. /\ there \in [at : Nat, labels : Labels, jumps : 0..16]
        /\ LabelFits(data, here, there) \/ PointerFits(data, here, there)
    <3>1. there \in [at : Nat, labels : Labels, jumps : 0..16]
      BY <1>7, <2>1, <2>2, Element
    <3>2. LabelFits(data, here, there) \/ PointerFits(data, here, there)
      BY <1>7, <1>8, <2>1, <2>2, Zenon
    <3> QED
      BY <3>1, <3>2
  <2>4. CASE LabelFits(data, here, there)
    <3>1. o \in 1..63 /\ there.at = cursor + 1 + o /\ there.at <= Size
      BY <1>9, <1>10, <2>4 DEF LabelFits, Size
    <3>2. ~NameOver /\ ~IsPointer(Octet(cursor))
      <4>1. /\ ~(cursor + 1 > Size) /\ ~(cursor + 1 + o > Size)
            /\ o # 0 /\ o \notin 64..191 /\ ~(o >= 192)
        BY <1>1, <1>9, <2>3, <3>1
      <4>2. ~IsPointer(Octet(cursor))
        BY <1>11, <4>1
      <4>3. /\ ~(cursor + 1 + Octet(cursor) > Size)
            /\ Octet(cursor) # 0 /\ Octet(cursor) \notin 64..191
        <5>1. o = Octet(cursor)
          BY <1>10
        <5> QED
          BY <4>1, <5>1
      <4> QED
        BY <4>1, <4>2, <4>3 DEF NameOver
    <3>3. /\ name' = Append(name, Slice(cursor + 1, cursor + 1 + Octet(cursor)))
          /\ cursor' = cursor + 1 + Octet(cursor)
          /\ UNCHANGED <<data, meant, pc, offset, left, rtype, next>>
          /\ UNCHANGED <<jumps, last_jump_pos, results>>
      BY <3>2 DEF parse_name, NameEnds, Jump, Label, walk
    <3>4. /\ cursor' = there.at /\ name' = there.labels /\ jumps' = there.jumps
      BY <1>9, <1>10, <2>4, <3>1, <3>3 DEF LabelFits, Slice, Part
    <3>5. AtLabel(stops, j + 1)'
      <4>1. last_jump_pos' = NULL \/ \E i \in 1..j : last_jump_pos' = stops[i].at
        BY <1>6, <1>7, <3>3 DEF AtLabel
      <4> QED
        BY <1>7, <2>2, <3>4, <4>1 DEF AtLabel
    <3>6. AtRecord(r, after)'
      BY <1>1, <1>2, <1>3, <1>4, <2>1, <3>3, <3>5 DEF AtRecord
    <3> QED
      BY <1>1, <1>2, <3>3, <3>6, StaysInRecord
  <2>5. CASE PointerFits(data, here, there)
    <3>1. /\ o >= 192 /\ cursor + 2 <= Size
          /\ there.at = WordAt(data, cursor) - 49152 /\ there.at < cursor
          /\ there.jumps = jumps + 1
      BY <1>9, <1>10, <2>5 DEF PointerFits, Size
    <3>2. U16(cursor) = WordAt(data, cursor)
      <4>1. cursor + 1 < Size
        BY <1>1, <3>1
      <4> QED
        BY <1>1, <4>1, SameWord
    <3>3. Target(cursor) = there.at
      BY <3>1, <3>2 DEF Target
    <3>4. ~NameOver /\ IsPointer(Octet(cursor))
      <4>1. jumps # 16
        <5>1. there.jumps \in 0..16
          BY <2>3
        <5> QED
          BY <1>1, <3>1, <5>1
      <4>2. ~(cursor + 1 > Size) /\ ~(cursor + 2 > Size) /\ ~(Target(cursor) >= cursor)
        BY <1>1, <2>3, <3>1, <3>3
      <4>3. Octet(cursor) # 0 /\ Octet(cursor) \notin 64..191 /\ ~(Octet(cursor) < 64)
        <5>1. o # 0 /\ o \notin 64..191 /\ ~(o < 64)
          BY <3>1
        <5>2. o = Octet(cursor)
          BY <1>10
        <5> QED
          BY <5>1, <5>2
      <4> QED
        BY <1>11, <1>12, <3>1, <4>1, <4>2, <4>3 DEF NameOver
    <3>5. /\ cursor' = there.at /\ last_jump_pos' = cursor /\ jumps' = there.jumps
          /\ name' = name
          /\ UNCHANGED <<data, meant, pc, offset, left, rtype, next, results>>
      BY <3>1, <3>3, <3>4 DEF parse_name, NameEnds, Jump, Label, walk
    <3>6. AtLabel(stops, j + 1)'
      <4>1. name' = there.labels
        BY <1>9, <2>5, <3>5 DEF PointerFits
      <4>2. j \in 1..((j + 1) - 1) /\ last_jump_pos' = stops[j].at
        BY <1>7, <1>8, <1>9, <3>5
      <4> QED
        BY <2>2, <3>5, <4>1, <4>2 DEF AtLabel
    <3>7. AtRecord(r, after)'
      BY <1>1, <1>2, <1>3, <1>4, <2>1, <3>5, <3>6 DEF AtRecord
    <3> QED
      BY <1>1, <1>2, <3>5, <3>7, StaysInRecord
  <2> QED
    BY <2>3, <2>4, <2>5
<1> QED
  BY <1>13, <1>14

LEMMA TextRead ==
  ASSUME DnsInv, Laid(data, meant), ReadSoFar, Text \/ TextEnds
  PROVE  ReadSoFar'
<1>1. /\ data \in Seq(Octets) /\ Size \in Nat /\ cursor \in Nat
      /\ Len(Stops) \in Nat /\ pc = "text" /\ pc \in InARecord
  BY StopFacts DEF DnsInv, TypeOK, Size, Text, TextEnds, Advance, Goto, InARecord
<1>2. PICK k, r, after :
        /\ PastStop(k, r, after) /\ AtRecord(r, after)
        /\ offset \in Nat /\ next = after.at /\ next \in Nat /\ next <= Size
        /\ rtype = WordAt(data, r.fixed) /\ rtype \in Nat
        /\ offset = r.fixed + 10
        /\ \/ Silent(rtype) /\ after.told = r.told
           \/ /\ DataLaid(data, rtype, r.data, offset, next, r.value)
              /\ after.told = Append(r.told, <<rtype, r.value>>)
  BY <1>1, DataAt
<1>3. PICK stops : stops = r.data
  OBVIOUS
<1>4. rtype = 16 /\ \E j \in 1..Len(stops) : AtString(stops, j)
  BY <1>1, <1>2, <1>3 DEF AtRecord
<1>5. /\ TextLaid(data, stops, offset, next)
      /\ after.told = Append(r.told, <<rtype, Final(stops).labels>>)
  BY <1>2, <1>3, <1>4 DEF Silent, DataLaid
<1>6. PICK j \in 1..Len(stops) : AtString(stops, j)
  BY <1>4
<1>7. /\ stops \in Seq([at : 0..next, labels : Labels])
      /\ Len(stops) \in Nat \ {0}
      /\ \A i \in 1..(Len(stops) - 1) :
           stops[i].at < next /\ StringFits(data, stops[i], stops[i + 1])
      /\ stops[Len(stops)].at = next
  BY <1>5 DEF TextLaid, Final
<1>8. stops[j].at = cursor /\ stops[j].labels = name
  BY <1>6 DEF AtString
<1>9. CASE j = Len(stops)
  <2>1. cursor = next
    BY <1>7, <1>8, <1>9
  <2>2. /\ pc' = "answer" /\ offset' = next /\ Found(name)
        /\ meant' = meant /\ left' = left
    BY <1>1, <2>1 DEF Text, TextEnds, Advance, Goto
  <2>3. results' = after.told
    BY <1>2, <1>5, <1>8, <1>9, <2>2 DEF Found, PastStop, Final
  <2> QED
    BY <1>1, <1>2, <2>2, <2>3, LeavesRecord
<1>10. CASE j # Len(stops)
  <2>1. j \in 1..(Len(stops) - 1) /\ j + 1 \in 1..Len(stops)
    BY <1>7, <1>10
  <2>2. PICK there : there = stops[j + 1]
    OBVIOUS
  <2>3. /\ there.at \in 0..next /\ cursor < next
        /\ there.at = cursor + 1 + OctetAt(data, cursor)
        /\ there.labels = Append(name, Part(data, cursor + 1, there.at))
    <3>1. there \in [at : 0..next, labels : Labels]
      BY <1>7, <2>1, <2>2, Element
    <3>2. stops[j].at < next /\ StringFits(data, stops[j], there)
      BY <1>7, <2>1, <2>2
    <3> QED
      BY <1>8, <3>1, <3>2 DEF StringFits
  <2>4. Octet(cursor) = OctetAt(data, cursor)
    BY <1>1, <1>2, <2>3, SameOctet
  <2>5. /\ cursor' = there.at /\ name' = there.labels
        /\ UNCHANGED <<data, meant, pc, offset, left, rtype, next, results>>
    <3>1. ~(cursor >= next) /\ there.at <= next
      BY <1>1, <1>2, <2>3
    <3>2. /\ cursor' = there.at
          /\ name' = Append(name, Slice(cursor + 1, there.at))
          /\ UNCHANGED <<data, meant, pc, offset, left, rtype, next, results>>
      BY <2>3, <2>4, <3>1 DEF Text, TextEnds, walk
    <3> QED
      BY <2>3, <3>2 DEF Slice, Part
  <2>6. AtString(stops, j + 1)'
    BY <2>2, <2>5 DEF AtString
  <2>7. AtRecord(r, after)'
    BY <1>1, <1>2, <1>3, <1>4, <2>1, <2>5, <2>6 DEF AtRecord
  <2> QED
    BY <1>1, <1>2, <2>5, <2>7, StaysInRecord
<1> QED
  BY <1>9, <1>10

-----------------------------------------------------------------------------
LEMMA InitAnswers == Init => AnswerInv
<1> SUFFICES ASSUME Init, meant # NULL PROVE Laid(data, meant) /\ ReadSoFar
  BY DEF AnswerInv
<1>1. PICK m \in Messages : data = m.octets /\ meant = m.layout
  BY DEF Init
<1>2. Laid(data, meant)
  BY <1>1, MessageAssumption
<1>3. ReadSoFar
  BY DEF Init, ReadSoFar, InARecord
<1> QED
  BY <1>2, <1>3

LEMMA StepAnswers == DnsInv /\ AnswerInv /\ [Next]_vars => AnswerInv'
<1> SUFFICES ASSUME DnsInv, AnswerInv, [Next]_vars, meant' # NULL
             PROVE  Laid(data, meant)' /\ ReadSoFar'
  BY DEF AnswerInv
<1>1. CASE UNCHANGED vars
  <2>1. Laid(data, meant) /\ ReadSoFar
    BY <1>1 DEF AnswerInv, vars
  <2> QED
    BY <1>1, <2>1 DEF vars, walk, decode, ReadSoFar, AtStop, PastStop, AtRecord,
                      AtLabel, AtString, Stops
<1>2. CASE Next
  <2>1. data' = data /\ meant' = meant
    BY <1>2 DEF Next, parse_response, parse_name, Header, QuestionLabel, QuestionEnds,
                NextAnswer, OwnerLabel, OwnerEnds, FixedPart, Record, Text, TextEnds,
                NameEnds, Jump, Label, GiveUp
  <2>2. Laid(data, meant) /\ ReadSoFar
    BY <2>1 DEF AnswerInv
  <2>3. Laid(data, meant)'
    BY <2>1, <2>2
  <2>4. ReadSoFar'
    BY <1>2, <2>2, QuestionRead, OwnerBegins, OwnerRead, FixedRead, RecordRead,
       NameRead, TextRead DEF Next, parse_response
  <2> QED
    BY <2>3, <2>4
<1> QED
  BY <1>1, <1>2

(* Of every message laid out as the wire format asks, with any number of   *)
(* records, names through up to sixteen pointers and texts of any number   *)
(* of strings, parse_response returns the answers its sender put into it,  *)
(* in order.                                                               *)
THEOREM AnswersAlwaysRead == Spec => []AnswersRead
<1>1. AnswerInv => AnswersRead
  BY DEF AnswerInv, ReadSoFar, AnswersRead
<1> QED
  BY <1>1, InitAnswers, StepAnswers, DnsInvariant, PTL DEF Spec

-----------------------------------------------------------------------------
(* The turns of the loops run out.                                         *)

(* One of the five parts goes down, and those before it stay.              *)
Lower ==
  \/ Phase' < Phase
  \/ Phase' = Phase /\ left' < left
  \/ Phase' = Phase /\ left' = left /\ PartsLeft' < PartsLeft
  \/ Phase' = Phase /\ left' = left /\ PartsLeft' = PartsLeft /\ jumps' > jumps
  \/ /\ Phase' = Phase /\ left' = left /\ PartsLeft' = PartsLeft /\ jumps' = jumps
     /\ Ahead' < Ahead

LEMMA Nearer ==
  ASSUME NEW end \in Nat, NEW at \in Nat, NEW o \in 0..255, at < end
  PROVE  (IF end - (at + 1 + o) > 0 THEN end - (at + 1 + o) ELSE 0)
           < (IF end - at > 0 THEN end - at ELSE 0)
  OBVIOUS

LEMMA LowerIsBefore ==
  ASSUME jumps \in 0..16, jumps' \in 0..16, Lower
  PROVE  Before(ToDo', ToDo)
<1> DEFINE s == ToDo
           t == ToDo'
<1>1. /\ s[1] = Phase /\ s[2] = left /\ s[3] = PartsLeft /\ s[4] = 16 - jumps
      /\ s[5] = Ahead
      /\ t[1] = Phase' /\ t[2] = left' /\ t[3] = PartsLeft' /\ t[4] = 16 - jumps'
      /\ t[5] = Ahead'
  BY DEF ToDo
<1> HIDE DEF s, t
<1>2. jumps' > jumps => 16 - jumps' < 16 - jumps
  <2>1. \A a, b \in 0..16 : b > a => 16 - b < 16 - a
    OBVIOUS
  <2> QED
    BY <2>1
<1>3. \/ t[1] < s[1]
      \/ t[1] = s[1] /\ t[2] < s[2]
      \/ t[1] = s[1] /\ t[2] = s[2] /\ t[3] < s[3]
      \/ t[1] = s[1] /\ t[2] = s[2] /\ t[3] = s[3] /\ t[4] < s[4]
      \/ t[1] = s[1] /\ t[2] = s[2] /\ t[3] = s[3] /\ t[4] = s[4] /\ t[5] < s[5]
  BY <1>1, <1>2 DEF Lower
<1>4. \E i \in 1..5 : t[i] < s[i] /\ \A j \in 1..(i - 1) : t[j] = s[j]
  BY <1>3
<1> QED
  BY <1>4 DEF Before, s, t

ToDoNatural == \A i \in 1..5 : ToDo[i] \in Nat

LEMMA ToDoTyped == DnsInv => ToDoNatural
<1> SUFFICES ASSUME DnsInv PROVE ToDoNatural
  OBVIOUS
<1>1. /\ left \in Nat /\ jumps \in 0..16 /\ offset \in Nat /\ cursor \in Nat
      /\ next \in Nat /\ Size \in Nat
  BY DEF DnsInv, TypeOK, Size
<1>2. Phase \in Nat /\ PartsLeft \in Nat
  BY DEF Phase, PartsLeft
<1>3. Ahead \in Nat
  BY <1>1 DEF Ahead
<1>4. 16 - jumps \in Nat
  BY <1>1
<1> QED
  BY <1>1, <1>2, <1>3, <1>4 DEF ToDo, ToDoNatural

LEMMA TurnLowers == DnsInv /\ Next => Lower
<1> SUFFICES ASSUME DnsInv, Next PROVE Lower
  OBVIOUS
<1>1. /\ data \in Seq(Octets) /\ Size \in Nat /\ left \in Nat /\ jumps \in 0..16
      /\ offset \in Nat /\ cursor \in Nat /\ next \in Nat
  BY DEF DnsInv, TypeOK, Size
<1>2. Octet(offset) \in 0..255 /\ Octet(cursor) \in 0..255
  BY <1>1, OctetRead
<1>3. \A from : GiveUp(from) /\ from # "done" => Lower
  BY DEF GiveUp, Goto, Lower, Phase
<1>4. CASE Header
  BY <1>3, <1>4 DEF Header, Goto, Lower, Phase
<1>5. CASE QuestionLabel
  <2>1. /\ pc = "question" /\ offset < Size /\ data' = data
        /\ left' = left /\ jumps' = jumps
        /\ \/ pc' = "answer"
           \/ pc' = "question" /\ offset' = offset + 1 + Octet(offset)
    BY <1>5 DEF QuestionLabel, decode
  <2>2. CASE pc' = "answer"
    BY <2>1, <2>2 DEF Lower, Phase
  <2>3. CASE pc' = "question" /\ offset' = offset + 1 + Octet(offset)
    <3>1. Phase' = Phase /\ PartsLeft' = PartsLeft
      BY <2>1, <2>3 DEF Phase, PartsLeft
    <3>2. Ahead' < Ahead
      <4>1. Ahead = IF Size - offset > 0 THEN Size - offset ELSE 0
        BY <2>1 DEF Ahead
      <4>2. Ahead' = IF Size - offset' > 0 THEN Size - offset' ELSE 0
        BY <2>1, <2>3 DEF Ahead, Size
      <4> QED
        BY <1>1, <1>2, <2>1, <2>3, <4>1, <4>2, Nearer
    <3> QED
      BY <2>1, <3>1, <3>2 DEF Lower
  <2> QED
    BY <2>1, <2>2, <2>3
<1>6. CASE QuestionEnds
  BY <1>6 DEF QuestionEnds, Goto, Lower, Phase
<1>7. CASE NextAnswer
  <2>1. CASE GiveUp("answer")
    BY <1>3, <2>1
  <2>2. CASE ~GiveUp("answer")
    <3>1. pc = "answer" /\ pc' \in {"fixed", "owner"} /\ left' = left - 1
      BY <1>7, <2>2 DEF NextAnswer, Goto
    <3> QED
      BY <1>1, <3>1 DEF Lower, Phase
  <2> QED
    BY <2>1, <2>2
<1>8. CASE OwnerLabel
  <2>1. /\ pc = "owner" /\ pc' = "owner" /\ offset < Size /\ data' = data
        /\ left' = left /\ jumps' = jumps /\ offset' = offset + 1 + Octet(offset)
    BY <1>8 DEF OwnerLabel, decode
  <2>2. Phase' = Phase /\ PartsLeft' = PartsLeft
    BY <2>1 DEF Phase, PartsLeft
  <2>3. Ahead' < Ahead
    <3>1. Ahead = IF Size - offset > 0 THEN Size - offset ELSE 0
      BY <2>1 DEF Ahead
    <3>2. Ahead' = IF Size - offset' > 0 THEN Size - offset' ELSE 0
      BY <2>1 DEF Ahead, Size
    <3> QED
      BY <1>1, <1>2, <2>1, <3>1, <3>2, Nearer
  <2> QED
    BY <2>1, <2>2, <2>3 DEF Lower
<1>9. CASE OwnerEnds
  BY <1>9 DEF OwnerEnds, Goto, Lower, Phase, PartsLeft
<1>10. CASE FixedPart
  BY <1>3, <1>10 DEF FixedPart, Goto, Lower, Phase, PartsLeft
<1>11. CASE Record
  <2>1. CASE GiveUp("record")
    BY <1>3, <2>1
  <2>2. CASE ~GiveUp("record")
    <3>1. pc = "record" /\ pc' \in {"answer", "name", "text"} /\ left' = left
      BY <1>11, <2>2 DEF Record, Advance, Goto
    <3> QED
      BY <3>1 DEF Lower, Phase, PartsLeft
  <2> QED
    BY <2>1, <2>2
<1>12. CASE Text
  <2>1. /\ pc = "text" /\ pc' = "text" /\ cursor < next /\ next' = next
        /\ left' = left /\ jumps' = jumps /\ cursor' = cursor + 1 + Octet(cursor)
    BY <1>12 DEF Text, walk
  <2>2. Phase' = Phase /\ PartsLeft' = PartsLeft
    BY <2>1 DEF Phase, PartsLeft
  <2>3. Ahead' < Ahead
    <3>1. Ahead = IF next - cursor > 0 THEN next - cursor ELSE 0
      BY <2>1 DEF Ahead
    <3>2. Ahead' = IF next - cursor' > 0 THEN next - cursor' ELSE 0
      BY <2>1 DEF Ahead
    <3> QED
      BY <1>1, <1>2, <2>1, <3>1, <3>2, Nearer
  <2> QED
    BY <2>1, <2>2, <2>3 DEF Lower
<1>13. CASE TextEnds \/ NameEnds
  <2>1. pc \in {"name", "text"} /\ pc' = "answer" /\ left' = left
    BY <1>13 DEF TextEnds, NameEnds, Advance, Goto
  <2> QED
    BY <2>1 DEF Lower, Phase, PartsLeft
<1>14. CASE Jump
  <2>1. pc = "name" /\ pc' = "name" /\ left' = left /\ jumps' = jumps + 1
    BY <1>14 DEF Jump, walk
  <2> QED
    <3>1. Phase' = Phase /\ PartsLeft' = PartsLeft
      BY <2>1 DEF Phase, PartsLeft
    <3>2. jumps' > jumps
      BY <1>1, <2>1
    <3> QED
      BY <2>1, <3>1, <3>2 DEF Lower
<1>15. CASE Label
  <2>1. /\ pc = "name" /\ pc' = "name" /\ data' = data /\ left' = left
        /\ jumps' = jumps /\ cursor' = cursor + 1 + Octet(cursor) /\ ~NameOver
    BY <1>15 DEF Label, walk
  <2>2. Phase' = Phase /\ PartsLeft' = PartsLeft
    BY <2>1 DEF Phase, PartsLeft
  <2>3. ~(cursor + 1 > Size)
    BY <2>1 DEF NameOver
  <2>4. Ahead' < Ahead
    <3>1. Ahead = IF Size - cursor > 0 THEN Size - cursor ELSE 0
      BY <2>1 DEF Ahead
    <3>2. Ahead' = IF Size - cursor' > 0 THEN Size - cursor' ELSE 0
      BY <2>1 DEF Ahead, Size
    <3>3. cursor < Size
      BY <1>1, <2>3
    <3> QED
      BY <1>1, <1>2, <2>1, <3>1, <3>2, <3>3, Nearer
  <2> QED
    BY <2>1, <2>2, <2>4 DEF Lower
<1> QED
  BY <1>4, <1>5, <1>6, <1>7, <1>8, <1>9, <1>10, <1>11, <1>12, <1>13, <1>14, <1>15
     DEF Next, parse_response, parse_name

(* Every turn of every loop of parse_response and parse_name takes the     *)
(* parser down an order in which nothing descends for ever: on no message  *)
(* does it go round for good.                                              *)
THEOREM TurnsAlwaysRunOut == Spec => TurnsRunOut
<1>1. DnsInv /\ DnsInv' /\ ToDoNatural' /\ [Next]_vars
        => [Before(ToDo', ToDo) /\ \A i \in 1..5 : ToDo'[i] \in Nat]_vars
  <2> SUFFICES ASSUME DnsInv, DnsInv', ToDoNatural', Next
               PROVE  Before(ToDo', ToDo) /\ \A i \in 1..5 : ToDo'[i] \in Nat
    OBVIOUS
  <2>1. jumps \in 0..16 /\ jumps' \in 0..16
    BY DEF DnsInv, TypeOK
  <2>2. Before(ToDo', ToDo)
    BY <2>1, TurnLowers, LowerIsBefore
  <2> QED
    BY <2>2 DEF ToDoNatural
<1> QED
  BY <1>1, DnsInvariant, ToDoTyped, PTL DEF Spec, TurnsRunOut
=============================================================================

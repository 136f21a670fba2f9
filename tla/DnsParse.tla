------------------------------ MODULE DnsParse ------------------------------
(***************************************************************************)
(* How the enumerator reads the answer of a resolver                       *)
(* (netsentinel-core/enumeration.rs): parse_response walks over the        *)
(* question and the answer records, parse_name follows a name through      *)
(* labels and compression pointers.  Each turn of a loop is one step, so   *)
(* that a read outside the message, which panics, and a loop without end   *)
(* can be seen.                                                            *)
(*                                                                         *)
(* Offsets count from 0, as in the code.  A name is the sequence of its    *)
(* labels; TTLs, and the text the octets are formatted to, are left out.   *)
(***************************************************************************)
EXTENDS DnsWire

CONSTANTS Messages,   \* what a resolver may answer: octets, and their layout
          NULL        \* in place of the layout, where nothing is meant

Octets == 0..255

ASSUME MessageAssumption ==
  /\ NULL \notin Nat
  /\ \A m \in Messages : /\ m.octets \in Seq(Octets)
                         /\ m.layout # NULL => Laid(m.octets, m.layout)

VARIABLES data,      \* the message
          meant,     \* history: the layout its sender gave it, or NULL
          pc,        \* which loop runs
          offset,    \* parse_response: where it stands
          left,      \* answer records still to read
          rtype, next,      \* of the record being read: its type, and its end
          cursor,    \* parse_name's pos, or i of the TXT loop
          jumps, last_jump_pos, name,   \* of parse_name; name: labels or strings
          results,
          reach      \* history: end of the octets the last step indexed
walk   == <<offset, left, rtype, next>>
decode == <<cursor, jumps, last_jump_pos, name>>
vars   == <<data, meant, pc, walk, decode, results, reach>>

Size     == Len(data)
Octet(i) == IF i < Size THEN data[i + 1] ELSE 0
U16(i)   == 256 * Octet(i) + Octet(i + 1)

IsPointer(octet) == octet >= 192      \* octet & 0xC0 == 0xC0

Slice(from, to) == SubSeq(data, from + 1, to)

TypeOK ==
  /\ data \in Seq(Octets)
  /\ pc \in {"header", "question", "answer", "owner", "fixed", "record", "name",
             "text", "done"}
  /\ offset \in Nat /\ left \in Nat /\ rtype \in Nat /\ next \in Nat
  /\ cursor \in Nat /\ jumps \in 0..16 /\ last_jump_pos \in Nat \cup {NULL}
  /\ reach \in Nat

Init ==
  /\ \E m \in Messages : data = m.octets /\ meant = m.layout
  /\ pc = "header" /\ offset = 0 /\ left = 0 /\ rtype = 0 /\ next = 0
  /\ cursor = 0 /\ jumps = 0 /\ last_jump_pos = NULL /\ name = <<>>
  /\ results = <<>> /\ reach = 0

-----------------------------------------------------------------------------
(* parse_response.                                                         *)
Goto(from, to) == pc = from /\ pc' = to

(* The early returns and breaks: what was read so far is the answer.       *)
GiveUp(from) == /\ Goto(from, "done")
                /\ UNCHANGED <<data, meant, walk, decode, results, reach>>

Header ==
  \/ Size < 12 /\ GiveUp("header")
  \/ /\ Size >= 12
     /\ Goto("header", "question")
     /\ left' = U16(6) /\ offset' = 12 /\ reach' = 8
     /\ UNCHANGED <<data, meant, rtype, next, decode, results>>

QuestionLabel ==
  /\ pc = "question" /\ offset < Size /\ Octet(offset) # 0
  /\ IF IsPointer(Octet(offset))
     THEN pc' = "answer" /\ offset' = offset + 2 + 5
     ELSE pc' = pc /\ offset' = offset + 1 + Octet(offset)
  /\ reach' = offset + 1
  /\ UNCHANGED <<data, meant, left, rtype, next, decode, results>>

QuestionEnds ==
  /\ Goto("question", "answer")
  /\ offset >= Size \/ Octet(offset) = 0
  /\ offset' = offset + 5
  /\ UNCHANGED <<data, meant, left, rtype, next, decode, results, reach>>

NextAnswer ==
  \/ (left = 0 \/ offset + 12 > Size) /\ GiveUp("answer")
  \/ /\ left > 0 /\ offset + 12 <= Size
     /\ left' = left - 1
     /\ IF IsPointer(Octet(offset))
        THEN Goto("answer", "fixed") /\ offset' = offset + 2
        ELSE Goto("answer", "owner") /\ offset' = offset
     /\ reach' = offset + 1
     /\ UNCHANGED <<data, meant, rtype, next, decode, results>>

(* Any octet is taken for a length here, a pointer behind labels too.      *)
OwnerLabel ==
  /\ pc = "owner" /\ offset < Size /\ Octet(offset) # 0
  /\ offset' = offset + 1 + Octet(offset)
  /\ reach' = offset + 1
  /\ UNCHANGED <<data, meant, pc, left, rtype, next, decode, results>>

(* Mutant: the null behind the owner is forgotten.                         *)
OwnerEnds_NoNull ==
  /\ Goto("owner", "fixed")
  /\ offset >= Size \/ Octet(offset) = 0
  /\ UNCHANGED <<data, meant, walk, decode, results, reach>>

OwnerEnds ==
  /\ Goto("owner", "fixed")
  /\ offset >= Size \/ Octet(offset) = 0
  /\ offset' = offset + 1
  /\ UNCHANGED <<data, meant, left, rtype, next, decode, results, reach>>

(* Mutant: the ten octets after the owner are taken to be there.           *)
FixedPart_Unchecked ==
  /\ Goto("fixed", "record")
  /\ rtype' = U16(offset)
  /\ offset' = offset + 10
  /\ next' = offset + 10 + U16(offset + 8)
  /\ reach' = offset + 10
  /\ UNCHANGED <<data, meant, left, decode, results>>

FixedPart ==
  \/ offset + 10 > Size /\ GiveUp("fixed")
  \/ /\ offset + 10 <= Size
     /\ Goto("fixed", "record")
     /\ rtype' = U16(offset)
     /\ offset' = offset + 10
     /\ next' = offset + 10 + U16(offset + 8)
     /\ reach' = offset + 10
     /\ UNCHANGED <<data, meant, left, decode, results>>

Found(value) == results' = Append(results, <<rtype, value>>)

Advance(from) == Goto(from, "answer") /\ offset' = next

(* The record's data by its type; 2, 5 and 15 hold a name.                 *)
HoldsName == rtype \in {2, 5} \/ (rtype = 15 /\ next - offset >= 3)
IsAddress == \/ rtype = 1 /\ next - offset = 4
             \/ rtype = 28 /\ next - offset = 16

Record ==
  \/ next > Size /\ GiveUp("record")
  \/ /\ next <= Size /\ reach' = next
     /\ UNCHANGED <<data, meant, left, rtype, next>>
     /\ \/ /\ IsAddress
           /\ Found(Slice(offset, next))
           /\ Advance("record")
           /\ UNCHANGED decode
        \/ /\ HoldsName \/ rtype = 16
           /\ Goto("record", IF HoldsName THEN "name" ELSE "text")
           /\ cursor' = offset /\ name' = <<>>
           /\ jumps' = 0 /\ last_jump_pos' = NULL
           /\ UNCHANGED <<offset, results>>
        \/ /\ ~IsAddress /\ ~HoldsName /\ rtype # 16
           /\ Advance("record")
           /\ UNCHANGED <<decode, results>>

-----------------------------------------------------------------------------
(* parse_name, from the record's first octet on, for an MX record too.     *)
Target(pos) == U16(pos) - 49152       \* the 14 bits below 0xC000

(* A name ends at its null, where the message ends, and at every pointer   *)
(* or label that is not to be followed: one that goes forwards, the        *)
(* seventeenth jump, a pointer met twice in a row, the extended labels.    *)
NameOver ==
  \/ cursor + 1 > Size
  \/ Octet(cursor) = 0
  \/ /\ IsPointer(Octet(cursor))
     /\ \/ cursor + 2 > Size
        \/ Target(cursor) >= cursor
        \/ jumps = 16 \/ last_jump_pos = cursor
  \/ Octet(cursor) \in 64..191
  \/ Octet(cursor) < 64 /\ cursor + 1 + Octet(cursor) > Size

Preference == IF rtype = 15 THEN <<U16(offset)>> ELSE <<>>

NameEnds ==
  /\ NameOver
  /\ Advance("name")
  /\ Found(Preference \o name)
  /\ UNCHANGED <<data, meant, left, rtype, next, decode, reach>>

(* Mutant: a jump is not counted.                                          *)
Jump_NotCounted ==
  /\ pc = "name" /\ ~NameOver /\ IsPointer(Octet(cursor))
  /\ cursor' = Target(cursor) /\ last_jump_pos' = cursor
  /\ reach' = cursor + 2
  /\ UNCHANGED <<data, meant, pc, walk, jumps, name, results>>

Jump ==
  /\ pc = "name" /\ ~NameOver /\ IsPointer(Octet(cursor))
  /\ cursor' = Target(cursor) /\ last_jump_pos' = cursor
  /\ jumps' = jumps + 1
  /\ reach' = cursor + 2
  /\ UNCHANGED <<data, meant, pc, walk, name, results>>

Label ==
  /\ pc = "name" /\ ~NameOver /\ ~IsPointer(Octet(cursor))
  /\ LET end == cursor + 1 + Octet(cursor)
     IN /\ name' = Append(name, Slice(cursor + 1, end))
        /\ cursor' = end /\ reach' = end
  /\ UNCHANGED <<data, meant, pc, walk, jumps, last_jump_pos, results>>

(* Mutant: a string that is cut short is not skipped.                      *)
Text_NotSkipped ==
  /\ pc = "text" /\ cursor < next
  /\ LET end == cursor + 1 + Octet(cursor)
     IN /\ name' = IF end <= next THEN Append(name, Slice(cursor + 1, end)) ELSE name
        /\ reach' = IF end <= next THEN end ELSE cursor + 1
        /\ cursor' = IF end <= next THEN end ELSE cursor
  /\ UNCHANGED <<data, meant, pc, walk, jumps, last_jump_pos, results>>

(* The strings of a TXT record; one that is cut short is skipped.          *)
Text ==
  /\ pc = "text" /\ cursor < next
  /\ LET end == cursor + 1 + Octet(cursor)
     IN /\ name' = IF end <= next THEN Append(name, Slice(cursor + 1, end)) ELSE name
        /\ reach' = IF end <= next THEN end ELSE cursor + 1
        /\ cursor' = end
  /\ UNCHANGED <<data, meant, pc, walk, jumps, last_jump_pos, results>>

TextEnds ==
  /\ cursor >= next
  /\ Advance("text")
  /\ Found(name)
  /\ UNCHANGED <<data, meant, left, rtype, next, decode, reach>>

-----------------------------------------------------------------------------
parse_name == NameEnds \/ Jump \/ Label

parse_response ==
  \/ Header \/ QuestionLabel \/ QuestionEnds
  \/ NextAnswer \/ OwnerLabel \/ OwnerEnds
  \/ FixedPart \/ Record \/ Text \/ TextEnds

Next == parse_response \/ parse_name

Spec == Init /\ [][Next]_vars

(* The parser is a function that runs until it returns.                    *)
FairSpec == Spec /\ WF_vars(Next)

-----------------------------------------------------------------------------
(* No message, however cut or altered, makes the parser index an octet it  *)
(* does not have (which the fuzz target of fuzz.rs:182-204 hunts as a      *)
(* panic): lengths and pointers are checked before they are followed.      *)
ReadsInside == reach <= Size

(* The parser ends on every message, pointer loops included                *)
(* (enumeration.rs:253-255 limits the jumps, fuzz.rs calls the loop a      *)
(* hang).                                                                  *)
Returns == pc = "header" ~> pc = "done"

(* How far the parser is from its return, most telling part first: which   *)
(* loop, answers left, how far into the record, jumps left, and octets     *)
(* ahead.                                                                  *)
Phase ==
  CASE pc = "header" -> 3 [] pc = "question" -> 2 [] pc = "done" -> 0 [] OTHER -> 1

PartsLeft ==
  CASE pc = "owner" -> 4 [] pc = "fixed" -> 3 [] pc = "record" -> 2
    [] pc \in {"name", "text"} -> 1 [] OTHER -> 0

Ahead ==
  LET distance == CASE pc \in {"question", "owner"} -> Size - offset
                    [] pc = "text"                  -> next - cursor
                    [] OTHER                        -> Size - cursor
  IN IF distance > 0 THEN distance ELSE 0

ToDo == <<Phase, left, PartsLeft, 16 - jumps, Ahead>>

Before(s, t) ==
  \E i \in 1..5 : s[i] < t[i] /\ \A j \in 1..(i - 1) : s[j] = t[j]

(* Every turn of every loop takes the parser down an order of five         *)
(* naturals, in which nothing descends for ever: the question, an owner    *)
(* and a text go forwards, a name goes back at most sixteen times          *)
(* (enumeration.rs:150-157, 169-171, 231-241, 262-304).                    *)
TurnsRunOut == [][Before(ToDo', ToDo) /\ \A i \in 1..5 : ToDo'[i] \in Nat]_vars

(* What the sender put into a well-formed message is what the parser finds *)
(* in it (enumeration.rs:140-250): every answer, in order, with its name   *)
(* followed through.                                                       *)
AnswersRead == pc = "done" /\ meant # NULL => results = Answers(meant)
=============================================================================

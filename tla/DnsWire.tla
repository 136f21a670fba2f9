------------------------------- MODULE DnsWire ------------------------------
(***************************************************************************)
(* What the octets of a DNS answer mean (RFC 1035, 4.1), as a relation     *)
(* between a message and a layout of it: the places at which its labels,   *)
(* records and strings begin.  DnsParse reads a message with loops that    *)
(* test as they go; here no one reads, and a layout is right or wrong.     *)
(*                                                                         *)
(* A layout goes by stops.  Each has the place it is at and what has been  *)
(* said before it, and neighbouring stops fit together: no recursion over  *)
(* the message is needed to say what all of it says.                       *)
(*                                                                         *)
(* Left out, because the reader gets it wrong or need not get it: a name   *)
(* of a question or an owner whose labels end in a pointer, a mail         *)
(* exchange, an empty record of the root (which is the only one under      *)
(* twelve octets), a name that needs more than sixteen pointers.           *)
(***************************************************************************)
EXTENDS Integers, Sequences

OctetAt(d, i)     == d[i + 1]
WordAt(d, i)      == 256 * OctetAt(d, i) + OctetAt(d, i + 1)
Part(d, from, to) == SubSeq(d, from + 1, to)

Final(stops) == stops[Len(stops)]

Labels == Seq(Seq(0..255))

-----------------------------------------------------------------------------
(* A name without pointers between from and to: the places of its labels   *)
(* and, last, of its null.                                                 *)
InFull(d, places, from, to) ==
  /\ places \in Seq(Nat) /\ places # <<>>
  /\ places[1] = from
  /\ \A k \in 1..Len(places) : places[k] < Len(d)
  /\ \A k \in 1..(Len(places) - 1) :
       /\ OctetAt(d, places[k]) \in 1..63
       /\ places[k + 1] = places[k] + 1 + OctetAt(d, places[k])
  /\ OctetAt(d, Final(places)) = 0
  /\ to = Final(places) + 1

(* A name that may be compressed.  From a label to what stands behind it;  *)
(* from a pointer back to where it points.  A name that has an end comes   *)
(* by no place twice.                                                      *)
LabelFits(d, here, there) ==
  /\ OctetAt(d, here.at) \in 1..63
  /\ there.at = here.at + 1 + OctetAt(d, here.at) /\ there.at <= Len(d)
  /\ there.labels = Append(here.labels, Part(d, here.at + 1, there.at))
  /\ there.jumps = here.jumps

PointerFits(d, here, there) ==
  /\ here.at + 2 <= Len(d)
  /\ OctetAt(d, here.at) >= 192
  /\ there.at = WordAt(d, here.at) - 49152 /\ there.at < here.at
  /\ there.labels = here.labels
  /\ there.jumps = here.jumps + 1

NameLaid(d, stops, from) ==
  /\ stops \in Seq([at : Nat, labels : Labels, jumps : 0..16]) /\ stops # <<>>
  /\ stops[1] = [at |-> from, labels |-> <<>>, jumps |-> 0]
  /\ \A k \in 1..Len(stops) : stops[k].at < Len(d)
  /\ \A j, k \in 1..Len(stops) : stops[j].at = stops[k].at => j = k
  /\ \A k \in 1..(Len(stops) - 1) : \/ LabelFits(d, stops[k], stops[k + 1])
                                    \/ PointerFits(d, stops[k], stops[k + 1])
  /\ OctetAt(d, Final(stops).at) = 0

(* The strings of a text record, which fill it.                            *)
StringFits(d, here, there) ==
  /\ there.at = here.at + 1 + OctetAt(d, here.at)
  /\ there.labels = Append(here.labels, Part(d, here.at + 1, there.at))

TextLaid(d, stops, from, to) ==
  /\ stops \in Seq([at : 0..to, labels : Labels]) /\ stops # <<>>
  /\ stops[1] = [at |-> from, labels |-> <<>>]
  /\ \A k \in 1..(Len(stops) - 1) :
       stops[k].at < to /\ StringFits(d, stops[k], stops[k + 1])
  /\ Final(stops).at = to

-----------------------------------------------------------------------------
(* What the data of a record, between from and to, say.                    *)
DataLaid(d, type, stops, from, to, value) ==
  \/ type = 1 /\ to - from = 4 /\ value = Part(d, from, to)
  \/ type = 28 /\ to - from = 16 /\ value = Part(d, from, to)
  \/ type \in {2, 5} /\ NameLaid(d, stops, from) /\ value = Final(stops).labels
  \/ type = 16 /\ TextLaid(d, stops, from, to) /\ value = Final(stops).labels

Silent(type) == type \notin {1, 2, 5, 15, 16, 28}

(* A record: its owner, in full or as a pointer, its fixed part and its    *)
(* data; and what has been told once it is read.                           *)
RecordLaid(d, r, after) ==
  LET type == WordAt(d, r.fixed)
      from == r.fixed + 10
  IN /\ r.fixed \in Nat
     /\ r.at + 12 <= Len(d)
     /\ \/ OctetAt(d, r.at) >= 192 /\ r.fixed = r.at + 2
        \/ InFull(d, r.owner, r.at, r.fixed)
     /\ from <= Len(d)
     /\ after.at = from + WordAt(d, r.fixed + 8) /\ after.at <= Len(d)
     /\ \/ Silent(type) /\ after.told = r.told
        \/ /\ DataLaid(d, type, r.data, from, after.at, r.value)
           /\ after.told = Append(r.told, <<type, r.value>>)

(* A message: its header, one question, and as many records as the header  *)
(* says.                                                                   *)
Laid(d, layout) ==
  LET stops == layout.stops
  IN /\ Len(d) >= 12
     /\ InFull(d, layout.question, 12, stops[1].at - 4)
     /\ Len(stops) = WordAt(d, 6) + 1
     /\ stops[1].told = <<>>
     /\ \A k \in 1..Len(stops) : stops[k].at \in Nat
     /\ \A k \in 1..(Len(stops) - 1) : RecordLaid(d, stops[k], stops[k + 1])

Answers(layout) == Final(layout.stops).told
=============================================================================

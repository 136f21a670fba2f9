----------------------------- MODULE MCDnsParse -----------------------------
(***************************************************************************)
(* Messages for DnsParse.tla: what a resolver sends about the name a.b,    *)
(* and the same messages cut at any length or with one octet changed.      *)
(***************************************************************************)
EXTENDS DnsParse, SequencesExt

a == 97
b == 98
m == 109

Wire(labels) == FlattenSeq([i \in DOMAIN labels |-> <<Len(labels[i])>> \o labels[i]])
Name(labels) == Wire(labels) \o <<0>>

(* The question's name starts behind the header, its second label at 14.   *)
Header12(count) == <<18, 52, 129, 128, 0, 1, 0, count, 0, 0, 0, 0>>
Question        == Name(<<<<a>>, <<b>>>>) \o <<0, 1, 0, 1>>
AtQuestion      == <<192, 12>>
AtDomain        == <<192, 14>>

Address == <<10, 0, 0, 1>>

(* What stands at from, label by label; a name in full ends in a null.      *)
Place(labels, from, k) == from + Len(Wire(SubSeq(labels, 1, k - 1)))
Places(labels, from)   == [k \in 1..(Len(labels) + 1) |-> Place(labels, from, k)]

InFullAt(labels, from) ==
  [k \in 1..(Len(labels) + 1) |-> [at     |-> Place(labels, from, k),
                                   labels |-> SubSeq(labels, 1, k - 1),
                                   jumps  |-> 0]]

(* Labels, and then the domain b of the question.                          *)
ThenDomain(labels, from) ==
  InFullAt(labels, from) \o
    << [at |-> 14, labels |-> labels, jumps |-> 1],
       [at |-> 16, labels |-> Append(labels, <<b>>), jumps |-> 1] >>

StringsAt(strings, from) ==
  [k \in 1..(Len(strings) + 1) |-> [at |-> Place(strings, from, k),
                                    labels |-> SubSeq(strings, 1, k - 1)]]

(* Owners: the question's, or another in full.                             *)
Pointing(pointer) == [octets |-> pointer, labels |-> <<>>]
Written(labels)   == [octets |-> Name(labels), labels |-> labels]

(* A record of each kind; stops are those of a name or a text that begins  *)
(* at from.                                                                *)
RR(owner, type, rdata, value) ==
  [octets |-> owner.octets \o <<0, type, 0, 1, 0, 0, 0, 60, 0, Len(rdata)>> \o rdata,
   owner |-> owner, type |-> type, value |-> value]

A(owner)               == RR(owner, 1, Address, Address)
AAAA(owner)            == RR(owner, 28, Address \o Address \o Address \o Address,
                             Address \o Address \o Address \o Address)
Full(owner, type, ls)  == RR(owner, type, Name(ls), ls)
Under(owner, type, ls) == RR(owner, type, Wire(ls) \o AtDomain, Append(ls, <<b>>))
TXT(owner, strings)    == RR(owner, 16, Wire(strings), strings)
Other(owner)           == RR(owner, 6, <<0>>, <<>>)

DataStops(rr, from) ==
  CASE rr.type = 16                -> StringsAt(rr.value, from)
    [] rr = Full(rr.owner, rr.type, rr.value) -> InFullAt(rr.value, from)
    [] OTHER                       -> ThenDomain(Front(rr.value), from)

(* The answers a sender means, and the stops of all its records.           *)
Told(rrs) == LET Says(rr) == ~Silent(rr.type)
                 said     == SelectSeq(rrs, Says)
             IN [i \in DOMAIN said |-> <<said[i].type, said[i].value>>]

Start(rrs, k) == 21 + Len(FlattenSeq([i \in 1..(k - 1) |-> rrs[i].octets]))

RecordStop(rrs, k) ==
  LET rr    == rrs[k]
      at    == Start(rrs, k)
      fixed == at + Len(rr.owner.octets)
  IN [at |-> at, told |-> Told(SubSeq(rrs, 1, k - 1)), fixed |-> fixed,
      owner |-> Places(rr.owner.labels, at), value |-> rr.value,
      data |-> IF rr.type \in {2, 5, 16} THEN DataStops(rr, fixed + 10) ELSE <<>>]

LastStop(rrs) == [at |-> Start(rrs, Len(rrs) + 1), told |-> Told(rrs)]

Layout(rrs) ==
  [question |-> Places(<<<<a>>, <<b>>>>, 12),
   stops    |-> [k \in 1..(Len(rrs) + 1) |->
                   IF k > Len(rrs) THEN LastStop(rrs) ELSE RecordStop(rrs, k)]]

Message(rrs) == Header12(Len(rrs)) \o Question
                  \o FlattenSeq([i \in DOMAIN rrs |-> rrs[i].octets])
Meant(rrs)   == [octets |-> Message(rrs), layout |-> Layout(rrs)]
Unmeant(octets) == [octets |-> octets, layout |-> NULL]

(* Owners as a pointer or in full, names in full, as a pointer, or as      *)
(* labels that end in a pointer; a record nobody reads, an empty text, an  *)
(* empty string.                                                           *)
Plain == {
  <<>>,
  <<A(Pointing(AtQuestion))>>,
  <<A(Written(<<<<a>>, <<b>>>>)), AAAA(Pointing(AtQuestion))>>,
  <<Under(Pointing(AtQuestion), 5, <<<<m>>>>), A(Pointing(AtDomain))>>,
  <<Full(Pointing(AtQuestion), 2, <<<<m>>>>), Other(Pointing(AtQuestion)),
    TXT(Pointing(AtQuestion), <<<<a>>, <<b, b>>>>)>>,
  <<Under(Pointing(AtQuestion), 2, <<>>), TXT(Pointing(AtQuestion), <<>>),
    TXT(Written(<<>>), <<<<>>, <<a>>>>)>>}

(* A mail exchange, and an owner of labels that end in a pointer.          *)
Compressed == {
  <<RR(Pointing(AtQuestion), 15, <<0, 10>> \o Wire(<<<<m>>>>) \o AtDomain, <<>>)>>,
  <<RR(Pointing(Wire(<<<<m>>>>) \o AtDomain), 1, Address, Address)>>}

Telling == {0, 1, 13, 63, 64, 192, 255}

Damaged(octets) ==
  {Unmeant(SubSeq(octets, 1, n)) : n \in 0..Len(octets)}
  \cup {Unmeant([octets EXCEPT ![i] = v]) : i \in DOMAIN octets, v \in Telling}

(* Pointers that lead back to themselves: alone, through a label, and two  *)
(* of them that take turns.                                                *)
Loops == {Unmeant(Message(<<RR(Pointing(AtQuestion), 5, rdata, <<>>)>>)) :
            rdata \in {<<192, 33>>, <<1, a, 192, 33>>, <<192, 35, 192, 33>>,
                      <<4, 1, a, 192, 33, 192, 34>>}}

MCMessages == {Meant(rrs) : rrs \in Plain} \cup Loops
                \cup UNION {Damaged(Message(rrs)) : rrs \in Plain \cup Compressed}
=============================================================================

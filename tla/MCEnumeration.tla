--------------------------- MODULE MCEnumeration ----------------------------
EXTENDS Enumeration

TypesAsked == <<"A", "MX">>

(* A host that exists, one that does not, and the first one once more, as  *)
(* a word list may hold it.                                                *)
WordList == <<"www", "nope", "www">>

TwoPaths == <<"admin", "robots.txt">>

(* The domain has an address and an alias, and no MX.                      *)
SmallZone ==
  [q \in Questions |->
     CASE q = Question(Domain, "A") -> {"A", "CNAME"}
       [] q.name = "www"            -> {"A"}
       [] OTHER                     -> {}]
=============================================================================

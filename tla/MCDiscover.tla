----------------------------- MODULE MCDiscover -----------------------------
EXTENDS Discover

MCScopes == {{}, {[kind |-> "net", bits |-> <<1>>, labels |-> <<1>>]}}

(* A host that answers, and one that has no address yet and probes.        *)
MCHeard == {[op |-> "reply", sender |-> 2], [op |-> "request", sender |-> 0]}

(* No property names a call.                                               *)
AlikeCalls == Permutations(Calls)
=============================================================================

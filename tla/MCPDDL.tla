------------------------------- MODULE MCPDDL -------------------------------
(* Two-bit addresses whose dotted text has one label per bit.              *)
EXTENDS PDDLCheck

Ip(a, b)     == [kind |-> "ip",   bits |-> <<a, b>>, labels |-> <<a, b>>]
Net(bits)    == [kind |-> "net",  bits |-> bits,     labels |-> bits]
Name(labels) == [kind |-> "name", bits |-> <<>>,     labels |-> labels]

MCTypes   == {"Capture", "Scan", "Discover"}
MCScopes  == {Net(<<1>>), Net(<<1, 0>>), Name(<<2, 3>>)}
MCTargets == {Ip(1, 0), Ip(0, 1), Net(<<1>>), Name(<<4, 2, 3>>), Name(<<3>>)}
=============================================================================

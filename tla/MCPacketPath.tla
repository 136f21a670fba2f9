---------------------------- MODULE MCPacketPath ----------------------------
(***************************************************************************)
(* Frames for PacketPath.tla: IPv4 with and without options, IPv6, ARP and *)
(* others, whole and cut at any length.                                    *)
(***************************************************************************)
EXTENDS PacketPath, SequencesExt, FiniteSets

Here  == <<192, 168, 1, 7>>
There == <<10, 0, 200, 1>>
Be(n) == <<n \div 256, n % 256>>
Zeros(n) == [k \in 1..n |-> 0]
Ethernet(type) == [k \in 1..6 |-> 2] \o [k \in 1..6 |-> 4] \o Be(type)

(* A header of n octets as its protocol has it, with data behind it.       *)
Transport(protocol, src, dst) ==
  CASE protocol = 6  -> Be(src) \o Be(dst) \o Zeros(8) \o <<80, 16>> \o Zeros(6) \o <<71>>
    [] protocol = 17 -> Be(src) \o Be(dst) \o Be(9) \o Be(0) \o <<71>>
    [] OTHER         -> <<8, 0, 0, 0>>

V4(options, protocol, src, dst) ==
  Ethernet(Ipv4) \o <<69 + Len(options) \div 4, 0>>
    \o Be(20 + Len(options) + Len(Transport(protocol, src, dst))) \o Zeros(4)
    \o <<64, protocol>> \o Zeros(2) \o Here \o There \o options
    \o Transport(protocol, src, dst)

V6(protocol, src, dst) ==
  Ethernet(Ipv6) \o <<96, 0, 0, 0, 0, 20, protocol, 64>> \o <<32, 1>> \o Zeros(14)
    \o <<254, 128>> \o Zeros(14) \o Transport(protocol, src, dst)

Ports == {<<40000, 80>>, <<8080, 50001>>, <<53, 53>>, <<443, 21>>}

Fields(protocol, src, dst) ==
  [src_ip |-> Here, dst_ip |-> There, protocol |-> protocol,
   src_port |-> IF protocol \in {6, 17} THEN src ELSE 0,
   dst_port |-> IF protocol \in {6, 17} THEN dst ELSE 0]

Plain == {[octets |-> V4(<<>>, protocol, p[1], p[2]),
           whole  |-> V4(<<>>, protocol, p[1], p[2]),
           sent   |-> Fields(protocol, p[1], p[2])] :
            protocol \in {1, 6, 17, 47}, p \in Ports}

Others == {V4(<<148, 4, 0, 0>>, 6, 40000, 80), V4(<<148, 4, 0, 0>>, 17, 53, 53),
           V4(<<>>, 253, 0, 0), V6(6, 40000, 80), V6(17, 53, 53), V6(58, 0, 0),
           Ethernet(Arp) \o Zeros(28), Ethernet(35020) \o Zeros(10)}

Cut(whole) == {[octets |-> SubSeq(whole, 1, n), whole |-> whole, sent |-> None] :
                 n \in 0..Len(whole)}

MCFrames == Plain \cup UNION {Cut(f) : f \in Others \cup {p.octets : p \in Plain}}
=============================================================================

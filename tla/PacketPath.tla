----------------------------- MODULE PacketPath -----------------------------
(***************************************************************************)
(* What becomes of one frame: the XDP program reads its headers and sends  *)
(* a PacketLog to user space (netsentinel-capture-ebpf/src/main.rs), the   *)
(* capture daemon turns that into the packet_captured signal and into a    *)
(* record of the PCAP file (netsentinel-capture/src/main.rs,               *)
(* netsentinel-core/src/pcap.rs).  Capture.tla has the order in which all  *)
(* this happens to many packets; here is what is in them.                  *)
(*                                                                         *)
(* Frames and records are sequences of octets, offsets count from 0.  An   *)
(* address is the octets it has on the wire.                               *)
(***************************************************************************)
EXTENDS Integers, Sequences

CONSTANTS Frames,     \* what may come by: octets, the whole frame they are of, and
                      \* what its sender put into it where that is plain IPv4
          ARP,        \* shown in place of a source address and of a protocol
          None

VARIABLES frame,   \* the frame
          pc,      \* where it is: on the "wire", with the "reader", or "done"
          log,     \* the PacketLog sent to user space, or None
          signal,  \* the CapturedPacket signalled, or None
          record   \* the octets written to the file, or None
passing == <<frame, pc, log, signal, record>>

Byte    == 0..255
Address == [1..4 -> Byte]

Octet(f, i)    == IF i < Len(f) THEN f[i + 1] ELSE 0
U16(f, i)      == 256 * Octet(f, i) + Octet(f, i + 1)
Octets(f, i, n) == [k \in 1..n |-> Octet(f, i + k - 1)]

-----------------------------------------------------------------------------
(* The XDP program.                                                        *)
EthLen == 14
Ipv4Len == 20
Arp  == 2054
Ipv4 == 2048
Ipv6 == 34525
NoAddress == <<0, 0, 0, 0>>

ptr_at(f, offset, size) == offset + size <= Len(f)

(* Mutant: the ports are read in the wrong order.                          *)
tcp_udp_ports_Swapped(f, l4_off, proto) ==
  IF proto \notin {6, 17} THEN [src |-> 0, dst |-> 0, clear |-> FALSE]
  ELSE IF ~ptr_at(f, l4_off, IF proto = 6 THEN 20 ELSE 8) THEN None
  ELSE [src |-> U16(f, l4_off + 2), dst |-> U16(f, l4_off), clear |-> FALSE]

InTheClear(proto, src, dst) ==
  \/ proto = 6  /\ ({src, dst} \cap {80, 8080} # {} \/ dst \in {21, 23})
  \/ proto = 17 /\ 53 \in {src, dst}

(* The ports of a TCP or UDP header, and whether the protocol behind one   *)
(* of them is known to be in the clear.  None is Err.                      *)
tcp_udp_ports(f, l4_off, proto) ==
  LET src == U16(f, l4_off)
      dst == U16(f, l4_off + 2)
  IN IF proto \notin {6, 17} THEN [src |-> 0, dst |-> 0, clear |-> FALSE]
     ELSE IF ~ptr_at(f, l4_off, IF proto = 6 THEN 20 ELSE 8) THEN None
     ELSE [src |-> src, dst |-> dst,
           clear |-> InTheClear(proto, src, dst)]

PacketLog(f, src, dst, protocol, ports, clear) ==
  [src_addr |-> src, dst_addr |-> dst, src_port |-> ports.src, dst_port |-> ports.dst,
   protocol |-> protocol, unencrypted |-> clear, length |-> Len(f)]

ArpLog(f) == PacketLog(f, NoAddress, NoAddress, 253, [src |-> 0, dst |-> 0], TRUE)

(* The first four octets of each address stand for it, and the header      *)
(* behind the fixed one is taken for the transport's.                      *)
Ipv6Log(f) ==
  LET protocol == Octet(f, EthLen + 6)
      ports    == tcp_udp_ports(f, EthLen + 40, protocol)
  IN IF ~ptr_at(f, EthLen + 24, 4) \/ ports = None THEN None
     ELSE PacketLog(f, Octets(f, EthLen + 8, 4), Octets(f, EthLen + 24, 4),
                    protocol, ports, ports.clear)

(* The header is taken to have no options.                                 *)
Ipv4Log(f) ==
  LET protocol == Octet(f, EthLen + 9)
      ports    == tcp_udp_ports(f, EthLen + Ipv4Len, protocol)
  IN IF ~ptr_at(f, EthLen, Ipv4Len) \/ ports = None THEN None
     ELSE PacketLog(f, Octets(f, EthLen + 12, 4), Octets(f, EthLen + 16, 4),
                    protocol, ports, ports.clear \/ protocol \in {1, 58})

try_netsentinel_capture_ebpf(f) ==
  LET eth_type == U16(f, 12)
  IN IF ~ptr_at(f, 0, EthLen) THEN None
     ELSE IF eth_type = Arp  THEN ArpLog(f)
     ELSE IF eth_type = Ipv6 THEN Ipv6Log(f)
     ELSE IF eth_type = Ipv4 THEN Ipv4Log(f) ELSE None

-----------------------------------------------------------------------------
(* The frames.                                                             *)

(* What the headers of Ethernet, IPv4 (without options), TCP and UDP have  *)
(* where, counted from 1 as the octets of a message are; numbers of two    *)
(* octets begin with the higher one.  Protocol 253 is nobody's.            *)
Sent == [src_ip : Address, dst_ip : Address, protocol : Byte \ {253},
         src_port : Nat, dst_port : Nat]

SentAs(f, sent) ==
  LET number(i) == 256 * f[i] + f[i + 1]
  IN /\ Len(f) >= 34 /\ number(13) = Ipv4 /\ f[24] = sent.protocol
     /\ SubSeq(f, 27, 30) = sent.src_ip /\ SubSeq(f, 31, 34) = sent.dst_ip
     /\ IF sent.protocol \in {6, 17}
        THEN /\ Len(f) >= (IF sent.protocol = 6 THEN 54 ELSE 42)
             /\ number(35) = sent.src_port /\ number(37) = sent.dst_port
        ELSE sent.src_port = 0 /\ sent.dst_port = 0

ASSUME FrameAssumption ==
  \A f \in Frames :
    /\ f.whole \in Seq(Byte) /\ f.octets \in Seq(Byte)
    /\ \E n \in 0..Len(f.whole) : f.octets = SubSeq(f.whole, 1, n)
    /\ f.sent # None => f.sent \in Sent /\ SentAs(f.octets, f.sent)

(* None is no ports, no log and no signal.                                 *)
ASSUME NoneAssumption ==
  None \notin [src : Nat, dst : Nat, clear : BOOLEAN]
         \cup [src_addr : Address, dst_addr : Address, src_port : Nat, dst_port : Nat,
               protocol : Byte, unencrypted : BOOLEAN, length : Nat]
         \cup [src_ip : Address \cup {ARP}, dst_ip : Address \cup {None},
               protocol : Byte \cup {ARP}, length : Nat, unencrypted : BOOLEAN,
               src_port : Nat, dst_port : Nat]

Arrives == /\ \E f \in Frames : frame = f
           /\ pc = "wire" /\ log = None /\ signal = None /\ record = None

(* The frame goes on to the network stack in any case.                     *)
Observe ==
  /\ pc = "wire"
  /\ log' = try_netsentinel_capture_ebpf(frame.octets)
  /\ pc' = IF log' = None THEN "done" ELSE "reader"
  /\ UNCHANGED <<frame, signal, record>>

-----------------------------------------------------------------------------
(* The daemon's reader task.                                               *)
(* ARP is logged as protocol 253.  The destination is then empty (None).   *)
Src == IF log.protocol = 253 THEN ARP ELSE log.src_addr
Dst == IF log.protocol = 253 THEN None ELSE log.dst_addr

CapturedPacket ==
  [src_ip |-> Src, dst_ip |-> Dst,
   protocol |-> IF log.protocol = 253 THEN ARP ELSE log.protocol,
   length |-> log.length, unencrypted |-> log.unencrypted,
   src_port |-> log.src_port, dst_port |-> log.dst_port]

(* What stands behind the PacketLog in the array it was copied to, which   *)
(* has just the size of one; a longer payload than that is none.           *)
Behind == <<>>
Payload == IF log.length <= Len(Behind) THEN SubSeq(Behind, 1, log.length) ELSE <<>>

(* u16::to_le_bytes.                                                       *)
ToLe(n) == <<n % 256, (n \div 256) % 256>>

(* What does not parse as an address becomes 0.0.0.0.                      *)
Parsed(ip) == IF ip \in {ARP, None} THEN NoAddress ELSE ip

(* Mutant: the addresses are written in the wrong order.                   *)
build_pseudo_ethernet_Swapped(src_ip, dst_ip, protocol, payload) ==
  [k \in 1..6 |-> 255] \o [k \in 1..6 |-> 0] \o <<8, 0>>
    \o <<69, 0>> \o ToLe(20 + Len(payload)) \o ToLe(0) \o ToLe(16384)
    \o <<64, protocol>> \o ToLe(0) \o Parsed(dst_ip) \o Parsed(src_ip) \o payload

build_pseudo_ethernet(src_ip, dst_ip, protocol, payload) ==
  [k \in 1..6 |-> 255] \o [k \in 1..6 |-> 0] \o <<8, 0>>
    \o <<69, 0>> \o ToLe(20 + Len(payload)) \o ToLe(0) \o ToLe(16384)
    \o <<64, protocol>> \o ToLe(0) \o Parsed(src_ip) \o Parsed(dst_ip) \o payload

Forward ==
  /\ pc = "reader"
  /\ pc' = "done"
  /\ signal' = CapturedPacket
  /\ record' = build_pseudo_ethernet(Src, Dst, log.protocol, Payload)
  /\ UNCHANGED <<frame, log>>

PathNext == Observe \/ Forward

PathSpec == Arrives /\ [][PathNext]_passing

-----------------------------------------------------------------------------
(* An IPv4 packet without options is always signalled, with the addresses, *)
(* protocol, ports and length its sender gave it: offsets, byte order and  *)
(* the two sides of the PacketLog agree.  A frame cut short is told of as  *)
(* the whole one would be, but for its length, or not at all: no field is  *)
(* read from beyond the end.                                               *)
SignalTellsPacket ==
  /\ pc = "done" /\ frame.sent # None =>
       /\ signal # None
       /\ \A field \in DOMAIN frame.sent : signal[field] = frame.sent[field]
       /\ signal.length = Len(frame.octets)
  /\ pc = "reader" =>
       LET whole == try_netsentinel_capture_ebpf(frame.whole)
       IN whole # None /\ log = [whole EXCEPT !.length = Len(frame.octets)]

(* The file and the signal tell of the same packet: a record's IPv4 header *)
(* has the addresses and the protocol the client is shown (none for ARP).  *)
FileAgreesWithSignal ==
  record # None =>
    /\ U16(record, 12) = Ipv4
    /\ Octets(record, EthLen + 12, 4) = Parsed(signal.src_ip)
    /\ Octets(record, EthLen + 16, 4) = Parsed(signal.dst_ip)
    /\ signal.protocol \in {ARP, Octet(record, EthLen + 9)}

(* What "real writing of PCAP" (capture main.rs:4) of "an IPv4 header of   *)
(* 20 octets" (pcap.rs:115) asks: the header of a record counts the octets *)
(* that are there, and these hold what the packet held.                    *)
FileHoldsPacket ==
  record # None /\ frame.sent # None =>
    /\ U16(record, EthLen + 2) = Len(record) - EthLen
    /\ SubSeq(record, EthLen + 21, Len(record))
         = SubSeq(frame.octets, EthLen + 21, Len(frame.octets))
=============================================================================

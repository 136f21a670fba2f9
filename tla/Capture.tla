------------------------------- MODULE Capture ------------------------------
(***************************************************************************)
(* The capture daemon (netsentinel-capture/src/main.rs) with its PCAP      *)
(* writer (netsentinel-core/src/pcap.rs): the two D-Bus methods, the       *)
(* per-CPU reader tasks, and the tasks each packet spawns, which tokio     *)
(* runs in any order.                                                      *)
(*                                                                         *)
(* Each start makes a new writer, numbered from 1.  Reader tasks outlive   *)
(* the capture and keep their writer alive, so the BufWriter is never      *)
(* dropped: what no flush has pushed out stays in memory.  A file is a     *)
(* sequence of cells, its global header and one per packet record; all     *)
(* records have one size, since the payload slice is always empty.         *)
(***************************************************************************)
EXTENDS Integers, SequencesExt, FiniteSets

CONSTANTS Packets,     \* packets the interface may see
          MaxStarts,   \* bound on calls of start_capture that make a file
          MaxClock,    \* bound on the clock, in seconds
          MaxCrashes,  \* bound on deaths of the daemon
          MaxFaults,   \* bound on due flushes that fail
          Dirs,        \* primary and fallback directories
          RingSize,    \* packets the perf buffers hold
          FlushEvery,  \* write_raw_packet flushes at each multiple (100)
          NULL

ASSUME CaptureAssumption ==
  /\ MaxStarts \in Nat /\ MaxClock \in Nat /\ MaxCrashes \in Nat /\ MaxFaults \in Nat
  /\ RingSize \in Nat /\ FlushEvery \in Nat \ {0}
  /\ NULL \notin Packets /\ NULL \notin Nat
  /\ Packets \cap {"header", "hole"} = {}

Writers == 1..MaxStarts
Paths   == Dirs \X (0..MaxClock)
Cells   == Packets \cup {"header", "hole"}

VARIABLES session,    \* CaptureService.state: the running writer, or NULL
          stopping,   \* the writer stop_capture has taken, lock still held
          made,       \* how many writers exist
          writer,     \* PcapWriter by number
          file,       \* what each path holds on disk
          ring,       \* events in the perf buffers, by writer
          writes,     \* spawned write tasks
          signals,    \* spawned packet_captured tasks
          captured,   \* history: the capture each packet belongs to
          delivered,  \* history: packets signalled on the bus
          saved,      \* history: the file a stop_capture answered for
          clock,
          crashes,
          faults      \* history: due flushes that failed
vars == <<session, stopping, made, writer, file, ring, writes, signals,
          captured, delivered, saved, clock, crashes, faults>>
disk    == <<writer, file>>
tasks   == <<ring, writes, signals>>
history == <<captured, delivered, saved>>
limits  == <<clock, crashes, faults>>

PcapWriter == [path : Paths \cup {NULL}, pos : Nat, buf : Seq(Packets),
               packet_count : Nat]

NoWriter == [path |-> NULL, pos |-> 0, buf |-> <<>>, packet_count |-> 0]

TypeOK ==
  /\ session \in Writers \cup {NULL} /\ stopping \in Writers \cup {NULL}
  /\ made \in 0..MaxStarts
  /\ writer \in [Writers -> PcapWriter]
  /\ file \in [Paths -> Seq(Cells)]
  /\ ring \in [Writers -> SUBSET Packets]
  /\ writes \subseteq Writers \X Packets
  /\ signals \subseteq Packets /\ delivered \subseteq Packets
  /\ captured \in [Packets -> Writers \cup {NULL}]
  /\ saved \in [Writers -> Seq(Cells)]
  /\ clock \in 0..MaxClock /\ crashes \in 0..MaxCrashes /\ faults \in 0..MaxFaults

Init ==
  /\ session = NULL /\ stopping = NULL /\ made = 0
  /\ writer = [w \in Writers |-> NoWriter]
  /\ file = [p \in Paths |-> <<>>]
  /\ ring = [w \in Writers |-> {}] /\ writes = {} /\ signals = {}
  /\ captured = [k \in Packets |-> NULL]
  /\ delivered = {}
  /\ saved = [w \in Writers |-> <<>>]
  /\ clock = 0 /\ crashes = 0 /\ faults = 0

-----------------------------------------------------------------------------
(* The PCAP writer.                                                        *)

(* Mutant: the writer's offset starts in front of the header.              *)
create_AtZero(w, path) ==
  /\ file' = [file EXCEPT ![path] = <<"header">>]
  /\ writer' = [writer EXCEPT ![w] =
                  [path |-> path, pos |-> 0, buf |-> <<>>, packet_count |-> 0]]

(* create truncates the path and flushes the header to it.                 *)
create(w, path) ==
  /\ file' = [file EXCEPT ![path] = <<"header">>]
  /\ writer' = [writer EXCEPT ![w] =
                  [path |-> path, pos |-> 1, buf |-> <<>>, packet_count |-> 0]]

(* The operating system's write at an offset: a gap reads as zeros.        *)
WriteAt(cells, pos, new) ==
  [i \in 1..(IF pos + Len(new) > Len(cells) THEN pos + Len(new) ELSE Len(cells)) |->
     IF i \in (pos + 1)..(pos + Len(new)) THEN new[i - pos]
     ELSE IF i <= Len(cells) THEN cells[i] ELSE "hole"]

Flushed(pw) == [pw EXCEPT !.pos = @ + Len(pw.buf), !.buf = <<>>]

Push(pw) == IF pw.buf = <<>> THEN file
            ELSE [file EXCEPT ![pw.path] = WriteAt(@, pw.pos, pw.buf)]

Buffered(pw, k) == [pw EXCEPT !.buf = Append(@, k), !.packet_count = @ + 1]

FlushDue(pw) == pw.packet_count % FlushEvery = 0

write_raw_packet(w, k) ==
  LET pw == Buffered(writer[w], k)
  IN /\ writer' = [writer EXCEPT ![w] = IF FlushDue(pw) THEN Flushed(pw) ELSE pw]
     /\ file' = IF FlushDue(pw) THEN Push(pw) ELSE file

(* Mutant: finalize returns the count and leaves the buffer for later.     *)
finalize_NoFlush(w) == UNCHANGED <<writer, file>>

(* Mutant: finalize seeks back to the header and stays there.              *)
finalize_Rewinds(w) ==
  /\ writer' = [writer EXCEPT ![w] = [Flushed(@) EXCEPT !.pos = 1]]
  /\ file' = Push(writer[w])

finalize(w) ==
  /\ writer' = [writer EXCEPT ![w] = Flushed(@)]
  /\ file' = Push(writer[w])

-----------------------------------------------------------------------------
(* start_capture.  The state's lock is held to the end, so a start waits   *)
(* for a stop in progress; with a capture running it only returns an       *)
(* error, as it does when no file can be made.                             *)

(* Mutant: a start does not look at the capture in progress.               *)
StartFile_Twice(w, path) ==
  /\ made < MaxStarts /\ w = made + 1
  /\ path[2] = clock
  /\ made' = w
  /\ create(w, path)

StartFile(w, path) ==
  /\ session = NULL /\ stopping = NULL
  /\ made < MaxStarts /\ w = made + 1
  /\ path[2] = clock
  /\ made' = w
  /\ create(w, path)

start_capture(w, path) ==
  /\ StartFile(w, path)
  /\ session' = w
  /\ UNCHANGED <<stopping, tasks, history, limits>>

(* The eBPF object does not load, or XDP does not attach: the file stays   *)
(* behind with its header.                                                 *)
StartLoadFails(w, path) ==
  /\ StartFile(w, path)
  /\ UNCHANGED <<session, stopping, tasks, history, limits>>

(* A later CPU's perf buffer does not open: the readers already spawned    *)
(* live on, with what arrived before the program was dropped.              *)
StartReaderFails(w, path) ==
  /\ StartFile(w, path)
  /\ \E early \in SUBSET {k \in Packets : captured[k] = NULL} :
       /\ Cardinality(early) <= RingSize
       /\ ring' = [ring EXCEPT ![w] = early]
       /\ captured' = [k \in Packets |-> IF k \in early THEN w ELSE captured[k]]
  /\ UNCHANGED <<session, stopping, writes, signals, delivered, saved, limits>>

-----------------------------------------------------------------------------
(* A packet on the wire while XDP is attached, that is until stop_capture  *)
(* drops the CaptureState; a full perf buffer loses it.                    *)
PacketArrives(w, k) ==
  /\ session = w \/ stopping = w
  /\ captured[k] = NULL
  /\ Cardinality(ring[w]) < RingSize
  /\ ring' = [ring EXCEPT ![w] = @ \cup {k}]
  /\ captured' = [captured EXCEPT ![k] = w]
  /\ UNCHANGED <<session, stopping, made, disk, writes, signals, delivered,
                 saved, limits>>

(* Mutant: the reader skips the write once its capture is stopped.         *)
ReadEvent_NoLateWrite(w, k) ==
  /\ k \in ring[w]
  /\ ring' = [ring EXCEPT ![w] = @ \ {k}]
  /\ writes' = IF session = w THEN writes \cup {<<w, k>>} ELSE writes
  /\ signals' = signals \cup {k}
  /\ UNCHANGED <<session, stopping, made, disk, history, limits>>

(* Mutant: the reader skips the signal once its capture is stopped.        *)
ReadEvent_NoLateSignal(w, k) ==
  /\ k \in ring[w]
  /\ ring' = [ring EXCEPT ![w] = @ \ {k}]
  /\ writes' = writes \cup {<<w, k>>}
  /\ signals' = IF session = w THEN signals \cup {k} ELSE signals
  /\ UNCHANGED <<session, stopping, made, disk, history, limits>>

(* A reader task hands one event to two tasks of its own.                  *)
ReadEvent(w, k) ==
  /\ k \in ring[w]
  /\ ring' = [ring EXCEPT ![w] = @ \ {k}]
  /\ writes' = writes \cup {<<w, k>>}
  /\ signals' = signals \cup {k}
  /\ UNCHANGED <<session, stopping, made, disk, history, limits>>

WriteTask(w, k) ==
  /\ <<w, k>> \in writes
  /\ writes' = writes \ {<<w, k>>}
  /\ write_raw_packet(w, k)
  /\ UNCHANGED <<session, stopping, made, ring, signals, history, limits>>

(* The flush that is due fails (disk full), which the task ignores: the    *)
(* record stays in the buffer for the next flush.                          *)
WriteTaskFails(w, k) ==
  /\ <<w, k>> \in writes
  /\ faults < MaxFaults
  /\ FlushDue(Buffered(writer[w], k))
  /\ faults' = faults + 1
  /\ writes' = writes \ {<<w, k>>}
  /\ writer' = [writer EXCEPT ![w] = Buffered(@, k)]
  /\ UNCHANGED <<session, stopping, made, file, ring, signals, history, clock, crashes>>

SignalTask(k) ==
  /\ k \in signals
  /\ signals' = signals \ {k}
  /\ delivered' = delivered \cup {k}
  /\ UNCHANGED <<session, stopping, made, disk, ring, writes, captured, saved, limits>>

-----------------------------------------------------------------------------
(* stop_capture takes the state, then waits for the writer's lock; write   *)
(* tasks ahead of it in that queue still run.  The CaptureState, and XDP   *)
(* with it, goes when the call returns.                                    *)

StopTake ==
  /\ session # NULL
  /\ stopping' = session
  /\ session' = NULL
  /\ UNCHANGED <<made, disk, tasks, history, limits>>

StopFinalize ==
  /\ stopping # NULL
  /\ finalize(stopping)
  /\ saved' = [saved EXCEPT ![stopping] = file'[writer[stopping].path]]
  /\ stopping' = NULL
  /\ UNCHANGED <<session, made, tasks, captured, delivered, limits>>

(* The flush fails (disk full): the error is returned, the capture is over *)
(* all the same.                                                           *)
StopFinalizeFails ==
  /\ stopping # NULL
  /\ writer[stopping].buf # <<>>
  /\ stopping' = NULL
  /\ UNCHANGED <<session, made, disk, tasks, history, limits>>

-----------------------------------------------------------------------------
(* The daemon dies: only what is on disk remains.                          *)
Crash ==
  /\ crashes < MaxCrashes
  /\ crashes' = crashes + 1
  /\ session' = NULL /\ stopping' = NULL
  /\ writer' = [w \in Writers |-> [writer[w] EXCEPT !.buf = <<>>]]
  /\ ring' = [w \in Writers |-> {}] /\ writes' = {} /\ signals' = {}
  /\ UNCHANGED <<made, file, history, clock, faults>>

Tick == /\ clock < MaxClock
        /\ clock' = clock + 1
        /\ UNCHANGED <<session, stopping, made, disk, tasks, history, crashes, faults>>

-----------------------------------------------------------------------------
Stop == StopTake \/ StopFinalize \/ StopFinalizeFails

Next ==
  \/ \E w \in Writers, path \in Paths :
       start_capture(w, path) \/ StartLoadFails(w, path) \/ StartReaderFails(w, path)
  \/ \E w \in Writers, k \in Packets :
       \/ PacketArrives(w, k) \/ ReadEvent(w, k)
       \/ WriteTask(w, k) \/ WriteTaskFails(w, k)
  \/ \E k \in Packets : SignalTask(k)
  \/ Stop
  \/ Crash
  \/ Tick

Spec == Init /\ [][Next]_vars

(* tokio polls every task that is ready; nothing obliges a caller, the     *)
(* network or the clock.                                                   *)
FairSpec ==
  /\ Spec
  /\ \A w \in Writers, k \in Packets : WF_vars(ReadEvent(w, k))
  /\ \A w \in Writers, k \in Packets : WF_vars(WriteTask(w, k) \/ WriteTaskFails(w, k))
  /\ \A k \in Packets : WF_vars(SignalTask(k))

-----------------------------------------------------------------------------
Records(path) == {i \in DOMAIN file[path] : file[path][i] \in Packets}

(* A name has a resolution of one second: the captures that were given the *)
(* file of capture w, w among them.                                        *)
Sharers(w) == {v \in 1..made : writer[v].path = writer[w].path}

(* Every file a reader may open begins with one header, and holds whole    *)
(* records with no gap, no packet twice, and none of another capture's     *)
(* (main.rs:139-246 shares one writer between tasks), unless captures of   *)
(* one second were given one name: create then truncates the file under    *)
(* the earlier writer, which goes on at its old offset.                    *)
FileWellFormed ==
  \A w \in 1..made :
    LET path == writer[w].path
    IN /\ file[path][1] = "header"
       /\ Sharers(w) = {w} =>
            /\ Records(path) = 2..Len(file[path])
            /\ \A i, j \in Records(path) : file[path][i] = file[path][j] => i = j
            /\ \A i \in Records(path) : captured[file[path][i]] = w

(* A file stop_capture has answered for never loses a record afterwards:   *)
(* late write tasks and later captures leave it as a prefix, but for a     *)
(* capture of the same second.                                             *)
SavedFileKept ==
  \A w \in 1..made :
    saved[w] # <<>> /\ Sharers(w) = {w} => IsPrefix(saved[w], file[writer[w].path])

(* When stop_capture answers, every packet the writer has counted is on    *)
(* disk: the flush comes before the answer (pcap.rs:82-85).                *)
StopFlushesAll ==
  [][\A w \in Writers :
       saved'[w] # saved[w] => Len(saved'[w]) >= 1 + writer[w].packet_count]_vars

InFile(k)   == \E i \in Records(writer[captured[k]].path) :
                 file[writer[captured[k]].path][i] = k
InMemory(k) == \/ \E w \in Writers : k \in ring[w] \/ <<w, k>> \in writes
               \/ \E w \in Writers : k \in ToSet(writer[w].buf)

(* A packet the perf buffer took is never dropped on the way: it waits in  *)
(* the ring, in a write task, in the writer's buffer, or is in the file of *)
(* its capture, if that capture had a file of its own, and                 *)
(* while flushes succeed fewer than FlushEvery wait in one buffer -- which *)
(* is what a stopped capture may leave there for good, and what the        *)
(* daemon's death may cost beyond the packets still under way.             *)
NoPacketVanishes ==
  /\ crashes = 0 =>
       \A k \in Packets : captured[k] # NULL =>
         InMemory(k) \/ InFile(k) \/ Sharers(captured[k]) # {captured[k]}
  /\ \A w \in Writers : Len(writer[w].buf) < FlushEvery * (faults + 1)

(* Every packet taken is eventually announced on the bus, whether or not   *)
(* its capture has been stopped meanwhile, unless the daemon dies.         *)
EveryPacketSignalled ==
  \A k \in Packets : captured[k] # NULL ~> (k \in delivered \/ crashes > 0)

-----------------------------------------------------------------------------
(* The daemon implements the service its callers see; a stop counts when   *)
(* it is answered.                                                         *)
Abs == INSTANCE CaptureAbs WITH
         Captures <- Writers,
         running  <- IF session # NULL THEN session ELSE stopping,
         over     <- {w \in 1..made : w # session /\ w # stopping}

Refinement == Abs!Spec
=============================================================================

---------------------------- MODULE CaptureProofs ---------------------------
(***************************************************************************)
(* What holds of the capture daemon for any packets, directories, number   *)
(* of captures, ring size, flush interval, crashes and failed flushes; and *)
(* what the signal and the record of a packet have in them, for any frame  *)
(* (PacketPath, at the end).                                               *)
(***************************************************************************)
EXTENDS Capture, PacketPath, SequenceTheorems, TLAPS

-----------------------------------------------------------------------------
(* The inductive invariant, by parts.                                      *)

(* What has not been made yet is untouched, and every file begins with its *)
(* header, which no writer's offset lies in front of.                      *)
Shape ==
  /\ session \in (1..made) \cup {NULL} /\ stopping \in (1..made) \cup {NULL}
  /\ session = NULL \/ stopping = NULL
  /\ \A w \in 1..made :
       /\ writer[w].path \in Paths /\ writer[w].pos >= 1
       /\ Len(file[writer[w].path]) >= 1 /\ file[writer[w].path][1] = "header"
  /\ \A w \in Writers \ (1..made) : ring[w] = {} /\ saved[w] = <<>>
  /\ \A e \in writes : e[1] \in 1..made
  /\ \A k \in Packets : captured[k] # NULL => captured[k] \in 1..made

Base == TypeOK /\ Shape

(* The capture in progress is the youngest, so that no create can have cut *)
(* its file, and it has neither lost nor doubled a record.                 *)
Running ==
  \A w \in Writers : session = w \/ stopping = w =>
    /\ w = made
    /\ writer[w].pos <= Len(file[writer[w].path])
    /\ writer[w].pos + Len(writer[w].buf) = 1 + writer[w].packet_count

(* What waits in a buffer arrived since the last flush that was due, or    *)
(* since the ones before it that failed.                                   *)
Waiting ==
  \A w \in Writers :
    Len(writer[w].buf) <= (writer[w].packet_count % FlushEvery) + FlushEvery * faults

(* A packet under way is in one place, and belongs to its capture.         *)
UnderWay ==
  /\ \A w \in Writers : \A k \in ring[w] : captured[k] = w /\ <<w, k>> \notin writes
  /\ \A e \in writes : captured[e[2]] = e[1]

(* What the file of a capture will hold once its buffer is flushed.        *)
Contents(w) == file[writer[w].path] \o writer[w].buf

Alone(w) == \A v \in 1..made : writer[v].path = writer[w].path => v = w

Own(w)     == {k \in Packets : captured[k] = w}
Pending(w) == {k \in Packets : k \in ring[w] \/ <<w, k>> \in writes}

(* A capture with a file of its own: its writer stands at the end of it,   *)
(* and behind the header come the packets of the capture which are no      *)
(* longer under way, each once, and all of them unless the daemon died.    *)
Whole(w, cells) ==
  /\ \A i \in 2..Len(cells) : cells[i] \in Own(w) \ Pending(w)
  /\ \A i, j \in 2..Len(cells) : cells[i] = cells[j] => i = j

Complete(w, cells) ==
  \A k \in Own(w) : k \in Pending(w) \/ \E i \in 2..Len(cells) : cells[i] = k

Tidy(w) ==
  /\ writer[w].pos = Len(file[writer[w].path])
  /\ Whole(w, Contents(w))
  /\ crashes = 0 => Complete(w, Contents(w))
  /\ IsPrefix(saved[w], file[writer[w].path])

Streams == \A w \in 1..made : Alone(w) => Tidy(w)

-----------------------------------------------------------------------------
(* A write at an offset, and what a flush does to the disk.                *)

LEMMA WriteAtEffect ==
  ASSUME NEW cells \in Seq(Cells), NEW pos \in Nat, NEW new \in Seq(Packets)
  PROVE  /\ WriteAt(cells, pos, new) \in Seq(Cells)
         /\ Len(WriteAt(cells, pos, new)) >= Len(cells)
         /\ Len(WriteAt(cells, pos, new)) >= pos + Len(new)
         /\ pos >= 1 /\ Len(cells) >= 1 => WriteAt(cells, pos, new)[1] = cells[1]
         /\ pos = Len(cells) => WriteAt(cells, pos, new) = cells \o new
<1> DEFINE written == WriteAt(cells, pos, new)
           n == IF pos + Len(new) > Len(cells) THEN pos + Len(new) ELSE Len(cells)
<1>1. Len(cells) \in Nat /\ Len(new) \in Nat /\ n \in Nat
  OBVIOUS
<1>2. written = [i \in 1..n |-> IF i \in (pos + 1)..(pos + Len(new)) THEN new[i - pos]
                                ELSE IF i <= Len(cells) THEN cells[i] ELSE "hole"]
  BY DEF WriteAt
<1>3. ASSUME NEW i \in 1..n PROVE written[i] \in Cells
  <2>1. CASE i \in (pos + 1)..(pos + Len(new))
    <3>1. i - pos \in 1..Len(new)
      BY <1>1, <2>1
    <3>2. new[i - pos] \in Packets
      BY <3>1, ElementOfSeq
    <3>3. QED
      BY <1>2, <2>1, <3>2 DEF Cells
  <2>2. CASE i \notin (pos + 1)..(pos + Len(new)) /\ i <= Len(cells)
    BY <1>1, <1>2, <2>2, ElementOfSeq
  <2>3. CASE i \notin (pos + 1)..(pos + Len(new)) /\ ~(i <= Len(cells))
    BY <1>2, <2>3 DEF Cells
  <2>4. QED
    BY <2>1, <2>2, <2>3
<1> HIDE DEF n
<1>4. written \in [1..n -> Cells]
  BY <1>2, <1>3
<1>5. written \in Seq(Cells) /\ Len(written) = n
  BY <1>1, <1>4
<1>6. ASSUME pos >= 1, Len(cells) >= 1 PROVE written[1] = cells[1]
  <2>1. 1 \in 1..n /\ 1 \notin (pos + 1)..(pos + Len(new))
    BY <1>1, <1>6 DEF n
  <2>2. QED
    BY <1>2, <1>6, <2>1
<1>7. ASSUME pos = Len(cells) PROVE written = cells \o new
  <2>1. n = Len(cells) + Len(new)
    BY <1>1, <1>7 DEF n
  <2>2. new \in Seq(Cells)
    BY DEF Cells
  <2>3. /\ cells \o new \in Seq(Cells) /\ Len(cells \o new) = n
        /\ \A i \in 1..n : (cells \o new)[i] =
                             IF i <= Len(cells) THEN cells[i] ELSE new[i - Len(cells)]
    BY <2>1, <2>2, ConcatProperties
  <2>4. ASSUME NEW i \in 1..n PROVE written[i] = (cells \o new)[i]
    <3>1. CASE i <= Len(cells)
      <4>1. i \notin (pos + 1)..(pos + Len(new))
        BY <1>1, <1>7, <3>1
      <4>2. QED
        BY <1>2, <2>3, <3>1, <4>1
    <3>2. CASE ~(i <= Len(cells))
      <4>1. i \in (pos + 1)..(pos + Len(new))
        BY <1>1, <1>7, <2>1, <3>2
      <4>2. QED
        BY <1>2, <1>7, <2>3, <3>2, <4>1
    <3>3. QED
      BY <3>1, <3>2
  <2>5. QED
    BY <1>5, <2>3, <2>4, SeqEqual
<1>8. n >= Len(cells) /\ n >= pos + Len(new)
  BY <1>1 DEF n
<1>9. QED
  BY <1>5, <1>6, <1>7, <1>8

LEMMA PushEffect ==
  ASSUME file \in [Paths -> Seq(Cells)], NEW pw \in PcapWriter, pw.path \in Paths,
         pw.pos >= 1, Len(file[pw.path]) >= 1
  PROVE  /\ Push(pw) \in [Paths -> Seq(Cells)]
         /\ \A p \in Paths \ {pw.path} : Push(pw)[p] = file[p]
         /\ Len(Push(pw)[pw.path]) >= Len(file[pw.path])
         /\ Push(pw)[pw.path][1] = file[pw.path][1]
         /\ pw.pos <= Len(file[pw.path]) =>
               Len(Push(pw)[pw.path]) >= pw.pos + Len(pw.buf)
         /\ pw.pos = Len(file[pw.path]) => Push(pw)[pw.path] = file[pw.path] \o pw.buf
<1> DEFINE cells == file[pw.path]
<1>1. pw.pos \in Nat /\ pw.buf \in Seq(Packets) /\ cells \in Seq(Cells)
  BY DEF PcapWriter
<1>2. CASE pw.buf = <<>>
  <2>1. Push(pw) = file /\ Len(pw.buf) = 0 /\ cells \o pw.buf = cells
    BY <1>1, <1>2, ConcatEmptySeq DEF Push
  <2>2. Len(cells) \in Nat
    BY <1>1
  <2>3. QED
    BY <1>1, <2>1, <2>2
<1>3. CASE pw.buf # <<>>
  <2>1. Push(pw) = [file EXCEPT ![pw.path] = WriteAt(cells, pw.pos, pw.buf)]
    BY <1>3 DEF Push
  <2>2. /\ WriteAt(cells, pw.pos, pw.buf) \in Seq(Cells)
        /\ Len(WriteAt(cells, pw.pos, pw.buf)) >= Len(cells)
        /\ Len(WriteAt(cells, pw.pos, pw.buf)) >= pw.pos + Len(pw.buf)
        /\ WriteAt(cells, pw.pos, pw.buf)[1] = cells[1]
        /\ pw.pos = Len(cells) => WriteAt(cells, pw.pos, pw.buf) = cells \o pw.buf
    BY <1>1, WriteAtEffect
  <2>3. /\ Push(pw) \in [Paths -> Seq(Cells)]
        /\ Push(pw)[pw.path] = WriteAt(cells, pw.pos, pw.buf)
        /\ \A p \in Paths \ {pw.path} : Push(pw)[p] = file[p]
    BY <2>1, <2>2
  <2>4. QED
    BY <2>2, <2>3
<1>4. QED
  BY <1>2, <1>3

LEMMA PrefixPointwise ==
  ASSUME NEW S, NEW s \in Seq(S), NEW t \in Seq(S)
  PROVE  IsPrefix(s, t) <=> Len(s) <= Len(t) /\ \A i \in 1..Len(s) : s[i] = t[i]
<1>1. Len(s) \in Nat /\ Len(t) \in Nat
  OBVIOUS
<1>2. SubSeq(s, 1, Len(s)) = s
  BY SubSeqFull
<1>3. CASE Len(s) <= Len(t)
  <2>1. \A i \in 1..Len(s) : t[i] \in S
    BY <1>1, <1>3, ElementOfSeq
  <2>2. /\ SubSeq(t, 1, Len(s)) \in Seq(S)
        /\ Len(SubSeq(t, 1, Len(s))) = IF 1 <= Len(s) THEN Len(s) - 1 + 1 ELSE 0
        /\ \A i \in 1..(Len(s) - 1 + 1) : SubSeq(t, 1, Len(s))[i] = t[1 + i - 1]
    BY <1>1, <2>1, SubSeqProperties
  <2>3. Len(SubSeq(t, 1, Len(s))) = Len(s)
    BY <1>1, <2>2
  <2>4. \A i \in 1..Len(s) : SubSeq(t, 1, Len(s))[i] = t[i]
    BY <1>1, <2>2
  <2>5. SubSeq(t, 1, Len(s)) = s <=> \A i \in 1..Len(s) : s[i] = t[i]
    BY <2>2, <2>3, <2>4, SeqEqual
  <2>6. QED
    BY <1>2, <1>3, <2>5 DEF IsPrefix
<1>4. CASE ~(Len(s) <= Len(t))
  BY <1>4 DEF IsPrefix
<1>5. QED
  BY <1>3, <1>4

LEMMA PrefixTransitive ==
  ASSUME NEW S, NEW s \in Seq(S), NEW t \in Seq(S), NEW u \in Seq(S),
         IsPrefix(s, t), IsPrefix(t, u)
  PROVE  IsPrefix(s, u)
<1>1. Len(s) \in Nat /\ Len(t) \in Nat /\ Len(u) \in Nat
  OBVIOUS
<1>2. /\ Len(s) <= Len(t) /\ \A i \in 1..Len(s) : s[i] = t[i]
      /\ Len(t) <= Len(u) /\ \A i \in 1..Len(t) : t[i] = u[i]
  BY PrefixPointwise
<1>3. Len(s) <= Len(u) /\ \A i \in 1..Len(s) : s[i] = u[i]
  BY <1>1, <1>2
<1>4. QED
  BY <1>3, PrefixPointwise

LEMMA PrefixOfConcat ==
  ASSUME NEW S, NEW s \in Seq(S), NEW t \in Seq(S)
  PROVE  IsPrefix(s, s \o t)
<1>1. Len(s) \in Nat /\ Len(t) \in Nat
  OBVIOUS
<1>2. /\ s \o t \in Seq(S) /\ Len(s \o t) = Len(s) + Len(t)
      /\ \A i \in 1..Len(s) + Len(t) :
            (s \o t)[i] = IF i <= Len(s) THEN s[i] ELSE t[i - Len(s)]
  BY ConcatProperties
<1>3. Len(s) <= Len(s \o t) /\ \A i \in 1..Len(s) : s[i] = (s \o t)[i]
  BY <1>1, <1>2
<1>4. QED
  BY <1>2, <1>3, PrefixPointwise

-----------------------------------------------------------------------------
(* What a step of one writer does to the disk and to its own fields.       *)

Touches(w) ==
  LET path == writer[w].path
  IN /\ writer' \in [Writers -> PcapWriter]
     /\ \A v \in Writers \ {w} : writer'[v] = writer[v]
     /\ writer'[w].path = path
     /\ writer'[w].pos >= writer[w].pos
     /\ file' \in [Paths -> Seq(Cells)]
     /\ \A p \in Paths \ {path} : file'[p] = file[p]
     /\ Len(file'[path]) >= Len(file[path]) /\ file'[path][1] = file[path][1]
     /\ writer[w].pos <= Len(file[path]) => writer'[w].pos <= Len(file'[path])
     /\ writer[w].pos = Len(file[path]) =>
          writer'[w].pos = Len(file'[path]) /\ IsPrefix(file[path], file'[path])

LEMMA MadeWriter ==
  ASSUME Base, NEW w \in 1..made
  PROVE  /\ w \in Writers /\ writer[w] \in PcapWriter /\ writer[w].path \in Paths
         /\ writer[w].pos \in Nat /\ writer[w].pos >= 1
         /\ writer[w].buf \in Seq(Packets) /\ writer[w].packet_count \in Nat
         /\ file[writer[w].path] \in Seq(Cells) /\ Len(file[writer[w].path]) >= 1
         /\ Contents(w) \in Seq(Cells)
         /\ Len(Contents(w)) = Len(file[writer[w].path]) + Len(writer[w].buf)
         /\ \A i \in 1..Len(Contents(w)) :
              Contents(w)[i] = IF i <= Len(file[writer[w].path])
                               THEN file[writer[w].path][i]
                               ELSE writer[w].buf[i - Len(file[writer[w].path])]
<1>1. w \in Writers
  BY CaptureAssumption DEF Base, TypeOK, Writers
<1>2. writer[w] \in PcapWriter /\ writer[w].path \in Paths
  BY <1>1 DEF Base, TypeOK, Shape
<1>3. /\ writer[w].pos \in Nat /\ writer[w].buf \in Seq(Packets)
      /\ writer[w].packet_count \in Nat
  BY <1>2 DEF PcapWriter
<1>4. file[writer[w].path] \in Seq(Cells)
  BY <1>2 DEF Base, TypeOK
<1>5. writer[w].pos >= 1 /\ Len(file[writer[w].path]) >= 1
  BY DEF Base, Shape
<1>6. writer[w].buf \in Seq(Cells)
  BY <1>3 DEF Cells
<1>7. /\ Contents(w) \in Seq(Cells)
      /\ Len(Contents(w)) = Len(file[writer[w].path]) + Len(writer[w].buf)
      /\ \A i \in 1..Len(file[writer[w].path]) + Len(writer[w].buf) :
           Contents(w)[i] = IF i <= Len(file[writer[w].path])
                            THEN file[writer[w].path][i]
                            ELSE writer[w].buf[i - Len(file[writer[w].path])]
  BY <1>4, <1>6, ConcatProperties DEF Contents
<1>8. QED
  BY <1>1, <1>2, <1>3, <1>4, <1>5, <1>7

LEMMA FlushedFields ==
  ASSUME NEW pw \in PcapWriter
  PROVE  /\ Flushed(pw) \in PcapWriter /\ Flushed(pw).path = pw.path
         /\ Flushed(pw).pos = pw.pos + Len(pw.buf) /\ Flushed(pw).buf = <<>>
         /\ Flushed(pw).packet_count = pw.packet_count
<1> DEFINE moved == [pw EXCEPT !.pos = @ + Len(pw.buf)]
<1>1. moved \in PcapWriter
  BY DEF PcapWriter
<1>2. <<>> \in Seq(Packets)
  OBVIOUS
<1>3. [moved EXCEPT !.buf = <<>>] \in PcapWriter
  <2> HIDE DEF moved
  <2>1. QED
    BY <1>1, <1>2 DEF PcapWriter
<1>4. Flushed(pw) = [moved EXCEPT !.buf = <<>>]
  BY DEF Flushed
<1>5. /\ Flushed(pw).path = pw.path /\ Flushed(pw).pos = pw.pos + Len(pw.buf)
      /\ Flushed(pw).buf = <<>> /\ Flushed(pw).packet_count = pw.packet_count
  BY DEF Flushed, PcapWriter
<1>6. QED
  BY <1>3, <1>4, <1>5

LEMMA BufferedFields ==
  ASSUME NEW pw \in PcapWriter, NEW k \in Packets
  PROVE  /\ Buffered(pw, k) \in PcapWriter /\ Buffered(pw, k).path = pw.path
         /\ Buffered(pw, k).pos = pw.pos
         /\ Buffered(pw, k).buf = Append(pw.buf, k)
         /\ Buffered(pw, k).packet_count = pw.packet_count + 1
<1> DEFINE longer == [pw EXCEPT !.buf = Append(@, k)]
<1>1. pw.buf \in Seq(Packets) /\ pw.packet_count \in Nat
  BY DEF PcapWriter
<1>2. Append(pw.buf, k) \in Seq(Packets)
  BY <1>1
<1>3. longer \in PcapWriter
  BY <1>2 DEF PcapWriter
<1>4. [longer EXCEPT !.packet_count = @ + 1] \in PcapWriter
  <2> HIDE DEF longer
  <2>1. QED
    BY <1>3 DEF PcapWriter
<1>5. Buffered(pw, k) = [longer EXCEPT !.packet_count = @ + 1]
  BY DEF Buffered
<1>6. /\ Buffered(pw, k).path = pw.path /\ Buffered(pw, k).pos = pw.pos
      /\ Buffered(pw, k).buf = Append(pw.buf, k)
      /\ Buffered(pw, k).packet_count = pw.packet_count + 1
  BY DEF Buffered, PcapWriter
<1>7. QED
  BY <1>4, <1>5, <1>6

LEMMA Flushing ==
  ASSUME Base, NEW w \in 1..made, NEW pw \in PcapWriter,
         pw.path = writer[w].path, pw.pos = writer[w].pos,
         writer' = [writer EXCEPT ![w] = Flushed(pw)], file' = Push(pw)
  PROVE  /\ Touches(w)
         /\ writer'[w] = Flushed(pw) /\ writer'[w].buf = <<>>
         /\ writer'[w].pos = writer[w].pos + Len(pw.buf)
         /\ writer'[w].packet_count = pw.packet_count
         /\ writer[w].pos = Len(file[pw.path]) => file'[pw.path] = file[pw.path] \o pw.buf
<1>1. /\ w \in Writers /\ pw.path \in Paths /\ pw.pos \in Nat /\ pw.pos >= 1
      /\ file[pw.path] \in Seq(Cells) /\ Len(file[pw.path]) >= 1
  BY MadeWriter
<1>2. pw.buf \in Seq(Packets) /\ Len(pw.buf) \in Nat
  BY DEF PcapWriter
<1>3. writer \in [Writers -> PcapWriter] /\ file \in [Paths -> Seq(Cells)]
  BY DEF Base, TypeOK
<1>4. /\ Flushed(pw) \in PcapWriter /\ Flushed(pw).path = pw.path
      /\ Flushed(pw).pos = pw.pos + Len(pw.buf) /\ Flushed(pw).buf = <<>>
      /\ Flushed(pw).packet_count = pw.packet_count
  BY FlushedFields
<1>5. /\ writer' \in [Writers -> PcapWriter] /\ writer'[w] = Flushed(pw)
      /\ \A v \in Writers \ {w} : writer'[v] = writer[v]
  BY <1>1, <1>3, <1>4
<1>6. /\ file' \in [Paths -> Seq(Cells)]
      /\ \A p \in Paths \ {pw.path} : file'[p] = file[p]
      /\ Len(file'[pw.path]) >= Len(file[pw.path])
      /\ file'[pw.path][1] = file[pw.path][1]
      /\ pw.pos <= Len(file[pw.path]) => Len(file'[pw.path]) >= pw.pos + Len(pw.buf)
      /\ pw.pos = Len(file[pw.path]) => file'[pw.path] = file[pw.path] \o pw.buf
  BY <1>1, <1>3, PushEffect
<1>7. ASSUME pw.pos = Len(file[pw.path])
      PROVE  /\ pw.pos + Len(pw.buf) = Len(file'[pw.path])
             /\ IsPrefix(file[pw.path], file'[pw.path])
  <2>1. pw.buf \in Seq(Cells)
    BY <1>2 DEF Cells
  <2>2. file'[pw.path] = file[pw.path] \o pw.buf
    BY <1>6, <1>7
  <2>3. Len(file[pw.path] \o pw.buf) = Len(file[pw.path]) + Len(pw.buf)
    BY <1>1, <2>1, ConcatProperties
  <2>4. IsPrefix(file[pw.path], file[pw.path] \o pw.buf)
    BY <1>1, <2>1, PrefixOfConcat
  <2>5. QED
    BY <1>7, <2>2, <2>3, <2>4
<1>8. Len(file[pw.path]) \in Nat
  BY <1>1
<1>9. Touches(w)
  BY <1>1, <1>2, <1>4, <1>5, <1>6, <1>7, <1>8 DEF Touches
<1>10. QED
  BY <1>4, <1>5, <1>6, <1>9

LEMMA Buffering ==
  ASSUME Base, NEW w \in 1..made, NEW k \in Packets,
         writer' = [writer EXCEPT ![w] = Buffered(@, k)], file' = file
  PROVE  /\ Touches(w)
         /\ writer'[w].buf = Append(writer[w].buf, k)
         /\ writer'[w].pos = writer[w].pos
         /\ writer'[w].packet_count = writer[w].packet_count + 1
<1>1. /\ w \in Writers /\ writer[w] \in PcapWriter /\ writer[w].path \in Paths
      /\ writer[w].pos \in Nat /\ writer[w].buf \in Seq(Packets)
      /\ writer[w].packet_count \in Nat
      /\ file[writer[w].path] \in Seq(Cells)
  BY MadeWriter
<1>2. writer \in [Writers -> PcapWriter] /\ file \in [Paths -> Seq(Cells)]
  BY DEF Base, TypeOK
<1>3. Append(writer[w].buf, k) \in Seq(Packets)
  BY <1>1
<1>4. writer' = [writer EXCEPT ![w] = Buffered(writer[w], k)]
  OBVIOUS
<1>5. /\ Buffered(writer[w], k) \in PcapWriter
      /\ Buffered(writer[w], k).path = writer[w].path
      /\ Buffered(writer[w], k).pos = writer[w].pos
      /\ Buffered(writer[w], k).buf = Append(writer[w].buf, k)
      /\ Buffered(writer[w], k).packet_count = writer[w].packet_count + 1
  BY <1>1, BufferedFields
<1>6. /\ writer' \in [Writers -> PcapWriter] /\ writer'[w] = Buffered(writer[w], k)
      /\ \A v \in Writers \ {w} : writer'[v] = writer[v]
  BY <1>1, <1>2, <1>4, <1>5
<1>7. Len(file[writer[w].path]) \in Nat
  BY <1>1
<1>8. IsPrefix(file[writer[w].path], file[writer[w].path])
  BY <1>1, <1>7, PrefixPointwise
<1>9. QED
  BY <1>1, <1>2, <1>5, <1>6, <1>7, <1>8 DEF Touches

LEMMA AppendBehind ==
  ASSUME NEW s \in Seq(Cells), NEW t \in Seq(Packets), NEW e \in Packets
  PROVE  /\ s \o Append(t, e) = Append(s \o t, e)
         /\ s \o Append(t, e) \in Seq(Cells)
<1>0. t \in Seq(Cells) /\ e \in Cells
  BY DEF Cells
<1>1. s \o t \in Seq(Cells) /\ <<e>> \in Seq(Cells) /\ Append(t, e) \in Seq(Cells)
  BY <1>0, ConcatProperties
<1>2. Append(t, e) = t \o <<e>> /\ Append(s \o t, e) = (s \o t) \o <<e>>
  BY <1>0, <1>1, AppendIsConcat
<1>3. (s \o t) \o <<e>> = s \o (t \o <<e>>)
  BY <1>0, <1>1, ConcatAssociative
<1>4. s \o Append(t, e) \in Seq(Cells)
  BY <1>1, ConcatProperties
<1>5. QED
  BY <1>2, <1>3, <1>4

LEMMA BufferingAppends ==
  ASSUME Base, NEW w \in 1..made, NEW k \in Packets,
         writer' = [writer EXCEPT ![w] = Buffered(@, k)], file' = file
  PROVE  Contents(w)' = Append(Contents(w), k)
<1>1. writer'[w].buf = Append(writer[w].buf, k) /\ writer'[w].path = writer[w].path
  BY Buffering DEF Touches
<1>2. writer[w].buf \in Seq(Packets) /\ file[writer[w].path] \in Seq(Cells)
  BY MadeWriter
<1>3. file[writer[w].path] \o Append(writer[w].buf, k)
        = Append(file[writer[w].path] \o writer[w].buf, k)
  BY <1>2, AppendBehind
<1>4. QED
  BY <1>1, <1>3 DEF Contents

LEMMA WriteEffect ==
  ASSUME Base, NEW w \in 1..made, NEW k \in Packets, write_raw_packet(w, k)
  PROVE  /\ Touches(w)
         /\ writer'[w].packet_count = writer[w].packet_count + 1
         /\ writer'[w].pos + Len(writer'[w].buf) = writer[w].pos + Len(writer[w].buf) + 1
         /\ writer'[w].buf = IF (writer[w].packet_count + 1) % FlushEvery = 0
                             THEN <<>> ELSE Append(writer[w].buf, k)
         /\ writer[w].pos = Len(file[writer[w].path]) =>
              Contents(w)' = Append(Contents(w), k)
<1> DEFINE pw == Buffered(writer[w], k)
<1>1. /\ w \in Writers /\ writer[w] \in PcapWriter /\ writer[w].path \in Paths
      /\ writer[w].pos \in Nat /\ writer[w].buf \in Seq(Packets)
      /\ writer[w].packet_count \in Nat /\ file[writer[w].path] \in Seq(Cells)
  BY MadeWriter
<1>2. /\ pw \in PcapWriter /\ pw.path = writer[w].path /\ pw.pos = writer[w].pos
      /\ pw.buf = Append(writer[w].buf, k)
      /\ pw.packet_count = writer[w].packet_count + 1
  BY <1>1, BufferedFields
<1>3. Len(writer[w].buf) \in Nat /\ Len(pw.buf) = Len(writer[w].buf) + 1
  BY <1>1, <1>2
<1> HIDE DEF pw
<1>4. CASE FlushDue(pw)
  <2>1. writer' = [writer EXCEPT ![w] = Flushed(pw)] /\ file' = Push(pw)
    BY <1>4 DEF write_raw_packet, pw
  <2>2. /\ Touches(w) /\ writer'[w].buf = <<>>
        /\ writer'[w].pos = writer[w].pos + Len(pw.buf)
        /\ writer'[w].packet_count = pw.packet_count
        /\ writer[w].pos = Len(file[pw.path]) =>
             file'[pw.path] = file[pw.path] \o pw.buf
    BY <1>2, <2>1, Flushing
  <2>3. (writer[w].packet_count + 1) % FlushEvery = 0
    BY <1>2, <1>4 DEF FlushDue
  <2>4. ASSUME writer[w].pos = Len(file[writer[w].path])
        PROVE  Contents(w)' = Append(Contents(w), k)
    <3>1. writer'[w].path = writer[w].path
      BY <2>2 DEF Touches
    <3>2. file'[writer[w].path] = file[writer[w].path] \o Append(writer[w].buf, k)
      BY <1>2, <2>2, <2>4
    <3>3. /\ file[writer[w].path] \o Append(writer[w].buf, k) = Append(Contents(w), k)
          /\ file[writer[w].path] \o Append(writer[w].buf, k) \in Seq(Cells)
      BY <1>1, AppendBehind DEF Contents
    <3>4. /\ file'[writer[w].path] = Append(Contents(w), k)
          /\ file'[writer[w].path] \in Seq(Cells)
      BY <3>2, <3>3
    <3>5. Contents(w)' = file'[writer[w].path] \o <<>>
      BY <2>2, <3>1 DEF Contents
    <3>6. QED
      BY <3>4, <3>5, ConcatEmptySeq
  <2>5. writer'[w].pos + Len(writer'[w].buf) = writer[w].pos + Len(writer[w].buf) + 1
    <3>1. Len(writer'[w].buf) = 0
      BY <2>2
    <3>2. writer'[w].pos = writer[w].pos + (Len(writer[w].buf) + 1)
      BY <1>3, <2>2
    <3>3. PICK pos \in Nat : pos = writer[w].pos
      BY <1>1
    <3>4. PICK long \in Nat : long = Len(writer[w].buf)
      BY <1>3
    <3>5. pos + (long + 1) + 0 = pos + long + 1
      BY <3>3, <3>4
    <3>6. QED
      BY ONLY <3>1, <3>2, <3>3, <3>4, <3>5
  <2>6. QED
    BY <1>2, <2>2, <2>3, <2>4, <2>5
<1>5. CASE ~FlushDue(pw)
  <2>1. writer' = [writer EXCEPT ![w] = Buffered(@, k)] /\ file' = file
    BY <1>5 DEF write_raw_packet, pw
  <2>2. /\ Touches(w) /\ writer'[w].buf = Append(writer[w].buf, k)
        /\ writer'[w].pos = writer[w].pos
        /\ writer'[w].packet_count = writer[w].packet_count + 1
    BY <2>1, Buffering
  <2>3. (writer[w].packet_count + 1) % FlushEvery # 0
    BY <1>2, <1>5 DEF FlushDue
  <2>4. writer'[w].pos + Len(writer'[w].buf) = writer[w].pos + Len(writer[w].buf) + 1
    BY <1>1, <1>2, <1>3, <2>2
  <2>5. QED
    BY <2>1, <2>2, <2>3, <2>4, BufferingAppends
<1>6. QED
  BY <1>4, <1>5

LEMMA FinalizeEffect ==
  ASSUME Base, NEW w \in 1..made, finalize(w)
  PROVE  /\ Touches(w)
         /\ writer'[w].packet_count = writer[w].packet_count
         /\ writer'[w].buf = <<>>
         /\ writer'[w].pos = writer[w].pos + Len(writer[w].buf)
         /\ writer[w].pos = Len(file[writer[w].path]) =>
              /\ file'[writer[w].path] = Contents(w)
              /\ Contents(w)' = Contents(w)
<1>1. writer[w] \in PcapWriter /\ Contents(w) \in Seq(Cells)
  BY MadeWriter
<1>2. writer' = [writer EXCEPT ![w] = Flushed(writer[w])] /\ file' = Push(writer[w])
  BY DEF finalize
<1>3. /\ Touches(w) /\ writer'[w].buf = <<>>
      /\ writer'[w].pos = writer[w].pos + Len(writer[w].buf)
      /\ writer'[w].packet_count = writer[w].packet_count
      /\ writer[w].pos = Len(file[writer[w].path]) =>
           file'[writer[w].path] = Contents(w)
  BY <1>1, <1>2, Flushing DEF Contents
<1>4. ASSUME file'[writer[w].path] = Contents(w) PROVE Contents(w)' = Contents(w)
  <2>1. Contents(w)' = file'[writer[w].path] \o <<>>
    BY <1>3 DEF Contents, Touches
  <2>2. QED
    BY <1>1, <1>4, <2>1, ConcatEmptySeq
<1>5. QED
  BY <1>3, <1>4

LEMMA CreateEffect ==
  ASSUME Base, NEW w \in Writers, NEW path \in Paths, StartFile(w, path)
  PROVE  /\ session = NULL /\ stopping = NULL
         /\ made' = w /\ made' \in 0..MaxStarts
         /\ 1..made' = (1..made) \cup {w} /\ w \notin 1..made
         /\ writer' \in [Writers -> PcapWriter]
         /\ \A v \in Writers \ {w} : writer'[v] = writer[v]
         /\ writer'[w].path = path /\ writer'[w].pos = 1
         /\ writer'[w].buf = <<>> /\ writer'[w].packet_count = 0
         /\ file' \in [Paths -> Seq(Cells)]
         /\ \A p \in Paths \ {path} : file'[p] = file[p]
         /\ file'[path] = <<"header">> /\ Len(file'[path]) = 1
         /\ file'[path][1] = "header"
<1> DEFINE pw == [path |-> path, pos |-> 1, buf |-> <<>>, packet_count |-> 0]
<1>1. /\ session = NULL /\ stopping = NULL /\ made' = w /\ w = made + 1
      /\ writer' = [writer EXCEPT ![w] = pw]
      /\ file' = [file EXCEPT ![path] = <<"header">>]
  BY DEF StartFile, create
<1>2. /\ made \in 0..MaxStarts /\ writer \in [Writers -> PcapWriter]
      /\ file \in [Paths -> Seq(Cells)]
  BY DEF Base, TypeOK
<1>3. MaxStarts \in Nat
  BY CaptureAssumption
<1>4. made' \in 0..MaxStarts /\ 1..made' = (1..made) \cup {w} /\ w \notin 1..made
  BY <1>1, <1>2, <1>3 DEF Writers
<1>5. pw \in PcapWriter
  <2>1. <<>> \in Seq(Packets)
    OBVIOUS
  <2>2. QED
    BY <2>1 DEF PcapWriter
<1>6. <<"header">> \in Seq(Cells) /\ Len(<<"header">>) = 1 /\ <<"header">>[1] = "header"
  BY DEF Cells
<1>7. /\ writer' \in [Writers -> PcapWriter]
      /\ \A v \in Writers \ {w} : writer'[v] = writer[v]
      /\ writer'[w] = pw
  <2> HIDE DEF pw
  <2>1. QED
    BY <1>1, <1>2, <1>5
<1>8. /\ file' \in [Paths -> Seq(Cells)]
      /\ \A p \in Paths \ {path} : file'[p] = file[p]
      /\ file'[path] = <<"header">>
  BY <1>1, <1>2, <1>6
<1>9. QED
  BY <1>1, <1>4, <1>6, <1>7, <1>8

-----------------------------------------------------------------------------
(* Types and shape.                                                        *)

LEMMA InitBase == Init => Base
<1> SUFFICES ASSUME Init PROVE Base
  OBVIOUS
<1> USE CaptureAssumption
<1>1. <<>> \in Seq(Packets) /\ <<>> \in Seq(Cells)
  OBVIOUS
<1>2. NoWriter \in PcapWriter
  BY <1>1 DEF NoWriter, PcapWriter
<1>3. TypeOK
  BY <1>1, <1>2 DEF Init, TypeOK
<1>4. Shape
  <2>1. 1..made = {}
    BY DEF Init
  <2>2. QED
    BY <2>1 DEF Init, Shape
<1>5. QED
  BY <1>3, <1>4 DEF Base

(* A step of writer w, whatever else it changes, keeps the part of Base    *)
(* that is about writers and files.                                        *)
LEMMA TouchesKeepsShape ==
  ASSUME Base, NEW w \in 1..made, Touches(w), made' = made
  PROVE  \A v \in 1..made' :
           /\ writer'[v].path \in Paths /\ writer'[v].pos >= 1
           /\ Len(file'[writer'[v].path]) >= 1 /\ file'[writer'[v].path][1] = "header"
<1> SUFFICES ASSUME NEW v \in 1..made
             PROVE  /\ writer'[v].path \in Paths /\ writer'[v].pos >= 1
                    /\ Len(file'[writer'[v].path]) >= 1
                    /\ file'[writer'[v].path][1] = "header"
  OBVIOUS
<1>1. /\ v \in Writers /\ writer[v].path \in Paths
      /\ writer[v].pos \in Nat /\ writer[v].pos >= 1
      /\ Len(file[writer[v].path]) >= 1
      /\ file[writer[v].path] \in Seq(Cells)
  BY MadeWriter
<1>2. w \in Writers /\ writer[w].path \in Paths /\ file[writer[v].path][1] = "header"
  BY MadeWriter DEF Base, Shape
<1>3. /\ writer' \in [Writers -> PcapWriter] /\ file' \in [Paths -> Seq(Cells)]
      /\ writer'[v].path = writer[v].path
      /\ writer'[v].pos >= writer[v].pos
  <2>1. CASE v = w
    BY <2>1 DEF Touches
  <2>2. CASE v # w
    BY <1>1, <2>2 DEF Touches
  <2>3. QED
    BY <2>1, <2>2
<1>4. /\ Len(file'[writer[v].path]) >= Len(file[writer[v].path])
      /\ file'[writer[v].path][1] = file[writer[v].path][1]
  <2>1. CASE writer[v].path = writer[w].path
    BY <2>1 DEF Touches
  <2>2. CASE writer[v].path # writer[w].path
    <3>1. file'[writer[v].path] = file[writer[v].path]
      BY <1>1, <2>2 DEF Touches
    <3>2. QED
      BY <1>1, <3>1
  <2>3. QED
    BY <2>1, <2>2
<1>5. writer'[v].pos \in Nat /\ Len(file'[writer[v].path]) \in Nat
  BY <1>1, <1>3 DEF PcapWriter
<1>6. writer'[v].path \in Paths /\ writer'[v].pos >= 1
  BY <1>1, <1>3, <1>5
<1>7. Len(file[writer[v].path]) \in Nat
  BY <1>1
<1>8. Len(file'[writer[v].path]) >= 1
  BY <1>1, <1>4, <1>5, <1>7
<1>9. QED
  BY <1>2, <1>3, <1>4, <1>6, <1>8

LEMMA CreateKeepsShape ==
  ASSUME Base, NEW w \in Writers, NEW path \in Paths, StartFile(w, path)
  PROVE  \A v \in 1..made' :
           /\ writer'[v].path \in Paths /\ writer'[v].pos >= 1
           /\ Len(file'[writer'[v].path]) >= 1 /\ file'[writer'[v].path][1] = "header"
<1> SUFFICES ASSUME NEW v \in 1..made'
             PROVE  /\ writer'[v].path \in Paths /\ writer'[v].pos >= 1
                    /\ Len(file'[writer'[v].path]) >= 1
                    /\ file'[writer'[v].path][1] = "header"
  OBVIOUS
<1>1. CASE v = w
  BY <1>1, CreateEffect
<1>2. CASE v # w
  <2>1. v \in 1..made
    BY <1>2, CreateEffect
  <2>2. /\ v \in Writers /\ writer[v].path \in Paths /\ writer[v].pos >= 1
        /\ Len(file[writer[v].path]) >= 1 /\ file[writer[v].path][1] = "header"
    BY <2>1, MadeWriter DEF Base, Shape
  <2>3. writer'[v] = writer[v]
    BY <1>2, <2>2, CreateEffect
  <2>4. \A p \in Paths : file'[p] = file[p] \/ (Len(file'[p]) = 1 /\ file'[p][1] = "header")
    BY CreateEffect
  <2>5. QED
    BY <2>2, <2>3, <2>4
<1>3. QED
  BY <1>1, <1>2

LEMMA StepBase == Base /\ [Next]_vars => Base'
<1> SUFFICES ASSUME Base, [Next]_vars PROVE TypeOK' /\ Shape'
  BY DEF Base
<1> USE CaptureAssumption
<1>1. TypeOK /\ Shape
  BY DEF Base
<1>2. made \in 0..MaxStarts /\ 1..made \subseteq Writers
  BY <1>1 DEF TypeOK, Writers
<1>3. ASSUME NEW w \in Writers, NEW path \in Paths, start_capture(w, path)
      PROVE  TypeOK' /\ Shape'
  <2>1. /\ StartFile(w, path) /\ session' = w
        /\ UNCHANGED <<stopping, ring, writes, signals, captured, delivered, saved,
                       clock, crashes, faults>>
    BY <1>3 DEF start_capture, tasks, history, limits
  <2>2. TypeOK'
    BY <1>1, <2>1, CreateEffect DEF TypeOK
  <2>3. Shape'
    BY <1>1, <2>1, CreateEffect, CreateKeepsShape DEF Shape
  <2>4. QED
    BY <2>2, <2>3
<1>4. ASSUME NEW w \in Writers, NEW path \in Paths, StartLoadFails(w, path)
      PROVE  TypeOK' /\ Shape'
  <2>1. /\ StartFile(w, path)
        /\ UNCHANGED <<session, stopping, ring, writes, signals, captured, delivered,
                       saved, clock, crashes, faults>>
    BY <1>4 DEF StartLoadFails, tasks, history, limits
  <2>2. TypeOK'
    BY <1>1, <2>1, CreateEffect DEF TypeOK
  <2>3. Shape'
    BY <1>1, <2>1, CreateEffect, CreateKeepsShape DEF Shape
  <2>4. QED
    BY <2>2, <2>3
<1>5. ASSUME NEW w \in Writers, NEW path \in Paths, StartReaderFails(w, path)
      PROVE  TypeOK' /\ Shape'
  <2>1. /\ StartFile(w, path)
        /\ UNCHANGED <<session, stopping, writes, signals, delivered,
                       saved, clock, crashes, faults>>
    BY <1>5 DEF StartReaderFails, limits
  <2>2. PICK early \in SUBSET {k \in Packets : captured[k] = NULL} :
          /\ ring' = [ring EXCEPT ![w] = early]
          /\ captured' = [k \in Packets |-> IF k \in early THEN w ELSE captured[k]]
    BY <1>5 DEF StartReaderFails
  <2>3. /\ ring' \in [Writers -> SUBSET Packets]
        /\ captured' \in [Packets -> Writers \cup {NULL}]
    BY <1>1, <2>2 DEF TypeOK
  <2>4. TypeOK'
    BY <1>1, <2>1, <2>3, CreateEffect DEF TypeOK
  <2>5. \A k \in Packets : captured'[k] # NULL => captured'[k] \in 1..made'
    BY <1>1, <2>1, <2>2, CreateEffect DEF Shape
  <2>6. \A v \in Writers \ (1..made') : ring'[v] = {} /\ saved'[v] = <<>>
    <3>1. SUFFICES ASSUME NEW v \in Writers \ (1..made')
                   PROVE  ring'[v] = {} /\ saved'[v] = <<>>
      OBVIOUS
    <3>2. v # w /\ v \in Writers \ (1..made)
      BY <2>1, CreateEffect
    <3>3. QED
      BY <1>1, <2>1, <2>2, <3>2 DEF Shape, TypeOK
  <2>7. Shape'
    BY <1>1, <2>1, <2>5, <2>6, CreateEffect, CreateKeepsShape DEF Shape
  <2>8. QED
    BY <2>4, <2>7
<1>6. ASSUME NEW w \in Writers, NEW k \in Packets, PacketArrives(w, k)
      PROVE  TypeOK' /\ Shape'
  <2>1. /\ session = w \/ stopping = w
        /\ ring' = [ring EXCEPT ![w] = @ \cup {k}]
        /\ captured' = [captured EXCEPT ![k] = w]
        /\ UNCHANGED <<session, stopping, made, writer, file, writes, signals,
                       delivered, saved, clock, crashes, faults>>
    BY <1>6 DEF PacketArrives, disk, limits
  <2>2. w \in 1..made
    <3>1. w # NULL
      BY DEF Writers
    <3>2. QED
      BY <1>1, <2>1, <3>1 DEF Shape
  <2>3. TypeOK'
    BY <1>1, <2>1 DEF TypeOK
  <2>4. /\ \A v \in Writers \ (1..made) : ring'[v] = {} /\ saved[v] = <<>>
        /\ \A j \in Packets : captured'[j] # NULL => captured'[j] \in 1..made
    BY <1>1, <2>1, <2>2 DEF Shape, TypeOK
  <2>5. Shape'
    BY <1>1, <2>1, <2>4 DEF Shape
  <2>6. QED
    BY <2>3, <2>5
<1>7. ASSUME NEW w \in Writers, NEW k \in Packets, ReadEvent(w, k)
      PROVE  TypeOK' /\ Shape'
  <2>1. /\ k \in ring[w]
        /\ ring' = [ring EXCEPT ![w] = @ \ {k}]
        /\ writes' = writes \cup {<<w, k>>}
        /\ signals' = signals \cup {k}
        /\ UNCHANGED <<session, stopping, made, writer, file, captured, delivered,
                       saved, clock, crashes, faults>>
    BY <1>7 DEF ReadEvent, disk, history, limits
  <2>2. w \in 1..made
    BY <1>1, <2>1 DEF Shape
  <2>3. TypeOK'
    BY <1>1, <2>1 DEF TypeOK
  <2>4. /\ \A v \in Writers \ (1..made) : ring'[v] = {}
        /\ \A e \in writes' : e[1] \in 1..made
    BY <1>1, <2>1, <2>2 DEF Shape, TypeOK
  <2>5. Shape'
    BY <1>1, <2>1, <2>4 DEF Shape
  <2>6. QED
    BY <2>3, <2>5
<1>8. ASSUME NEW w \in Writers, NEW k \in Packets, WriteTask(w, k)
      PROVE  TypeOK' /\ Shape'
  <2>1. /\ <<w, k>> \in writes /\ writes' = writes \ {<<w, k>>}
        /\ write_raw_packet(w, k)
        /\ UNCHANGED <<session, stopping, made, ring, signals, captured, delivered,
                       saved, clock, crashes, faults>>
    BY <1>8 DEF WriteTask, history, limits
  <2>2. w \in 1..made
    BY <1>1, <2>1 DEF Shape
  <2>3. Touches(w)
    BY <2>1, <2>2, WriteEffect
  <2>4. TypeOK'
    BY <1>1, <2>1, <2>3 DEF TypeOK, Touches
  <2>5. Shape'
    BY <1>1, <2>1, <2>2, <2>3, TouchesKeepsShape DEF Shape
  <2>6. QED
    BY <2>4, <2>5
<1>9. ASSUME NEW w \in Writers, NEW k \in Packets, WriteTaskFails(w, k)
      PROVE  TypeOK' /\ Shape'
  <2>1. /\ <<w, k>> \in writes /\ writes' = writes \ {<<w, k>>}
        /\ faults < MaxFaults /\ faults' = faults + 1
        /\ writer' = [writer EXCEPT ![w] = Buffered(@, k)] /\ file' = file
        /\ UNCHANGED <<session, stopping, made, ring, signals, captured, delivered,
                       saved, clock, crashes>>
    BY <1>9 DEF WriteTaskFails, history
  <2>2. w \in 1..made
    BY <1>1, <2>1 DEF Shape
  <2>3. Touches(w)
    BY <2>1, <2>2, Buffering
  <2>4. faults' \in 0..MaxFaults
    BY <1>1, <2>1 DEF TypeOK
  <2>5. TypeOK'
    BY <1>1, <2>1, <2>3, <2>4 DEF TypeOK, Touches
  <2>6. Shape'
    BY <1>1, <2>1, <2>2, <2>3, TouchesKeepsShape DEF Shape
  <2>7. QED
    BY <2>5, <2>6
<1>10. ASSUME NEW k \in Packets, SignalTask(k) PROVE TypeOK' /\ Shape'
  <2>1. /\ signals' = signals \ {k} /\ delivered' = delivered \cup {k}
        /\ UNCHANGED <<session, stopping, made, writer, file, ring, writes, captured,
                       saved, clock, crashes, faults>>
    BY <1>10 DEF SignalTask, disk, limits
  <2>2. TypeOK'
    BY <1>1, <2>1 DEF TypeOK
  <2>3. Shape'
    BY <1>1, <2>1 DEF Shape
  <2>4. QED
    BY <2>2, <2>3
<1>11. ASSUME StopTake PROVE TypeOK' /\ Shape'
  <2>1. /\ session # NULL /\ stopping' = session /\ session' = NULL
        /\ UNCHANGED <<made, writer, file, ring, writes, signals, captured, delivered,
                       saved, clock, crashes, faults>>
    BY <1>11 DEF StopTake, disk, tasks, history, limits
  <2>2. TypeOK'
    BY <1>1, <2>1 DEF TypeOK
  <2>3. Shape'
    BY <1>1, <2>1 DEF Shape
  <2>4. QED
    BY <2>2, <2>3
<1>12. ASSUME StopFinalize PROVE TypeOK' /\ Shape'
  <2>1. /\ stopping # NULL /\ finalize(stopping) /\ stopping' = NULL
        /\ saved' = [saved EXCEPT ![stopping] = file'[writer[stopping].path]]
        /\ UNCHANGED <<session, made, ring, writes, signals, captured, delivered,
                       clock, crashes, faults>>
    BY <1>12 DEF StopFinalize, tasks, limits
  <2>2. stopping \in 1..made
    BY <1>1, <2>1 DEF Shape
  <2>3. Touches(stopping) /\ writer[stopping].path \in Paths
    BY <2>1, <2>2, FinalizeEffect, MadeWriter
  <2>4. /\ saved' \in [Writers -> Seq(Cells)]
        /\ \A v \in Writers \ (1..made) : saved'[v] = <<>>
    BY <1>1, <2>1, <2>2, <2>3 DEF TypeOK, Shape, Touches
  <2>5. TypeOK'
    BY <1>1, <2>1, <2>3, <2>4 DEF TypeOK, Touches
  <2>6. Shape'
    BY <1>1, <2>1, <2>2, <2>3, <2>4, TouchesKeepsShape DEF Shape
  <2>7. QED
    BY <2>5, <2>6
<1>13. ASSUME StopFinalizeFails PROVE TypeOK' /\ Shape'
  <2>1. /\ stopping' = NULL
        /\ UNCHANGED <<session, made, writer, file, ring, writes, signals, captured,
                       delivered, saved, clock, crashes, faults>>
    BY <1>13 DEF StopFinalizeFails, disk, tasks, history, limits
  <2>2. TypeOK'
    BY <1>1, <2>1 DEF TypeOK
  <2>3. Shape'
    BY <1>1, <2>1 DEF Shape
  <2>4. QED
    BY <2>2, <2>3
<1>14. ASSUME Crash PROVE TypeOK' /\ Shape'
  <2>1. /\ crashes < MaxCrashes /\ crashes' = crashes + 1
        /\ session' = NULL /\ stopping' = NULL
        /\ writer' = [w \in Writers |-> [writer[w] EXCEPT !.buf = <<>>]]
        /\ ring' = [w \in Writers |-> {}] /\ writes' = {} /\ signals' = {}
        /\ UNCHANGED <<made, file, captured, delivered, saved, clock, faults>>
    BY <1>14 DEF Crash, history
  <2>2. crashes' \in 0..MaxCrashes
    BY <1>1, <2>1 DEF TypeOK
  <2>3. \A w \in Writers : /\ writer'[w] \in PcapWriter
                           /\ writer'[w].path = writer[w].path
                           /\ writer'[w].pos = writer[w].pos
    <3>1. SUFFICES ASSUME NEW pw \in PcapWriter
                   PROVE  /\ [pw EXCEPT !.buf = <<>>] \in PcapWriter
                          /\ [pw EXCEPT !.buf = <<>>].path = pw.path
                          /\ [pw EXCEPT !.buf = <<>>].pos = pw.pos
      BY <1>1, <2>1 DEF TypeOK
    <3>2. <<>> \in Seq(Packets)
      OBVIOUS
    <3>3. QED
      BY <3>2 DEF PcapWriter
  <2>4. writer' \in [Writers -> PcapWriter]
    BY <2>1, <2>3
  <2>5. TypeOK'
    BY <1>1, <2>1, <2>2, <2>4 DEF TypeOK
  <2>6. Shape'
    BY <1>1, <1>2, <2>1, <2>3 DEF Shape
  <2>7. QED
    BY <2>5, <2>6
<1>15. ASSUME Tick PROVE TypeOK' /\ Shape'
  <2>1. /\ clock < MaxClock /\ clock' = clock + 1
        /\ UNCHANGED <<session, stopping, made, writer, file, ring, writes, signals,
                       captured, delivered, saved, crashes, faults>>
    BY <1>15 DEF Tick, disk, tasks, history
  <2>2. clock' \in 0..MaxClock
    BY <1>1, <2>1 DEF TypeOK
  <2>3. TypeOK'
    BY <1>1, <2>1, <2>2 DEF TypeOK
  <2>4. Shape'
    BY <1>1, <2>1 DEF Shape
  <2>5. QED
    BY <2>3, <2>4
<1>16. ASSUME UNCHANGED vars PROVE TypeOK' /\ Shape'
  <2>1. UNCHANGED <<session, stopping, made, writer, file, ring, writes, signals,
                    captured, delivered, saved, clock, crashes, faults>>
    BY <1>16 DEF vars
  <2>2. QED
    BY <1>1, <2>1 DEF TypeOK, Shape
<1>17. QED
  BY <1>3, <1>4, <1>5, <1>6, <1>7, <1>8, <1>9, <1>10, <1>11, <1>12, <1>13, <1>14,
     <1>15, <1>16 DEF Next, Stop

(* Types: whatever is captured, stopped, lost or crashed, a writer that    *)
(* exists has a file, and only writers that exist have tasks.              *)
THEOREM TypeCorrect == Spec => []TypeOK
<1>1. Spec => []Base
  BY InitBase, StepBase, PTL DEF Spec
<1>2. Base => TypeOK
  BY DEF Base
<1>3. QED
  BY <1>1, <1>2, PTL

-----------------------------------------------------------------------------
(* The service the callers see.                                            *)

CaptureInProgress == IF session # NULL THEN session ELSE stopping
Ended == {w \in 1..made : w # session /\ w # stopping}

(* Only the starts, the answer to a stop and a crash are steps of the      *)
(* service; a stop that has only taken the session is none.                *)
LEMMA ServiceUnchanged ==
  ASSUME Base, UNCHANGED made,
         \/ UNCHANGED <<session, stopping>>
         \/ session # NULL /\ session' = NULL /\ stopping' = session
  PROVE  UNCHANGED <<CaptureInProgress, Ended>>
<1>1. session = NULL \/ stopping = NULL
  BY DEF Base, Shape
<1>2. NULL \notin 1..made
  BY CaptureAssumption DEF Base, TypeOK
<1>3. CASE UNCHANGED <<session, stopping>>
  BY <1>3 DEF CaptureInProgress, Ended
<1>4. CASE session # NULL /\ session' = NULL /\ stopping' = session
  BY <1>1, <1>2, <1>4 DEF CaptureInProgress, Ended
<1>5. QED
  BY <1>3, <1>4

LEMMA StepRefines == Base /\ [Next]_vars => [Abs!Next]_(Abs!vars)
<1> SUFFICES ASSUME Base, [Next]_vars
             PROVE  \/ Abs!Next
                    \/ UNCHANGED <<CaptureInProgress, Ended>>
  BY DEF Abs!vars, CaptureInProgress, Ended
<1>1. /\ session \in (1..made) \cup {NULL} /\ stopping \in (1..made) \cup {NULL}
      /\ session = NULL \/ stopping = NULL
  BY DEF Base, Shape
<1>2. made \in 0..MaxStarts /\ NULL \notin 1..made /\ NULL \notin Writers
  BY CaptureAssumption DEF Base, TypeOK, Writers
<1>3. ASSUME NEW w \in Writers, NEW path \in Paths, start_capture(w, path)
      PROVE  Abs!Start(w)
  <2>1. StartFile(w, path) /\ session' = w /\ stopping' = stopping
    BY <1>3 DEF start_capture
  <2>2. /\ session = NULL /\ stopping = NULL /\ w \notin 1..made
        /\ 1..made' = (1..made) \cup {w}
    BY <2>1, CreateEffect
  <2>3. CaptureInProgress = NULL /\ CaptureInProgress' = w
    BY <1>2, <2>1, <2>2 DEF CaptureInProgress
  <2>4. w \notin Ended /\ Ended' = Ended
    BY <1>2, <2>1, <2>2 DEF Ended
  <2>5. QED
    BY <2>3, <2>4 DEF Abs!Start, CaptureInProgress, Ended
<1>4. ASSUME NEW w \in Writers, NEW path \in Paths,
             StartLoadFails(w, path) \/ StartReaderFails(w, path)
      PROVE  Abs!FailedStart(w)
  <2>1. StartFile(w, path) /\ UNCHANGED <<session, stopping>>
    BY <1>4 DEF StartLoadFails, StartReaderFails
  <2>2. /\ session = NULL /\ stopping = NULL /\ w \notin 1..made
        /\ 1..made' = (1..made) \cup {w}
    BY <2>1, CreateEffect
  <2>3. CaptureInProgress = NULL /\ CaptureInProgress' = NULL
    BY <2>1, <2>2 DEF CaptureInProgress
  <2>4. w \notin Ended /\ Ended' = Ended \cup {w}
    BY <1>2, <2>1, <2>2 DEF Ended
  <2>5. QED
    BY <2>3, <2>4 DEF Abs!FailedStart, CaptureInProgress, Ended
<1>5. ASSUME CaptureInProgress # NULL, session' = NULL, stopping' = NULL, UNCHANGED made
      PROVE  Abs!End
  <2>1. CaptureInProgress' = NULL /\ Ended' = Ended \cup {CaptureInProgress}
    BY <1>1, <1>2, <1>5 DEF CaptureInProgress, Ended
  <2>2. QED
    BY <1>5, <2>1 DEF Abs!End, CaptureInProgress, Ended
<1>6. ASSUME StopFinalize \/ StopFinalizeFails PROVE Abs!End
  <2>1. /\ stopping # NULL /\ stopping' = NULL
        /\ UNCHANGED <<session, made>>
    BY <1>6 DEF StopFinalize, StopFinalizeFails
  <2>2. session = NULL
    BY <1>1, <2>1
  <2>3. CaptureInProgress # NULL
    BY <2>1, <2>2 DEF CaptureInProgress
  <2>4. QED
    BY <1>5, <2>1, <2>2, <2>3
<1>7. ASSUME Crash PROVE Abs!End \/ UNCHANGED <<CaptureInProgress, Ended>>
  <2>1. session' = NULL /\ stopping' = NULL /\ UNCHANGED made
    BY <1>7 DEF Crash
  <2>2. CASE CaptureInProgress # NULL
    BY <1>5, <2>1, <2>2
  <2>3. CASE CaptureInProgress = NULL
    <3>1. session = NULL /\ stopping = NULL
      BY <2>3 DEF CaptureInProgress
    <3>2. QED
      BY <2>1, <3>1, ServiceUnchanged
  <2>4. QED
    BY <2>2, <2>3
<1>8. ASSUME \/ \E w \in Writers, k \in Packets :
                  \/ PacketArrives(w, k) \/ ReadEvent(w, k)
                  \/ WriteTask(w, k) \/ WriteTaskFails(w, k)
             \/ \E k \in Packets : SignalTask(k)
             \/ StopTake \/ Tick \/ UNCHANGED vars
      PROVE  UNCHANGED <<CaptureInProgress, Ended>>
  <2>1. \/ UNCHANGED <<session, stopping, made>>
        \/ session # NULL /\ session' = NULL /\ stopping' = session /\ UNCHANGED made
    <3>1. ASSUME NEW w \in Writers, NEW k \in Packets,
                 \/ PacketArrives(w, k) \/ ReadEvent(w, k)
                 \/ WriteTask(w, k) \/ WriteTaskFails(w, k)
          PROVE  UNCHANGED <<session, stopping, made>>
      BY <3>1 DEF PacketArrives, ReadEvent, WriteTask, WriteTaskFails
    <3>2. ASSUME NEW k \in Packets, SignalTask(k)
          PROVE  UNCHANGED <<session, stopping, made>>
      BY <3>2 DEF SignalTask
    <3>3. Tick \/ UNCHANGED vars => UNCHANGED <<session, stopping, made>>
      BY DEF Tick, vars
    <3>4. StopTake => /\ session # NULL /\ session' = NULL
                      /\ stopping' = session /\ UNCHANGED made
      BY DEF StopTake
    <3>5. QED
      BY <1>8, <3>1, <3>2, <3>3, <3>4
  <2>2. QED
    BY <2>1, ServiceUnchanged
<1>9. CASE \E w \in Writers, path \in Paths :
             start_capture(w, path) \/ StartLoadFails(w, path) \/ StartReaderFails(w, path)
  BY <1>3, <1>4, <1>9 DEF Abs!Next
<1>10. QED
  BY <1>6, <1>7, <1>8, <1>9 DEF Next, Stop, Abs!Next

(* The daemon is the service its callers know: a start is accepted only    *)
(* when no capture runs or is being stopped, and every capture ends once,  *)
(* by the answer to a stop or by the daemon's death (main.rs:56-271).     *)
THEOREM ServiceRefined == Spec => Refinement
<1>1. Init => Abs!Init
  <2> SUFFICES ASSUME Init PROVE Abs!Init
    OBVIOUS
  <2>1. 1..made = {}
    BY DEF Init
  <2>2. QED
    BY <2>1 DEF Init, Abs!Init
<1>2. Spec => []Base
  BY InitBase, StepBase, PTL DEF Spec
<1>3. QED
  BY <1>1, <1>2, StepRefines, PTL DEF Spec, Refinement, Abs!Spec

-----------------------------------------------------------------------------
(* What waits in a buffer.                                                 *)

LEMMA DivisionWithRest ==
  ASSUME NEW c \in Nat, NEW f \in Nat \ {0}
  PROVE  c = f * (c \div f) + (c % f) /\ c \div f \in Nat /\ c % f \in 0..(f - 1)
  OBVIOUS

LEMMA OnlyZeroMultipleIsSmall ==
  ASSUME NEW f \in Nat \ {0}, NEW d \in Int, f * d < f, f * d > -f
  PROVE  d = 0
  OBVIOUS

LEMMA Distribute ==
  ASSUME NEW f \in Nat, NEW a \in Int, NEW b \in Int
  PROVE  f * (a - b) = f * a - f * b /\ f * (a + b) = f * a + f * b
  OBVIOUS

(* Between two multiples of f, the rest counts up.                         *)
LEMMA RestCountsUp ==
  ASSUME NEW c \in Nat, NEW f \in Nat \ {0}, (c + 1) % f # 0
  PROVE  (c + 1) % f = (c % f) + 1
<1>1. c = f * (c \div f) + (c % f) /\ c \div f \in Nat /\ c % f \in 0..(f - 1)
  BY DivisionWithRest
<1>2. /\ c + 1 = f * ((c + 1) \div f) + ((c + 1) % f)
      /\ (c + 1) \div f \in Nat /\ (c + 1) % f \in 0..(f - 1)
  <2>1. c + 1 \in Nat
    OBVIOUS
  <2>2. QED
    BY <2>1, DivisionWithRest
<1>3. PICK q \in Nat, p \in Nat, r \in 0..(f - 1), s \in 0..(f - 1) :
        c = f * q + r /\ c + 1 = f * p + s /\ r = c % f /\ s = (c + 1) % f
  BY <1>1, <1>2
<1>4. f * p - f * q = r + 1 - s /\ f * p \in Int /\ f * q \in Int
  BY <1>3
<1>5. s # 0
  BY <1>3
<1>6. r + 1 - s < f /\ r + 1 - s > -f
  BY <1>3, <1>5
<1>7. f * (p - q) = r + 1 - s
  BY <1>3, <1>4, Distribute
<1>8. p = q
  <2>1. f * (p - q) < f /\ f * (p - q) > -f /\ p - q \in Int
    BY <1>6, <1>7
  <2>2. p - q = 0
    BY <2>1, OnlyZeroMultipleIsSmall
  <2>3. QED
    BY <2>2
<1>9. f * p = f * q
  BY <1>8
<1>10. s = r + 1
  BY <1>4, <1>9
<1>11. QED
  BY <1>3, <1>10

LEMMA FlushArithmetic ==
  ASSUME NEW c \in Nat, NEW n \in Nat
  PROVE  /\ FlushEvery \in Nat \ {0} /\ FlushEvery * n \in Nat
         /\ c % FlushEvery \in 0..(FlushEvery - 1)
         /\ FlushEvery * (n + 1) = FlushEvery * n + FlushEvery
<1>1. FlushEvery \in Nat \ {0}
  BY CaptureAssumption
<1>2. c % FlushEvery \in 0..(FlushEvery - 1)
  BY <1>1, DivisionWithRest
<1>3. FlushEvery * n \in Nat /\ FlushEvery * (n + 1) = FlushEvery * n + FlushEvery
  BY <1>1
<1>4. QED
  BY <1>1, <1>2, <1>3

WaitingIn(w) ==
  Len(writer[w].buf) <= (writer[w].packet_count % FlushEvery) + FlushEvery * faults

LEMMA WaitingFacts ==
  ASSUME TypeOK, NEW w \in Writers
  PROVE  /\ Len(writer[w].buf) \in Nat /\ writer[w].buf \in Seq(Packets)
         /\ writer[w].packet_count \in Nat
         /\ writer[w].packet_count % FlushEvery \in 0..(FlushEvery - 1)
         /\ FlushEvery \in Nat \ {0} /\ faults \in Nat /\ FlushEvery * faults \in Nat
<1>1. FlushEvery \in Nat \ {0} /\ faults \in Nat
  BY CaptureAssumption DEF TypeOK
<1>2. writer[w].buf \in Seq(Packets) /\ writer[w].packet_count \in Nat
  BY DEF TypeOK, PcapWriter
<1>3. Len(writer[w].buf) \in Nat
  BY <1>2
<1>4. FlushEvery * faults \in Nat
  BY <1>1
<1>5. QED
  BY <1>1, <1>2, <1>3, <1>4, DivisionWithRest

LEMMA StepWaiting == Base /\ Waiting /\ [Next]_vars => Waiting'
<1> SUFFICES ASSUME Base, Waiting, [Next]_vars, NEW v \in Writers
             PROVE  WaitingIn(v)'
  BY DEF Waiting, WaitingIn
<1> USE CaptureAssumption
<1>1. TypeOK /\ Base' /\ TypeOK'
  BY StepBase DEF Base
<1>2. WaitingIn(v)
  BY DEF Waiting, WaitingIn
<1>3. /\ Len(writer[v].buf) \in Nat /\ writer[v].buf \in Seq(Packets)
      /\ writer[v].packet_count \in Nat
      /\ writer[v].packet_count % FlushEvery \in 0..(FlushEvery - 1)
      /\ FlushEvery \in Nat \ {0} /\ faults \in Nat /\ FlushEvery * faults \in Nat
  BY <1>1, WaitingFacts
<1>4. ASSUME writer'[v].buf = <<>> PROVE WaitingIn(v)'
  <2>1. writer'[v].packet_count \in Nat /\ faults' \in Nat
    BY <1>1 DEF TypeOK, PcapWriter
  <2>2. /\ writer'[v].packet_count % FlushEvery \in 0..(FlushEvery - 1)
        /\ FlushEvery * faults' \in Nat
    BY <1>3, <2>1, DivisionWithRest
  <2>3. Len(writer'[v].buf) = 0
    BY <1>4
  <2>4. QED
    BY <1>3, <2>2, <2>3 DEF WaitingIn
<1>5. ASSUME writer'[v] = writer[v], faults' = faults PROVE WaitingIn(v)'
  BY <1>2, <1>5 DEF WaitingIn
<1>6. ASSUME NEW w \in Writers, NEW path \in Paths,
             start_capture(w, path) \/ StartLoadFails(w, path) \/ StartReaderFails(w, path)
      PROVE  WaitingIn(v)'
  <2>1. StartFile(w, path) /\ faults' = faults
    BY <1>6 DEF start_capture, StartLoadFails, StartReaderFails, limits
  <2>2. v = w \/ v # w
    OBVIOUS
  <2>3. QED
    BY <1>4, <1>5, <2>1, <2>2, CreateEffect
<1>7. ASSUME NEW w \in Writers, NEW k \in Packets, WriteTask(w, k) PROVE WaitingIn(v)'
  <2>1. write_raw_packet(w, k) /\ faults' = faults /\ w \in 1..made
    BY <1>7 DEF WriteTask, limits, Base, Shape
  <2>2. /\ Touches(w) /\ writer'[w].packet_count = writer[w].packet_count + 1
        /\ writer'[w].buf = IF (writer[w].packet_count + 1) % FlushEvery = 0
                            THEN <<>> ELSE Append(writer[w].buf, k)
    BY <2>1, WriteEffect
  <2>3. CASE v # w
    BY <1>5, <2>1, <2>2, <2>3 DEF Touches
  <2>4. CASE v = w /\ (writer[w].packet_count + 1) % FlushEvery = 0
    BY <1>4, <2>2, <2>4
  <2>5. CASE v = w /\ (writer[w].packet_count + 1) % FlushEvery # 0
    <3>1. (writer[v].packet_count + 1) % FlushEvery
            = (writer[v].packet_count % FlushEvery) + 1
      BY <1>3, <2>5, RestCountsUp
    <3>2. Len(writer'[v].buf) = Len(writer[v].buf) + 1
      <4>1. writer'[v].buf = Append(writer[v].buf, k)
        BY <2>2, <2>5
      <4>2. QED
        BY <1>3, <4>1, AppendProperties
    <3>3. writer'[v].packet_count % FlushEvery
            = (writer[v].packet_count % FlushEvery) + 1
      BY <2>2, <2>5, <3>1
    <3>4. QED
      BY <1>2, <1>3, <2>1, <3>2, <3>3 DEF WaitingIn
  <2>6. QED
    BY <2>3, <2>4, <2>5
<1>8. ASSUME NEW w \in Writers, NEW k \in Packets, WriteTaskFails(w, k)
      PROVE  WaitingIn(v)'
  <2>1. /\ writer' = [writer EXCEPT ![w] = Buffered(@, k)] /\ file' = file
        /\ faults' = faults + 1 /\ w \in 1..made
    BY <1>8 DEF WriteTaskFails, Base, Shape
  <2>2. Touches(w) /\ writer'[w].buf = Append(writer[w].buf, k)
    BY <2>1, Buffering
  <2>3. FlushEvery * faults' = FlushEvery * faults + FlushEvery
    BY <1>3, <2>1, FlushArithmetic
  <2>4. /\ writer'[v].packet_count % FlushEvery \in 0..(FlushEvery - 1)
        /\ FlushEvery * faults' \in Nat
    <3>1. writer'[v].packet_count \in Nat /\ faults' \in Nat
      BY <1>1 DEF TypeOK, PcapWriter
    <3>2. QED
      BY <3>1, FlushArithmetic
  <2>5. Len(writer'[v].buf) <= Len(writer[v].buf) + 1
    <3>1. CASE v = w
      <4>1. writer'[v].buf = Append(writer[v].buf, k)
        BY <2>2, <3>1
      <4>2. Len(writer'[v].buf) = Len(writer[v].buf) + 1
        BY <1>3, <4>1, AppendProperties
      <4>3. QED
        BY <1>3, <4>2
    <3>2. CASE v # w
      BY <1>3, <2>2, <3>2 DEF Touches
    <3>3. QED
      BY <3>1, <3>2
  <2>6. Len(writer'[v].buf) \in Nat
    <3>1. writer'[v].buf \in Seq(Packets)
      BY <1>1 DEF TypeOK, PcapWriter
    <3>2. QED
      BY <3>1
  <2>7. Len(writer[v].buf) <= FlushEvery - 1 + FlushEvery * faults
    <3>1. PICK rest \in 0..(FlushEvery - 1), due \in Nat :
            rest = writer[v].packet_count % FlushEvery /\ due = FlushEvery * faults
      BY <1>3
    <3>2. Len(writer[v].buf) <= rest + due
      BY <1>2, <3>1 DEF WaitingIn
    <3>3. Len(writer[v].buf) <= FlushEvery - 1 + due
      BY <1>3, <3>1, <3>2
    <3>4. QED
      BY <3>1, <3>3
  <2>8. Len(writer'[v].buf) <= FlushEvery * faults'
    <3> DEFINE waiting == Len(writer'[v].buf)  waited == Len(writer[v].buf)
               due == FlushEvery * faults     dueNow == FlushEvery * faults'
    <3>1. /\ waiting \in Nat /\ waited \in Nat /\ due \in Nat /\ dueNow \in Nat
          /\ waiting <= waited + 1 /\ waited <= FlushEvery - 1 + due
          /\ dueNow = due + FlushEvery /\ FlushEvery \in Nat
      BY <1>3, <2>3, <2>4, <2>5, <2>6, <2>7
    <3> HIDE DEF waiting, waited, due, dueNow
    <3>2. waiting <= dueNow
      BY <3>1
    <3>3. QED
      BY <3>2 DEF waiting, dueNow
  <2>9. QED
    BY <1>3, <2>4, <2>6, <2>8 DEF WaitingIn
<1>9. ASSUME StopFinalize PROVE WaitingIn(v)'
  <2>1. finalize(stopping) /\ faults' = faults /\ stopping \in 1..made
    BY <1>9 DEF StopFinalize, limits, Base, Shape
  <2>2. Touches(stopping) /\ writer'[stopping].buf = <<>>
    BY <2>1, FinalizeEffect
  <2>3. v = stopping \/ v # stopping
    OBVIOUS
  <2>4. QED
    BY <1>4, <1>5, <2>1, <2>2, <2>3 DEF Touches
<1>10. ASSUME Crash PROVE WaitingIn(v)'
  <2>1. writer'[v] = [writer[v] EXCEPT !.buf = <<>>]
    BY <1>10 DEF Crash
  <2>2. writer'[v].buf = <<>>
    BY <1>1, <2>1 DEF TypeOK, PcapWriter
  <2>3. QED
    BY <1>4, <2>2
<1>11. ASSUME UNCHANGED <<writer, faults>> PROVE WaitingIn(v)'
  BY <1>5, <1>11
<1>12. CASE \/ \E w \in Writers, k \in Packets : PacketArrives(w, k) \/ ReadEvent(w, k)
            \/ \E k \in Packets : SignalTask(k)
            \/ StopTake \/ StopFinalizeFails \/ Tick \/ UNCHANGED vars
  <2>1. UNCHANGED <<writer, faults>>
    BY <1>12 DEF PacketArrives, ReadEvent, SignalTask, StopTake, StopFinalizeFails, Tick,
                 disk, limits, vars
  <2>2. QED
    BY <1>11, <2>1
<1>13. QED
  BY <1>6, <1>7, <1>8, <1>9, <1>10, <1>12 DEF Next, Stop

-----------------------------------------------------------------------------
(* The capture in progress, and what its stop answers for.                 *)

LEMMA TouchesKeepsRunning ==
  ASSUME Base, Running, NEW w \in 1..made, Touches(w),
         UNCHANGED <<session, stopping, made>>,
         NEW n \in {0, 1},
         writer'[w].packet_count = writer[w].packet_count + n,
         writer'[w].pos + Len(writer'[w].buf) = writer[w].pos + Len(writer[w].buf) + n
  PROVE  Running'
<1> SUFFICES ASSUME NEW v \in Writers, session = v \/ stopping = v
             PROVE  /\ v = made
                    /\ writer'[v].pos <= Len(file'[writer'[v].path])
                    /\ writer'[v].pos + Len(writer'[v].buf)
                         = 1 + writer'[v].packet_count
  BY DEF Running
<1>1. /\ v = made /\ writer[v].pos <= Len(file[writer[v].path])
      /\ writer[v].pos + Len(writer[v].buf) = 1 + writer[v].packet_count
  BY DEF Running
<1>2. v \in 1..made
  BY CaptureAssumption DEF Base, Shape, Writers
<1>3. /\ writer[v].pos \in Nat /\ file[writer[v].path] \in Seq(Cells)
      /\ writer[v].path \in Paths /\ Len(file[writer[v].path]) \in Nat
      /\ writer[v].packet_count \in Nat /\ Len(writer[v].buf) \in Nat
  <2>1. /\ writer[v].pos \in Nat /\ file[writer[v].path] \in Seq(Cells)
        /\ writer[v].path \in Paths /\ writer[v].packet_count \in Nat
        /\ writer[v].buf \in Seq(Packets)
    BY <1>2, MadeWriter
  <2>2. QED
    BY <2>1
<1>4. CASE v = w
  <2>1. /\ writer'[v].path = writer[v].path
        /\ writer'[v].pos <= Len(file'[writer[v].path])
    BY <1>1, <1>4 DEF Touches
  <2>2. writer'[v].pos + Len(writer'[v].buf) = 1 + writer'[v].packet_count
    BY <1>1, <1>3, <1>4
  <2>3. QED
    BY <1>1, <2>1, <2>2
<1>5. CASE v # w
  <2>1. writer'[v] = writer[v]
    BY <1>5 DEF Touches
  <2>2. Len(file'[writer[v].path]) \in Nat
    <3>1. file'[writer[v].path] \in Seq(Cells)
      BY <1>3 DEF Touches
    <3>2. QED
      BY <3>1
  <2>3. Len(file'[writer[v].path]) >= Len(file[writer[v].path])
    <3>1. CASE writer[v].path = writer[w].path
      BY <3>1 DEF Touches
    <3>2. CASE writer[v].path # writer[w].path
      <4>1. file'[writer[v].path] = file[writer[v].path]
        BY <1>3, <3>2 DEF Touches
      <4>2. QED
        BY <1>3, <4>1
    <3>3. QED
      BY <3>1, <3>2
  <2>4. QED
    BY <1>1, <1>3, <2>1, <2>2, <2>3
<1>6. QED
  BY <1>4, <1>5

LEMMA StepRunning == Base /\ Running /\ [Next]_vars => Running'
<1> SUFFICES ASSUME Base, Running, [Next]_vars PROVE Running'
  OBVIOUS
<1>1. /\ session = NULL \/ stopping = NULL
      /\ NULL \notin Writers
  BY CaptureAssumption DEF Base, Shape, Writers
<1>2. ASSUME session' = NULL, stopping' = NULL PROVE Running'
  BY <1>1, <1>2 DEF Running
<1>3. ASSUME NEW w \in Writers, NEW path \in Paths, start_capture(w, path) PROVE Running'
  <2>1. StartFile(w, path) /\ session' = w /\ stopping' = stopping
    BY <1>3 DEF start_capture
  <2>2. /\ stopping = NULL /\ made' = w /\ writer'[w].path = path
        /\ writer'[w].pos = 1 /\ writer'[w].buf = <<>> /\ writer'[w].packet_count = 0
        /\ Len(file'[path]) = 1
    BY <2>1, CreateEffect
  <2>3. Len(writer'[w].buf) = 0
    BY <2>2
  <2>4. /\ writer'[w].pos <= Len(file'[writer'[w].path])
        /\ writer'[w].pos + Len(writer'[w].buf) = 1 + writer'[w].packet_count
    BY <2>2, <2>3
  <2>5. \A v \in Writers : session' = v \/ stopping' = v => v = w
    BY <1>1, <2>1, <2>2
  <2>6. QED
    BY <2>2, <2>4, <2>5 DEF Running
<1>4. ASSUME NEW w \in Writers, NEW path \in Paths,
             StartLoadFails(w, path) \/ StartReaderFails(w, path)
      PROVE  Running'
  <2>1. StartFile(w, path) /\ UNCHANGED <<session, stopping>>
    BY <1>4 DEF StartLoadFails, StartReaderFails
  <2>2. QED
    BY <1>2, <2>1, CreateEffect
<1>5. ASSUME NEW w \in Writers, NEW k \in Packets, WriteTask(w, k) PROVE Running'
  <2>1. /\ write_raw_packet(w, k) /\ w \in 1..made
        /\ UNCHANGED <<session, stopping, made>>
    BY <1>5 DEF WriteTask, Base, Shape
  <2>2. /\ Touches(w) /\ writer'[w].packet_count = writer[w].packet_count + 1
        /\ writer'[w].pos + Len(writer'[w].buf) = writer[w].pos + Len(writer[w].buf) + 1
    BY <2>1, WriteEffect
  <2>3. QED
    BY <2>1, <2>2, TouchesKeepsRunning
<1>6. ASSUME NEW w \in Writers, NEW k \in Packets, WriteTaskFails(w, k) PROVE Running'
  <2>1. /\ writer' = [writer EXCEPT ![w] = Buffered(@, k)] /\ file' = file
        /\ w \in 1..made /\ UNCHANGED <<session, stopping, made>>
    BY <1>6 DEF WriteTaskFails, Base, Shape
  <2>2. /\ Touches(w) /\ writer'[w].packet_count = writer[w].packet_count + 1
        /\ writer'[w].pos = writer[w].pos /\ writer'[w].buf = Append(writer[w].buf, k)
    BY <2>1, Buffering
  <2>3. writer[w].buf \in Seq(Packets) /\ writer[w].pos \in Nat
    BY <2>1, MadeWriter
  <2>4. Len(writer[w].buf) \in Nat /\ Len(writer'[w].buf) = Len(writer[w].buf) + 1
    BY <2>2, <2>3, AppendProperties
  <2>5. writer'[w].pos + Len(writer'[w].buf) = writer[w].pos + Len(writer[w].buf) + 1
    BY <2>2, <2>3, <2>4
  <2>6. QED
    BY <2>1, <2>2, <2>5, TouchesKeepsRunning
<1>7. CASE StopFinalize \/ StopFinalizeFails
  BY <1>1, <1>2, <1>7 DEF StopFinalize, StopFinalizeFails
<1>8. CASE StopTake
  BY <1>1, <1>8 DEF StopTake, disk, Running
<1>9. CASE Crash
  BY <1>2, <1>9 DEF Crash
<1>10. CASE \/ \E w \in Writers, k \in Packets : PacketArrives(w, k) \/ ReadEvent(w, k)
            \/ \E k \in Packets : SignalTask(k)
            \/ Tick \/ UNCHANGED vars
  <2>1. UNCHANGED <<session, stopping, made, writer, file>>
    BY <1>10 DEF PacketArrives, ReadEvent, SignalTask, Tick, disk, vars
  <2>2. QED
    BY <2>1 DEF Running
<1>11. QED
  BY <1>3, <1>4, <1>5, <1>6, <1>7, <1>8, <1>9, <1>10 DEF Next, Stop

LEMMA StopAnswersForAll ==
  ASSUME Base, Running, [Next]_vars, NEW w \in Writers, saved'[w] # saved[w]
  PROVE  Len(saved'[w]) >= 1 + writer[w].packet_count
<1>1. StopFinalize
  BY DEF Next, Stop, start_capture, StartLoadFails, StartReaderFails, PacketArrives,
         ReadEvent, WriteTask, WriteTaskFails, SignalTask, StopTake, StopFinalizeFails,
         Crash, Tick, history, vars
<1>2. /\ stopping # NULL /\ finalize(stopping)
      /\ saved' = [saved EXCEPT ![stopping] = file'[writer[stopping].path]]
  BY <1>1 DEF StopFinalize
<1>3. stopping \in 1..made /\ saved \in [Writers -> Seq(Cells)]
  BY <1>2 DEF Base, TypeOK, Shape
<1>4. stopping \in Writers /\ writer[stopping].path \in Paths
  BY <1>3, MadeWriter
<1>5. w = stopping /\ saved'[w] = file'[writer[w].path]
  BY <1>2, <1>3, <1>4
<1>6. /\ writer[w].pos <= Len(file[writer[w].path])
      /\ writer[w].pos + Len(writer[w].buf) = 1 + writer[w].packet_count
  BY <1>5 DEF Running
<1>7. /\ Touches(w) /\ writer'[w].pos = writer[w].pos + Len(writer[w].buf)
  BY <1>2, <1>3, <1>5, FinalizeEffect
<1>8. QED
  BY <1>5, <1>6, <1>7 DEF Touches

(* When stop_capture answers, every packet its writer has counted is in    *)
(* the file (pcap.rs:55-85), captures of the same second or not: nobody    *)
(* can have cut the file of the capture in progress.                       *)
THEOREM StopFlushes == Spec => StopFlushesAll
<1>1. Init => Running
  BY CaptureAssumption DEF Init, Running, Writers
<1>2. Base /\ Running /\ [Next]_vars
        => [\A w \in Writers :
              saved'[w] # saved[w] => Len(saved'[w]) >= 1 + writer[w].packet_count]_vars
  BY StopAnswersForAll
<1>3. Spec => [](Base /\ Running)
  BY <1>1, InitBase, StepBase, StepRunning, PTL DEF Spec
<1>4. QED
  BY <1>2, <1>3, PTL DEF Spec, StopFlushesAll

-----------------------------------------------------------------------------
(* Packets under way.                                                      *)

LEMMA StepUnderWay == Base /\ UnderWay /\ [Next]_vars => UnderWay'
<1> SUFFICES ASSUME Base, UnderWay, [Next]_vars PROVE UnderWay'
  OBVIOUS
<1>1. /\ ring \in [Writers -> SUBSET Packets] /\ writes \subseteq Writers \X Packets
      /\ captured \in [Packets -> Writers \cup {NULL}]
      /\ NULL \notin Writers
      /\ \A w \in Writers \ (1..made) : ring[w] = {}
      /\ \A e \in writes : e[1] \in 1..made
  BY CaptureAssumption DEF Base, TypeOK, Shape, Writers
<1>2. ASSUME UNCHANGED <<ring, writes, captured>> PROVE UnderWay'
  BY <1>2 DEF UnderWay
<1>3. ASSUME NEW w \in Writers, NEW new \in SUBSET Packets,
             \A k \in new : captured[k] = NULL /\ <<w, k>> \notin writes,
             ring' = [ring EXCEPT ![w] = @ \cup new], writes' = writes,
             captured' = [k \in Packets |-> IF k \in new THEN w ELSE captured[k]]
      PROVE  UnderWay'
  <2>1. \A e \in writes : e[2] \in Packets /\ captured[e[2]] = e[1] /\ e[1] \in Writers
    BY <1>1 DEF UnderWay
  <2>2. \A e \in writes : captured'[e[2]] = e[1]
    BY <1>1, <1>3, <2>1
  <2>3. ASSUME NEW v \in Writers, NEW k \in ring'[v]
        PROVE  captured'[k] = v /\ <<v, k>> \notin writes'
    <3>1. k \in Packets
      BY <1>1, <1>3, <2>3
    <3>2. CASE k \in ring[v]
      <4>1. captured[k] = v /\ <<v, k>> \notin writes
        BY <3>2 DEF UnderWay
      <4>2. QED
        BY <1>1, <1>3, <3>1, <4>1
    <3>3. CASE k \notin ring[v]
      <4>1. v = w /\ k \in new
        BY <1>1, <1>3, <2>3, <3>3
      <4>2. QED
        BY <1>3, <3>1, <4>1
    <3>4. QED
      BY <3>2, <3>3
  <2>4. QED
    BY <1>3, <2>2, <2>3 DEF UnderWay
<1>4. ASSUME NEW w \in Writers, NEW path \in Paths, StartReaderFails(w, path) PROVE UnderWay'
  <2>1. StartFile(w, path) /\ writes' = writes
    BY <1>4 DEF StartReaderFails
  <2>2. PICK early \in SUBSET {k \in Packets : captured[k] = NULL} :
          /\ ring' = [ring EXCEPT ![w] = early]
          /\ captured' = [k \in Packets |-> IF k \in early THEN w ELSE captured[k]]
    BY <1>4 DEF StartReaderFails
  <2>3. ring[w] = {} /\ \A k : <<w, k>> \notin writes
    <3>1. w \notin 1..made
      BY <2>1, CreateEffect
    <3>2. QED
      BY <1>1, <3>1
  <2>4. QED
    BY <1>3, <2>1, <2>2, <2>3
<1>5. ASSUME NEW w \in Writers, NEW k \in Packets, PacketArrives(w, k) PROVE UnderWay'
  <2>1. /\ captured[k] = NULL /\ ring' = [ring EXCEPT ![w] = @ \cup {k}]
        /\ captured' = [captured EXCEPT ![k] = w] /\ writes' = writes
    BY <1>5 DEF PacketArrives
  <2>2. captured' = [j \in Packets |-> IF j \in {k} THEN w ELSE captured[j]]
    BY <1>1, <2>1
  <2>3. \A j \in {k} : captured[j] = NULL /\ <<w, j>> \notin writes
    BY <1>1, <2>1 DEF UnderWay
  <2>4. {k} \in SUBSET Packets
    OBVIOUS
  <2>5. QED
    BY <1>3, <2>1, <2>2, <2>3, <2>4
<1>6. ASSUME NEW w \in Writers, NEW k \in Packets, ReadEvent(w, k) PROVE UnderWay'
  <2>1. /\ k \in ring[w] /\ ring' = [ring EXCEPT ![w] = @ \ {k}]
        /\ writes' = writes \cup {<<w, k>>} /\ captured' = captured
    BY <1>6 DEF ReadEvent, history
  <2>2. captured[k] = w
    BY <2>1 DEF UnderWay
  <2>3. \A e \in writes' : captured'[e[2]] = e[1]
    BY <2>1, <2>2 DEF UnderWay
  <2>4. ASSUME NEW v \in Writers, NEW j \in ring'[v]
        PROVE  captured'[j] = v /\ <<v, j>> \notin writes'
    <3>1. j \in ring[v] /\ ~(v = w /\ j = k)
      BY <1>1, <2>1, <2>4
    <3>2. QED
      BY <2>1, <3>1 DEF UnderWay
  <2>5. QED
    BY <2>3, <2>4 DEF UnderWay
<1>7. ASSUME NEW w \in Writers, NEW k \in Packets, WriteTask(w, k) \/ WriteTaskFails(w, k)
      PROVE  UnderWay'
  <2>1. ring' = ring /\ writes' = writes \ {<<w, k>>} /\ captured' = captured
    BY <1>7 DEF WriteTask, WriteTaskFails, history
  <2>2. \A e \in writes' : captured'[e[2]] = e[1]
    BY <2>1 DEF UnderWay
  <2>3. \A v \in Writers : \A j \in ring'[v] : captured'[j] = v /\ <<v, j>> \notin writes'
    BY <2>1 DEF UnderWay
  <2>4. QED
    BY <2>2, <2>3 DEF UnderWay
<1>8. CASE Crash
  <2>1. ring' = [w \in Writers |-> {}] /\ writes' = {}
    BY <1>8 DEF Crash
  <2>2. QED
    BY <2>1 DEF UnderWay
<1>9. CASE \/ \E w \in Writers, path \in Paths : start_capture(w, path) \/ StartLoadFails(w, path)
           \/ \E k \in Packets : SignalTask(k)
           \/ Stop \/ Tick \/ UNCHANGED vars
  <2>1. UNCHANGED <<ring, writes, captured>>
    BY <1>9 DEF start_capture, StartLoadFails, SignalTask, Stop, StopTake, StopFinalize,
                StopFinalizeFails, Tick, tasks, history, vars
  <2>2. QED
    BY <1>2, <2>1
<1>10. QED
  BY <1>4, <1>5, <1>6, <1>7, <1>8, <1>9 DEF Next

-----------------------------------------------------------------------------
(* The file of a capture that shares it with no other.                     *)

(* Nothing of the capture changes but that packets arrive for it.          *)
LEMMA TidyUntouched ==
  ASSUME NEW v \in 1..made, Tidy(v),
         writer'[v] = writer[v], file'[writer[v].path] = file[writer[v].path],
         saved'[v] = saved[v], crashes' = crashes,
         Own(v) \subseteq Own(v)', Pending(v) \subseteq Pending(v)',
         \A k \in Own(v)' : k \notin Own(v) => k \in Pending(v)',
         \A k \in Pending(v)' : k \in Own(v) => k \in Pending(v)
  PROVE  Tidy(v)'
<1>1. Contents(v)' = Contents(v)
  BY DEF Contents
<1>2. Whole(v, Contents(v))'
  BY <1>1 DEF Tidy, Whole
<1>3. crashes = 0 => Complete(v, Contents(v))'
  BY <1>1 DEF Tidy, Complete
<1>4. QED
  BY <1>2, <1>3 DEF Tidy

LEMMA ContentsLength ==
  ASSUME Base, NEW v \in 1..made
  PROVE  /\ Contents(v) \in Seq(Cells)
         /\ Len(Contents(v)) \in Nat /\ Len(Contents(v)) >= 1
         /\ Len(file[writer[v].path]) <= Len(Contents(v))
         /\ \A i \in 1..Len(file[writer[v].path]) :
              Contents(v)[i] = file[writer[v].path][i]
<1> DEFINE onDisk == Len(file[writer[v].path])  waiting == Len(writer[v].buf)
<1>1. /\ Contents(v) \in Seq(Cells) /\ Len(Contents(v)) = onDisk + waiting
      /\ onDisk >= 1
      /\ file[writer[v].path] \in Seq(Cells) /\ writer[v].buf \in Seq(Packets)
  BY MadeWriter
<1>2. onDisk \in Nat /\ waiting \in Nat
  BY <1>1
<1> HIDE DEF onDisk, waiting
<1>3. /\ onDisk + waiting \in Nat /\ onDisk + waiting >= 1
      /\ onDisk <= onDisk + waiting
  BY <1>1, <1>2
<1>4. \A i \in 1..onDisk : i \in 1..(onDisk + waiting) /\ i <= onDisk
  BY <1>2
<1>5. \A i \in 1..onDisk : Contents(v)[i] = file[writer[v].path][i]
  BY <1>1, <1>4, MadeWriter DEF onDisk
<1>6. QED
  BY <1>1, <1>3, <1>5 DEF onDisk

(* A packet goes from a write task to the writer.                          *)
LEMMA TidyWritten ==
  ASSUME Base, NEW v \in 1..made, NEW k \in Packets, Tidy(v),
         Touches(v), Contents(v)' = Append(Contents(v), k),
         saved' = saved, crashes' = crashes,
         Own(v)' = Own(v), Pending(v)' = Pending(v) \ {k},
         k \in Own(v), k \in Pending(v)
  PROVE  Tidy(v)'
<1> DEFINE cells == Contents(v)  longer == Append(cells, k)
<1>1. cells \in Seq(Cells) /\ Len(cells) \in Nat /\ Len(cells) >= 1 /\ k \in Cells
  BY ContentsLength DEF Cells
<1>2. Whole(v, cells) /\ (crashes = 0 => Complete(v, cells))
  BY DEF Tidy
<1> HIDE DEF cells
<1>3. /\ Len(longer) = Len(cells) + 1 /\ longer[Len(cells) + 1] = k
      /\ \A i \in 1..Len(cells) : longer[i] = cells[i]
  BY <1>1, AppendProperties
<1>4. \A i \in 2..Len(cells) : cells[i] \in Own(v) /\ cells[i] # k /\ cells[i] \notin Pending(v)
  BY <1>2 DEF Whole
<1> HIDE DEF longer
<1>5. \A i \in 2..Len(longer) : \/ i = Len(cells) + 1
                                \/ i \in 2..Len(cells) /\ i \in 1..Len(cells)
  BY <1>1, <1>3
<1>6. \A i \in 2..Len(longer) : longer[i] \in Own(v)' \ Pending(v)'
  BY <1>3, <1>4, <1>5
<1>7. \A i, j \in 2..Len(longer) : longer[i] = longer[j] => i = j
  BY <1>2, <1>3, <1>4, <1>5 DEF Whole
<1>8. ASSUME crashes = 0, NEW e \in Own(v)
      PROVE  e \in Pending(v)' \/ \E i \in 2..Len(longer) : longer[i] = e
  <2>1. e \in Pending(v) \/ \E i \in 2..Len(cells) : cells[i] = e
    BY <1>2, <1>8 DEF Complete
  <2>2. CASE e = k
    BY <1>1, <1>3, <2>2
  <2>3. CASE e # k /\ e \in Pending(v)
    BY <2>3
  <2>4. CASE \E i \in 2..Len(cells) : cells[i] = e
    BY <1>1, <1>3, <2>4
  <2>5. QED
    BY <2>1, <2>2, <2>3, <2>4
<1>9. Contents(v)' = longer
  BY DEF longer, cells
<1>10. Whole(v, Contents(v))' /\ (crashes' = 0 => Complete(v, Contents(v))')
  BY <1>6, <1>7, <1>8, <1>9 DEF Whole, Complete
<1>11. /\ writer'[v].path = writer[v].path
       /\ writer'[v].pos = Len(file'[writer[v].path])
       /\ IsPrefix(file[writer[v].path], file'[writer[v].path])
  BY DEF Tidy, Touches
<1>12. IsPrefix(saved'[v], file'[writer'[v].path])
  <2>1. /\ saved[v] \in Seq(Cells) /\ file[writer[v].path] \in Seq(Cells)
        /\ file'[writer[v].path] \in Seq(Cells)
    BY MadeWriter DEF Base, TypeOK, Touches
  <2>2. IsPrefix(saved[v], file[writer[v].path])
    BY DEF Tidy
  <2>3. QED
    BY <1>11, <2>1, <2>2, PrefixTransitive
<1>13. QED
  BY <1>10, <1>11, <1>12 DEF Tidy

(* A capture that has just been given a file.                              *)
LEMMA TidyNew ==
  ASSUME NEW v \in Writers, saved'[v] = <<>>,
         file'[writer'[v].path] = <<"header">>, Len(file'[writer'[v].path]) = 1,
         writer'[v].pos = 1, writer'[v].buf = <<>>,
         \A k \in Own(v)' : k \in Pending(v)'
  PROVE  Tidy(v)'
<1>1. <<"header">> \in Seq({"header"}) /\ Len(<<"header">>) = 1 /\ <<>> \in Seq({"header"})
  OBVIOUS
<1>2. Contents(v)' = <<"header">>
  <2>1. <<"header">> \o <<>> = <<"header">>
    BY <1>1, ConcatEmptySeq
  <2>2. QED
    BY <2>1 DEF Contents
<1>3. Whole(v, Contents(v))' /\ Complete(v, Contents(v))'
  BY <1>1, <1>2 DEF Whole, Complete
<1>4. IsPrefix(<<>>, <<"header">>)
  <2>1. <<>> \o <<"header">> = <<"header">>
    BY <1>1, ConcatEmptySeq
  <2>2. IsPrefix(<<>>, <<>> \o <<"header">>)
    BY <1>1, PrefixOfConcat
  <2>3. QED
    BY <2>1, <2>2
<1>5. QED
  BY <1>3, <1>4 DEF Tidy

(* Its stop flushes and answers.                                           *)
LEMMA TidyStopped ==
  ASSUME Base, NEW v \in 1..made, Tidy(v), finalize(v),
         saved' = [saved EXCEPT ![v] = file'[writer[v].path]],
         crashes' = crashes, Own(v)' = Own(v), Pending(v)' = Pending(v)
  PROVE  Tidy(v)'
<1>1. /\ v \in Writers /\ writer[v].path \in Paths /\ saved \in [Writers -> Seq(Cells)]
  BY MadeWriter DEF Base, TypeOK
<1>2. writer[v].pos = Len(file[writer[v].path])
  BY DEF Tidy
<1>3. Touches(v) /\ Contents(v)' = Contents(v)
  BY <1>2, FinalizeEffect
<1>4. Whole(v, Contents(v))' /\ (crashes' = 0 => Complete(v, Contents(v))')
  BY <1>3 DEF Tidy, Whole, Complete
<1>5. writer'[v].path = writer[v].path /\ writer'[v].pos = Len(file'[writer'[v].path])
  BY <1>2, <1>3 DEF Touches
<1>6. file'[writer[v].path] \in Seq(Cells) /\ Len(file'[writer[v].path]) \in Nat
  BY <1>1, <1>3 DEF Touches
<1>7. saved'[v] = file'[writer'[v].path]
  BY <1>1, <1>5
<1>8. IsPrefix(file'[writer[v].path], file'[writer[v].path])
  BY <1>6, PrefixPointwise
<1>9. QED
  BY <1>4, <1>5, <1>7, <1>8 DEF Tidy

(* The daemon dies, and its buffer with it.                                *)
LEMMA TidyCrashed ==
  ASSUME Base, NEW v \in 1..made, Tidy(v),
         writer'[v].path = writer[v].path, writer'[v].pos = writer[v].pos,
         writer'[v].buf = <<>>, file' = file, saved' = saved,
         crashes' # 0, Own(v)' = Own(v), Pending(v)' = {}
  PROVE  Tidy(v)'
<1> DEFINE cells == file[writer[v].path]
<1>1. cells \in Seq(Cells) /\ writer[v].buf \in Seq(Packets) /\ Contents(v) \in Seq(Cells)
  BY MadeWriter
<1>2. /\ Len(Contents(v)) \in Nat /\ Len(cells) <= Len(Contents(v))
      /\ \A i \in 1..Len(cells) : Contents(v)[i] = cells[i]
  BY ContentsLength
<1>3. Contents(v)' = cells
  <2>1. cells \o <<>> = cells
    BY <1>1, ConcatEmptySeq
  <2>2. QED
    BY <2>1 DEF Contents
<1>4. Len(cells) \in Nat
  BY <1>1
<1> HIDE DEF cells
<1>5. \A i \in 2..Len(cells) : i \in 2..Len(Contents(v)) /\ Contents(v)[i] = cells[i]
  BY <1>2, <1>4
<1>6. Whole(v, Contents(v))'
  BY <1>3, <1>5 DEF Tidy, Whole
<1>7. writer'[v].pos = Len(cells) /\ IsPrefix(saved[v], cells)
  BY DEF Tidy, cells
<1>8. QED
  BY <1>6, <1>7 DEF Tidy, cells

(* A capture that shares its file with no other notices nothing of what    *)
(* another writer does.                                                    *)
LEMMA TouchesOther ==
  ASSUME Base, NEW w \in 1..made, NEW v \in 1..made, Touches(w), made' = made,
         Alone(v)'
  PROVE  /\ Alone(v)
         /\ v # w => /\ writer'[v] = writer[v]
                     /\ file'[writer[v].path] = file[writer[v].path]
<1>1. \A u \in 1..made : u \in Writers /\ writer[u].path \in Paths
  BY MadeWriter
<1>2. \A u \in 1..made : writer'[u].path = writer[u].path
  BY <1>1 DEF Touches
<1>3. Alone(v)
  BY <1>2 DEF Alone
<1>4. ASSUME v # w
      PROVE  writer'[v] = writer[v] /\ file'[writer[v].path] = file[writer[v].path]
  <2>1. writer[v].path # writer[w].path
    BY <1>3, <1>4 DEF Alone
  <2>2. QED
    BY <1>1, <1>4, <2>1 DEF Touches
<1>5. QED
  BY <1>3, <1>4

LEMMA StartOther ==
  ASSUME Base, NEW w \in Writers, NEW path \in Paths, StartFile(w, path),
         NEW v \in 1..made', v # w, Alone(v)'
  PROVE  /\ v \in 1..made /\ Alone(v)
         /\ writer'[v] = writer[v] /\ file'[writer[v].path] = file[writer[v].path]
<1>1. /\ 1..made' = (1..made) \cup {w} /\ w \notin 1..made /\ writer'[w].path = path
      /\ \A u \in Writers \ {w} : writer'[u] = writer[u]
      /\ \A p \in Paths \ {path} : file'[p] = file[p]
  BY CreateEffect
<1>2. \A u \in 1..made : /\ u \in Writers /\ writer[u].path \in Paths
                         /\ writer'[u] = writer[u] /\ u \in 1..made'
  BY <1>1, MadeWriter
<1>3. v \in 1..made
  BY <1>1
<1>4. writer[v].path # path
  BY <1>1, <1>2, <1>3 DEF Alone
<1>5. Alone(v)
  BY <1>2, <1>3 DEF Alone
<1>6. QED
  BY <1>1, <1>2, <1>3, <1>4, <1>5

LEMMA StepStreams == Base /\ UnderWay /\ Streams /\ [Next]_vars => Streams'
<1> SUFFICES ASSUME Base, UnderWay, Streams, [Next]_vars,
                    NEW v \in 1..made', Alone(v)'
             PROVE  Tidy(v)'
  BY DEF Streams
<1>1. /\ ring \in [Writers -> SUBSET Packets] /\ writes \subseteq Writers \X Packets
      /\ captured \in [Packets -> Writers \cup {NULL}]
      /\ NULL \notin Writers
      /\ \A w \in Writers \ (1..made) : ring[w] = {} /\ saved[w] = <<>>
      /\ \A e \in writes : e[1] \in 1..made
      /\ \A k \in Packets : captured[k] # NULL => captured[k] \in 1..made
      /\ saved \in [Writers -> Seq(Cells)]
  <2>1. TypeOK /\ Shape
    BY DEF Base
  <2>2. NULL \notin Writers
    BY CaptureAssumption DEF Writers
  <2>3. /\ ring \in [Writers -> SUBSET Packets] /\ writes \subseteq Writers \X Packets
        /\ captured \in [Packets -> Writers \cup {NULL}]
        /\ saved \in [Writers -> Seq(Cells)]
    BY <2>1 DEF TypeOK
  <2>4. /\ \A w \in Writers \ (1..made) : ring[w] = {} /\ saved[w] = <<>>
        /\ \A e \in writes : e[1] \in 1..made
        /\ \A k \in Packets : captured[k] # NULL => captured[k] \in 1..made
    BY <2>1 DEF Shape
  <2>5. QED
    BY ONLY <2>2, <2>3, <2>4
<1>2. made' = made => v \in Writers
  BY MadeWriter
<1>3. ASSUME UNCHANGED <<made, writer, file, saved, crashes>>,
             Own(v) \subseteq Own(v)', Pending(v) \subseteq Pending(v)',
             \A k \in Own(v)' : k \notin Own(v) => k \in Pending(v)',
             \A k \in Pending(v)' : k \in Own(v) => k \in Pending(v)
      PROVE  Tidy(v)'
  <2>1. Alone(v)
    BY <1>3 DEF Alone
  <2>2. Tidy(v)
    BY <1>3, <2>1 DEF Streams
  <2>3. QED
    BY <1>3, <2>2, TidyUntouched
<1>4. ASSUME NEW w \in Writers, NEW path \in Paths, NEW new \in SUBSET Packets,
             StartFile(w, path), saved' = saved, crashes' = crashes, writes' = writes,
             ring' = [ring EXCEPT ![w] = new],
             captured' = [k \in Packets |-> IF k \in new THEN w ELSE captured[k]],
             \A k \in new : captured[k] = NULL
      PROVE  Tidy(v)'
  <2>1. /\ w \notin 1..made
        /\ writer'[w].path = path /\ writer'[w].pos = 1 /\ writer'[w].buf = <<>>
        /\ file'[path] = <<"header">> /\ Len(file'[path]) = 1
    BY <1>4, CreateEffect
  <2>2. CASE v = w
    <3>1. \A k \in Own(v)' : k \in new
      BY <1>1, <1>4, <2>1, <2>2 DEF Own
    <3>2. \A k \in new : k \in Pending(v)'
      BY <1>1, <1>4, <2>2 DEF Pending
    <3>3. saved'[v] = <<>>
      BY <1>1, <1>4, <2>1, <2>2
    <3>4. QED
      BY <2>1, <2>2, <3>1, <3>2, <3>3, TidyNew
  <2>3. CASE v # w
    <3>1. /\ v \in 1..made /\ Alone(v) /\ writer'[v] = writer[v]
          /\ file'[writer[v].path] = file[writer[v].path]
      BY <1>4, <2>3, StartOther
    <3>2. v \in Writers /\ Tidy(v)
      BY <3>1, MadeWriter DEF Streams
    <3>3. Own(v)' = Own(v)
      BY <1>1, <1>4, <2>3, <3>2 DEF Own
    <3>4. Pending(v)' = Pending(v)
      BY <1>1, <1>4, <2>3, <3>2 DEF Pending
    <3>5. QED
      BY <1>4, <3>1, <3>2, <3>3, <3>4, TidyUntouched
  <2>4. QED
    BY <2>2, <2>3
<1>5. ASSUME NEW w \in Writers, NEW path \in Paths,
             start_capture(w, path) \/ StartLoadFails(w, path)
      PROVE  Tidy(v)'
  <2>1. /\ StartFile(w, path)
        /\ UNCHANGED <<saved, crashes, writes, ring, captured>>
    BY <1>5 DEF start_capture, StartLoadFails, tasks, history, limits
  <2>2. ring[w] = {}
    <3>1. w \notin 1..made
      BY <2>1, CreateEffect
    <3>2. QED
      BY <1>1, <3>1
  <2>3. /\ ring' = [ring EXCEPT ![w] = {}]
        /\ captured' = [k \in Packets |-> IF k \in {} THEN w ELSE captured[k]]
    BY <1>1, <2>1, <2>2
  <2>4. QED
    BY <1>4, <2>1, <2>3
<1>6. ASSUME NEW w \in Writers, NEW path \in Paths, StartReaderFails(w, path)
      PROVE  Tidy(v)'
  <2>1. StartFile(w, path) /\ UNCHANGED <<saved, crashes, writes>>
    BY <1>6 DEF StartReaderFails, limits
  <2>2. PICK early \in SUBSET {k \in Packets : captured[k] = NULL} :
          /\ ring' = [ring EXCEPT ![w] = early]
          /\ captured' = [k \in Packets |-> IF k \in early THEN w ELSE captured[k]]
    BY <1>6 DEF StartReaderFails
  <2>3. early \in SUBSET Packets /\ \A k \in early : captured[k] = NULL
    OBVIOUS
  <2>4. QED
    BY <1>4, <2>1, <2>2, <2>3
<1>7. ASSUME NEW w \in Writers, NEW k \in Packets, PacketArrives(w, k) PROVE Tidy(v)'
  <2>1. /\ captured[k] = NULL /\ ring' = [ring EXCEPT ![w] = @ \cup {k}]
        /\ captured' = [captured EXCEPT ![k] = w] /\ writes' = writes
        /\ UNCHANGED <<made, writer, file, saved, crashes>>
    BY <1>7 DEF PacketArrives, disk, limits
  <2>2. v \in Writers
    BY <1>2, <2>1
  <2>3. CASE v = w
    <3>1. Own(v)' = Own(v) \cup {k}
      BY <1>1, <2>1, <2>3 DEF Own
    <3>2. Pending(v)' = Pending(v) \cup {k}
      BY <1>1, <2>1, <2>3 DEF Pending
    <3>3. k \notin Own(v)
      BY <1>1, <2>1, <2>2 DEF Own
    <3>4. QED
      BY <1>3, <2>1, <3>1, <3>2, <3>3
  <2>4. CASE v # w
    <3>1. Own(v)' = Own(v)
      BY <1>1, <2>1, <2>2, <2>4 DEF Own
    <3>2. Pending(v)' = Pending(v)
      BY <1>1, <2>1, <2>2, <2>4 DEF Pending
    <3>3. QED
      BY <1>3, <2>1, <3>1, <3>2
  <2>5. QED
    BY <2>3, <2>4
<1>8. ASSUME NEW w \in Writers, NEW k \in Packets, ReadEvent(w, k) PROVE Tidy(v)'
  <2>1. /\ k \in ring[w] /\ ring' = [ring EXCEPT ![w] = @ \ {k}]
        /\ writes' = writes \cup {<<w, k>>}
        /\ UNCHANGED <<made, writer, file, captured, saved, crashes>>
    BY <1>8 DEF ReadEvent, disk, history, limits
  <2>2. v \in Writers
    BY <1>2, <2>1
  <2>3. Own(v)' = Own(v)
    BY <2>1 DEF Own
  <2>4. Pending(v)' = Pending(v)
    BY <1>1, <2>1, <2>2 DEF Pending
  <2>5. QED
    BY <1>3, <2>1, <2>3, <2>4
<1>9. ASSUME NEW w \in 1..made, NEW k \in Packets, Touches(w), <<w, k>> \in writes,
             writer[w].pos = Len(file[writer[w].path]) =>
               Contents(w)' = Append(Contents(w), k),
             writes' = writes \ {<<w, k>>},
             UNCHANGED <<made, ring, captured, saved, crashes>>
      PROVE  Tidy(v)'
  <2>1. /\ Alone(v) /\ v \in 1..made
        /\ v # w => /\ writer'[v] = writer[v]
                    /\ file'[writer[v].path] = file[writer[v].path]
    BY <1>9, TouchesOther
  <2>2. Tidy(v) /\ v \in Writers /\ w \in Writers
    BY <2>1, MadeWriter DEF Streams
  <2>3. CASE v = w
    <3>1. Contents(v)' = Append(Contents(v), k)
      BY <1>9, <2>2, <2>3 DEF Tidy
    <3>2. captured[k] = w /\ k \notin ring[w]
      BY <1>9, <2>2 DEF UnderWay
    <3>3. Own(v)' = Own(v) /\ k \in Own(v) /\ k \in Pending(v)
      BY <1>9, <2>3, <3>2 DEF Own, Pending
    <3>4. Pending(v)' = Pending(v) \ {k}
      BY <1>9, <2>3, <3>2 DEF Pending
    <3>5. QED
      BY <1>9, <2>1, <2>2, <2>3, <3>1, <3>3, <3>4, TidyWritten
  <2>4. CASE v # w
    <3>1. Own(v)' = Own(v)
      BY <1>9 DEF Own
    <3>2. Pending(v)' = Pending(v)
      BY <1>9, <2>4 DEF Pending
    <3>3. QED
      BY <1>9, <2>1, <2>2, <2>4, <3>1, <3>2, TidyUntouched
  <2>5. QED
    BY <2>3, <2>4
<1>10. ASSUME NEW w \in Writers, NEW k \in Packets, WriteTask(w, k) PROVE Tidy(v)'
  <2>1. /\ <<w, k>> \in writes /\ writes' = writes \ {<<w, k>>} /\ write_raw_packet(w, k)
        /\ UNCHANGED <<made, ring, captured, saved, crashes>>
    BY <1>10 DEF WriteTask, history, limits
  <2>2. w \in 1..made
    BY <1>1, <2>1
  <2>3. /\ Touches(w)
        /\ writer[w].pos = Len(file[writer[w].path]) =>
             Contents(w)' = Append(Contents(w), k)
    BY <2>1, <2>2, WriteEffect
  <2>4. QED
    BY <1>9, <2>1, <2>2, <2>3
<1>11. ASSUME NEW w \in Writers, NEW k \in Packets, WriteTaskFails(w, k) PROVE Tidy(v)'
  <2>1. /\ <<w, k>> \in writes /\ writes' = writes \ {<<w, k>>}
        /\ writer' = [writer EXCEPT ![w] = Buffered(@, k)] /\ file' = file
        /\ UNCHANGED <<made, ring, captured, saved, crashes>>
    BY <1>11 DEF WriteTaskFails, history
  <2>2. w \in 1..made
    BY <1>1, <2>1
  <2>3. Touches(w) /\ Contents(w)' = Append(Contents(w), k)
    BY <2>1, <2>2, Buffering, BufferingAppends
  <2>4. QED
    BY <1>9, <2>1, <2>2, <2>3
<1>12. ASSUME StopFinalize PROVE Tidy(v)'
  <2>1. /\ stopping # NULL /\ finalize(stopping)
        /\ saved' = [saved EXCEPT ![stopping] = file'[writer[stopping].path]]
        /\ UNCHANGED <<made, ring, writes, captured, crashes>>
    BY <1>12 DEF StopFinalize, tasks, limits
  <2>2. stopping \in 1..made
    BY <2>1 DEF Base, Shape
  <2>3. Touches(stopping)
    BY <2>1, <2>2, FinalizeEffect
  <2>4. /\ Alone(v) /\ v \in 1..made
        /\ v # stopping => /\ writer'[v] = writer[v]
                           /\ file'[writer[v].path] = file[writer[v].path]
    BY <2>1, <2>2, <2>3, TouchesOther
  <2>5. Tidy(v) /\ v \in Writers
    BY <2>4, MadeWriter DEF Streams
  <2>6. Own(v)' = Own(v) /\ Pending(v)' = Pending(v)
    BY <2>1 DEF Own, Pending
  <2>7. CASE v = stopping
    BY <2>1, <2>4, <2>5, <2>6, <2>7, TidyStopped
  <2>8. CASE v # stopping
    <3>1. saved'[v] = saved[v]
      BY <1>1, <2>1, <2>5, <2>8
    <3>2. Own(v)' = Own(v) /\ Pending(v)' = Pending(v)
      BY <2>6
    <3>3. QED
      BY <2>1, <2>4, <2>5, <2>8, <3>1, <3>2, TidyUntouched
  <2>9. QED
    BY <2>7, <2>8
<1>13. ASSUME Crash PROVE Tidy(v)'
  <2>1. /\ crashes' = crashes + 1 /\ crashes \in Nat
        /\ writer' = [w \in Writers |-> [writer[w] EXCEPT !.buf = <<>>]]
        /\ ring' = [w \in Writers |-> {}] /\ writes' = {}
        /\ UNCHANGED <<made, file, captured, saved>>
    BY CaptureAssumption, <1>13 DEF Crash, history, Base, TypeOK
  <2>2. \A u \in 1..made : /\ u \in Writers /\ writer'[u].path = writer[u].path
                           /\ writer'[u].pos = writer[u].pos /\ writer'[u].buf = <<>>
    BY <2>1, MadeWriter DEF PcapWriter
  <2>3. Tidy(v) /\ v \in 1..made
    BY <2>1, <2>2 DEF Alone, Streams
  <2>4. Own(v)' = Own(v) /\ Pending(v)' = {}
    BY <2>1, <2>2, <2>3 DEF Own, Pending
  <2>5. crashes' # 0
    BY <2>1
  <2>6. QED
    BY <2>1, <2>2, <2>3, <2>4, <2>5, TidyCrashed
<1>14. CASE \/ \E k \in Packets : SignalTask(k)
            \/ StopTake \/ StopFinalizeFails \/ Tick \/ UNCHANGED vars
  <2>1. UNCHANGED <<made, writer, file, ring, writes, captured, saved, crashes>>
    BY <1>14 DEF SignalTask, StopTake, StopFinalizeFails, Tick, disk, tasks, history,
                 limits, vars
  <2>2. Own(v)' = Own(v) /\ Pending(v)' = Pending(v)
    BY <2>1 DEF Own, Pending
  <2>3. QED
    BY <1>3, <2>1, <2>2
<1>15. QED
  BY <1>5, <1>6, <1>7, <1>8, <1>10, <1>11, <1>12, <1>13, <1>14 DEF Next, Stop

-----------------------------------------------------------------------------
(* What readers of the files and of the counters rely on.                  *)

Invariant == Base /\ Running /\ Waiting /\ UnderWay /\ Streams

LEMMA InvariantHolds == Spec => []Invariant
<1>1. Init => Invariant
  <2> SUFFICES ASSUME Init PROVE Invariant
    OBVIOUS
  <2>1. Base /\ 1..made = {}
    BY InitBase DEF Init
  <2>2. Running
    BY CaptureAssumption DEF Init, Running, Writers
  <2>3. Waiting
    <3>1. SUFFICES ASSUME NEW w \in Writers
                   PROVE  Len(writer[w].buf)
                            <= (writer[w].packet_count % FlushEvery) + FlushEvery * faults
      BY DEF Waiting
    <3>2. writer[w].buf = <<>> /\ writer[w].packet_count = 0 /\ faults = 0
      BY DEF Init, NoWriter
    <3>3. Len(writer[w].buf) = 0
      BY <3>2
    <3>4. 0 % FlushEvery \in 0..(FlushEvery - 1) /\ FlushEvery * 0 \in Nat
      BY FlushArithmetic
    <3>5. FlushEvery \in Nat
      BY CaptureAssumption
    <3>6. QED
      BY <3>2, <3>3, <3>4, <3>5
  <2>4. UnderWay
    BY DEF Init, UnderWay
  <2>5. Streams
    BY <2>1 DEF Streams
  <2>6. QED
    BY <2>1, <2>2, <2>3, <2>4, <2>5 DEF Invariant
<1>2. Invariant /\ [Next]_vars => Invariant'
  BY StepBase, StepRunning, StepWaiting, StepUnderWay, StepStreams DEF Invariant
<1>3. QED
  BY <1>1, <1>2, PTL DEF Spec

LEMMA SharersAlone ==
  ASSUME NEW w \in 1..made
  PROVE  Sharers(w) = {w} <=> Alone(w)
  BY DEF Sharers, Alone

LEMMA WellFormed == Invariant => FileWellFormed
<1> SUFFICES ASSUME Invariant, NEW w \in 1..made
             PROVE  LET path == writer[w].path
                    IN /\ file[path][1] = "header"
                       /\ Sharers(w) = {w} =>
                            /\ Records(path) = 2..Len(file[path])
                            /\ \A i, j \in Records(path) :
                                 file[path][i] = file[path][j] => i = j
                            /\ \A i \in Records(path) : captured[file[path][i]] = w
  BY DEF FileWellFormed
<1> DEFINE cells == file[writer[w].path]
<1>1. Base
  BY DEF Invariant
<1>2. cells[1] = "header" /\ "header" \notin Packets
  BY <1>1, CaptureAssumption DEF Base, Shape
<1>3. ASSUME Alone(w)
      PROVE  /\ Records(writer[w].path) = 2..Len(cells)
             /\ \A i, j \in 2..Len(cells) : cells[i] = cells[j] => i = j
             /\ \A i \in 2..Len(cells) : captured[cells[i]] = w
  <2>1. Whole(w, Contents(w))
    BY <1>3 DEF Invariant, Streams, Tidy
  <2>2. /\ Len(Contents(w)) \in Nat /\ Len(cells) <= Len(Contents(w))
        /\ \A i \in 1..Len(cells) : Contents(w)[i] = cells[i]
    BY <1>1, ContentsLength
  <2>3. cells \in Seq(Cells) /\ Len(cells) >= 1
    BY <1>1, MadeWriter
  <2>4. Len(cells) \in Nat /\ DOMAIN cells = 1..Len(cells)
    BY <2>3
  <2>5. Records(writer[w].path) = {i \in 1..Len(cells) : cells[i] \in Packets}
    BY <2>4 DEF Records
  <2> HIDE DEF cells
  <2>6. \A i \in 2..Len(cells) : i \in 2..Len(Contents(w)) /\ Contents(w)[i] = cells[i]
    BY <2>2, <2>4
  <2>7. \A i \in 2..Len(cells) : cells[i] \in Packets /\ captured[cells[i]] = w
    BY <2>1, <2>6 DEF Whole, Own
  <2>8. \A i \in 1..Len(cells) : i = 1 \/ i \in 2..Len(cells)
    BY <2>4
  <2>9. 2..Len(cells) \subseteq 1..Len(cells)
    BY <2>4
  <2>10. Records(writer[w].path) = 2..Len(cells)
    <3>1. 1 \notin 2..Len(cells) /\ cells[1] \notin Packets
      BY <1>2, <2>4 DEF cells
    <3>2. QED
      BY <2>5, <2>7, <2>8, <2>9, <3>1
  <2>11. \A i, j \in 2..Len(cells) : cells[i] = cells[j] => i = j
    BY <2>1, <2>6 DEF Whole
  <2>12. QED
    BY <2>7, <2>10, <2>11
<1>4. QED
  BY <1>2, <1>3, SharersAlone

(* A file of a capture of its own second holds, after one header, whole    *)
(* records: no gap, none twice and none of another capture's               *)
(* (pcap.rs:27-85, main.rs:56-256).                                        *)
THEOREM FilesWellFormed == Spec => []FileWellFormed
  BY InvariantHolds, WellFormed, PTL

(* What stop_capture has answered for stays in the file, whatever late     *)
(* write tasks append behind it (main.rs:251-271).                         *)
THEOREM SavedFilesKept == Spec => []SavedFileKept
<1>1. Invariant => SavedFileKept
  BY SharersAlone DEF Invariant, Streams, Tidy, SavedFileKept
<1>2. QED
  BY <1>1, InvariantHolds, PTL

LEMMA NothingVanishes == Invariant => NoPacketVanishes
<1> SUFFICES ASSUME Invariant PROVE NoPacketVanishes
  OBVIOUS
<1>1. Base /\ TypeOK
  BY DEF Invariant, Base
<1>2. ASSUME crashes = 0, NEW k \in Packets, captured[k] # NULL,
             Sharers(captured[k]) = {captured[k]}
      PROVE  InMemory(k) \/ InFile(k)
  <2> DEFINE w == captured[k]  cells == file[writer[w].path]
  <2>1. w \in 1..made /\ w \in Writers
    BY <1>1, <1>2, MadeWriter DEF Base, Shape
  <2>2. Alone(w)
    BY <1>2, <2>1, SharersAlone
  <2>3. Complete(w, Contents(w)) /\ k \in Own(w)
    BY <1>2, <2>1, <2>2 DEF Invariant, Streams, Tidy, Own
  <2>4. CASE k \in Pending(w)
    BY <2>1, <2>4 DEF Pending, InMemory
  <2>5. CASE \E i \in 2..Len(Contents(w)) : Contents(w)[i] = k
    <3>1. PICK i \in 2..Len(Contents(w)) : Contents(w)[i] = k
      BY <2>5
    <3>2. /\ cells \in Seq(Cells) /\ writer[w].buf \in Seq(Packets)
          /\ Len(Contents(w)) = Len(cells) + Len(writer[w].buf)
      BY <1>1, <2>1, MadeWriter
    <3>3. \A n \in 1..Len(Contents(w)) : Contents(w)[n] =
            IF n <= Len(cells) THEN cells[n] ELSE writer[w].buf[n - Len(cells)]
      BY <1>1, <2>1, MadeWriter
    <3>4. /\ Len(cells) \in Nat /\ DOMAIN cells = 1..Len(cells)
          /\ Len(writer[w].buf) \in Nat
          /\ DOMAIN writer[w].buf = 1..Len(writer[w].buf)
      BY <3>2
    <3>5. i \in 1..Len(Contents(w)) /\ i \in Nat
      <4>1. Len(Contents(w)) \in Nat
        BY <1>1, <2>1, ContentsLength
      <4>2. QED
        BY <4>1
    <3>6. CASE i <= Len(cells)
      <4>1. i \in DOMAIN cells
        BY <3>4, <3>5, <3>6
      <4>2. cells[i] = k
        BY <3>1, <3>3, <3>5, <3>6
      <4>3. QED
        BY <4>1, <4>2 DEF InFile, Records
    <3>7. CASE ~(i <= Len(cells))
      <4>1. i - Len(cells) \in DOMAIN writer[w].buf
        <5> HIDE DEF cells, w
        <5>1. i <= Len(cells) + Len(writer[w].buf)
          BY <3>2, <3>5
        <5>2. i - Len(cells) \in 1..Len(writer[w].buf)
          BY <3>4, <3>5, <3>7, <5>1
        <5>3. QED
          BY <3>4, <5>2
      <4>2. writer[w].buf[i - Len(cells)] = k
        BY <3>1, <3>3, <3>5, <3>7
      <4>3. QED
        BY <2>1, <4>1, <4>2 DEF InMemory, ToSet
    <3>8. QED
      BY <3>6, <3>7
  <2>6. QED
    BY <2>3, <2>4, <2>5 DEF Complete
<1>3. ASSUME NEW w \in Writers PROVE Len(writer[w].buf) < FlushEvery * (faults + 1)
  <2>1. /\ Len(writer[w].buf) \in Nat /\ FlushEvery \in Nat \ {0} /\ faults \in Nat
        /\ writer[w].packet_count % FlushEvery \in 0..(FlushEvery - 1)
        /\ FlushEvery * faults \in Nat
    BY <1>1, WaitingFacts
  <2>2. Len(writer[w].buf)
          <= (writer[w].packet_count % FlushEvery) + FlushEvery * faults
    BY DEF Invariant, Waiting
  <2>3. FlushEvery * (faults + 1) = FlushEvery * faults + FlushEvery
    BY <2>1, FlushArithmetic
  <2> DEFINE due == FlushEvery * faults
  <2> HIDE DEF due
  <2>4. due \in Nat /\ Len(writer[w].buf) <= FlushEvery - 1 + due
    BY <2>1, <2>2 DEF due
  <2>5. Len(writer[w].buf) < due + FlushEvery
    BY <2>1, <2>4
  <2>6. QED
    BY <2>3, <2>5 DEF due
<1>4. QED
  BY <1>2, <1>3 DEF NoPacketVanishes

(* While the daemon lives, a packet the perf buffer took is in memory or   *)
(* in its file, and a buffer holds at most what the last due flush and     *)
(* the failed ones have left there (main.rs:130-246, pcap.rs:55-85).       *)
THEOREM NoPacketLost == Spec => []NoPacketVanishes
  BY InvariantHolds, NothingVanishes, PTL

-----------------------------------------------------------------------------
(* What is in a packet (PacketPath): one frame on its way from the XDP     *)
(* program to the signal and the record.                                   *)

PortPair == [src : Nat, dst : Nat, clear : BOOLEAN]
Logs     == [src_addr : Address, dst_addr : Address, src_port : Nat, dst_port : Nat,
             protocol : Byte, unencrypted : BOOLEAN, length : Nat]
Signals  == [src_ip : Address \cup {ARP}, dst_ip : Address \cup {None},
             protocol : Byte \cup {ARP}, length : Nat, unencrypted : BOOLEAN,
             src_port : Nat, dst_port : Nat]

LEMMA Reads ==
  ASSUME NEW f \in Seq(Byte), NEW i \in Nat
  PROVE  /\ Octet(f, i) \in Byte
         /\ U16(f, i) \in Nat
         /\ Octets(f, i, 4) \in Address
<1>1. \A j \in Nat : Octet(f, j) \in Byte
  <2>1. SUFFICES ASSUME NEW j \in Nat, j < Len(f) PROVE f[j + 1] \in Byte
    BY <2>1 DEF Octet, Byte
  <2>2. j + 1 \in 1..Len(f)
    BY <2>1
  <2>3. QED
    BY <2>2
<1>2. Octet(f, i) \in Int /\ Octet(f, i) >= 0 /\ Octet(f, i + 1) \in Int /\ Octet(f, i + 1) >= 0
  <2>1. i + 1 \in Nat
    OBVIOUS
  <2>2. Octet(f, i) \in Byte /\ Octet(f, i + 1) \in Byte
    BY <1>1, <2>1
  <2>3. \A x \in Byte : x \in Int /\ x >= 0
    BY DEF Byte
  <2>4. QED
    BY <2>2, <2>3
<1>3. U16(f, i) \in Nat
  BY <1>2 DEF U16
<1>4. Octets(f, i, 4) \in Address
  BY <1>1 DEF Octets, Address
<1>5. QED
  BY <1>1, <1>3, <1>4

LEMMA PortsRead ==
  ASSUME NEW f \in Seq(Byte), NEW off \in Nat, NEW proto \in Byte
  PROVE  LET ports == tcp_udp_ports(f, off, proto)
         IN IF proto \notin {6, 17} THEN ports = [src |-> 0, dst |-> 0, clear |-> FALSE]
            ELSE IF ~ptr_at(f, off, IF proto = 6 THEN 20 ELSE 8) THEN ports = None
            ELSE /\ ports \in PortPair
                 /\ ports.src = U16(f, off) /\ ports.dst = U16(f, off + 2)
<1>1. U16(f, off) \in Nat /\ U16(f, off + 2) \in Nat
  <2>1. \A i \in Nat : U16(f, i) \in Nat
    BY Reads
  <2>2. off + 2 \in Nat
    OBVIOUS
  <2>3. QED
    BY <2>1, <2>2
<1> DEFINE src   == U16(f, off)
           dst   == U16(f, off + 2)
           clear == InTheClear(proto, src, dst)
<1>2. clear \in BOOLEAN
  BY DEF InTheClear
<1>3. CASE proto \notin {6, 17}
  BY <1>3 DEF tcp_udp_ports
<1>4. CASE proto \in {6, 17} /\ ~ptr_at(f, off, IF proto = 6 THEN 20 ELSE 8)
  BY <1>4 DEF tcp_udp_ports
<1>5. CASE proto \in {6, 17} /\ ptr_at(f, off, IF proto = 6 THEN 20 ELSE 8)
  <2>1. tcp_udp_ports(f, off, proto) = [src |-> src, dst |-> dst, clear |-> clear]
    BY <1>5 DEF tcp_udp_ports
  <2> HIDE DEF src, dst, clear
  <2>2. tcp_udp_ports(f, off, proto) \in PortPair
        /\ tcp_udp_ports(f, off, proto).src = src /\ tcp_udp_ports(f, off, proto).dst = dst
    BY <1>1, <1>2, <2>1 DEF PortPair, src, dst
  <2>3. QED
    BY <1>5, <2>2 DEF src, dst
<1>6. QED
  BY <1>3, <1>4, <1>5

LEMMA PortsType ==
  ASSUME NEW f \in Seq(Byte), NEW off \in Nat, NEW proto \in Byte
  PROVE  tcp_udp_ports(f, off, proto) \in PortPair \cup {None}
<1>1. [src |-> 0, dst |-> 0, clear |-> FALSE] \in PortPair
  BY DEF PortPair
<1>2. QED
  BY <1>1, PortsRead

LEMMA NoneApart ==
  /\ None \notin PortPair /\ None \notin Logs /\ None \notin Signals
BY NoneAssumption DEF PortPair, Logs, Signals

(* A PacketLog is one, of whatever frame.                                  *)
LEMMA LogType ==
  ASSUME NEW f \in Seq(Byte)
  PROVE  try_netsentinel_capture_ebpf(f) \in Logs \cup {None}
<1>1. ArpLog(f) \in Logs
  BY DEF ArpLog, PacketLog, Logs, NoAddress, Address, Byte
<1>2. Ipv6Log(f) \in Logs \cup {None}
  <2> DEFINE protocol == Octet(f, EthLen + 6)
             ports    == tcp_udp_ports(f, EthLen + 40, protocol)
  <2>1. protocol \in Byte /\ Octets(f, EthLen + 8, 4) \in Address
        /\ Octets(f, EthLen + 24, 4) \in Address
    BY Reads DEF EthLen
  <2>2. ports \in PortPair \cup {None}
    BY <2>1, PortsType DEF EthLen
  <2>3. QED
    BY <2>1, <2>2 DEF Ipv6Log, PacketLog, Logs, PortPair
<1>3. Ipv4Log(f) \in Logs \cup {None}
  <2> DEFINE protocol == Octet(f, EthLen + 9)
             ports    == tcp_udp_ports(f, EthLen + Ipv4Len, protocol)
  <2>1. protocol \in Byte /\ Octets(f, EthLen + 12, 4) \in Address
        /\ Octets(f, EthLen + 16, 4) \in Address
    BY Reads DEF EthLen
  <2>2. ports \in PortPair \cup {None}
    BY <2>1, PortsType DEF EthLen, Ipv4Len
  <2>3. QED
    BY <2>1, <2>2 DEF Ipv4Log, PacketLog, Logs, PortPair
<1>4. QED
  BY <1>1, <1>2, <1>3 DEF try_netsentinel_capture_ebpf

(* A frame cut short is read like the whole one as far as it goes.         *)
CutFrom(cut, f) ==
  /\ cut \in Seq(Byte) /\ Len(cut) <= Len(f)
  /\ \A i \in Nat : i < Len(cut) => Octet(cut, i) = Octet(f, i)
  /\ \A i \in Nat : i + 2 <= Len(cut) => U16(cut, i) = U16(f, i)
  /\ \A i \in Nat : i + 4 <= Len(cut) => Octets(cut, i, 4) = Octets(f, i, 4)

LEMMA CutReads ==
  ASSUME NEW f \in Seq(Byte), NEW n \in 0..Len(f), NEW cut, cut = SubSeq(f, 1, n)
  PROVE  CutFrom(cut, f)
<1>1. cut \in Seq(Byte) /\ Len(cut) = n /\ \A i \in 1..n : cut[i] = f[i]
  <2>1. Len(f) \in Nat /\ n \in Nat /\ n <= Len(f) /\ \A i \in 1..n : f[i] \in Byte
    OBVIOUS
  <2>2. QED
    BY <2>1
<1>2. \A i \in Nat : i < n => Octet(cut, i) = Octet(f, i)
  <2>1. SUFFICES ASSUME NEW i \in Nat, i < n PROVE Octet(cut, i) = Octet(f, i)
    BY <2>1
  <2>2. i + 1 \in 1..n /\ i < Len(f)
    BY <2>1
  <2>3. QED
    BY <1>1, <2>1, <2>2 DEF Octet
<1>3. \A i \in Nat : i + 2 <= n => U16(cut, i) = U16(f, i)
  BY <1>2 DEF U16
<1>4. ASSUME NEW i \in Nat, i + 4 <= n PROVE Octets(cut, i, 4) = Octets(f, i, 4)
  <2>1. \A k \in 1..4 : Octet(cut, i + k - 1) = Octet(f, i + k - 1)
    BY <1>2, <1>4
  <2>2. QED
    BY <2>1 DEF Octets
<1>5. Len(cut) <= Len(f)
  BY <1>1
<1>6. QED
  BY <1>1, <1>2, <1>3, <1>4, <1>5 DEF CutFrom

LEMMA CutPorts ==
  ASSUME NEW f \in Seq(Byte), NEW cut, CutFrom(cut, f),
         NEW off \in Nat, NEW proto \in Byte, tcp_udp_ports(cut, off, proto) # None
  PROVE  tcp_udp_ports(f, off, proto) = tcp_udp_ports(cut, off, proto)
<1>1. /\ cut \in Seq(Byte) /\ Len(cut) \in Nat /\ Len(f) \in Nat /\ Len(cut) <= Len(f)
      /\ \A i \in Nat : i + 2 <= Len(cut) => U16(cut, i) = U16(f, i)
  BY DEF CutFrom
<1>2. CASE proto \notin {6, 17}
  BY <1>2 DEF tcp_udp_ports
<1>3. CASE proto \in {6, 17}
  <2> DEFINE size == IF proto = 6 THEN 20 ELSE 8
  <2>1. ptr_at(cut, off, size)
    BY <1>1, <1>3, PortsRead
  <2>2. ptr_at(f, off, size) /\ off + 2 <= Len(cut) /\ (off + 2) + 2 <= Len(cut)
    BY <1>1, <2>1 DEF ptr_at
  <2>3. U16(cut, off) = U16(f, off) /\ U16(cut, off + 2) = U16(f, off + 2)
    BY <1>1, <2>2
  <2>4. QED
    BY <2>1, <2>2, <2>3, <1>3 DEF tcp_udp_ports
<1>4. QED
  BY <1>2, <1>3

LEMMA LogOfLength ==
  ASSUME NEW f, NEW cut, NEW src, NEW dst, NEW protocol, NEW ports, NEW clear
  PROVE  PacketLog(cut, src, dst, protocol, ports, clear)
           = [PacketLog(f, src, dst, protocol, ports, clear) EXCEPT !.length = Len(cut)]
BY DEF PacketLog

LEMMA ArpOfLength ==
  ASSUME NEW f, NEW cut
  PROVE  ArpLog(cut) = [ArpLog(f) EXCEPT !.length = Len(cut)]
<1>1. PICK ports : ports = [src |-> 0, dst |-> 0]
  OBVIOUS
<1>2. PICK clear : clear = TRUE
  OBVIOUS
<1>3. /\ ArpLog(f) = PacketLog(f, NoAddress, NoAddress, 253, ports, clear)
      /\ ArpLog(cut) = PacketLog(cut, NoAddress, NoAddress, 253, ports, clear)
  BY <1>1, <1>2, Zenon DEF ArpLog
<1>4. QED
  BY <1>3, LogOfLength

LEMMA LogsOfLength ==
  ASSUME NEW f, NEW cut, NEW x, NEW y,
         \E src, dst, protocol, ports, clear :
           /\ x = PacketLog(f, src, dst, protocol, ports, clear)
           /\ y = PacketLog(cut, src, dst, protocol, ports, clear)
  PROVE  y = [x EXCEPT !.length = Len(cut)]
<1>1. PICK src, dst, protocol, ports, clear :
        /\ x = PacketLog(f, src, dst, protocol, ports, clear)
        /\ y = PacketLog(cut, src, dst, protocol, ports, clear)
  OBVIOUS
<1>2. QED
  BY <1>1, LogOfLength

LEMMA CutTells ==
  ASSUME NEW f \in Seq(Byte), NEW cut, CutFrom(cut, f),
         try_netsentinel_capture_ebpf(cut) # None
  PROVE  /\ try_netsentinel_capture_ebpf(f) # None
         /\ try_netsentinel_capture_ebpf(cut)
              = [try_netsentinel_capture_ebpf(f) EXCEPT !.length = Len(cut)]
<1>1. /\ cut \in Seq(Byte) /\ Len(cut) \in Nat /\ Len(f) \in Nat /\ Len(cut) <= Len(f)
  BY DEF CutFrom
<1>0. /\ \A i \in Nat : i < Len(cut) => Octet(cut, i) = Octet(f, i)
      /\ \A i \in Nat : i + 2 <= Len(cut) => U16(cut, i) = U16(f, i)
      /\ \A i \in Nat : i + 4 <= Len(cut) => Octets(cut, i, 4) = Octets(f, i, 4)
  BY DEF CutFrom
<1>2. 14 <= Len(cut)
  BY <1>1 DEF try_netsentinel_capture_ebpf, ptr_at, EthLen
<1>3. U16(cut, 12) = U16(f, 12)
  BY <1>0, <1>1, <1>2
<1>4. CASE U16(f, 12) = Arp
  <2>1. /\ try_netsentinel_capture_ebpf(cut) = ArpLog(cut)
        /\ try_netsentinel_capture_ebpf(f) = ArpLog(f)
    BY <1>1, <1>2, <1>3, <1>4 DEF try_netsentinel_capture_ebpf, ptr_at, EthLen
  <2>2. ArpLog(f) \in Logs
    BY <1>1 DEF ArpLog, PacketLog, Logs, NoAddress, Address, Byte
  <2>3. ArpLog(cut) = [ArpLog(f) EXCEPT !.length = Len(cut)]
    BY ArpOfLength
  <2>4. QED
    BY <2>1, <2>2, <2>3, NoneApart
<1>5. CASE U16(f, 12) = Ipv6
  <2> DEFINE protocol == Octet(f, EthLen + 6)
             ports    == tcp_udp_ports(f, EthLen + 40, protocol)
  <2>1. /\ try_netsentinel_capture_ebpf(cut) = Ipv6Log(cut)
        /\ try_netsentinel_capture_ebpf(f) = Ipv6Log(f)
    BY <1>1, <1>2, <1>3, <1>5 DEF try_netsentinel_capture_ebpf, ptr_at, EthLen, Arp, Ipv6
  <2>2. EthLen + 24 + 4 <= Len(cut)
    BY <1>1, <2>1 DEF Ipv6Log, ptr_at, EthLen
  <2>3. Octet(cut, EthLen + 6) = protocol
    BY <1>0, <1>1, <2>2 DEF EthLen
  <2>4. /\ Octets(cut, EthLen + 8, 4) = Octets(f, EthLen + 8, 4)
        /\ Octets(cut, EthLen + 24, 4) = Octets(f, EthLen + 24, 4)
    BY <1>0, <1>1, <2>2 DEF EthLen
  <2>5. protocol \in Byte /\ EthLen + 40 \in Nat
    BY Reads DEF EthLen
  <2>6. tcp_udp_ports(cut, EthLen + 40, protocol) # None
    BY <2>1, <2>3 DEF Ipv6Log
  <2>7. tcp_udp_ports(cut, EthLen + 40, protocol) = ports /\ ports # None
    BY <2>5, <2>6, CutPorts
  <2>8. ptr_at(f, EthLen + 24, 4) /\ ptr_at(cut, EthLen + 24, 4)
    BY <1>1, <2>2 DEF ptr_at, EthLen
  <2>9. /\ Ipv6Log(f) = PacketLog(f, Octets(f, EthLen + 8, 4), Octets(f, EthLen + 24, 4),
                                 protocol, ports, ports.clear)
        /\ Ipv6Log(cut) = PacketLog(cut, Octets(f, EthLen + 8, 4), Octets(f, EthLen + 24, 4),
                                   protocol, ports, ports.clear)
    BY <2>3, <2>4, <2>7, <2>8 DEF Ipv6Log
  <2>10. Ipv6Log(f) \in Logs
    <3>1. ports \in PortPair
      BY <2>5, <2>7, PortsType
    <3>2. Octets(f, EthLen + 8, 4) \in Address /\ Octets(f, EthLen + 24, 4) \in Address
      BY Reads DEF EthLen
    <3>3. QED
      BY <1>1, <2>5, <2>9, <3>1, <3>2 DEF PacketLog, Logs, PortPair
  <2>11. Ipv6Log(cut) = [Ipv6Log(f) EXCEPT !.length = Len(cut)]
    <3>1. PICK truth : truth = (ports.clear)
      OBVIOUS
    <3> DEFINE it(g) == PacketLog(g, Octets(f, EthLen + 8, 4), Octets(f, EthLen + 24, 4),
                                  protocol, ports, truth)
    <3>2. Ipv6Log(f) = it(f) /\ Ipv6Log(cut) = it(cut)
      BY <2>9, <3>1, Zenon
    <3>3. it(cut) = [it(f) EXCEPT !.length = Len(cut)]
      <4> HIDE DEF protocol, ports
      <4>1. QED
        BY LogOfLength
    <3> HIDE DEF it
    <3>4. QED
      BY <3>2, <3>3, Zenon
  <2>12. QED
    BY <2>1, <2>10, <2>11, NoneApart, Zenon
<1>6. CASE U16(f, 12) = Ipv4
  <2> DEFINE protocol == Octet(f, EthLen + 9)
             ports    == tcp_udp_ports(f, EthLen + Ipv4Len, protocol)
             clear    == ports.clear \/ protocol \in {1, 58}
  <2>1. /\ try_netsentinel_capture_ebpf(cut) = Ipv4Log(cut)
        /\ try_netsentinel_capture_ebpf(f) = Ipv4Log(f)
    BY <1>1, <1>2, <1>3, <1>6 DEF try_netsentinel_capture_ebpf, ptr_at, EthLen, Arp, Ipv6, Ipv4
  <2>2. EthLen + Ipv4Len <= Len(cut)
    BY <1>1, <2>1 DEF Ipv4Log, ptr_at, EthLen, Ipv4Len
  <2>3. Octet(cut, EthLen + 9) = protocol
    BY <1>0, <1>1, <2>2 DEF EthLen, Ipv4Len
  <2>4. /\ Octets(cut, EthLen + 12, 4) = Octets(f, EthLen + 12, 4)
        /\ Octets(cut, EthLen + 16, 4) = Octets(f, EthLen + 16, 4)
    BY <1>0, <1>1, <2>2 DEF EthLen, Ipv4Len
  <2>5. protocol \in Byte /\ EthLen + Ipv4Len \in Nat
    BY Reads DEF EthLen, Ipv4Len
  <2>6. tcp_udp_ports(cut, EthLen + Ipv4Len, protocol) # None
    BY <2>1, <2>3 DEF Ipv4Log
  <2>7. tcp_udp_ports(cut, EthLen + Ipv4Len, protocol) = ports /\ ports # None
    BY <2>5, <2>6, CutPorts
  <2>8. ptr_at(f, EthLen, Ipv4Len) /\ ptr_at(cut, EthLen, Ipv4Len)
    BY <1>1, <2>2 DEF ptr_at, EthLen, Ipv4Len
  <2>9. /\ Ipv4Log(f) = PacketLog(f, Octets(f, EthLen + 12, 4), Octets(f, EthLen + 16, 4),
                                 protocol, ports, clear)
        /\ Ipv4Log(cut) = PacketLog(cut, Octets(f, EthLen + 12, 4), Octets(f, EthLen + 16, 4),
                                   protocol, ports, clear)
    BY <2>3, <2>4, <2>7, <2>8 DEF Ipv4Log
  <2>10. Ipv4Log(f) \in Logs
    <3>1. ports \in PortPair
      BY <2>5, <2>7, PortsType
    <3>2. Octets(f, EthLen + 12, 4) \in Address /\ Octets(f, EthLen + 16, 4) \in Address
      BY Reads DEF EthLen
    <3>3. QED
      BY <1>1, <2>5, <2>9, <3>1, <3>2 DEF PacketLog, Logs, PortPair
  <2>11. Ipv4Log(cut) = [Ipv4Log(f) EXCEPT !.length = Len(cut)]
    <3>1. PICK truth : truth = (clear)
      OBVIOUS
    <3> DEFINE it(g) == PacketLog(g, Octets(f, EthLen + 12, 4), Octets(f, EthLen + 16, 4),
                                  protocol, ports, truth)
    <3>2. Ipv4Log(f) = it(f) /\ Ipv4Log(cut) = it(cut)
      BY <2>9, <3>1, Zenon
    <3>3. it(cut) = [it(f) EXCEPT !.length = Len(cut)]
      <4> HIDE DEF protocol, ports
      <4>1. QED
        BY LogOfLength
    <3> HIDE DEF it
    <3>4. QED
      BY <3>2, <3>3, Zenon
  <2>12. QED
    BY <2>1, <2>10, <2>11, NoneApart, Zenon
<1>7. QED
  BY <1>1, <1>2, <1>3, <1>4, <1>5, <1>6 DEF try_netsentinel_capture_ebpf

(* A plain IPv4 packet is read as it was sent.                             *)
LEMMA SentRead ==
  ASSUME NEW f \in Seq(Byte), NEW sent \in Sent, SentAs(f, sent)
  PROVE  LET it == try_netsentinel_capture_ebpf(f)
         IN /\ it \in Logs /\ it.length = Len(f)
            /\ it.src_addr = sent.src_ip /\ it.dst_addr = sent.dst_ip
            /\ it.protocol = sent.protocol /\ sent.protocol # 253
            /\ it.src_port = sent.src_port /\ it.dst_port = sent.dst_port
<1> DEFINE ports == tcp_udp_ports(f, EthLen + Ipv4Len, sent.protocol)
           clear == ports.clear \/ sent.protocol \in {1, 58}
<1>1. Len(f) \in Nat /\ Len(f) >= 34 /\ \A i \in 0..(Len(f) - 1) : Octet(f, i) = f[i + 1]
  <2>1. Len(f) >= 34
    BY DEF SentAs
  <2>2. \A i \in 0..(Len(f) - 1) : i < Len(f)
    OBVIOUS
  <2>3. \A i \in 0..(Len(f) - 1) : Octet(f, i) = f[i + 1]
    BY <2>2 DEF Octet
  <2>4. QED
    BY <2>1, <2>3
<1>2. U16(f, 12) = Ipv4 /\ Octet(f, EthLen + 9) = sent.protocol
  <2>1. Octet(f, 12) = f[13] /\ Octet(f, 12 + 1) = f[13 + 1] /\ Octet(f, 14 + 9) = f[24]
    BY <1>1 DEF Octet
  <2>2. QED
    BY <2>1 DEF SentAs, U16, EthLen
<1>3. /\ Octets(f, EthLen + 12, 4) = sent.src_ip
      /\ Octets(f, EthLen + 16, 4) = sent.dst_ip
  <2>1. \A i \in 26..33 : Octet(f, i) = f[i + 1]
    BY <1>1
  <2>2. Octets(f, 26, 4) = SubSeq(f, 27, 30)
    BY <1>1, <2>1 DEF Octets
  <2>3. Octets(f, 30, 4) = SubSeq(f, 31, 34)
    BY <1>1, <2>1 DEF Octets
  <2>4. EthLen + 12 = 26 /\ EthLen + 16 = 30
    BY DEF EthLen
  <2>5. QED
    BY <2>2, <2>3, <2>4 DEF SentAs
<1>4. ports \in PortPair /\ ports.src = sent.src_port /\ ports.dst = sent.dst_port
  <2>1. sent.protocol \in Byte /\ EthLen + Ipv4Len = 34
    BY DEF Sent, EthLen, Ipv4Len
  <2>2. CASE sent.protocol \notin {6, 17}
    <3>1. tcp_udp_ports(f, 34, sent.protocol) = [src |-> 0, dst |-> 0, clear |-> FALSE]
      BY <2>1, <2>2, PortsRead
    <3>2. sent.src_port = 0 /\ sent.dst_port = 0
      BY <2>2 DEF SentAs
    <3>3. ports = [src |-> 0, dst |-> 0, clear |-> FALSE]
      BY <2>1, <3>1, Zenon
    <3> HIDE DEF ports
    <3>4. QED
      BY <3>2, <3>3 DEF PortPair
  <2>3. CASE sent.protocol \in {6, 17}
    <3>1. Len(f) >= (IF sent.protocol = 6 THEN 54 ELSE 42)
      BY <2>3 DEF SentAs
    <3>2. ptr_at(f, 34, IF sent.protocol = 6 THEN 20 ELSE 8)
      BY <1>1, <3>1 DEF ptr_at
    <3>3. /\ Octet(f, 34) = f[35] /\ Octet(f, 34 + 1) = f[35 + 1]
          /\ Octet(f, 34 + 2) = f[37] /\ Octet(f, 34 + 2 + 1) = f[37 + 1]
      BY <1>1, <3>1 DEF Octet
    <3>4. U16(f, 34) = sent.src_port /\ U16(f, 34 + 2) = sent.dst_port
      BY <2>3, <3>3 DEF SentAs, U16
    <3>5. tcp_udp_ports(f, 34, sent.protocol) \in PortPair
          /\ tcp_udp_ports(f, 34, sent.protocol).src = sent.src_port
          /\ tcp_udp_ports(f, 34, sent.protocol).dst = sent.dst_port
      BY <2>1, <2>3, <3>2, <3>4, PortsRead
    <3>6. QED
      BY <2>1, <3>5, Zenon
  <2>4. QED
    BY <2>2, <2>3
<1>5. ptr_at(f, 0, EthLen) /\ ptr_at(f, EthLen, Ipv4Len)
  BY <1>1 DEF ptr_at, EthLen, Ipv4Len
<1>6. try_netsentinel_capture_ebpf(f) = Ipv4Log(f)
  BY <1>2, <1>5 DEF try_netsentinel_capture_ebpf, Arp, Ipv6, Ipv4
<1>7. Ipv4Log(f) = PacketLog(f, sent.src_ip, sent.dst_ip, sent.protocol, ports, clear)
  BY <1>2, <1>3, <1>4, <1>5, NoneApart DEF Ipv4Log
<1>8. QED
  BY <1>1, <1>4, <1>6, <1>7 DEF PacketLog, Logs, PortPair, Sent

(* Where the parts of a record come to stand.                              *)
Long(s, n)      == s \in Seq(Byte) /\ Len(s) = n
Joined(u, s, t) == u = s \o t
Stands(u, n, s) == /\ n + Len(s) <= Len(u)
                   /\ \A i \in 1..Len(s) : u[n + i] = s[i]
Keeps(u, v)     == \A n \in Nat, s \in Seq(Byte) : Stands(u, n, s) => Stands(v, n, s)

LEMMA JoinedLong ==
  ASSUME NEW s, NEW t, NEW u, Joined(u, s, t), NEW n \in Nat, NEW m \in Nat, NEW l,
         Long(s, n), Long(t, m), l = n + m
  PROVE  Long(u, l) /\ Stands(u, n, t) /\ Keeps(s, u)
<1>1. /\ s \in Seq(Byte) /\ Len(s) = n /\ t \in Seq(Byte) /\ Len(t) = m
  BY DEF Long
<1>2. /\ u \in Seq(Byte) /\ Len(u) = l
      /\ \A i \in 1..n + m : u[i] = IF i <= n THEN s[i] ELSE t[i - n]
  BY <1>1, ConcatProperties DEF Joined
<1>3. \A i \in 1..m : u[n + i] = t[i]
  <2>1. \A i \in 1..m : n + i \in 1..n + m /\ ~(n + i <= n) /\ (n + i) - n = i
    OBVIOUS
  <2>2. QED
    BY <1>2, <2>1
<1>4. ASSUME NEW k \in Nat, NEW x \in Seq(Byte), Stands(s, k, x)
      PROVE  Stands(u, k, x)
  <2>1. Len(x) \in Nat /\ k + Len(x) <= n /\ \A i \in 1..Len(x) : s[k + i] = x[i]
    BY <1>1, <1>4 DEF Stands
  <2>2. \A i \in 1..Len(x) : k + i \in 1..n + m /\ k + i <= n
    BY <2>1
  <2>3. \A i \in 1..Len(x) : u[k + i] = x[i]
    BY <1>2, <2>1, <2>2
  <2>4. k + Len(x) <= Len(u)
    BY <1>2, <2>1
  <2>5. QED
    BY <2>3, <2>4 DEF Stands
<1>5. Stands(u, n, t)
  BY <1>1, <1>2, <1>3 DEF Stands
<1>6. QED
  BY <1>2, <1>4, <1>5 DEF Long, Keeps

LEMMA KeepsOn ==
  ASSUME NEW u, NEW v, Keeps(u, v)
  PROVE  \A w : Keeps(v, w) => Keeps(u, w)
BY DEF Keeps

LEMMA AsSequence ==
  ASSUME NEW n \in Nat, NEW a \in [1..n -> Byte]
  PROVE  Long(a, n)
BY DEF Long

LEMMA StandsRead ==
  ASSUME NEW f \in Seq(Byte), NEW n \in Nat, NEW s, NEW m \in Nat, Long(s, m),
         Stands(f, n, s)
  PROVE  \A i \in Nat : i < m => Octet(f, n + i) = s[i + 1]
<1>1. SUFFICES ASSUME NEW i \in Nat, i < m PROVE Octet(f, n + i) = s[i + 1]
  OBVIOUS
<1>2. /\ n + m <= Len(f) /\ Len(f) \in Nat /\ \A k \in 1..m : f[n + k] = s[k]
  BY DEF Stands, Long
<1>3. i + 1 \in 1..m /\ n + i < Len(f) /\ (n + i) + 1 = n + (i + 1)
  BY <1>1, <1>2
<1>4. Octet(f, n + i) = f[n + (i + 1)]
  BY <1>3 DEF Octet
<1>5. QED
  BY <1>2, <1>3, <1>4

LEMMA RecordTells ==
  ASSUME NEW src, NEW dst, Parsed(src) \in Address, Parsed(dst) \in Address,
         NEW protocol \in Byte, NEW payload \in Seq(Byte)
  PROVE  LET record_of == build_pseudo_ethernet(src, dst, protocol, payload)
         IN /\ U16(record_of, 12) = Ipv4
            /\ Octets(record_of, EthLen + 12, 4) = Parsed(src)
            /\ Octets(record_of, EthLen + 16, 4) = Parsed(dst)
            /\ Octet(record_of, EthLen + 9) = protocol
<1> DEFINE ones == [k \in 1..6 |-> 255]
           zeros == [k \in 1..6 |-> 0]
           type  == <<8, 0>>
           version == <<69, 0>>
           long  == ToLe(20 + Len(payload))
           proto == <<64, protocol>>
           mac  == ones \o zeros
           eth  == mac \o type
           top  == eth \o version
           size == top \o long
           id   == size \o ToLe(0)
           df   == id \o ToLe(16384)
           ttl  == df \o proto
           sum  == ttl \o ToLe(0)
           from == sum \o Parsed(src)
           to   == from \o Parsed(dst)
           rec  == to \o payload
<1>1. build_pseudo_ethernet(src, dst, protocol, payload) = rec
  BY DEF build_pseudo_ethernet
(* The parts of it.                                                        *)
<1>2. Long(ones, 6) /\ Long(zeros, 6)
  <2>1. ones \in [1..6 -> Byte] /\ zeros \in [1..6 -> Byte]
    BY DEF Byte
  <2>2. QED
    BY <2>1, AsSequence
<1>3. Long(type, 2) /\ Long(version, 2) /\ Long(proto, 2)
  BY DEF Byte, Long
<1>4. Long(long, 2) /\ Long(ToLe(0), 2) /\ Long(ToLe(16384), 2)
  <2>1. \A n \in Nat : Long(ToLe(n), 2)
    BY DEF ToLe, Byte, Long
  <2>2. 20 + Len(payload) \in Nat /\ 0 \in Nat /\ 16384 \in Nat
    OBVIOUS
  <2>3. QED
    BY <2>1, <2>2
<1>5. Long(Parsed(src), 4) /\ Long(Parsed(dst), 4)
  BY AsSequence DEF Address
<1>6. Long(payload, Len(payload)) /\ Len(payload) \in Nat
  BY DEF Long
(* They are put one behind the other.                                      *)
<1>7. /\ Joined(mac, ones, zeros) /\ Joined(eth, mac, type) /\ Joined(top, eth, version)
      /\ Joined(size, top, long) /\ Joined(id, size, ToLe(0))
      /\ Joined(df, id, ToLe(16384)) /\ Joined(ttl, df, proto) /\ Joined(sum, ttl, ToLe(0))
      /\ Joined(from, sum, Parsed(src)) /\ Joined(to, from, Parsed(dst))
      /\ Joined(rec, to, payload)
  BY DEF Joined
<1>8. /\ rec \in Seq(Byte)
      /\ Stands(rec, 12, type) /\ Stands(rec, 22, proto)
      /\ Stands(rec, 26, Parsed(src)) /\ Stands(rec, 30, Parsed(dst))
  <2> HIDE DEF ones, zeros, type, version, long, proto
  <2> HIDE DEF mac, eth, top, size, id, df, ttl, sum, from, to, rec
  <2>1. Long(mac, 12)
    BY <1>2, <1>7, JoinedLong
  <2>2. Long(eth, 14) /\ Stands(eth, 12, type)
    BY <1>3, <1>7, <2>1, JoinedLong
  <2>3. Long(top, 16) /\ Keeps(eth, top)
    BY <1>3, <1>7, <2>2, JoinedLong
  <2>4. Long(size, 18) /\ Keeps(top, size)
    BY <1>4, <1>7, <2>3, JoinedLong
  <2>5. Long(id, 20) /\ Keeps(size, id)
    BY <1>4, <1>7, <2>4, JoinedLong
  <2>6. Long(df, 22) /\ Keeps(id, df)
    BY <1>4, <1>7, <2>5, JoinedLong
  <2>7. Long(ttl, 24) /\ Keeps(df, ttl) /\ Stands(ttl, 22, proto)
    BY <1>3, <1>7, <2>6, JoinedLong
  <2>8. Long(sum, 26) /\ Keeps(ttl, sum)
    BY <1>4, <1>7, <2>7, JoinedLong
  <2>9. Long(from, 30) /\ Keeps(sum, from) /\ Stands(from, 26, Parsed(src))
    BY <1>5, <1>7, <2>8, JoinedLong
  <2>10. Long(to, 34) /\ Keeps(from, to) /\ Stands(to, 30, Parsed(dst))
    BY <1>5, <1>7, <2>9, JoinedLong
  <2>11. rec \in Seq(Byte) /\ Keeps(to, rec)
    <3>1. Long(rec, 34 + Len(payload)) /\ Keeps(to, rec)
      BY <1>6, <1>7, <2>10, JoinedLong
    <3>2. QED
      BY <3>1 DEF Long
  <2>12. Keeps(from, rec) /\ Keeps(sum, rec) /\ Keeps(ttl, rec)
    BY <2>8, <2>9, <2>10, <2>11, KeepsOn
  <2>13. Keeps(eth, rec)
    BY <2>3, <2>4, <2>5, <2>6, <2>7, <2>12, KeepsOn
  <2>14. /\ type \in Seq(Byte) /\ proto \in Seq(Byte)
         /\ Parsed(src) \in Seq(Byte) /\ Parsed(dst) \in Seq(Byte)
    BY <1>3, <1>5 DEF Long
  <2>15. Stands(rec, 12, type) /\ Stands(rec, 22, proto)
    BY <2>2, <2>7, <2>12, <2>13, <2>14 DEF Keeps
  <2>16. Stands(rec, 26, Parsed(src)) /\ Stands(rec, 30, Parsed(dst))
    BY <2>9, <2>10, <2>11, <2>12, <2>14 DEF Keeps
  <2>17. QED
    BY <2>11, <2>15, <2>16
<1> HIDE DEF rec
(* And so they are read back.                                              *)
<1>9. U16(rec, 12) = Ipv4
  <2>1. \A i \in Nat : i < 2 => Octet(rec, 12 + i) = type[i + 1]
    <3> HIDE DEF type
    <3>1. QED
      BY <1>3, <1>8, StandsRead
  <2>2. Octet(rec, 12) = 8 /\ Octet(rec, 12 + 1) = 0
    <3>1. Octet(rec, 12 + 0) = type[0 + 1] /\ Octet(rec, 12 + 1) = type[1 + 1]
      BY <2>1
    <3>2. QED
      BY <3>1
  <2>3. QED
    BY <2>2 DEF U16, Ipv4
<1>10. Octet(rec, EthLen + 9) = protocol
  <2>1. Octet(rec, 22 + 1) = proto[2]
    <3> HIDE DEF proto
    <3>1. \A i \in Nat : i < 2 => Octet(rec, 22 + i) = proto[i + 1]
      BY <1>3, <1>8, StandsRead
    <3>2. Octet(rec, 22 + 1) = proto[1 + 1]
      BY <3>1
    <3>3. QED
      BY <3>2
  <2>2. proto[2] = protocol
    OBVIOUS
  <2>3. EthLen + 9 = 22 + 1
    BY DEF EthLen
  <2>4. QED
    BY <2>1, <2>2, <2>3, Zenon
<1>11. Octets(rec, EthLen + 12, 4) = Parsed(src) /\ Octets(rec, EthLen + 16, 4) = Parsed(dst)
  <2>1. ASSUME NEW a \in Address, NEW n \in Nat, Stands(rec, n, a)
        PROVE  Octets(rec, n, 4) = a
    <3>1. Long(a, 4)
      BY AsSequence DEF Address
    <3>2. \A i \in Nat : i < 4 => Octet(rec, n + i) = a[i + 1]
      BY <1>8, <2>1, <3>1, StandsRead
    <3>3. \A k \in 1..4 : /\ k - 1 \in Nat /\ k - 1 < 4
                          /\ n + (k - 1) = n + k - 1 /\ (k - 1) + 1 = k
      OBVIOUS
    <3>4. \A k \in 1..4 : Octet(rec, n + k - 1) = a[k]
      BY <3>2, <3>3
    <3>5. QED
      BY <3>4 DEF Octets, Address
  <2>2. EthLen + 12 = 26 /\ EthLen + 16 = 30
    BY DEF EthLen
  <2>3. QED
    BY <1>8, <2>1, <2>2
<1>12. QED
  BY <1>1, <1>9, <1>10, <1>11, Zenon

(* Where a frame is, and what is known of it by then.                      *)
Known ==
  LET seen == try_netsentinel_capture_ebpf(frame.octets)
  IN /\ frame \in Frames
     /\ pc = "wire" => signal = None /\ record = None
     /\ pc = "reader" => log = seen /\ seen # None /\ signal = None /\ record = None
     /\ pc = "done" =>
          \/ seen = None /\ signal = None /\ record = None
          \/ /\ log = seen /\ seen # None
             /\ signal = CapturedPacket
             /\ record = build_pseudo_ethernet(Src, Dst, log.protocol, Payload)
     /\ pc \in {"wire", "reader", "done"}

LEMMA KnownAlways == PathSpec => []Known
<1>1. Arrives => Known
  BY DEF Arrives, Known
<1>2. Known /\ [PathNext]_passing => Known'
  <2> SUFFICES ASSUME Known, [PathNext]_passing PROVE Known'
    OBVIOUS
  <2>1. CASE Observe
    BY <2>1 DEF Observe, Known
  <2>2. CASE Forward
    BY <2>2 DEF Forward, Known, CapturedPacket, Src, Dst, Payload, Behind
  <2>3. CASE UNCHANGED passing
    BY <2>3 DEF passing, Known, CapturedPacket, Src, Dst, Payload, Behind
  <2>4. QED
    BY <2>1, <2>2, <2>3 DEF PathNext
<1>3. QED
  BY <1>1, <1>2, PTL DEF PathSpec

LEMMA FrameSeen ==
  ASSUME Known, try_netsentinel_capture_ebpf(frame.octets) # None
  PROVE  try_netsentinel_capture_ebpf(frame.octets) \in Logs
BY FrameAssumption, LogType DEF Known

LEMMA SignalIs ==
  ASSUME log \in Logs
  PROVE  /\ CapturedPacket # None
         /\ CapturedPacket.src_ip = Src /\ CapturedPacket.dst_ip = Dst
         /\ CapturedPacket.src_port = log.src_port /\ CapturedPacket.dst_port = log.dst_port
         /\ CapturedPacket.length = log.length
         /\ CapturedPacket.protocol = IF log.protocol = 253 THEN ARP ELSE log.protocol
<1>1. CapturedPacket \in Signals
  BY DEF CapturedPacket, Signals, Logs, Src, Dst
<1>2. QED
  BY <1>1, NoneApart DEF CapturedPacket

(* A plain IPv4 packet is signalled as its sender meant it, and a frame    *)
(* cut anywhere is told of as the whole one or not at all: no field of any *)
(* frame is read from behind its end (ebpf main.rs:30-131, main.rs:164-213 *)
(* of the daemon).                                                         *)
THEOREM SignalsTellPackets == PathSpec => []SignalTellsPacket
<1>1. Known => SignalTellsPacket
  <2> SUFFICES ASSUME Known PROVE SignalTellsPacket
    OBVIOUS
  <2> DEFINE seen == try_netsentinel_capture_ebpf(frame.octets)
  <2>1. /\ frame.whole \in Seq(Byte) /\ frame.octets \in Seq(Byte)
        /\ \E n \in 0..Len(frame.whole) : frame.octets = SubSeq(frame.whole, 1, n)
        /\ frame.sent # None => frame.sent \in Sent /\ SentAs(frame.octets, frame.sent)
    BY FrameAssumption DEF Known
  <2>2. ASSUME pc = "done", frame.sent # None
        PROVE  /\ signal # None
               /\ \A field \in DOMAIN frame.sent : signal[field] = frame.sent[field]
               /\ signal.length = Len(frame.octets)
    <3>1. /\ seen \in Logs /\ seen.length = Len(frame.octets)
          /\ seen.src_addr = frame.sent.src_ip /\ seen.dst_addr = frame.sent.dst_ip
          /\ seen.protocol = frame.sent.protocol /\ frame.sent.protocol # 253
          /\ seen.src_port = frame.sent.src_port /\ seen.dst_port = frame.sent.dst_port
      <4>1. /\ frame.octets \in Seq(Byte) /\ frame.sent \in Sent
            /\ SentAs(frame.octets, frame.sent)
        BY <2>1, <2>2
      <4>2. QED
        BY <4>1, SentRead, Zenon
    <3>2. seen # None
      BY <3>1, NoneApart
    <3>3. log = seen /\ signal = CapturedPacket
      BY <2>2, <3>2 DEF Known
    <3> HIDE DEF seen
    <3>4. /\ signal # None /\ signal.src_ip = frame.sent.src_ip
          /\ signal.dst_ip = frame.sent.dst_ip /\ signal.protocol = frame.sent.protocol
          /\ signal.src_port = frame.sent.src_port /\ signal.dst_port = frame.sent.dst_port
          /\ signal.length = Len(frame.octets)
      BY <3>1, <3>3, SignalIs DEF Src, Dst
    <3>5. DOMAIN frame.sent = {"src_ip", "dst_ip", "protocol", "src_port", "dst_port"}
      BY <2>1, <2>2 DEF Sent
    <3>6. QED
      BY <3>4, <3>5
  <2>3. ASSUME pc = "reader"
        PROVE  LET whole == try_netsentinel_capture_ebpf(frame.whole)
               IN whole # None /\ log = [whole EXCEPT !.length = Len(frame.octets)]
    <3>1. log = seen /\ seen # None
      BY <2>3 DEF Known
    <3>2. CutFrom(frame.octets, frame.whole)
      BY <2>1, CutReads
    <3>3. QED
      BY <2>1, <3>1, <3>2, CutTells
  <2>4. QED
    BY <2>2, <2>3 DEF SignalTellsPacket
<1>2. QED
  BY <1>1, KnownAlways, PTL

(* The record and the signal of a packet agree on its addresses and its    *)
(* protocol, of whatever frame (main.rs:164-243, pcap.rs:95-130).          *)
THEOREM FilesAgreeWithSignals == PathSpec => []FileAgreesWithSignal
<1>1. Known => FileAgreesWithSignal
  <2> SUFFICES ASSUME Known, record # None
               PROVE  /\ U16(record, 12) = Ipv4
                      /\ Octets(record, EthLen + 12, 4) = Parsed(signal.src_ip)
                      /\ Octets(record, EthLen + 16, 4) = Parsed(signal.dst_ip)
                      /\ signal.protocol \in {ARP, Octet(record, EthLen + 9)}
    BY DEF FileAgreesWithSignal
  <2>1. /\ try_netsentinel_capture_ebpf(frame.octets) # None
        /\ log = try_netsentinel_capture_ebpf(frame.octets) /\ signal = CapturedPacket
        /\ record = build_pseudo_ethernet(Src, Dst, log.protocol, Payload)
    BY DEF Known
  <2>2. log \in Logs
    BY <2>1, FrameSeen
  <2>3. log.protocol \in Byte /\ log.src_addr \in Address /\ log.dst_addr \in Address
    BY <2>2 DEF Logs
  <2>4. Parsed(Src) \in Address /\ Parsed(Dst) \in Address
    <3>1. NoAddress \in Address
      BY DEF NoAddress, Address, Byte
    <3>2. QED
      BY <2>3, <3>1 DEF Parsed, Src, Dst
  <2>5. Payload \in Seq(Byte)
    <3>1. <<>> \in Seq(Byte) /\ Len(<<>>) = 0
      OBVIOUS
    <3>2. log.length \in Nat
      BY <2>2 DEF Logs
    <3>3. CASE log.length <= Len(Behind)
      <4>1. log.length = 0
        BY <3>1, <3>2, <3>3 DEF Behind
      <4>2. SubSeq(Behind, 1, 0) = <<>>
        BY DEF Behind
      <4>3. QED
        BY <3>1, <3>3, <4>1, <4>2 DEF Payload
    <3>4. CASE ~(log.length <= Len(Behind))
      BY <3>1, <3>4 DEF Payload
    <3>5. QED
      BY <3>3, <3>4
  <2>6. QED
    BY <2>1, <2>2, <2>3, <2>4, <2>5, RecordTells, SignalIs
<1>2. QED
  BY <1>1, KnownAlways, PTL
=============================================================================

----------------------------- MODULE RadioFilter -----------------------------
(***************************************************************************)
(* Class radiofilter (src/src/radiofilter.cpp): the video of a radio       *)
(* channel's MPEG transport stream is replaced in place, chunk by chunk as *)
(* the stream below it is read.                                            *)
(*                                                                         *)
(* A packet is a record: its kind (a program association table "pat", a    *)
(* program map table "pmt", a piece of an elementary stream "pes", or      *)
(* "null"), its pid, the entries of a pat (program number and pid of its   *)
(* pmt) with the number of sections it claims, and the streams of a pmt.   *)
(* A table fits in its packet, as those of a filtered program do.  Bytes,  *)
(* adaptation fields, descriptors and checksums are left out.              *)
(***************************************************************************)
EXTENDS Integers, Sequences

CONSTANTS
  PacketLength,  \* MPEGTS_PACKET_LENGTH
  PatPid,        \* the pid of the program association table, zero
  NoPid          \* the pid of null packets

ASSUME RadioFilterAssumption == PacketLength \in Nat \ {0} /\ PatPid # NoPid

NullPacket == [kind |-> "null", pid |-> NoPid, entries |-> <<>>, sections |-> 0,
               streams |-> <<>>]

\* A new filter.
NewFilter == [enabled |-> TRUE, pmts |-> {}, videos |-> {}]

\* The program map tables that a pat names.  The loop counts sections but steps over
\* entries: it reads as many entries as the pat claims to have sections.
PmtPids(p) ==
  {p.entries[i].pid : i \in {j \in 1..Len(p.entries) :
                               j <= p.sections /\ p.entries[j].program # 0}}

VideoPids(p) ==
  {p.streams[i].pid : i \in {j \in DOMAIN p.streams : p.streams[j].type = "video"}}

\* A pmt's video streams get a forbidden type.
Hidden(p) ==
  [p EXCEPT !.streams = [i \in DOMAIN p.streams |->
                           IF p.streams[i].type = "video"
                             THEN [p.streams[i] EXCEPT !.type = "forbidden"]
                             ELSE p.streams[i]]]

\* Fault: every stream of a pmt is taken for video.
FilterPacketAnyStream(acc, p) ==
  LET f == acc.filter
      Emit(g, q) == [filter |-> g, out |-> Append(acc.out, q)]
  IN  CASE p.pid = PatPid -> Emit([f EXCEPT !.pmts = @ \cup PmtPids(p)], p)
        [] p.pid # PatPid /\ p.kind = "pmt" /\ p.pid \in f.pmts ->
             Emit([f EXCEPT !.videos = @ \cup {p.streams[i].pid : i \in DOMAIN p.streams}],
                  Hidden(p))
        [] OTHER -> Emit(f, IF p.pid \in f.videos THEN NullPacket ELSE p)

\* One packet: what the filter knows after it, and what becomes of it.
FilterPacket(acc, p) ==
  LET f == acc.filter
      Emit(g, q) == [filter |-> g, out |-> Append(acc.out, q)]
  IN  CASE p.pid = PatPid -> Emit([f EXCEPT !.pmts = @ \cup PmtPids(p)], p)
        [] p.pid # PatPid /\ p.kind = "pmt" /\ p.pid \in f.pmts ->
             Emit([f EXCEPT !.videos = @ \cup VideoPids(p)], Hidden(p))
        [] OTHER -> Emit(f, IF p.pid \in f.videos THEN NullPacket ELSE p)

\* The packets of a chunk, one after the other.
Filtered(f, chunk) ==
  LET after[n \in 0 .. Len(chunk)] ==
        IF n = 0 THEN [filter |-> f, out |-> <<>>] ELSE FilterPacket(after[n - 1], chunk[n])
  IN  after[Len(chunk)]

\* Where the whole packets of a chunk are taken to begin: the chunk is "supposed to
\* always end the buffer aligned".
FirstPacket(from, to) == from + ((to - from) % PacketLength)

\* filter_packets() on the bytes from .. to - 1 of a stream of packets.  A packet that
\* does not begin with the sync byte is the end of filtering; nothing else notices.
FilterChunk(f, packets, from, to) ==
  LET start == FirstPacket(from, to)
      chunk == SubSeq(packets, start \div PacketLength + 1, to \div PacketLength)
  IN  IF ~f.enabled \/ to - start < PacketLength THEN [filter |-> f, out |-> chunk]
      ELSE IF start % PacketLength # 0
             THEN [filter |-> [f EXCEPT !.enabled = FALSE], out |-> chunk]
             ELSE Filtered(f, chunk)

-----------------------------------------------------------------------------
(* What the filter promises, of the packets it was fed and those it passed. *)

\* A pat before the i-th packet named the pmt with that pid.
Named(fed, pid, i) ==
  \E j \in 1..(i - 1) : fed[j].kind = "pat" /\ \E e \in 1..Len(fed[j].entries) :
    fed[j].entries[e].program # 0 /\ fed[j].entries[e].pid = pid

\* The pids that were announced as video before the i-th packet, by a pmt that a pat
\* had named.
Announced(fed, i) ==
  UNION {VideoPids(fed[k]) : k \in {m \in 1..(i - 1) :
           fed[m].kind = "pmt" /\ Named(fed, fed[m].pid, m)}}

\* No packet of announced video is passed, and no named pmt shows video.
VideoStops(fed, out) ==
  \A i \in DOMAIN out :
    /\ out[i].kind = "pes" => out[i].pid \notin Announced(fed, i)
    /\ out[i].kind = "pmt" /\ VideoPids(out[i]) # {} => ~Named(fed, out[i].pid, i)

\* Whatever was never announced as video arrives as it was sent, and so do the streams
\* of a pmt that are not video.
SoundPasses(fed, out) ==
  /\ Len(out) = Len(fed)
  /\ \A i \in DOMAIN fed :
       /\ fed[i].kind = "pat" => out[i] = fed[i]
       /\ fed[i].kind = "pes" /\ fed[i].pid \notin Announced(fed, i) => out[i] = fed[i]
       /\ fed[i].kind = "pmt" => \A k \in DOMAIN fed[i].streams :
            fed[i].streams[k].type # "video" => out[i].streams[k] = fed[i].streams[k]
=============================================================================


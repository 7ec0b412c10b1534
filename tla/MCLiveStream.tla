----------------------------- MODULE MCLiveStream -----------------------------
(* Two tuners of one device and a legacy device with one; a program that changes the *)
(* pid of its video. *)
EXTENDS LiveStream, TLC

CONSTANTS hdhr, old, t0, t1, t2

MCDeviceOf == t0 :> hdhr @@ t1 :> hdhr @@ t2 :> old

TunerSymmetry == Permutations({t0, t1})

Packet(k, p) == [NullPacket EXCEPT !.kind = k, !.pid = p]

Pat == [Packet("pat", 0) EXCEPT !.entries = <<[program |-> 1, pid |-> 1]>>, !.sections = 1]

Pmt(v, a) ==
  [Packet("pmt", 1) EXCEPT !.streams = <<[type |-> "video", pid |-> v], [type |-> "audio", pid |-> a]>>]

MCBroadcast ==
  <<Pat, Pmt(2, 3), Packet("pes", 2), Packet("pes", 3), Pmt(4, 3), Packet("pes", 4)>>

\* The theorems about the filter speak of this instance.
ASSUME MCBroadcastIsProper == WholePackets /\ ProperBroadcast
=============================================================================

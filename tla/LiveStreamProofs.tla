--------------------------- MODULE LiveStreamProofs ---------------------------
(***************************************************************************)
(* Proofs about the stream that Kodi plays, for any devices, tuners,       *)
(* storage engines and broadcast: tuners are returned, the scheduler is    *)
(* paused as long as it should be, a tuner that is free all the time is    *)
(* found, and the radio filter stays on and lets through sound only.       *)
(*                                                                         *)
(* The arguments go along the steps of a call: at each it is known whether *)
(* there is a stream yet, which tuner is locked and whether the scheduler  *)
(* is paused, so that the step that fails undoes what was done before it.  *)
(* A tuner that is free during the whole call may be selected and released *)
(* again by a request that fails, and is free when the last route looks    *)
(* for one.                                                                *)
(*                                                                         *)
(* The filter is fed by reads only.  Each ends with a packet, wherever it  *)
(* began, so that the chunk that is filtered is one of whole packets.  The *)
(* filter then knows what the packets it was fed have told, and this is    *)
(* kept along a chunk, packet by packet: the induction is over sets of     *)
(* numbers, by a least one that is missing.                                *)
(***************************************************************************)
EXTENDS LiveStream, SequenceTheorems, WellFoundedInduction, TLAPS

\* Where a call has no stream yet, or none any more.
Closed == {"query", "storage", "tuners", "unlock", "http", "device", "channel",
           "program", "start", "recording", "failed"}

Types ==
  /\ owner \in [Tuners -> {"nobody", "addon", "stream", "other"}]
  /\ settings \in Settings /\ pc \in Steps
  /\ paused \in BOOLEAN /\ call.pause \in BOOLEAN
  /\ pc \notin {"idle", "failed"} => call.op \in {"live", "recorded"}
  /\ pc \in Closed \ {"recording", "failed"} => call.op = "live"
  /\ pc = "recording" => call.op = "recorded"
  /\ DOMAIN stream = {"kind", "tuner", "radio", "pos"}
  /\ pc \in {"unlock", "http", "channel", "program", "start"} => tuner \in Tuners

\* Whether there is a stream follows from where the call is; it has a tuner if it is the
\* stream of one.
Streams ==
  /\ stream = NoStream \/ stream.kind # "none"
  /\ stream.kind \notin {"http", "device"} => stream.tuner = NoTuner
  /\ pc \in Closed => stream = NoStream
  /\ pc \in {"filter", "times"} => stream # NoStream
  /\ pc = "pause" => (stream = NoStream <=> call.op = "recorded")
  /\ pc = "filter" => (call.op = "recorded" <=> stream.kind = "recorded")

\* The scheduler is paused from the step that pauses it on.
Paused ==
  /\ pc = "idle" => (paused <=> stream # NoStream /\ call.pause)
  /\ pc \in Closed \ {"recording"} \/ pc = "pause" => ~paused
  /\ pc = "filter" /\ call.op = "live" => ~paused
  /\ pc = "filter" /\ call.op = "recorded" => (paused <=> call.pause)
  /\ pc \in {"recording", "times"} => (paused <=> call.pause)

\* A tuner that was available all the time still is, but for the one that was selected.
Spared ==
  /\ pc \in {"query", "storage", "tuners", "unlock", "http", "device"} =>
       \A t \in spare : /\ t \in TunersOf(lineup)
                        /\ owner[t] = "nobody" \/ (pc = "unlock" /\ tuner = t)
  /\ pc = "failed" /\ ~broken => spare = {}

Inv == Types /\ Streams /\ Paused /\ Spared /\ TunersReturned

-----------------------------------------------------------------------------

\* The fields of a stream.
LEMMA StreamFields ==
  /\ NoStream.kind = "none" /\ NoStream.tuner = NoTuner
  /\ DOMAIN NoStream = {"kind", "tuner", "radio", "pos"}
  /\ \A k, t : /\ Stream(k, t).kind = k /\ Stream(k, t).tuner = t
               /\ DOMAIN Stream(k, t) = {"kind", "tuner", "radio", "pos"}
BY DEF NoStream, Stream

LEMMA InitInv == Init => Inv
<1> SUFFICES ASSUME Init PROVE Inv
  OBVIOUS
<1>1. Types
  BY StreamFields DEF Init, Types, Steps, Closed, NoCall
<1>2. Streams /\ Spared /\ TunersReturned
  BY StreamFields DEF Init, Streams, Spared, TunersReturned, Closed
<1>3. Paused
  BY DEF Init, Paused, Closed
<1> QED
  BY <1>1, <1>2, <1>3 DEF Inv

-----------------------------------------------------------------------------
(* Everyone else. *)

LEMMA OtherTakesKeeps ==
  ASSUME Inv, NEW t \in Tuners, OtherTakes(t)
  PROVE  Inv'
BY DEF OtherTakes, callVars, streamVars, Inv, Types, Streams, Paused, Spared,
       TunersReturned

LEMMA OtherLeavesKeeps ==
  ASSUME Inv, NEW t \in Tuners, OtherLeaves(t)
  PROVE  Inv'
BY DEF OtherLeaves, callVars, streamVars, historyVars, Inv, Types, Streams, Paused,
       Spared, TunersReturned

LEMMA LineupEditKeeps ==
  ASSUME Inv, NEW d \in Devices, LineupEdit(d)
  PROVE  Inv'
BY DEF LineupEdit, callVars, streamVars, Inv, Types, Streams, Paused, Spared,
       TunersReturned

LEMMA SetSettingKeeps ==
  ASSUME Inv, SetSetting
  PROVE  Inv'
BY DEF SetSetting, callVars, streamVars, historyVars, Inv, Types, Streams, Paused, Spared,
       TunersReturned

-----------------------------------------------------------------------------
(* Opening. *)

LEMMA OpenLiveStreamKeeps ==
  ASSUME Inv, NEW radio \in BOOLEAN, OpenLiveStream(radio)
  PROVE  Inv'
BY DEF OpenLiveStream, worldVars, streamVars, Goto, Settings, Steps, Inv, Types, Streams,
       Paused, Spared, TunersReturned

LEMMA OpenRecordedStreamKeeps ==
  ASSUME Inv, NEW radio \in BOOLEAN, OpenRecordedStream(radio)
  PROVE  Inv'
BY DEF OpenRecordedStream, worldVars, streamVars, Goto, Settings, Steps, Inv, Types,
       Streams, Closed, Paused, Spared, TunersReturned

LEMMA RouteKeeps ==
  ASSUME Inv, Route
  PROVE  Inv'
BY DEF Route, worldVars, streamVars, historyVars, Goto, Steps, Inv, Types, Streams,
       Closed, Paused, Spared, TunersReturned

LEMMA StorageHttpKeeps ==
  ASSUME Inv, StorageHttp
  PROVE  Inv'
BY StreamFields DEF StorageHttp, worldVars, streamVars, historyVars, Goto, Opened, Steps,
       Inv, Types, Streams, Closed, Paused, Spared, TunersReturned

LEMMA SelectHttpTunerKeeps ==
  ASSUME Inv, SelectHttpTuner
  PROVE  Inv'
BY DEF SelectHttpTuner, streamVars, historyVars, Goto, TunersOf, Steps, Inv, Types,
       Streams, Closed, Paused, Spared, TunersReturned

LEMMA ReleaseLockKeeps ==
  ASSUME Inv, ReleaseLock
  PROVE  Inv'
BY StreamFields DEF ReleaseLock, streamVars, historyVars, Goto, Returned, Steps, Inv,
       Types, Streams, Closed, Paused, Spared, TunersReturned

LEMMA TunerHttpKeeps ==
  ASSUME Inv, TunerHttp
  PROVE  Inv'
BY StreamFields DEF TunerHttp, streamVars, historyVars, Goto, Opened, Steps, Inv, Types,
       Streams, Closed, Paused, Spared, TunersReturned

LEMMA ChooseAndLockKeeps ==
  ASSUME Inv, ChooseAndLock
  PROVE  Inv'
BY DEF ChooseAndLock, streamVars, historyVars, Goto, TunersOf, Steps, Inv, Types, Streams,
       Closed, Paused, Spared, TunersReturned

LEMMA TuneKeeps ==
  ASSUME Inv, Tune
  PROVE  Inv'
BY DEF Tune, worldVars, streamVars, Goto, TuningStep, Steps, Inv, Types, Streams, Closed,
       Paused, Spared, TunersReturned

LEMMA StartStreamKeeps ==
  ASSUME Inv, StartStream
  PROVE  Inv'
BY StreamFields DEF StartStream, worldVars, Goto, Opened, Steps, Inv, Types, Streams,
       Closed, Paused, Spared, TunersReturned

LEMMA TuningFailsKeeps ==
  ASSUME Inv, TuningFails
  PROVE  Inv'
BY StreamFields DEF TuningFails, streamVars, Goto, Returned, Steps, Inv, Types, Streams,
       Closed, Paused, Spared, TunersReturned

LEMMA ApplyFilterKeeps ==
  ASSUME Inv, ApplyFilter
  PROVE  Inv'
BY StreamFields DEF ApplyFilter, worldVars, Goto, Steps, Inv, Types, Streams, Closed,
       Paused, Spared, TunersReturned

LEMMA PauseSchedulerKeeps ==
  ASSUME Inv, PauseScheduler
  PROVE  Inv'
BY DEF PauseScheduler, worldVars, streamVars, Goto, Steps, Inv, Types, Streams, Closed,
       Paused, Spared, TunersReturned

LEMMA RecordedHttpKeeps ==
  ASSUME Inv, RecordedHttp
  PROVE  Inv'
BY StreamFields DEF RecordedHttp, worldVars, Goto, Opened, Steps, Inv, Types, Streams,
       Closed, Paused, Spared, TunersReturned

LEMMA OpenReturnsKeeps ==
  ASSUME Inv, OpenReturns
  PROVE  Inv'
BY DEF OpenReturns, worldVars, streamVars, Goto, Steps, Inv, Types, Streams, Closed,
       Paused, Spared, TunersReturned

LEMMA OpenThrowsKeeps ==
  ASSUME Inv, OpenThrows
  PROVE  Inv'
<1>1. Types'
  BY StreamFields DEF OpenThrows, streamVars, Goto, CloseStream, Returned, Steps, Inv,
         Types
<1>2. Streams'
  BY StreamFields DEF OpenThrows, streamVars, Goto, CloseStream, Inv, Streams, Closed
<1>3. Paused'
  BY DEF OpenThrows, Goto, Inv, Closed, Paused
<1>4. Spared'
  BY DEF OpenThrows, Goto, Spared
<1>5. TunersReturned'
  BY StreamFields, LiveStreamAssumption DEF OpenThrows, streamVars, Goto, CloseStream,
         Returned, Inv, Types, TunersReturned
<1> QED
  BY <1>1, <1>2, <1>3, <1>4, <1>5 DEF Inv

LEMMA OpenFailsKeeps ==
  ASSUME Inv, OpenFails
  PROVE  Inv'
BY DEF OpenFails, worldVars, streamVars, Goto, Steps, NoCall, Inv, Types, Streams, Closed,
       Paused, Spared, TunersReturned

-----------------------------------------------------------------------------
(* Reading, seeking and closing. *)

LEMMA ReadKeeps ==
  ASSUME Inv, NEW n \in ReadSizes, Read(n)
  PROVE  Inv'
BY StreamFields DEF Read, worldVars, callVars, Inv, Types, Streams, Paused, Spared,
       TunersReturned

LEMMA SeekKeeps ==
  ASSUME Inv, NEW p \in Targets, Seek(p)
  PROVE  Inv'
BY StreamFields DEF Seek, worldVars, callVars, Inv, Types, Streams, Paused, Spared,
       TunersReturned

LEMMA CloseLiveStreamKeeps ==
  ASSUME Inv, CloseLiveStream
  PROVE  Inv'
<1>1. Types'
  BY StreamFields DEF CloseLiveStream, CloseStream, Returned, NoCall, Inv, Types, Closed
<1>2. Streams'
  BY StreamFields DEF CloseLiveStream, CloseStream, Streams
<1>3. Paused'
  BY DEF CloseLiveStream, NoCall, Paused
<1>4. Spared'
  BY DEF CloseLiveStream, Spared
<1>5. TunersReturned'
  BY StreamFields, LiveStreamAssumption DEF CloseLiveStream, CloseStream, Returned, Inv,
         Types, TunersReturned
<1> QED
  BY <1>1, <1>2, <1>3, <1>4, <1>5 DEF Inv

-----------------------------------------------------------------------------

LEMMA NextInv == Inv /\ [Next]_vars => Inv'
<1> SUFFICES ASSUME Inv, [Next]_vars PROVE Inv'
  OBVIOUS
<1>1. CASE WorldNext
  BY <1>1, OtherTakesKeeps, OtherLeavesKeeps, LineupEditKeeps, SetSettingKeeps DEF WorldNext
<1>2. CASE OpenNext
  BY <1>2, RouteKeeps, StorageHttpKeeps, SelectHttpTunerKeeps, ReleaseLockKeeps,
     TunerHttpKeeps, ChooseAndLockKeeps, TuneKeeps, StartStreamKeeps, TuningFailsKeeps,
     ApplyFilterKeeps, PauseSchedulerKeeps, RecordedHttpKeeps, OpenReturnsKeeps,
     OpenThrowsKeeps, OpenFailsKeeps
  DEF OpenNext
<1>3. CASE \E radio \in BOOLEAN : OpenRecordedStream(radio) \/ OpenLiveStream(radio)
  BY <1>3, OpenRecordedStreamKeeps, OpenLiveStreamKeeps, Zenon
<1>4. CASE \/ \E n \in ReadSizes : Read(n)
           \/ \E p \in Targets : Seek(p)
           \/ CloseLiveStream
  BY <1>4, ReadKeeps, SeekKeeps, CloseLiveStreamKeeps
<1>5. CASE UNCHANGED vars
  BY <1>5 DEF vars, worldVars, callVars, streamVars, historyVars, Inv, Types, Streams, Paused,
              Spared, TunersReturned
<1> QED
  BY <1>1, <1>2, <1>3, <1>4, <1>5, Zenon DEF Next

\* The inductive invariant.
LEMMA Invariance == Spec => []Inv
BY InitInv, NextInv, PTL DEF Spec

\* The lock of a tuner is held by the call that selected it or by the open device
\* stream, and given back wherever the opening fails (devicestream.cpp, addon.cpp).
THEOREM LocksReturned == Spec => []TunersReturned
<1>1. Inv => TunersReturned
  BY DEF Inv
<1> QED
  BY <1>1, Invariance, PTL

\* Between calls the scheduler is paused exactly while a stream is open that was opened
\* with that setting on.
THEOREM PausedWhileStreaming == Spec => []PausedForTheStream
<1>1. Inv => PausedForTheStream
  BY DEF Inv, Paused, PausedForTheStream
<1> QED
  BY <1>1, Invariance, PTL

\* However requests fail and other clients race for the tuners, OpenLiveStream fails only
\* if no tuner was free and listed all the time, or a query or tuning command failed.
THEOREM SpareTunerFound == Spec => []SpareTunerIsFound
<1>1. Inv => SpareTunerIsFound
  BY DEF Inv, Spared, SpareTunerIsFound
<1> QED
  BY <1>1, Invariance, PTL

-----------------------------------------------------------------------------
(* Whole packets. *)

Aligned(n) == n % PacketLength = 0

\* Division with remainder by the length of a packet.
LEMMA Division ==
  ASSUME NEW n \in Int
  PROVE  /\ n % PacketLength \in 0 .. PacketLength - 1 /\ n \div PacketLength \in Int
         /\ n = PacketLength * (n \div PacketLength) + (n % PacketLength)
BY RadioFilterAssumption

LEMMA DivisionIsUnique ==
  ASSUME NEW q \in Int, NEW r \in 0 .. PacketLength - 1
  PROVE  /\ (PacketLength * q + r) % PacketLength = r
         /\ (PacketLength * q + r) \div PacketLength = q
BY RadioFilterAssumption

LEMMA AlignedIsMultiple ==
  ASSUME NEW n \in Int, Aligned(n)
  PROVE  n = PacketLength * (n \div PacketLength)
BY Division, RadioFilterAssumption DEF Aligned

\* Whole packets, added or taken away, are whole packets.
LEMMA AlignedSum ==
  ASSUME NEW a \in Int, NEW b \in Int, Aligned(a), Aligned(b)
  PROVE  Aligned(a + b) /\ Aligned(a - b)
<1> DEFINE q == a \div PacketLength  s == b \div PacketLength
<1>1. q \in Int /\ s \in Int /\ a = PacketLength * q /\ b = PacketLength * s
  BY Division, AlignedIsMultiple
<1> HIDE DEF q, s
<1>2. a + b = PacketLength * (q + s) + 0 /\ a - b = PacketLength * (q - s) + 0
  BY <1>1, RadioFilterAssumption
<1>3. 0 \in 0 .. PacketLength - 1 /\ q + s \in Int /\ q - s \in Int
  BY <1>1, RadioFilterAssumption
<1> QED
  BY <1>2, <1>3, DivisionIsUnique DEF Aligned

\* What a stream that has whole packets only returns of a read.
LEMMA AlignedDown ==
  ASSUME NEW n \in Int
  PROVE  /\ AlignDown(n) \in Int /\ Aligned(AlignDown(n))
         /\ AlignDown(n) <= n /\ n < AlignDown(n) + PacketLength
<1> DEFINE q == n \div PacketLength
<1>1. n % PacketLength \in 0 .. PacketLength - 1 /\ q \in Int
      /\ n = PacketLength * q + (n % PacketLength)
  BY Division
<1> HIDE DEF q
<1>2. AlignDown(n) = PacketLength * q + 0
  BY <1>1, RadioFilterAssumption DEF AlignDown
<1>3. 0 \in 0 .. PacketLength - 1
  BY RadioFilterAssumption
<1>4. (PacketLength * q + 0) % PacketLength = 0
  BY <1>1, <1>3, DivisionIsUnique
<1>5. Aligned(AlignDown(n))
  BY <1>2, <1>4 DEF Aligned
<1> QED
  BY <1>1, <1>5, RadioFilterAssumption DEF AlignDown

LEMMA OnePacket == Aligned(PacketLength)
<1>1. 0 \in 0 .. PacketLength - 1 /\ 1 \in Int
  BY RadioFilterAssumption
<1>2. (PacketLength * 1 + 0) % PacketLength = 0
  BY <1>1, DivisionIsUnique
<1>3. PacketLength * 1 + 0 = PacketLength
  BY RadioFilterAssumption
<1> QED
  BY <1>2, <1>3 DEF Aligned

\* Some whole packets are one packet at least.
LEMMA AlignedSmall ==
  ASSUME NEW n \in Int, Aligned(n), n > 0
  PROVE  n >= PacketLength
BY Division, RadioFilterAssumption DEF Aligned

-----------------------------------------------------------------------------

\* The part of the invariant about where a stream is.
Position ==
  /\ DOMAIN stream = {"kind", "tuner", "radio", "pos"}
  /\ stream.pos \in 0 .. StreamEnd
  /\ stream.kind = "device" => Aligned(stream.pos)

\* Wherever a read begins, it ends with a packet.
LEMMA ReadEndsAligned ==
  ASSUME WholePackets, Position, NEW n \in ReadSizes, ReadLength(n) > 0
  PROVE  LET to == stream.pos + ReadLength(n)
         IN  to \in 0 .. StreamEnd /\ Aligned(to) /\ to > stream.pos
<1> DEFINE pos == stream.pos
           left == StreamEnd - pos
           d == AlignDown(n)
           m == IF left < d THEN left ELSE d
           up == AlignDown(pos + PacketLength - 1)
           rest == up - pos
<1>1. /\ n \in Nat /\ PacketLength \in Nat \ {0} /\ StreamEnd \in Nat /\ pos \in 0 .. StreamEnd
      /\ Aligned(StreamEnd) /\ n >= 2 * PacketLength /\ left \in Nat /\ n \in Int
      /\ pos + PacketLength - 1 \in Int
  BY RadioFilterAssumption, LiveStreamAssumption DEF WholePackets, Position, Aligned
<1>2. d \in Int /\ Aligned(d) /\ d <= n /\ n < d + PacketLength
  BY <1>1, AlignedDown
<1>3. d >= 2 * PacketLength
  <2> HIDE DEF d
  <2>1. d > PacketLength /\ PacketLength \in Int /\ Aligned(PacketLength)
    BY <1>1, <1>2, OnePacket
  <2>2. Aligned(d - PacketLength)
    BY <1>2, <2>1, AlignedSum
  <2>3. d - PacketLength >= PacketLength
    BY <1>2, <2>1, <2>2, AlignedSmall
  <2> QED
    BY <1>1, <1>2, <2>3
<1>4. up \in Int /\ Aligned(up) /\ up >= pos /\ up < pos + PacketLength
  BY <1>1, AlignedDown
<1>5. m \in Nat /\ m <= left /\ (m = left \/ (m = d /\ m <= left))
  BY <1>1, <1>2, <1>3
<1> HIDE DEF up, d
<1>6. CASE stream.kind = "device"
  <2>1. ReadLength(n) = AlignDown(m)
    BY <1>6 DEF ReadLength, d
  <2>2. Aligned(pos) /\ Aligned(AlignDown(m)) /\ AlignDown(m) \in Int /\ AlignDown(m) <= m
    BY <1>5, <1>6, AlignedDown DEF Position
  <2> HIDE DEF m
  <2>3. Aligned(pos + AlignDown(m))
    <3>1. pos \in Int
      BY <1>1
    <3> HIDE DEF pos
    <3> QED
      BY <3>1, <2>2, AlignedSum
  <2> QED
    BY <1>1, <1>5, <2>1, <2>2, <2>3
<1>7. CASE stream.kind # "device" /\ m >= rest + PacketLength
  <2>1. ReadLength(n) = rest + AlignDown(m - rest)
    BY <1>7 DEF ReadLength, d, up
  <2> HIDE DEF m
  <2>2. m - rest \in Int
    BY <1>1, <1>4, <1>5
  <2>3. Aligned(AlignDown(m - rest)) /\ AlignDown(m - rest) \in Int /\ AlignDown(m - rest) <= m - rest
    BY <2>2, AlignedDown
  <2>4. Aligned(up + AlignDown(m - rest))
    BY <1>4, <2>3, AlignedSum
  <2>5. pos + ReadLength(n) = up + AlignDown(m - rest)
    BY <1>1, <1>4, <2>1, <2>3
  <2> QED
    BY <1>1, <1>4, <1>5, <2>1, <2>3, <2>4, <2>5
<1>8. CASE stream.kind # "device" /\ m < rest + PacketLength
  <2>1. ReadLength(n) = m
    BY <1>1, <1>4, <1>5, <1>8 DEF ReadLength, d, up
  <2>2. m < d
    BY <1>1, <1>2, <1>3, <1>4, <1>5, <1>8
  <2> HIDE DEF m
  <2>3. pos + m = StreamEnd
    BY <1>1, <1>5, <2>2
  <2>4. Aligned(pos + m) /\ pos + m \in 0 .. StreamEnd
    BY <1>1, <2>3
  <2> QED
    BY <1>1, <1>5, <2>1, <2>4
<1> QED
  BY <1>1, <1>4, <1>5, <1>6, <1>7, <1>8

\* The chunk that a read hands to the filter begins and ends with a packet.
LEMMA ChunkIsAligned ==
  ASSUME NEW from \in Nat, NEW to \in Nat, from < to, Aligned(to)
  PROVE  /\ FirstPacket(from, to) \in from .. to /\ Aligned(FirstPacket(from, to))
<1>1. to - from \in Int /\ PacketLength \in Nat \ {0}
  BY RadioFilterAssumption
<1>2. AlignDown(to - from) \in Int /\ Aligned(AlignDown(to - from)) /\ AlignDown(to - from) <= to - from
  BY <1>1, AlignedDown
<1>3. (to - from) % PacketLength \in 0 .. PacketLength - 1
  BY <1>1, Division
<1>4. FirstPacket(from, to) = to - AlignDown(to - from)
  BY <1>3 DEF FirstPacket, AlignDown
<1>5. AlignDown(to - from) >= 0
  <2>1. CASE to - from < PacketLength
    <3>1. (to - from) % PacketLength = to - from
      BY <1>1, <2>1
    <3> QED
      BY <3>1 DEF AlignDown
  <2>2. CASE to - from >= PacketLength
    BY <1>1, <1>3, <2>2 DEF AlignDown
  <2> QED
    BY <1>1, <2>1, <2>2
<1>6. Aligned(to - AlignDown(to - from))
  BY <1>2, AlignedSum
<1> QED
  BY <1>2, <1>4, <1>5, <1>6

-----------------------------------------------------------------------------

\* Induction for sets of numbers.
LEMMA SetInduction ==
  ASSUME NEW S \in SUBSET Nat, 0 \in S, \A n \in S : n + 1 \in S
  PROVE  S = Nat
<1> SUFFICES ASSUME Nat \ S # {} PROVE FALSE
  OBVIOUS
<1>1. PICK m \in Nat \ S : \A k \in Nat \ S : <<k, m>> \notin OpToRel(<, Nat)
  BY NatLessThanWellFounded, WFMin, Zenon
<1>2. m - 1 \in Nat
  OBVIOUS
<1>3. <<m - 1, m>> \in OpToRel(<, Nat)
  BY <1>2 DEF OpToRel
<1>4. m - 1 \in S
  BY <1>1, <1>2, <1>3
<1>5. (m - 1) + 1 \in S /\ (m - 1) + 1 = m
  BY <1>4
<1> QED
  BY <1>1, <1>5

\* The function that Filtered recurses with exists, and is what its definition says.
LEMMA FilteredSteps ==
  ASSUME NEW f, NEW chunk, Len(chunk) \in Nat
  PROVE  \E after :
           /\ after[0] = [filter |-> f, out |-> <<>>]
           /\ \A n \in 1 .. Len(chunk) : after[n] = FilterPacket(after[n - 1], chunk[n])
           /\ Filtered(f, chunk) = after[Len(chunk)]
<1> DEFINE Value(g, n) ==
             IF n = 0 THEN [filter |-> f, out |-> <<>>] ELSE FilterPacket(g[n - 1], chunk[n])
           Recurses(g, m) == g = [n \in 0 .. m |-> Value(g, n)]
           Lengths == {m \in Nat : \E g : Recurses(g, m)}
<1>1. 0 \in Lengths
  <2> DEFINE g == [n \in 0 .. 0 |-> [filter |-> f, out |-> <<>>]]
  <2>1. Recurses(g, 0)
    OBVIOUS
  <2> QED
    BY <2>1
<1>2. ASSUME NEW m \in Lengths PROVE m + 1 \in Lengths
  <2>1. PICK g : Recurses(g, m)
    OBVIOUS
  <2> DEFINE h == [n \in 0 .. m + 1 |-> IF n <= m THEN g[n] ELSE FilterPacket(g[m], chunk[m + 1])]
  <2>2. ASSUME NEW n \in 0 .. m + 1 PROVE h[n] = Value(h, n)
    <3>1. CASE n = 0
      BY <2>1, <3>1
    <3>2. CASE n \in 1 .. m
      <4>1. h[n] = g[n] /\ h[n - 1] = g[n - 1] /\ n # 0 /\ n \in 0 .. m
        BY <3>2
      <4> HIDE DEF h
      <4> QED
        BY <2>1, <4>1
    <3>3. CASE n = m + 1
      <4>1. h[n] = FilterPacket(g[m], chunk[m + 1]) /\ h[n - 1] = g[m] /\ n # 0
        BY <3>3
      <4> HIDE DEF h
      <4> QED
        BY <3>3, <4>1
    <3> QED
      BY <3>1, <3>2, <3>3
  <2>3. Recurses(h, m + 1)
    <3>1. h = [n \in 0 .. m + 1 |-> h[n]]
      OBVIOUS
    <3> HIDE DEF h
    <3> QED
      BY <2>2, <3>1
  <2>4. m + 1 \in Nat
    OBVIOUS
  <2> HIDE DEF h, Recurses
  <2> QED
    BY <2>3, <2>4
<1>3. Len(chunk) \in Lengths
  <2> HIDE DEF Lengths
  <2>1. Lengths \in SUBSET Nat
    BY DEF Lengths
  <2> QED
    BY <1>1, <1>2, <2>1, SetInduction
<1> DEFINE after == CHOOSE g : Recurses(g, Len(chunk))
<1>4. Recurses(after, Len(chunk))
  BY <1>3
<1>5. Filtered(f, chunk) = after[Len(chunk)]
  BY DEF Filtered
<1> HIDE DEF after
<1>6. /\ after[0] = [filter |-> f, out |-> <<>>]
      /\ \A n \in 1 .. Len(chunk) : after[n] = FilterPacket(after[n - 1], chunk[n])
  BY <1>4
<1> QED
  BY <1>5, <1>6

-----------------------------------------------------------------------------

\* A chunk without packets.
LEMMA FilteredNothing ==
  ASSUME NEW f
  PROVE  Filtered(f, <<>>) = [filter |-> f, out |-> <<>>]
<1>1. Len(<<>>) = 0
  OBVIOUS
<1>2. PICK after : after[0] = [filter |-> f, out |-> <<>>] /\ Filtered(f, <<>>) = after[Len(<<>>)]
  BY <1>1, FilteredSteps
<1> QED
  BY <1>1, <1>2

\* A filter that is on.
FilterOn(f) == DOMAIN f = {"enabled", "pmts", "videos"} /\ f.enabled

LEMMA FilteredStaysOn ==
  ASSUME NEW f, FilterOn(f), NEW chunk, Len(chunk) \in Nat
  PROVE  FilterOn(Filtered(f, chunk).filter)
<1>1. PICK after :
        /\ after[0] = [filter |-> f, out |-> <<>>]
        /\ \A n \in 1 .. Len(chunk) : after[n] = FilterPacket(after[n - 1], chunk[n])
        /\ Filtered(f, chunk) = after[Len(chunk)]
  BY FilteredSteps
<1>2. ASSUME NEW acc, NEW p, FilterOn(acc.filter) PROVE FilterOn(FilterPacket(acc, p).filter)
  BY <1>2 DEF FilterOn, FilterPacket
<1> DEFINE On == {n \in Nat : n <= Len(chunk) => FilterOn(after[n].filter)}
<1>3. 0 \in On
  BY <1>1
<1>4. ASSUME NEW n \in On PROVE n + 1 \in On
  <2> SUFFICES ASSUME n + 1 <= Len(chunk) PROVE FilterOn(after[n + 1].filter)
    OBVIOUS
  <2>1. FilterOn(after[n].filter)
    OBVIOUS
  <2>2. n + 1 \in 1 .. Len(chunk) /\ (n + 1) - 1 = n
    OBVIOUS
  <2>3. after[n + 1] = FilterPacket(after[n], chunk[n + 1])
    BY <1>1, <2>2
  <2> QED
    BY <1>2, <2>1, <2>3
<1>5. On = Nat
  <2>1. On \in SUBSET Nat
    OBVIOUS
  <2> HIDE DEF On
  <2> QED
    BY <1>3, <1>4, <2>1, SetInduction
<1> QED
  BY <1>1, <1>5

\* The chunk of a read: from the packet that first begins in it to the one that ends it.
Chunk(from, to) ==
  SubSeq(Broadcast, FirstPacket(from, to) \div PacketLength + 1, to \div PacketLength)

\* The packets of a chunk are among those sent.
LEMMA ChunkFits ==
  ASSUME NEW from \in Nat, NEW to \in 0 .. StreamEnd, from < to, Aligned(to)
  PROVE  /\ Chunk(from, to) \in Seq(Sent)
         /\ to - FirstPacket(from, to) < PacketLength => Chunk(from, to) = <<>>
<1> DEFINE start == FirstPacket(from, to)
           first == start \div PacketLength + 1  last == to \div PacketLength
<1>1. /\ PacketLength \in Nat \ {0} /\ StreamEnd \in Nat /\ to \in Nat /\ Len(Broadcast) \in Int
      /\ to <= Len(Broadcast) * PacketLength
  BY RadioFilterAssumption, LiveStreamAssumption
<1>2. start \in Nat /\ start <= to /\ Aligned(start)
  BY <1>1, ChunkIsAligned
<1>3. last \in Int /\ to = PacketLength * last
  BY <1>1, Division, AlignedIsMultiple
<1> HIDE DEF start
<1>4. start = PacketLength * (start \div PacketLength) /\ start \div PacketLength \in Int
  BY <1>2, Division, AlignedIsMultiple
<1>5. first \in Int /\ start = PacketLength * (first - 1)
  BY <1>4
<1>6. Chunk(from, to) = SubSeq(Broadcast, first, last)
  BY DEF Chunk, start
<1> HIDE DEF first, last
<1>7. first >= 1 /\ last <= Len(Broadcast)
  BY <1>1, <1>2, <1>3, <1>5
<1>8. \A i \in first .. last : Broadcast[i] \in Sent
  BY <1>1, <1>3, <1>5, <1>7 DEF Sent
<1>9. ASSUME to - start < PacketLength PROVE last < first
  BY <1>1, <1>2, <1>3, <1>5, <1>9
<1>10. SubSeq(Broadcast, first, last) \in Seq(Sent)
  BY <1>3, <1>5, <1>8, SubSeqProperties
<1>11. last < first => SubSeq(Broadcast, first, last) = <<>>
  BY <1>3, <1>5, SubSeqEmpty
<1> QED
  BY <1>6, <1>9, <1>10, <1>11 DEF start

\* A read hands a chunk of whole packets to the filter, or nothing.
LEMMA ReadFilters ==
  ASSUME WholePackets, Position, FilterOn(filter), NEW n \in ReadSizes, Read(n)
  PROVE  \E to \in 0 .. StreamEnd :
           /\ to > stream.pos /\ Aligned(to) /\ stream' = [stream EXCEPT !.pos = to]
           /\ \/ UNCHANGED <<filter, fed, out>>
              \/ LET chunk == Chunk(stream.pos, to)
                 IN  /\ fed' = fed \o chunk /\ filter' = Filtered(filter, chunk).filter
                     /\ out' = out \o Filtered(filter, chunk).out
<1> DEFINE pos == stream.pos  to == pos + ReadLength(n)  start == FirstPacket(pos, to)
           chunk == Chunk(pos, to)
           result == FilterChunk(filter, Broadcast, pos, to)
<1>1. ReadLength(n) > 0
  BY DEF Read
<1>2. to \in 0 .. StreamEnd /\ Aligned(to) /\ to > pos /\ pos \in Nat /\ to \in Nat
  BY <1>1, ReadEndsAligned, LiveStreamAssumption DEF Position
<1>3. /\ stream' = [stream EXCEPT !.pos = to]
      /\ \/ UNCHANGED <<filter, fed, out>>
         \/ fed' = fed \o chunk /\ filter' = result.filter /\ out' = out \o result.out
  BY DEF Read, Chunk
<1> HIDE DEF to, pos
<1>4. Aligned(start)
  BY <1>2, ChunkIsAligned
<1>5. result = Filtered(filter, chunk)
  <2>1. CASE to - start < PacketLength
    <3>1. chunk = <<>> /\ Len(chunk) = 0
      BY <1>2, <2>1, ChunkFits
    <3>2. Filtered(filter, chunk) = [filter |-> filter, out |-> <<>>]
      BY <3>1, FilteredNothing
    <3>3. result = [filter |-> filter, out |-> chunk]
      BY <2>1 DEF FilterChunk, Chunk
    <3> QED
      BY <3>1, <3>2, <3>3
  <2>2. CASE ~(to - start < PacketLength)
    BY <1>4, <2>2 DEF FilterChunk, Chunk, Aligned, FilterOn
  <2> QED
    BY <2>1, <2>2
<1> HIDE DEF result
<1> QED
  BY <1>2, <1>3, <1>5 DEF pos

\* The inductive invariant for the filter being on.
On == Position /\ FilterOn(filter)

\* No step but a read feeds the filter; closing a stream starts it anew.
LEMMA OthersFeedNothing ==
  ASSUME On, [Next]_vars, ~\E n \in ReadSizes : Read(n)
  PROVE  /\ Position'
         /\ \/ UNCHANGED <<filter, fed, out>>
            \/ filter' = NewFilter /\ fed' = <<>> /\ out' = <<>>
<1> DEFINE Same == Position' /\ UNCHANGED <<filter, fed, out>>
           Goal == Position' /\ (\/ UNCHANGED <<filter, fed, out>>
                                 \/ filter' = NewFilter /\ fed' = <<>> /\ out' = <<>>)
<1>1. /\ DOMAIN NoStream = {"kind", "tuner", "radio", "pos"}
      /\ NoStream.kind = "none" /\ NoStream.pos = 0
      /\ \A k, t : /\ Stream(k, t).pos = 0
                   /\ DOMAIN Stream(k, t) = {"kind", "tuner", "radio", "pos"}
      /\ StreamEnd \in Nat /\ 0 \in 0 .. StreamEnd /\ Aligned(0)
  BY RadioFilterAssumption, LiveStreamAssumption DEF NoStream, Stream, Aligned
<1>2. UNCHANGED streamVars => Same
  BY DEF On, Position, streamVars
<1>3. ASSUME NEW k, NEW t, Opened(k, t) PROVE Same
  BY <1>1, <1>3 DEF Opened, Position
<1>4. CloseStream => Goal
  BY <1>1 DEF CloseStream, Position
<1>5. CASE WorldNext
  BY <1>2, <1>5 DEF WorldNext, OtherTakes, OtherLeaves, LineupEdit, SetSetting
<1>6. CASE OpenNext
  <2>1. CASE Route \/ SelectHttpTuner \/ ReleaseLock \/ ChooseAndLock \/ Tune \/ TuningFails
             \/ PauseScheduler \/ OpenReturns \/ OpenFails
    BY <1>2, <2>1 DEF Route, SelectHttpTuner, ReleaseLock, ChooseAndLock, Tune, TuningFails,
       PauseScheduler, OpenReturns, OpenFails
  <2>2. CASE StorageHttp \/ TunerHttp \/ StartStream \/ RecordedHttp
    BY <1>2, <1>3, <2>2 DEF StorageHttp, TunerHttp, StartStream, RecordedHttp
  <2>3. CASE ApplyFilter
    BY <2>3 DEF ApplyFilter, On, Position
  <2>4. CASE OpenThrows
    BY <1>2, <1>4, <2>4 DEF OpenThrows
  <2> QED
    BY <1>6, <2>1, <2>2, <2>3, <2>4 DEF OpenNext
<1>7. ASSUME NEW radio \in BOOLEAN, OpenRecordedStream(radio) \/ OpenLiveStream(radio) PROVE Same
  BY <1>2, <1>7 DEF OpenRecordedStream, OpenLiveStream
<1>8. ASSUME NEW p \in Targets, Seek(p) PROVE Same
  BY <1>8, LiveStreamAssumption DEF Seek, On, Position
<1>9. CASE CloseLiveStream
  BY <1>4, <1>9 DEF CloseLiveStream
<1>10. CASE UNCHANGED vars
  BY <1>2, <1>10 DEF vars
<1> HIDE DEF Same
<1> QED
  BY <1>5, <1>6, <1>7, <1>8, <1>9, <1>10 DEF Next, Same

LEMMA InitOn == Init => On
BY LiveStreamAssumption, RadioFilterAssumption
DEF Init, On, Position, FilterOn, NewFilter, NoStream, Aligned

LEMMA NextOn == WholePackets /\ On /\ [Next]_vars => On'
<1> SUFFICES ASSUME WholePackets, On, [Next]_vars PROVE On'
  OBVIOUS
<1>1. FilterOn(NewFilter)
  BY DEF FilterOn, NewFilter
<1>2. CASE \E n \in ReadSizes : Read(n)
  <2>1. PICK n \in ReadSizes : Read(n)
    BY <1>2
  <2>2. PICK to \in 0 .. StreamEnd :
           /\ to > stream.pos /\ Aligned(to) /\ stream' = [stream EXCEPT !.pos = to]
           /\ \/ UNCHANGED <<filter, fed, out>>
              \/ LET chunk == Chunk(stream.pos, to)
                 IN  /\ fed' = fed \o chunk /\ filter' = Filtered(filter, chunk).filter
                     /\ out' = out \o Filtered(filter, chunk).out
    BY <2>1, ReadFilters DEF On
  <2>3. Position'
    BY <2>2 DEF On, Position, Aligned
  <2>4. Len(Chunk(stream.pos, to)) \in Nat
    BY <2>2, ChunkFits, LiveStreamAssumption, LenProperties DEF On, Position
  <2>5. FilterOn(filter)'
    BY <2>2, <2>4, FilteredStaysOn DEF On, FilterOn
  <2> QED
    BY <2>3, <2>5 DEF On
<1>3. CASE ~\E n \in ReadSizes : Read(n)
  BY <1>1, <1>3, OthersFeedNothing DEF On, FilterOn
<1> QED
  BY <1>2, <1>3

LEMMA OnInvariance == ASSUME WholePackets PROVE Spec => []On
<1>1. On /\ [Next]_vars => On'
  BY NextOn
<1> QED
  BY <1>1, InitOn, PTL DEF Spec

\* However Kodi seeks, every read of more than a packet hands the filter whole packets, so
\* that it never meets one without its sync byte (httpstream::read, devicestream::read,
\* radiofilter::filter_packets).
THEOREM FilterIsNeverDisabled == ASSUME WholePackets PROVE Spec => []FilterStaysOn
<1>1. On => FilterStaysOn
  BY DEF On, FilterOn, FilterStaysOn
<1>2. Spec => []On
  BY OnInvariance
<1> QED
  BY <1>1, <1>2, PTL

-----------------------------------------------------------------------------
(* What the filter knows. *)

\* What is passed of what was sent.
Passed == Sent \cup {NullPacket} \cup {Hidden(p) : p \in Sent}

\* The filter knows the pmts and the video that it was told of, and has kept its promise.
Sound(f, in, passed) ==
  /\ in \in Seq(Sent) /\ passed \in Seq(Passed) /\ FilterOn(f)
  /\ \A pid : pid \in f.pmts <=> Named(in, pid, Len(in) + 1)
  /\ \A pid : pid \in f.videos <=> pid \in Announced(in, Len(in) + 1)
  /\ VideoStops(in, passed) /\ SoundPasses(in, passed)

\* What was named and announced before a packet is not changed by a later one.
LEMMA NamedByPrefix ==
  ASSUME NEW in \in Seq(Sent), NEW p \in Sent, NEW i \in 1 .. Len(in) + 1, NEW pid
  PROVE  Named(Append(in, p), pid, i) <=> Named(in, pid, i)
<1>1. \A j \in 1 .. (i - 1) : Append(in, p)[j] = in[j]
  OBVIOUS
<1> QED
  BY <1>1 DEF Named

LEMMA AnnouncedByPrefix ==
  ASSUME NEW in \in Seq(Sent), NEW p \in Sent, NEW i \in 1 .. Len(in) + 1
  PROVE  Announced(Append(in, p), i) = Announced(in, i)
<1> DEFINE K(s) == {m \in 1..(i - 1) : s[m].kind = "pmt" /\ Named(s, s[m].pid, m)}
<1>1. \A j \in 1 .. (i - 1) : Append(in, p)[j] = in[j] /\ j \in 1 .. Len(in) + 1
  OBVIOUS
<1>2. \A j \in 1 .. (i - 1) : Named(Append(in, p), in[j].pid, j) <=> Named(in, in[j].pid, j)
  BY <1>1, NamedByPrefix
<1>3. K(Append(in, p)) = K(in)
  BY <1>1, <1>2
<1>4. Announced(Append(in, p), i) = UNION {VideoPids(Append(in, p)[k]) : k \in K(Append(in, p))}
  BY DEF Announced
<1>5. Announced(in, i) = UNION {VideoPids(in[k]) : k \in K(in)}
  BY DEF Announced
<1>6. \A k \in K(in) : Append(in, p)[k] = in[k]
  BY <1>1
<1> HIDE DEF K
<1> QED
  BY <1>3, <1>4, <1>5, <1>6

\* The loop over the sections of a pat reaches all of its entries.
LEMMA PmtPidsOfPat ==
  ASSUME ProperBroadcast, NEW p \in Sent, p.kind = "pat", NEW pid
  PROVE  pid \in PmtPids(p) <=>
           \E e \in 1..Len(p.entries) : p.entries[e].program # 0 /\ p.entries[e].pid = pid
<1>1. Len(p.entries) \in Nat /\ p.sections \in Nat /\ Len(p.entries) <= p.sections
  BY DEF ProperBroadcast
<1>2. \A j \in 1 .. Len(p.entries) : j <= p.sections
  BY <1>1
<1> QED
  BY <1>2 DEF PmtPids

\* What a packet adds to what was named and announced before.
LEMMA NamedByPacket ==
  ASSUME ProperBroadcast, NEW in \in Seq(Sent), NEW p \in Sent, NEW pid
  PROVE  Named(Append(in, p), pid, Len(Append(in, p)) + 1) <=>
           Named(in, pid, Len(in) + 1) \/ (p.kind = "pat" /\ pid \in PmtPids(p))
<1> DEFINE Names(s, j) == s[j].kind = "pat" /\ \E e \in 1..Len(s[j].entries) :
                            s[j].entries[e].program # 0 /\ s[j].entries[e].pid = pid
           n == Len(in)  s == Append(in, p)
<1>1. n \in Nat /\ Len(s) = n + 1 /\ s[n + 1] = p /\ \A j \in 1 .. n : s[j] = in[j]
  OBVIOUS
<1>2. Named(s, pid, Len(s) + 1) <=> \E j \in 1 .. n + 1 : Names(s, j)
  BY <1>1 DEF Named
<1>3. Named(in, pid, n + 1) <=> \E j \in 1 .. n : Names(in, j)
  BY <1>1 DEF Named
<1>4. Names(s, n + 1) <=> p.kind = "pat" /\ pid \in PmtPids(p)
  BY <1>1, PmtPidsOfPat
<1>5. \A j \in 1 .. n : Names(s, j) <=> Names(in, j)
  BY <1>1
<1> HIDE DEF Names, s, n
<1>6. (\E j \in 1 .. n + 1 : Names(s, j)) <=> (\E j \in 1 .. n : Names(s, j)) \/ Names(s, n + 1)
  BY <1>1
<1> QED
  BY <1>2, <1>3, <1>4, <1>5, <1>6 DEF s, n

LEMMA AnnouncedByPacket ==
  ASSUME NEW in \in Seq(Sent), NEW p \in Sent, NEW pid
  PROVE  pid \in Announced(Append(in, p), Len(Append(in, p)) + 1) <=>
           \/ pid \in Announced(in, Len(in) + 1)
           \/ p.kind = "pmt" /\ Named(in, p.pid, Len(in) + 1) /\ pid \in VideoPids(p)
<1> DEFINE Tells(s, k) == s[k].kind = "pmt" /\ Named(s, s[k].pid, k) /\ pid \in VideoPids(s[k])
           n == Len(in)  s == Append(in, p)
<1>1. n \in Nat /\ Len(s) = n + 1 /\ s[n + 1] = p /\ \A j \in 1 .. n : s[j] = in[j]
  OBVIOUS
<1>2. pid \in Announced(s, Len(s) + 1) <=> \E j \in 1 .. n + 1 : Tells(s, j)
  BY <1>1 DEF Announced
<1>3. pid \in Announced(in, n + 1) <=> \E j \in 1 .. n : Tells(in, j)
  BY <1>1 DEF Announced
<1>4. \A j \in 1 .. n + 1 : Named(s, s[j].pid, j) <=> Named(in, s[j].pid, j)
  BY NamedByPrefix
<1>5. Tells(s, n + 1) <=> p.kind = "pmt" /\ Named(in, p.pid, n + 1) /\ pid \in VideoPids(p)
  BY <1>1, <1>4
<1>6. \A j \in 1 .. n : Tells(s, j) <=> Tells(in, j)
  BY <1>1, <1>4
<1> HIDE DEF Tells, s, n
<1>7. (\E j \in 1 .. n + 1 : Tells(s, j)) <=> (\E j \in 1 .. n : Tells(s, j)) \/ Tells(s, n + 1)
  BY <1>1
<1> QED
  BY <1>2, <1>3, <1>5, <1>6, <1>7 DEF s, n

\* A pmt as it is rewritten: it has no video, and its other streams are as they were.
LEMMA HiddenPacket ==
  ASSUME ProperBroadcast, NEW p \in Sent
  PROVE  /\ Hidden(p).kind = p.kind /\ Hidden(p).pid = p.pid
         /\ VideoPids(Hidden(p)) = {}
         /\ \A k \in DOMAIN p.streams :
              p.streams[k].type # "video" => Hidden(p).streams[k] = p.streams[k]
<1>1. /\ DOMAIN p = {"kind", "pid", "entries", "sections", "streams"}
      /\ \A i \in DOMAIN p.streams : {"type", "pid"} \subseteq DOMAIN p.streams[i]
  BY DEF ProperBroadcast
<1>2. /\ Hidden(p).kind = p.kind /\ Hidden(p).pid = p.pid
      /\ Hidden(p).streams = [i \in DOMAIN p.streams |->
                           IF p.streams[i].type = "video"
                             THEN [p.streams[i] EXCEPT !.type = "forbidden"]
                             ELSE p.streams[i]]
  BY <1>1 DEF Hidden
<1>3. \A i \in DOMAIN Hidden(p).streams : Hidden(p).streams[i].type # "video"
  BY <1>1, <1>2
<1>4. VideoPids(Hidden(p)) = {}
  BY <1>3 DEF VideoPids
<1> QED
  BY <1>2, <1>4

\* One packet more, passed as it should be.
LEMMA OnePassed ==
  ASSUME NEW in \in Seq(Sent), NEW passed \in Seq(Passed), NEW p \in Sent, NEW q \in Passed,
         VideoStops(in, passed), SoundPasses(in, passed),
         q.kind = "pes" => q.pid \notin Announced(in, Len(in) + 1),
         q.kind = "pmt" /\ VideoPids(q) # {} => ~Named(in, q.pid, Len(in) + 1),
         p.kind = "pat" => q = p,
         p.kind = "pes" /\ p.pid \notin Announced(in, Len(in) + 1) => q = p,
         p.kind = "pmt" => \A k \in DOMAIN p.streams :
            p.streams[k].type # "video" => q.streams[k] = p.streams[k]
  PROVE  VideoStops(Append(in, p), Append(passed, q)) /\ SoundPasses(Append(in, p), Append(passed, q))
<1> DEFINE n == Len(in)  s == Append(in, p)  t == Append(passed, q)
<1>1. /\ n \in Nat /\ Len(passed) = n /\ DOMAIN in = 1 .. n /\ DOMAIN passed = 1 .. n
      /\ Len(s) = n + 1 /\ Len(t) = n + 1 /\ DOMAIN s = 1 .. n + 1 /\ DOMAIN t = 1 .. n + 1
      /\ s[n + 1] = p /\ t[n + 1] = q
      /\ \A j \in 1 .. n : s[j] = in[j] /\ t[j] = passed[j]
  BY DEF SoundPasses
<1>2. \A i \in 1 .. n + 1 : /\ Announced(s, i) = Announced(in, i)
                            /\ \A pid : Named(s, pid, i) <=> Named(in, pid, i)
  BY NamedByPrefix, AnnouncedByPrefix
<1> HIDE DEF n, s, t
<1>3. \A i \in 1 .. n + 1 : i \in 1 .. n \/ i = n + 1
  BY <1>1
<1>4. n + 1 \in 1 .. n + 1 /\ \A i \in 1 .. n : i \in 1 .. n + 1
  BY <1>1
<1>5. VideoStops(s, t)
  <2> SUFFICES ASSUME NEW i \in 1 .. n + 1
               PROVE  /\ t[i].kind = "pes" => t[i].pid \notin Announced(s, i)
                      /\ t[i].kind = "pmt" /\ VideoPids(t[i]) # {} => ~Named(s, t[i].pid, i)
    BY <1>1 DEF VideoStops
  <2>1. CASE i \in 1 .. n
    BY <1>1, <1>2, <2>1 DEF VideoStops
  <2>2. CASE i = n + 1
    BY <1>1, <1>2, <1>4, <2>2 DEF n
  <2> QED
    BY <1>3, <2>1, <2>2
<1>6. SoundPasses(s, t)
  <2> SUFFICES ASSUME NEW i \in 1 .. n + 1
               PROVE  /\ s[i].kind = "pat" => t[i] = s[i]
                      /\ s[i].kind = "pes" /\ s[i].pid \notin Announced(s, i) => t[i] = s[i]
                      /\ s[i].kind = "pmt" => \A k \in DOMAIN s[i].streams :
                           s[i].streams[k].type # "video" => t[i].streams[k] = s[i].streams[k]
    BY <1>1 DEF SoundPasses
  <2>1. CASE i \in 1 .. n
    BY <1>1, <1>2, <2>1 DEF SoundPasses
  <2>2. CASE i = n + 1
    BY <1>1, <1>2, <1>4, <2>2 DEF n
  <2> QED
    BY <1>3, <2>1, <2>2
<1> QED
  BY <1>5, <1>6 DEF s, t

\* Whatever packet comes next, the filter learns what it tells and passes what it should.
LEMMA PacketIsSound ==
  ASSUME ProperBroadcast, NEW f, NEW in, NEW passed, Sound(f, in, passed), NEW p \in Sent, NEW o
  PROVE  \E g, q : /\ FilterPacket([filter |-> f, out |-> o], p) = [filter |-> g, out |-> Append(o, q)]
                   /\ q \in Passed /\ Sound(g, Append(in, p), Append(passed, q))
<1> DEFINE acc == [filter |-> f, out |-> o]
           s == Append(in, p)
           Told(g) == /\ FilterOn(g)
                      /\ \A pid : pid \in g.pmts <=> Named(s, pid, Len(s) + 1)
                      /\ \A pid : pid \in g.videos <=> pid \in Announced(s, Len(s) + 1)
           Shown(q) == /\ q \in Passed
                       /\ VideoStops(s, Append(passed, q)) /\ SoundPasses(s, Append(passed, q))
<1>1. /\ in \in Seq(Sent) /\ passed \in Seq(Passed) /\ FilterOn(f)
      /\ \A pid : pid \in f.pmts <=> Named(in, pid, Len(in) + 1)
      /\ \A pid : pid \in f.videos <=> pid \in Announced(in, Len(in) + 1)
      /\ VideoStops(in, passed) /\ SoundPasses(in, passed)
  BY DEF Sound
<1>2. /\ \A pid : Named(s, pid, Len(s) + 1) <=>
           Named(in, pid, Len(in) + 1) \/ (p.kind = "pat" /\ pid \in PmtPids(p))
      /\ \A pid : pid \in Announced(s, Len(s) + 1) <=>
           \/ pid \in Announced(in, Len(in) + 1)
           \/ p.kind = "pmt" /\ Named(in, p.pid, Len(in) + 1) /\ pid \in VideoPids(p)
  BY <1>1, NamedByPacket, AnnouncedByPacket
<1>3. p \in Passed /\ Hidden(p) \in Passed /\ NullPacket \in Passed
  BY DEF Passed
<1>4. p.kind = "pat" <=> p.pid = PatPid
  BY DEF ProperBroadcast
<1>5. /\ DOMAIN f = {"enabled", "pmts", "videos"} /\ f.enabled
      /\ acc.filter = f /\ acc.out = o
  BY <1>1 DEF FilterOn
<1>6. SUFFICES \E g, q : /\ FilterPacket(acc, p) = [filter |-> g, out |-> Append(o, q)]
                         /\ Told(g) /\ Shown(q)
  <2>1. ASSUME NEW g, NEW q, Told(g), Shown(q) PROVE Sound(g, s, Append(passed, q)) /\ q \in Passed
    <3>1. s \in Seq(Sent) /\ Append(passed, q) \in Seq(Passed)
      BY <1>1, <2>1
    <3> QED
      BY <2>1, <3>1 DEF Sound
  <2> HIDE DEF Told, Shown
  <2> QED
    BY <1>6, <2>1
<1>7. CASE p.kind = "pat"
  <2> DEFINE g == [f EXCEPT !.pmts = @ \cup PmtPids(p)]
  <2>1. FilterPacket(acc, p) = [filter |-> g, out |-> Append(o, p)]
    BY <1>4, <1>5, <1>7 DEF FilterPacket
  <2>2. Told(g)
    BY <1>1, <1>2, <1>5, <1>7 DEF FilterOn
  <2>3. Shown(p)
    BY <1>1, <1>3, <1>7, OnePassed
  <2> HIDE DEF g, Told, Shown, acc
  <2> QED
    BY <2>1, <2>2, <2>3
<1>8. CASE p.kind = "pmt" /\ p.pid \in f.pmts
  <2> DEFINE g == [f EXCEPT !.videos = @ \cup VideoPids(p)]
  <2>1. FilterPacket(acc, p) = [filter |-> g, out |-> Append(o, Hidden(p))]
    BY <1>4, <1>5, <1>8 DEF FilterPacket
  <2>2. Told(g)
    BY <1>1, <1>2, <1>5, <1>8 DEF FilterOn
  <2>3. Shown(Hidden(p))
    BY <1>1, <1>3, <1>8, HiddenPacket, OnePassed
  <2> HIDE DEF g, Told, Shown, acc
  <2> QED
    BY <2>1, <2>2, <2>3
<1>9. CASE p.kind # "pat" /\ ~(p.kind = "pmt" /\ p.pid \in f.pmts)
  <2> DEFINE q == IF p.pid \in f.videos THEN NullPacket ELSE p
  <2>1. FilterPacket(acc, p) = [filter |-> f, out |-> Append(o, q)]
    BY <1>4, <1>5, <1>9 DEF FilterPacket
  <2>2. Told(f)
    BY <1>1, <1>2, <1>9
  <2>3. Shown(q)
    <3>1. q \in Passed /\ NullPacket.kind = "null"
      BY <1>3 DEF NullPacket
    <3>2. CASE p.pid \notin f.videos
      BY <1>1, <1>9, <3>1, <3>2, OnePassed
    <3>3. CASE p.pid \in f.videos
      <4>1. p.kind # "pmt"
        BY <1>1, <3>3 DEF ProperBroadcast, Announced
      <4> QED
        BY <1>1, <1>9, <3>1, <3>3, <4>1, OnePassed
    <3> QED
      BY <3>2, <3>3
  <2> HIDE DEF q, Told, Shown, acc
  <2> QED
    BY <2>1, <2>2, <2>3
<1> QED
  BY <1>7, <1>8, <1>9

\* A chunk joined to what came before, packet by packet.
LEMMA ChunkGrows ==
  ASSUME NEW S, NEW s \in Seq(S), NEW t \in Seq(S), NEW n \in 0 .. Len(t) - 1
  PROVE  Append(s \o SubSeq(t, 1, n), t[n + 1]) = s \o SubSeq(t, 1, n + 1)
<1> DEFINE a == SubSeq(t, 1, n)  e == t[n + 1]  b == SubSeq(t, 1, n + 1)
<1>1. a \in Seq(S) /\ e \in S /\ s \in Seq(S)
  OBVIOUS
<1>2. b = Append(a, e)
  OBVIOUS
<1> HIDE DEF a, b, e
<1>3. Append(s \o a, e) = s \o Append(a, e)
  BY <1>1
<1> QED
  BY <1>2, <1>3 DEF a, b, e

\* A chunk of packets, by induction along it.
LEMMA ChunkIsSound ==
  ASSUME ProperBroadcast, NEW f, NEW in, NEW passed, Sound(f, in, passed),
         NEW chunk, chunk \in Seq(Sent)
  PROVE  Sound(Filtered(f, chunk).filter, in \o chunk, passed \o Filtered(f, chunk).out)
<1>1. /\ in \in Seq(Sent) /\ passed \in Seq(Passed)
      /\ chunk \in Seq(Sent) /\ Len(chunk) \in Nat /\ chunk \in [1 .. Len(chunk) -> Sent]
  BY DEF Sound
<1>2. PICK after :
        /\ after[0] = [filter |-> f, out |-> <<>>]
        /\ \A n \in 1 .. Len(chunk) : after[n] = FilterPacket(after[n - 1], chunk[n])
        /\ Filtered(f, chunk) = after[Len(chunk)]
  BY <1>1, FilteredSteps
<1> DEFINE Good(acc, n) ==
             \E g, o : /\ acc = [filter |-> g, out |-> o] /\ o \in Seq(Passed)
                       /\ Sound(g, in \o SubSeq(chunk, 1, n), passed \o o)
           Reached == {n \in Nat : n <= Len(chunk) => Good(after[n], n)}
<1>3. 0 \in Reached
  <2>1. SubSeq(chunk, 1, 0) = <<>> /\ <<>> \in Seq(Passed)
    BY SubSeqEmpty
  <2>2. in \o SubSeq(chunk, 1, 0) = in /\ passed \o <<>> = passed
    BY <1>1, <2>1, ConcatEmptySeq
  <2> QED
    BY <1>2, <2>1, <2>2
<1>4. ASSUME NEW n \in Reached PROVE n + 1 \in Reached
  <2> SUFFICES ASSUME n + 1 <= Len(chunk) PROVE Good(after[n + 1], n + 1)
    OBVIOUS
  <2> DEFINE p == chunk[n + 1]  before == in \o SubSeq(chunk, 1, n)
  <2>1. n \in Nat /\ n + 1 \in 1 .. Len(chunk) /\ (n + 1) - 1 = n /\ n <= Len(chunk)
    BY <1>1
  <2> HIDE DEF p, before
  <2>2. PICK g, o : /\ after[n] = [filter |-> g, out |-> o] /\ o \in Seq(Passed)
                    /\ Sound(g, before, passed \o o)
    BY <1>4, <2>1 DEF before
  <2>3. p \in Sent
    BY <1>1, <2>1 DEF p
  <2>4. PICK h, q : /\ FilterPacket([filter |-> g, out |-> o], p) = [filter |-> h, out |-> Append(o, q)]
                    /\ q \in Passed /\ Sound(h, Append(before, p), Append(passed \o o, q))
    BY <2>2, <2>3, PacketIsSound
  <2>5. after[n + 1] = [filter |-> h, out |-> Append(o, q)]
    BY <1>2, <2>1, <2>2, <2>4 DEF p
  <2>6. Append(o, q) \in Seq(Passed) /\ Append(passed \o o, q) = passed \o Append(o, q)
    <3>1. passed \in Seq(Passed) /\ o \in Seq(Passed) /\ q \in Passed
      BY <1>1, <2>2, <2>4
    <3>2. Append(passed \o o, q) = passed \o Append(o, q)
      BY <3>1
    <3> QED
      BY <3>1, <3>2
  <2>7. Append(before, p) = in \o SubSeq(chunk, 1, n + 1)
    <3>1. n \in 0 .. Len(chunk) - 1
      BY <1>1, <2>1
    <3> HIDE DEF Good, Reached
    <3> QED
      BY <1>1, <3>1, ChunkGrows DEF before, p
  <2> QED
    BY <2>4, <2>5, <2>6, <2>7
<1>5. Reached = Nat
  <2>1. Reached \in SUBSET Nat
    OBVIOUS
  <2> HIDE DEF Reached
  <2> QED
    BY <1>3, <1>4, <2>1, SetInduction
<1>6. Good(after[Len(chunk)], Len(chunk))
  <2>1. Len(chunk) \in Reached
    BY <1>1, <1>5
  <2> HIDE DEF Good
  <2> QED
    BY <2>1
<1>7. SubSeq(chunk, 1, Len(chunk)) = chunk
  BY <1>1, SubSeqFull
<1>8. PICK g, o : /\ after[Len(chunk)] = [filter |-> g, out |-> o]
                  /\ Sound(g, in \o SubSeq(chunk, 1, Len(chunk)), passed \o o)
  BY <1>6
<1>9. Filtered(f, chunk) = [filter |-> g, out |-> o]
  BY <1>2, <1>8
<1>10. Filtered(f, chunk).filter = g /\ Filtered(f, chunk).out = o
  BY <1>9
<1> QED
  BY <1>7, <1>8, <1>10

-----------------------------------------------------------------------------

\* The inductive invariant for what the filter passes; it rests on the filter being on.
FilterSound == Sound(filter, fed, out)

LEMMA SoundAtFirst == Sound(NewFilter, <<>>, <<>>)
<1>1. \A pid : ~Named(<<>>, pid, Len(<<>>) + 1)
  BY DEF Named
<1>2. Announced(<<>>, Len(<<>>) + 1) = {}
  BY DEF Announced
<1>3. /\ NewFilter.pmts = {} /\ NewFilter.videos = {} /\ FilterOn(NewFilter)
      /\ <<>> \in Seq(Sent) /\ <<>> \in Seq(Passed)
  BY DEF NewFilter, FilterOn
<1>4. VideoStops(<<>>, <<>>) /\ SoundPasses(<<>>, <<>>)
  BY DEF VideoStops, SoundPasses
<1> QED
  BY <1>1, <1>2, <1>3, <1>4 DEF Sound

LEMMA NextSound ==
  WholePackets /\ ProperBroadcast /\ On /\ FilterSound /\ [Next]_vars => FilterSound'
<1> SUFFICES ASSUME WholePackets, ProperBroadcast, On, FilterSound, [Next]_vars
             PROVE  Sound(filter', fed', out')
  BY DEF FilterSound
<1>1. CASE \E n \in ReadSizes : Read(n)
  <2>1. PICK to \in 0 .. StreamEnd :
           /\ to > stream.pos /\ Aligned(to)
           /\ \/ UNCHANGED <<filter, fed, out>>
              \/ LET chunk == Chunk(stream.pos, to)
                 IN  /\ fed' = fed \o chunk /\ filter' = Filtered(filter, chunk).filter
                     /\ out' = out \o Filtered(filter, chunk).out
    BY <1>1, ReadFilters DEF On
  <2>2. Chunk(stream.pos, to) \in Seq(Sent)
    BY <2>1, ChunkFits, LiveStreamAssumption DEF On, Position
  <2> QED
    BY <2>1, <2>2, ChunkIsSound DEF FilterSound
<1>2. CASE ~\E n \in ReadSizes : Read(n)
  BY <1>2, OthersFeedNothing, SoundAtFirst DEF FilterSound
<1> QED
  BY <1>1, <1>2

\* Across reads, seeks and reopened streams, what Kodi is given is what was sent, in its
\* order, without the video that a pmt announced (radiofilter::filter_packets).
THEOREM SoundAndNoVideo ==
  ASSUME WholePackets, ProperBroadcast
  PROVE  Spec => []OnlySound
<1>1. Init => FilterSound
  BY SoundAtFirst DEF Init, FilterSound
<1>2. On /\ FilterSound /\ [Next]_vars => FilterSound'
  BY NextSound
<1>3. FilterSound => OnlySound
  BY DEF FilterSound, Sound, OnlySound
<1>4. Spec => []On
  BY OnInvariance
<1> QED
  BY <1>1, <1>2, <1>3, <1>4, PTL DEF Spec
-----------------------------------------------------------------------------
(* Types. *)

\* The types that the steps of a call do not need.
CallTypes ==
  /\ lineup \subseteq Devices /\ edits \in 0..MaxEdits /\ faults \in 0..MaxFaults
  /\ urls \in 0..Storages /\ tuner \in Tuners \cup {NoTuner}
  /\ call.op \in {"none", "live", "recorded"} /\ spare \subseteq Tuners

StreamTypes ==
  /\ stream.kind \in {"none", "storage", "http", "device", "recorded"}
  /\ stream.tuner \in Tuners \cup {NoTuner} /\ stream.pos \in 0..StreamEnd
  /\ DOMAIN filter = {"enabled", "pmts", "videos"} /\ filter.enabled \in BOOLEAN
  /\ fed \in Seq(Sent) /\ Len(fed) <= MaxFed

LEMMA InitTypes == Init => CallTypes /\ StreamTypes /\ broken \in BOOLEAN
<1> SUFFICES ASSUME Init PROVE CallTypes /\ StreamTypes /\ broken \in BOOLEAN
  OBVIOUS
<1>1. CallTypes
  BY LiveStreamAssumption DEF Init, CallTypes, NoCall
<1>2. <<>> \in Seq(Sent) /\ Len(<<>>) = 0
  OBVIOUS
<1>3. StreamTypes
  BY <1>2, LiveStreamAssumption DEF Init, StreamTypes, NoStream, NewFilter
<1> QED
  BY <1>1, <1>3 DEF Init

\* A chunk that is filtered keeps its length, and the filter stays on or off.
LEMMA FilteredKeeps ==
  ASSUME NEW f, DOMAIN f = {"enabled", "pmts", "videos"}, NEW chunk \in Seq(Sent)
  PROVE  /\ DOMAIN Filtered(f, chunk).filter = {"enabled", "pmts", "videos"}
         /\ Filtered(f, chunk).filter.enabled = f.enabled
         /\ Len(Filtered(f, chunk).out) = Len(chunk)
<1>1. PICK after :
        /\ after[0] = [filter |-> f, out |-> <<>>]
        /\ \A n \in 1 .. Len(chunk) : after[n] = FilterPacket(after[n - 1], chunk[n])
        /\ Filtered(f, chunk) = after[Len(chunk)]
  BY FilteredSteps, LenProperties
<1> DEFINE Kept(acc, n) == /\ DOMAIN acc.filter = {"enabled", "pmts", "videos"}
                           /\ acc.filter.enabled = f.enabled
                           /\ acc.out \in Seq(Passed) /\ Len(acc.out) = n
           Good == {n \in Nat : n <= Len(chunk) => Kept(after[n], n)}
<1>2. ASSUME NEW acc, NEW n \in Nat, Kept(acc, n), NEW p \in Sent
      PROVE  Kept(FilterPacket(acc, p), n + 1)
  <2>1. \A q \in Passed : Append(acc.out, q) \in Seq(Passed) /\ Len(Append(acc.out, q)) = n + 1
    BY <1>2
  <2>2. p \in Passed /\ Hidden(p) \in Passed /\ NullPacket \in Passed
    BY DEF Passed
  <2>3. PICK g, q :
          /\ FilterPacket(acc, p) = [filter |-> g, out |-> Append(acc.out, q)]
          /\ q \in Passed /\ DOMAIN g = {"enabled", "pmts", "videos"}
          /\ g.enabled = f.enabled
    <3> DEFINE h == acc.filter  o == acc.out
    <3>1. DOMAIN h = {"enabled", "pmts", "videos"} /\ h.enabled = f.enabled
      BY <1>2
    <3>2. CASE p.pid = PatPid
      <4> DEFINE g == [h EXCEPT !.pmts = @ \cup PmtPids(p)]
      <4>1. FilterPacket(acc, p) = [filter |-> g, out |-> Append(o, p)]
        BY <3>2 DEF FilterPacket
      <4>2. DOMAIN g = {"enabled", "pmts", "videos"} /\ g.enabled = f.enabled
        BY <3>1
      <4> HIDE DEF h, g
      <4> QED
        BY <2>2, <4>1, <4>2
    <3>3. CASE p.pid # PatPid /\ p.kind = "pmt" /\ p.pid \in h.pmts
      <4> DEFINE g == [h EXCEPT !.videos = @ \cup VideoPids(p)]
      <4>1. FilterPacket(acc, p) = [filter |-> g, out |-> Append(o, Hidden(p))]
        BY <3>3 DEF FilterPacket
      <4>2. DOMAIN g = {"enabled", "pmts", "videos"} /\ g.enabled = f.enabled
        BY <3>1
      <4> HIDE DEF h, g
      <4> QED
        BY <2>2, <4>1, <4>2
    <3>4. CASE p.pid # PatPid /\ ~(p.kind = "pmt" /\ p.pid \in h.pmts)
      <4> DEFINE q == IF p.pid \in h.videos THEN NullPacket ELSE p
      <4>1. FilterPacket(acc, p) = [filter |-> h, out |-> Append(o, q)] /\ q \in Passed
        BY <2>2, <3>4 DEF FilterPacket
      <4> HIDE DEF h, q
      <4> QED
        BY <3>1, <4>1
    <3> QED
      BY <3>2, <3>3, <3>4
  <2> QED
    BY <2>1, <2>3
<1>3. 0 \in Good
  <2>1. <<>> \in Seq(Passed) /\ Len(<<>>) = 0
    OBVIOUS
  <2>2. after[0].filter = f /\ after[0].out = <<>>
    BY <1>1
  <2>3. Kept(after[0], 0)
    BY <2>1, <2>2
  <2> HIDE DEF Kept
  <2> QED
    BY <2>3
<1>4. ASSUME NEW n \in Good PROVE n + 1 \in Good
  <2> SUFFICES ASSUME n + 1 <= Len(chunk) PROVE Kept(after[n + 1], n + 1)
    OBVIOUS
  <2>1. n \in Nat /\ Kept(after[n], n) /\ n + 1 \in 1 .. Len(chunk) /\ (n + 1) - 1 = n
    OBVIOUS
  <2>2. after[n + 1] = FilterPacket(after[n], chunk[n + 1]) /\ chunk[n + 1] \in Sent
    BY <1>1, <2>1
  <2> HIDE DEF Kept
  <2> QED
    BY <1>2, <2>1, <2>2
<1>5. Good = Nat
  <2>1. Good \in SUBSET Nat
    OBVIOUS
  <2> HIDE DEF Good
  <2> QED
    BY <1>3, <1>4, <2>1, SetInduction
<1> QED
  BY <1>1, <1>5, LenProperties

\* Wherever a read begins and ends, it stays within the stream, and what it feeds the
\* filter are packets that were sent.
LEMMA ReadFits ==
  ASSUME NEW n \in ReadSizes, stream.pos \in 0 .. StreamEnd, ReadLength(n) > 0
  PROVE  LET to == stream.pos + ReadLength(n)
         IN  to \in 0 .. StreamEnd /\ Chunk(stream.pos, to) \in Seq(Sent)
<1> DEFINE pos == stream.pos
           left == StreamEnd - pos
           d == AlignDown(n)
           m == IF left < d THEN left ELSE d
           up == AlignDown(pos + PacketLength - 1)
           rest == up - pos
           to == pos + ReadLength(n)
<1>1. /\ n \in Nat /\ PacketLength \in Nat \ {0} /\ StreamEnd \in Nat /\ pos \in 0 .. StreamEnd
      /\ n \in Int /\ pos + PacketLength - 1 \in Int /\ Len(Broadcast) \in Int
      /\ StreamEnd <= Len(Broadcast) * PacketLength
  BY RadioFilterAssumption, LiveStreamAssumption
<1>2. d \in Int /\ up \in Int
  BY <1>1, AlignedDown
<1> HIDE DEF d, up
<1>3. m \in Int /\ m <= left /\ m - rest \in Int
  BY <1>1, <1>2
<1>4. ReadLength(n) \in {AlignDown(m), rest + AlignDown(m - rest), m}
  BY DEF ReadLength, d, up
<1> HIDE DEF m
<1>5. /\ AlignDown(m) \in Int /\ AlignDown(m) <= m
      /\ AlignDown(m - rest) \in Int /\ AlignDown(m - rest) <= m - rest
  BY <1>3, AlignedDown
<1>6. ReadLength(n) \in Int /\ ReadLength(n) <= left
  <2>1. up \in Int /\ left \in Int /\ rest \in Int
    BY <1>1, <1>2
  <2> HIDE DEF left, rest
  <2> QED
    BY <1>3, <1>4, <1>5, <2>1
<1>7. to \in 0 .. StreamEnd /\ to \in Int /\ pos < to
  BY <1>1, <1>6
<1>8. Chunk(pos, to) \in Seq(Sent)
  <2> HIDE DEF to
  <2> DEFINE start == FirstPacket(pos, to)
             first == start \div PacketLength + 1  last == to \div PacketLength
  <2>0. to - pos \in Int
    BY <1>1, <1>7
  <2>1. (to - pos) % PacketLength \in 0 .. PacketLength - 1
    BY <2>0, Division
  <2>2. start \in Nat
    BY <1>1, <2>1 DEF FirstPacket
  <2> HIDE DEF start
  <2>3. /\ start \div PacketLength \in Int /\ start % PacketLength \in 0 .. PacketLength - 1
        /\ start = PacketLength * (start \div PacketLength) + (start % PacketLength)
    BY <2>2, Division
  <2>4. /\ last \in Int /\ to % PacketLength \in 0 .. PacketLength - 1
        /\ to = PacketLength * last + (to % PacketLength)
    BY <1>7, Division
  <2>5. start \div PacketLength >= 0
    BY <1>1, <2>2, <2>3
  <2> HIDE DEF last
  <2>6. last <= Len(Broadcast)
    <3>1. PacketLength * last <= Len(Broadcast) * PacketLength
      BY <1>1, <1>7, <2>4
    <3> QED
      BY <1>1, <2>4, <3>1
  <2>7. first \in Int /\ first >= 1
    BY <2>3, <2>5
  <2> HIDE DEF first
  <2>8. \A i \in first .. last : Broadcast[i] \in Sent
    <3>1. last \in Int /\ Len(Broadcast) \in Int
      BY <1>1, <2>4
    <3>2. \A i \in first .. last : i \in 1 .. Len(Broadcast)
      BY <2>6, <2>7, <3>1
    <3> QED
      BY <3>2 DEF Sent
  <2>9. SubSeq(Broadcast, first, last) \in Seq(Sent)
    BY <2>4, <2>7, <2>8, SubSeqProperties
  <2> QED
    BY <2>9 DEF Chunk, first, last, start
<1> QED
  BY <1>7, <1>8

\* A read feeds the filter no more than is counted, and leaves it on or off.
LEMMA ReadTypes ==
  ASSUME StreamTypes, DOMAIN stream = {"kind", "tuner", "radio", "pos"},
         NEW n \in ReadSizes, Read(n)
  PROVE  StreamTypes'
<1> DEFINE pos == stream.pos  to == pos + ReadLength(n)
           chunk == Chunk(pos, to)
           result == FilterChunk(filter, Broadcast, pos, to)
<1>1. to \in 0 .. StreamEnd /\ chunk \in Seq(Sent)
  BY ReadFits DEF Read, StreamTypes
<1>2. /\ stream' = [stream EXCEPT !.pos = to]
      /\ \/ UNCHANGED <<filter, fed, out>>
         \/ /\ Len(fed) + Len(result.out) <= MaxFed
            /\ fed' = fed \o chunk /\ filter' = result.filter
  BY DEF Read, Chunk
<1> HIDE DEF to
<1>3. result \in {[filter |-> filter, out |-> chunk],
                  [filter |-> [filter EXCEPT !.enabled = FALSE], out |-> chunk],
                  Filtered(filter, chunk)}
  BY DEF FilterChunk, Chunk
<1> HIDE DEF chunk, result
<1>4. /\ DOMAIN result.filter = {"enabled", "pmts", "videos"}
      /\ result.filter.enabled \in BOOLEAN /\ Len(result.out) = Len(chunk)
  <2>1. DOMAIN filter = {"enabled", "pmts", "videos"} /\ filter.enabled \in BOOLEAN
    BY DEF StreamTypes
  <2>2. CASE result = [filter |-> filter, out |-> chunk]
    BY <2>1, <2>2
  <2>3. CASE result = [filter |-> [filter EXCEPT !.enabled = FALSE], out |-> chunk]
    BY <2>1, <2>3
  <2>4. CASE result = Filtered(filter, chunk)
    BY <1>1, <2>1, <2>4, FilteredKeeps
  <2> QED
    BY <1>3, <2>2, <2>3, <2>4
<1>5. fed \o chunk \in Seq(Sent) /\ Len(fed \o chunk) = Len(fed) + Len(chunk)
  BY <1>1, ConcatProperties DEF StreamTypes
<1>6. stream'.kind = stream.kind /\ stream'.tuner = stream.tuner /\ stream'.pos = to
  BY <1>2
<1> QED
  BY <1>1, <1>2, <1>4, <1>5, <1>6 DEF StreamTypes

LEMMA StreamTypesKept ==
  ASSUME Inv, CallTypes, StreamTypes, [Next]_vars
  PROVE  StreamTypes'
<1>1. /\ NoStream.kind = "none" /\ NoStream.pos = 0 /\ NoStream.tuner = NoTuner
      /\ \A k, t : Stream(k, t).kind = k /\ Stream(k, t).pos = 0 /\ Stream(k, t).tuner = t
      /\ StreamEnd \in Nat /\ 0 \in 0 .. StreamEnd /\ MaxFed \in Nat
  BY LiveStreamAssumption DEF NoStream, Stream
<1>2. <<>> \in Seq(Sent) /\ Len(<<>>) = 0
  OBVIOUS
<1>3. UNCHANGED streamVars => StreamTypes'
  BY DEF StreamTypes, streamVars
<1>4. ASSUME NEW k \in {"storage", "http", "device", "recorded"},
             NEW t \in Tuners \cup {NoTuner}, Opened(k, t)
      PROVE  StreamTypes'
  BY <1>1, <1>4 DEF Opened, StreamTypes
<1>5. CloseStream => StreamTypes'
  BY <1>1, <1>2 DEF CloseStream, StreamTypes, NewFilter
<1>6. CASE WorldNext
  BY <1>3, <1>6 DEF WorldNext, OtherTakes, OtherLeaves, LineupEdit, SetSetting
<1>7. CASE OpenNext
  <2>1. CASE Route \/ SelectHttpTuner \/ ReleaseLock \/ ChooseAndLock \/ Tune \/ TuningFails
             \/ PauseScheduler \/ OpenReturns \/ OpenFails
    BY <1>3, <2>1 DEF Route, SelectHttpTuner, ReleaseLock, ChooseAndLock, Tune, TuningFails,
       PauseScheduler, OpenReturns, OpenFails
  <2>2. CASE StorageHttp \/ TunerHttp \/ StartStream \/ RecordedHttp
    BY <1>3, <1>4, <2>2 DEF StorageHttp, TunerHttp, StartStream, RecordedHttp, CallTypes
  <2>3. CASE ApplyFilter
    BY <2>3 DEF ApplyFilter, StreamTypes, Inv, Types
  <2>4. CASE OpenThrows
    BY <1>3, <1>5, <2>4 DEF OpenThrows
  <2> QED
    BY <1>7, <2>1, <2>2, <2>3, <2>4 DEF OpenNext
<1>8. ASSUME NEW radio \in BOOLEAN, OpenRecordedStream(radio) \/ OpenLiveStream(radio)
      PROVE  StreamTypes'
  BY <1>3, <1>8 DEF OpenRecordedStream, OpenLiveStream
<1>9. ASSUME NEW n \in ReadSizes, Read(n) PROVE StreamTypes'
  BY <1>9, ReadTypes DEF Inv, Types
<1>10. ASSUME NEW p \in Targets, Seek(p) PROVE StreamTypes'
  BY <1>10, LiveStreamAssumption DEF Seek, StreamTypes, Inv, Types
<1>11. CASE CloseLiveStream
  BY <1>5, <1>11 DEF CloseLiveStream
<1>12. CASE UNCHANGED vars
  BY <1>3, <1>12 DEF vars
<1> QED
  BY <1>6, <1>7, <1>8, <1>9, <1>10, <1>11, <1>12 DEF Next

LEMMA CallTypesKept ==
  ASSUME Inv, CallTypes, [Next]_vars
  PROVE  CallTypes'
<1> USE DEF CallTypes, worldVars, callVars, historyVars
<1>1. /\ MaxEdits \in Nat /\ MaxFaults \in Nat /\ Storages \in Nat
      /\ DeviceOf \in [Tuners -> Devices]
  BY LiveStreamAssumption
<1>2. CASE WorldNext
  <2>1. ASSUME NEW t \in Tuners, OtherTakes(t) \/ OtherLeaves(t) PROVE CallTypes'
    BY <1>1, <2>1 DEF OtherTakes, OtherLeaves, Edit
  <2>2. ASSUME NEW d \in Devices, LineupEdit(d) PROVE CallTypes'
    BY <1>1, <2>2 DEF LineupEdit, Edit
  <2>3. CASE SetSetting
    BY <1>1, <2>3 DEF SetSetting, Edit
  <2> QED
    BY <1>2, <2>1, <2>2, <2>3 DEF WorldNext
<1>3. CASE OpenNext
  <2>1. CASE Route
    BY <1>1, <2>1 DEF Route, StorageUrls
  <2>2. CASE StorageHttp
    BY <1>1, <2>2 DEF StorageHttp
  <2>3. CASE SelectHttpTuner \/ ChooseAndLock
    BY <1>1, <2>3 DEF SelectHttpTuner, ChooseAndLock, TunersOf, Fault
  <2>4. CASE TunerHttp \/ TuningFails
    BY <1>1, <2>4 DEF TunerHttp, TuningFails, Fault
  <2>5. CASE ReleaseLock \/ Tune \/ StartStream \/ ApplyFilter \/ PauseScheduler \/ RecordedHttp
    BY <2>5 DEF ReleaseLock, Tune, StartStream, ApplyFilter, PauseScheduler, RecordedHttp
  <2>6. CASE OpenReturns \/ OpenFails
    BY <2>6 DEF OpenReturns, OpenFails, NoCall
  <2>7. CASE OpenThrows
    BY <1>1, <2>7 DEF OpenThrows, Fault
  <2> QED
    BY <1>3, <2>1, <2>2, <2>3, <2>4, <2>5, <2>6, <2>7 DEF OpenNext
<1>4. ASSUME NEW radio \in BOOLEAN, OpenRecordedStream(radio) \/ OpenLiveStream(radio)
      PROVE  CallTypes'
  BY <1>4 DEF OpenRecordedStream, OpenLiveStream, TunersOf
<1>5. ASSUME NEW n \in ReadSizes, Read(n) PROVE CallTypes'
  BY <1>5 DEF Read
<1>6. ASSUME NEW p \in Targets, Seek(p) PROVE CallTypes'
  BY <1>6 DEF Seek
<1>7. CASE CloseLiveStream
  BY <1>7 DEF CloseLiveStream, NoCall
<1>8. CASE UNCHANGED vars
  BY <1>8 DEF vars
<1> QED
  BY <1>2, <1>3, <1>4, <1>5, <1>6, <1>7, <1>8 DEF Next

LEMMA BrokenKept == broken \in BOOLEAN /\ [Next]_vars => broken' \in BOOLEAN
<1>1. [Next]_vars => broken' \in {broken, TRUE, FALSE}
  BY DEF Next, WorldNext, OpenNext, vars, historyVars, OtherTakes, OtherLeaves, LineupEdit,
     SetSetting, OpenLiveStream, OpenRecordedStream, Route, StorageHttp, SelectHttpTuner,
     ReleaseLock, TunerHttp, ChooseAndLock, Tune, StartStream, TuningFails, ApplyFilter,
     PauseScheduler, RecordedHttp, OpenReturns, OpenThrows, OpenFails, Read, Seek,
     CloseLiveStream
<1> QED
  BY <1>1

\* Every variable keeps its type, whatever Kodi reads and seeks: in particular no read or
\* seek leaves the stream, and a call always has a tuner to lock, to tune or to give back.
THEOREM TypeCorrect == Spec => []TypeOK
<1> DEFINE Data == CallTypes /\ StreamTypes /\ broken \in BOOLEAN
<1>1. Inv /\ Data => TypeOK
  BY DEF Inv, Types, CallTypes, StreamTypes, TypeOK
<1>2. Inv /\ Data /\ [Next]_vars => Data'
  BY CallTypesKept, StreamTypesKept, BrokenKept
<1>3. Init => Data
  BY InitTypes
<1> HIDE DEF Data
<1> QED
  BY <1>1, <1>2, <1>3, Invariance, PTL DEF Spec
=============================================================================

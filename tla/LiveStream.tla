------------------------------ MODULE LiveStream ------------------------------
(***************************************************************************)
(* The stream that Kodi plays: how the addon opens, reads, seeks and       *)
(* closes it (src/src/addon.cpp), the lock of a tuner that a device stream *)
(* holds (src/src/devicestream.cpp), and the filter on top of it.          *)
(*                                                                         *)
(* Kodi makes these calls from one thread, and closes a stream before it   *)
(* opens the next.  Meanwhile other clients take and leave the tuners, the *)
(* scheduler's worker replaces the lineups, and the user changes settings. *)
(* The transfer below an HTTP stream is HttpStream's; here a stream is the *)
(* packets it carries and the position in them, in units of which a packet *)
(* has PacketLength.                                                       *)
(***************************************************************************)
EXTENDS RadioFilter, FiniteSets

CONSTANTS
  Devices,    \* tuner devices
  Legacy,     \* those without HTTP
  Tuners,     \* their tuners
  DeviceOf,   \* the device of each tuner
  NoTuner,    \* no tuner
  Storages,   \* the number of storage engines
  Broadcast,  \* the packets of the channel
  StreamEnd,  \* the units of the stream: the last packet may be cut off
  ReadSizes,  \* how many units Kodi reads at a time
  Targets,    \* the positions it seeks to
  MaxEdits,   \* bound on what other clients, the worker and the user do
  MaxFaults,  \* bound on the failures of devices, requests and queries
  MaxFed      \* bound on the packets read from a filtered stream

ASSUME LiveStreamAssumption ==
  /\ Legacy \subseteq Devices /\ DeviceOf \in [Tuners -> Devices] /\ NoTuner \notin Tuners
  /\ Storages \in Nat /\ StreamEnd \in 0..(Len(Broadcast) * PacketLength)
  /\ ReadSizes \subseteq Nat /\ Targets \subseteq 0..StreamEnd /\ {MaxEdits, MaxFaults, MaxFed} \subseteq Nat

VARIABLES
  owner,     \* who has each tuner: nobody, the addon's lock key, its HTTP stream, another client
  lineup,    \* the devices whose lineup has the channel
  settings,  \* m_settings
  edits,     \* the number of edits made
  faults,    \* the number of failures
  pc,        \* where the call is
  call,      \* the call's kind, whether the channel is radio, its copy of the settings
  urls,      \* the storage URLs left to try
  tuner,     \* the tuner selected
  stream,    \* m_pvrstream: its kind, tuner, whether it is filtered, and position
  filter,    \* the state of the filter
  fed, out,  \* history: the packets that the filter was fed, and those it passed
  paused,    \* the scheduler is paused
  spare,     \* history: the tuners that were available during the whole call
  broken     \* history: a query or a tuning command of the call failed

worldVars == <<owner, lineup, settings, edits>>
callVars == <<pc, call, urls, tuner>>
streamVars == <<stream, filter, fed, out>>
historyVars == <<spare, broken>>
vars == <<worldVars, faults, callVars, streamVars, paused, historyVars>>

NoStream == [kind |-> "none", tuner |-> NoTuner, radio |-> FALSE, pos |-> 0]

Stream(k, t) == [NoStream EXCEPT !.kind = k, !.tuner = t]

NoCall == [op |-> "none", radio |-> FALSE, direct |-> "no", pause |-> FALSE]

TunersOf(D) == {t \in Tuners : DeviceOf[t] \in D}

Settings ==
  [direct : {"no", "http", "rtp"}, pause : BOOLEAN, block : BOOLEAN]

Init ==
  /\ owner = [t \in Tuners |-> "nobody"] /\ lineup \in SUBSET Devices
  /\ settings \in Settings /\ edits = 0 /\ faults = 0
  /\ pc = "idle" /\ call = NoCall /\ urls = 0 /\ tuner = NoTuner
  /\ stream = NoStream /\ filter = NewFilter /\ fed = <<>> /\ out = <<>>
  /\ paused = FALSE /\ spare = {} /\ broken = FALSE

-----------------------------------------------------------------------------
(* Everyone else. *)

Edit == edits < MaxEdits /\ edits' = edits + 1

OtherTakes(t) ==
  /\ Edit /\ owner[t] = "nobody" /\ owner' = [owner EXCEPT ![t] = "other"]
  /\ spare' = spare \ {t}
  /\ UNCHANGED <<lineup, settings, faults, callVars, streamVars, paused, broken>>

OtherLeaves(t) ==
  /\ owner[t] = "other" /\ owner' = [owner EXCEPT ![t] = "nobody"]
  /\ UNCHANGED <<lineup, settings, edits, faults, callVars, streamVars, paused,
                 historyVars>>

\* The worker's discoveries replace the lineups, or the devices.
LineupEdit(d) ==
  /\ Edit
  /\ lineup' = IF d \in lineup THEN lineup \ {d} ELSE lineup \cup {d}
  /\ spare' = spare \cap TunersOf(lineup')
  /\ UNCHANGED <<owner, settings, faults, callVars, streamVars, paused, broken>>

SetSetting ==
  /\ Edit
  /\ \E s \in Settings :
       /\ Cardinality({f \in DOMAIN s : s[f] # settings[f]}) = 1
       /\ settings' = s
  /\ UNCHANGED <<owner, lineup, faults, callVars, streamVars, paused, historyVars>>

-----------------------------------------------------------------------------
(* Opening: one call at a time.  A step goes on or fails. *)

Goto(l) == pc' = l

Fault == faults < MaxFaults /\ faults' = faults + 1

\* The tuner of the stream is given back: by stopping it, clearing its channel and
\* releasing its lock key, or by the device when the connection ends.
Returned(t) == [owner EXCEPT ![t] = "nobody"]

CloseStream ==
  /\ owner' = IF stream.tuner = NoTuner THEN owner ELSE Returned(stream.tuner)
  /\ stream' = NoStream /\ filter' = NewFilter /\ fed' = <<>> /\ out' = <<>>

\* OpenLiveStream.  A protected channel may be refused first, which changes nothing.
OpenLiveStream(radio) ==
  /\ pc = "idle" /\ stream = NoStream
  /\ call' = [op |-> "live", radio |-> radio, direct |-> settings.direct,
              pause |-> settings.pause]
  /\ Goto("query") /\ broken' = FALSE
  /\ spare' = {t \in TunersOf(lineup) : owner[t] = "nobody"}
  /\ UNCHANGED <<worldVars, faults, urls, tuner, streamVars, paused>>

OpenRecordedStream(radio) ==
  /\ pc = "idle" /\ stream = NoStream
  /\ call' = [op |-> "recorded", radio |-> radio, direct |-> "no", pause |-> settings.pause]
  /\ Goto("pause") /\ broken' = FALSE /\ spare' = {}
  /\ UNCHANGED <<worldVars, faults, urls, tuner, streamVars, paused>>

\* is_channel_legacy_only: some legacy device has the channel.
LegacyOnly == lineup \cap Legacy # {}

\* get_storage_stream_urls: one for each engine, whatever it can receive.
StorageUrls == Storages

\* The routes that the settings allow are tried in turn: the storage engines, a tuner
\* by HTTP, a tuner's own protocol.
Route ==
  /\ pc = "query"
  /\ Goto(IF ~LegacyOnly /\ call.direct = "no" THEN "storage"
          ELSE IF ~LegacyOnly /\ call.direct = "http" THEN "tuners" ELSE "device")
  /\ urls' = IF pc' = "storage" THEN StorageUrls ELSE 0
  /\ UNCHANGED <<worldVars, faults, call, tuner, streamVars, paused, historyVars>>

Opened(k, t) ==
  /\ stream' = Stream(k, t) /\ Goto("filter")
  /\ UNCHANGED <<filter, fed, out>>

StorageHttp ==
  /\ pc = "storage"
  /\ \/ urls = 0 /\ Goto("tuners") /\ UNCHANGED <<urls, streamVars>>
     \/ urls > 0 /\ urls' = urls - 1 /\ UNCHANGED <<pc, streamVars>>
     \/ urls > 0 /\ urls' = 0 /\ Opened("storage", NoTuner)
  /\ UNCHANGED <<worldVars, faults, call, tuner, paused, historyVars>>

\* select_http_tuner: libhdhomerun locks a tuner that is free; without one, or when the
\* selection fails, the next route is tried.
SelectHttpTuner ==
  /\ pc = "tuners"
  /\ LET free == {t \in TunersOf(lineup \ Legacy) : owner[t] = "nobody"}
     IN  \/ \E t \in free :
              /\ owner' = [owner EXCEPT ![t] = "addon"] /\ tuner' = t /\ Goto("unlock")
              /\ UNCHANGED faults
         \/ free = {} /\ Goto("device") /\ UNCHANGED <<owner, tuner, faults>>
         \/ Fault /\ Goto("device") /\ UNCHANGED <<owner, tuner>>
  /\ UNCHANGED <<lineup, settings, edits, call, urls, streamVars, paused, historyVars>>

\* The lock cannot be handed to the HTTP stream and is released again.
ReleaseLock ==
  /\ pc = "unlock" /\ owner' = Returned(tuner) /\ Goto("http")
  /\ UNCHANGED <<lineup, settings, edits, faults, call, urls, tuner, streamVars, paused,
                 historyVars>>

\* get_tuner_stream_url: the channel's entry in the tuner's lineup.
HasUrl(t) == DeviceOf[t] \in lineup

\* Fault: a tuner that does not answer is the end of the call.
TunerHttpNoFallback ==
  /\ pc = "http" /\ tuner' = NoTuner
  /\ \/ /\ HasUrl(tuner) /\ owner[tuner] = "nobody"
        /\ owner' = [owner EXCEPT ![tuner] = "stream"] /\ Opened("http", tuner)
        /\ UNCHANGED faults
     \/ /\ ~HasUrl(tuner) \/ owner[tuner] # "nobody"
        /\ Goto("failed") /\ UNCHANGED <<owner, streamVars, faults>>
     \/ Fault /\ Goto("failed") /\ UNCHANGED <<owner, streamVars>>
  /\ UNCHANGED <<lineup, settings, edits, call, urls, paused, historyVars>>

\* With its URL, the device serves it if the tuner has
\* not been taken since it was released.
TunerHttp ==
  /\ pc = "http" /\ tuner' = NoTuner
  /\ \/ /\ HasUrl(tuner) /\ owner[tuner] = "nobody"
        /\ owner' = [owner EXCEPT ![tuner] = "stream"] /\ Opened("http", tuner)
        /\ UNCHANGED faults
     \/ /\ ~HasUrl(tuner) \/ owner[tuner] # "nobody"
        /\ Goto("device") /\ UNCHANGED <<owner, streamVars, faults>>
     \/ Fault /\ Goto("device") /\ UNCHANGED <<owner, streamVars>>
  /\ UNCHANGED <<lineup, settings, edits, call, urls, paused, historyVars>>

\* devicestream::create: all the tuners of the channel, legacy or not.
ChooseAndLock ==
  /\ pc = "device"
  /\ LET free == {t \in TunersOf(lineup) : owner[t] = "nobody"}
     IN  \/ \E t \in free :
              owner' = [owner EXCEPT ![t] = "addon"] /\ tuner' = t /\ Goto("channel")
         \/ free = {} /\ Goto("failed") /\ UNCHANGED <<owner, tuner>>
  /\ UNCHANGED <<lineup, settings, edits, faults, call, urls, streamVars, paused, historyVars>>

TuningStep == [channel |-> "program", program |-> "start"]

\* The channel and the program are set.
Tune ==
  /\ pc \in DOMAIN TuningStep /\ Goto(TuningStep[pc])
  /\ UNCHANGED <<worldVars, faults, call, urls, tuner, streamVars, paused, historyVars>>

\* The constructor starts the stream.
StartStream ==
  /\ pc = "start" /\ Opened("device", tuner) /\ tuner' = NoTuner
  /\ UNCHANGED <<worldVars, faults, call, urls, paused, historyVars>>

\* Fault: a tuning command that fails leaves the lock behind.
TuningFailsLocked ==
  /\ pc \in {"channel", "program", "start"} /\ Fault
  /\ tuner' = NoTuner /\ Goto("failed") /\ broken' = TRUE
  /\ UNCHANGED <<worldVars, call, urls, streamVars, paused, spare>>

\* Any of the three may fail: the lock is released and no other tuner is tried.
TuningFails ==
  /\ pc \in {"channel", "program", "start"} /\ Fault
  /\ owner' = Returned(tuner) /\ tuner' = NoTuner /\ Goto("failed") /\ broken' = TRUE
  /\ UNCHANGED <<lineup, settings, edits, call, urls, streamVars, paused, spare>>

\* The setting is read as it is now, not from the call's copy.
ApplyFilter ==
  /\ pc = "filter"
  /\ stream' = [stream EXCEPT !.radio = call.radio /\ settings.block]
  /\ Goto(IF call.op = "live" THEN "pause" ELSE "times")
  /\ UNCHANGED <<worldVars, faults, call, urls, tuner, filter, fed, out, paused, historyVars>>

\* A live stream pauses the scheduler once it is open, a recorded one before.
PauseScheduler ==
  /\ pc = "pause" /\ paused' = (paused \/ call.pause)
  /\ Goto(IF call.op = "live" THEN "times" ELSE "recording")
  /\ UNCHANGED <<worldVars, faults, call, urls, tuner, streamVars, historyVars>>

RecordedHttp ==
  /\ pc = "recording" /\ Opened("recorded", NoTuner)
  /\ UNCHANGED <<worldVars, faults, call, urls, tuner, paused, historyVars>>

\* The start and the end of the stream are noted, and Kodi has its stream.
OpenReturns ==
  /\ pc = "times" /\ Goto("idle")
  /\ call' = [NoCall EXCEPT !.pause = call.pause] /\ spare' = {}
  /\ UNCHANGED <<worldVars, faults, urls, tuner, streamVars, paused, broken>>

\* Fault: the scheduler is left paused when the stream cannot be opened.
OpenThrowsPaused ==
  /\ Fault
  /\ \/ pc = "query" /\ UNCHANGED <<owner, streamVars>>
     \/ pc \in {"recording", "filter", "times"} /\ CloseStream
  /\ Goto("failed") /\ broken' = TRUE
  /\ UNCHANGED <<lineup, settings, edits, call, urls, tuner, paused, spare>>

\* A query or a request throws: what was opened is closed, the scheduler resumed.
OpenThrows ==
  /\ Fault
  /\ \/ pc = "query" /\ UNCHANGED <<owner, streamVars, paused>>
     \/ pc \in {"recording", "times"} /\ CloseStream /\ paused' = FALSE
  /\ Goto("failed") /\ broken' = TRUE
  /\ UNCHANGED <<lineup, settings, edits, call, urls, tuner, spare>>

OpenFails ==
  /\ pc = "failed" /\ Goto("idle") /\ call' = NoCall
  /\ spare' = {} /\ broken' = FALSE
  /\ UNCHANGED <<worldVars, faults, urls, tuner, streamVars, paused>>

-----------------------------------------------------------------------------
(* Reading, seeking and closing. *)

AlignDown(n) == n - (n % PacketLength)

\* Fault: an HTTP stream returns as many units as it was asked for.
ReadLengthUnaligned(n) ==
  LET left == StreamEnd - stream.pos IN IF left < n THEN left ELSE n

\* How much a read of n units returns: a device stream has whole packets only, an HTTP
\* stream returns the rest of a packet and whole ones after it.
ReadLength(n) ==
  LET left == StreamEnd - stream.pos
      m == IF left < AlignDown(n) THEN left ELSE AlignDown(n)
      rest == AlignDown(stream.pos + PacketLength - 1) - stream.pos
  IN  IF stream.kind = "device" THEN AlignDown(m)
      ELSE IF m >= rest + PacketLength THEN rest + AlignDown(m - rest) ELSE m

\* ReadLiveStream and ReadRecordedStream.  A read that throws is tried once more, and reads
\* nothing when that throws too.  Left out is a retry that finds a broken transfer and
\* returns what the buffer still has, which may end inside of a packet.
Read(n) ==
  /\ pc = "idle" /\ stream # NoStream /\ ReadLength(n) > 0
  /\ LET to == stream.pos + ReadLength(n)
         chunk == FilterChunk(filter, Broadcast, stream.pos, to)
         first == FirstPacket(stream.pos, to) \div PacketLength + 1
     IN  /\ stream' = [stream EXCEPT !.pos = to]
         /\ IF stream.radio
              THEN /\ Len(fed) + Len(chunk.out) <= MaxFed
                   /\ filter' = chunk.filter
                   /\ fed' = fed \o SubSeq(Broadcast, first, to \div PacketLength)
                   /\ out' = out \o chunk.out
              ELSE UNCHANGED <<filter, fed, out>>
  /\ UNCHANGED <<worldVars, faults, callVars, paused, historyVars>>

\* canseek(): what a storage engine serves can be sought, within the packets and to
\* any unit of them.  The filter keeps what it knows.
Seek(p) ==
  /\ pc = "idle" /\ stream.kind \in {"storage", "recorded"} /\ p # stream.pos
  /\ stream' = [stream EXCEPT !.pos = p]
  /\ UNCHANGED <<worldVars, faults, callVars, filter, fed, out, paused, historyVars>>

CloseLiveStream ==
  /\ pc = "idle" /\ stream # NoStream
  /\ CloseStream /\ paused' = FALSE /\ call' = NoCall
  /\ UNCHANGED <<lineup, settings, edits, faults, pc, urls, tuner, historyVars>>

-----------------------------------------------------------------------------

WorldNext ==
  \/ \E t \in Tuners : OtherTakes(t) \/ OtherLeaves(t)
  \/ \E d \in Devices : LineupEdit(d)
  \/ SetSetting

OpenNext ==
  \/ Route \/ StorageHttp \/ SelectHttpTuner \/ ReleaseLock \/ TunerHttp
  \/ ChooseAndLock \/ Tune \/ StartStream \/ TuningFails
  \/ ApplyFilter \/ PauseScheduler \/ RecordedHttp \/ OpenReturns \/ OpenThrows \/ OpenFails

Next ==
  \/ WorldNext
  \/ \E radio \in BOOLEAN :
       OpenRecordedStream(radio) \/ OpenLiveStream(radio)
  \/ OpenNext
  \/ \E n \in ReadSizes : Read(n)
  \/ \E p \in Targets : Seek(p)
  \/ CloseLiveStream

Spec == Init /\ [][Next]_vars

-----------------------------------------------------------------------------
(* Properties. *)

Steps == {"idle", "query", "storage", "tuners", "unlock", "http", "device", "channel",
          "program", "start", "filter", "pause", "recording", "times", "failed"}

TypeOK ==
  /\ owner \in [Tuners -> {"nobody", "addon", "stream", "other"}]
  /\ lineup \subseteq Devices /\ settings \in Settings
  /\ edits \in 0..MaxEdits /\ faults \in 0..MaxFaults
  /\ pc \in Steps /\ urls \in 0..Storages /\ tuner \in Tuners \cup {NoTuner}
  /\ call.op \in {"none", "live", "recorded"}
  /\ stream.kind \in {"none", "storage", "http", "device", "recorded"}
  /\ stream.tuner \in Tuners \cup {NoTuner} /\ stream.pos \in 0..StreamEnd
  /\ filter.enabled \in BOOLEAN /\ Len(fed) <= MaxFed
  /\ {paused, broken} \subseteq BOOLEAN /\ spare \subseteq Tuners

\* A tuner's lock is held by the call that selected it or by the open device stream and
\* by nothing else, whichever step of the opening failed; an HTTP stream's tuner is the
\* device's to give back.
TunersReturned ==
  \A t \in Tuners :
    /\ owner[t] = "addon" <=>
         \/ pc \in {"unlock", "channel", "program", "start"} /\ tuner = t
         \/ stream.kind = "device" /\ stream.tuner = t
    /\ owner[t] = "stream" <=> stream.kind = "http" /\ stream.tuner = t

\* The scheduler is paused for as long as a stream is open that was opened with that
\* setting on, and not a step longer: a call that fails, at whatever step, leaves it as
\* it was.
PausedForTheStream ==
  pc = "idle" => (paused <=> stream # NoStream /\ call.pause)

\* "Attempt to create the stream from the tuner via RTP/UDP (always available)"
\* (src/src/addon.cpp:4475): while tuning commands and queries succeed, a live stream
\* fails to open only if no tuner was free and listed during the whole call, however
\* storage engines and HTTP requests fail and other clients race for the tuners.
SpareTunerIsFound == pc = "failed" /\ call.op = "live" /\ ~broken => spare = {}

\* What the filter needs of Kodi and of the stream: more than a packet is read at a time,
\* and the stream ends with a packet.
WholePackets ==
  StreamEnd % PacketLength = 0 /\ \A n \in ReadSizes : n >= 2 * PacketLength

\* What it needs of the broadcast: the pid of pats is theirs alone, a pat claims to have
\* as many sections as it has entries, or more, and no pmt comes with a pid that a pmt
\* announces as video.
Sent == {Broadcast[i] : i \in 1 .. Len(Broadcast)}

ProperBroadcast ==
  \A p \in Sent :
    /\ DOMAIN p = {"kind", "pid", "entries", "sections", "streams"}
    /\ p.kind = "pat" <=> p.pid = PatPid
    /\ Len(p.entries) \in Nat /\ p.sections \in Nat
    /\ p.kind = "pat" => Len(p.entries) <= p.sections
    /\ \A i \in DOMAIN p.streams : {"type", "pid"} \subseteq DOMAIN p.streams[i]
    /\ p.kind = "pmt" => \A q \in Sent : q.kind = "pmt" => p.pid \notin VideoPids(q)

\* The streams below the filter keep their word to "always end the buffer aligned"
\* (src/src/radiofilter.cpp:299), wherever Kodi seeks to, as long as it reads more than
\* a packet at a time and the stream does not end within a packet (its last read may
\* then begin and end in the middle of one): the filter is never disabled.
FilterStaysOn == filter.enabled

\* What reaches Kodi is what was sent, in its order, without the video that a program map
\* table announced.
OnlySound == VideoStops(fed, out) /\ SoundPasses(fed, out)
=============================================================================

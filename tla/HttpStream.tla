------------------------------ MODULE HttpStream ------------------------------
(***************************************************************************)
(* Class httpstream (src/src/httpstream.cpp): a stream that is read and    *)
(* sought through a ring buffer, which libcurl's callbacks fill while a    *)
(* call waits in transfer_until().                                         *)
(*                                                                         *)
(* All of it runs on the caller's thread; what varies is the server and    *)
(* how libcurl cuts its reply into callbacks.  A byte is represented by    *)
(* its place in what the server streams, so the buffer shows which byte a  *)
(* cell holds.  Options, media types, allocation failures and close(),      *)
(* which frees the handles, are left out.                                  *)
(***************************************************************************)
EXTENDS Integers

CONSTANTS
  BufferSize,    \* m_buffersize
  PacketLength,  \* MPEGTS_PACKET_LENGTH
  MaxLength,     \* MAX_STREAM_LENGTH, the largest long long
  ReadSizes,     \* the counts read() is called with
  Deltas,        \* the positions seek() is called with
  ChunkSizes,    \* how many bytes libcurl may pass to one callback
  StreamEnd,     \* bound: the server streams the bytes 0 .. StreamEnd - 1
  PlainReplies,  \* the server may take no notice of ranges
  ErrorReplies,  \* the server may reply with an error of its own
  ErrorBodies    \* error replies may have a body

ASSUME HttpStreamAssumption ==
  /\ BufferSize \in Nat \ {0} /\ ChunkSizes \subseteq 1 .. BufferSize - 1
  /\ PacketLength \in Nat \ {0}
  /\ StreamEnd \in Nat \ {0} /\ MaxLength \in Nat /\ StreamEnd < MaxLength
  /\ ReadSizes \subseteq Nat /\ Deltas \subseteq Int
  /\ {PlainReplies, ErrorReplies, ErrorBodies} \subseteq BOOLEAN

Cells == 0 .. BufferSize - 1

\* A cell that holds no byte of the stream.
Junk == -1

Smaller(a, b) == IF a < b THEN a ELSE b

Larger(a, b) == IF a > b THEN a ELSE b

VARIABLES
  buffer,    \* m_buffer
  head,      \* m_head, where the next byte is written
  tail,      \* m_tail, where the next byte is read
  startpos,  \* m_startpos, the position at which the transfer started
  readpos,   \* m_readpos
  writepos,  \* m_writepos
  length,    \* m_length
  headers,   \* m_headers
  canseek,   \* m_canseek
  paused,    \* m_paused
  transfer,  \* the easy handle: removed, request sent, receiving, or over
  status,    \* the status of the reply
  failed,    \* the transfer ended with an error of libcurl's
  left,      \* how many bytes of the reply have not been written yet
  held,      \* the size of the chunk libcurl keeps while it is paused
  complete,  \* the server knows where the stream ends
  call,      \* the call that is being made
  pc,        \* where it is in transfer_until()
  result,    \* what the last call came to
  oldest     \* a seek went to the oldest byte of a full buffer

ringVars == <<buffer, head, tail>>
posVars == <<startpos, readpos, writepos, length>>
flagVars == <<headers, canseek, paused>>
transferVars == <<transfer, status, failed, left, held>>
callVars == <<call, pc, result, oldest>>

vars == <<ringVars, posVars, flagVars, transferVars, complete, callVars>>

NoCall == [op |-> "none", count |-> 0, delta |-> 0, whence |-> "set",
           from |-> 0, target |-> 0, again |-> FALSE]

\* The constructor has sent the request for the whole stream.
Init ==
  /\ buffer = [i \in Cells |-> Junk]
  /\ head = 0 /\ tail = 0
  /\ startpos = 0 /\ readpos = 0 /\ writepos = 0
  /\ length = MaxLength
  /\ headers = FALSE /\ canseek = FALSE /\ paused = FALSE
  /\ transfer = "sent" /\ status = "none" /\ failed = FALSE
  /\ left = 0 /\ held = 0
  /\ complete \in BOOLEAN
  /\ call = [NoCall EXCEPT !.op = "create"]
  /\ pc = "first"
  /\ result = "none"
  /\ oldest = FALSE

-----------------------------------------------------------------------------
(***************************************************************************)
(* The ring buffer.                                                        *)
(***************************************************************************)

Available == IF tail > head THEN (BufferSize - tail) + head ELSE head - tail

\* Fault: the space of the byte that tells full from empty is used as well.
FreeOneMore ==
  1 + IF head < tail THEN tail - head ELSE (BufferSize - head) + tail

Free == IF head < tail THEN tail - head ELSE (BufferSize - head) + tail

\* The index of a cell n cells after cell i.
Advanced(i, n) == IF i + n >= BufferSize THEN i + n - BufferSize ELSE i + n

\* How many cells after cell i cell j comes.
Distance(i, j) == IF j >= i THEN j - i ELSE j - i + BufferSize

\* The byte the server sends n bytes from now.
Byte(n) == IF status = "ok" THEN StreamEnd - left + n ELSE Junk

AlignDown(n) == n - (n % PacketLength)

AlignUp(n) == AlignDown(n + PacketLength - 1)

-----------------------------------------------------------------------------
(***************************************************************************)
(* The server and libcurl, inside of curl_multi_perform().                 *)
(***************************************************************************)

Performing == pc \in {"first", "loop"}

\* The headers of a reply that says which bytes it consists of.
Ranged(start, len, stat, body) ==
  /\ startpos' = start /\ readpos' = start /\ writepos' = start
  /\ length' = len
  /\ canseek' = TRUE
  /\ status' = stat
  /\ left' = body

\* The headers of a reply without ranges.
Plain(stat, body) ==
  /\ status' = stat
  /\ left' = body
  /\ UNCHANGED <<posVars, canseek>>

ErrorBody == IF ErrorBodies THEN 0 .. 1 ELSE {0}

\* curl_responseheaders(): a range of the stream, all of it, or an error.  A
\* server that does not know the end yet has no position beyond it.
Respond ==
  /\ Performing /\ transfer = "sent"
  /\ \/ /\ call.target < StreamEnd \/ ~complete
        /\ LET start == Smaller(call.target, StreamEnd - 1)
           IN  Ranged(start, IF complete THEN StreamEnd ELSE MaxLength, "ok", StreamEnd - start)
     \/ /\ call.target >= StreamEnd /\ complete
        /\ \E body \in ErrorBody : Ranged(StreamEnd, StreamEnd, "unsatisfiable", body)
     \/ PlainReplies /\ Plain("ok", StreamEnd)
     \/ ErrorReplies /\ \E body \in ErrorBody : Plain("error", body)
  /\ headers' = TRUE
  /\ transfer' = "receiving"
  /\ UNCHANGED <<ringVars, paused, failed, held, complete, callVars>>

\* curl_write(): all of the chunk is written, or the transfer is paused.
Write(n) ==
  /\ transfer = "receiving"
  /\ IF Free < n + 1
       THEN /\ paused' = TRUE
            /\ held' = n
            /\ UNCHANGED <<ringVars, writepos, left>>
       ELSE /\ buffer' = [i \in Cells |-> IF Distance(head, i) < n THEN Byte(Distance(head, i))
                                          ELSE buffer[i]]
            /\ head' = Advanced(head, n)
            /\ writepos' = writepos + n
            /\ left' = left - n
            /\ held' = 0
            /\ UNCHANGED <<tail, paused>>
  /\ UNCHANGED <<startpos, readpos, length, headers, canseek, transfer, status,
                 failed, complete, callVars>>

\* The chunk that was held back comes first, and whole; libcurl may pass it on
\* from within curl_easy_pause().
Receive ==
  /\ Performing \/ (pc = "resuming" /\ held > 0)
  /\ ~paused
  /\ left > 0
  /\ \E n \in ChunkSizes :
       Write(IF held > 0 THEN held ELSE Smaller(n, left))

\* The reply ends, or the connection does.
End ==
  /\ Performing /\ ~paused
  /\ \/ transfer = "receiving" /\ left = 0 /\ UNCHANGED failed
     \/ transfer \in {"sent", "receiving"} /\ failed' = TRUE
  /\ transfer' = "over"
  /\ UNCHANGED <<ringVars, posVars, flagVars, status, left, held, complete, callVars>>

\* A recording that is in progress ends.
Complete ==
  /\ ~complete
  /\ complete' = TRUE
  /\ UNCHANGED <<ringVars, posVars, flagVars, transferVars, callVars>>

-----------------------------------------------------------------------------
(***************************************************************************)
(* transfer_until().                                                       *)
(***************************************************************************)

\* The predicate a call waits for.
Satisfied(c) ==
  IF c.op = "read" THEN Available >= c.count ELSE headers /\ Available > 0

\* Fault: m_paused is left set when the transfer is resumed.
TransferUntilStillPaused(c) ==
  /\ call' = c /\ result' = "none"
  /\ pc' = IF Satisfied(c) THEN "done" ELSE IF paused THEN "resuming" ELSE "first"
  /\ UNCHANGED paused

TransferUntil(c) ==
  /\ call' = c /\ result' = "none"
  /\ IF Satisfied(c)
       THEN pc' = "done" /\ UNCHANGED paused
       ELSE /\ pc' = IF paused THEN "resuming" ELSE "first"
            /\ paused' = FALSE

\* curl_easy_pause() returns.
Resumed ==
  /\ pc = "resuming"
  /\ pc' = IF paused THEN "done" ELSE "first"
  /\ UNCHANGED <<ringVars, posVars, flagVars, transferVars, complete, call, result, oldest>>

NotRunning == transfer \in {"over", "removed"}

\* The first curl_multi_perform() returns.  That the transfer is over by then
\* leads to no check of how it ended.
FirstPerformed ==
  /\ pc = "first"
  /\ pc' = IF NotRunning \/ paused \/ Satisfied(call) THEN "done" ELSE "loop"
  /\ UNCHANGED <<ringVars, posVars, flagVars, transferVars, complete, call, result, oldest>>

\* Fault: the loop goes on while the transfer is paused.
LoopPerformedPaused ==
  /\ pc = "loop"
  /\ NotRunning \/ Satisfied(call)
  /\ IF NotRunning
       THEN /\ transfer' = "removed"
            /\ pc' = IF failed THEN "throwing" ELSE IF status # "ok" THEN "refused" ELSE "done"
       ELSE pc' = "done" /\ UNCHANGED transfer
  /\ UNCHANGED <<ringVars, posVars, flagVars, status, failed, left, held, complete,
                 call, result, oldest>>

\* The loop ends; a transfer that is over is checked and removed.
LoopPerformed ==
  /\ pc = "loop"
  /\ NotRunning \/ paused \/ Satisfied(call)
  /\ IF NotRunning
       THEN /\ transfer' = "removed"
            /\ pc' = IF failed THEN "throwing" ELSE IF status # "ok" THEN "refused" ELSE "done"
       ELSE pc' = "done" /\ UNCHANGED transfer
  /\ UNCHANGED <<ringVars, posVars, flagVars, status, failed, left, held, complete,
                 call, result, oldest>>

\* curl_multi_perform() or curl_multi_wait() fails.
MultiFails ==
  /\ Performing /\ ~NotRunning
  /\ pc' = "throwing"
  /\ UNCHANGED <<ringVars, posVars, flagVars, transferVars, complete, call, result, oldest>>

-----------------------------------------------------------------------------
(***************************************************************************)
(* The calls.                                                              *)
(***************************************************************************)

Ends(r) ==
  /\ pc' = "idle"
  /\ result' = r
  /\ call' = NoCall

\* A count that does not fit throws, one below a packet's length reads nothing.
Read ==
  /\ pc = "idle"
  /\ \E n \in ReadSizes :
       IF n >= BufferSize
         THEN Ends("threw") /\ UNCHANGED paused
         ELSE IF AlignDown(n) = 0
                THEN Ends("nothing") /\ UNCHANGED paused
                ELSE TransferUntil([NoCall EXCEPT !.op = "read", !.count = AlignDown(n)])
  /\ UNCHANGED <<ringVars, posVars, headers, canseek, transferVars, complete, oldest>>

\* How much read() returns: whole packets, after the rest of one.
ReadLength ==
  LET n == Smaller(Available, call.count)
      rest == AlignUp(readpos) - readpos
  IN  IF n >= rest + PacketLength THEN rest + AlignDown(n - rest) ELSE n

ReadReturns ==
  /\ pc = "done" /\ call.op = "read"
  /\ IF Available = 0
       THEN Ends("end") /\ UNCHANGED <<tail, readpos>>
       ELSE /\ tail' = Advanced(tail, ReadLength)
            /\ readpos' = readpos + ReadLength
            /\ Ends("data")
  /\ UNCHANGED <<buffer, head, startpos, writepos, length, flagVars, transferVars,
                 complete, oldest>>

\* The constructor or restart() has the headers and some data, or throws.
StartReturns ==
  /\ pc = "done" /\ call.op # "read"
  /\ IF headers /\ Available > 0
       THEN Ends("position")
       ELSE pc' = "throwing" /\ UNCHANGED <<call, result>>
  /\ UNCHANGED <<ringVars, posVars, flagVars, transferVars, complete, oldest>>

\* The value of a long long that has overflowed.
Wrap(n) == ((n + MaxLength + 1) % (2 * (MaxLength + 1))) - (MaxLength + 1)

NewPosition(delta, whence) ==
  LET sum == CASE whence = "set" -> Larger(delta, 0)
               [] whence = "cur" -> Wrap(readpos + delta)
               [] OTHER          -> Wrap(length + delta)
  IN  IF sum >= 0 THEN sum ELSE IF delta >= 0 THEN MaxLength ELSE 0

MinPos ==
  IF writepos - startpos > BufferSize THEN writepos - BufferSize ELSE startpos

\* The index of the byte at a position that the buffer holds.
TailAt(position) ==
  IF MinPos = startpos THEN position - startpos
                       ELSE Advanced(head, position - MinPos)

\* Fault: the buffer is emptied, but the positions are kept.
RestartKeepingPositions(c) ==
  /\ head' = 0 /\ tail' = 0
  /\ length' = MaxLength
  /\ headers' = FALSE /\ canseek' = FALSE /\ paused' = FALSE
  /\ transfer' = "sent" /\ status' = "none" /\ failed' = FALSE
  /\ left' = 0 /\ held' = 0
  /\ call' = c /\ pc' = "first" /\ result' = "none"
  /\ oldest' = FALSE
  /\ UNCHANGED <<buffer, startpos, readpos, writepos, complete>>

\* restart(): everything is reset, the request is sent anew.
Restart(c) ==
  /\ head' = 0 /\ tail' = 0
  /\ startpos' = 0 /\ readpos' = 0 /\ writepos' = 0
  /\ length' = MaxLength
  /\ headers' = FALSE /\ canseek' = FALSE /\ paused' = FALSE
  /\ transfer' = "sent" /\ status' = "none" /\ failed' = FALSE
  /\ left' = 0 /\ held' = 0
  /\ call' = c /\ pc' = "first" /\ result' = "none"
  /\ oldest' = FALSE
  /\ UNCHANGED <<buffer, complete>>

SeekInPlace(delta, whence) ==
  /\ pc = "idle"
  /\ ~canseek \/ NewPosition(delta, whence) = readpos
  /\ Ends(IF canseek THEN "position" ELSE "unsupported")
  /\ UNCHANGED <<ringVars, posVars, flagVars, transferVars, complete, oldest>>

InBuffer(position) == position >= MinPos /\ position < writepos

SeekInBuffer(delta, whence) ==
  LET target == NewPosition(delta, whence)
  IN  /\ pc = "idle" /\ canseek
      /\ target # readpos /\ InBuffer(target)
      /\ tail' = TailAt(target)
      /\ readpos' = target
      /\ oldest' = (target = writepos - BufferSize)
      /\ Ends("position")
      /\ UNCHANGED <<buffer, head, startpos, writepos, length, flagVars, transferVars, complete>>

SeekRestart(delta, whence) ==
  LET target == NewPosition(delta, whence)
  IN  /\ pc = "idle" /\ canseek
      /\ target # readpos /\ ~InBuffer(target)
      /\ Restart([NoCall EXCEPT !.op = "seek", !.delta = delta, !.whence = whence,
                                !.from = readpos, !.target = target])

\* On HTTP 416 the position is computed anew with the length of the reply.
RetryPosition ==
  Smaller(CASE call.whence = "set" -> Larger(call.delta, 0)
            [] call.whence = "cur" -> Wrap(call.from + call.delta)
            [] OTHER               -> Wrap(length + call.delta),
          length)

Retries ==
  /\ pc = "refused" /\ status = "unsatisfiable"
  /\ call.op = "seek" /\ ~call.again /\ call.target > length

SeekAgain ==
  /\ Retries
  /\ Restart([call EXCEPT !.target = Larger(RetryPosition, 0), !.again = TRUE])

\* An exception leaves the call; the object does not outlive its constructor's.
Throw ==
  /\ pc \in {"throwing", "refused"} /\ ~Retries
  /\ IF call.op = "create"
       THEN pc' = "closed" /\ result' = "threw" /\ call' = NoCall
       ELSE Ends("threw")
  /\ UNCHANGED <<ringVars, posVars, flagVars, transferVars, complete, oldest>>

-----------------------------------------------------------------------------
TransferStep ==
  \/ Respond
  \/ Receive
  \/ End
  \/ Resumed
  \/ FirstPerformed
  \/ LoopPerformed
  \/ ReadReturns
  \/ StartReturns
  \/ SeekAgain
  \/ Throw

Next ==
  \/ TransferStep
  \/ MultiFails
  \/ Complete
  \/ Read
  \/ \E delta \in Deltas, whence \in {"set", "cur", "end"} :
       SeekInPlace(delta, whence) \/ SeekInBuffer(delta, whence) \/ SeekRestart(delta, whence)

Spec == Init /\ [][Next]_vars

\* The server answers, goes on sending and ends its reply, or the connection
\* fails: transfer_until() itself has no timeout.
FairSpec == Spec /\ WF_vars(TransferStep)

-----------------------------------------------------------------------------
(***************************************************************************)
(* Properties.                                                             *)
(***************************************************************************)

Bytes == Junk .. StreamEnd - 1

\* The indexes stay in the buffer, the positions in order, a chunk is held back
\* only from a reply, and a call waits only while one is made.
TypeOK ==
  /\ buffer \in [Cells -> Bytes]
  /\ head \in Cells /\ tail \in Cells
  /\ startpos \in Nat /\ writepos \in Nat /\ readpos \in startpos .. writepos
  /\ length \in Nat
  /\ headers \in BOOLEAN /\ canseek \in BOOLEAN /\ paused \in BOOLEAN
  /\ transfer \in {"sent", "receiving", "over", "removed"}
  /\ status \in {"none", "ok", "unsatisfiable", "error"}
  /\ failed \in BOOLEAN /\ complete \in BOOLEAN /\ oldest \in BOOLEAN
  /\ left \in 0 .. StreamEnd
  /\ held \in 0 .. left
  /\ call \in [op : {"none", "create", "read", "seek"}, count : Nat, delta : Int,
               whence : {"set", "cur", "end"}, from : Nat, target : Nat, again : BOOLEAN]
  /\ pc \in {"idle", "first", "resuming", "loop", "done", "throwing", "refused", "closed"}
  /\ result \in {"none", "data", "end", "nothing", "position", "unsupported", "threw"}

\* What is read next is what the server streams at position(): every byte of
\* the unread part of the buffer is the one of its position, whatever was read,
\* written, paused and sought before.  (A seek to the oldest byte is apart.)
UnreadMatches ==
  status = "ok" /\ ~oldest =>
    \A i \in Cells : Distance(tail, i) < Available => buffer[i] = readpos + Distance(tail, i)

\* read() returns no data only when there is none to come: the transfer has
\* ended, all that was written has been read, and nothing was held back.
EndMeansEnd ==
  result = "end" /\ pc = "idle" /\ ~oldest =>
    NotRunning /\ readpos = writepos /\ (failed \/ left = 0)

\* The bytes that are read next, in their order.
Unread == [i \in 1 .. Available |-> buffer[Advanced(tail, i - 1)]]

\* The reader gets what a stream promises that can be sought in: whatever is written,
\* paused, read and sought, what comes next are the bytes of one reply in their order
\* and from one position on, nothing arrives over what has not been read, and a seek
\* finds every byte that was kept at its position, but for the oldest of a full buffer.
Reader == INSTANCE SeekableStream WITH
  Capacity <- BufferSize,
  NoByte   <- Junk,
  source   <- CASE status = "none" -> "none" [] status = "ok" -> "stream" [] OTHER -> "else",
  start    <- startpos,
  written  <- writepos,
  position <- readpos,
  unread   <- Unread

ImplementsReader == Reader!Spec

\* Every call returns: neither a full buffer nor a paused transfer, a refused
\* request or a seek far beyond the end leaves it waiting.
CallsReturn == []<>(pc \in {"idle", "closed"})

\* After every call what is buffered spans the read and the write position.
\* "Modify the tail pointer to reference that position for the next read."
PositionsAgree == pc = "idle" => Available = writepos - readpos

\* A stream is opened or restarted only on a reply that is no error.
ErrorsReported == result = "position" /\ pc = "idle" => status = "ok"
=============================================================================

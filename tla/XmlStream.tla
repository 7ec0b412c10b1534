------------------------------- MODULE XmlStream -------------------------------
(***************************************************************************)
(* Class xmlstream (src/src/xmlstream.cpp): a download that the XML parser *)
(* reads through a ring buffer.  libcurl's callback fills the buffer while *)
(* the constructor or a read waits in transfer_until(), all of it on the   *)
(* reader's thread.  A byte is represented by its place in the body of the *)
(* reply, so the buffer shows which byte a cell holds.                     *)
(***************************************************************************)
EXTENDS Integers, Sequences

CONSTANTS
  BufferSize,  \* m_buffersize
  ChunkSizes,  \* how many bytes libcurl may pass to one callback
  ReadSizes    \* the counts the parser reads with

ASSUME XmlStreamAssumption ==
  /\ BufferSize \in Nat \ {0} /\ ChunkSizes \subseteq 1 .. BufferSize - 1
  /\ ReadSizes \subseteq 1 .. BufferSize - 1

VARIABLES
  buffer, head, tail,  \* m_buffer, m_head, m_tail
  paused,              \* m_paused
  length,              \* the number of bytes of the body of the reply
  good,                \* the HTTP status of the reply is a success
  sent,                \* how many bytes libcurl has passed to curl_write()
  held,                \* the size of the chunk that curl_write() refused
  transfer,            \* "active", over with success or "failed", or "removed"
  at,                  \* where the call in transfer_until() is
  count,               \* the count of the read, 0 in the constructor
  read                 \* the bytes the parser has got

ringVars == <<buffer, head, tail, paused>>
transferVars == <<length, good, sent, held, transfer>>
streamVars == <<ringVars, transferVars, at, count, read>>

Cells == 0 .. BufferSize - 1

\* No stream is open.
Closed ==
  /\ buffer = [i \in Cells |-> 0] /\ head = 0 /\ tail = 0 /\ paused = FALSE
  /\ length = 0 /\ good = TRUE /\ sent = 0 /\ held = 0 /\ transfer = "removed"
  /\ at = "closed" /\ count = 0 /\ read = <<>>

\* close(), and the destructor.
Close ==
  /\ buffer' = [i \in Cells |-> 0] /\ head' = 0 /\ tail' = 0 /\ paused' = FALSE
  /\ length' = 0 /\ good' = TRUE /\ sent' = 0 /\ held' = 0 /\ transfer' = "removed"
  /\ at' = "closed" /\ count' = 0 /\ read' = <<>>

Available == IF tail > head THEN (BufferSize - tail) + head ELSE head - tail

Free == IF head < tail THEN tail - head ELSE (BufferSize - head) + tail

\* The cells from cell i on, n of them.
Span(i, n) == [k \in 1..n |-> (i + k - 1) % BufferSize]

\* The constructor, for a reply with such a body and status.
Construct(body, ok) ==
  /\ at = "closed"
  /\ length' = body /\ good' = ok /\ transfer' = "active" /\ at' = "first"
  /\ UNCHANGED <<ringVars, sent, held, count, read>>

-----------------------------------------------------------------------------
(* libcurl, inside of curl_multi_perform() and curl_easy_pause(). *)

\* Fault: a chunk may fill the buffer, which then looks empty.
WriteFull(n) ==
  IF Free < n
  THEN paused' = TRUE /\ held' = n /\ UNCHANGED <<buffer, head, tail, sent>>
  ELSE /\ buffer' = [i \in Cells |-> LET k == (i - head) % BufferSize
                                     IN  IF k < n THEN sent + k + 1 ELSE buffer[i]]
       /\ head' = (head + n) % BufferSize
       /\ sent' = sent + n /\ held' = 0 /\ UNCHANGED <<tail, paused>>

\* curl_write(): the whole chunk, or none of it and the transfer is paused.
Write(n) ==
  IF Free < n + 1
  THEN paused' = TRUE /\ held' = n /\ UNCHANGED <<buffer, head, tail, sent>>
  ELSE /\ buffer' = [i \in Cells |-> LET k == (i - head) % BufferSize
                                     IN  IF k < n THEN sent + k + 1 ELSE buffer[i]]
       /\ head' = (head + n) % BufferSize
       /\ sent' = sent + n /\ held' = 0 /\ UNCHANGED <<tail, paused>>

\* A chunk arrives.  The one that was held back comes first, and whole.
Receive ==
  /\ at \in {"first", "perform"} \/ (at = "resume" /\ held > 0)
  /\ transfer = "active" /\ ~paused /\ sent < length
  /\ \E n \in IF held > 0 THEN {held} ELSE {c \in ChunkSizes : c <= length - sent} :
       Write(n)
  /\ UNCHANGED <<length, good, transfer, at, count, read>>

\* The reply is over, or the connection is cut.
End ==
  /\ at \in {"first", "perform"} /\ transfer = "active" /\ ~paused
  /\ \/ sent = length /\ transfer' = "complete"
     \/ transfer' = "failed"
  /\ UNCHANGED <<ringVars, length, good, sent, held, at, count, read>>

-----------------------------------------------------------------------------
(* read() and transfer_until(). *)

\* Fault: a paused transfer is resumed when the buffer is full enough.
ReadPausedOn(n) ==
  /\ at = "idle" /\ count' = n
  /\ IF paused /\ Free < BufferSize \div 2
     THEN paused' = FALSE /\ at' = "resume" ELSE at' = "first" /\ UNCHANGED paused
  /\ UNCHANGED <<buffer, head, tail, transferVars, read>>

\* A paused transfer is resumed once half of the buffer is free.
Read(n) ==
  /\ at = "idle" /\ count' = n
  /\ IF paused /\ Free >= BufferSize \div 2
     THEN paused' = FALSE /\ at' = "resume" ELSE at' = "first" /\ UNCHANGED paused
  /\ UNCHANGED <<buffer, head, tail, transferVars, read>>

\* The chunk held back has been written or refused again: that aborts the transfer.
Resumed ==
  /\ at = "resume" /\ (held = 0 \/ paused)
  /\ at' = IF paused THEN "return" ELSE "first"
  /\ UNCHANGED <<ringVars, transferVars, count, read>>

\* One perform is over.  After the first one a transfer that is over, with whatever
\* result, is not looked at.  The loop goes on with the next perform, or is left and
\* the result of a transfer that is over is checked.
Performed ==
  /\ at \in {"first", "perform"}
  /\ IF transfer = "active"
     THEN /\ at' = IF paused \/ Available > 0 THEN "return" ELSE "perform"
          /\ UNCHANGED transfer
     ELSE IF at = "first" THEN at' = "return" /\ UNCHANGED transfer
     ELSE /\ at' = IF transfer = "complete" /\ good THEN "return" ELSE "throw"
          /\ transfer' = "removed"
  /\ UNCHANGED <<ringVars, length, good, sent, held, count, read>>

\* The constructor returns, or throws when nothing was received.  It is wrapped by
\* xmltv_filter, which then makes the parser read.
Constructed ==
  /\ at = "return" /\ count = 0
  /\ at' = IF Available > 0 THEN "idle" ELSE "throw"
  /\ UNCHANGED <<ringVars, transferVars, count, read>>

\* read() returns what there is, or 0 for the end of the stream.  The cells it has read
\* hold nothing of interest any more.
ReadReturns ==
  /\ at = "return" /\ count > 0
  /\ LET n == IF Available < count THEN Available ELSE count
         span == Span(tail, n)
     IN  /\ read' = read \o [k \in 1..n |-> buffer[span[k]]]
         /\ buffer' = [i \in Cells |-> IF \E k \in 1..n : span[k] = i THEN 0 ELSE buffer[i]]
         /\ tail' = (tail + n) % BufferSize
         /\ at' = IF n = 0 THEN "end" ELSE "idle"
  /\ count' = 0
  /\ UNCHANGED <<head, paused, transferVars>>

StreamNext ==
  \/ Receive \/ End
  \/ \E n \in ReadSizes : Read(n)
  \/ Resumed \/ Performed \/ Constructed \/ ReadReturns

-----------------------------------------------------------------------------
(* Properties. *)

StreamTypeOK ==
  /\ buffer \in [Cells -> 0..length] /\ {head, tail} \subseteq Cells
  /\ {paused, good} \subseteq BOOLEAN
  /\ length \in Nat /\ sent \in 0..length /\ held \in {0} \cup ChunkSizes
  /\ transfer \in {"active", "complete", "failed", "removed"}
  /\ at \in {"closed", "idle", "resume", "first", "perform", "return", "throw", "end"}
  /\ count \in {0} \cup ReadSizes /\ read \in Seq(1..length)

\* The parser gets the bytes of the body in order, none twice and none left out, and
\* what it has not got is in the buffer: chunks that wrap around the end of the buffer,
\* or that were refused and come again, are neither lost nor overwritten.
InOrder ==
  /\ read = [k \in 1..Len(read) |-> k]
  /\ sent = Len(read) + Available
  /\ \A k \in 1..Available : buffer[(tail + k - 1) % BufferSize] = Len(read) + k

\* A read returns 0, the end of the document to the parser, only when the transfer is
\* over and everything received was read: a paused transfer never looks like the end,
\* whatever the size of the chunk that is held back.
EndMeansOver == at = "end" => transfer # "active" /\ Len(read) = sent
=============================================================================

--------------------------- MODULE HttpStreamProofs ---------------------------
(***************************************************************************)
(* Proofs about the HTTP stream: for every buffer, chunk and packet size,  *)
(* what is read next is what the server streams at position(), read()      *)
(* returns nothing only at the end, and the ring buffer implements the     *)
(* stream that its reader is promised.                                     *)
(***************************************************************************)
EXTENDS HttpStream, SequenceTheorems, TLAPS

Written == writepos - startpos

\* Until a transfer has written the buffer full for the first time, the head is
\* where its bytes end; nothing has happened before the reply.
HeadInv ==
  /\ Written < BufferSize => head = Written
  /\ Written = BufferSize => head = 0
  /\ transfer = "sent" =>
       writepos = 0 /\ startpos = 0 /\ head = 0 /\ tail = 0 /\ left = 0 /\ status = "none" /\ ~oldest
  /\ status = "ok" => writepos = StreamEnd - left
  /\ status = "none" => writepos = 0 /\ left = 0

\* The tail is as far behind the head as the read behind the write position.
TailInv == writepos - readpos = Available + (IF oldest THEN BufferSize ELSE 0)

\* The byte that the reply has at a position.
Content(p) == IF status = "ok" THEN p ELSE Junk

\* The cells hold the bytes last written, also those that have been read.
CellsInv ==
  \A i \in Cells :
    /\ i < head => buffer[i] = Content(writepos - head + i)
    /\ i >= head /\ Written >= BufferSize => buffer[i] = Content(writepos - head - BufferSize + i)

\* A call that waits has been paused only by a buffer that holds something, and
\* a read that is done waiting has some data or no transfer left.
WaitInv ==
  /\ held < BufferSize
  /\ NotRunning => failed \/ left = 0
  /\ pc \in {"first", "resuming", "loop"} /\ paused => Available > 0
  /\ pc # "idle" /\ call.op = "read" => call.count > 0
  /\ pc = "done" /\ call.op = "read" => NotRunning \/ Available > 0
  /\ pc = "idle" /\ result = "end" => NotRunning /\ (oldest \/ readpos = writepos)

IInv == TypeOK /\ HeadInv /\ TailInv /\ CellsInv /\ WaitInv

-----------------------------------------------------------------------------
(***************************************************************************)
(* The arithmetic of the buffer.                                           *)
(***************************************************************************)

LEMMA Remainder ==
  ASSUME NEW n \in Nat, NEW m \in Nat \ {0}
  PROVE  n % m \in 0 .. m - 1 /\ n % m <= n
OBVIOUS

\* The free cells and those that are read next make up the buffer.
LEMMA FreeOrAvailable ==
  ASSUME head \in Cells, tail \in Cells
  PROVE  /\ Available \in 0 .. BufferSize - 1
         /\ Free = BufferSize - Available
BY HttpStreamAssumption DEF Cells, Available, Free

LEMMA IndexAdvances ==
  ASSUME NEW i \in Cells, NEW n \in 0 .. BufferSize
  PROVE  Advanced(i, n) \in Cells
BY HttpStreamAssumption DEF Cells, Advanced

LEMMA WrapFits ==
  ASSUME NEW n \in Int
  PROVE  Wrap(n) \in Int
BY HttpStreamAssumption DEF Wrap

LEMMA NewPositionFits ==
  ASSUME readpos \in Nat, length \in Nat, NEW delta \in Int, NEW whence
  PROVE  NewPosition(delta, whence) \in Nat
<1>1. Wrap(readpos + delta) \in Int /\ Wrap(length + delta) \in Int
  BY WrapFits
<1> QED
  BY <1>1, HttpStreamAssumption DEF NewPosition, Larger

\* A read takes no more than is available.
LEMMA ReadFits ==
  ASSUME TypeOK, call.count \in Nat, Available \in Nat
  PROVE  ReadLength \in 0 .. Available
<1> DEFINE n == Smaller(Available, call.count)
           top == readpos + PacketLength - 1
           rest == AlignUp(readpos) - readpos
<1>1. n \in 0 .. Available /\ readpos \in Nat /\ PacketLength \in Nat \ {0}
  BY HttpStreamAssumption DEF Smaller, TypeOK
<1>2. top % PacketLength \in 0 .. PacketLength - 1
  BY <1>1, Remainder
<1>3. rest \in Nat
  BY <1>1, <1>2 DEF AlignUp, AlignDown
<1>4. CASE n >= rest + PacketLength
  <2>1. n - rest \in Nat
    BY <1>1, <1>3, <1>4
  <2>2. (n - rest) % PacketLength \in 0 .. n - rest
    BY <1>1, <2>1, Remainder
  <2> QED BY <1>1, <1>3, <1>4, <2>2 DEF ReadLength, AlignDown
<1>5. CASE ~(n >= rest + PacketLength)
  BY <1>1, <1>5 DEF ReadLength
<1> QED
  BY <1>4, <1>5

-----------------------------------------------------------------------------
(***************************************************************************)
(* The invariant.                                                          *)
(***************************************************************************)

Calls == [op : {"none", "create", "read", "seek"}, count : Nat, delta : Int,
          whence : {"set", "cur", "end"}, from : Nat, target : Nat, again : BOOLEAN]

\* The parts of the type invariant: numbers, flags and the rest.
Numbers ==
  /\ buffer \in [Cells -> Bytes]
  /\ head \in Cells /\ tail \in Cells
  /\ startpos \in Nat /\ writepos \in Nat /\ readpos \in startpos .. writepos
  /\ length \in Nat
  /\ left \in 0 .. StreamEnd
  /\ held \in 0 .. left

Flags ==
  /\ headers \in BOOLEAN /\ canseek \in BOOLEAN /\ paused \in BOOLEAN
  /\ failed \in BOOLEAN /\ complete \in BOOLEAN /\ oldest \in BOOLEAN

States ==
  /\ transfer \in {"sent", "receiving", "over", "removed"}
  /\ status \in {"none", "ok", "unsatisfiable", "error"}
  /\ call \in Calls
  /\ pc \in {"idle", "first", "resuming", "loop", "done", "throwing", "refused", "closed"}
  /\ result \in {"none", "data", "end", "nothing", "position", "unsupported", "threw"}

LEMMA TypeParts == TypeOK <=> Numbers /\ Flags /\ States
BY Zenon DEF TypeOK, Numbers, Flags, States, Calls

\* The record of a call that is made.
LEMMA NoCallFits ==
  /\ NoCall \in Calls
  /\ [NoCall EXCEPT !.op = "create"] \in Calls
  /\ \A n \in Nat : [NoCall EXCEPT !.op = "read", !.count = n] \in Calls
<1>1. NoCall \in Calls
  BY DEF NoCall, Calls
<1>2. [NoCall EXCEPT !.op = "create"] \in Calls
  BY <1>1 DEF Calls
<1>3. \A n \in Nat : [NoCall EXCEPT !.op = "read", !.count = n] \in Calls
  BY <1>1 DEF Calls
<1> QED
  BY <1>1, <1>2, <1>3

LEMMA InitIInv == Init => IInv
<1> SUFFICES ASSUME Init PROVE IInv
  OBVIOUS
<1> USE HttpStreamAssumption
<1>1. TypeOK
  <2>1. Numbers
    BY DEF Init, Numbers, Cells, Bytes, Junk
  <2>2. Flags
    BY Zenon DEF Init, Flags
  <2>3. States
    BY NoCallFits DEF Init, States
  <2> QED BY <2>1, <2>2, <2>3, TypeParts
<1>2. HeadInv /\ TailInv /\ CellsInv
  BY DEF Init, HeadInv, TailInv, CellsInv, Written, Available, Cells
<1>3. WaitInv
  BY DEF Init, WaitInv, NotRunning, NoCall
<1> QED
  BY <1>1, <1>2, <1>3 DEF IInv

\* A chunk that is written comes after the bytes in the buffer, and over those
\* that are no longer part of it.
LEMMA WriteKeeps ==
  ASSUME IInv, NEW n \in 1 .. left, n < BufferSize, ~paused, pc # "done", pc # "idle", Write(n)
  PROVE  IInv'
<1> USE HttpStreamAssumption
<1> DEFINE room == ~(Free < n + 1)
<1>1. /\ TypeOK /\ HeadInv /\ TailInv /\ CellsInv /\ WaitInv
      /\ head \in Cells /\ tail \in Cells /\ buffer \in [Cells -> Bytes]
      /\ startpos \in Nat /\ writepos \in Nat /\ readpos \in startpos .. writepos
      /\ left \in 0 .. StreamEnd
  BY DEF IInv, TypeOK
<1>2. Available \in 0 .. BufferSize - 1 /\ Free = BufferSize - Available
  BY <1>1, FreeOrAvailable
<1>3. CASE ~room
  <2>1. /\ UNCHANGED <<ringVars, posVars, headers, canseek, transfer, status, failed, left,
                       complete, callVars>>
        /\ paused' = TRUE /\ held' = n
    BY <1>3 DEF Write, posVars
  <2>2. Available > 0
    BY <1>2, <1>3
  <2>3. TypeOK'
    BY <1>1, <2>1 DEF TypeOK, ringVars, posVars, callVars, Cells, Bytes
  <2>4. HeadInv' /\ TailInv' /\ CellsInv'
    BY <1>1, <2>1 DEF HeadInv, TailInv, CellsInv, Content, Written, Available, Cells,
       ringVars, posVars, callVars
  <2>5. WaitInv'
    BY <1>1, <2>1, <2>2 DEF WaitInv, NotRunning, Available, ringVars, posVars, callVars
  <2> QED BY <2>3, <2>4, <2>5 DEF IInv
<1>4. CASE room
  <2> DEFINE D(i) == Distance(head, i)
  <2>1. /\ buffer' = [i \in Cells |-> IF D(i) < n THEN Byte(D(i)) ELSE buffer[i]]
        /\ head' = Advanced(head, n)
        /\ writepos' = writepos + n /\ left' = left - n /\ held' = 0
        /\ UNCHANGED <<tail, paused, startpos, readpos, length, headers, canseek, transfer,
                       status, failed, complete, callVars>>
    BY <1>4 DEF Write
  <2>2. head' \in Cells
    BY <1>1, <2>1, IndexAdvances
  <2>3. \A i \in Cells : D(i) \in 0 .. BufferSize - 1
    BY <1>1 DEF Distance, Cells
  <2>4. \A i \in Cells : D(i) < n => Byte(D(i)) \in Bytes
    BY <1>1, <2>3 DEF Byte, Bytes, Junk
  <2>5. buffer' \in [Cells -> Bytes]
    BY <1>1, <2>1, <2>4
  <2>6. TypeOK'
    BY <1>1, <2>1, <2>2, <2>5 DEF TypeOK, callVars
  <2>7. HeadInv'
    BY <1>1, <2>1, <2>6 DEF HeadInv, Written, Advanced, Cells, Write, callVars
  <2>8. TailInv'
    BY <1>1, <1>2, <1>4, <2>1 DEF TailInv, Available, Advanced, Cells, callVars
  <2>9. CellsInv'
    <3> SUFFICES ASSUME NEW i \in Cells
                 PROVE  /\ i < head' => buffer'[i] = Content(writepos' - head' + i)
                        /\ i >= head' /\ Written' >= BufferSize =>
                             buffer'[i] = Content(writepos' - head' - BufferSize + i)
      BY <2>1 DEF CellsInv, Content
    <3>1. status = "ok" => writepos = StreamEnd - left
      BY <1>1 DEF HeadInv
    <3>2. buffer'[i] = IF D(i) < n THEN Content(writepos + D(i)) ELSE buffer[i]
      BY <2>1, <3>1 DEF Byte, Content
    <3>3. /\ i < head => buffer[i] = Content(writepos - head + i)
          /\ i >= head /\ Written >= BufferSize =>
               buffer[i] = Content(writepos - head - BufferSize + i)
      BY <1>1 DEF CellsInv
    <3>4. D(i) = IF i >= head THEN i - head ELSE i - head + BufferSize
      BY DEF Distance
    <3>5. CASE head + n < BufferSize
      BY <1>1, <2>1, <3>2, <3>3, <3>4, <3>5 DEF Written, Advanced, Cells, HeadInv
    <3>6. CASE head + n >= BufferSize
      BY <1>1, <2>1, <3>2, <3>3, <3>4, <3>6 DEF Written, Advanced, Cells
    <3> QED BY <1>1, <3>5, <3>6 DEF Cells
  <2>10. WaitInv'
    BY <1>1, <2>1 DEF WaitInv, NotRunning, callVars
  <2> QED BY <2>6, <2>7, <2>8, <2>9, <2>10 DEF IInv
<1> QED
  BY <1>3, <1>4

\* The headers of a reply only say where it starts.
LEMMA RespondKeeps == ASSUME IInv, Respond PROVE IInv'
<1> USE HttpStreamAssumption
<1>1. /\ TypeOK /\ HeadInv /\ TailInv /\ CellsInv /\ WaitInv
      /\ pc \in {"first", "loop"} /\ transfer = "sent"
  BY DEF IInv, Respond, Performing
<1>2. /\ buffer' = buffer /\ head' = head /\ tail' = tail
      /\ paused' = paused /\ failed' = failed /\ held' = held /\ complete' = complete
      /\ call' = call /\ pc' = pc /\ result' = result /\ oldest' = oldest
      /\ headers' = TRUE /\ transfer' = "receiving"
  BY DEF Respond, ringVars, callVars
<1>3. writepos = 0 /\ startpos = 0 /\ readpos = 0 /\ head = 0 /\ tail = 0
  BY <1>1 DEF HeadInv, TypeOK
<1>4. call.target \in Nat
  BY <1>1 DEF TypeOK
<1>5. \/ \E stat \in {"ok", "error"}, body \in {0, 1, StreamEnd} :
            Plain(stat, body) /\ (stat = "ok" => body = StreamEnd)
      \/ \E start \in 0 .. StreamEnd, len \in {StreamEnd, MaxLength},
           stat \in {"ok", "unsatisfiable"}, body \in 0 .. StreamEnd :
            Ranged(start, len, stat, body) /\ (stat = "ok" => start = StreamEnd - body)
  <2>1. Smaller(call.target, StreamEnd - 1) \in 0 .. StreamEnd - 1
    BY <1>4 DEF Smaller
  <2>2. ErrorBody \subseteq {0, 1}
    BY DEF ErrorBody
  <2> QED BY <2>1, <2>2 DEF Respond
<1>6. \E start \in Nat, rest \in 0 .. StreamEnd, len \in Nat :
        /\ startpos' = start /\ readpos' = start /\ writepos' = start
        /\ left' = rest /\ length' = len
        /\ status' = "ok" => start = StreamEnd - rest
  BY <1>1, <1>3, <1>5 DEF Plain, Ranged, posVars, TypeOK
<1>7. PICK start \in Nat, rest \in 0 .. StreamEnd, len \in Nat :
        /\ startpos' = start /\ readpos' = start /\ writepos' = start
        /\ left' = rest /\ length' = len
        /\ status' = "ok" => start = StreamEnd - rest
  BY <1>6
<1>8. status' \in {"ok", "unsatisfiable", "error"} /\ canseek' \in BOOLEAN
  BY <1>1, <1>5 DEF Plain, Ranged, TypeOK
<1>9. TypeOK'
  <2>1. held = 0
    BY <1>1 DEF HeadInv, TypeOK
  <2>2. Numbers'
    BY <1>1, <1>2, <1>7, <2>1, TypeParts DEF Numbers, Cells, Bytes
  <2>3. Flags'
    BY <1>1, <1>2, <1>8, TypeParts, Zenon DEF Flags
  <2>4. States'
    BY <1>1, <1>2, <1>8, TypeParts DEF States, Calls
  <2> QED BY <2>2, <2>3, <2>4, TypeParts, PTL
<1>10. HeadInv' /\ TailInv' /\ CellsInv'
  <2>1. /\ Written' = 0 /\ head' = 0 /\ tail' = 0
        /\ transfer' # "sent" /\ writepos' = readpos'
    BY <1>2, <1>3, <1>7 DEF Written
  <2>2. HeadInv'
    BY <1>7, <1>8, <2>1 DEF HeadInv
  <2>3. TailInv'
    <3>1. ~oldest'
      BY <1>1, <1>2 DEF HeadInv
    <3>2. writepos' - readpos' = 0
      BY <1>7
    <3> QED BY <2>1, <3>1, <3>2 DEF TailInv, Available
  <2>4. CellsInv'
    BY <2>1 DEF CellsInv, Cells
  <2> QED BY <2>2, <2>3, <2>4
<1>11. WaitInv'
  BY <1>1, <1>2 DEF WaitInv, NotRunning, Available
<1> QED
  BY <1>9, <1>10, <1>11 DEF IInv

LEMMA ReceiveKeeps == ASSUME IInv, Receive PROVE IInv'
<1>1. TypeOK /\ WaitInv
  BY DEF IInv
<1>2. PICK n \in ChunkSizes : Write(IF held > 0 THEN held ELSE Smaller(n, left))
  BY DEF Receive
<1> DEFINE size == IF held > 0 THEN held ELSE Smaller(n, left)
<1>3. size \in 1 .. left /\ size < BufferSize
  BY <1>1, HttpStreamAssumption DEF TypeOK, WaitInv, Receive, Smaller
<1>4. ~paused /\ pc # "done" /\ pc # "idle"
  BY DEF Receive, Performing
<1> QED
  BY <1>2, <1>3, <1>4, WriteKeeps

\* What holds of the buffer and the positions while they stay as they are.
Still ==
  /\ UNCHANGED <<ringVars, posVars, status, left, held, oldest>>
  /\ transfer' = "sent" => transfer = "sent"

LEMMA StillKeeps ==
  ASSUME IInv, Still
  PROVE  Numbers' /\ HeadInv' /\ TailInv' /\ CellsInv'
<1>1. Numbers'
  BY TypeParts DEF IInv, Still, Numbers, Cells, Bytes, ringVars, posVars
<1>2. HeadInv'
  BY DEF IInv, Still, HeadInv, Written, ringVars, posVars
<1>3. TailInv'
  BY DEF IInv, Still, TailInv, Available, ringVars, posVars
<1>4. CellsInv'
  BY DEF IInv, Still, CellsInv, Content, Written, Cells, ringVars, posVars
<1> QED
  BY <1>1, <1>2, <1>3, <1>4

\* The steps of transfer_until() that write nothing.
LEMMA WaitingKeeps ==
  ASSUME IInv, End \/ Complete \/ Resumed \/ FirstPerformed \/ LoopPerformed \/ MultiFails
  PROVE  IInv'
<1>1. TypeOK /\ WaitInv /\ Flags /\ States
  BY TypeParts DEF IInv
<1>2. Still
  BY DEF Still, End, Complete, Resumed, FirstPerformed, LoopPerformed, MultiFails, transferVars, callVars
<1>3. Flags'
  BY <1>1, Zenon DEF Flags, End, Complete, Resumed, FirstPerformed, LoopPerformed, MultiFails,
     flagVars, transferVars, callVars
<1>4. States'
  BY <1>1 DEF States, Calls, End, Complete, Resumed, FirstPerformed, LoopPerformed, MultiFails,
     transferVars, callVars
<1>5. call.op = "read" /\ pc # "idle" /\ Satisfied(call) => Available > 0
  <2>1. Available \in Nat /\ call.count \in Nat
    BY <1>1, FreeOrAvailable, HttpStreamAssumption DEF TypeOK
  <2>2. pc # "idle" /\ call.op = "read" => call.count > 0
    BY <1>1 DEF WaitInv
  <2> QED BY <2>1, <2>2 DEF Satisfied
<1>6. UNCHANGED <<readpos, writepos, left, held, oldest, paused, call, result>> /\ Available' = Available
  BY DEF End, Complete, Resumed, FirstPerformed, LoopPerformed, MultiFails,
     flagVars, transferVars, callVars, ringVars, posVars, Available
<1>7. WaitInv'
  <2>1. CASE End
    BY <1>1, <1>6, <2>1 DEF WaitInv, End, Performing, NotRunning, callVars
  <2>2. CASE Complete
    BY <1>1, <1>6, <2>2 DEF WaitInv, Complete, NotRunning, callVars, transferVars
  <2>3. CASE Resumed
    BY <1>1, <1>6, <2>3 DEF WaitInv, Resumed, NotRunning, transferVars
  <2>4. CASE FirstPerformed
    BY <1>1, <1>5, <1>6, <2>4 DEF WaitInv, FirstPerformed, NotRunning, transferVars
  <2>5. CASE LoopPerformed
    BY <1>1, <1>5, <1>6, <2>5 DEF WaitInv, LoopPerformed, NotRunning
  <2>6. CASE MultiFails
    <3>1. pc' = "throwing" /\ pc # "idle" /\ ~NotRunning /\ NotRunning' = NotRunning
      BY <2>6 DEF MultiFails, Performing, NotRunning, transferVars
    <3> QED BY <1>1, <1>6, <3>1 DEF WaitInv
  <2> QED BY <2>1, <2>2, <2>3, <2>4, <2>5, <2>6
<1>8. TypeOK'
  BY <1>2, <1>3, <1>4, StillKeeps, TypeParts, PTL
<1> QED
  BY <1>2, <1>7, <1>8, StillKeeps DEF IInv

\* The ends of calls that read nothing.
LEMMA EndingKeeps ==
  ASSUME IInv, StartReturns \/ Throw \/ (\E delta, whence : SeekInPlace(delta, whence))
  PROVE  IInv'
<1>1. TypeOK /\ WaitInv /\ Flags /\ States
  BY TypeParts DEF IInv
<1>2. /\ Still
      /\ UNCHANGED <<headers, canseek, paused, failed, complete, oldest, transfer, status>>
      /\ result' \in {"position", "threw", "unsupported", result}
      /\ call' \in {call, NoCall}
      /\ pc' \in {"idle", "throwing", "closed"}
      /\ pc' = "throwing" => call.op # "read" /\ call' = call
      /\ pc' # "throwing" => result' # "end" /\ call' = NoCall
  BY DEF Still, StartReturns, Throw, SeekInPlace, Ends, flagVars, transferVars
<1>3. Flags'
  BY <1>1, <1>2, Zenon DEF Flags
<1>4. States'
  BY <1>1, <1>2, NoCallFits DEF States
<1>5. WaitInv'
  BY <1>1, <1>2 DEF WaitInv, NotRunning, NoCall, Still
<1>6. TypeOK'
  BY <1>2, <1>3, <1>4, StillKeeps, TypeParts, PTL
<1> QED
  BY <1>2, <1>5, <1>6, StillKeeps DEF IInv

LEMMA ReadKeeps == ASSUME IInv, Read PROVE IInv'
<1>1. TypeOK /\ WaitInv /\ Flags /\ States
  BY TypeParts DEF IInv
<1>2. /\ Still
      /\ UNCHANGED <<headers, canseek, failed, complete, oldest, transfer, status>>
  BY DEF Still, Read, transferVars
<1>3. PICK n \in ReadSizes :
        \/ Ends("threw") /\ UNCHANGED paused
        \/ Ends("nothing") /\ UNCHANGED paused
        \/ /\ AlignDown(n) # 0
           /\ TransferUntil([NoCall EXCEPT !.op = "read", !.count = AlignDown(n)])
  BY DEF Read
<1>4. AlignDown(n) \in Nat
  <2>1. n \in Nat /\ PacketLength \in Nat \ {0}
    BY HttpStreamAssumption
  <2>2. n % PacketLength \in 0 .. PacketLength - 1 /\ n % PacketLength <= n
    BY <2>1, Remainder
  <2> QED BY <2>1, <2>2 DEF AlignDown
<1>5. Available \in Nat
  BY <1>1, FreeOrAvailable, HttpStreamAssumption DEF TypeOK
<1>6. CASE \E r \in {"threw", "nothing"} : Ends(r) /\ UNCHANGED paused
  <2>1. Flags'
    BY <1>1, <1>2, <1>6, Zenon DEF Flags
  <2>2. States'
    BY <1>1, <1>2, <1>6, NoCallFits DEF States, Ends
  <2>3. WaitInv'
    BY <1>1, <1>2, <1>6 DEF WaitInv, NotRunning, Ends, Still
  <2>4. TypeOK'
    BY <1>2, <2>1, <2>2, StillKeeps, TypeParts, PTL
  <2> QED BY <1>2, <2>3, <2>4, StillKeeps DEF IInv
<1>7. CASE AlignDown(n) # 0 /\ TransferUntil([NoCall EXCEPT !.op = "read", !.count = AlignDown(n)])
  <2> DEFINE c == [NoCall EXCEPT !.op = "read", !.count = AlignDown(n)]
  <2>1. c.op = "read" /\ c.count = AlignDown(n) /\ c.count > 0 /\ c \in Calls
    <3>1. c.op = "read" /\ c.count = AlignDown(n)
      BY DEF NoCall
    <3>2. AlignDown(n) > 0
      BY <1>4, <1>7
    <3>3. c \in Calls
      BY <1>4, NoCallFits
    <3> QED BY <3>1, <3>2, <3>3
  <2>2. /\ call' = c /\ result' = "none"
        /\ pc' \in {"done", "resuming", "first"}
        /\ pc' = "done" => Available >= c.count /\ paused' = paused
        /\ pc' # "done" => paused' = FALSE
    BY <1>7, <2>1 DEF TransferUntil, Satisfied
  <2>3. paused' \in BOOLEAN
    BY <1>1, <2>2, Zenon DEF Flags
  <2>4. Flags'
    BY <1>1, <1>2, <2>3, Zenon DEF Flags
  <2>5. States'
    BY <1>1, <1>2, <2>1, <2>2 DEF States
  <2>6. pc' = "done" => Available > 0
    BY <1>4, <1>5, <2>1, <2>2
  <2>7. Available' = Available
    BY <1>2 DEF Still, Available, ringVars
  <2>8. WaitInv'
    BY <1>1, <1>2, <2>1, <2>2, <2>6, <2>7 DEF WaitInv, NotRunning, Still
  <2>9. TypeOK'
    BY <1>2, <2>4, <2>5, StillKeeps, TypeParts, PTL
  <2> QED BY <1>2, <2>8, <2>9, StillKeeps DEF IInv
<1> QED
  BY <1>3, <1>6, <1>7

\* What is read is what is available next.
LEMMA ReadReturnsKeeps == ASSUME IInv, ReadReturns PROVE IInv'
<1> USE HttpStreamAssumption
<1>1. /\ TypeOK /\ HeadInv /\ TailInv /\ CellsInv /\ WaitInv /\ Numbers /\ Flags /\ States
      /\ pc = "done" /\ call.op = "read" /\ call.count \in Nat
  BY TypeParts DEF IInv, ReadReturns, TypeOK
<1>2. Available \in 0 .. BufferSize - 1
  BY <1>1, FreeOrAvailable DEF TypeOK
<1>3. /\ UNCHANGED <<buffer, head, startpos, writepos, length, flagVars, transferVars, complete, oldest>>
      /\ pc' = "idle" /\ call' = NoCall
  BY DEF ReadReturns, Ends
<1>4. Flags' /\ States'
  <2>1. Flags'
    BY <1>1, <1>3, Zenon DEF Flags, flagVars, transferVars
  <2>2. result' \in {"end", "data"}
    BY DEF ReadReturns, Ends
  <2>3. States'
    BY <1>1, <1>3, <2>2, NoCallFits DEF States, transferVars
  <2> QED BY <2>1, <2>3
<1>5. CASE Available = 0
  <2>1. tail' = tail /\ readpos' = readpos /\ result' = "end"
    BY <1>5 DEF ReadReturns, Ends
  <2>2. Still
    BY <1>3, <2>1 DEF Still, ringVars, posVars, transferVars
  <2>3. NotRunning /\ (oldest \/ readpos = writepos)
    BY <1>1, <1>5 DEF WaitInv, TailInv, Numbers
  <2>4. WaitInv'
    BY <1>1, <1>3, <2>1, <2>3 DEF WaitInv, NotRunning, transferVars, NoCall
  <2>5. TypeOK'
    BY <1>4, <2>2, StillKeeps, TypeParts, PTL
  <2> QED BY <2>2, <2>4, <2>5, StillKeeps DEF IInv
<1>6. CASE Available # 0
  <2> DEFINE r == ReadLength
  <2>1. tail' = Advanced(tail, r) /\ readpos' = readpos + r /\ result' = "data"
    BY <1>6 DEF ReadReturns, Ends
  <2>2. r \in 0 .. Available
    BY <1>1, <1>2, ReadFits
  <2>3. tail' \in Cells
    BY <1>1, <1>2, <2>1, <2>2, IndexAdvances DEF Numbers
  <2>4. writepos - readpos >= Available
    BY <1>1, <1>2 DEF TailInv, Numbers
  <2>5. readpos + r \in startpos .. writepos
    BY <1>1, <1>2, <2>2, <2>4 DEF Numbers
  <2>6. Numbers'
    BY <1>1, <1>3, <2>1, <2>3, <2>5 DEF Numbers, Cells, Bytes, transferVars
  <2>7. transfer # "sent"
    BY <1>1, <1>6 DEF HeadInv, Available
  <2>8. HeadInv' /\ CellsInv'
    BY <1>1, <1>3, <2>7 DEF HeadInv, CellsInv, Content, Written, Cells, transferVars
  <2>9. Available' = Available - r
    BY <1>1, <1>3, <2>1, <2>2 DEF Numbers, Available, Advanced, Cells
  <2>10. TailInv'
    <3>1. writepos' = writepos /\ oldest' = oldest
      BY <1>3
    <3>2. writepos - (readpos + r) = (Available - r) + (IF oldest THEN BufferSize ELSE 0)
      BY <1>1, <1>2, <2>2 DEF TailInv, Numbers
    <3> QED BY <2>1, <2>9, <3>1, <3>2 DEF TailInv
  <2>11. WaitInv'
    BY <1>1, <1>3, <2>1 DEF WaitInv, NotRunning, transferVars, NoCall
  <2>12. TypeOK'
    BY <1>4, <2>6, TypeParts, PTL
  <2> QED BY <2>8, <2>10, <2>11, <2>12 DEF IInv
<1> QED
  BY <1>5, <1>6

\* A seek that stays in the buffer moves the tail as far as the position; where
\* the buffer is full, its oldest byte has the index of the head.
LEMMA SeekInBufferKeeps ==
  ASSUME IInv, NEW delta \in Deltas, NEW whence, SeekInBuffer(delta, whence)
  PROVE  IInv'
<1> USE HttpStreamAssumption
<1> DEFINE target == NewPosition(delta, whence)
<1>1. /\ TypeOK /\ HeadInv /\ TailInv /\ CellsInv /\ WaitInv /\ Numbers /\ Flags /\ States
  BY TypeParts DEF IInv
<1>2. /\ UNCHANGED <<buffer, head, startpos, writepos, length, flagVars, transferVars, complete>>
      /\ tail' = TailAt(target) /\ readpos' = target
      /\ oldest' = (target = writepos - BufferSize)
      /\ pc' = "idle" /\ call' = NoCall /\ result' = "position"
  BY DEF SeekInBuffer, Ends
<1>3. target \in Nat /\ target >= MinPos /\ target < writepos
  BY <1>1, NewPositionFits DEF SeekInBuffer, InBuffer, Numbers
<1>4. /\ target >= startpos /\ target >= writepos - BufferSize
      /\ TailAt(target) \in Cells
      /\ target = writepos - BufferSize => TailAt(target) = head
      /\ target # writepos - BufferSize =>
           writepos - target = IF TailAt(target) > head THEN (BufferSize - TailAt(target)) + head
                                                        ELSE head - TailAt(target)
  <2>1. CASE Written < BufferSize
    BY <1>1, <1>3, <2>1 DEF MinPos, TailAt, Written, HeadInv, Numbers, Cells
  <2>2. CASE Written = BufferSize
    BY <1>1, <1>3, <2>2 DEF MinPos, TailAt, Written, HeadInv, Numbers, Cells
  <2>3. CASE Written > BufferSize
    <3>1. MinPos = writepos - BufferSize /\ MinPos > startpos
      BY <1>1, <2>3 DEF MinPos, Written, Numbers
    <3>2. TailAt(target) = Advanced(head, target - (writepos - BufferSize))
      BY <1>1, <3>1 DEF TailAt, Numbers
    <3>3. target - (writepos - BufferSize) \in 0 .. BufferSize - 1
      BY <1>1, <1>3, <3>1 DEF Numbers
    <3> DEFINE d == target - (writepos - BufferSize)
    <3>4. /\ head \in 0 .. BufferSize - 1 /\ startpos \in Nat /\ writepos \in Nat
          /\ target \in Nat /\ BufferSize \in Nat \ {0}
      BY <1>1, <1>3 DEF Numbers, Cells
    <3>5. target >= startpos /\ target >= writepos - BufferSize
      BY <1>3, <3>1, <3>4
    <3>6. CASE head + d < BufferSize
      BY <3>2, <3>3, <3>4, <3>5, <3>6 DEF Advanced, Cells
    <3>7. CASE head + d >= BufferSize
      BY <3>2, <3>3, <3>4, <3>5, <3>7 DEF Advanced, Cells
    <3> QED BY <3>3, <3>4, <3>6, <3>7
  <2> QED BY <1>1, <2>1, <2>2, <2>3 DEF Written, Numbers
<1>5. Numbers'
  BY <1>1, <1>2, <1>3, <1>4 DEF Numbers, Cells, Bytes, transferVars
<1>6. Flags'
  BY <1>1, <1>2, Zenon DEF Flags, flagVars, transferVars
<1>7. States'
  BY <1>1, <1>2, NoCallFits DEF States, transferVars
<1>8. transfer # "sent"
  BY <1>1, <1>3, <1>4 DEF HeadInv, Numbers
<1>9. HeadInv' /\ CellsInv'
  BY <1>1, <1>2, <1>8 DEF HeadInv, CellsInv, Content, Written, Cells, transferVars
<1>10. TailInv'
  <2>1. CASE target = writepos - BufferSize
    <3>1. oldest' /\ tail' = head /\ head' = head
      BY <1>2, <1>4, <2>1
    <3>2. Available' = 0
      BY <1>1, <3>1 DEF Available, Numbers, Cells
    <3>3. writepos' - readpos' = BufferSize
      BY <1>1, <1>2, <2>1 DEF Numbers
    <3> QED BY <3>1, <3>2, <3>3 DEF TailInv
  <2>2. CASE target # writepos - BufferSize
    <3>1. ~oldest' /\ tail' = TailAt(target) /\ head' = head
      BY <1>2, <2>2
    <3>2. Available' = writepos - target
      BY <1>4, <2>2, <3>1 DEF Available
    <3>3. writepos' - readpos' = writepos - target /\ writepos - target \in Int
      BY <1>1, <1>2, <1>3 DEF Numbers
    <3> QED BY <3>1, <3>2, <3>3 DEF TailInv
  <2> QED BY <2>1, <2>2
<1>11. WaitInv'
  BY <1>1, <1>2 DEF WaitInv, NotRunning, transferVars, NoCall
<1>12. TypeOK'
  BY <1>5, <1>6, <1>7, TypeParts, PTL
<1> QED
  BY <1>9, <1>10, <1>11, <1>12 DEF IInv

\* Everything starts anew.
LEMMA RestartKeeps ==
  ASSUME IInv, NEW c \in Calls, c.op # "read", Restart(c)
  PROVE  IInv'
<1> USE HttpStreamAssumption
<1>1. Numbers /\ Flags /\ States
  BY TypeParts DEF IInv
<1>2. /\ head' = 0 /\ tail' = 0 /\ startpos' = 0 /\ readpos' = 0 /\ writepos' = 0
      /\ length' = MaxLength /\ left' = 0 /\ held' = 0 /\ buffer' = buffer
  BY DEF Restart
<1>3. /\ headers' = FALSE /\ canseek' = FALSE /\ paused' = FALSE /\ failed' = FALSE
      /\ complete' = complete /\ oldest' = FALSE
  BY DEF Restart
<1>4. transfer' = "sent" /\ status' = "none" /\ call' = c /\ pc' = "first" /\ result' = "none"
  BY DEF Restart
<1>5. Numbers'
  BY <1>1, <1>2 DEF Numbers, Cells, Bytes
<1>6. Flags'
  BY <1>1, <1>3, Zenon DEF Flags
<1>7. States'
  BY <1>4 DEF States
<1>8. HeadInv' /\ CellsInv'
  BY <1>2, <1>3, <1>4 DEF HeadInv, CellsInv, Written, Cells
<1>9. TailInv'
  BY <1>2, <1>3 DEF TailInv, Available
<1>10. WaitInv'
  BY <1>2, <1>3, <1>4 DEF WaitInv, NotRunning
<1>11. TypeOK'
  BY <1>5, <1>6, <1>7, TypeParts, PTL
<1> QED
  BY <1>8, <1>9, <1>10, <1>11 DEF IInv

LEMMA SeekKeeps ==
  ASSUME IInv, SeekAgain \/ (\E delta \in Deltas, whence \in {"set", "cur", "end"} :
                               SeekRestart(delta, whence))
  PROVE  IInv'
<1> USE HttpStreamAssumption
<1>1. Numbers /\ States
  BY TypeParts DEF IInv
<1>2. CASE SeekAgain
  <2> DEFINE again == [call EXCEPT !.target = Larger(RetryPosition, 0), !.again = TRUE]
  <2>1. call \in Calls /\ length \in Nat
    BY <1>1 DEF States, Numbers
  <2>2. Wrap(call.from + call.delta) \in Int /\ Wrap(length + call.delta) \in Int
    BY <2>1, WrapFits DEF Calls
  <2>3. RetryPosition \in Int
    BY <2>1, <2>2 DEF RetryPosition, Smaller, Larger, Calls
  <2>4. Larger(RetryPosition, 0) \in Nat
    BY <2>3 DEF Larger
  <2>5. again \in Calls /\ again.op = call.op
    BY <2>1, <2>4 DEF Calls
  <2>6. Restart(again) /\ call.op = "seek"
    BY <1>2 DEF SeekAgain, Retries
  <2> QED BY <2>5, <2>6, RestartKeeps
<1>3. CASE \E delta \in Deltas, whence \in {"set", "cur", "end"} : SeekRestart(delta, whence)
  <2>1. PICK delta \in Deltas, whence \in {"set", "cur", "end"} : SeekRestart(delta, whence)
    BY <1>3
  <2> DEFINE target == NewPosition(delta, whence)
             c == [NoCall EXCEPT !.op = "seek", !.delta = delta, !.whence = whence,
                                 !.from = readpos, !.target = target]
  <2>2. readpos \in Nat /\ target \in Nat /\ delta \in Int
    BY <1>1, NewPositionFits DEF Numbers
  <2>3. c \in Calls
    BY <2>2, NoCallFits DEF Calls
  <2>4. c.op # "read"
    BY DEF NoCall
  <2>5. Restart(c)
    BY <2>1 DEF SeekRestart
  <2> QED BY <2>3, <2>4, <2>5, RestartKeeps
<1> QED
  BY <1>2, <1>3

\* Every step keeps the invariant.
LEMMA NextIInv == ASSUME IInv, [Next]_vars PROVE IInv'
<1>1. CASE UNCHANGED vars
  <2>1. Still /\ UNCHANGED <<headers, canseek, paused, transfer, failed, complete, call, pc, result>>
    BY <1>1 DEF Still, vars, flagVars, transferVars, callVars
  <2>2. Flags'
    BY <2>1, TypeParts, Zenon DEF IInv, Still, Flags
  <2>3. States'
    BY <2>1, TypeParts DEF IInv, Still, States
  <2>4. WaitInv'
    BY <2>1 DEF IInv, Still, WaitInv, NotRunning, Available, ringVars, posVars
  <2>5. TypeOK'
    BY <2>1, <2>2, <2>3, StillKeeps, TypeParts, PTL
  <2> QED BY <2>1, <2>4, <2>5, StillKeeps DEF IInv
<1>2. CASE Next
  <2>1. CASE Respond
    BY <2>1, RespondKeeps
  <2>2. CASE Receive
    BY <2>2, ReceiveKeeps
  <2>3. CASE End \/ Complete \/ Resumed \/ FirstPerformed \/ LoopPerformed \/ MultiFails
    BY <2>3, WaitingKeeps
  <2>4. CASE Read
    BY <2>4, ReadKeeps
  <2>5. CASE ReadReturns
    BY <2>5, ReadReturnsKeeps
  <2>6. CASE StartReturns \/ Throw \/ (\E delta, whence : SeekInPlace(delta, whence))
    BY <2>6, EndingKeeps
  <2>7. CASE \E delta \in Deltas, whence \in {"set", "cur", "end"} : SeekInBuffer(delta, whence)
    BY <2>7, SeekInBufferKeeps
  <2>8. CASE SeekAgain \/ (\E delta \in Deltas, whence \in {"set", "cur", "end"} :
                              SeekRestart(delta, whence))
    BY <2>8, SeekKeeps
  <2> QED BY <1>2, <2>1, <2>2, <2>3, <2>4, <2>5, <2>6, <2>7, <2>8, Zenon DEF Next, TransferStep
<1> QED
  BY <1>1, <1>2

\* The unread cells hold the last bytes that were written.
LEMMA UnreadCell ==
  ASSUME IInv, NEW i \in Cells, Distance(tail, i) < Available
  PROVE  buffer[i] = Content(writepos - Available + Distance(tail, i))
<1> USE HttpStreamAssumption
<1>1. Numbers /\ HeadInv /\ TailInv /\ CellsInv
  BY TypeParts DEF IInv
<1>2. Available \in 0 .. BufferSize - 1
  BY <1>1, FreeOrAvailable DEF Numbers
<1>3. CASE i < head
  <2>1. buffer[i] = Content(writepos - head + i)
    BY <1>1, <1>3 DEF CellsInv
  <2>2. writepos - head + i = writepos - Available + Distance(tail, i)
    BY <1>1, <1>3 DEF Numbers, Distance, Available, Cells
  <2> QED BY <2>1, <2>2
<1>4. CASE i >= head
  <2>1. tail > head /\ i >= tail
    BY <1>1, <1>4 DEF Numbers, Distance, Available, Cells
  <2>2. Written >= BufferSize
    BY <1>1, <1>2, <1>4, <2>1 DEF Numbers, TailInv, Available, Cells, HeadInv, Written
  <2>3. buffer[i] = Content(writepos - head - BufferSize + i)
    BY <1>1, <1>4, <2>2 DEF CellsInv
  <2>4. writepos - head - BufferSize + i = writepos - Available + Distance(tail, i)
    BY <1>1, <2>1 DEF Numbers, Distance, Available, Cells
  <2> QED BY <2>3, <2>4
<1> QED
  BY <1>1, <1>3, <1>4 DEF Numbers, Cells

-----------------------------------------------------------------------------
(***************************************************************************)
(* The reader.  What it reads next are the last bytes that were written.   *)
(***************************************************************************)

\* The bytes of the reply from a position on, k of them.
Run(p, k) == [i \in 1 .. k |-> Content(p + i - 1)]

LEMMA RunIsSeq ==
  ASSUME NEW p \in Int, NEW k \in Nat
  PROVE  /\ Run(p, k) \in Seq(Int) /\ Len(Run(p, k)) = k
         /\ \A i \in 1 .. k : Run(p, k)[i] = Content(p + i - 1)
<1>1. \A i \in 1 .. k : Content(p + i - 1) \in Int
  BY DEF Content, Junk
<1>2. Run(p, k) \in [1 .. k -> Int]
  BY <1>1 DEF Run
<1>3. Run(p, k) \in Seq(Int)
  BY <1>2
<1>4. Len(Run(p, k)) = k
  BY <1>2, <1>3, LenProperties
<1> QED
  BY <1>3, <1>4 DEF Run

\* Bytes that come after others go on where these end.
LEMMA RunGrows ==
  ASSUME NEW p \in Int, NEW k \in Nat, NEW n \in Nat
  PROVE  Run(p, k) \o Run(p + k, n) = Run(p, k + n)
<1> DEFINE a == Run(p, k)
           b == Run(p + k, n)
           c == Run(p, k + n)
<1>1. /\ a \in Seq(Int) /\ Len(a) = k /\ \A i \in 1 .. k : a[i] = Content(p + i - 1)
      /\ b \in Seq(Int) /\ Len(b) = n /\ \A i \in 1 .. n : b[i] = Content(p + k + i - 1)
      /\ c \in Seq(Int) /\ Len(c) = k + n /\ \A i \in 1 .. k + n : c[i] = Content(p + i - 1)
  BY RunIsSeq
<1>2. /\ a \o b \in Seq(Int) /\ Len(a \o b) = k + n
      /\ \A i \in 1 .. k + n : (a \o b)[i] = IF i <= k THEN a[i] ELSE b[i - k]
  <2> HIDE DEF a, b
  <2> QED BY <1>1, ConcatProperties
<1>3. ASSUME NEW i \in 1 .. k + n
      PROVE  (a \o b)[i] = c[i]
  <2> HIDE DEF a, b, c
  <2>1. CASE i <= k
    BY <1>1, <1>2, <2>1
  <2>2. CASE ~(i <= k)
    <3>1. i - k \in 1 .. n /\ p + k + (i - k) - 1 = p + i - 1
      BY <2>2
    <3> QED BY <1>1, <1>2, <2>2, <3>1
  <2> QED BY <2>1, <2>2
<1> QED
  <2> HIDE DEF a, b, c
  <2>1. a \o b = c
    BY <1>1, <1>2, <1>3, SeqEqual
  <2> QED BY <2>1 DEF a, b, c

\* What is left when the first bytes are taken.
LEMMA RunShrinks ==
  ASSUME NEW p \in Int, NEW k \in Nat, NEW r \in 0 .. k
  PROVE  SubSeq(Run(p, k), r + 1, k) = Run(p + r, k - r)
<1> DEFINE a == Run(p, k)
           c == Run(p + r, k - r)
           t == SubSeq(a, r + 1, k)
<1>1. /\ a \in Seq(Int) /\ Len(a) = k /\ \A i \in 1 .. k : a[i] = Content(p + i - 1)
      /\ c \in Seq(Int) /\ Len(c) = k - r /\ \A i \in 1 .. k - r : c[i] = Content(p + r + i - 1)
  BY RunIsSeq
<1>2. \A i \in r + 1 .. k : a[i] \in Int
  <2> HIDE DEF a
  <2> QED BY <1>1 DEF Content, Junk
<1>3. /\ t \in Seq(Int) /\ Len(t) = k - r
      /\ \A i \in 1 .. k - r : t[i] = a[r + i]
  <2> HIDE DEF a
  <2>1. /\ t \in Seq(Int) /\ Len(t) = IF r + 1 <= k THEN k - (r + 1) + 1 ELSE 0
        /\ \A i \in 1 .. k - (r + 1) + 1 : t[i] = a[(r + 1) + i - 1]
    BY <1>2, SubSeqProperties
  <2> HIDE DEF t
  <2> QED BY <2>1
<1>4. ASSUME NEW i \in 1 .. k - r
      PROVE  t[i] = c[i]
  <2> HIDE DEF a, c, t
  <2>1. r + i \in 1 .. k /\ p + (r + i) - 1 = p + r + i - 1
    OBVIOUS
  <2> QED BY <1>1, <1>3, <2>1
<1> QED
  <2> HIDE DEF a, c, t
  <2>1. t = c
    BY <1>1, <1>3, <1>4, SeqEqual
  <2> QED BY <2>1 DEF a, c, t

LEMMA EmptyRun == ASSUME NEW p \in Int PROVE Run(p, 0) = <<>>
BY RunIsSeq, EmptySeq

LEMMA AvailableFits == IInv => Available \in 0 .. BufferSize - 1 /\ writepos - Available \in Int
BY TypeParts, FreeOrAvailable, HttpStreamAssumption DEF IInv, Numbers

LEMMA UnreadIs == IInv => Unread = Run(writepos - Available, Available)
<1> SUFFICES ASSUME IInv PROVE Unread = Run(writepos - Available, Available)
  OBVIOUS
<1>1. /\ Available \in 0 .. BufferSize - 1 /\ writepos \in Nat
      /\ tail \in Cells /\ BufferSize \in Nat \ {0}
  BY AvailableFits, TypeParts, HttpStreamAssumption DEF IInv, Numbers
<1>2. ASSUME NEW i \in 1 .. Available
      PROVE  buffer[Advanced(tail, i - 1)] = Content(writepos - Available + i - 1)
  <2>1. /\ Advanced(tail, i - 1) \in Cells
        /\ Distance(tail, Advanced(tail, i - 1)) = i - 1
    BY <1>1 DEF Advanced, Distance, Cells
  <2>2. buffer[Advanced(tail, i - 1)] = Content(writepos - Available + (i - 1))
    BY <1>1, <2>1, UnreadCell
  <2> QED BY <1>1, <2>2
<1> QED
  BY <1>2 DEF Unread, Run

LEMMA ReaderBytes ==
  ASSUME NEW p, NEW n
  PROVE  Reader!Bytes(p, n) = Run(p, n)
BY DEF Reader!Bytes, Run, Content

\* What the reader sees of the stream stays as it is.
Unseen == UNCHANGED <<ringVars, startpos, readpos, writepos, status>>

LEMMA UnseenStutters == ASSUME Unseen PROVE UNCHANGED Reader!vars
BY DEF Unseen, Reader!vars, Unread, Available, Advanced, ringVars

LEMMA InitReader == ASSUME Init PROVE Reader!Init
<1>1. status = "none" /\ head = 0 /\ tail = 0 /\ startpos = 0 /\ readpos = 0 /\ writepos = 0
  BY DEF Init
<1>2. Unread = <<>>
  BY <1>1, InitIInv, UnreadIs, EmptyRun DEF Available
<1> QED
  BY <1>1, <1>2 DEF Reader!Init

LEMMA RespondAnswers == ASSUME IInv, IInv', Respond PROVE Reader!Answer
<1>1. TypeOK /\ HeadInv /\ transfer = "sent" /\ call.target \in Nat
  BY DEF IInv, TypeOK, Respond
<1>2. status = "none" /\ writepos = 0 /\ startpos = 0 /\ readpos = 0 /\ head = 0 /\ tail = 0
  BY <1>1 DEF HeadInv, TypeOK
<1>3. UNCHANGED <<head, tail>>
  BY DEF Respond, ringVars
<1>4. Smaller(call.target, StreamEnd - 1) \in Nat /\ StreamEnd \in Nat
  BY <1>1, HttpStreamAssumption DEF Smaller
<1>5. startpos' \in Nat /\ writepos' = startpos' /\ readpos' = startpos'
  BY <1>2, <1>4 DEF Respond, Plain, Ranged, posVars
<1>6. status' \in {"ok", "error", "unsatisfiable"}
  BY DEF Respond, Plain, Ranged
<1>7. Unread' = <<>>
  <2>1. Unread' = [i \in 1 .. 0 |-> buffer'[Advanced(tail', i - 1)]]
    BY <1>2, <1>3 DEF Unread, Available
  <2> QED BY <2>1
<1> QED
  BY <1>2, <1>5, <1>6, <1>7 DEF Reader!Answer

\* A chunk that is written arrives after the unread bytes, where there is room for it.
LEMMA ReceiveArrives ==
  ASSUME IInv, IInv', Receive
  PROVE  (\E n \in 1 .. BufferSize : Reader!Arrive(n)) \/ UNCHANGED Reader!vars
<1> USE HttpStreamAssumption
<1>1. TypeOK /\ WaitInv /\ HeadInv /\ left > 0
  BY DEF IInv, Receive
<1>2. PICK m \in ChunkSizes : Write(IF held > 0 THEN held ELSE Smaller(m, left))
  BY DEF Receive
<1> DEFINE n == IF held > 0 THEN held ELSE Smaller(m, left)
<1>3. n \in 1 .. left /\ n < BufferSize
  BY <1>1 DEF TypeOK, WaitInv, Smaller
<1> HIDE DEF n
<1>4. Write(n)
  BY <1>2 DEF n
<1>5. /\ Available \in 0 .. BufferSize - 1 /\ Free = BufferSize - Available
      /\ head \in Cells /\ tail \in Cells /\ writepos \in Nat /\ left \in 0 .. StreamEnd
  BY <1>1, FreeOrAvailable DEF TypeOK
<1>6. CASE Free < n + 1
  <2>1. Unseen
    BY <1>4, <1>6 DEF Write, Unseen, ringVars
  <2> QED BY <2>1, UnseenStutters
<1>7. CASE ~(Free < n + 1)
  <2>1. /\ head' = Advanced(head, n) /\ tail' = tail /\ writepos' = writepos + n
        /\ UNCHANGED <<startpos, readpos, status>>
    BY <1>4, <1>7 DEF Write
  <2>2. Available' = Available + n
    BY <1>3, <1>5, <1>7, <2>1 DEF Available, Advanced, Cells
  <2> DEFINE first == writepos - Available
  <2>3. first \in Int /\ Available \in Nat /\ n \in Nat
    BY <1>3, <1>5
  <2>4. Unread = Run(first, Available) /\ Len(Unread) = Available
    BY <2>3, UnreadIs, RunIsSeq
  <2>5. Unread' = Run(first, Available + n)
    <3>1. (Unread = Run(writepos - Available, Available))'
      BY UnreadIs, PTL
    <3>2. writepos' - Available' = first
      BY <1>3, <1>5, <2>1, <2>2
    <3> QED BY <2>1, <2>2, <3>1, <3>2 DEF Run, Content
  <2>6. Reader!Bytes(writepos, n) = Run(first + Available, n)
    <3>1. first + Available = writepos
      BY <1>5
    <3> QED BY <3>1, ReaderBytes
  <2>7. Unread' = Unread \o Reader!Bytes(writepos, n)
    <3> HIDE DEF first
    <3>1. Run(first, Available) \o Run(first + Available, n) = Run(first, Available + n)
      BY <2>3, RunGrows
    <3> QED BY <2>4, <2>5, <2>6, <3>1
  <2>8. status # "none"
    BY <1>1 DEF HeadInv, TypeOK
  <2>9. Len(Unread) + n < BufferSize
    BY <1>3, <1>5, <1>7, <2>4
  <2>10. Reader!Arrive(n)
    BY <2>1, <2>7, <2>8, <2>9 DEF Reader!Arrive
  <2>11. n \in 1 .. BufferSize
    BY <1>1, <1>3 DEF TypeOK
  <2> QED BY <2>10, <2>11
<1> QED
  BY <1>6, <1>7

LEMMA ReadTakes ==
  ASSUME IInv, IInv', ReadReturns
  PROVE  (\E n \in 1 .. Len(Unread) : Reader!Take(n)) \/ UNCHANGED Reader!vars
<1> USE HttpStreamAssumption
<1>1. TypeOK /\ call.count \in Nat /\ head \in Cells /\ tail \in Cells
  BY DEF IInv, TypeOK
<1>2. Available \in 0 .. BufferSize - 1 /\ writepos \in Nat /\ readpos \in Nat
  BY <1>1, FreeOrAvailable DEF TypeOK
<1>3. UNCHANGED <<buffer, head, startpos, writepos, status>>
  BY DEF ReadReturns, transferVars
<1>4. CASE Available = 0
  <2>1. Unseen
    BY <1>3, <1>4 DEF ReadReturns, Unseen, ringVars
  <2> QED BY <2>1, UnseenStutters
<1>5. CASE Available # 0
  <2> DEFINE r == ReadLength
             first == writepos - Available
  <2>1. r \in 0 .. Available
    BY <1>1, <1>2, ReadFits
  <2>2. tail' = Advanced(tail, r) /\ readpos' = readpos + r
    BY <1>5 DEF ReadReturns
  <2> HIDE DEF r
  <2>3. CASE r = 0
    <3>1. tail' = tail /\ readpos' = readpos
      BY <1>1, <1>2, <2>2, <2>3 DEF Advanced, Cells
    <3>2. Unseen
      BY <1>3, <3>1 DEF Unseen, ringVars
    <3> QED BY <3>2, UnseenStutters
  <2>4. CASE r # 0
    <3>1. Available' = Available - r
      BY <1>1, <1>2, <1>3, <2>1, <2>2 DEF Available, Advanced, Cells
    <3>2. first \in Int /\ Available \in Nat
      BY <1>2
    <3>3. Unread = Run(first, Available) /\ Len(Unread) = Available
      BY <3>2, UnreadIs, RunIsSeq
    <3>4. Unread' = Run(first + r, Available - r)
      <4>1. (Unread = Run(writepos - Available, Available))'
        BY UnreadIs, PTL
      <4>2. writepos' - Available' = first + r
        BY <1>2, <1>3, <2>1, <3>1
      <4> QED BY <1>3, <3>1, <4>1, <4>2 DEF Run, Content
    <3>5. Unread' = SubSeq(Unread, r + 1, Len(Unread))
      <4> HIDE DEF first
      <4> QED BY <2>1, <3>2, <3>3, <3>4, RunShrinks
    <3>6. Reader!Take(r)
      BY <1>3, <2>2, <3>5 DEF Reader!Take
    <3>7. r \in 1 .. Len(Unread)
      BY <2>1, <2>4, <3>2, <3>3
    <3> QED BY <3>6, <3>7
  <2> QED BY <2>3, <2>4
<1> QED
  BY <1>4, <1>5

LEMMA SeekMoves ==
  ASSUME IInv, IInv', NEW delta \in Deltas, NEW whence, SeekInBuffer(delta, whence)
  PROVE  \E p \in Reader!Kept : Reader!Move(p)
<1> USE HttpStreamAssumption
<1> DEFINE target == NewPosition(delta, whence)
<1>1. Numbers /\ Numbers' /\ TailInv'
  <2>1. Numbers /\ (IInv' => Numbers')
    BY TypeParts, PTL DEF IInv
  <2> QED BY <2>1 DEF IInv
<1>2. /\ UNCHANGED <<buffer, head, startpos, writepos, status>>
      /\ readpos' = target
      /\ oldest' = (target = writepos - BufferSize)
  BY DEF SeekInBuffer, transferVars
<1>3. target \in Nat /\ target >= MinPos /\ target < writepos
  BY <1>1, NewPositionFits DEF SeekInBuffer, InBuffer, Numbers
<1>4. target \in startpos .. writepos - 1 /\ target >= writepos - BufferSize
  BY <1>1, <1>3 DEF MinPos, Numbers
<1>5. Available' \in Int
  <2>1. head' \in Cells /\ tail' \in Cells
    BY <1>1 DEF Numbers
  <2> QED BY <2>1 DEF Available, Cells
<1>6. Unread' = Run(writepos - Available', Available')
  <2>1. (Unread = Run(writepos - Available, Available))'
    BY UnreadIs, PTL
  <2> QED BY <1>2, <2>1 DEF Run, Content
<1> HIDE DEF target
<1>7. CASE target = writepos - BufferSize
  <2>1. Available' = 0
    <3>1. oldest'
      BY <1>2, <1>7
    <3>2. writepos' - readpos' = BufferSize
      BY <1>1, <1>2, <1>7 DEF Numbers
    <3> QED BY <1>1, <1>5, <3>1, <3>2 DEF TailInv
  <2>2. Unread' = <<>>
    BY <1>1, <1>6, <2>1, EmptyRun DEF Numbers
  <2>3. Reader!Move(target)
    BY <1>2, <1>7, <2>2 DEF Reader!Move
  <2> QED BY <1>4, <2>3 DEF Reader!Kept
<1>8. CASE target # writepos - BufferSize
  <2>1. Available' = writepos - target /\ writepos - Available' = target
    <3>1. ~oldest'
      BY <1>2, <1>8
    <3>2. writepos' - readpos' = writepos - target /\ writepos \in Nat /\ target \in Nat
      BY <1>1, <1>2, <1>3 DEF Numbers
    <3>3. writepos' - readpos' = Available'
      BY <1>1, <1>5, <3>1 DEF TailInv
    <3>4. Available' = writepos - target
      BY <3>2, <3>3
    <3>5. writepos - (writepos - target) = target
      BY <3>2
    <3> QED BY <3>4, <3>5
  <2>2. Unread' = Reader!Bytes(target, writepos - target)
    BY <1>6, <2>1, ReaderBytes
  <2>3. Reader!Move(target)
    BY <1>2, <1>8, <2>2 DEF Reader!Move
  <2> QED BY <1>4, <2>3 DEF Reader!Kept
<1> QED
  BY <1>7, <1>8

LEMMA RestartRestarts == ASSUME NEW c, Restart(c) PROVE Reader!Restart
<1>1. /\ status' = "none" /\ head' = 0 /\ tail' = 0
      /\ startpos' = 0 /\ readpos' = 0 /\ writepos' = 0
  BY DEF Restart
<1>2. Unread' = <<>>
  <2>1. Unread' = [i \in 1 .. 0 |-> buffer'[Advanced(tail', i - 1)]]
    BY <1>1 DEF Unread, Available
  <2> QED BY <2>1
<1> QED
  BY <1>1, <1>2 DEF Reader!Restart

LEMMA NextReader == ASSUME IInv, IInv', [Next]_vars PROVE [Reader!Next]_Reader!vars
<1>1. CASE UNCHANGED vars
  <2>1. Unseen
    BY <1>1 DEF vars, Unseen, posVars, transferVars
  <2> QED BY <2>1, UnseenStutters
<1>2. CASE Next
  <2>1. CASE Respond
    BY <2>1, RespondAnswers DEF Reader!Next
  <2>2. CASE Receive
    BY <2>2, ReceiveArrives DEF Reader!Next
  <2>3. CASE End \/ Complete \/ Resumed \/ FirstPerformed \/ LoopPerformed \/ MultiFails
    <3>1. Unseen
      BY <2>3 DEF Unseen, End, Complete, Resumed, FirstPerformed, LoopPerformed, MultiFails,
         posVars, transferVars
    <3> QED BY <3>1, UnseenStutters
  <2>4. CASE Read \/ StartReturns \/ Throw \/ (\E delta, whence : SeekInPlace(delta, whence))
    <3>1. Unseen
      BY <2>4 DEF Unseen, Read, StartReturns, Throw, SeekInPlace, posVars, transferVars
    <3> QED BY <3>1, UnseenStutters
  <2>5. CASE ReadReturns
    BY <2>5, ReadTakes DEF Reader!Next
  <2>6. CASE \E delta \in Deltas, whence \in {"set", "cur", "end"} : SeekInBuffer(delta, whence)
    BY <2>6, SeekMoves DEF Reader!Next
  <2>7. CASE SeekAgain \/ (\E delta \in Deltas, whence \in {"set", "cur", "end"} :
                              SeekRestart(delta, whence))
    <3>1. \E c : Restart(c)
      BY <2>7 DEF SeekAgain, SeekRestart
    <3> QED BY <3>1, RestartRestarts DEF Reader!Next
  <2> QED BY <1>2, <2>1, <2>2, <2>3, <2>4, <2>5, <2>6, <2>7, Zenon DEF Next, TransferStep
<1> QED
  BY <1>1, <1>2

-----------------------------------------------------------------------------
(***************************************************************************)
(* The theorems.                                                           *)
(***************************************************************************)

\* The invariant holds in every state the stream reaches.
THEOREM Invariant == Spec => []IInv
BY InitIInv, NextIInv, PTL DEF Spec

\* The indexes stay in the buffer, the read position between the start and the
\* write position, whatever sizes and positions read() and seek() are called with.
THEOREM TypeCorrect == Spec => []TypeOK
<1>1. IInv => TypeOK
  BY DEF IInv
<1> QED
  BY <1>1, Invariant, PTL

\* Every byte that is read next is the one of the position that is reported.
THEOREM PositionIsRead == Spec => []UnreadMatches
<1>1. IInv => UnreadMatches
  <2> SUFFICES ASSUME IInv, status = "ok", ~oldest, NEW i \in Cells, Distance(tail, i) < Available
               PROVE  buffer[i] = readpos + Distance(tail, i)
    BY DEF UnreadMatches
  <2>1. Numbers /\ TailInv
    BY TypeParts DEF IInv
  <2>2. Available \in Int /\ writepos - readpos = Available
    BY <2>1, FreeOrAvailable, HttpStreamAssumption DEF Numbers, TailInv
  <2>3. buffer[i] = Content(writepos - Available + Distance(tail, i))
    BY UnreadCell
  <2> QED BY <2>1, <2>2, <2>3 DEF Content, Numbers
<1> QED
  BY <1>1, Invariant, PTL

\* A read that returns nothing is the end of the stream, or of the transfer.
THEOREM EndIsEnd == Spec => []EndMeansEnd
<1>1. IInv => EndMeansEnd
  BY DEF IInv, WaitInv, EndMeansEnd
<1> QED
  BY <1>1, Invariant, PTL

\* The ring buffer, its indexes and its pauses implement the stream that its reader is
\* promised.
THEOREM ReaderIsServed == Spec => ImplementsReader
<1>1. Init => Reader!Init
  BY InitReader
<1>2. IInv /\ IInv' /\ [Next]_vars => [Reader!Next]_Reader!vars
  BY NextReader
<1> QED
  BY <1>1, <1>2, Invariant, PTL DEF Spec, ImplementsReader, Reader!Spec
=============================================================================

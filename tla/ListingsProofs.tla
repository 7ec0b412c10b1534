---------------------------- MODULE ListingsProofs ----------------------------
(***************************************************************************)
(* Proofs about the program guide and the stream it is read from, for any  *)
(* buffer, chunks, documents and periods: the parser gets the bytes in     *)
(* order and the end only at the end, the tables are those of one          *)
(* document, Kodi's EPG has the rows, and an update is always due in time. *)
(*                                                                         *)
(* The arguments.  What was read, what lies between the tail and the head  *)
(* and what libcurl has not passed yet make up the body; a chunk is        *)
(* written only into cells that have been read.  A call is paused only by  *)
(* a buffer that is not empty, so a read that returns nothing has nothing  *)
(* to wait for.  At the end of the data the parser has a whole document or *)
(* fails.  What is to be pushed, and the time of the next update, pass     *)
(* from the queue to the task and back; where it is cancelled or fails the *)
(* histories say so.                                                       *)
(***************************************************************************)
EXTENDS Listings, SequenceTheorems, TLAPS

\* The cell n places after the beginning of the buffer.
Wrapped(n) == IF n < BufferSize THEN n ELSE n - BufferSize

\* The types that matter to the order of the bytes.
RingTypes ==
  /\ buffer \in [Cells -> Nat] /\ head \in Cells /\ tail \in Cells
  /\ paused \in BOOLEAN /\ sent \in Nat /\ length \in Nat
  /\ held \in {0} \cup ChunkSizes /\ count \in {0} \cup ReadSizes
  /\ read \in Seq(Nat)

\* InOrder, without the remainders.
RingOrder ==
  /\ read = [k \in 1..Len(read) |-> k]
  /\ sent = Len(read) + Available
  /\ \A k \in 1..Available : buffer[Wrapped(tail + k - 1)] = Len(read) + k

\* A call that waits has been paused only by a buffer that holds something, and returns
\* nothing only when the transfer is over.
RingWait ==
  /\ at = "closed" => ~paused
  /\ at \in {"resume", "first", "perform", "return"} /\ paused => Available > 0
  /\ at = "return" /\ transfer = "active" => Available > 0
  /\ EndMeansOver

StreamInv == RingTypes /\ RingOrder /\ RingWait

-----------------------------------------------------------------------------
(* The arithmetic of the buffer. *)

LEMMA Remainder ==
  ASSUME NEW n \in 0 .. 2 * BufferSize - 1
  PROVE  n % BufferSize = Wrapped(n)
BY XmlStreamAssumption DEF Wrapped

LEMMA NegativeRemainder ==
  ASSUME NEW n \in 1 - BufferSize .. BufferSize - 1
  PROVE  n % BufferSize = IF n < 0 THEN n + BufferSize ELSE n
BY XmlStreamAssumption

LEMMA FreeOrAvailable ==
  ASSUME head \in Cells, tail \in Cells
  PROVE  Available \in 0 .. BufferSize - 1 /\ Free = BufferSize - Available
BY XmlStreamAssumption DEF Cells, Available, Free

\* RingOrder is InOrder.
LEMMA OrderSame ==
  ASSUME RingTypes
  PROVE  InOrder <=> RingOrder
<1>1. Available \in 0 .. BufferSize - 1
  BY FreeOrAvailable DEF RingTypes
<1>2. ASSUME NEW k \in 1..Available
      PROVE  (tail + k - 1) % BufferSize = Wrapped(tail + k - 1)
  <2>1. tail + k - 1 \in 0 .. 2 * BufferSize - 1
    BY <1>1, XmlStreamAssumption DEF RingTypes, Cells
  <2> QED
    BY <2>1, Remainder
<1> QED
  BY <1>2 DEF InOrder, RingOrder

\* What the steps leave alone that do not touch the buffer.
LEMMA RingKept ==
  ASSUME RingTypes, RingOrder, UNCHANGED <<buffer, head, tail, sent, held, read>>,
         paused' \in BOOLEAN, length' \in Nat, count' \in {0} \cup ReadSizes
  PROVE  RingTypes' /\ RingOrder' /\ Available' = Available
<1>1. Available' = Available
  BY DEF Available
<1> QED
  BY <1>1 DEF RingTypes, RingOrder

\* A chunk is written behind what is there already.
LEMMA WriteKeeps ==
  ASSUME StreamInv, at \in {"first", "perform", "resume"}, transfer = "active", ~paused,
         NEW n \in ChunkSizes, Write(n),
         UNCHANGED <<length, good, transfer, at, count, read>>
  PROVE  StreamInv'
<1> USE DEF StreamInv
<1>0. n \in 1 .. BufferSize - 1 /\ BufferSize \in Nat \ {0}
  BY XmlStreamAssumption
<1>1. Available \in 0 .. BufferSize - 1 /\ Free = BufferSize - Available
  BY FreeOrAvailable DEF RingTypes
<1>2. CASE Free < n + 1
  <2>1. /\ paused' = TRUE /\ held' = n /\ UNCHANGED <<buffer, head, tail, sent>>
    BY <1>2 DEF Write
  <2>2. Available' = Available /\ Available > 0
    BY <1>0, <1>1, <1>2, <2>1 DEF Available
  <2> QED
    BY <2>1, <2>2 DEF RingTypes, RingOrder, RingWait, EndMeansOver
<1>3. CASE ~(Free < n + 1)
  <2>1. /\ head' = (head + n) % BufferSize
        /\ sent' = sent + n /\ held' = 0 /\ UNCHANGED <<tail, paused>>
    BY <1>3 DEF Write
  <2>2. head \in Cells /\ head' = Wrapped(head + n)
    BY <1>0, <2>1, Remainder DEF RingTypes, Cells
  <2>3. head' \in Cells
    BY <1>0, <2>2 DEF Wrapped, Cells
  <2>4. Available' = Available + n
    <3>1. head \in 0 .. BufferSize - 1 /\ tail \in 0 .. BufferSize - 1
      BY DEF RingTypes, Cells
    <3>2. CASE tail > head
      BY <1>0, <1>3, <2>1, <2>2, <3>1, <3>2 DEF Available, Free, Wrapped
    <3>3. CASE ~(tail > head)
      BY <1>0, <1>3, <2>1, <2>2, <3>1, <3>3 DEF Available, Free, Wrapped
    <3> QED
      BY <3>2, <3>3
  <2>5. \A i \in Cells :
          buffer'[i] = LET k == IF i < head THEN i - head + BufferSize ELSE i - head
                       IN  IF k < n THEN sent + k + 1 ELSE buffer[i]
    <3>1. buffer' = [i \in Cells |-> LET k == (i - head) % BufferSize
                                     IN  IF k < n THEN sent + k + 1 ELSE buffer[i]]
      BY <1>3 DEF Write
    <3>2. ASSUME NEW i \in Cells
          PROVE  (i - head) % BufferSize
                   = IF i < head THEN i - head + BufferSize ELSE i - head
      <4>1. i - head \in 1 - BufferSize .. BufferSize - 1
        BY <1>0, <2>2 DEF Cells
      <4> QED
        BY <4>1, <1>0, <2>2, NegativeRemainder DEF Cells
    <3> QED
      BY <3>1, <3>2
  <2>6. RingTypes'
    <3>1. buffer' \in [Cells -> Nat]
      <4>1. \A i \in Cells : buffer'[i] \in Nat
        <5> SUFFICES ASSUME NEW i \in Cells PROVE buffer'[i] \in Nat
          OBVIOUS
        <5>1. head \in 0 .. BufferSize - 1 /\ i \in 0 .. BufferSize - 1 /\ sent \in Nat
          BY <2>2 DEF RingTypes, Cells
        <5>2. buffer[i] \in Nat
          BY DEF RingTypes
        <5>3. (IF i < head THEN i - head + BufferSize ELSE i - head) \in Nat
          BY <1>0, <5>1
        <5> QED
          BY <2>5, <5>1, <5>2, <5>3
      <4>2. buffer' = [i \in Cells |-> buffer'[i]]
        BY <1>3 DEF Write
      <4> QED
        BY <4>1, <4>2
    <3> QED
      BY <1>0, <2>1, <2>3, <3>1 DEF RingTypes
  <2>7. RingOrder'
    <3>1. sent' = Len(read)' + Available'
      BY <1>0, <1>1, <2>1, <2>4 DEF RingOrder, RingTypes
    <3>2. ASSUME NEW k \in 1 .. Available'
          PROVE  buffer'[Wrapped(tail' + k - 1)] = Len(read') + k
      <4> DEFINE i == Wrapped(tail + k - 1)
      <4>1. i \in Cells /\ k \in Int /\ sent \in Nat /\ Len(read) \in Nat /\ tail \in Cells
        BY <1>0, <1>1, <1>3, <2>4 DEF RingTypes, Cells, Wrapped
      <4>2. CASE k <= Available
        <5>1. buffer[i] = Len(read) + k
          BY <1>1, <4>1, <4>2 DEF RingOrder
        <5>2. ~((IF i < head THEN i - head + BufferSize ELSE i - head) < n)
          BY <1>0, <1>1, <1>3, <2>2, <4>1, <4>2 DEF Wrapped, Cells, Available, Free
        <5> QED
          BY <2>1, <2>5, <4>1, <5>1, <5>2
      <4>3. CASE k > Available
        <5>1. (IF i < head THEN i - head + BufferSize ELSE i - head) = k - 1 - Available
          BY <1>0, <1>1, <1>3, <2>2, <2>4, <4>1, <4>3 DEF Wrapped, Cells, Available, Free
        <5>2. sent + (k - 1 - Available) + 1 = Len(read) + k
          BY <1>1, <4>1 DEF RingOrder
        <5>3. k - 1 - Available < n
          BY <1>1, <2>4, <1>0
        <5> QED
          BY <2>1, <2>5, <4>1, <5>1, <5>2, <5>3
      <4> QED
        BY <4>1, <4>2, <4>3, <1>1
    <3> QED
      BY <3>1, <3>2 DEF RingOrder
  <2> QED
    BY <1>0, <1>1, <2>1, <2>4, <2>6, <2>7 DEF RingWait, EndMeansOver
<1> QED
  BY <1>2, <1>3

\* What is read leaves the buffer.
LEMMA ReadKeeps ==
  ASSUME StreamInv, ReadReturns
  PROVE  StreamInv'
<1> USE DEF StreamInv
<1>1. Available \in 0 .. BufferSize - 1 /\ BufferSize \in Nat \ {0}
  BY FreeOrAvailable, XmlStreamAssumption DEF RingTypes
<1>0. PICK got :
        /\ got = IF Available < count THEN Available ELSE count
        /\ LET span == Span(tail, got)
           IN  /\ read' = read \o [k \in 1..got |-> buffer[span[k]]]
               /\ buffer' = [i \in Cells |->
                               IF \E k \in 1..got : span[k] = i THEN 0 ELSE buffer[i]]
        /\ tail' = (tail + got) % BufferSize
        /\ at' = IF got = 0 THEN "end" ELSE "idle"
  BY DEF ReadReturns
<1> DEFINE span == Span(tail, got)
           more == [k \in 1..got |-> buffer[span[k]]]
<1>2. got \in 0 .. Available /\ (got = 0 => Available = 0)
  BY <1>0, <1>1, XmlStreamAssumption DEF RingTypes, ReadReturns
<1>3. /\ read' = read \o more
      /\ buffer' = [i \in Cells |-> IF \E k \in 1..got : span[k] = i THEN 0 ELSE buffer[i]]
      /\ tail' = (tail + got) % BufferSize
      /\ at' = IF got = 0 THEN "end" ELSE "idle"
      /\ count' = 0 /\ UNCHANGED <<head, paused, length, good, sent, held, transfer>>
  BY <1>0 DEF ReadReturns, transferVars
<1>4. tail \in 0 .. BufferSize - 1 /\ head \in 0 .. BufferSize - 1 /\ Len(read) \in Nat
  BY DEF RingTypes, Cells
<1>5. tail' = Wrapped(tail + got) /\ tail' \in Cells
  <2>1. tail + got \in 0 .. 2 * BufferSize - 1
    BY <1>1, <1>2, <1>4
  <2>2. tail' = Wrapped(tail + got)
    BY <1>3, <2>1, Remainder
  <2>3. Wrapped(tail + got) \in Cells
    BY <1>1, <2>1 DEF Wrapped, Cells
  <2> QED
    BY <2>2, <2>3
<1>6. Available' = Available - got
  <2>1. CASE tail > head
    <3>1. got <= (BufferSize - tail) + head /\ got \in Nat
      BY <1>1, <1>2, <1>4, <2>1 DEF Available
    <3>2. tail' = IF tail + got < BufferSize THEN tail + got ELSE tail + got - BufferSize
      BY <1>1, <1>2, <1>4, <1>5 DEF Wrapped
    <3> QED
      <4>1. head' = head /\ Available = (BufferSize - tail) + head
        BY <1>3, <2>1 DEF Available
      <4>2. CASE tail + got < BufferSize
        <5>1. tail' = tail + got /\ tail' > head'
          BY <1>1, <1>4, <2>1, <3>1, <3>2, <4>1, <4>2
        <5> QED
          BY <1>1, <1>4, <3>1, <4>1, <5>1 DEF Available
      <4>3. CASE ~(tail + got < BufferSize)
        <5>1. tail' = tail + got - BufferSize /\ ~(tail' > head')
          BY <1>1, <1>4, <2>1, <3>1, <3>2, <4>1, <4>3
        <5> QED
          BY <1>1, <1>4, <3>1, <4>1, <5>1 DEF Available
      <4> QED
        BY <4>2, <4>3
  <2>2. CASE ~(tail > head)
    <3>1. got <= head - tail /\ got \in Nat
      BY <1>1, <1>2, <1>4, <2>2 DEF Available
    <3>2. tail' = tail + got
      BY <1>1, <1>4, <1>5, <3>1 DEF Wrapped
    <3> QED
      <4>1. head' = head /\ Available = head - tail /\ ~(tail' > head')
        BY <1>1, <1>3, <1>4, <2>2, <3>1, <3>2 DEF Available
      <4> QED
        BY <1>1, <1>4, <3>1, <3>2, <4>1 DEF Available
  <2> QED
    BY <2>1, <2>2
<1>7. \A k \in 1..got : span[k] = Wrapped(tail + k - 1) /\ span[k] \in Cells
  <2> SUFFICES ASSUME NEW k \in 1..got
               PROVE  span[k] = Wrapped(tail + k - 1) /\ span[k] \in Cells
    OBVIOUS
  <2>1. tail + k - 1 \in 0 .. 2 * BufferSize - 1
    BY <1>1, <1>2, <1>4
  <2>2. span[k] = (tail + k - 1) % BufferSize
    BY DEF Span
  <2> QED
    BY <1>1, <2>1, <2>2, Remainder DEF Wrapped, Cells
<1>8. \A k \in 1..got : more[k] = Len(read) + k
  BY <1>1, <1>2, <1>7 DEF RingOrder
<1>9. more \in Seq(Nat) /\ Len(more) = got
  <2>1. \A k \in 1..got : more[k] \in Nat
    BY <1>1, <1>2, <1>4, <1>8
  <2>2. more \in [1..got -> Nat]
    BY <2>1
  <2> QED
    BY <1>1, <1>2, <2>2
<1> HIDE DEF more, span
<1>10. /\ read' \in Seq(Nat) /\ Len(read') = Len(read) + got
       /\ \A i \in 1 .. Len(read) + got :
            read'[i] = IF i <= Len(read) THEN read[i] ELSE more[i - Len(read)]
  BY <1>3, <1>9, ConcatProperties DEF RingTypes
<1>11. RingTypes'
  <2>1. buffer' \in [Cells -> Nat]
    BY <1>3 DEF RingTypes
  <2> QED
    BY <1>3, <1>5, <1>10, <2>1 DEF RingTypes
<1>12. RingOrder'
  <2>1. read' = [k \in 1..Len(read') |-> k]
    <3>1. \A i \in 1 .. Len(read) + got : read'[i] = i
      <4> SUFFICES ASSUME NEW i \in 1 .. Len(read) + got PROVE read'[i] = i
        OBVIOUS
      <4>1. CASE i <= Len(read)
        <5>1. read[i] = i
          BY <1>1, <1>2, <1>4, <4>1 DEF RingOrder
        <5> QED
          BY <1>10, <4>1, <5>1
      <4>2. CASE ~(i <= Len(read))
        <5>1. i - Len(read) \in 1..got
          BY <1>1, <1>2, <1>4, <4>2
        <5>2. more[i - Len(read)] = Len(read) + (i - Len(read))
          BY <1>8, <5>1
        <5>3. read'[i] = more[i - Len(read)]
          BY <1>10, <4>2
        <5> QED
          BY <1>1, <1>2, <1>4, <5>2, <5>3
      <4> QED
        BY <4>1, <4>2
    <3>2. read' = [i \in 1..Len(read') |-> read'[i]]
      BY <1>10, LenProperties
    <3> QED
      BY <1>10, <3>1, <3>2
  <2>2. sent' = Len(read') + Available'
    BY <1>1, <1>2, <1>3, <1>4, <1>6, <1>10 DEF RingOrder
  <2>3. ASSUME NEW k \in 1 .. Available'
        PROVE  buffer'[Wrapped(tail' + k - 1)] = Len(read') + k
    <3> DEFINE i == Wrapped(tail + (got + k) - 1)
    <3>1. got + k \in 1 .. Available /\ k \in Nat
      BY <1>1, <1>2, <1>6
    <3>2. i = Wrapped(tail' + k - 1) /\ i \in Cells
      BY <1>1, <1>2, <1>4, <1>5, <3>1 DEF Wrapped, Cells
    <3>3. buffer[i] = Len(read) + (got + k)
      BY <3>1 DEF RingOrder
    <3>4. \A j \in 1..got : span[j] # i
      <4> SUFFICES ASSUME NEW j \in 1..got PROVE Wrapped(tail + j - 1) # i
        BY <1>7
      <4> QED
        BY <1>1, <1>2, <1>4, <3>1 DEF Wrapped
    <3>5. buffer'[i] = buffer[i]
      BY <1>3, <3>2, <3>4
    <3> QED
      BY <1>1, <1>2, <1>4, <1>10, <3>2, <3>3, <3>5
  <2> QED
    BY <2>1, <2>2, <2>3 DEF RingOrder
<1>13. RingWait'
  <2>1. sent' = Len(read') + Available' /\ Len(read') \in Nat
    BY <1>2, <1>4, <1>10, <1>12 DEF RingOrder
  <2>2. at = "return" /\ (at' = "end" => Available = 0 /\ Available' = 0)
    BY <1>1, <1>2, <1>3, <1>6 DEF ReadReturns
  <2>3. at' \in {"idle", "end"}
    BY <1>3
  <2>4. at' = "end" => transfer' # "active"
    BY <1>3, <2>2 DEF RingWait
  <2>5. at' = "end" => Len(read') = sent'
    BY <2>1, <2>2
  <2> QED
    BY <2>3, <2>4, <2>5 DEF RingWait, EndMeansOver
<1> QED
  BY <1>11, <1>12, <1>13

\* Every step of the stream keeps the order, and so do the constructor and close().
LEMMA StreamStep ==
  ASSUME StreamInv, StreamNext
  PROVE  StreamInv'
<1> USE DEF StreamInv
<1>0. Available \in 0 .. BufferSize - 1 /\ Free = BufferSize - Available
  BY FreeOrAvailable DEF RingTypes
<1>1. CASE Receive
  <2>1. PICK n \in ChunkSizes : Write(n)
    <3>1. PICK n \in IF held > 0 THEN {held} ELSE {c \in ChunkSizes : c <= length - sent} :
            Write(n)
      BY <1>1 DEF Receive
    <3>2. n \in ChunkSizes
      BY DEF RingTypes
    <3> QED
      BY <3>1, <3>2
  <2> QED
    BY <1>1, <2>1, WriteKeeps DEF Receive
<1>2. CASE End
  <2>1. RingTypes' /\ RingOrder' /\ Available' = Available
    BY <1>2, RingKept DEF End, ringVars, RingTypes
  <2> QED
    BY <1>2, <2>1 DEF End, ringVars, RingWait, EndMeansOver
<1>3. ASSUME NEW n \in ReadSizes, Read(n) PROVE StreamInv'
  <2>1. RingTypes' /\ RingOrder' /\ Available' = Available
    BY <1>3, RingKept DEF Read, transferVars, RingTypes
  <2>2. BufferSize \div 2 \in 0 .. BufferSize
    BY XmlStreamAssumption
  <2>3. CASE paused /\ Free >= BufferSize \div 2
    BY <1>3, <2>1, <2>3 DEF Read, transferVars, RingWait, EndMeansOver
  <2>4. CASE ~(paused /\ Free >= BufferSize \div 2)
    BY <1>0, <1>3, <2>1, <2>2, <2>4, XmlStreamAssumption
    DEF Read, transferVars, RingWait, EndMeansOver
  <2> QED
    BY <2>3, <2>4
<1>4. CASE Resumed
  <2>1. RingTypes' /\ RingOrder' /\ Available' = Available
    BY <1>4, RingKept DEF Resumed, ringVars, transferVars, RingTypes
  <2> QED
    BY <1>4, <2>1 DEF Resumed, ringVars, transferVars, RingWait, EndMeansOver
<1>5. CASE Performed
  <2>1. RingTypes' /\ RingOrder' /\ Available' = Available
    BY <1>5, RingKept DEF Performed, ringVars, RingTypes
  <2> QED
    BY <1>5, <2>1 DEF Performed, ringVars, RingWait, EndMeansOver
<1>6. CASE Constructed
  <2>1. RingTypes' /\ RingOrder' /\ Available' = Available
    BY <1>6, RingKept DEF Constructed, ringVars, transferVars, RingTypes
  <2> QED
    BY <1>6, <2>1 DEF Constructed, ringVars, transferVars, RingWait, EndMeansOver
<1>7. CASE ReadReturns
  BY <1>7, ReadKeeps
<1> QED
  BY <1>1, <1>2, <1>3, <1>4, <1>5, <1>6, <1>7 DEF StreamNext

LEMMA StreamConstruct ==
  ASSUME StreamInv, NEW n \in Nat, NEW ok, Construct(n, ok)
  PROVE  StreamInv'
<1>1. RingTypes' /\ RingOrder' /\ Available' = Available
  BY RingKept DEF Construct, ringVars, RingTypes, StreamInv
<1> QED
  BY <1>1 DEF Construct, ringVars, StreamInv, RingWait, EndMeansOver

LEMMA ClosedIsGood ==
  /\ Closed => StreamInv
  /\ Close => StreamInv'
<1>1. 0 \in Cells /\ <<>> \in Seq(Nat) /\ Len(<<>>) = 0 /\ BufferSize \in Nat \ {0}
  BY XmlStreamAssumption, EmptySeq DEF Cells
<1>2. <<>> = [k \in 1..0 |-> k]
  OBVIOUS
<1>3. Closed => StreamInv
  BY <1>1, <1>2 DEF Closed, StreamInv, RingTypes, RingOrder, RingWait, EndMeansOver, Available
<1>4. Close => StreamInv'
  BY <1>1, <1>2 DEF Close, StreamInv, RingTypes, RingOrder, RingWait, EndMeansOver, Available
<1> QED
  BY <1>3, <1>4

LEMMA StreamStutter ==
  ASSUME StreamInv, UNCHANGED streamVars
  PROVE  StreamInv'
BY DEF streamVars, ringVars, transferVars, StreamInv, RingTypes, RingOrder, RingWait,
       EndMeansOver, Available

-----------------------------------------------------------------------------
(* The tables, the EPG and the queue. *)

Jobs == [due : Int, force : BOOLEAN, check : BOOLEAN, queued : BOOLEAN]

Types ==
  /\ clock \in Nat /\ discovered \in Int /\ next \in Int /\ published \in 1..Len(Docs)
  /\ pushdue \in BOOLEAN /\ asleep \in BOOLEAN /\ missed \in BOOLEAN /\ failing \in BOOLEAN
  /\ job \in Jobs
  /\ pc \in {"idle", "discover", "download", "stamp", "push", "pushing", "pushtask",
             "pushingtask", "reschedule"}

\* What is being read is a whole document, or cannot be parsed.
Downloading ==
  pc = "download" =>
    \/ answer \in 1..published /\ length = Len(Docs[answer]) + 1
    \/ answer = Garbage

Mirrors == ~Pages => Downloading /\ WholeDocument

\* The rows are in the EPG or still to be pushed, or a push is to come.
Complete ==
  /\ left # {} => pc \in {"pushing", "pushingtask"}
  /\ \/ pushdue \/ missed \/ pc \in {"pushtask", "stamp", "push"}
     \/ Window(table, pushed, maxdays) \subseteq epg \cup left

\* An update is queued, or the one that runs will be again, within a day and the jitter of
\* the last discovery or of the one that is being made.
Timely ==
  /\ pc \in {"discover", "download", "stamp"} => next <= clock + Period + Jitter
  /\ pc \in {"push", "pushing", "reschedule"} /\ ~asleep /\ ~failing =>
       next <= discovered + Period + Jitter
  /\ pc \in {"idle", "pushtask", "pushingtask"} /\ ~asleep /\ ~failing =>
       job.queued /\ (job.due > clock => job.due <= discovered + Period + Jitter)

Guide == Types /\ Mirrors /\ Complete /\ Timely

Inv == StreamInv /\ Guide

LEMMA JobFits ==
  ASSUME NEW j, NEW t \in Int, NEW f \in BOOLEAN, NEW c \in BOOLEAN, j = Job(t, f, c)
  PROVE  j \in Jobs /\ j.queued /\ j.due = t
BY DEF Jobs, Job

LEMMA NoJobFits == NoJob \in Jobs
BY DEF Jobs, NoJob

LEMMA InitInv == Init => Inv
<1> SUFFICES ASSUME Init PROVE Inv
  OBVIOUS
<1>1. StreamInv
  BY ClosedIsGood DEF Init
<1>2. Types
  <2>1. clock \in Nat /\ discovered \in Int /\ 1 \in 1..Len(Docs)
    BY ListingsAssumption DEF Init
  <2>2. job \in Jobs
    <3>1. job = Job(clock, FALSE, TRUE) /\ clock \in Int
      BY <2>1 DEF Init
    <3> QED
      BY <3>1, JobFits, Zenon
  <2>3. /\ pushdue \in BOOLEAN /\ asleep \in BOOLEAN /\ missed \in BOOLEAN
        /\ failing \in BOOLEAN
    BY Zenon DEF Init
  <2>4. next \in Int /\ published = 1 /\ pc = "idle"
    BY DEF Init
  <2> QED
    BY <2>1, <2>2, <2>3, <2>4 DEF Types
<1>3. Mirrors
  BY DEF Init, Mirrors, Downloading, WholeDocument
<1>4. Complete /\ Timely
  BY DEF Init, Complete, Timely
<1> QED
  BY <1>1, <1>2, <1>3, <1>4 DEF Inv, Guide

LEMMA StartUpdateKeeps == Guide /\ StartUpdate => Guide'
<1> SUFFICES ASSUME Guide, StartUpdate PROVE Guide'
  OBVIOUS
<1>1. /\ {Period, Jitter} \subseteq Nat /\ clock \in Nat /\ discovered \in Int
  BY ListingsAssumption DEF Guide, Types
<1>2. \E delta \in -Jitter..Jitter :
        \/ pc' = "discover" /\ next' = clock + Period + delta
        \/ pc' = "reschedule" /\ next' = discovered + Period + delta
  BY DEF StartUpdate
<1>3. /\ next' \in Int
      /\ \/ pc' = "discover" /\ next' <= clock + Period + Jitter
         \/ pc' = "reschedule" /\ next' <= discovered + Period + Jitter
  BY <1>1, <1>2
<1>4. /\ pc = "idle" /\ job' = NoJob
      /\ UNCHANGED <<clock, published, pushdue, asleep, missed, failing, discovered, table,
                     pushed, maxdays, epg, left>>
  BY DEF StartUpdate, worldVars, kodiVars, dataVars
<1>5. Types'
  BY <1>1, <1>3, <1>4, NoJobFits DEF Guide, Types
<1>6. Mirrors' /\ Complete'
  BY <1>3, <1>4 DEF Guide, Mirrors, Downloading, WholeDocument, Complete
<1>7. Timely'
  BY <1>3, <1>4 DEF Timely
<1> QED
  BY <1>5, <1>6, <1>7 DEF Guide

LEMMA BeginDownloadKeeps == Inv /\ BeginDownload => Inv'
<1> SUFFICES ASSUME Inv, BeginDownload PROVE Inv'
  OBVIOUS
<1>1. \E n \in Nat, ok \in BOOLEAN : Construct(n, ok)
  <2>1. published > 0 /\ LengthOf(published) \in Nat
    BY ListingsAssumption DEF Inv, Guide, Types, LengthOf
  <2> QED
    BY <2>1 DEF BeginDownload
<1>2. StreamInv'
  BY <1>1, StreamConstruct DEF Inv
<1>3. /\ pc = "discover" /\ pc' = "download"
      /\ UNCHANGED <<clock, published, next, left, job, pushdue, asleep, maxdays, epg, pushed,
                     missed, discovered, table, failing>>
  BY DEF BeginDownload, worldVars, queueVars, kodiVars, dataVars
<1>4. ~Pages => \/ answer' = published /\ length' = Len(Docs[published]) + 1
                \/ answer' = Garbage
  BY DEF BeginDownload, Construct, LengthOf, Inv, Guide, Types
<1>5. Guide'
  BY <1>3, <1>4
  DEF Inv, Guide, Types, Mirrors, Downloading, WholeDocument, Complete, Timely, Garbage
<1> QED
  BY <1>2, <1>5 DEF Inv

LEMMA DownloadKeeps == Inv /\ Download => Inv'
<1> SUFFICES ASSUME Inv, Download PROVE Inv'
  OBVIOUS
<1>1. StreamInv'
  BY StreamStep DEF Download, Inv
<1>2. length' = length
  BY DEF Download, StreamNext, Receive, End, Read, Resumed, Performed, Constructed,
         ReadReturns, transferVars
<1>3. Guide'
  BY <1>2 DEF Download, worldVars, taskVars, queueVars, kodiVars, dataVars, Inv, Guide, Types,
              Mirrors, Downloading, WholeDocument, Complete, Timely
<1> QED
  BY <1>1, <1>3 DEF Inv

\* The end of the body of a document has all of its rows.
LEMMA CommitKeeps == Inv /\ Commit => Inv'
<1> SUFFICES ASSUME Inv, Commit PROVE Inv'
  OBVIOUS
<1>1. StreamInv'
  BY ClosedIsGood DEF Commit
<1>2. /\ pc = "download" /\ pc' = "stamp" /\ answer # Garbage /\ Len(read) = length
      /\ table' = IF answer = Empty THEN NoRows ELSE RowsOf(answer, Len(read))
      /\ UNCHANGED <<clock, published, next, left, job, pushdue, asleep, maxdays, epg, pushed,
                     missed, discovered, failing>>
  BY DEF Commit, worldVars, queueVars, kodiVars
<1>3. ~Pages => WholeDocument'
  <2> SUFFICES ASSUME ~Pages PROVE WholeDocument'
    OBVIOUS
  <2>1. answer \in 1..published /\ length = Len(Docs[answer]) + 1
    BY <1>2 DEF Inv, Guide, Mirrors, Downloading
  <2>2. Len(Docs[answer]) \in Nat /\ answer # Empty
    BY <2>1, ListingsAssumption DEF Inv, Guide, Types, Empty
  <2>3. \A kind : Elements(answer, Len(read), kind) = Elements(answer, Len(Docs[answer]), kind)
    <3>1. (IF Len(read) < Len(Docs[answer]) THEN Len(read) ELSE Len(Docs[answer]))
             = IF Len(Docs[answer]) < Len(Docs[answer]) THEN Len(Docs[answer])
                                                        ELSE Len(Docs[answer])
      BY <1>2, <2>1, <2>2
    <3> QED
      BY <3>1 DEF Elements
  <2>4. RowsOf(answer, Len(read)) = RowsOf(answer, Len(Docs[answer]))
    BY <2>3, Zenon DEF RowsOf
  <2>5. table' = Table(answer)
    BY <1>2, <2>2, <2>4 DEF Table
  <2> QED
    BY <1>2, <2>1, <2>5 DEF WholeDocument
<1>4. Guide'
  BY <1>2, <1>3 DEF Inv, Guide, Types, Mirrors, Downloading, Complete, Timely
<1> QED
  BY <1>1, <1>4 DEF Inv

LEMMA FailedKeeps == Inv /\ (ParserFails \/ BeginFails) => Inv'
<1> SUFFICES ASSUME Inv, ParserFails \/ BeginFails PROVE Inv'
  OBVIOUS
<1>1. StreamInv'
  BY ClosedIsGood DEF ParserFails, BeginFails, Failed
<1>2. /\ pc \in {"discover", "download"} /\ pc' = "reschedule" /\ failing' = TRUE
      /\ UNCHANGED <<clock, published, next, left, job, pushdue, asleep, maxdays, epg, pushed,
                     missed, discovered, table>>
  BY DEF ParserFails, BeginFails, Failed, worldVars, queueVars, kodiVars
<1>3. Guide'
  BY <1>2 DEF Inv, Guide, Types, Mirrors, Downloading, WholeDocument, Complete, Timely
<1> QED
  BY <1>1, <1>3 DEF Inv

\* The steps of the worker that do not touch the stream.
LEMMA WorkerKeeps ==
  ASSUME Guide, Cancelled \/ Unauthorized \/ Stamp \/ Reschedule \/ StartPush
  PROVE  Guide'
<1> USE DEF Guide, worldVars, taskVars, queueVars, kodiVars, dataVars
<1>0. {Period, Jitter} \subseteq Nat
  BY ListingsAssumption
<1>1. CASE Cancelled
  BY <1>1 DEF Cancelled, Types, Mirrors, Downloading, WholeDocument, Complete, Timely
<1>2. CASE Unauthorized
  BY <1>2 DEF Unauthorized, Types, Mirrors, Downloading, WholeDocument, Complete, Timely
<1>3. CASE Stamp
  <2>1. Types'
    <3>1. missed' \in BOOLEAN /\ failing' \in BOOLEAN
      BY <1>3, Zenon DEF Stamp, Types
    <3>2. /\ discovered' \in Int /\ pc' \in {"push", "reschedule"}
          /\ UNCHANGED <<clock, next, published, pushdue, asleep, job>>
      BY <1>3 DEF Stamp, Types
    <3> QED
      BY <3>1, <3>2 DEF Types
  <2>2. Mirrors'
    BY <1>3 DEF Stamp, Mirrors, Downloading, WholeDocument
  <2>3. Complete'
    BY <1>3 DEF Stamp, Complete
  <2>4. Timely'
    BY <1>3, <1>0 DEF Stamp, Timely, Types
  <2> QED
    BY <2>1, <2>2, <2>3, <2>4
<1>4. CASE Reschedule
  <2>1. Types'
    BY <1>4, JobFits DEF Reschedule, Types
  <2>2. Mirrors' /\ Complete'
    BY <1>4 DEF Reschedule, Mirrors, Downloading, WholeDocument, Complete
  <2>3. Timely'
    BY <1>4, JobFits DEF Reschedule, Types, Timely
  <2> QED
    BY <2>1, <2>2, <2>3
<1>5. CASE StartPush
  BY <1>5 DEF StartPush, Types, Mirrors, Downloading, WholeDocument, Complete, Timely
<1> QED
  BY <1>1, <1>2, <1>3, <1>4, <1>5

LEMMA PushKeeps ==
  ASSUME Guide, BeginPush \/ Push \/ EndPush
  PROVE  Guide'
<1> USE DEF Guide, worldVars, taskVars, queueVars, kodiVars, dataVars
<1>1. CASE BeginPush
  BY <1>1 DEF BeginPush, Types, Mirrors, Downloading, WholeDocument, Complete, Timely
<1>2. CASE Push
  <2>1. epg' \cup left' = epg \cup left /\ (left' # {} => left # {})
    BY <1>2 DEF Push
  <2> QED
    BY <1>2, <2>1 DEF Push, Types, Mirrors, Downloading, WholeDocument, Complete, Timely
<1>3. CASE EndPush
  BY <1>3 DEF EndPush, AfterPush, Types, Mirrors, Downloading, WholeDocument, Complete, Timely
<1> QED
  BY <1>1, <1>2, <1>3

\* Time, the service, Kodi and the other tasks.
LEMMA OthersKeep ==
  ASSUME Guide, OtherNext
  PROVE  Guide'
<1> USE DEF Guide, streamVars, transferVars, worldVars, taskVars, queueVars, kodiVars,
             dataVars, Edit
<1>1. CASE Tick
  <2>1. clock' = clock + 1 /\ clock \in Nat /\ job.due \in Int /\ {Period, Jitter} \subseteq Nat
    BY <1>1, ListingsAssumption DEF Tick, Types, Jobs
  <2> QED
    BY <1>1, <2>1 DEF Tick, Types, Mirrors, Downloading, WholeDocument, Complete, Timely
<1>2. CASE Publish
  <2>1. published' \in 1..Len(Docs) /\ 1..published \subseteq 1..published'
    BY <1>2, ListingsAssumption DEF Publish, Types
  <2>2. Types'
    BY <1>2, <2>1 DEF Publish, Types
  <2>3. Mirrors'
    BY <1>2, <2>1 DEF Publish, Mirrors, Downloading, WholeDocument
  <2>4. Complete'
    BY <1>2, <2>1 DEF Publish, Complete
  <2>5. Timely'
    BY <1>2, <2>1 DEF Publish, Timely, Types
  <2> QED
    BY <2>2, <2>3, <2>4, <2>5
<1>3. CASE Authorize
  BY <1>3 DEF Authorize, Types, Mirrors, Downloading, WholeDocument, Complete, Timely
<1>4. CASE Request \/ Recheck
  <2>1. job' \in Jobs /\ job'.queued /\ job'.due = clock /\ clock \in Nat
    <3>1. clock \in Nat /\ clock \in Int
      BY DEF Types
    <3>2. job' = Job(clock, FALSE, TRUE) \/ job' = Job(clock, TRUE, TRUE)
      BY <1>4, Zenon DEF Request, Recheck
    <3> QED
      BY <3>1, <3>2, JobFits, Zenon
  <2>2. Types'
    BY <1>4, <2>1 DEF Request, Recheck, Types
  <2>3. Mirrors'
    BY <1>4, <2>1 DEF Request, Recheck, Mirrors, Downloading, WholeDocument
  <2>4. Complete'
    BY <1>4, <2>1 DEF Request, Recheck, Complete
  <2>5. Timely'
    <3>1. UNCHANGED <<clock, pc, asleep, failing, discovered, next>>
      BY <1>4 DEF Request, Recheck
    <3> QED
      BY <2>1, <3>1 DEF Timely
  <2> QED
    BY <2>2, <2>3, <2>4, <2>5
<1>5. ASSUME NEW days \in Days, SetEPGMaxFutureDays(days) PROVE Guide'
  <2>1. Types'
    BY <1>5 DEF SetEPGMaxFutureDays, Types
  <2>2. Mirrors'
    BY <1>5 DEF SetEPGMaxFutureDays, Mirrors, Downloading, WholeDocument
  <2>3. Complete'
    BY <1>5 DEF SetEPGMaxFutureDays, Complete
  <2>4. Timely'
    BY <1>5 DEF SetEPGMaxFutureDays, Timely, Types
  <2> QED
    BY <2>1, <2>2, <2>3, <2>4
<1>6. CASE OnSystemSleep
  <2>1. Types'
    BY <1>6, NoJobFits DEF OnSystemSleep, Types
  <2>2. Mirrors'
    BY <1>6 DEF OnSystemSleep, Mirrors, Downloading, WholeDocument
  <2>3. Complete'
    BY <1>6 DEF OnSystemSleep, Complete
  <2>4. Timely'
    BY <1>6 DEF OnSystemSleep, Timely, Types
  <2> QED
    BY <2>1, <2>2, <2>3, <2>4
<1>7. CASE OnSystemWake
  <2>1. job' \in Jobs /\ job'.queued /\ job'.due = clock /\ clock \in Nat
    <3>1. clock \in Nat /\ clock \in Int
      BY DEF Types
    <3>2. job' = Job(clock, FALSE, TRUE) \/ job' = Job(clock, TRUE, TRUE)
      BY <1>7, Zenon DEF OnSystemWake
    <3> QED
      BY <3>1, <3>2, JobFits, Zenon
  <2>2. Types'
    BY <1>7, <2>1 DEF OnSystemWake, Types
  <2>3. Mirrors'
    BY <1>7, <2>1 DEF OnSystemWake, Mirrors, Downloading, WholeDocument
  <2>4. Complete'
    BY <1>7, <2>1 DEF OnSystemWake, Complete
  <2>5. Timely'
    <3>1. pc = "idle" /\ UNCHANGED <<clock, pc>>
      BY <1>7 DEF OnSystemWake
    <3> QED
      BY <2>1, <3>1 DEF Timely
  <2> QED
    BY <2>2, <2>3, <2>4, <2>5
<1>8. ASSUME NEW channel \in Viewed, GetEPGForChannel(channel) PROVE Guide'
  <2>1. epg \subseteq epg'
    BY <1>8 DEF GetEPGForChannel
  <2>2. Types'
    BY <1>8, <2>1 DEF GetEPGForChannel, Types
  <2>3. Mirrors'
    BY <1>8, <2>1 DEF GetEPGForChannel, Mirrors, Downloading, WholeDocument
  <2>4. Complete'
    BY <1>8, <2>1 DEF GetEPGForChannel, Complete
  <2>5. Timely'
    BY <1>8, <2>1 DEF GetEPGForChannel, Timely, Types
  <2> QED
    BY <2>2, <2>3, <2>4, <2>5
<1> QED
  BY <1>1, <1>2, <1>3, <1>4, <1>5, <1>6, <1>7, <1>8 DEF OtherNext

LEMMA NextInv == Inv /\ [Next]_vars => Inv'
<1> SUFFICES ASSUME Inv, [Next]_vars PROVE Inv'
  OBVIOUS
<1>1. CASE StartUpdate
  BY <1>1, StartUpdateKeeps, StreamStutter DEF Inv, StartUpdate
<1>2. CASE Cancelled \/ Unauthorized \/ Stamp \/ Reschedule \/ StartPush
  BY <1>2, WorkerKeeps, StreamStutter
  DEF Inv, Cancelled, Unauthorized, Stamp, Reschedule, StartPush
<1>3. CASE BeginPush \/ Push \/ EndPush
  BY <1>3, PushKeeps, StreamStutter DEF Inv, BeginPush, Push, EndPush
<1>4. CASE OtherNext
  <2>1. UNCHANGED streamVars
    BY <1>4 DEF OtherNext, Tick, Publish, Authorize, Request, Recheck, SetEPGMaxFutureDays,
                OnSystemSleep, OnSystemWake, GetEPGForChannel
  <2> QED
    BY <1>4, <2>1, OthersKeep, StreamStutter DEF Inv
<1>5. CASE UNCHANGED vars
  <2>1. Guide'
    BY <1>5 DEF vars, worldVars, taskVars, queueVars, kodiVars, dataVars, streamVars,
                transferVars, Inv, Guide, Types, Mirrors, Downloading, WholeDocument, Complete,
                Timely
  <2> QED
    BY <1>5, <2>1, StreamStutter DEF vars, Inv
<1> QED
  BY <1>1, <1>2, <1>3, <1>4, <1>5, BeginDownloadKeeps, DownloadKeeps, CommitKeeps, FailedKeeps
  DEF Next, WorkerNext

\* The inductive invariant.
LEMMA Invariance == Spec => []Inv
BY InitInv, NextInv, PTL DEF Spec

\* The parser is given the bytes of the reply in order, for every size of the buffer, of
\* the chunks and of the reads: curl_write() and read() neither lose nor repeat any.
THEOREM BytesInOrder == Spec => []InOrder
<1>1. Inv => InOrder
  BY OrderSame DEF Inv, StreamInv
<1> QED
  BY <1>1, Invariance, PTL

\* read() returns 0 only when the transfer is over and all of it was read.
THEOREM EndIsEnd == Spec => []EndMeansOver
<1>1. Inv => EndMeansOver
  BY DEF Inv, StreamInv, RingWait
<1> QED
  BY <1>1, Invariance, PTL

\* Unless an error page is well-formed XML, the tables always are those of one document:
\* discover_listings commits none that was cut short.
THEOREM TablesAreADocument ==
  ASSUME ~Pages
  PROVE  Spec => []WholeDocument
<1>1. Inv => WholeDocument
  BY DEF Inv, Guide, Mirrors
<1> QED
  BY <1>1, Invariance, PTL

\* No change of how far the EPG reaches, push or sleep leaves rows out unnoticed.
THEOREM EpgHasTheRows == Spec => []EpgComplete
<1>1. Inv => EpgComplete
  BY DEF Inv, Guide, Complete, EpgComplete
<1> QED
  BY <1>1, Invariance, PTL

\* Whatever is requested, skipped and cancelled, update_listings_task is due within a day
\* and the jitter of the last discovery, unless that failed.
THEOREM ListingsStayFresh == Spec => []Fresh
<1>1. Inv => Fresh
  BY DEF Inv, Guide, Timely, Fresh
<1> QED
  BY <1>1, Invariance, PTL
-----------------------------------------------------------------------------
(* Types. *)

\* The types of the stream that the order of the bytes does not need: what was passed,
\* and the chunk that is held back, are part of the body.
StreamTypes ==
  /\ buffer \in [Cells -> 0..length] /\ good \in BOOLEAN
  /\ sent <= length /\ held <= length - sent
  /\ transfer \in {"active", "complete", "failed", "removed"}
  /\ at \in {"closed", "idle", "resume", "first", "perform", "return", "throw", "end"}
  /\ at = "closed" => sent = 0 /\ held = 0 /\ buffer = [i \in Cells |-> 0]

LEMMA StreamTypesInit ==
  /\ Closed => StreamTypes /\ at = "closed"
  /\ Close => StreamTypes' /\ at' = "closed"
<1>1. [i \in Cells |-> 0] \in [Cells -> 0..0]
  OBVIOUS
<1>2. Closed => StreamTypes /\ at = "closed"
  BY <1>1 DEF Closed, StreamTypes
<1>3. Close => StreamTypes' /\ at' = "closed"
  BY <1>1 DEF Close, StreamTypes
<1> QED
  BY <1>2, <1>3

LEMMA StreamTypesStep ==
  ASSUME StreamInv, StreamTypes, StreamNext
  PROVE  StreamTypes' /\ at # "closed" /\ at' # "closed"
<1> USE DEF StreamInv, StreamTypes
<1>0. BufferSize \in Nat \ {0} /\ ChunkSizes \subseteq 1 .. BufferSize - 1
  BY XmlStreamAssumption
<1>1. CASE Receive
  <2>1. PICK n \in IF held > 0 THEN {held} ELSE {c \in ChunkSizes : c <= length - sent} :
          Write(n)
    BY <1>1 DEF Receive
  <2>2. n \in 1..BufferSize - 1 /\ n <= length - sent /\ sent \in Nat /\ length \in Nat
    BY <1>0, <2>1 DEF RingTypes
  <2>3. UNCHANGED <<length, good, transfer, at>> /\ at \in {"first", "perform", "resume"}
    BY <1>1 DEF Receive
  <2>4. CASE Free < n + 1
    BY <2>1, <2>2, <2>3, <2>4 DEF Write
  <2>5. CASE ~(Free < n + 1)
    <3>1. /\ sent' = sent + n /\ held' = 0
          /\ buffer' = [i \in Cells |-> LET k == (i - head) % BufferSize
                                        IN  IF k < n THEN sent + k + 1 ELSE buffer[i]]
      BY <2>1, <2>5 DEF Write
    <3>2. ASSUME NEW i \in Cells PROVE (i - head) % BufferSize \in Nat
      <4>1. i - head \in 1 - BufferSize .. BufferSize - 1 /\ i - head \in Int
        BY <1>0 DEF RingTypes, Cells
      <4> QED
        BY <4>1, <1>0, NegativeRemainder
    <3>3. ASSUME NEW i \in Cells, NEW k \in Nat
          PROVE  (IF k < n THEN sent + k + 1 ELSE buffer[i]) \in 0..length
      BY <2>2
    <3>4. buffer' \in [Cells -> 0..length]
      BY <3>1, <3>2, <3>3
    <3> QED
      BY <2>2, <2>3, <3>1, <3>4
  <2> QED
    BY <2>4, <2>5
<1>2. CASE End
  BY <1>2 DEF End, ringVars
<1>3. ASSUME NEW n \in ReadSizes, Read(n) PROVE StreamTypes' /\ at # "closed" /\ at' # "closed"
  BY <1>3 DEF Read, transferVars
<1>4. CASE Resumed \/ Constructed
  BY <1>4 DEF Resumed, Constructed, ringVars, transferVars
<1>5. CASE Performed
  BY <1>5 DEF Performed, ringVars
<1>6. CASE ReadReturns
  <2>1. PICK S : buffer' = [i \in Cells |-> IF i \in S THEN 0 ELSE buffer[i]]
    <3>1. PICK n :
            buffer' = [i \in Cells |-> IF \E k \in 1..n : Span(tail, n)[k] = i
                                       THEN 0 ELSE buffer[i]]
      BY <1>6 DEF ReadReturns
    <3>2. \A i : (\E k \in 1..n : Span(tail, n)[k] = i)
                   <=> i \in {Span(tail, n)[k] : k \in 1..n}
      OBVIOUS
    <3> QED
      BY <3>1, <3>2
  <2>2. buffer' \in [Cells -> 0..length]
    BY <2>1 DEF RingTypes
  <2> QED
    BY <1>6, <2>2 DEF ReadReturns, transferVars
<1> QED
  BY <1>1, <1>2, <1>3, <1>4, <1>5, <1>6 DEF StreamNext

LEMMA StreamTypesHold == StreamInv /\ StreamTypes => StreamTypeOK
<1> SUFFICES ASSUME StreamInv, StreamTypes PROVE StreamTypeOK
  OBVIOUS
<1> USE DEF StreamInv, StreamTypes
<1>1. Available \in Nat
  BY FreeOrAvailable, XmlStreamAssumption DEF RingTypes
<1>2. Len(read) \in Nat /\ Len(read) <= length
  BY <1>1 DEF RingTypes, RingOrder
<1>3. \A k \in 1..Len(read) : k \in 1..length
  BY <1>2 DEF RingTypes
<1>4. [k \in 1..Len(read) |-> k] \in Seq(1..length)
  BY <1>2, <1>3
<1>5. read \in Seq(1..length)
  BY <1>4 DEF RingOrder
<1>6. sent \in 0..length
  BY DEF RingTypes
<1> QED
  BY <1>5, <1>6 DEF StreamTypeOK, RingTypes

\* The types that the other properties do not need.
NumberTypes ==
  /\ clock \in 0..MaxClock /\ discovered \in 0..clock /\ pushed \in 0..clock
  /\ edits \in 0..MaxEdits /\ lost \in 0..MaxLost /\ job.due \in Nat /\ next \in Nat

OtherTypes ==
  /\ authorized \in BOOLEAN /\ owed \in BOOLEAN /\ maxdays \in Days
  /\ answer \in {Empty, Garbage} \cup 1..Len(Docs)
  /\ left \subseteq Shown(table)
  /\ (pc = "download") <=> (at # "closed")

DataTypes == StreamTypes /\ NumberTypes /\ OtherTypes

LEMMA InitTypes == Init => DataTypes
<1> SUFFICES ASSUME Init PROVE DataTypes
  OBVIOUS
<1>1. StreamTypes /\ at = "closed"
  BY StreamTypesInit DEF Init
<1>2. NumberTypes
  BY ListingsAssumption DEF Init, NumberTypes, Job
<1>3. OtherTypes
  BY <1>1, ListingsAssumption DEF Init, OtherTypes
<1> QED
  BY <1>1, <1>2, <1>3 DEF DataTypes

\* Steps that leave the stream closed or open it, read from it or close it.
LEMMA StreamTypesKept ==
  ASSUME Inv, DataTypes, [Next]_vars
  PROVE  StreamTypes' /\ ((pc' = "download") <=> (at' # "closed"))
<1> USE DEF DataTypes, OtherTypes
<1>1. ASSUME UNCHANGED streamVars, pc' = "download" <=> pc = "download"
      PROVE  StreamTypes' /\ ((pc' = "download") <=> (at' # "closed"))
  BY <1>1 DEF StreamTypes, streamVars, ringVars, transferVars
<1>2. CASE BeginDownload
  <2>1. PICK n \in Nat, ok \in BOOLEAN : Construct(n, ok)
    <3>1. published > 0 /\ LengthOf(published) \in Nat
      BY ListingsAssumption DEF Inv, Guide, Types, LengthOf
    <3> QED
      BY <1>2, <3>1 DEF BeginDownload
  <2>2. pc' = "download"
    BY <1>2 DEF BeginDownload
  <2> QED
    BY <2>1, <2>2 DEF Construct, ringVars, StreamTypes
<1>3. CASE Download
  BY <1>3, StreamTypesStep DEF Download, taskVars, Inv
<1>4. CASE Commit \/ ParserFails \/ BeginFails
  BY <1>4, StreamTypesInit DEF Commit, ParserFails, BeginFails, Failed
<1>5. CASE UNCHANGED vars
  BY <1>1, <1>5 DEF vars, taskVars
<1>6. CASE StartUpdate \/ Cancelled \/ Unauthorized \/ Stamp \/ Reschedule \/ StartPush
           \/ BeginPush \/ Push \/ EndPush
  BY <1>1, <1>6 DEF StartUpdate, Cancelled, Unauthorized, Stamp, Reschedule, StartPush,
     BeginPush, Push, EndPush, AfterPush
<1>7. CASE OtherNext
  BY <1>1, <1>7 DEF OtherNext, Tick, Publish, Authorize, Request, Recheck,
     SetEPGMaxFutureDays, OnSystemSleep, OnSystemWake, GetEPGForChannel, taskVars
<1> QED
  BY <1>2, <1>3, <1>4, <1>5, <1>6, <1>7 DEF Next, WorkerNext

LEMMA NumberTypesKept ==
  ASSUME Inv, DataTypes, [Next]_vars
  PROVE  NumberTypes'
<1> USE DEF DataTypes, NumberTypes
<1>0. /\ Period \in Nat /\ Jitter \in Nat /\ Jitter < Period /\ MaxClock \in Nat
      /\ MaxEdits \in Nat /\ MaxLost \in Nat
  BY ListingsAssumption
<1>1. CASE StartUpdate
  <2>1. PICK delta \in -Jitter..Jitter :
          next' = clock + Period + delta \/ next' = discovered + Period + delta
    BY <1>1 DEF StartUpdate
  <2>2. next' \in Nat
    BY <1>0, <2>1
  <2> QED
    BY <1>1, <2>2 DEF StartUpdate, NoJob, worldVars, kodiVars, dataVars
<1>2. CASE Cancelled \/ Unauthorized \/ Stamp \/ StartPush \/ BeginPush \/ Push \/ EndPush
  BY <1>0, <1>2 DEF Cancelled, Unauthorized, Stamp, StartPush, BeginPush, Push, EndPush,
     worldVars, taskVars, queueVars, kodiVars, dataVars
<1>3. CASE Reschedule
  BY <1>3 DEF Reschedule, Job, worldVars, taskVars, kodiVars, dataVars
<1>4. CASE BeginDownload \/ BeginFails
  <2>1. lost' = lost \/ (lost < MaxLost /\ lost' = lost + 1)
    BY <1>4, Zenon DEF BeginDownload, BeginFails
  <2>2. lost' \in 0..MaxLost
    BY <1>0, <2>1
  <2>3. UNCHANGED <<clock, discovered, pushed, edits, job, next>>
    BY <1>4 DEF BeginDownload, BeginFails, worldVars, queueVars, kodiVars, dataVars
  <2> QED
    BY <2>2, <2>3
<1>5. CASE Download \/ Commit \/ ParserFails
  BY <1>5 DEF Download, Commit, ParserFails, worldVars, taskVars, queueVars, kodiVars, dataVars
<1>6. CASE OtherNext
  <2> USE DEF worldVars, taskVars, queueVars, kodiVars, dataVars
  <2>1. CASE Tick
    BY <1>0, <2>1 DEF Tick
  <2>2. CASE Publish \/ Authorize
    BY <1>0, <2>2 DEF Publish, Authorize, Edit
  <2>3. ASSUME NEW days \in Days, SetEPGMaxFutureDays(days) PROVE NumberTypes'
    BY <1>0, <2>3 DEF SetEPGMaxFutureDays, Edit
  <2>4. CASE Request \/ Recheck
    BY <1>0, <2>4 DEF Request, Recheck, Edit, Job
  <2>5. CASE OnSystemSleep \/ OnSystemWake
    BY <1>0, <2>5 DEF OnSystemSleep, OnSystemWake, Edit, Job, NoJob
  <2>6. ASSUME NEW channel \in Viewed, GetEPGForChannel(channel) PROVE NumberTypes'
    BY <2>6 DEF GetEPGForChannel
  <2> QED
    BY <1>6, <2>1, <2>2, <2>3, <2>4, <2>5, <2>6 DEF OtherNext
<1>7. CASE UNCHANGED vars
  BY <1>7 DEF vars, worldVars, taskVars, queueVars, kodiVars, dataVars
<1> QED
  BY <1>1, <1>2, <1>3, <1>4, <1>5, <1>6, <1>7 DEF Next, WorkerNext

\* Rows are left to be pushed only while they are pushed, when the table does not change.
LEMMA OtherTypesKept ==
  ASSUME Inv, DataTypes, [Next]_vars
  PROVE  OtherTypes'
<1> USE DEF DataTypes, OtherTypes, worldVars, taskVars, queueVars, kodiVars, dataVars
<1>1. authorized' \in BOOLEAN /\ owed' \in BOOLEAN /\ maxdays' \in Days
  <2>1. authorized' \in {authorized, ~authorized}
    BY DEF Next, WorkerNext, OtherNext, vars, StartUpdate, Cancelled, Unauthorized,
       BeginDownload, BeginFails, Download, ParserFails, Commit, Stamp, BeginPush, Push,
       EndPush, Reschedule, StartPush, Tick, Publish, Authorize, Request, Recheck,
       SetEPGMaxFutureDays, OnSystemSleep, OnSystemWake, GetEPGForChannel
  <2>2. owed' \in {owed, FALSE, ~asleep} /\ asleep \in BOOLEAN
    BY DEF Next, WorkerNext, OtherNext, vars, StartUpdate, Cancelled, Unauthorized,
       BeginDownload, BeginFails, Download, ParserFails, Commit, Stamp, BeginPush, Push,
       EndPush, Reschedule, StartPush, Tick, Publish, Authorize, Request, Recheck,
       SetEPGMaxFutureDays, OnSystemSleep, OnSystemWake, GetEPGForChannel, Inv, Guide, Types
  <2>3. maxdays' \in Days
    BY DEF Next, WorkerNext, OtherNext, vars, StartUpdate, Cancelled, Unauthorized,
       BeginDownload, BeginFails, Download, ParserFails, Commit, Stamp, BeginPush, Push,
       EndPush, Reschedule, StartPush, Tick, Publish, Authorize, Request, Recheck,
       SetEPGMaxFutureDays, OnSystemSleep, OnSystemWake, GetEPGForChannel
  <2> QED
    BY <2>1, <2>2, <2>3, Zenon
<1>2. answer' \in {Empty, Garbage} \cup 1..Len(Docs)
  <2>1. published \in 1..Len(Docs)
    BY DEF Inv, Guide, Types
  <2>2. answer' \in {answer, Empty, Garbage, published}
    BY DEF Next, WorkerNext, OtherNext, vars, StartUpdate, Cancelled, Unauthorized,
       BeginDownload, BeginFails, Download, ParserFails, Failed, Commit, Stamp, BeginPush,
       Push, EndPush, Reschedule, StartPush, Tick, Publish, Authorize, Request, Recheck,
       SetEPGMaxFutureDays, OnSystemSleep, OnSystemWake, GetEPGForChannel
  <2> QED
    BY <2>1, <2>2
<1>3. left' \subseteq Shown(table')
  <2>1. CASE BeginPush
    BY <2>1 DEF BeginPush, Window
  <2>2. CASE Push \/ EndPush
    BY <2>2 DEF Push, EndPush
  <2>3. CASE Commit
    BY <2>3 DEF Commit, Inv, Guide, Complete
  <2>4. CASE UNCHANGED <<left, table>>
    BY <2>4
  <2>5. CASE ~(BeginPush \/ Push \/ EndPush \/ Commit)
    <3>1. UNCHANGED <<left, table>>
      BY <2>5 DEF Next, WorkerNext, OtherNext, vars, StartUpdate, Cancelled, Unauthorized,
         BeginDownload, BeginFails, Download, ParserFails, Stamp, Reschedule, StartPush,
         Tick, Publish, Authorize, Request, Recheck, SetEPGMaxFutureDays, OnSystemSleep,
         OnSystemWake, GetEPGForChannel
    <3> QED
      BY <2>4, <3>1
  <2> QED
    BY <2>1, <2>2, <2>3, <2>5
<1> QED
  BY <1>1, <1>2, <1>3, StreamTypesKept

\* Every variable keeps its type: in particular neither what was sent nor the chunk that
\* is held back exceeds the body, the rows left to be pushed are rows of the tables, and
\* there is a stream exactly while the worker downloads.
THEOREM TypeCorrect == Spec => []TypeOK
<1>1. Inv /\ DataTypes => TypeOK
  <2> SUFFICES ASSUME Inv, DataTypes PROVE TypeOK
    OBVIOUS
  <2>1. StreamTypeOK
    BY StreamTypesHold DEF Inv, DataTypes
  <2>2. {authorized, pushdue, asleep, missed, failing, owed} \subseteq BOOLEAN
    BY Zenon DEF Inv, Guide, Types, DataTypes, OtherTypes
  <2>3. job \in [due : Nat, force : BOOLEAN, check : BOOLEAN, queued : BOOLEAN]
    BY DEF Inv, Guide, Types, Jobs, DataTypes, NumberTypes
  <2> QED
    BY <2>1, <2>2, <2>3 DEF Inv, Guide, Types, DataTypes, NumberTypes, OtherTypes, TypeOK
<1>2. Inv /\ DataTypes /\ [Next]_vars => DataTypes'
  BY StreamTypesKept, NumberTypesKept, OtherTypesKept DEF DataTypes
<1> QED
  BY <1>1, <1>2, InitTypes, Invariance, PTL DEF Spec
=============================================================================

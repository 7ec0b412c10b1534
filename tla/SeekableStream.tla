---------------------------- MODULE SeekableStream ----------------------------
(***************************************************************************)
(* What class httpstream promises its reader, without ring buffer, indexes *)
(* and callbacks: the bytes of a transfer arrive in order, ahead of the    *)
(* reader, who takes them in the same order, may go back to any of the     *)
(* last ones, or starts another transfer elsewhere.                        *)
(***************************************************************************)
EXTENDS Integers, Sequences

CONSTANTS
  Capacity,  \* how many bytes are kept
  NoByte     \* what arrives is not the stream

VARIABLES
  source,    \* what the transfer brings: "none" yet, the "stream" or something "else"
  start,     \* the position of the first byte of the transfer
  written,   \* the position after the last byte that has arrived
  position,  \* the position of the reader
  unread     \* the bytes that the reader takes next

vars == <<source, start, written, position, unread>>

\* The bytes from a position on.
Bytes(p, n) == [i \in 1 .. n |-> IF source = "stream" THEN p + i - 1 ELSE NoByte]

Init ==
  /\ source = "none" /\ unread = <<>>
  /\ start = 0 /\ written = 0 /\ position = 0

\* The server says what it sends, and from where.
Answer ==
  /\ source = "none" /\ source' \in {"stream", "else"}
  /\ start' \in Nat /\ written' = start' /\ position' = start'
  /\ unread' = <<>>

\* Nothing arrives that there is no room for.
Arrive(n) ==
  /\ source # "none" /\ Len(unread) + n < Capacity
  /\ unread' = unread \o Bytes(written, n)
  /\ written' = written + n
  /\ UNCHANGED <<source, start, position>>

Take(n) ==
  /\ unread' = SubSeq(unread, n + 1, Len(unread))
  /\ position' = position + n
  /\ UNCHANGED <<source, start, written>>

Kept == {p \in start .. written - 1 : p >= written - Capacity}

\* The oldest byte that is kept is taken for the next that arrives.
Move(p) ==
  /\ position' = p
  /\ unread' = IF p = written - Capacity THEN <<>> ELSE Bytes(p, written - p)
  /\ UNCHANGED <<source, start, written>>

Restart ==
  /\ source' = "none" /\ unread' = <<>>
  /\ start' = 0 /\ written' = 0 /\ position' = 0

Next ==
  \/ Answer
  \/ \E n \in 1 .. Capacity : Arrive(n)
  \/ \E n \in 1 .. Len(unread) : Take(n)
  \/ \E p \in Kept : Move(p)
  \/ Restart

Spec == Init /\ [][Next]_vars
=============================================================================

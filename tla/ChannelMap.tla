------------------------------ MODULE ChannelMap ------------------------------
(***************************************************************************)
(* The numbers of channels and the file that maps some of them to radio.   *)
(*                                                                         *)
(* A channel number is a pair <<channel, subchannel>>; a cable channel has *)
(* the subchannel 0.  The database, Kodi and the mappings hold it packed   *)
(* into 32 bits (union channelid of src/src/dbtypes.h): 20 bits of channel *)
(* above 12 bits of subchannel.                                            *)
(***************************************************************************)
EXTENDS Integers

\* A number that the bit fields cannot hold is cut off.
Encode(number) == (number[1] % 1048576) * 4096 + (number[2] % 4096)

IsCable(id) == id % 4096 = 0

-----------------------------------------------------------------------------
(***************************************************************************)
(* A line of the mapping file is the numbers in it and the form they are   *)
(* written in: "4.1-4.3", "4.1", "1800-1899", "1800", or anything else.    *)
(***************************************************************************)

Line(form, n) == [form |-> form, n |-> n]

IsOta(l) == l.form \in {"ota range", "ota"}

\* The first and the last identifier of a line.  The last subchannel of a range of
\* over-the-air channels is taken from its last channel.
RangeOf(l) ==
  LET from == IF IsOta(l) THEN <<l.n[1], l.n[2]>> ELSE <<l.n[1], 0>>
      to == IF l.form = "ota range" THEN <<l.n[3], l.n[3]>>
            ELSE IF l.form = "cable range" THEN <<l.n[2], 0>> ELSE from
  IN  <<Encode(from), Encode(to)>>

LinesOf(file) == {file[i] : i \in DOMAIN file}

\* What discover_mappings reads; invalid lines are skipped.  It compares the ranges in
\* the order of the file, which is left out.
Parse(file) ==
  LET valid == {l \in LinesOf(file) : l.form # "invalid"}
  IN  [cable |-> {RangeOf(l) : l \in {x \in valid : ~IsOta(x)}},
       ota |-> {RangeOf(l) : l \in {x \in valid : IsOta(x)}}]

IsChannelRadio(m, id) ==
  \E r \in IF IsCable(id) THEN m.cable ELSE m.ota : r[1] <= id /\ id <= r[2]

-----------------------------------------------------------------------------
(***************************************************************************)
(* What the help text of the setting promises: the file lists "either      *)
(* individual channel numbers or a range of channel numbers".              *)
(***************************************************************************)

\* The order of channel numbers.
AtMost(a, b) == a[1] < b[1] \/ (a[1] = b[1] /\ a[2] <= b[2])

\* The first and the last number of a line.
First(l) == IF IsOta(l) THEN <<l.n[1], l.n[2]>> ELSE <<l.n[1], 0>>

Last(l) ==
  IF l.form = "ota range" THEN <<l.n[3], l.n[4]>>
  ELSE IF l.form = "cable range" THEN <<l.n[2], 0>> ELSE First(l)

\* A line of the file lists a channel number of its own kind.
Lists(l, number) ==
  /\ l.form # "invalid" /\ IsOta(l) = (number[2] # 0)
  /\ AtMost(First(l), number) /\ AtMost(number, Last(l))

Listed(file, number) == \E l \in LinesOf(file) : Lists(l, number)
=============================================================================

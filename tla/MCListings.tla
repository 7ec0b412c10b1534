------------------------------ MODULE MCListings ------------------------------
(* Two documents: the second one has other programmes, one without a title, and lacks a *)
(* channel.                                                                              *)
EXTENDS Listings

CONSTANTS n1, n2

MCChannel(n) == [kind |-> "channel", id |-> n, lcn |-> n]

MCProgramme(n, t) == [kind |-> "programme", id |-> n, stop |-> t, titled |-> t # 4]

MCDocs ==
  << <<MCChannel(n1), MCChannel(n2), MCProgramme(n2, 6)>>,
     <<MCChannel(n1), MCProgramme(n1, 4), MCProgramme(n1, 5), MCProgramme(n1, 7)>> >>

MCDays == {-1, 2}
=============================================================================

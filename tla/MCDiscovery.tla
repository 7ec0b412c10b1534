------------------------------ MODULE MCDiscovery ------------------------------
(* Two tuners that share a channel; one of them receives cable channels as well. *)
EXTENDS Discovery, TLC

CONSTANTS t1, t2

MCChannels == {<<4, 1>>, <<4, 4>>, <<4, 0>>, <<18, 0>>}

MCCarries == t1 :> {<<4, 1>>, <<4, 4>>} @@ t2 :> {<<4, 1>>, <<4, 0>>, <<18, 0>>}

MCChanging == {<<4, 1>>}

MCTimed == {<<4, 1>>, <<18, 0>>}

MCProtected == {<<4, 0>>}

MCVideo ==
  <<4, 1>> :> {"HD", "HEVC"} @@ <<4, 4>> :> {} @@ <<4, 0>> :> {"HD"} @@ <<18, 0>> :> {}

MCFiles ==
  << <<Line("ota", <<4, 1>>), Line("cable range", <<17, 18>>)>>,
     <<Line("invalid", <<>>), Line("cable", <<18>>), Line("ota range", <<4, 2, 4, 4>>)>> >>

MCRanges == << <<Line("ota", <<4, 1>>)>>, <<Line("ota range", <<4, 1, 4, 3>>)>> >>
=============================================================================

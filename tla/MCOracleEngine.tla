--------------------------- MODULE MCOracleEngine ---------------------------
(* The life of a service graph with room for four nodes: a ring of three, the   *)
(* ring of four, which is the smallest graph of known services on which the     *)
(* Shield can act, that ring when a link of it has gone stale and a short cut   *)
(* has come up, and the same when a fifth service, for which there is no room,  *)
(* calls its first.                                                             *)
EXTENDS OracleEngine

Known == {"a", "b", "c", "d"}

MCServices == Known \union {"e"}

Ring == {<<"a", "b">>, <<"b", "c">>, <<"c", "d">>, <<"d", "a">>}

ShortCut == {<<"a", "b">>, <<"b", "c">>, <<"c", "d">>, <<"a", "d">>}

MCLiveGraphs ==
  {[nodes |-> {"a", "b", "c"}, links |-> {<<"a", "b">>, <<"b", "c">>, <<"c", "a">>}],
   [nodes |-> Known, links |-> Ring],
   [nodes |-> Known, links |-> ShortCut],
   [nodes |-> Known, links |-> ShortCut \union {<<"e", "a">>}]}
=============================================================================

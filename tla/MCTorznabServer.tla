---------------------------- MODULE MCTorznabServer ---------------------------
(***************************************************************************)
(* Three definitions for TLC: "a" is built in, under the title "A", and    *)
(* there is an older file of it; "b" is a file and titled like it; "bad"   *)
(* is a file that cannot be parsed, and there in one of two cases.         *)
(***************************************************************************)
EXTENDS TorznabServer

File(title, time) == [title |-> title, parses |-> TRUE, time |-> time]

Local == [a |-> File("A", 1), b |-> File("b", 2)]
Home == [b |-> File("b", 3)]

MCNames == <<"a", "b", "bad">>
MCFileSystems ==
    {<<Local, Home>>, <<Local, Home @@ [bad |-> [File("bad", 1) EXCEPT !.parses = FALSE]]>>}
MCAssets == [a |-> [title |-> "A", parses |-> TRUE]]
MCPadded == (" b" :> "b")
MCStartups == {<<"b">>, <<"all">>}
MCEarlier == {"b"}
MCIds == {<<"">>, <<"x">>, <<"aggregate">>, <<"a">>, <<" b", "x">>}

HandlerSymmetry == Permutations(Handlers)
===============================================================================

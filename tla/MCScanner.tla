------------------------------ MODULE MCScanner ------------------------------
(***************************************************************************)
(* Sources put together from pieces: words, beginnings of words, marks,    *)
(* quotes and spaces in every order.                                       *)
(***************************************************************************)
EXTENDS Scanner

Pieces == {<<"t", "r", "u", "e">>, <<"t", "r", "u">>, <<"f", "a", "l", "s", "e">>,
           <<"7">>, <<"x">>, <<"_">>, <<"quote">>, <<",">>, <<" ">>, <<"newline">>,
           <<"other">>}

Short == {a \o b : a \in Pieces \cup {<< >>}, b \in Pieces \cup {<< >>}}

MCSources == {a \o b : a \in Short, b \in Short}
=============================================================================

-------------------------- MODULE MCLanguageServer --------------------------
(* Small documents and change lists for LanguageServer. *)
EXTENDS LanguageServer, TLC

Whole(text) == [kind |-> "whole", from |-> 0, to |-> 0, text |-> text, small |-> FALSE]
Replace(from, to, text, small) ==
    [kind |-> "range", from |-> from, to |-> to, text |-> text, small |-> small]
Malformed == [kind |-> "malformed", from |-> 0, to |-> 0, text |-> <<>>, small |-> FALSE]

OneBad == <<"bad">>
BadGood == <<"bad", "good">>

OneText == {OneBad}
SomeTexts == {OneBad, BadGood}
SomeChanges == {<<Whole(BadGood)>>,
                <<Replace(0, 1, <<"good">>, TRUE)>>,
                <<Replace(0, 1, <<"bad">>, TRUE), Malformed>>,
                <<Replace(0, 0, <<"bad">>, FALSE), Replace(1, 2, <<"good">>, TRUE)>>}

(* Changes that fit the text of whoever sends them. *)
PoliteChanges == {<<Whole(BadGood)>>,
                  <<Replace(0, 1, <<"good">>, TRUE)>>,
                  <<Replace(0, 1, <<>>, FALSE), Replace(0, 0, <<"bad">>, FALSE)>>}
Symmetry == Permutations(Paths)
=============================================================================

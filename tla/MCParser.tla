------------------------------ MODULE MCParser ------------------------------
(* Texts for Parser: beginnings and the tokens they may continue with, and  *)
(* the equations of Desugar with their fragments.                           *)
EXTENDS Desugar, Format
CONSTANT M
D(beginning, alphabet, more) ==
    [beginning |-> beginning, alphabet |-> alphabet, length |-> Len(beginning) + more]
Function == <<"fn", "lower", "(", ")", "=">>
Operands  == {<<"lower">>, <<"integer">>, <<"(", "string", "+", "lower", ")">>,
              <<"{", "integer", "|", "lower", ";", "}">>}
Functions == {<<"lower">>, <<"upper", "::", "lower">>, <<"(", "lower", ".", "lower", ")">>}
Patterns  == {<<"_">>, <<"mut", "lower">>, <<"(", "lower", ",", "integer", ")">>}
Blocks    == {<<"{", "}">>, <<"{", "if", "lower", "{", "}", "}">>}
(* Every form, each in every place where a form may stand. *)
Forms == {<<"lower">>, <<"whole">>, <<"huge">>, <<"tiny", "*", "fraction">>, <<"string", "string">>,
          <<"integer", ".", "lower">>, <<"huge", ".", "integer", ".", "[", "whole", "]">>,
          <<"match", "lower", "{", "huge", "->", "tiny", "}">>, <<"{", "lower", ";", "lower", "}">>,
          <<"&", "mut", "lower">>, <<"&", "mut", "?", "lower", "lower">>, <<"*", "lower">>,
          <<"::", "lower", "[", "&", "upper", ",", "_", ",", "mut", "]">>,
          <<"lower", ":", "[", "upper", ";", "integer", "]", "::", "upper">>, <<"@", "lower">>,
          <<"(", "lower", ",", "(", ")", ")">>, <<"[", "lower", ",", "lower", "]">>,
          <<"lower", ".", "lower", "[", "upper", "]", "(", "lower", ")", ".", "integer">>,
          <<"lower", ".", "[", "lower", "]", ".", "lower">>, <<"lower", ".", "large">>,
          <<"lower", ":", "fn", "(", "upper", ")", ":", "*", "immut", "upper">>,
          <<"lower", "|", "lower", "(", ")">>, <<"sizeof", "(", "[", "upper", "]", ")">>,
          <<"match", "lower", "{", "(", "mut", "lower", ",", "_", ")", "if", "lower", "->", "lower",
            ";", "upper", "{", "lower", "=", "upper", ",", "lower", "}", "->", "string", "}">>,
          <<"let", "[", "lower", "]", ",", "upper", "(", "lower", ")", ":", "impl", "upper", "+",
            "upper", "=", "lower">>,
          <<"if", "lower", "{", "}", "else", "if", "lower", "{", "}">>,
          <<"for", "lower", "in", "lower", "{", "continue", "}">>, <<"defer", "lower">>,
          <<"while", "lower", "{", "break", "lower", "}">>, <<"loop", "{", "ret", "}">>,
          <<"alias", "upper", "=", "typeof", "(", "lower", ")">>,
          <<"upper", "{", "lower", "=", "lower", ",", "lower", "}">>}
Places(form) == {form, <<"&">> \o form, <<"*">> \o form, <<"(">> \o form \o <<")">>,
                 <<"lower", "+">> \o form \o <<"*">> \o form,
                 <<"{">> \o form \o <<";">> \o form \o <<"}">>,
                 <<"match", "lower", "{", "_", "->">> \o form \o <<"_", "->", "lower", ";", "}">>,
                 <<"if">> \o form \o <<"{">> \o form \o <<"}", "else", "{", "}">>,
                 <<"ret">> \o form, <<"let", "_", "=">> \o form,
                 <<"upper", "{", "lower", "=">> \o form \o <<",", "lower", "}">>}
Declarations ==
    {<<"fn", "lower", "[", "upper", ":", "upper", "+", "upper", "=", "upper", ",", "lower", ":", "mut",
       "=", "mut", ",", "lower", ":", "upper", "=", "_", "]", "(", "mut", "lower", ":", "&",
       "upper", "=", "lower", ",", "_", ")", ":", "(", ")", "{", "}">>,
     <<"struct", "upper", "[", "upper", "]", "(", "upper", ",", "upper", ")">>,
     <<"enum", "upper", "[", "upper", "]", "=", "upper", "|", "upper", "{", "lower", ":", "upper", "}",
       "|", "upper", "(", "upper", ")">>,
     <<"concept", "upper", "[", "upper", "]", "{", "fn", "lower", "(", ")", "alias", "upper", "[", "upper",
       "]", ":", "upper", "+", "upper", "}">>,
     <<"module", "lower", "{", "alias", "upper", "[", "upper", "]", "=", "upper", "::", "upper", "}">>}
Samples == {D(tokens, {"lower"}, 0) :
              tokens \in UNION {{Function \o place : place \in Places(form)} : form \in Forms}
                         \cup Declarations}
AllDocuments ==
    {D(Function, {"lower", "*", "+", "|"}, M + 1),
     D(Function, {"lower", "upper", "[", "]", "(", ")", "::"}, M - 1),
     D(Function \o <<"upper", "{">>, {"lower", "}", ",", "="}, M),
     D(Function \o <<"lower", ".">>, {"lower", ".", "integer", "overflow", "[", "]", "("}, M - 1),
     D(Function \o <<"{">>, {"lower", ";", "}", "let", "=", "overflow"}, M - 1),
     D(Function \o <<"if">>, {"if", "else", "lower", "{", "}"}, M),
     D(Function \o <<"match", "lower", "{">>, {"lower", "}", "->", ",", ";"}, M),
     D(<<"fn", "lower">>, {"(", ")", "[", "]", "upper", ":", "=", "mut"}, M - 1),
     D(<<"concept", "upper", "{">>, {"fn", "alias", "lower", "upper", "(", ")", "}"}, M),
     D(<<"impl", "upper", "{">>, {"[", "lower", ":", "upper", "]", "}", "fn", "module"}, M - 1),
     D(<<"enum", "upper", "=">>, {"upper", "|", "(", "{", ")", "}", "lower", ":"}, M - 1),
     D(<<>>, TokenTypes, 2), D(Function, TokenTypes, 2),
     D(Function \o <<"lower", "[">>, TokenTypes, 2),
     D(Function \o <<"lower", ":">>, TokenTypes, 2),
     D(Function \o <<"let">>, TokenTypes, 2)}
    \cup Samples \cup {Document(e) : e \in Equations(Operands, Functions, Patterns, Blocks)}
=============================================================================

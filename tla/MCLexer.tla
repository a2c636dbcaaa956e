------------------------------- MODULE MCLexer -------------------------------
(* Every text of a few characters for Lexer, and longer ones of the        *)
(* characters that comments, strings and numbers are made of.              *)
EXTENDS Lexer
CONSTANTS MaxLength, MaxLong
Long(alphabet) == UNION {[1 .. n -> alphabet] : n \in 0 .. MaxLong}
ShortTexts == UNION {[1 .. n -> Characters] : n \in 0 .. MaxLength}
LongTexts == Long({"slash", "star", "letter"})
             \cup Long({"quote", "backslash", "newline"})
             \cup Long({"letter", "dot", "digit"})
AllTexts == ShortTexts \cup LongTexts
=============================================================================

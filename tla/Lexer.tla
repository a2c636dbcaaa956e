-------------------------------- MODULE Lexer --------------------------------
(***************************************************************************)
(* The lexer of liblex/lex.cpp.  Lex calls `next' until the end of input;  *)
(* one step here is one turn of the loop that the lexer is in, so that the *)
(* offset and the position, which the code advances together character by  *)
(* character, can be compared at every point.                              *)
(*                                                                         *)
(* A text is a sequence of character classes, a class for each distinction *)
(* that the predicates of lex.cpp make.  Keywords are names, and the types *)
(* of punctuation are those of operators: find_token only tells them apart *)
(* after the token has ended.                                              *)
(***************************************************************************)
EXTENDS Integers, Sequences, FiniteSets

CONSTANTS Characters,  \* the classes that occur
          Texts        \* the documents

Whitespace == {"newline", "space"}
NameHead   == {"letter"}
Name       == NameHead \cup {"digit", "tick"}
Operator   == {"slash", "star", "dot", "tick", "backslash", "sign"}
Simple     == {"bracket", "semicolon"}
BugValid   == Name \cup Operator \cup Whitespace \cup {"bracket", "quote", "invalid"}
Valid      == Name \cup Operator \cup Whitespace \cup {"bracket", "quote"}
ASSUME CharactersAssumption ==
    Characters \subseteq Valid \cup Simple \cup {"invalid"}
ASSUME TextsAssumption == Texts \subseteq Seq(Characters)

VARIABLES text,
          offset, position,  \* lex::State
          mode,              \* the loop that the lexer is in
          depth,             \* skip_block_comment: how many comments are open
          start,             \* next: where the token began
          tokens             \* what next has returned

vars == <<text, offset, position, mode, depth, start, tokens>>

Origin == [line |-> 0, column |-> 0]
Init ==
    /\ text \in Texts
    /\ offset = 0 /\ position = Origin
    /\ mode = "blank" /\ depth = 0
    /\ start = [offset |-> 0, position |-> Origin]
    /\ tokens = <<>>
-----------------------------------------------------------------------------
Finished == offset = Len(text)
At(i)    == IF i < Len(text) THEN text[i + 1] ELSE "end"
current  == At(offset)
Ahead(a, b) == At(offset) = a /\ At(offset + 1) = b

(* lsp::advance, and the loop of the lexer's own advance. *)
BugForward(p, character) ==
    IF character = "newline" THEN [line |-> p.line + 1, column |-> p.column]
    ELSE [line |-> p.line, column |-> p.column + 1]
Forward(p, character) ==
    IF character = "newline" THEN [line |-> p.line + 1, column |-> 0]
    ELSE [line |-> p.line, column |-> p.column + 1]
AdvanceOne ==
    /\ offset' = offset + 1
    /\ position' = Forward(position, current)
AdvanceTwo ==
    /\ offset' = offset + 2
    /\ position' = Forward(Forward(position, current), At(offset + 1))
Stay == UNCHANGED <<offset, position>>

(* skip_comments_and_whitespace *)
Blank ==
    /\ mode = "blank" /\ current \in Whitespace
    /\ AdvanceOne
    /\ UNCHANGED <<text, mode, depth, start, tokens>>
BeginLineComment ==
    /\ mode = "blank" /\ Ahead("slash", "slash")
    /\ AdvanceTwo
    /\ mode' = "line comment"
    /\ UNCHANGED <<text, depth, start, tokens>>
LineComment ==
    /\ mode = "line comment"
    /\ IF Finished \/ current = "newline" THEN mode' = "blank" /\ Stay
       ELSE AdvanceOne /\ UNCHANGED mode
    /\ UNCHANGED <<text, depth, start, tokens>>
BeginBlockComment ==
    /\ mode = "blank" /\ Ahead("slash", "star")
    /\ AdvanceTwo
    /\ mode' = "block comment" /\ depth' = 1
    /\ UNCHANGED <<text, start, tokens>>

(* skip_block_comment.  A comment that does not end returns an error that  *)
(* next discards: the input ends there, and nothing is said.               *)
CloseComment ==
    /\ mode = "block comment" /\ Ahead("star", "slash")
    /\ AdvanceTwo
    /\ depth' = depth - 1
    /\ mode' = IF depth = 1 THEN "blank" ELSE mode
    /\ UNCHANGED <<text, start, tokens>>
OpenComment ==
    /\ mode = "block comment" /\ Ahead("slash", "star")
    /\ AdvanceTwo
    /\ depth' = depth + 1
    /\ UNCHANGED <<text, mode, start, tokens>>
BugBlockCommentAtEnd ==
    /\ mode = "block comment" /\ ~Ahead("star", "slash") /\ ~Ahead("slash", "star")
    /\ ~Finished /\ AdvanceOne
    /\ UNCHANGED <<text, mode, depth, start, tokens>>
BlockComment ==
    /\ mode = "block comment" /\ ~Ahead("star", "slash") /\ ~Ahead("slash", "star")
    /\ IF Finished THEN mode' = "blank" /\ depth' = 0 /\ Stay
       ELSE AdvanceOne /\ UNCHANGED <<mode, depth>>
    /\ UNCHANGED <<text, start, tokens>>
-----------------------------------------------------------------------------
(* next, once the blanks are skipped. *)
Token(type, from, stop) ==
    [type |-> type, offset |-> from.offset, length |-> stop.offset - from.offset,
     start |-> from.position, stop |-> stop.position]
Here  == [offset |-> offset, position |-> position]
AtToken == mode = "blank" /\ current \notin Whitespace
           /\ ~Ahead("slash", "slash") /\ ~Ahead("slash", "star")

EndOfInput ==
    /\ AtToken /\ Finished
    /\ tokens' = Append(tokens, Token("end of input", Here, Here))
    /\ mode' = "done"
    /\ UNCHANGED <<text, offset, position, depth, start>>

(* extract_token: the characters that are tokens, and those that begin one. *)
SimpleToken ==
    /\ AtToken /\ current \in Simple
    /\ AdvanceOne
    /\ tokens' = Append(tokens, Token(current, Here, Here'))
    /\ UNCHANGED <<text, mode, depth, start>>
Kind ==
    CASE current = "quote" -> "string"
      [] current \in NameHead -> "name"
      [] current \in Operator -> "operator"
      [] current = "digit" -> "integer"
      [] OTHER -> "invalid"
BeginToken ==
    /\ AtToken /\ ~Finished /\ current \notin Simple
    /\ mode' = Kind
    /\ start' = Here
    /\ IF current = "quote" THEN AdvanceOne ELSE Stay
    /\ UNCHANGED <<text, depth, tokens>>

Return(type) ==
    /\ tokens' = Append(tokens, Token(type, start, Here'))
    /\ mode' = "blank"

(* The predicates of extract_name, extract_operator, extract_numeric and   *)
(* of the invalid characters.  A semicolon is not a valid character.       *)
Consumed ==
    CASE mode \in {"name", "integer", "floating"} -> Name
      [] mode = "operator" -> Operator
      [] OTHER -> Characters \ Valid
Consume ==
    /\ mode \in {"name", "integer", "floating", "operator", "invalid"}
    /\ ~Finished /\ current \in Consumed
    /\ AdvanceOne
    /\ UNCHANGED <<text, mode, depth, start, tokens>>

(* extract_numeric: a dot belongs to a number unless it follows one. *)
HasPrecedingDot == start.offset # 0 /\ At(start.offset - 1) = "dot"
IsFraction == mode = "integer" /\ current = "dot" /\ ~HasPrecedingDot
Fraction ==
    /\ IsFraction
    /\ AdvanceOne
    /\ mode' = "floating"
    /\ UNCHANGED <<text, depth, start, tokens>>
EndToken ==
    /\ mode \in {"name", "integer", "floating", "operator", "invalid"}
    /\ current \notin Consumed /\ ~IsFraction
    /\ Stay /\ Return(mode)
    /\ UNCHANGED <<text, depth, start>>

(* extract_string_literal: what follows a backslash is taken unseen. *)
BugEscape ==
    /\ mode = "string" /\ current = "backslash"
    /\ AdvanceOne /\ UNCHANGED <<mode, tokens>>
    /\ UNCHANGED <<text, depth, start>>
Escape ==
    /\ mode = "string" /\ current = "backslash"
    /\ IF offset + 1 = Len(text) THEN AdvanceOne /\ Return("unterminated string")
       ELSE AdvanceTwo /\ UNCHANGED <<mode, tokens>>
    /\ UNCHANGED <<text, depth, start>>
StringCharacter ==
    /\ mode = "string" /\ ~Finished /\ current \notin {"newline", "quote", "backslash"}
    /\ AdvanceOne
    /\ UNCHANGED <<text, mode, depth, start, tokens>>
EndString ==
    /\ mode = "string" /\ current = "quote"
    /\ AdvanceOne /\ Return("string")
    /\ UNCHANGED <<text, depth, start>>
UnterminatedString ==
    /\ mode = "string" /\ (Finished \/ current = "newline")
    /\ Stay /\ Return("unterminated string")
    /\ UNCHANGED <<text, depth, start>>

Next ==
    \/ Blank \/ BeginLineComment \/ LineComment
    \/ BeginBlockComment \/ CloseComment \/ OpenComment \/ BlockComment
    \/ EndOfInput \/ SimpleToken \/ BeginToken \/ Consume \/ Fraction \/ EndToken
    \/ Escape \/ StringCharacter \/ EndString \/ UnterminatedString

(* The lexer is one function call: it keeps running. *)
Spec == Init /\ [][Next]_vars /\ WF_vars(Next)
-----------------------------------------------------------------------------
Modes == {"blank", "line comment", "block comment", "name", "integer", "floating",
          "operator", "invalid", "string", "done"}
Types == {"name", "integer", "floating", "operator", "invalid", "string",
          "unterminated string", "end of input"} \cup Simple
Position == [line : Nat, column : Nat]
TypeOK ==
    /\ text \in Seq(Characters)
    /\ offset \in 0 .. Len(text)
    /\ position \in Position
    /\ mode \in Modes
    /\ depth \in Nat /\ (depth > 0 <=> mode = "block comment")
    /\ start \in [offset : 0 .. Len(text), position : Position]
    /\ tokens \in Seq([type : Types, offset : Nat, length : Nat,
                       start : Position, stop : Position])

(* Tokens follow each other in the text without overlapping, each has at   *)
(* least one character, and none reaches past what has been read: a later  *)
(* token can neither repeat nor reorder a part of the text.                *)
Stop(k) == tokens[k].offset + tokens[k].length
InToken == mode \in {"name", "integer", "floating", "operator", "invalid", "string"}
TokensAreDisjoint ==
    /\ \A k \in DOMAIN tokens :
          /\ Stop(k) <= offset
          /\ tokens[k].type # "end of input" => tokens[k].length > 0
          /\ \A j \in 1 .. k - 1 : Stop(j) <= tokens[k].offset
    /\ InToken => /\ start.offset <= offset
                  /\ \A k \in DOMAIN tokens : Stop(k) <= start.offset

(* Positions and offsets, advanced in parallel, name the same place.       *)
Newlines(i)   == {j \in 1 .. i : text[j] = "newline"}
LineStart(i)  == IF Newlines(i) = {} THEN 0
                 ELSE CHOOSE j \in Newlines(i) : \A k \in Newlines(i) : k <= j
PositionOf(i) == [line |-> Cardinality(Newlines(i)), column |-> i - LineStart(i)]
PositionsAgree ==
    /\ position = PositionOf(offset)
    /\ \A k \in DOMAIN tokens : /\ tokens[k].start = PositionOf(tokens[k].offset)
                                /\ tokens[k].stop = PositionOf(Stop(k))

(* Between two tokens stand blanks and whole comments only, nested as      *)
(* their brackets say; after the last one a comment may also be open.      *)
CommentEnd[i \in 0 .. Len(text)] == [d \in Nat |->
    IF d = 0 \/ i = Len(text) THEN i
    ELSE CASE At(i) = "star" /\ At(i + 1) = "slash" -> CommentEnd[i + 2][d - 1]
           [] At(i) = "slash" /\ At(i + 1) = "star" -> CommentEnd[i + 2][d + 1]
           [] OTHER -> CommentEnd[i + 1][d]]
LineEnd(i) == CHOOSE e \in i .. Len(text) :
                 /\ At(e) \in {"newline", "end"}
                 /\ \A j \in i .. e - 1 : At(j) # "newline"
BlankEnd[i \in 0 .. Len(text)] ==
    CASE At(i) \in Whitespace -> BlankEnd[i + 1]
      [] At(i) = "slash" /\ At(i + 1) = "slash" -> BlankEnd[LineEnd(i)]
      [] At(i) = "slash" /\ At(i + 1) = "star" -> BlankEnd[CommentEnd[i + 2][1]]
      [] OTHER -> i
GapsAreBlank ==
    mode = "done" => \A k \in DOMAIN tokens :
        tokens[k].offset = BlankEnd[IF k = 1 THEN 0 ELSE Stop(k - 1)]

(* Tokens end where they should: two that touch are not one, and a string  *)
(* literal ends at its first quote that no backslash escapes, the          *)
(* backslashes being read in pairs.                                        *)
Touch(k) == Stop(k) = tokens[k + 1].offset
Words == {"name", "integer", "floating"}
Backslashes(i) == CHOOSE n \in 0 .. i : /\ \A j \in 1 .. n : At(i - j) = "backslash"
                                        /\ n < i => At(i - n - 1) # "backslash"
Escaped(i) == Backslashes(i) % 2 = 1
TokensEndWhereTheyShould ==
    /\ \A k \in 1 .. Len(tokens) - 1 : Touch(k) =>
          LET left == tokens[k].type right == tokens[k + 1].type IN
          /\ ~(left \in Words /\ right \in Words)
          /\ ~(left = right /\ left \in {"operator", "invalid"})
    /\ \A k \in DOMAIN tokens : tokens[k].type = "string" =>
          LET last == Stop(k) - 1 IN
          /\ At(tokens[k].offset) = "quote"
          /\ last > tokens[k].offset /\ At(last) = "quote" /\ ~Escaped(last)
          /\ \A i \in tokens[k].offset + 1 .. last - 1 :
                At(i) \in {"quote", "newline"} => Escaped(i)

(* The text is its tokens and what separates them: none is cut short, none  *)
(* reaches into the next, and nothing but white space and comments, nested  *)
(* ones and those without an end included, lies between two.                *)
TokensFollowText == GapsAreBlank /\ TokensEndWhereTheyShould

(* Every text is read to its end, and then nothing more is.                *)
LexingEnds == <>(mode = "done" /\ Finished)

(* add_semantic_token, which is given the ranges of tokens, asserts that   *)
(* they do not span lines.                                                 *)
TokensStayOnTheirLine == \A k \in DOMAIN tokens : tokens[k].start.line = tokens[k].stop.line
=============================================================================

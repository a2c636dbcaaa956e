------------------------------- MODULE Format -------------------------------
(***************************************************************************)
(* libformat: the text that a definition is printed as.  A text is the     *)
(* sequence of its tokens, with " " wherever a space or a line break       *)
(* stands; how wide a space is, where lines break and how far they are     *)
(* indented is left out.                                                   *)
(***************************************************************************)
EXTENDS Parser
S == INSTANCE SequencesExt

RECURSIVE Format(_)
Formats(nodes) == S!FlattenSeq([i \in DOMAIN nodes |-> Format(nodes[i])])
(* format_separated *)
Delimited(nodes, delimiter) ==
    S!FlattenSeq([i \in DOMAIN nodes |->
                    (IF i = 1 THEN <<>> ELSE delimiter) \o Format(nodes[i])])
CommaSeparated(nodes) == Delimited(nodes, <<",", " ">>)
Concepts(list)        == Delimited(list.kids, <<" ", "+", " ">>)
Parenthesized(nodes)  == <<"(">> \o CommaSeparated(nodes) \o <<")">>
Bracketed(nodes)      == <<"[">> \o CommaSeparated(nodes) \o <<"]">>
Braced(nodes)         == <<" ", "{", " ">> \o CommaSeparated(nodes) \o <<" ", "}">>
Spaced(keyword, node) == <<keyword, " ">> \o Format(node)
FormatEquals(nodes)   == IF nodes = <<>> THEN <<>> ELSE <<" ", "=", " ">> \o Format(nodes[1])

(* format_indented_block_body: a line for each expression. *)
Lines(nodes) ==
    <<"{">> \o S!FlattenSeq([i \in DOMAIN nodes |-> <<" ">> \o Format(nodes[i])]) \o <<" ", "}">>
RegularBlock(kids) == IF kids = <<>> THEN <<"{", "}">> ELSE Lines(kids)

(* The mutability before what it applies to, with a space between them. *)
WithWhitespace(kids) ==
    IF Len(kids) = 2 THEN Format(kids[1]) \o <<" ">> \o Format(kids[2]) ELSE Format(kids[1])

(* A fields or a tuple constructor, of a pattern or of a declaration. *)
ConstructorText(lists) ==
    CASE lists = <<>> -> <<>>
      [] lists # <<>> /\ lists[1].kids[1].kind = "Field" -> Braced(lists[1].kids)
      [] OTHER -> Parenthesized(lists[1].kids)

(* The first segment has a `::' before it if the root is a type or global. *)
PathText(kids) ==
    S!FlattenSeq([i \in DOMAIN kids |->
        CASE kids[i].kind = "Global"           -> <<>>
          [] i > 1 /\ kids[i].kind = "Segment" -> <<"::">> \o Format(kids[i])
          [] OTHER                             -> Format(kids[i])])

BugReference(kids) == <<"&">> \o Formats(kids)
(* The operand of `&', and a reference type.                                  *)
Reference(kids) == <<"&">> \o WithWhitespace(kids)
FormatConditional(kids) ==
    <<"if", " ">> \o Format(kids[1]) \o <<" ">> \o Lines(kids[2].kids)
    \o IF Len(kids) = 2 THEN <<>>
       ELSE <<" ", "else", " ">> \o IF kids[3].kind = "Block" THEN Lines(kids[3].kids)
                                    ELSE Format(kids[3])
FormatExpression(kind, kids) ==
    LET first == Format(kids[1])
        last  == Format(Last(kids))
    IN CASE kind \in {"Paren", "Tuple"} -> Parenthesized(kids)
         [] kind = "Array"       -> Bracketed(kids)
         [] kind = "Block"       -> RegularBlock(kids)
         [] kind = "Effect"      -> first \o <<";">>
         [] kind = "String"      -> <<"string">>
         [] kind = "Builtin"     -> <<"@">> \o first
         [] kind = "Infix_call"  -> first \o <<" ">> \o Format(kids[2]) \o <<" ">> \o last
         [] kind = "Pipe"        -> first \o <<" ", "|", " ">> \o last
         [] kind = "Function_call" -> first \o Parenthesized(kids[2].kids)
         [] kind = "Struct_init" -> first \o Braced(Tail(kids))
         [] kind = "Field_init"  -> first \o FormatEquals(Tail(kids))
         [] kind = "Method_call" ->
                first \o <<".">> \o Format(kids[2])
                \o (IF Len(kids) = 4 THEN Bracketed(kids[3].kids) ELSE <<>>)
                \o Parenthesized(Last(kids).kids)
         [] kind \in {"Struct_field", "Tuple_field"} -> first \o <<".">> \o last
         [] kind = "Array_index" -> first \o <<".", "[">> \o last \o <<"]">>
         [] kind = "Match"       -> Spaced("match", kids[1]) \o <<" ">> \o Lines(kids[2].kids)
         [] kind = "Match_arm"   ->
                first \o <<" ", "->", " ">> \o Format(kids[2])
                \o IF Len(kids) = 3 THEN <<";">> ELSE <<>>
         [] kind = "Sizeof"      -> <<"sizeof">> \o Parenthesized(kids)
         [] kind = "Type_alias"  -> Spaced("alias", kids[1]) \o FormatEquals(Tail(kids))
         [] kind = "Let"         ->
                <<"let", " ">> \o Formats(SubSeq(kids, 1, Len(kids) - 1))
                \o FormatEquals(<<Last(kids)>>)
         [] kind = "Addressof"   -> Reference(kids)
         [] kind = "Deref"       -> <<"*">> \o first
         [] kind = "Ascription"  -> first \o <<":", " ">> \o last
         [] kind = "Loop"        -> Spaced("loop", kids[1])
         [] kind = "While_loop"  -> Spaced("while", kids[1]) \o <<" ">> \o last
         [] kind = "For_loop"    -> Spaced("for", kids[1]) \o <<" ">> \o Spaced("in", kids[2])
                                    \o <<" ">> \o last
         [] kind = "Conditional" -> FormatConditional(kids)
         [] kind = "Defer"       -> Spaced("defer", kids[1])
         [] kind = "Continue"    -> <<"continue">>
         [] kind \in {"Return", "Break"} ->
                LET keyword == IF kind = "Return" THEN "ret" ELSE "break"
                IN  IF kids = <<>> THEN <<keyword>> ELSE Spaced(keyword, kids[1])

FormatPattern(kind, kids) ==
    CASE kind = "Name"            -> WithWhitespace(kids)
      [] kind = "Slice"           -> Bracketed(kids)
      [] kind = "Top_level_tuple" -> CommaSeparated(kids)
      [] kind = "Guarded"         -> Format(kids[1]) \o <<" ">> \o Spaced("if", kids[2])
      [] kind = "Constructor"     -> Format(kids[1]) \o ConstructorText(Tail(kids))
      [] kind = "Field"           ->
            Format(kids[1]) \o IF Len(kids) = 2 /\ kids[2].kind = "Type_annotation"
                               THEN Format(kids[2]) ELSE FormatEquals(Tail(kids))

FormatType(kind, kids) ==
    CASE kind = "Reference" -> Reference(kids)
      [] kind = "Pointer"   -> <<"*">> \o WithWhitespace(kids)
      [] kind = "Function"  -> <<"fn">> \o Parenthesized(kids[1].kids) \o Format(kids[2])
      [] kind = "Array_or_slice" -> <<"[">> \o Delimited(kids, <<";", " ">>) \o <<"]">>
      [] kind = "Typeof"    -> <<"typeof">> \o Parenthesized(kids)
      [] kind = "Impl"      -> <<"impl", " ">> \o Concepts(kids[1])

TemplateParameterText(kind, kids) ==
    Format(kids[1]) \o
    CASE kind = "Template_type_parameter" /\ Len(kids) > 1 ->
            <<":", " ">> \o Concepts(kids[2]) \o Formats(SubSeq(kids, 3, Len(kids)))
      [] kind = "Template_value_parameter" ->
            <<":", " ">> \o Format(kids[2]) \o Formats(SubSeq(kids, 3, Len(kids)))
      [] kind = "Template_mutability_parameter" ->
            <<":", " ", "mut">> \o Formats(Tail(kids))
      [] OTHER -> <<>>
FormatCommon(kind, kids) ==
    CASE kind = "Path"            -> PathText(kids)
      [] kind = "Segment"         ->
            Format(kids[1]) \o IF Len(kids) = 2 THEN Bracketed(kids[2].kids) ELSE <<>>
      [] kind = "Mut"             ->
            <<"mut">> \o IF kids = <<>> THEN <<>> ELSE <<"?">> \o Format(kids[1])
      [] kind = "Immut"           -> <<"immut">>
      [] kind = "Type_annotation" -> <<":", " ">> \o Format(kids[1])
      [] kind = "Default"         -> FormatEquals(kids)
      [] kind = "Function_parameter" -> Formats(kids)

(* Template parameters are in brackets, the parameters of a function in      *)
(* parentheses.                                                              *)
IsTemplateList(node) ==
    /\ node.kind = "List" /\ node.kids # <<>>
    /\ node.kids[1].kind \in {"Template_type_parameter", "Template_value_parameter",
                              "Template_mutability_parameter"}
TemplateText(node) == IF IsTemplateList(node) THEN Bracketed(node.kids) ELSE <<>>
Templates(kids)    == IF Len(kids) > 1 THEN TemplateText(kids[2]) ELSE <<>>
FormatFunctionSignature(kids) ==
    Spaced("fn", kids[1])
    \o S!FlattenSeq([i \in 1 .. Len(kids) - 1 |->
          CASE IsTemplateList(kids[i + 1])     -> Bracketed(kids[i + 1].kids)
            [] kids[i + 1].kind = "List" /\ ~IsTemplateList(kids[i + 1]) ->
                                                  Parenthesized(kids[i + 1].kids)
            [] OTHER                           -> Format(kids[i + 1])])
FormatTypeSignature(kids) ==
    Spaced("alias", kids[1]) \o Templates(kids)
    \o IF Len(kids) > 1 /\ ~IsTemplateList(Last(kids))
       THEN <<":", " ">> \o Concepts(Last(kids)) ELSE <<>>
(* The first constructor, and a line for each of the others. *)
FormatConstructors(list) == Delimited(list.kids, <<" ", "|", " ">>)
DeclaredText(kids) ==
    LET lists == SelectSeq(Tail(kids), LAMBDA kid : ~IsTemplateList(kid))
    IN  ConstructorText(lists)
Required(kids) ==
    Lines(SelectSeq(Tail(kids), LAMBDA kid : kid.kind # "List"))
FormatDefinition(kind, kids) ==
    CASE kind = "fn"      -> Format(kids[1]) \o
                             IF Len(kids) = 3 THEN FormatEquals(<<kids[3]>>)
                             ELSE <<" ">> \o Format(kids[2])
      [] kind = "struct"  -> Spaced("struct", kids[1]) \o Templates(kids) \o DeclaredText(kids)
      [] kind = "enum"    -> Spaced("enum", kids[1]) \o Templates(kids) \o <<" ", "=", " ">>
                             \o FormatConstructors(Last(kids))
      [] kind = "concept" -> Spaced("concept", kids[1]) \o Templates(kids) \o <<" ">>
                             \o Required(kids)
      [] kind = "alias"   -> Spaced("alias", kids[1]) \o Templates(kids)
                             \o FormatEquals(<<Last(kids)>>)
      [] kind = "impl"    -> <<"impl">> \o Templates(kids) \o <<" ">> \o Format(kids[1])
                             \o <<" ", "{">>
      [] kind = "module"  -> Spaced("module", kids[1]) \o <<" ", "{">>
      [] kind = "Function_signature" -> FormatFunctionSignature(kids)
      [] kind = "Type_signature"     -> FormatTypeSignature(kids)

(* What the parser could not read, it left as an error: formatting it is      *)
(* still to be done, and ends the process.                                    *)
Leaves == TokenTypes \cup {"_"}
(* std::print gives a double its shortest form: no dot if it has no fraction, *)
(* and an exponent with a sign and two digits if that is shorter.  The lexer  *)
(* takes no sign into a number: 1e+05 is a word that is no number, a sign and *)
(* an integer.                                                                *)
Literal(token) ==
    CASE token = "whole" -> <<"integer">>
      [] token = "huge"  -> <<"overflow", "+", "integer">>
      [] token = "tiny"  -> <<"overflow", "-", "integer">>
      [] OTHER           -> <<token>>
Format(node) ==
    LET kind == node.kind
        kids == node.kids
    IN CASE kind = "Error" -> <<"todo">>
         [] kids = <<>> /\ kind \in Leaves -> Literal(kind)
         [] kids # <<>> /\ kind \in Definitions \cup {"Function_signature", "Type_signature"} ->
                FormatDefinition(kind, kids)
         [] kind \in {"Name", "Slice", "Top_level_tuple", "Guarded", "Constructor", "Field"} ->
                FormatPattern(kind, kids)
         [] kind \in {"Reference", "Pointer", "Function", "Array_or_slice", "Typeof", "Impl"} ->
                FormatType(kind, kids)
         [] kind \in {"Template_type_parameter", "Template_value_parameter",
                      "Template_mutability_parameter"} -> TemplateParameterText(kind, kids)
         [] kind \in {"Path", "Segment", "Mut", "Immut", "Type_annotation", "Default",
                      "Function_parameter"} -> FormatCommon(kind, kids)
         [] OTHER -> FormatExpression(kind, kids)
-----------------------------------------------------------------------------
(* What the lexer would read as one token if nothing stands between.  The    *)
(* number before a dot takes it in, unless it stands behind a dot itself.     *)
Signs == (Operators \cup {".", ":", "::", "=", "?", "->", "&", "|", "@"})
Words == Names \cup Keywords \cup (Literals \ {"string"}) \cup {"_"}
Integers == {"integer", "large"}
Together == (Signs \X Signs) \cup (Words \X Words)
IsPrefixed(printed, i) ==
    printed[i] \in {"&", "*"} /\ <<printed[i], printed[i + 1]>> \in Signs \X Signs
TakesDot(printed, i) ==
    printed[i] \in Integers /\ printed[i + 1] = "." /\ printed[i - 1] # "."
RunsTogether(printed) ==
    {i \in 2 .. Len(printed) - 1 :
        <<printed[i], printed[i + 1]>> \in Together \/ TakesDot(printed, i)}
SpacesDropped(tokens) == SelectSeq(tokens, LAMBDA token : token # " ")
(* The literals that are not printed as they were read: strings beside each   *)
(* other are one, 1.0 is the integer 1, and a number with an exponent is      *)
(* three tokens that no expression has.                                       *)
Changed == [whole |-> <<"integer">>, huge |-> <<"overflow", "+", "integer">>,
            tiny  |-> <<"overflow", "-", "integer">>]
Rewritten(tokens) ==
    LET again == {i \in 2 .. Len(tokens) : tokens[i - 1] = "string" /\ tokens[i] = "string"}
    IN  S!FlattenSeq([i \in DOMAIN tokens |->
                        CASE i \in again                  -> <<>>
                          [] tokens[i] \in DOMAIN Changed -> Changed[tokens[i]]
                          [] OTHER                        -> <<tokens[i]>>])
IndexIsLarge(tokens) ==
    \E i \in 2 .. Len(tokens) : tokens[i - 1] = "." /\ tokens[i] = "large"

(* A definition that was read without an error is printed as the tokens it   *)
(* was read from, whatever forms are nested in it: nothing is dropped or      *)
(* moved, nothing but what Rewritten says is made up, and no two words run    *)
(* together, nor two signs.  The exceptions are all of them: a number with an *)
(* exponent is made up of what is no number; a prefix runs together with a    *)
(* sign behind it, and a number with the dot of its own member; the template  *)
(* parameters of an impl block are printed where they are not read; and an    *)
(* index that is too large ends the process.                                  *)
FormattingKeepsTokens ==
    Is("visit") /\ (\A i \in DOMAIN diagnostics : diagnostics[i] \notin start + 1 .. at) =>
        LET tokens  == SubSeq(text, start + 1, at)
            printed == Format(Last(frame))
        IN  \/ IndexIsLarge(tokens) /\ \E i \in DOMAIN printed : printed[i] = "todo"
            \/ tokens[1] = "impl" /\ Len(Last(frame).kids) = 2
            \/ /\ SpacesDropped(printed) = Rewritten(tokens)
               /\ \A i \in RunsTogether(printed) :
                    IsPrefixed(printed, i) \/ TakesDot(printed, i)
=============================================================================

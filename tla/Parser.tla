------------------------------- MODULE Parser -------------------------------
(***************************************************************************)
(* The recursive-descent parser of libparse.  A call in progress is a list *)
(* of instructions that are still to do (`todo'); the body of a function   *)
(* is the list it begins with, given the next token.  A function returns a *)
(* node or nothing (std::nullopt), and the parser is correct only if those *)
(* that return nothing have left the text alone.  An error unwinds all the *)
(* calls, and parsing goes on at the next recovery point.                  *)
(*                                                                         *)
(* Tokens are fetched one at a time when the parser peeks, so the text is  *)
(* chosen as it is read.                                                   *)
(***************************************************************************)
EXTENDS Integers, Sequences

CONSTANT Documents  \* [beginning, alphabet, length] of the texts to parse

(* operators_tuple, and an operator that is in none of its rows. *)
operator_table == <<{":=", "+=", "*=", "/=", "%="}, {"&&", "||"},
                    {"<", "<=", ">=", ">"}, {"?=", "!="}, {"+", "-"}, {"*", "/", "%"}>>
Operators == UNION {operator_table[i] : i \in DOMAIN operator_table} \cup {"<$>"}
Keywords  == {"let", "mut", "immut", "if", "else", "for", "in", "while", "loop", "continue",
              "break", "match", "ret", "fn", "enum", "struct", "concept", "impl", "alias",
              "module", "sizeof", "typeof", "defer"}
Names     == {"lower", "upper"}
(* "large" is an integer that no index may be, above 2^16 - 1; "overflow" a  *)
(* number that has no value, too large or a word such as 1e.  Floating-point *)
(* numbers differ in how they are the shortest: "fraction" (1.5) has a dot,  *)
(* "whole" (1.0) needs none, "huge" (100000.0, 1e+05) and "tiny" (0.00001,   *)
(* 1e-05) have an exponent.                                                  *)
Floats    == {"fraction", "whole", "huge", "tiny"}
Literals  == {"integer", "large", "overflow", "boolean", "string"} \cup Floats
Marks     == {"(", ")", "[", "]", "{", "}", ".", ",", ":", ";", "::", "=", "?", "->", "&", "|",
              "@", "_"}
TokenTypes == Operators \cup Keywords \cup Names \cup Literals \cup Marks \cup {"invalid"}

ASSUME DocumentsAssumption ==
    \A d \in Documents : /\ d.beginning \in Seq(TokenTypes)
                         /\ d.alphabet \subseteq TokenTypes
                         /\ d.length \in Nat

VARIABLES document, text,  \* what is read, and how far it is known
          at,              \* how many tokens are consumed
          phase,           \* "parse", "skip" (to a recovery point), "done"
          todo,            \* the calls in progress
          result,          \* what the last call returned: "some" or "none"
          built,           \* the nodes of each node that is being built
          start,           \* where the definition begins
          definitions,     \* what the visitor was given
          depth,           \* Context::block_depth
          semantic,        \* Context::semantic_tokens
          head,            \* Context::previous_path_semantic_offset
          diagnostics      \* where errors were reported

vars == <<document, text, at, phase, todo, result, built, start, definitions, depth,
          semantic, head, diagnostics>>

Init ==
    /\ document \in Documents /\ text = document.beginning
    /\ at = 0 /\ phase = "parse" /\ start = 0
    /\ todo = <<>> /\ result = "none" /\ built = <<<<>>>>
    /\ definitions = <<>> /\ depth = 0
    /\ semantic = <<>> /\ head = 0 /\ diagnostics = <<>>
-----------------------------------------------------------------------------
(* Instructions.  `s' is the semantic type that the token gets, if any. *)
Open             == <<"open">>              \* begin a node
Wrap             == <<"wrap">>              \* begin a node with the last one in it
Close(kind)      == <<"close", kind>>
Call(f)          == <<"call", f, 0, FALSE>>
Need(f)          == <<"call", f, 0, TRUE>>  \* require
Inline(f)        == <<"inline", f>>         \* the body of a loop
Skip(s)          == <<"take", FALSE, s>>    \* extract
Leaf(s)          == <<"take", TRUE, s>>
Eat(type, s)     == <<"eat", type, FALSE, s>>  \* require_extract
Name(type, s)    == <<"eat", type, TRUE, s>>   \* extract_name
Then(list)       == <<"then", list>>        \* transform
Or(f)            == <<"or", f>>             \* or_else
If(type, a, b)   == <<"if", type, a, b>>    \* try_extract
When(type, list) == If(type, list, <<>>)
While(type, list) == <<"while", type, list>>
Retype(s)        == <<"retype", s>>         \* set_previous_path_head_semantic_type
Do(what)         == <<what>>
None             == <<>>

(* extract_separated_zero_or_more, parse_separated_one_or_more *)
Separated(f, separator) ==
    <<Call(f), Then(<<While(separator, <<Skip("operator"), Need(f)>>)>>)>>
OneOrMore(f, separator, kind) ==
    <<Call(f), Then(<<Wrap, While(separator, <<Skip("operator"), Need(f)>>), Close(kind)>>)>>
(* parse_surrounded *)
Surrounded(next, open, inner, close) ==
    IF next = open THEN <<Skip("operator")>> \o inner \o <<Eat(close, "operator")>> ELSE None
List(f) == <<Open>> \o Separated(f, ",") \o <<Close("List")>>
-----------------------------------------------------------------------------
(* Expressions: parse_expression.cpp. *)
Loop(keyword, list) == <<Skip("keyword"), Open>> \o list \o <<Need("block"), Close(keyword)>>
(* Slips the code might contain have names that begin with Bug: each is an  *)
(* alternative to the definition that follows it.                           *)
BugTuple == <<Skip("operator"), Open>> \o Separated("expression", ",")
            \o <<When(")", <<Skip("operator")>>), Close("Tuple")>>
Tuple == <<Skip("operator"), Open>> \o Separated("expression", ",")
         \o <<Eat(")", "operator"), Close("Tuple")>>
Array == <<Skip("none"), Open>> \o Separated("expression", ",")
         \o <<Eat("]", "none"), Close("Array")>>
Conditional ==
    <<Skip("keyword"), Open, Need("expression"), Need("block"),
      When("else", <<Skip("keyword"),
                     If("if", <<Inline("conditional")>>, <<Need("block")>>)>>),
      Close("Conditional")>>
Let == <<Skip("keyword"), Open, Need("top_level_pattern"), Call("type_annotation"),
         Eat("=", "operator"), Need("expression"), Close("Let")>>
LocalAlias == <<Skip("keyword"), Open, Name("upper", "type"), Eat("=", "operator"),
                Need("type"), Close("Type_alias")>>
Sizeof == <<Skip("keyword"), Open, Need("parenthesized_type"), Close("Sizeof")>>
MatchArm == <<Call("top_level_pattern"),
              Then(<<Wrap, Eat("->", "operator"), Need("expression"),
                     When(";", <<Leaf("none")>>), Close("Match_arm")>>)>>
MatchArms == <<Call("match_arm"), Then(<<Wrap, Inline("match_arms_loop"), Close("Arms")>>)>>
Match(next) == Surrounded(next, "{", <<Need("match_arms")>>, "}")
Exit(kind) == <<Skip("keyword"), Open, Call("expression"), Close(kind)>>
Addressof == <<Skip("operator"), Open, Call("mutability"), Need("expression"),
               Close("Addressof")>>
Defer == <<Skip("keyword"), Open, Need("expression"), Close("Defer")>>
Deref == <<Skip("none"), Open, Need("expression"), Close("Deref")>>
StringLiteral == <<Open, While("string", <<Leaf("string")>>), Close("String")>>
Block == <<Skip("operator"), Open, Inline("effects"), Eat("}", "operator"), Close("Block")>>
BugEffects == <<Call("expression"), When(";", <<Skip("operator")>>), Inline("effects")>>
Effects == <<Call("expression"),
             Then(<<When(";", <<Wrap, Skip("operator"), Close("Effect"),
                                Inline("effects")>>)>>)>>
FieldInit(next) ==
    IF next = "lower"
    THEN <<Open, Leaf("property"), When("=", <<Skip("none"), Need("expression")>>),
           Close("Field_init")>>
    ELSE None
StructInit == <<Wrap, Skip("operator")>> \o Separated("field_init", ",")
              \o <<Eat("}", "operator"), Close("Struct_init")>>

(* dispatch_parse_normal_expression *)
NormalExpression(next) ==
    CASE next \in {"integer", "large", "boolean"} \cup Floats -> <<Leaf("number")>>
      [] next = "overflow" -> <<Do("bad literal")>>
      [] next = "string"   -> StringLiteral
      [] next = "*"        -> Deref
      [] next = "("        -> Tuple
      [] next = "["        -> Array
      [] next = "if"       -> Conditional
      [] next = "let"      -> Let
      [] next = "alias"    -> LocalAlias
      [] next = "loop"     -> Loop("Loop", <<>>)
      [] next = "while"    -> Loop("While_loop", <<Need("expression")>>)
      [] next = "for"      -> Loop("For_loop", <<Need("pattern"), Eat("in", "keyword"),
                                                 Need("expression")>>)
      [] next = "sizeof"   -> Sizeof
      [] next = "match"    -> <<Skip("keyword"), Open, Need("expression"), Need("match_body"),
                                Close("Match")>>
      [] next = "continue" -> <<Skip("keyword"), Open, Close("Continue")>>
      [] next = "break"    -> Exit("Break")
      [] next = "ret"      -> Exit("Return")
      [] next = "&"        -> Addressof
      [] next = "@"        -> <<Skip("none"), Do("builtin")>>
      [] next = "defer"    -> Defer
      [] next = "{"        -> Block
      [] OTHER -> <<Call("complex_path"), Then(<<Do("initializer")>>)>>

(* extract_member_access *)
Member(next) ==
    CASE next = "lower"   -> <<Leaf("property"), Do("method"), Call("template_arguments"),
                               Do("method call")>>
      [] next = "["       -> <<Need("index"), Close("Array_index")>>
      [] next = "integer" -> <<Leaf("number"), Do("again"), Close("Tuple_field")>>
      [] next = "large"   -> <<Skip("number"), Do("again"), Close("Error")>>
      [] next = "overflow" -> <<Skip("number"), Do("again"), Do("report"), Close("Error")>>
      [] OTHER -> None

FunctionCalls  == While("(", <<Wrap, Need("function_arguments"), Close("Function_call")>>)
MemberAccesses == While(".", <<Wrap, Skip("operator"), Need("member")>>)
Ascriptions    == While(":", <<Wrap, Skip("none"), Need("type"), Close("Ascription")>>)
Postfix        == <<FunctionCalls, MemberAccesses, Ascriptions>>
PipeOperand == <<Call("normal_expression"), Then(Postfix)>>
Pipe == While("|", <<Wrap, Skip("none"), Need("pipe_operand"), Close("Pipe")>>)
(* parse_infix_chain: the loop of level l, called from the one of level `from'. *)
Chain(l, from) == <<"chain", l, from>>
Infix(level)   == <<Call("normal_expression"),
                    Then(Postfix \o <<Pipe, Chain(Len(operator_table), level)>>)>>
NeedInfix(level) == <<"call", "infix", level, TRUE>>
BugIsPrecedence(level, op) ==
    ~(level = Len(operator_table) \/ op \in operator_table[level + 1])
IsPrecedence(level, op) == level = Len(operator_table) \/ op \in operator_table[level + 1]
-----------------------------------------------------------------------------
(* Paths, template parameters and arguments: parse.cpp. *)
TypeHeads == {"_", "(", "[", "fn", "typeof", "impl", "&", "*", "@"}
Segments  == <<While("::", <<Skip("operator"), Inline("segment")>>), Do("end path"),
               Close("Path")>>
(* extract_path: a path that begins with a name, with `::', or with a type. *)
Segment(next) ==
    IF next \in Names
    THEN <<Open, Leaf(IF next = "upper" THEN "type" ELSE "variable"),
           Call("template_arguments"), Close("Segment")>>
    ELSE <<Skip("none"), Do("fail")>>
SimplePath(next) ==
    CASE next \in Names -> <<Open, Inline("segment")>> \o Segments
      [] next = "::"    -> <<Open, Do("global")>> \o Segments
      [] OTHER          -> None
ComplexPath(next) ==
    IF next \in TypeHeads THEN <<Open, Need("type_root")>> \o Segments ELSE SimplePath(next)

Mutability(next) ==
    CASE next = "mut"   -> <<Skip("keyword"), Open,
                             When("?", <<Skip("operator"), Name("lower", "none")>>),
                             Close("Mut")>>
      [] next = "immut" -> <<Skip("keyword"), Open, Close("Immut")>>
      [] OTHER          -> None
TypeAnnotation(next) ==
    IF next = ":" THEN <<Skip("operator"), Open, Need("type"), Close("Type_annotation")>>
    ELSE None
Default(f) ==
    When("=", <<Skip("operator"), Open, If("_", <<Leaf("none")>>, <<Need(f)>>),
                Close("Default")>>)
TemplateParameter(next) ==
    CASE next = "lower" ->
            <<Open, Leaf("parameter"), Eat(":", "operator"),
              If("mut", <<Skip("keyword"), Default("mutability"),
                          Close("Template_mutability_parameter")>>,
                        <<Need("type"), Default("expression"),
                          Close("Template_value_parameter")>>)>>
      [] next = "upper" ->
            <<Open, Leaf("type parameter"),
              When(":", <<Skip("operator"), Need("concepts"), Default("type")>>),
              Close("Template_type_parameter")>>
      [] OTHER -> None
TemplateArgument(next) ==
    IF next = "_" THEN <<Leaf("variable")>>
    ELSE <<Call("type"), Or("expression"), Or("mutability")>>
FunctionParameter ==
    <<Call("pattern"), Then(<<Wrap, Call("type_annotation"), Default("expression"),
                              Close("Function_parameter")>>)>>
ConceptPath == <<Call("simple_path"), Then(<<Retype("interface")>>)>>

(* Types: parse_type.cpp. *)
Pointer(kind) == <<Skip("operator"), Open, Call("mutability"), Need("type"), Close(kind)>>
TypeRoot(next) ==
    CASE next = "_"      -> <<Leaf("none")>>
      [] next = "("      -> <<Skip("operator"), Open>> \o Separated("type", ",")
                            \o <<Eat(")", "operator"), Close("Tuple")>>
      [] next = "["      -> <<Skip("operator"), Open, Need("type"),
                              When(";", <<Skip("operator"), Need("expression")>>),
                              Eat("]", "operator"), Close("Array_or_slice")>>
      [] next = "fn"     -> <<Skip("keyword"), Open, Need("parameter_types"),
                              Need("type_annotation"), Close("Function")>>
      [] next = "typeof" -> <<Skip("keyword"), Open, Need("inspected"), Close("Typeof")>>
      [] next = "impl"   -> <<Skip("keyword"), Open, Need("concepts"), Close("Impl")>>
      [] next = "&"      -> Pointer("Reference")
      [] next = "*"      -> Pointer("Pointer")
      [] next = "@"      -> <<Skip("none"), Do("builtin")>>
      [] OTHER           -> SimplePath(next)
Type == <<Call("type_root"),
          Then(<<When("::", <<Wrap>> \o Segments)>>)>>

(* Patterns: parse_pattern.cpp. *)
TuplePattern == <<Skip("none"), Open>> \o Separated("pattern", ",")
                \o <<Eat(")", "none"), Close("Tuple")>>
SlicePattern == <<Skip("none"), Open>> \o Separated("pattern", ",")
                \o <<Eat("]", "none"), Close("Slice")>>
NamePattern  == <<Open, Need("mutability"), Name("lower", "variable"), Close("Name")>>
UnguardedPattern(next) ==
    CASE next = "_"     -> <<Leaf("none")>>
      [] next \in {"integer", "large", "boolean"} \cup Floats -> <<Leaf("number")>>
      [] next = "overflow" -> <<Do("bad literal")>>
      [] next = "string" -> StringLiteral
      [] next = "("     -> TuplePattern
      [] next = "["     -> SlicePattern
      [] next \in {"mut", "immut"} -> NamePattern
      [] next \in Names -> <<Open, Need("complex_path"), Do("name or constructor")>>
      [] OTHER          -> None
ConstructorBody ==
    <<If("{", <<Need("field_patterns")>>, <<When("(", <<Need("tuple_patterns")>>)>>),
      Close("Constructor")>>
FieldPattern(next) ==
    IF next = "lower"
    THEN <<Open, Leaf("property"), When("=", <<Skip("operator"), Need("pattern")>>),
           Close("Field")>>
    ELSE None
Pattern == <<Call("unguarded_pattern"),
             Then(<<When("if", <<Wrap, Skip("none"), Need("expression"), Close("Guarded")>>)>>)>>

(* Definitions: parse_definition.cpp.  The keyword is consumed already. *)
Signature == <<Open, Name("lower", "function"), Call("template_parameters"),
               Need("function_parameters"), Call("type_annotation"),
               Close("Function_signature")>>
TypeSignature == <<Open, Name("upper", "type"), Call("template_parameters"),
                   When(":", <<Skip("none"), Need("concepts")>>), Close("Type_signature")>>
Requirements == <<If("fn", <<Skip("keyword"), Inline("signature"), Inline("requirements")>>,
                     <<When("alias", <<Skip("keyword"), Inline("type_signature"),
                                       Inline("requirements")>>)>>)>>
DefinitionBody(keyword) ==
    CASE keyword = "fn" ->
            <<Inline("signature"), If("=", <<Leaf("operator"), Need("expression")>>,
                                           <<Need("block")>>)>>
      [] keyword = "struct" ->
            <<Name("upper", "structure"), Call("template_parameters"),
              Inline("constructor_body")>>
      [] keyword = "enum" ->
            <<Name("upper", "enumeration"), Call("template_parameters"), Eat("=", "operator"),
              Need("constructors")>>
      [] keyword = "concept" ->
            <<Name("upper", "interface"), Call("template_parameters"), Eat("{", "operator"),
              Inline("requirements"), Eat("}", "operator")>>
      [] keyword = "alias" ->
            <<Name("upper", "type"), Call("template_parameters"), Eat("=", "operator"),
              Need("type")>>
      [] keyword = "impl" ->
            <<Need("type"), Eat("{", "none"), Do("enter"), Call("template_parameters")>>
      [] keyword = "module" -> <<Name("lower", "module"), Eat("{", "none"), Do("enter")>>
Definitions == {"fn", "struct", "enum", "concept", "alias", "impl", "module"}
Constructor(next) ==
    IF next = "upper" THEN <<Open, Leaf("constructor"), Inline("constructor_body"),
                             Close("Constructor")>> ELSE None
DeclaredBody == <<If("{", <<Need("declared_fields")>>, <<When("(", <<Need("declared_types")>>)>>)>>
DeclaredField(next) ==
    IF next = "lower" THEN <<Open, Leaf("property"), Need("type_annotation"), Close("Field")>>
    ELSE None
-----------------------------------------------------------------------------
(* What function f does when `next' is the next token; None if it returns  *)
(* nothing without a call.                                                 *)
Body(f, level, next) ==
    CASE f = "expression"           -> Infix(0)
      [] f = "infix"                -> Infix(level)
      [] f = "normal_expression"    -> NormalExpression(next)
      [] f = "pipe_operand"         -> PipeOperand
      [] f = "member"               -> Member(next)
      [] f = "index"                -> Surrounded(next, "[", <<Need("expression")>>, "]")
      [] f = "block"                -> IF next = "{" THEN Block ELSE None
      [] f = "effects"              -> Effects
      [] f = "conditional"          -> Conditional
      [] f = "match_body"           -> Match(next)
      [] f = "match_arms"           -> MatchArms
      [] f = "match_arms_loop"      -> <<Call("match_arm"), Then(<<Inline("match_arms_loop")>>)>>
      [] f = "match_arm"            -> MatchArm
      [] f = "field_init"           -> FieldInit(next)
      [] f = "function_arguments"   -> Surrounded(next, "(", List("expression"), ")")
      [] f = "function_parameters"  -> Surrounded(next, "(", List("function_parameter"), ")")
      [] f = "function_parameter"   -> FunctionParameter
      [] f = "template_arguments"   -> Surrounded(next, "[", List("template_argument"), "]")
      [] f = "template_argument"    -> TemplateArgument(next)
      [] f = "template_parameters"  -> Surrounded(next, "[", <<Need("parameter_list")>>, "]")
      [] f = "parameter_list"       -> OneOrMore("template_parameter", ",", "List")
      [] f = "template_parameter"   -> TemplateParameter(next)
      [] f = "type_annotation"      -> TypeAnnotation(next)
      [] f = "mutability"           -> Mutability(next)
      [] f = "simple_path"          -> SimplePath(next)
      [] f = "complex_path"         -> ComplexPath(next)
      [] f = "segment"              -> Segment(next)
      [] f = "concepts"             -> OneOrMore("concept_path", "+", "List")
      [] f = "concept_path"         -> ConceptPath
      [] f = "type"                 -> Type
      [] f = "type_root"            -> TypeRoot(next)
      [] f = "parenthesized_type"   -> Surrounded(next, "(", <<Need("type")>>, ")")
      [] f = "inspected"            -> Surrounded(next, "(", <<Need("expression")>>, ")")
      [] f = "parameter_types"      -> Surrounded(next, "(", List("type"), ")")
      [] f = "pattern"              -> Pattern
      [] f = "unguarded_pattern"    -> UnguardedPattern(next)
      [] f = "top_level_pattern"    -> OneOrMore("pattern", ",", "Top_level_tuple")
      [] f = "field_patterns"       -> Surrounded(next, "{", <<Need("field_pattern_list")>>, "}")
      [] f = "field_pattern_list"   -> OneOrMore("field_pattern", ",", "List")
      [] f = "field_pattern"        -> FieldPattern(next)
      [] f = "tuple_patterns"       -> Surrounded(next, "(", <<Need("pattern_list")>>, ")")
      [] f = "pattern_list"         -> OneOrMore("pattern", ",", "List")
      [] f = "signature"            -> Signature
      [] f = "type_signature"       -> TypeSignature
      [] f = "requirements"         -> Requirements
      [] f = "constructors"         -> OneOrMore("constructor", "|", "List")
      [] f = "constructor"          -> Constructor(next)
      [] f = "constructor_body"     -> DeclaredBody
      [] f = "declared_fields"      -> Surrounded(next, "{", <<Need("declared_field_list")>>, "}")
      [] f = "declared_field_list"  -> OneOrMore("declared_field", ",", "List")
      [] f = "declared_field"       -> DeclaredField(next)
      [] f = "declared_types"       -> Surrounded(next, "(", <<Need("type_list")>>, ")")
      [] f = "type_list"            -> OneOrMore("type", ",", "List")
-----------------------------------------------------------------------------
top  == Head(todo)
rest == Tail(todo)
Peeked == at < Len(text)
next == text[at + 1]
Silent  == {"return", "then", "or", "open", "wrap", "close", "global", "initializer",
            "name or constructor", "retype", "again", "report", "fail", "enter", "visit"}
Looking == IF todo = <<>> THEN TRUE ELSE top[1] \notin Silent
(* lex::next, called by peek when no token is kept: the end of the input   *)
(* comes at any time, and again and again.                                 *)
Peek ==
    /\ phase # "done" /\ ~Peeked /\ Looking
    /\ text' \in {Append(text, t) : t \in
          IF \/ Len(text) >= document.length
             \/ Len(text) > 0 /\ text[Len(text)] = "end" THEN {"end"}
          ELSE document.alphabet \cup {"end"}}
    /\ UNCHANGED <<document, at, phase, todo, result, built, start, definitions, depth,
                   semantic, head, diagnostics>>

frame == built[Len(built)]
Top(nodes) == [built EXCEPT ![Len(built)] = nodes]
AddTo(frames, node) == [frames EXCEPT ![Len(frames)] = Append(@, node)]
Node(kind, kids)    == [kind |-> kind, kids |-> kids]
(* A leaf knows its token and where in `semantic' that was recorded. *)
Token(offset) == [kind |-> next, kids |-> <<>>, at |-> at + 1, offset |-> offset]
Last(s) == s[Len(s)]
Record(tokens, s) ==
    IF s = "none" THEN tokens ELSE Append(tokens, [at |-> at + 1, type |-> s])

(* error_expected: everything that is being parsed is given up. *)
Fail(where) ==
    /\ diagnostics' = Append(diagnostics, where)
    /\ phase' = "skip" /\ todo' = <<>> /\ built' = <<<<>>>> /\ result' = "none"

KeepText  == UNCHANGED <<document, text>>
KeepTurn  == UNCHANGED <<start, definitions, depth>>
Keep      == UNCHANGED <<phase, diagnostics>>
KeepNotes == UNCHANGED <<semantic, head>>

(* extract, which add_semantic_token follows for most tokens. *)
Extract(leaf, s) ==
    /\ at' = at + 1
    /\ semantic' = Record(semantic, s)
    /\ built' = IF leaf THEN AddTo(built, Token(Len(semantic) + 1)) ELSE built
    /\ result' = "some" /\ UNCHANGED head

(* extract_block_end: a brace ends a block if one is open. *)
EndsBlock    == next = "}" /\ depth > 0
(* parse: one turn of the definition loop begins with a token. *)
Turn ==
    /\ phase = "parse" /\ todo = <<>> /\ Peeked
    /\ at' = at + 1 /\ start' = at
    /\ CASE next \in Definitions ->
              /\ todo' = <<Open>> \o DefinitionBody(next) \o <<Close(next), Do("visit")>>
              /\ semantic' = Record(semantic, "keyword")
              /\ UNCHANGED <<phase, result, built, depth, diagnostics>>
         [] EndsBlock ->
              /\ depth' = depth - 1
              /\ UNCHANGED <<phase, todo, result, built, semantic, diagnostics>>
         [] next = "end" ->
              /\ phase' = "done"
              /\ diagnostics' = IF depth = 0 THEN diagnostics ELSE Append(diagnostics, at + 1)
              /\ UNCHANGED <<todo, result, built, depth, semantic>>
         [] OTHER -> Fail(at + 1) /\ UNCHANGED <<depth, semantic>>
    /\ KeepText /\ UNCHANGED <<definitions, head>>

(* skip_to_next_recovery_point: the types of lex::recovery_semantic_token. *)
RecoveryPoints == Definitions \cup {"end"}
RecoveryType(token) ==
    CASE token = "invalid"    -> "none"
      [] token \in Names      -> "variable"
      [] token = "string"     -> "string"
      [] token \in Literals   -> "number"
      [] token \in Keywords   -> "keyword"
      [] OTHER                -> "operator"
Recover ==
    /\ phase = "skip" /\ Peeked
    /\ IF next \in RecoveryPoints THEN phase' = "parse" /\ UNCHANGED <<at, semantic>>
       ELSE /\ at' = at + 1
            /\ semantic' = Record(semantic, RecoveryType(next))
            /\ UNCHANGED phase
    /\ KeepText /\ KeepTurn /\ UNCHANGED <<todo, result, built, head, diagnostics>>
-----------------------------------------------------------------------------
(* One action per instruction. *)
Is(what)  == phase = "parse" /\ todo # <<>> /\ top[1] = what
Continue(list) == todo' = list \o rest

CallFunction ==
    /\ Is("call") /\ Peeked
    /\ LET body == Body(top[2], top[3], next)
       IN CASE body # None ->
                  /\ Continue(body \o <<<<"return", at, Len(diagnostics), top[4]>>>>)
                  /\ UNCHANGED <<built, result>> /\ Keep
            [] body = None /\ top[4] -> Fail(at + 1)
            [] body = None /\ ~top[4] ->
                  Continue(<<>>) /\ result' = "none" /\ UNCHANGED built /\ Keep
    /\ KeepText /\ KeepTurn /\ KeepNotes /\ UNCHANGED at
Return ==
    /\ Is("return")
    /\ IF result = "none" /\ top[4] THEN Fail(at + 1)
       ELSE Continue(<<>>) /\ UNCHANGED <<built, result>> /\ Keep
    /\ KeepText /\ KeepTurn /\ KeepNotes /\ UNCHANGED at

(* Instructions that only choose what to do next. *)
Choose ==
    /\ \/ /\ Is("inline") /\ Peeked
          /\ Continue(Body(top[2], 0, next))
       \/ /\ Is("then")
          /\ Continue(IF result = "some" THEN top[2] ELSE <<>>)
       \/ /\ Is("or")
          /\ Continue(IF result = "none" THEN <<Call(top[2])>> ELSE <<>>)
       \/ /\ Is("if") /\ Peeked
          /\ Continue(IF next = top[2] THEN top[3] ELSE top[4])
       \/ /\ Is("while") /\ Peeked
          /\ Continue(IF next = top[2] THEN top[3] \o <<top>> ELSE <<>>)
    /\ KeepText /\ KeepTurn /\ KeepNotes /\ Keep /\ UNCHANGED <<at, result, built>>

(* The loops of parse_infix_chain that are running are those of the levels *)
(* from top[3] to top[2]; an operator is taken by the innermost that may.  *)
Operator ==
    /\ Is("chain") /\ Peeked
    /\ LET taking == {l \in top[3] .. top[2] : next \in Operators /\ ~IsPrecedence(l, next)}
       IN IF taking = {} THEN Continue(<<>>)
          ELSE \E l \in taking :
                  /\ \A k \in taking : k <= l
                  /\ Continue(<<Wrap, Leaf("none"), NeedInfix(l + 1), Close("Infix_call"),
                                Chain(l, top[3])>>)
    /\ KeepText /\ KeepTurn /\ KeepNotes /\ Keep /\ UNCHANGED <<at, result, built>>

Take ==
    /\ Is("take") /\ Peeked
    /\ Extract(top[2], top[3]) /\ Continue(<<>>)
    /\ KeepText /\ KeepTurn /\ Keep
Require ==
    /\ Is("eat") /\ Peeked
    /\ IF next = top[2]
       THEN Extract(top[3], top[4]) /\ Continue(<<>>) /\ Keep
       ELSE Fail(at + 1) /\ KeepNotes /\ UNCHANGED at
    /\ KeepText /\ KeepTurn

(* Tuples of one element are parentheses, and lists of one pattern that pattern. *)
Built(kind, kids) ==
    CASE kind = "Tuple" /\ Len(kids) = 1           -> Node("Paren", kids)
      [] kind = "Top_level_tuple" /\ Len(kids) = 1 -> kids[1]
      [] kind = "Error"                            -> Node("Error", <<>>)
      [] OTHER                                     -> Node(kind, kids)
Build ==
    /\ \/ /\ Is("open") /\ built' = Append(built, <<>>) /\ UNCHANGED result
       \/ /\ Is("wrap")
          /\ built' = Append(Top(SubSeq(frame, 1, Len(frame) - 1)), <<Last(frame)>>)
          /\ UNCHANGED result
       \/ /\ Is("close")
          /\ built' = AddTo(SubSeq(built, 1, Len(built) - 1), Built(top[2], frame))
          /\ result' = "some"
       \/ /\ Is("global")
          /\ built' = AddTo(built, Node("Global", <<>>)) /\ UNCHANGED result
    /\ Continue(<<>>)
    /\ KeepText /\ KeepTurn /\ KeepNotes /\ Keep /\ UNCHANGED at

(* cst::Path::head, is_unqualified *)
HeadSegment(path) == Last(path.kids).kids[1]
IsUppercase(path) == HeadSegment(path).kind = "upper"
Unqualified(path) == Len(path.kids) = 1
Retyped(offset, s) == [semantic EXCEPT ![offset].type = s]

(* extract_path, when no `::' follows: the offset is that of the last name, *)
(* not of what its template arguments have recorded since.                  *)
BugEndPath ==
    /\ Is("end path") /\ Peeked
    /\ IF \E i \in DOMAIN frame : frame[i].kind = "Segment"
       THEN /\ head' = Len(semantic)
            /\ semantic' = IF next = "(" THEN Retyped(head', "function") ELSE semantic
            /\ Continue(<<>>) /\ UNCHANGED <<built, result>> /\ Keep
       ELSE Fail(at + 1) /\ KeepNotes
    /\ KeepText /\ KeepTurn /\ UNCHANGED at
EndPath ==
    /\ Is("end path") /\ Peeked
    /\ IF \E i \in DOMAIN frame : frame[i].kind = "Segment"
       THEN /\ head' = Last(frame).kids[1].offset
            /\ semantic' = IF next = "(" THEN Retyped(head', "function") ELSE semantic
            /\ Continue(<<>>) /\ UNCHANGED <<built, result>> /\ Keep
       ELSE Fail(at + 1) /\ KeepNotes
    /\ KeepText /\ KeepTurn /\ UNCHANGED at

(* What a path turns out to be once it is read. *)
Classify ==
    /\ LET path == Last(frame) IN
       \/ /\ Is("initializer")
          /\ IF IsUppercase(path)
             THEN /\ semantic' = Retyped(head, "constructor")
                  /\ Continue(<<When("{", StructInit)>>)
             ELSE Continue(<<>>) /\ UNCHANGED semantic
       \/ /\ Is("name or constructor")
          /\ IF IsUppercase(path) \/ ~Unqualified(path)
             THEN semantic' = Retyped(head, "constructor") /\ Continue(ConstructorBody)
             ELSE Continue(<<Close("Name")>>) /\ UNCHANGED semantic
       \/ /\ Is("retype")
          /\ semantic' = Retyped(head, top[2]) /\ Continue(<<>>)
    /\ KeepText /\ KeepTurn /\ Keep /\ UNCHANGED <<at, result, built, head>>

(* extract_struct_field_access *)
Access ==
    /\ Peeked
    /\ \/ /\ Is("method") /\ Continue(<<>>)
          /\ semantic' = IF next \in {"(", "["} THEN Retyped(Len(semantic), "method")
                         ELSE semantic
          /\ UNCHANGED <<result, built>> /\ Keep
       \/ /\ Is("method call")
          /\ CASE next = "("  -> /\ Continue(<<Need("function_arguments"), Close("Method_call")>>)
                                 /\ UNCHANGED <<result, built>> /\ Keep
               [] next # "(" /\ result = "some" -> Fail(at + 1)
               [] next # "(" /\ result = "none" -> /\ Continue(<<Close("Struct_field")>>)
                                                   /\ UNCHANGED <<result, built>> /\ Keep
          /\ UNCHANGED semantic
    /\ KeepText /\ KeepTurn /\ UNCHANGED <<at, head>>

(* parse_integer and parse_floating report a literal that has no value, and *)
(* return nothing although they have consumed it.                           *)
BugBadLiteral ==
    /\ Is("bad literal") /\ Peeked
    /\ at' = at + 1 /\ semantic' = Record(semantic, "number")
    /\ result' = "none" /\ Continue(<<>>)
    /\ KeepText /\ KeepTurn /\ UNCHANGED <<phase, built, head, diagnostics>>
BadLiteral ==
    /\ Is("bad literal") /\ Peeked
    /\ at' = at + 1 /\ semantic' = Record(semantic, "number")
    /\ diagnostics' = Append(diagnostics, at + 1)
    /\ result' = "none" /\ Continue(<<>>)
    /\ KeepText /\ KeepTurn /\ UNCHANGED <<phase, built, head>>
(* The index of a tuple field is recorded twice, and reported by parse_integer. *)
TupleIndex ==
    /\ \/ /\ Is("again")
          /\ semantic' = Append(semantic, [at |-> at, type |-> "number"])
          /\ UNCHANGED diagnostics
       \/ /\ Is("report")
          /\ diagnostics' = Append(diagnostics, at) /\ UNCHANGED semantic
    /\ Continue(<<>>)
    /\ KeepText /\ KeepTurn /\ UNCHANGED <<at, phase, result, built, head>>
(* extract_builtin: the sign and the name get their type together. *)
Builtin ==
    /\ Is("builtin") /\ Peeked
    /\ at' = at + 1
    /\ IF next \in Names
       THEN LET s == IF next = "upper" THEN "type" ELSE "function"
            IN /\ semantic' = semantic \o <<[at |-> at, type |-> s], [at |-> at + 1, type |-> s]>>
               /\ built' = AddTo(built, Node("Builtin", <<Token(Len(semantic) + 2)>>))
               /\ result' = "some" /\ Continue(<<>>) /\ Keep
       ELSE Fail(at + 1) /\ UNCHANGED semantic
    /\ KeepText /\ KeepTurn /\ UNCHANGED head
BadSegment ==
    /\ Is("fail") /\ Fail(at)
    /\ KeepText /\ KeepTurn /\ KeepNotes /\ UNCHANGED at

EnterBlock ==
    /\ Is("enter") /\ depth' = depth + 1 /\ Continue(<<>>)
    /\ KeepText /\ KeepNotes /\ Keep /\ UNCHANGED <<at, result, built, start, definitions>>
Visit ==
    /\ Is("visit") /\ Continue(<<>>)
    /\ definitions' = Append(definitions, [first |-> start + 1, last |-> at,
                                           node |-> Last(frame)])
    /\ built' = <<<<>>>>
    /\ KeepText /\ KeepNotes /\ Keep /\ UNCHANGED <<at, result, start, depth>>

Next == \/ Peek \/ Turn \/ Recover
        \/ CallFunction \/ Return \/ Choose \/ Operator
        \/ Take \/ Require \/ Build \/ EndPath \/ Classify \/ Access
        \/ BadLiteral \/ TupleIndex \/ Builtin \/ BadSegment \/ EnterBlock \/ Visit
Spec == Init /\ [][Next]_vars /\ WF_vars(Next)
-----------------------------------------------------------------------------
(* The semantic tokens of a document are in the order of its text, each     *)
(* token once but the index of a tuple field: semantic_tokens_to_json       *)
(* asserts the order and subtracts one position from the next.              *)
SemanticTokensInOrder ==
    \A i \in 2 .. Len(semantic) :
        \/ semantic[i - 1].at < semantic[i].at
        \/ semantic[i - 1].at = semantic[i].at /\ text[semantic[i].at - 1] = "."

(* What turns out to be a constructor, a function, a method or a concept    *)
(* is a name: the offset kept from the last path is never that of something *)
(* recorded later, in its template arguments or behind it.                  *)
RetypedTokensAreNames ==
    \A i \in DOMAIN semantic :
        semantic[i].type \in {"constructor", "function", "method", "interface"} =>
            text[semantic[i].at] \in Names \cup {"@"}

(* The semantic tokens are those of the text, although some are recorded    *)
(* together and others get their type later; the offset that a path leaves  *)
(* behind is that of one of them: semantic_tokens.at does not throw.        *)
SemanticTokensFollowText ==
    SemanticTokensInOrder /\ RetypedTokensAreNames /\ head \in 0 .. Len(semantic)

(* A function that returns nothing has consumed nothing, unless it has      *)
(* reported a literal: parse_template_argument, parse_complex_path and      *)
(* every list try the next alternative on that promise.                     *)
NothingIsConsumedUnreported ==
    Is("return") /\ result = "none" =>
        at = top[2] \/ Len(diagnostics) > top[3]

(* What operators are grouped into, whatever the chain: the operators of    *)
(* the last row bind loosest, all the others bind alike, and both group to  *)
(* the left.                                                                *)
LastRow(op)   == op \in operator_table[Len(operator_table)]
IsInfix(node) == node.kind = "Infix_call"
OperatorOf(node) == node.kids[2].kind
LastRowBindsLoosest ==
    Is("close") /\ top[2] = "Infix_call" =>
        LET left == frame[1] op == frame[2].kind right == frame[3] IN
        IF LastRow(op) THEN ~(IsInfix(right) /\ LastRow(OperatorOf(right)))
        ELSE ~IsInfix(right) /\ ~(IsInfix(left) /\ LastRow(OperatorOf(left)))

(* In a definition that the visitor is given, brackets and braces stand in  *)
(* pairs: each function closes exactly what it has opened, on every way     *)
(* through lists, blocks and arguments.  The brace of a module or of an     *)
(* impl block stays open.                                                   *)
Closer(open) == CASE open = "(" -> ")" [] open = "[" -> "]" [] open = "{" -> "}"
Openers == {"(", "[", "{"}
Closers == {")", "]", "}"}
Between(first, last) ==
    LET opened[i \in first - 1 .. last] ==
            IF i < first THEN <<>>
            ELSE CASE text[i] \in Openers -> Append(opened[i - 1], text[i])
                   [] text[i] \in Closers ->
                        IF opened[i - 1] # <<>> /\ Closer(Last(opened[i - 1])) = text[i]
                        THEN SubSeq(opened[i - 1], 1, Len(opened[i - 1]) - 1)
                        ELSE Append(opened[i - 1], "wrong")
                   [] OTHER -> opened[i - 1]
    IN opened[last]
BracketsMatch ==
    Is("visit") =>
        Between(start + 1, at) =
            (IF text[start + 1] \in {"impl", "module"} THEN <<"{">> ELSE <<>>)

(* Every text is parsed to its end, whatever is wrong with it. *)
ParsingEnds == <>(phase = "done")
=============================================================================

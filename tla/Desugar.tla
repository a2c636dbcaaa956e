------------------------------- MODULE Desugar -------------------------------
(***************************************************************************)
(* libdesugar: from the trees that the parser builds to trees without      *)
(* syntactic sugar, and the equations between texts that its README        *)
(* promises.  A node of the result has the kind of the node it stands for; *)
(* where a node came from (its range, the source of a loop) is left out.   *)
(***************************************************************************)
EXTENDS Parser

(* What is made up where the text says nothing. *)
Unit      == Node("Tuple", <<>>)           \* unit_value, unit_type
BreakOut  == Node("Break", <<Unit>>)       \* break_expression
Anything  == Node("_", <<>>)               \* wildcard_pattern
Immutable == Node("Immut", <<>>)
NoNode    == Node("Error", <<>>)
WithMutability(kids) == IF kids[1].kind \in {"Mut", "Immut"} THEN kids ELSE <<Immutable>> \o kids
WithUnit(kids)       == IF kids = <<>> THEN <<Unit>> ELSE kids
Variable(name)       == Node("Path", <<Node("Segment", <<name>>)>>)

BugPiped(left, right) ==
    Node("Function_call",
         IF right.kind = "Function_call"
         THEN <<right.kids[1], Node("List", Append(right.kids[2].kids, left))>>
         ELSE <<right, Node("List", <<left>>)>>)
(* What is behind the bar is a call or becomes one, also in parentheses. *)
Piped(left, right) ==
    Node("Function_call",
         IF right.kind = "Function_call"
         THEN <<right.kids[1], Node("List", <<left>> \o right.kids[2].kids)>>
         ELSE <<right, Node("List", <<left>>)>>)

(* A `let' as a condition: its initializer is matched with its pattern. *)
Matching(let, yes, no) ==
    LET value     == Last(let.kids)
        scrutinee == IF Len(let.kids) = 3 THEN Node("Ascription", <<value, let.kids[2]>>)
                                          ELSE value
        Arm(pattern, handler) == Node("Match_arm", <<pattern, handler>>)
    IN  Node("Match", <<scrutinee, Node("Arms", <<Arm(let.kids[1], yes), Arm(Anything, no)>>)>>)

IsTemplate(node) ==
    /\ node.kind = "List" /\ node.kids # <<>>
    /\ node.kids[1].kind \in {"Template_type_parameter", "Template_value_parameter",
                              "Template_mutability_parameter"}

RECURSIVE Desugar(_)
Each(nodes) == [i \in DOMAIN nodes |-> Desugar(nodes[i])]

(* An omitted parameter type is that of the next parameter. *)
HasType(parameter) == Len(parameter.kids) > 1 /\ parameter.kids[2].kind = "Type_annotation"
ParameterType(parameters, i) ==
    LET typed == {j \in i .. Len(parameters) : HasType(parameters[j])}
    IN  IF typed = {} THEN NoNode
        ELSE Desugar(parameters[CHOOSE j \in typed : \A k \in typed : j <= k].kids[2])
DefaultArgument(parameter) ==
    LET default == Last(parameter.kids)
    IN  CASE default.kind # "Default"   -> <<>>
          [] default.kids[1].kind = "_" -> <<NoNode>>
          [] OTHER                      -> <<Desugar(default.kids[1])>>
Parameters(parameters) ==
    [i \in DOMAIN parameters |->
        Node("Function_parameter",
             <<Desugar(parameters[i].kids[1]), ParameterType(parameters, i)>>
             \o DefaultArgument(parameters[i]))]

(* The condition is looked at before it is desugared: one in parentheses is *)
(* no `let' condition.                                                      *)
Deciding(condition, yes, no) ==
    IF condition.kind = "Let" THEN Matching(Desugar(condition), yes, no)
    ELSE Node("Conditional", <<Desugar(condition), yes, no>>)
IfElse(kids)    == Deciding(kids[1], Desugar(kids[2]),
                            IF Len(kids) = 3 THEN Desugar(kids[3]) ELSE Unit)
WhileLoop(kids) == Node("Loop", <<Deciding(kids[1], Desugar(kids[2]), BreakOut)>>)
(* The last expression of a block is its result if no `;' follows it. *)
WithResult(kids) ==
    Each(kids) \o IF kids # <<>> /\ Last(kids).kind # "Effect" THEN <<>> ELSE <<Unit>>
Initialized(kids) ==
    Each(kids) \o IF Len(kids) = 1 THEN <<Variable(Desugar(kids[1]))>> ELSE <<>>

DesugarExpression(kind, kids) ==
    CASE kind \in {"Paren", "Effect"}    -> Desugar(kids[1])
      [] kind = "Conditional"            -> IfElse(kids)
      [] kind = "While_loop"             -> WhileLoop(kids)
      [] kind = "For_loop"               -> NoNode
      [] kind = "Block"                  -> Node(kind, WithResult(kids))
      [] kind \in {"Break", "Return"}    -> Node(kind, WithUnit(Each(kids)))
      [] kind = "Pipe"                   -> Piped(Desugar(kids[1]), Desugar(kids[2]))
      [] kind = "Addressof"              -> Node(kind, WithMutability(Each(kids)))
      [] kind = "Field_init"             -> Node(kind, Initialized(kids))
      [] kind = "Match_arm"              -> Node(kind, Each(SubSeq(kids, 1, 2)))
      [] OTHER                           -> Node(kind, Each(kids))

DesugarType(kind, kids) ==
    CASE kind = "Type_annotation" -> Desugar(kids[1])
      [] kind \in {"Reference", "Pointer"} -> Node(kind, WithMutability(Each(kids)))

(* A name alone is a path in the tree of the parser. *)
DesugarPattern(kind, kids) ==
    CASE kind = "Top_level_tuple" -> Node("Tuple", Each(kids))
      [] kind = "Name" ->
            Node(kind, IF Len(kids) = 2 THEN Each(kids)
                       ELSE <<Immutable, Desugar(HeadSegment(kids[1]))>>)
      [] kind = "Field" ->
            Node(kind, Each(kids) \o IF Len(kids) = 2 THEN <<>>
                       ELSE <<Node("Name", <<Immutable, Desugar(kids[1])>>)>>)

FunctionSignature(kids) ==
    Each(kids) \o IF Last(kids).kind = "Type_annotation" THEN <<>> ELSE <<Unit>>
(* Without its template parameters. *)
PlainTypeSignature(kids) == Each(SelectSeq(kids, LAMBDA kid : ~IsTemplate(kid)))
(* The signatures of functions come before those of types. *)
Concept(kids) ==
    LET Of(kind) == SelectSeq(kids, LAMBDA kid : kid.kind = kind)
        Others   == SelectSeq(kids, LAMBDA kid :
                                  kid.kind \notin {"Function_signature", "Type_signature"})
    IN  Each(Others \o Of("Function_signature") \o Of("Type_signature"))
DesugarDefinition(kind, kids) ==
    Node(kind, CASE kind = "fn"                 -> <<Desugar(kids[1]), Desugar(Last(kids))>>
                 [] kind = "Function_signature" -> FunctionSignature(kids)
                 [] kind = "Type_signature"     -> PlainTypeSignature(kids)
                 [] kind = "concept"            -> Concept(kids)
                 [] OTHER                       -> Each(kids))

IsParameters(node) == node.kind = "List" /\ node.kids # <<>>
                      /\ node.kids[1].kind = "Function_parameter"
Desugar(node) ==
    CASE IsParameters(node) -> Node("List", Parameters(node.kids))
      [] node.kind \in {"Type_annotation", "Reference", "Pointer"} -> DesugarType(node.kind, node.kids)
      [] node.kind \in {"Name", "Top_level_tuple", "Field"} ->
            DesugarPattern(node.kind, node.kids)
      [] node.kind \in Definitions \cup {"Function_signature", "Type_signature"} ->
            DesugarDefinition(node.kind, node.kids)
      [] OTHER -> DesugarExpression(node.kind, node.kids)
-----------------------------------------------------------------------------
(* The README's list of transformations, as pairs of definitions: x, y are  *)
(* operands, f, g functions, a patterns, b blocks.                          *)
Evaluates(tokens) == <<"fn", "lower", "(", ")", "=", "(">> \o tokens \o <<")">>
Says(sugar, plain) == <<Evaluates(sugar), Evaluates(plain)>>
Takes(parameters) == <<"fn", "lower", "(">> \o parameters \o <<")", "{", "}">>
Pipelines(X, F) ==
    {Says(x \o <<"|">> \o f, f \o <<"(">> \o x \o <<")">>) : x \in X, f \in F}
    \cup {Says(x \o <<"|">> \o f \o <<"|">> \o g,
               g \o <<"(">> \o f \o <<"(">> \o x \o <<")", ")">>) : x \in X, f, g \in F}
    \cup {Says(x \o <<"|">> \o f \o <<"(">> \o y \o <<")">>,
               f \o <<"(">> \o x \o <<",">> \o y \o <<")">>) : x, y \in X, f \in F}
Otherwise == <<"else", "{", "break", "(", ")", "}", "}">>
Loops(X, A, B) ==
    {Says(<<"while">> \o x \o b, <<"loop", "{", "if">> \o x \o b \o Otherwise) : x \in X, b \in B}
    \cup {Says(<<"while", "let">> \o a \o <<"=">> \o x \o b,
               <<"loop", "{", "match">> \o x \o <<"{">> \o a \o <<"->">> \o b
               \o <<";", "_", "->", "break", "(", ")", "}", "}">>) : x \in X, a \in A, b \in B}
Conditionals(X, A, B) ==
    {Says(<<"if", "let">> \o a \o <<"=">> \o x \o b \o <<"else">> \o c,
          <<"match">> \o x \o <<"{">> \o a \o <<"->">> \o b \o <<";", "_", "->">> \o c \o <<"}">>) :
        x \in X, a \in A, b, c \in B}
    \cup {Says(<<"if">> \o x \o b, <<"if">> \o x \o b \o <<"else", "{", "(", ")", "}">>) :
        x \in X, b \in B}
ImplicitUnits(X) ==
    {Says(<<"{">> \o x \o <<";", "}">>, <<"{">> \o x \o <<";", "(", ")", "}">>) : x \in X}
    \cup {Says(<<exit>>, <<exit, "(", ")">>) : exit \in {"break", "ret"}}
    \cup {<<Takes(<<>>), <<"fn", "lower", "(", ")", ":", "(", ")", "{", "}">>>>}
OtherEquations(X) ==
    {Says(<<"upper", "{", "lower", ",", "lower", "=">> \o x \o <<",", "lower", "}">>,
          <<"upper", "{", "lower", "=", "lower", ",", "lower", "=">> \o x
          \o <<",", "lower", "=", "lower", "}">>) : x \in X}
    \cup {Says(<<"let", "lower", ":", "&", "upper", "=", "&">> \o x,
               <<"let", "immut", "lower", ":", "&", "immut", "upper", "=", "&", "immut">> \o x) :
            x \in X}
    \cup {<<Takes(<<"lower", ",", "mut", "lower", ",", "lower", ":", "upper">>),
            Takes(<<"lower", ":", "upper", ",", "mut", "lower", ":", "upper", ",",
                        "lower", ":", "upper">>)>>,
          <<Takes(<<"lower", ",", "_", ":", "upper", ",", "lower", ",", "lower", ":", "&",
                        "upper">>),
            Takes(<<"lower", ":", "upper", ",", "_", ":", "upper", ",", "lower", ":", "&",
                        "upper", ",", "lower", ":", "&", "upper">>)>>}
Equations(X, F, A, B) == Pipelines(X, F) \cup Loops(X, A, B) \cup Conditionals(X, A, B)
                         \cup ImplicitUnits(X) \cup OtherEquations(X)
(* The two definitions as a document. *)
Document(equation) ==
    LET tokens == equation[1] \o equation[2]
    IN  [beginning |-> tokens, alphabet |-> {}, length |-> Len(tokens)]

(* A block that holds a result and nothing else is that result. *)
RECURSIVE Essence(_)
Essence(node) ==
    IF node.kind = "Block" /\ Len(node.kids) = 1 THEN Essence(node.kids[1])
    ELSE Node(node.kind, [i \in DOMAIN node.kids |-> Essence(node.kids[i])])

ReadmeEquationsHold ==
    document.alphabet = {} =>
        /\ diagnostics = <<>> /\ Len(definitions) = 2
        /\ Essence(Desugar(definitions[1].node)) = Essence(Desugar(definitions[2].node))

(* What the later phases rely on: nothing is left that only the text has,   *)
(* and nothing is left out that the text may leave out.                     *)
Sugar == {"Paren", "Pipe", "While_loop", "For_loop", "Top_level_tuple", "Type_annotation",
          "Effect"}
RECURSIVE Plain(_)
Plain(node) ==
    LET size == Len(node.kids)
    IN  /\ node.kind \notin Sugar
        /\ node.kind \in {"Break", "Return"} => size = 1
        /\ node.kind \in {"Addressof", "Reference", "Pointer", "Name", "Field_init", "Field"} => size = 2
        /\ node.kind = "Conditional" => size = 3
        /\ node.kind = "Block" => size > 0
        /\ \A i \in 1 .. size : Plain(node.kids[i])

(* Whatever operands, functions, patterns and blocks stand in them, both    *)
(* sides of each equation of the README are read without an error and       *)
(* desugared to the same tree; and no definition of any text that the       *)
(* parser accepts keeps its sugar, however it is nested.                    *)
DesugaringFollowsReadme ==
    phase = "done" =>
        /\ ReadmeEquationsHold
        /\ \A i \in DOMAIN definitions : Plain(Desugar(definitions[i].node))
=============================================================================

----------------------------- MODULE MCResolver -----------------------------
(* Every small document for Resolver, two or three definitions whose texts *)
(* hold a few uses between them, and every short function for Scopes.  A   *)
(* behaviour is that of one of the two; the other's variables stay idle.   *)
EXTENDS Resolver, Scopes

CONSTANTS x, y
VARIABLE function   \* whether this is the behaviour of Scopes

SmallVocabularies ==
    {[events |-> {"binding", "block", "use"}, most |-> 8,
      names |-> {x}, patterns |-> {<<x>>}, kinds |-> {"variable"}],
     [events |-> {"template", "pattern", "binding", "block", "use"}, most |-> 5,
      names |-> {x, y}, patterns |-> {<<x>>, <<y>>, <<x, x>>}, kinds |-> {"variable", "type"}],
     [events |-> {"loop", "break", "continue", "block"}, most |-> 8,
      names |-> {}, patterns |-> {}, kinds |-> {}]}

UsesOf(forms, n) == [form : forms, of : 1 .. n]
Short(forms, n, most) == UNION {[1 .. k -> UsesOf(forms, n)] : k \in 0 .. most}

(* A struct initialiser with one field, whatever stands in it. *)
Begin(d) == [form |-> "init", of |-> d]
End(d)   == [form |-> "field", of |-> d]
Initialisers(n, insides) == {<<Begin(d)>> \o inside \o <<End(d)>> : d \in 1 .. n, inside \in insides}

Definition(kind, signature, uses) == [kind |-> kind, signature |-> signature, uses |-> uses]
Functions(signatures, bodies) == {Definition("function", s, b) : s \in signatures, b \in bodies}
Composites(texts) == {Definition(k, <<>>, t) : k \in {"structure", "enumeration"}, t \in texts}
Aliases(texts) == {Definition("alias", <<>>, t) : t \in {u \in texts : Len(u) = 1}}
Concept == Definition("concept", <<>>, <<>>)

Named == {"type", "value", "through"}
Pairs ==
    LET texts == Short(Named, 2, 1)
        nested == Short({"value"}, 2, 1) \cup Initialisers(2, {<<>>})
        any == Functions(Short({"type", "value"}, 2, 1),
                         Short(Named \cup {"parameter"}, 2, 1) \cup Initialisers(2, nested))
               \cup Composites(Short(Named, 2, 1)) \cup Aliases(texts) \cup {Concept}
    IN  {<<a, b>> : a \in any, b \in any}
Triples ==
    LET texts == Short({"type", "through"}, 3, 1)
        functions == Functions({<<>>}, Initialisers(3, Short({"value", "through"}, 3, 1)))
        types == Composites(texts) \cup Aliases(texts)
        empty == Composites({<<>>})
    IN  {<<a, b, c>> : a \in functions, b \in empty, c \in types}
        \cup {<<b, a, c>> : a \in functions, b \in empty, c \in types}
        \cup {<<b, c, a>> : a \in functions, b \in empty, c \in types}
        \cup {<<a, b, c>> : a \in Aliases(texts), b \in types, c \in types}
SmallPrograms == Pairs \cup Triples
-----------------------------------------------------------------------------
NoFunction ==
    /\ vocabulary = {} /\ written = <<>> /\ open = <<>> /\ arena = <<>> /\ loop = NoLoop
    /\ refers = <<>> /\ stage = "none"
NoDefinitions ==
    /\ program = <<>> /\ phase = "finished" /\ turn = 1 /\ stack = <<>>
    /\ resolved = {} /\ scopes = {} /\ warnings = {} /\ meaning = <<>> /\ use_count = <<>>
    /\ erroneous = FALSE /\ constructors = 0 /\ stale = FALSE

DefinitionStep == ~function /\ Next /\ UNCHANGED <<function, functionVars>>
FunctionStep   == function /\ FunctionNext /\ UNCHANGED <<function, vars>>
RunInit == \/ function = FALSE /\ Init /\ NoFunction
           \/ function = TRUE /\ FunctionInit /\ NoDefinitions
RunSpec == /\ RunInit
           /\ [][DefinitionStep \/ FunctionStep]_<<function, functionVars, vars>>
           /\ WF_<<functionVars, vars>>(DefinitionStep)
=============================================================================

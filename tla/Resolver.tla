------------------------------ MODULE Resolver ------------------------------
(***************************************************************************)
(* Resolution of the definitions of a document (libresolve), driven by the *)
(* two loops of analyze_document (server.cpp).                             *)
(*                                                                         *)
(* A definition is resolved when a path first needs it, in the middle of   *)
(* whatever is being resolved, and remembered once that is complete.  The  *)
(* calls in progress are a stack of frames.  What one definition's text    *)
(* asks of others is a sequence of uses:                                   *)
(*   type       a path in a type: the definition itself                    *)
(*   value      a path in an expression (in a type, inside typeof)         *)
(*   through    a path `d::c' in an expression: a constructor of d         *)
(*   init       the head of a struct initialiser, `d { ...'                *)
(*   field      the end of a field of the innermost initialiser            *)
(*   parameter  the function's own parameter                               *)
(* Names are the numbers of definitions, in textual order; every structure *)
(* has one constructor and every enumeration has the one that paths name.  *)
(* Modules are not resolved, and a path through one only selects a name.   *)
(***************************************************************************)
EXTENDS Integers, Sequences, FiniteSets

CONSTANTS Programs,  \* the documents
          MaxDepth   \* how many calls the machine's stack has room for

Kinds == {"function", "structure", "enumeration", "alias", "concept"}
PathForms == {"type", "value", "through", "init"}
Uses(n) == [form : PathForms \cup {"field", "parameter"}, of : 1 .. n]

(* How many initialisers are open after the first i uses of a text.  They  *)
(* nest, as the grammar says, and an alias names one type.                 *)
Open(t, i) == Cardinality({k \in 1 .. i : t[k].form = "init"})
              - Cardinality({k \in 1 .. i : t[k].form = "field"})
Nests(t)   == Open(t, Len(t)) = 0 /\ \A i \in DOMAIN t : Open(t, i) >= 0
WellFormed(p) ==
    /\ p \in Seq([kind : Kinds, signature : Seq(Uses(Len(p))), uses : Seq(Uses(Len(p)))])
    /\ \A d \in DOMAIN p :
          /\ Nests(p[d].signature) /\ Nests(p[d].uses)
          /\ p[d].kind = "alias" => /\ Len(p[d].uses) = 1
                                    /\ p[d].uses[1].form \in {"type", "value", "through"}
ASSUME ProgramsAssumption == \A p \in Programs : WellFormed(p)
ASSUME DepthAssumption == MaxDepth \in Nat

VARIABLES program,
          phase,         \* resolving, warning, finished, overflow
          turn,          \* the place of either loop in symbol_order
          stack,         \* resolutions in progress, the innermost last
          resolved,      \* what is memoised: signatures, bodies, definitions
          meaning,       \* Alias_info::hir: the definition whose type it is
          scopes,        \* Context::signature_scope_map
          use_count,     \* Symbol::use_count
          warnings,      \* the symbols reported as unused
          erroneous,     \* an error was reported
          constructors,  \* how often the constructor and field arenas have grown
          stale          \* a reference or an iterator was kept while they, or the
                         \* map of scopes, grew

vars == <<program, phase, turn, stack, resolved, meaning, scopes, use_count, warnings,
          erroneous, constructors, stale>>

Definitions == 1 .. Len(program)
None == 0

(* Symbols: definitions, parameters of functions, constructors.            *)
Symbols == {"definition", "parameter", "constructor"} \X Definitions
Own(d)         == <<"definition", d>>
Parameter(d)   == <<"parameter", d>>
Constructor(d) == <<"constructor", d>>

Task(part, d) == [part |-> part, of |-> d]
Tasks == [part : {"signature", "body", "definition"}, of : Definitions]
Kind(d) == program[d].kind
Text(task) ==
    IF task.part = "signature" THEN program[task.of].signature ELSE program[task.of].uses

(* What resolving a symbol starts with, and what a path to it asks for.    *)
Entry(d)  == IF Kind(d) = "function" THEN Task("body", d) ELSE Task("definition", d)
Needed(d) == IF Kind(d) = "function" THEN Task("signature", d) ELSE Task("definition", d)

(* resolve_function_body asks for its signature before its text.           *)
Frame(task) ==
    [task |-> task, held |-> <<>>,
     next |-> IF task.part = "body" THEN 0 ELSE 1,
     pending |-> IF task.part = "body" THEN task.of ELSE None]

Init ==
    /\ program \in Programs
    /\ phase = "resolving" /\ turn = 1 /\ stack = <<>>
    /\ resolved = {} /\ scopes = {} /\ warnings = {}
    /\ meaning = [d \in {} |-> None]
    /\ use_count = [s \in Symbols |-> 0]
    /\ erroneous = FALSE /\ constructors = 0 /\ stale = FALSE
-----------------------------------------------------------------------------
top  == stack[Len(stack)]
text == Text(top.task)
use  == text[top.next]
Active  == phase = "resolving" /\ stack # <<>>
Reading == Active /\ top.pending = None /\ top.next <= Len(text)
ReplaceTop(frame) == stack' = [stack EXCEPT ![Len(stack)] = frame]

(* Calling a resolution: the machine's stack may be exhausted. *)
Push(task) ==
    IF Len(stack) = MaxDepth THEN phase' = "overflow" /\ UNCHANGED stack
    ELSE stack' = Append(stack, Frame(task)) /\ UNCHANGED phase

(* analyze_document, the first loop: resolve_symbol. *)
BugResolveSymbolStays ==
    /\ phase = "resolving" /\ stack = <<>> /\ turn <= Len(program)
    /\ IF Entry(turn) \in resolved
       THEN UNCHANGED <<phase, stack, turn>>
       ELSE Push(Entry(turn)) /\ turn' = turn + 1
    /\ UNCHANGED <<program, resolved, meaning, scopes, use_count, warnings, erroneous,
                   constructors, stale>>
BugResolveSymbolReversed ==
    /\ phase = "resolving" /\ stack = <<>> /\ turn <= Len(program)
    /\ turn' = turn + 1
    /\ IF Entry(Len(program) + 1 - turn) \in resolved
       THEN UNCHANGED <<phase, stack>>
       ELSE Push(Entry(Len(program) + 1 - turn))
    /\ UNCHANGED <<program, resolved, meaning, scopes, use_count, warnings, erroneous,
                   constructors, stale>>
ResolveSymbol ==
    /\ phase = "resolving" /\ stack = <<>> /\ turn <= Len(program)
    /\ turn' = turn + 1
    /\ IF Entry(turn) \in resolved
       THEN UNCHANGED <<phase, stack>>
       ELSE Push(Entry(turn))
    /\ UNCHANGED <<program, resolved, meaning, scopes, use_count, warnings, erroneous,
                   constructors, stale>>

(* The second loop: warn_if_unused, once all are resolved. *)
BeginWarnings ==
    /\ phase = "resolving" /\ stack = <<>> /\ turn > Len(program)
    /\ phase' = "warning" /\ turn' = 1
    /\ UNCHANGED <<program, stack, resolved, meaning, scopes, use_count, warnings, erroneous,
                   constructors, stale>>
Unused(symbol) == IF use_count[symbol] = 0 THEN {symbol} ELSE {}
WarnIfUnused ==
    /\ phase = "warning"
    /\ IF turn <= Len(program)
       THEN /\ warnings' = warnings \cup Unused(Own(turn))
            /\ turn' = turn + 1 /\ UNCHANGED phase
       ELSE phase' = "finished" /\ UNCHANGED <<warnings, turn>>
    /\ UNCHANGED <<program, stack, resolved, meaning, scopes, use_count, erroneous,
                   constructors, stale>>
-----------------------------------------------------------------------------
(* Looking a path up: apply_segment counts the use, and the visitors go on *)
(* by the kind of the symbol they found.                                   *)
BugDemanding(form, kind) ==
    \/ form = "type" /\ kind \in {"alias", "structure"}
    \/ form = "through" /\ kind \in {"structure", "enumeration", "alias"}
    \/ form = "value" /\ kind \in {"function", "structure"}
    \/ form = "init" /\ kind = "structure"
Demanding(form, kind) ==
    \/ form = "type" /\ kind = "alias"
    \/ form = "through" /\ kind \in {"structure", "enumeration", "alias"}
    \/ form = "value" /\ kind \in {"function", "structure"}
    \/ form = "init" /\ kind = "structure"
Immediate(form, kind) == form = "type" /\ kind \in {"structure", "enumeration"}

(* The end of a struct initialiser that begins at i. *)
Matching(i) ==
    CHOOSE j \in i .. Len(text) :
        /\ Open(text, j) = Open(text, i - 1)
        /\ \A m \in i .. j - 1 : Open(text, m) # Open(text, i - 1)

(* After an error an initialiser is left without a look at its fields. *)
After == IF use.form = "init" THEN Matching(top.next) + 1 ELSE top.next + 1

Count(symbol) == use_count' = [use_count EXCEPT ![symbol] = @ + 1]
LookUp ==
    /\ Reading /\ use.form \in PathForms
    /\ Count(Own(use.of))
    /\ IF Demanding(use.form, Kind(use.of))
       THEN ReplaceTop([top EXCEPT !.pending = use.of]) /\ UNCHANGED erroneous
       ELSE /\ ReplaceTop([top EXCEPT !.next = After])
            /\ erroneous' = (erroneous \/ ~Immediate(use.form, Kind(use.of)))
    /\ UNCHANGED <<program, phase, turn, resolved, meaning, scopes, warnings, constructors,
                   stale>>

UseParameter ==
    /\ Reading /\ use.form = "parameter"
    /\ Count(Parameter(top.task.of))
    /\ ReplaceTop([top EXCEPT !.next = @ + 1])
    /\ UNCHANGED <<program, phase, turn, resolved, meaning, scopes, warnings, erroneous,
                   constructors, stale>>

(* resolve_function_signature, resolve_structure, resolve_enumeration,     *)
(* resolve_alias: what is not remembered is resolved now.  Nothing says    *)
(* that it is being resolved already.                                      *)
Pending == Active /\ top.pending # None
Call ==
    /\ Pending /\ Needed(top.pending) \notin resolved
    /\ Push(Needed(top.pending))
    /\ UNCHANGED <<program, turn, resolved, meaning, scopes, use_count, warnings, erroneous,
                   constructors, stale>>
Remembered == Pending /\ Needed(top.pending) \in resolved

(* The path or the function body goes on with what it asked for. *)
Asking == IF top.next = 0 THEN "body" ELSE use.form
Proceed ==
    /\ Remembered /\ Asking \in {"body", "type", "value", "init"}
    /\ LET frame == [top EXCEPT !.next = @ + 1, !.pending = None] IN
       IF Asking = "init"
       THEN ReplaceTop([frame EXCEPT !.held = Append(@, constructors)])
       ELSE ReplaceTop(frame)
    /\ UNCHANGED <<program, phase, turn, resolved, meaning, scopes, use_count, warnings,
                   erroneous, constructors, stale>>

(* symbol_environment and type_associated_environment: through an alias to *)
(* the type it means, and into the environment of constructors, which is   *)
(* empty for a structure.                                                  *)
ProceedThrough ==
    /\ Remembered /\ Asking = "through"
    /\ LET d == top.pending
           done == [top EXCEPT !.next = @ + 1, !.pending = None]
       IN  CASE Kind(d) = "enumeration" ->
                    /\ Count(Constructor(d))
                    /\ ReplaceTop(done) /\ UNCHANGED erroneous
             [] Kind(d) = "alias" /\ meaning[d] # None ->
                    /\ ReplaceTop([top EXCEPT !.pending = meaning[d]])
                    /\ UNCHANGED <<use_count, erroneous>>
             [] OTHER -> /\ erroneous' = TRUE
                         /\ ReplaceTop(done) /\ UNCHANGED use_count
    /\ UNCHANGED <<program, phase, turn, resolved, meaning, scopes, warnings, constructors,
                   stale>>

(* The initialiser reads what it looked up before its field's expression   *)
(* was resolved.                                                           *)
ReadField ==
    /\ Reading /\ use.form = "field"
    /\ LET n == Len(top.held) IN
       /\ stale' = (stale \/ top.held[n] # constructors)
       /\ ReplaceTop([top EXCEPT !.next = @ + 1, !.held = SubSeq(@, 1, n - 1)])
    /\ UNCHANGED <<program, phase, turn, resolved, meaning, scopes, use_count, warnings,
                   erroneous, constructors>>
-----------------------------------------------------------------------------
(* The type that an alias stands for: a structure or enumeration, or none  *)
(* of them (an error, or a type without an environment).                   *)
Owner(d) == IF Kind(d) = "alias" THEN meaning[d] ELSE d
BugTypeOf(u) == IF u.form \in {"type", "value"} THEN u.of ELSE None
TypeOf(u) ==
    CASE u.form = "type" /\ Kind(u.of) \in {"structure", "enumeration", "alias"} -> Owner(u.of)
      [] u.form = "value" /\ Kind(u.of) = "structure" -> u.of
      [] u.form = "through" /\ Kind(u.of) \in {"enumeration", "alias"} ->
             IF Owner(u.of) # None /\ Kind(Owner(u.of)) = "enumeration"
             THEN Owner(u.of) ELSE None
      [] OTHER -> None

(* The text of the innermost resolution is finished: remember and return.  *)
Returning(part) == Active /\ top.pending = None /\ top.next > Len(text)
                   /\ top.task.part = part
Pop      == stack' = SubSeq(stack, 1, Len(stack) - 1)
Remember == resolved' = resolved \cup {top.task}

BugReturnSignature ==
    /\ Returning("signature")
    /\ Pop /\ Remember
    /\ UNCHANGED <<program, phase, turn, meaning, scopes, use_count, warnings, erroneous,
                   constructors, stale>>
(* A body keeps an iterator to its scope from its start to its end.        *)
KeepsIterator(frame) == frame.task.part = "body" /\ frame.next > 0
ReturnSignature ==
    /\ Returning("signature")
    /\ Pop /\ Remember
    /\ scopes' = scopes \cup {top.task.of}
    /\ stale' = (stale \/ \E i \in DOMAIN stack : KeepsIterator(stack[i]))
    /\ UNCHANGED <<program, phase, turn, meaning, use_count, warnings, erroneous,
                   constructors>>
ReturnBody ==
    /\ Returning("body")
    /\ Pop /\ Remember
    /\ warnings' = warnings \cup Unused(Parameter(top.task.of))
    /\ scopes' = scopes \ {top.task.of}
    /\ UNCHANGED <<program, phase, turn, meaning, use_count, erroneous, constructors, stale>>
ReturnDefinition ==
    /\ Returning("definition")
    /\ Pop /\ Remember
    /\ LET d == top.task.of IN
       /\ constructors' = IF Kind(d) \in {"structure", "enumeration"}
                          THEN constructors + 1 ELSE constructors
       /\ meaning' = IF Kind(d) = "alias"
                     THEN [a \in DOMAIN meaning \cup {d} |->
                              IF a = d THEN TypeOf(text[1]) ELSE meaning[a]]
                     ELSE meaning
       /\ erroneous' = (erroneous \/ Kind(d) = "concept")
    /\ UNCHANGED <<program, phase, turn, scopes, use_count, warnings, stale>>

Next ==
    \/ ResolveSymbol \/ BeginWarnings \/ WarnIfUnused
    \/ LookUp \/ UseParameter \/ Call \/ Proceed \/ ProceedThrough \/ ReadField
    \/ ReturnSignature \/ ReturnBody \/ ReturnDefinition

(* One thread that waits for nothing. *)
Spec == Init /\ [][Next]_vars /\ WF_vars(Next)
-----------------------------------------------------------------------------
(* resolve_function_body finds the scope of its signature, which is there  *)
(* from the end of the signature to the end of the body, whoever asked for *)
(* the signature first and whatever else is resolved in between.           *)
ScopeLastsUntilBody ==
    \A f \in Definitions :
        f \in scopes <=> /\ Task("signature", f) \in resolved
                         /\ Task("body", f) \notin resolved

(* What the text alone says: the type an alias means, and what each task   *)
(* needs before it can be complete.                                        *)
Target(u, means) ==
    CASE u.form = "type" -> means
      [] u.form = "value" -> IF Kind(u.of) = "structure" THEN u.of ELSE None
      [] u.form = "through" -> IF means # None /\ Kind(means) = "enumeration" THEN means ELSE None
      [] OTHER -> None
Means[n \in 0 .. Len(program)] ==
    [d \in Definitions |->
        IF Kind(d) \in {"structure", "enumeration"} THEN d
        ELSE IF Kind(d) # "alias" \/ n = 0 THEN None
        ELSE Target(program[d].uses[1], Means[n - 1][program[d].uses[1].of])]
Denotes(d) == Means[Len(program)][d]
NeededBy(u) ==
    LET kind == Kind(u.of) definition == Task("definition", u.of) IN
    CASE u.form = "type" /\ kind = "alias" -> {definition}
      [] u.form = "value" /\ kind = "function" -> {Task("signature", u.of)}
      [] u.form \in {"value", "init"} /\ kind = "structure" -> {definition}
      [] u.form = "through" /\ kind \in {"structure", "enumeration"} -> {definition}
      [] u.form = "through" /\ kind = "alias" ->
             {definition} \cup {Task("definition", d) : d \in {Denotes(u.of)} \ {None}}
      [] OTHER -> {}
Needs(task) ==
    (UNION {NeededBy(Text(task)[i]) : i \in DOMAIN Text(task)})
    \cup (IF task.part = "body" THEN {Task("signature", task.of)} ELSE {})

(* Definitions that need each other: a set of tasks none of which can be   *)
(* the first to be complete.                                               *)
Written == {t \in Tasks : Kind(t.of) = "function" <=> t.part # "definition"}
Cyclic == \E S \in SUBSET Written : S # {} /\ \A t \in S : Needs(t) \cap S # {}

(* The depth of the calls is bounded by the text unless definitions need   *)
(* each other, and then the resolution does not end: nothing reports it.   *)
OverflowMeansCycle == /\ phase = "overflow" => Cyclic
                      /\ phase = "finished" /\ ~erroneous => ~Cyclic

(* Whatever order definitions are needed in, an alias means what the text  *)
(* says.                                                                   *)
AliasMeansItsText ==
    \A d \in DOMAIN meaning : meaning[d] = Denotes(d) \/ Cyclic

(* Every path that names a symbol is counted exactly once, although texts  *)
(* are resolved on demand and out of order; no symbol is reported as       *)
(* unused before everything that may use it has been resolved.             *)
Occurrences(d) ==
    UNION {{<<t, i>> : i \in {j \in DOMAIN Text(t) : /\ Text(t)[j].form \in PathForms
                                                     /\ Text(t)[j].of = d}} : t \in Written}
ParameterUses(d) ==
    UNION {{<<t, i>> : i \in {j \in DOMAIN Text(t) : Text(t)[j].form = "parameter"}} :
           t \in {u \in Written : u.of = d}}
UseCountsMatchText ==
    phase = "finished" /\ ~erroneous =>
        /\ \A d \in Definitions : /\ use_count[Own(d)] = Cardinality(Occurrences(d))
                                  /\ use_count[Parameter(d)] = Cardinality(ParameterUses(d))
        /\ warnings = {Own(d) : d \in {e \in Definitions : Occurrences(e) = {}}}
                      \cup {Parameter(d) : d \in {f \in Definitions :
                               Kind(f) = "function" /\ ParameterUses(f) = {}}}

(* What resolution records is what the text alone says. *)
ResolutionMatchesText == AliasMeansItsText /\ UseCountsMatchText

(* A struct initialiser keeps references into the arenas of constructors   *)
(* and fields while its fields are resolved, and a body an iterator into   *)
(* the hash map of scopes.  When every definition is written before its    *)
(* first use, none of these grows meanwhile.                               *)
InOrder == \A t \in Written : \A i \in DOMAIN Text(t) :
               Text(t)[i].form \in PathForms => Text(t)[i].of < t.of
HeldReferencesAreFresh == InOrder => ~stale

(* Resolution ends or exhausts the machine's stack, and by                 *)
(* OverflowMeansCycle it ends unless definitions need each other.          *)
ResolutionEnds == <>(phase \in {"finished", "overflow"})
=============================================================================

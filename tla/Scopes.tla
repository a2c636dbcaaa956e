------------------------------- MODULE Scopes -------------------------------
(***************************************************************************)
(* Names and loops inside one function (libresolve): environments and      *)
(* symbols, shadowing and redefinition, use counts, unused warnings and    *)
(* the result type of a loop.                                              *)
(*                                                                         *)
(* The text of the function is chosen while it is resolved, one event at a *)
(* time, in the order of resolution:                                       *)
(*   template   a template parameter: a type or a mutability               *)
(*   pattern    the pattern of a function parameter or of a match arm      *)
(*   binding    a pattern or name that is bound when what belongs to it    *)
(*              has been resolved: the initializer of a let, the type of   *)
(*              a local alias, the guard of a match arm                    *)
(*   block      a block, or the operand of typeof: a scope of its own      *)
(*   loop, break, continue, use                                            *)
(*   end        of the innermost binding, block, loop or break             *)
(* A match has no event: its scrutinee and its arms are resolved in the    *)
(* scope it stands in.  A symbol is identified by the place that binds it. *)
(***************************************************************************)
EXTENDS Integers, Sequences, FiniteSets

CONSTANTS Names,
          Silent,        \* the names that begin with an underscore
          Vocabularies   \* which events and names a text is made of, and how many

ASSUME VocabulariesAssumption ==
    \A v \in Vocabularies : /\ v.names \subseteq Names /\ v.patterns \subseteq Seq(Names)
                           /\ v.kinds \subseteq {"variable", "type"}

VARIABLES vocabulary,
          written,       \* history: the events so far
          open,          \* what the resolution is inside of, the innermost last
          arena,         \* environments and symbols
          loop,          \* Block_state::loop_info
          refers,        \* what a use refers to, whose type a break or loop has
          stage          \* reading, finished

functionVars == <<vocabulary, written, open, arena, loop, refers, stage>>

Unbound == <<>>
NoLoop == [at |-> 0, result |-> 0]
Global(name) == <<name>>
Module    == 1     \* the environment of the module the function stands in
Signature == 2     \* the scope of its signature, and of a body without braces

NoNames == [n \in Names |-> Unbound]
Symbol(name, kind) == [name |-> name, kind |-> kind, uses |-> 0, warned |-> 0]

FunctionInit ==
    /\ vocabulary \in Vocabularies
    /\ \E globals \in SUBSET vocabulary.names :
          arena = [environments |->
                     <<[map |-> [n \in Names |-> IF n \in globals THEN Global(n) ELSE Unbound],
                        parent |-> 0],
                       [map |-> NoNames, parent |-> Module]>>,
                   symbols |-> [s \in {Global(n) : n \in globals} |->
                                   Symbol(s[1], "definition")]]
    /\ written = <<>> /\ open = <<>> /\ loop = NoLoop
    /\ refers = [i \in {} |-> Unbound]
    /\ stage = "reading"
-----------------------------------------------------------------------------
Put(f, s, v) == [x \in {s} \cup DOMAIN f |-> IF x = s THEN v ELSE f[x]]

NewScope(a, parent) ==
    [a EXCEPT !.environments = Append(@, [map |-> NoNames, parent |-> parent])]

IsUnused(symbol) == symbol.uses = 0 /\ symbol.name \notin Silent
WarnUnused(a, s) ==
    IF IsUnused(a.symbols[s]) THEN [a EXCEPT !.symbols[s].warned = @ + 1] ELSE a
ReportUnused(a, env) ==
    LET bound == {a.environments[env].map[n] : n \in Names}
        reported == [s \in DOMAIN a.symbols |-> IF s \in bound /\ IsUnused(a.symbols[s])
                        THEN [a.symbols[s] EXCEPT !.warned = @ + 1] ELSE a.symbols[s]]
    IN  [a EXCEPT !.symbols = reported]

CanShadow(kind) == kind \in {"variable", "type"}

BugBindSilently(a, env, name, s, kind) ==
    LET old == a.environments[env].map[name]
        new == [a EXCEPT !.symbols = Put(@, s, Symbol(name, kind))]
    IN  IF old # Unbound /\ ~CanShadow(a.symbols[old].kind) THEN new
        ELSE [new EXCEPT !.environments[env].map[name] = s]
BindSymbol(a, env, name, s, kind) ==
    LET old == a.environments[env].map[name]
        new == [a EXCEPT !.symbols = Put(@, s, Symbol(name, kind))]
        met == IF old = Unbound THEN new ELSE WarnUnused(new, old)
    IN  IF old # Unbound /\ ~CanShadow(a.symbols[old].kind) THEN new
        ELSE [met EXCEPT !.environments[env].map[name] = s]

(* The names of a pattern, from left to right. *)
BindPattern(a, env, at, names, kind) ==
    LET bound[k \in 0 .. Len(names)] ==
            IF k = 0 THEN a ELSE BindSymbol(bound[k - 1], env, names[k], <<at, k>>, kind)
    IN  bound[Len(names)]

BugStartingPointInnermost(a, env, name) ==
    LET climb[e \in 0 .. env] ==
            IF e = 0 \/ a.environments[e].map[name] # Unbound THEN e
            ELSE IF e = env THEN climb[a.environments[e].parent] ELSE 0
    IN  climb[env]
(* Parents are older than their children. *)
StartingPoint(a, env, name) ==
    LET climb[e \in 0 .. env] ==
            IF e = 0 \/ a.environments[e].map[name] # Unbound THEN e
            ELSE climb[a.environments[e].parent]
    IN  climb[env]
-----------------------------------------------------------------------------
here   == Len(written) + 1
env_id == IF open = <<>> THEN Signature ELSE open[Len(open)].env
inner  == open[Len(open)]
InLoop == loop # NoLoop

(* The next event, when there is room for it and for the ends of all that  *)
(* is open then.                                                           *)
Reads(event, opens) ==
    /\ stage = "reading"
    /\ event.what \in vocabulary.events
    /\ here + Len(open) + (IF opens THEN 1 ELSE 0) <= vocabulary.most
    /\ written' = Append(written, event)
Enter(env) == open' = Append(open, [at |-> here, env |-> env, outer |-> loop])
Leaves(what) ==
    /\ stage = "reading" /\ open # <<>> /\ written[inner.at].what = what
    /\ written' = Append(written, [what |-> "end"])
    /\ open' = SubSeq(open, 1, Len(open) - 1)

TemplateParameter ==
    /\ \A i \in DOMAIN written : written[i].what = "template"
    /\ \E name \in vocabulary.names, kind \in {"type", "mutability"} :
          /\ Reads([what |-> "template", names |-> <<name>>, kind |-> kind], FALSE)
          /\ arena' = BindSymbol(arena, Signature, name, <<here, 1>>, kind)
    /\ UNCHANGED <<vocabulary, open, loop, refers, stage>>

Pattern ==
    /\ \E names \in vocabulary.patterns :
          /\ Reads([what |-> "pattern", names |-> names, kind |-> "variable"], FALSE)
          /\ arena' = BindPattern(arena, env_id, here, names, "variable")
    /\ UNCHANGED <<vocabulary, open, loop, refers, stage>>

(* A local alias is one name. *)
BeginBinding ==
    /\ \E names \in vocabulary.patterns, kind \in vocabulary.kinds :
          /\ kind = "type" => Len(names) = 1
          /\ Reads([what |-> "binding", names |-> names, kind |-> kind], TRUE)
    /\ Enter(env_id)
    /\ UNCHANGED <<vocabulary, arena, loop, refers, stage>>
EndBinding ==
    /\ Leaves("binding")
    /\ arena' = BindPattern(arena, inner.env, inner.at, written[inner.at].names, written[inner.at].kind)
    /\ UNCHANGED <<vocabulary, loop, refers, stage>>

BeginBlock ==
    /\ Reads([what |-> "block"], TRUE)
    /\ arena' = NewScope(arena, env_id)
    /\ Enter(Len(arena.environments) + 1)
    /\ UNCHANGED <<vocabulary, loop, refers, stage>>
EndBlock ==
    /\ Leaves("block")
    /\ arena' = ReportUnused(arena, inner.env)
    /\ UNCHANGED <<vocabulary, loop, refers, stage>>

(* resolve_path with one segment, and apply_segment. *)
Use ==
    /\ \E name \in vocabulary.names :
          LET start == StartingPoint(arena, env_id, name)
              s == IF start = 0 THEN Unbound ELSE arena.environments[start].map[name]
          IN  /\ Reads([what |-> "use", names |-> <<name>>], FALSE)
              /\ arena' = IF s = Unbound THEN arena ELSE [arena EXCEPT !.symbols[s].uses = @ + 1]
              /\ refers' = Put(refers, here, s)
    /\ UNCHANGED <<vocabulary, open, loop, stage>>

BeginLoop ==
    /\ Reads([what |-> "loop"], TRUE)
    /\ Enter(env_id)
    /\ loop' = [at |-> here, result |-> 0]
    /\ UNCHANGED <<vocabulary, arena, refers, stage>>
BugEndLoopForgets ==
    /\ Leaves("loop")
    /\ refers' = Put(refers, inner.at, loop.result)
    /\ loop' = NoLoop
    /\ UNCHANGED <<vocabulary, arena, stage>>
EndLoop ==
    /\ Leaves("loop")
    /\ refers' = Put(refers, inner.at, loop.result)
    /\ loop' = inner.outer
    /\ UNCHANGED <<vocabulary, arena, stage>>

BeginBreak ==
    /\ InLoop /\ Reads([what |-> "break"], TRUE)
    /\ Enter(env_id)
    /\ UNCHANGED <<vocabulary, arena, loop, refers, stage>>
(* The first operand to be resolved gives the loop its type, the others    *)
(* are related to it.                                                      *)
EndBreak ==
    /\ Leaves("break")
    /\ LET result == IF loop.result = 0 THEN inner.at ELSE loop.result
       IN  /\ loop' = [loop EXCEPT !.result = result]
           /\ refers' = Put(refers, inner.at, result)
    /\ UNCHANGED <<vocabulary, arena, stage>>
(* Outside of a loop, an operand is not resolved; nor has a continue one.  *)
Exit ==
    /\ \/ ~InLoop /\ Reads([what |-> "break"], FALSE)
       \/ Reads([what |-> "continue"], FALSE)
    /\ refers' = Put(refers, here, loop.at)
    /\ UNCHANGED <<vocabulary, open, arena, loop, stage>>

(* resolve_function_body, once the body is resolved. *)
EndOfBody ==
    /\ stage = "reading" /\ open = <<>>
    /\ arena' = ReportUnused(arena, Signature)
    /\ stage' = "finished"
    /\ UNCHANGED <<vocabulary, written, open, loop, refers>>

FunctionNext ==
    \/ TemplateParameter \/ Pattern \/ BeginBinding \/ EndBinding
    \/ BeginBlock \/ EndBlock \/ Use \/ EndOfBody
    \/ BeginLoop \/ EndLoop \/ BeginBreak \/ EndBreak \/ Exit

FunctionSpec == FunctionInit /\ [][FunctionNext]_functionVars
-----------------------------------------------------------------------------
(* What a text means, read without environments.                           *)
Elements(s) == {s[i] : i \in DOMAIN s}
Largest(S)  == CHOOSE m \in S : \A n \in S : n <= m
Smallest(S) == CHOOSE m \in S : \A n \in S : m <= n

(* The constructs that are open behind each event. *)
Opens(t, i, before) ==
    \/ t[i].what \in {"binding", "block", "loop"}
    \/ t[i].what = "break" /\ \E j \in Elements(before) : t[j].what = "loop"
Behind(t, i, before) ==
    IF t[i].what = "end" THEN SubSeq(before, 1, Len(before) - 1)
    ELSE IF Opens(t, i, before) THEN Append(before, i) ELSE before
Around(t) ==
    LET around[i \in 0 .. Len(t)] == IF i = 0 THEN <<>> ELSE Behind(t, i, around[i - 1])
    IN  around
Enclosing(t, i, what) == {j \in Elements(Around(t)[i - 1]) : t[j].what = what}
Innermost(t, i, what) == Largest({0} \cup Enclosing(t, i, what))
Ends(t, i) == {j \in i + 1 .. Len(t) : Len(Around(t)[j]) < Len(Around(t)[i])}
Closed(t, i) == Ends(t, i) # {}

(* A name counts from the place where its binding is complete. *)
Effect(t, i) == IF t[i].what # "binding" THEN i
                ELSE IF Closed(t, i) THEN Smallest(Ends(t, i)) ELSE Len(t) + 1
Binding(t)  == {i \in DOMAIN t : t[i].what \in {"template", "pattern", "binding"}}
Bindings(t) == UNION {{i} \X DOMAIN t[i].names : i \in Binding(t)}
NameOf(t, s)  == t[s[1]].names[s[2]]
ScopeOf(t, s) == Innermost(t, s[1], "block")
Binders(t, name, scope, i) ==
    {s \in Bindings(t) : NameOf(t, s) = name /\ ScopeOf(t, s) = scope /\ Effect(t, s[1]) < i}
Before(t, r, s) == \/ Effect(t, r[1]) < Effect(t, s[1])
                   \/ r[1] = s[1] /\ r[2] < s[2]
Earliest(t, S) == CHOOSE s \in S : \A r \in S \ {s} : Before(t, s, r)
Latest(t, S)   == CHOOSE s \in S : \A r \in S \ {s} : Before(t, r, s)

(* In one scope the latest binding hides the others, but a mutability      *)
(* stays.                                                                  *)
IsFixed(t, s)  == t[s[1]].kind = "mutability"
Standing(t, S) == LET fixed == {s \in S : IsFixed(t, s)}
                  IN  IF fixed = {} THEN Latest(t, S) ELSE Earliest(t, fixed)
Local(t, name, i) ==
    LET binding == {s \in {0} \cup Enclosing(t, i, "block") : Binders(t, name, s, i) # {}}
    IN  IF binding = {} THEN Unbound ELSE Standing(t, Binders(t, name, Largest(binding), i))
Lexical(name, i) ==
    LET s == Local(written, name, i)
    IN  IF s # Unbound THEN s
        ELSE IF Global(name) \in DOMAIN arena.symbols THEN Global(name) ELSE Unbound

Where(t, what) == {i \in DOMAIN t : t[i].what = what}
Mentions == Where(written, "use")

(* Every name means what the text says: the latest binding of the          *)
(* innermost scope that has one, counted from the end of its initializer,  *)
(* type or guard; then a definition of the module; else nothing.           *)
NamesResolveLexically ==
    stage = "finished" => \A i \in Mentions : refers[i] = Lexical(written[i].names[1], i)

(* A binding that no name means is reported, exactly once, when it is      *)
(* shadowed or its scope ends; nothing that is used is ever reported, nor  *)
(* what could not be bound, nor a name that begins with an underscore.     *)
Hidden(t, s) == \E r \in Binders(t, NameOf(t, s), ScopeOf(t, s), Effect(t, s[1])) : IsFixed(t, r)
Wanted(s) == /\ NameOf(written, s) \notin Silent /\ ~Hidden(written, s)
             /\ \A i \in Mentions : Lexical(written[i].names[1], i) # s
Locals == {s \in DOMAIN arena.symbols : Len(s) = 2}
UnusedIsReportedOnce ==
    stage = "finished" =>
        \A s \in Locals : arena.symbols[s].warned = IF Wanted(s) THEN 1 ELSE 0

(* A break belongs to the innermost loop around it, through blocks, other  *)
(* breaks and loops that have ended.  The operand that is complete first   *)
(* gives the loop its type, and all others must fit that one.              *)
BreaksOf(t, l) == {i \in Where(t, "break") : Closed(t, i) /\ Innermost(t, i, "loop") = l}
First(t, l) == IF BreaksOf(t, l) = {} THEN 0
               ELSE CHOOSE i \in BreaksOf(t, l) :
                        \A j \in BreaksOf(t, l) : Smallest(Ends(t, i)) <= Smallest(Ends(t, j))
BreaksBelongToTheirLoop ==
    stage = "finished" =>
        /\ \A l \in Where(written, "loop") :
              /\ refers[l] = First(written, l)
              /\ \A i \in BreaksOf(written, l) : refers[i] = First(written, l)
        /\ \A i \in Where(written, "break") \cup Where(written, "continue") :
              Innermost(written, i, "loop") = 0 => refers[i] = 0
=============================================================================

----------------------------- MODULE Unification -----------------------------
(***************************************************************************)
(* Type inference inside one function body (libresolve): the Block_state   *)
(* of type and mutability variables, unification.cpp, occurs_check.cpp,    *)
(* and the solving and flattening of variables in resolve.cpp, driven by   *)
(* the expressions and patterns that create variables and relate types.    *)
(*                                                                         *)
(* A body is a sequence of let statements.  One action resolves one of     *)
(* them, another one is the end of the body, where                         *)
(* ensure_no_unsolved_variables decides what was left open.  The body is   *)
(* resolved by one thread, so nothing comes between.                       *)
(*                                                                         *)
(* Pairs stand for tuples, arrays and slices, references for pointers too; *)
(* functions have one parameter.  Both sets of variables are kept as the   *)
(* leaders and class sizes that DisjointSet implements.                    *)
(***************************************************************************)
EXTENDS Integers, Sequences, FiniteSets

CONSTANT Vocabularies   \* which bodies are resolved, see Statements

VARIABLES vocabulary,
          block,        \* the types and mutabilities of the arena, the Block_state
          names,        \* the local variables bound so far, with their mutability
          required,     \* history: everything that was asked for
          phase,        \* "resolving" or "finished"
          statements    \* how many statements have been resolved

vars == <<vocabulary, block, names, required, phase, statements>>

-----------------------------------------------------------------------------
(* Types.  A slot is a hir::Type_id; the first ones are Builtins.          *)
Variable(v)         == [kind |-> "Variable", var |-> v]
Builtin(b)          == [kind |-> "Builtin", builtin |-> b]
Pair(s, t)          == [kind |-> "Pair", types |-> <<s, t>>]
Function(result, s) == [kind |-> "Function", types |-> <<result, s>>]
Reference(s, mut)   == [kind |-> "Reference", types |-> <<s>>, mut |-> mut]
Error               == [kind |-> "Error"]

IsVariable(t)  == t.kind = "Variable"
IsComposite(t) == t.kind \in {"Pair", "Function", "Reference"}
Never          == Builtin("Never")
Integral       == {Builtin("I32"), Builtin("U8")}

(* The last one is the type of a function the program declares elsewhere:  *)
(* from Bool to I32.                                                       *)
BuiltinTypes == <<Error, Builtin("Bool"), Builtin("I32"), Builtin("U8"), Never, Function(3, 2)>>
BuiltinSlot(t) == CHOOSE i \in DOMAIN BuiltinTypes : BuiltinTypes[i] = t

(* Mutabilities have an arena of their own.  M and N are two mutability    *)
(* parameters of the function's template.                                  *)
Mutability(m) == [kind |-> m]
Mut     == Mutability("Mut")
Immut   == Mutability("Immut")
Generic == {Mutability("M"), Mutability("N")}
BuiltinMutabilities == <<Error, Mut, Immut, Mutability("M"), Mutability("N")>>
MutabilitySlot(m) == CHOOSE i \in DOMAIN BuiltinMutabilities : BuiltinMutabilities[i] = m

(* The parts of the block: type_vars with their kinds, slots and is_solved *)
(* flags, type_var_set as the leader of each variable, the same for        *)
(* mutabilities, and what was reported.  History: the composite types that *)
(* are being compared, and marks for what is known to go wrong:            *)
(*   late      two classes were merged after one had a solution            *)
(*   mixed     a class has variables of both kinds                         *)
(*   blind     a class was solved with a type one of its other members     *)
(*             occurs in                                                   *)
(*   never     a solution gave way to `!`, which is checked as a subtype of *)
(*             it even when it is to be its supertype                      *)
(*   torn      a type was overwritten while it was being compared          *)
EmptyBlock == [types |-> BuiltinTypes, vars |-> <<>>, leader |-> <<>>,
               muts |-> BuiltinMutabilities, mutVars |-> <<>>, mutLeader |-> <<>>,
               reported |-> {}, busy |-> {}, marks |-> {}]

Type(b, slot)   == b.types[slot]
Root(b, v)      == b.vars[b.leader[v]]
MutRoot(b, v)   == b.mutVars[b.mutLeader[v]]
Report(b, what) == [b EXCEPT !.reported = @ \cup {what}]
Marked(b, what, condition) == IF condition THEN [b EXCEPT !.marks = @ \cup {what}] ELSE b

(* Slips the code might contain have names that begin with Bug: each is an *)
(* alternative to the definition behind it, and a property refutes it.     *)
(* fresh_general_type_variable and fresh_integral_type_variable            *)
Fresh(b, kind) ==
    LET v == Len(b.vars) + 1
        s == Len(b.types) + 1
    IN  [b EXCEPT !.types  = Append(@, Variable(v)),
                  !.vars   = Append(@, [slot |-> s, kind |-> kind, solved |-> FALSE]),
                  !.leader = Append(@, v)]
FreshMutability(b) ==
    LET v == Len(b.mutVars) + 1
    IN  [b EXCEPT !.muts      = Append(@, Variable(v)),
                  !.mutVars   = Append(@, [slot |-> Len(b.muts) + 1, solved |-> FALSE]),
                  !.mutLeader = Append(@, v)]

(* A new type at the end of the arena. *)
Push(b, type) == [b EXCEPT !.types = Append(@, type)]

-----------------------------------------------------------------------------
(* flatten_type on the type in a slot: a solved class shows its solution.  *)
Flatten(b, slot) ==
    LET t == Type(b, slot)
    IN  IF ~IsVariable(t) \/ ~Root(b, t.var).solved THEN b
        ELSE [b EXCEPT !.types[slot] = Type(b, Root(b, t.var).slot),
                       !.vars[t.var].solved = TRUE]

(* occurs_check looks for the variable itself, in slots as they stand. *)
RECURSIVE Occurs(_, _, _)
BugOccursInFirst(b, v, type) ==
    CASE IsVariable(type)  -> type.var = v
      [] IsComposite(type) -> Occurs(b, v, Type(b, type.types[1]))
      [] OTHER             -> FALSE
Occurs(b, v, type) ==
    CASE IsVariable(type)  -> type.var = v
      [] IsComposite(type) -> \E i \in DOMAIN type.types : Occurs(b, v, Type(b, type.types[i]))
      [] OTHER             -> FALSE

(* Disjoint_set::merge: the lighter root stays, on a tie the first. *)
Members(leader, v) == {u \in DOMAIN leader : leader[u] = leader[v]}
Merged(leader, v, w) ==
    LET x  == leader[v]
        y  == leader[w]
        up == IF Cardinality(Members(leader, y)) < Cardinality(Members(leader, x)) THEN y ELSE x
    IN  [u \in DOMAIN leader |-> IF leader[u] \in {x, y} THEN up ELSE leader[u]]

(* merge_variable_kinds, on the two variables and on no other member. *)
MergeKinds(b, v, w) ==
    IF "Integral" \in {b.vars[v].kind, b.vars[w].kind}
    THEN [b EXCEPT !.vars[v].kind = "Integral", !.vars[w].kind = "Integral"]
    ELSE b

UnifyVariables(b, v, w) ==
    LET kinds  == MergeKinds(b, v, w)
        merged == [kinds EXCEPT !.leader = Merged(@, v, w)]
        late   == b.leader[v] # b.leader[w] /\ (Root(b, v).solved \/ Root(b, w).solved)
        mixed  == \E u \in Members(merged.leader, v) : merged.vars[u].kind # merged.vars[v].kind
    IN  IF v = w THEN b ELSE Marked(Marked(merged, "late", late), "mixed", mixed)
UnifyMutabilityVariables(b, v, w) ==
    LET late == b.mutLeader[v] # b.mutLeader[w] /\ (MutRoot(b, v).solved \/ MutRoot(b, w).solved)
    IN  IF v = w THEN b ELSE Marked([b EXCEPT !.mutLeader = Merged(@, v, w)], "late", late)

Ok(b)        == [block |-> b, result |-> "Ok"]
Failed(b, r) == [block |-> b, result |-> r]
Check(b, condition) == IF condition THEN Ok(b) ELSE Failed(b, "Mismatch")

-----------------------------------------------------------------------------
(* Mutability_visitor: mutable can be used where less is asked for.        *)
IsSubmutability(sub, super) ==
    \/ sub = super /\ sub # Error
    \/ sub = Mut /\ super \in Generic \cup {Immut}
    \/ sub \in Generic /\ super = Immut

RECURSIVE UnifyMutability(_, _, _), SetMutSolution(_, _, _)
UnifyMutability(b, sub, super) ==
    CASE IsVariable(sub) /\ IsVariable(super) ->
            Ok(UnifyMutabilityVariables(b, sub.var, super.var))
      [] IsVariable(sub) /\ ~IsVariable(super) -> Ok(SetMutSolution(b, sub.var, super))
      [] IsVariable(super) /\ ~IsVariable(sub) -> Ok(SetMutSolution(b, super.var, sub))
      [] OTHER -> Check(b, IsSubmutability(sub, super))
SetMutSolution(b, v, mutability) ==
    LET root == b.mutLeader[v]
        slot == b.mutVars[root].slot
        old  == b.muts[slot]
        met  == IF b.mutVars[root].solved THEN UnifyMutability(b, mutability, old) ELSE Ok(b)
        seen == IF met.result = "Ok" THEN met.block ELSE Report(met.block, met.result)
    IN  [seen EXCEPT !.muts[slot] = mutability, !.mutVars[root].solved = TRUE]

-----------------------------------------------------------------------------
(* A type is compared where it stands in the arena, or as a temporary.     *)
At(b, slot)     == [type |-> b.types[slot], slot |-> slot]
Temporary(type) == [type |-> type, slot |-> 0]

(* The slots below some slots, those included: as the code's traversals    *)
(* find them, or with every variable standing for its class.               *)
ClassSlot(b, slot) == IF IsVariable(b.types[slot]) THEN Root(b, b.types[slot].var).slot ELSE slot
Children(b, slots) ==
    UNION {{b.types[s].types[i] : i \in DOMAIN b.types[s].types} :
           s \in {s \in slots : IsComposite(b.types[s])}}
ClassChildren(b, slots) == Children(b, {ClassSlot(b, s) : s \in slots})
RECURSIVE Below(_, _), BelowClasses(_, _), Endless(_, _, _), EndlessMeaning(_, _, _)
Below(b, slots) ==
    LET more == slots \cup Children(b, slots) IN IF more = slots THEN slots ELSE Below(b, more)
BelowClasses(b, slots) ==
    LET more == {ClassSlot(b, s) : s \in slots \cup ClassChildren(b, slots)}
    IN  IF more = slots THEN slots ELSE BelowClasses(b, more)

(* The class of v occurs in the type, and v itself does not.               *)
OccursUnseen(b, v, type) ==
    /\ IsComposite(type)
    /\ LET parts == {type.types[i] : i \in DOMAIN type.types}
       IN  /\ Root(b, v).slot \in BelowClasses(b, parts)
           /\ b.vars[v].slot \notin Below(b, parts)

(* A traversal of a type that contains itself does not end: the stack of   *)
(* the process does.                                                       *)
Endless(b, slots, fuel) ==
    slots # {} /\ (fuel = 0 \/ Endless(b, Children(b, slots), fuel - 1))
EndlessMeaning(b, slots, fuel) ==
    slots # {} /\ (fuel = 0 \/ EndlessMeaning(b, ClassChildren(b, slots), fuel - 1))
EndlessType(b, type) ==
    IsComposite(type) /\ Endless(b, {type.types[i] : i \in DOMAIN type.types}, Len(b.types))

(* Type_visitor and require_subtype_relationship *)
RECURSIVE Unify(_, _, _), SetSolution(_, _, _), Require(_, _, _)

Solution(b, v, type) ==
    IF Occurs(b, v, type) THEN Failed(b, "Recursive")
    ELSE Ok(SetSolution(Marked(b, "blind", OccursUnseen(b, v, type)), v, type))

TrySolve(b, v, type) ==
    IF b.vars[v].kind = "Integral" /\ type \notin Integral
    THEN Failed(b, "Mismatch") ELSE Solution(b, v, type)

(* Part by part from left to right, a function's result first, until one   *)
(* fails; the mutability of a reference last.                              *)
UnifyParts(b, sub, super) ==
    LET busy == [b EXCEPT !.busy = @ \cup {sub.slot, super.slot}]
        part[i \in 0 .. Len(sub.type.types)] ==
            IF i = 0 THEN Ok(busy)
            ELSE LET before == part[i - 1] IN
                 IF before.result # "Ok" THEN before
                 ELSE Unify(before.block, At(before.block, sub.type.types[i]),
                                          At(before.block, super.type.types[i]))
        parts == part[Len(sub.type.types)]
        all   == IF sub.type.kind = "Reference" /\ parts.result = "Ok"
                 THEN UnifyMutability(parts.block, parts.block.muts[sub.type.mut],
                                                   parts.block.muts[super.type.mut])
                 ELSE parts
    IN  [all EXCEPT !.block.busy = b.busy]

Unify(b, subAt, superAt) ==
    LET sub   == subAt.type
        super == superAt.type
    IN  CASE EndlessType(b, sub) \/ EndlessType(b, super) -> Failed(b, "Overflow")
          [] IsVariable(sub) /\ IsVariable(super) -> Ok(UnifyVariables(b, sub.var, super.var))
          [] IsVariable(sub) /\ ~IsVariable(super) -> TrySolve(b, sub.var, super)
          [] IsVariable(super) /\ ~IsVariable(sub) /\ sub # Never -> TrySolve(b, super.var, sub)
          [] sub = Never \/ (Error \in {sub, super} /\ ~IsVariable(sub)
                                                    /\ ~IsVariable(super)) -> Ok(b)
          [] IsComposite(sub) /\ sub.kind = super.kind -> UnifyParts(b, subAt, superAt)
          [] OTHER -> Check(b, sub = super)

(* The root of the class before the nested check is the one that is        *)
(* written after it, whatever the check found or merged.                   *)
SetSolution(b, v, type) ==
    LET root == b.leader[v]
        slot == b.vars[root].slot
        met  == IF b.vars[root].solved THEN Require(b, Temporary(type), At(b, slot)) ELSE b
    IN  Marked(Marked([met EXCEPT !.types[slot] = type, !.vars[root].solved = TRUE],
                      "torn", slot \in b.busy),
               "never", b.vars[root].solved /\ type = Never /\ b.types[slot] # Never)

Require(b, sub, super) ==
    LET u == Unify(b, sub, super)
    IN  IF u.result = "Ok" THEN u.block ELSE Report(u.block, u.result)

RequireSlots(b, sub, super) == Require(b, At(b, sub), At(b, super))

-----------------------------------------------------------------------------
(* Expressions.  Each resolves to a slot, a mutability slot, whether it is *)
(* a place, a new block and the obligations it stands for.                 *)
Slot(s) == [kind |-> "Slot", slot |-> s]
Obligation(what, sub, super)       == [what |-> what, sub |-> sub, super |-> super]
Resolved(b, slot, mut, place, asks) ==
    [block |-> b, slot |-> slot, mut |-> mut, place |-> place, asks |-> asks]
Value(b, slot, asks) == Resolved(b, slot, MutabilitySlot(Immut), FALSE, asks)
ErrorExpression(b)   == Resolved(b, BuiltinSlot(Error), MutabilitySlot(Mut), TRUE, {})

(* Operands are a wildcard, an integer literal, `ret` of something, the    *)
(* function declared elsewhere, or the name bound n-th.                    *)
Hole  == 0
One   == -1
Ret   == -2
Known == -3
IsName(o) == o > 0

Operand(b, o) ==
    CASE o = Hole  -> Resolved(Fresh(b, "General"), Len(b.types) + 1, MutabilitySlot(Mut), FALSE, {})
      [] o = One   -> Value(Fresh(b, "Integral"), Len(b.types) + 1,
                            {Obligation("literal", Slot(Len(b.types) + 1), Never)})
      [] o = Ret   -> Value(b, BuiltinSlot(Never), {})
      [] o = Known -> Value(b, Len(BuiltinTypes), {})
      [] OTHER     -> Resolved(b, names[o].slot, names[o].mut, TRUE, {})

(* resolve_mutability.  Any other name is not a mutability.                *)
ResolveMutability(b, m) ==
    IF m \in {"Mut", "Immut", "M", "N"}
    THEN [block |-> b, slot |-> MutabilitySlot(Mutability(m))]
    ELSE [block |-> Report(b, "NoMutability"), slot |-> MutabilitySlot(Error)]

(* resolve_type: `_`, a built-in type, or `&I32` and `&mut I32`.           *)
ResolveType(b, t) ==
    CASE t = "_"    -> [block |-> Fresh(b, "General"), slot |-> Len(b.types) + 1]
      [] t = "&"    -> [block |-> Push(b, Reference(BuiltinSlot(Builtin("I32")), MutabilitySlot(Immut))),
                        slot |-> Len(b.types) + 1]
      [] t = "&mut" -> [block |-> Push(b, Reference(BuiltinSlot(Builtin("I32")), MutabilitySlot(Mut))),
                        slot |-> Len(b.types) + 1]
      [] OTHER      -> [block |-> b, slot |-> BuiltinSlot(Builtin(t))]

(* A step of an expression: relate two slots, and remember that it did.    *)
Relate(b, sub, super, asks) ==
    [block |-> RequireSlots(b, sub, super),
     asks |-> asks \cup {Obligation("subtype", Slot(sub), Slot(super))}]

(* if true { l } else { r }: the type of the true branch is the result.    *)
Conditional(b, e) ==
    LET true    == Operand(b, e.l)
        false   == Operand(true.block, e.r)
        related == Relate(false.block, false.slot, true.slot, true.asks \cup false.asks)
    IN  Value(related.block, true.slot, related.asks)

(* (l, r) *)
Tuple(b, e) ==
    LET left  == Operand(b, e.l)
        right == Operand(left.block, e.r)
    IN  Value(Push(right.block, Pair(left.slot, right.slot)), Len(right.block.types) + 1,
              left.asks \cup right.asks)

(* l.i: the type of l is flattened in place and must be a pair.  A field   *)
(* of something erroneous is an error that is not reported again.          *)
TupleField(b, e) ==
    LET base == Operand(b, e.l)
        flat == Flatten(base.block, base.slot)
        type == Type(flat, base.slot)
    IN  CASE type.kind = "Pair" ->
                Resolved(flat, type.types[IF e.note = "first" THEN 1 ELSE 2],
                         base.mut, base.place, base.asks)
          [] type = Error -> ErrorExpression(flat)
          [] OTHER -> ErrorExpression(Report(flat, "NoField"))

(* l: note.  The expression keeps its category and its mutability.         *)
Ascription(b, e) ==
    LET value   == Operand(b, e.l)
        super   == ResolveType(value.block, e.note)
        related == Relate(super.block, value.slot, super.slot, value.asks)
    IN  Resolved(related.block, super.slot, value.mut, value.place, related.asks)

(* *l: a place of a fresh type and a fresh mutability. *)
Dereference(b, e) ==
    LET type      == Len(b.types) + 1
        mut       == Len(b.muts) + 1
        pointer   == Operand(FreshMutability(Fresh(b, "General")), e.l)
        reference == Reference(type, mut)
    IN  Resolved(Require(pointer.block, At(pointer.block, pointer.slot), Temporary(reference)),
                 type, mut, TRUE,
                 pointer.asks \cup {Obligation("subtype", Slot(pointer.slot), reference)})

(* The table of visitors in Addressof: which mutability a reference to a   *)
(* place gets, what is solved on the way, or that it is refused.           *)
BugBorrowIgnoresGenericPlace(b, place, requested) ==
    LET Granted(slot) == [block |-> b, slot |-> slot]
        have == b.muts[place]
        want == b.muts[requested]
    IN  CASE want = Error /\ have # Error -> Granted(place)
          [] have = Error -> Granted(requested)
          [] IsVariable(have) /\ want # Immut ->
                [block |-> SetMutSolution(b, have.var, want), slot |-> requested]
          [] have = Mut /\ want = Mut -> Granted(place)
          [] want = Immut \/ have \in Generic \cup {Mut} -> Granted(requested)
          [] OTHER -> [block |-> Report(b, "Borrow"), slot |-> 0]
Borrow(b, place, requested) ==
    LET Granted(slot) == [block |-> b, slot |-> slot]
        have == b.muts[place]
        want == b.muts[requested]
    IN  CASE want = Error /\ have # Error -> Granted(place)
          [] have = Error -> Granted(requested)
          [] IsVariable(have) /\ want # Immut ->
                [block |-> SetMutSolution(b, have.var, want), slot |-> requested]
          [] have = Mut /\ want = Mut -> Granted(place)
          [] want = Immut \/ have \in {want, Mut} -> Granted(requested)
          [] OTHER -> [block |-> Report(b, "Borrow"), slot |-> 0]

(* &note place *)
Addressof(place, note) ==
    LET m       == ResolveMutability(place.block, note)
        granted == Borrow(m.block, place.mut, m.slot)
    IN  CASE ~place.place -> ErrorExpression(Report(m.block, "NoAddress"))
          [] place.place /\ granted.slot = 0 -> ErrorExpression(granted.block)
          [] OTHER -> Value(Push(granted.block, Reference(place.slot, granted.slot)),
                            Len(granted.block.types) + 1,
                            place.asks \cup {Obligation("borrow", place.mut, m.slot)})

(* l(r): a known function is asked for its parameter; anything else has to *)
(* be a function from a fresh type to a fresh type, its result first.      *)
Call(b, e) ==
    LET invocable == Operand(b, e.l)
        known     == Type(b, Len(BuiltinTypes))
        result    == Len(invocable.block.types) + 1
        fresh     == Fresh(Fresh(invocable.block, "General"), "General")
        function  == Function(result, result + 1)
        unified   == Require(fresh, At(fresh, invocable.slot), Temporary(function))
        asked     == invocable.asks \cup {Obligation("subtype", Slot(invocable.slot), function)}
        Argument(before, parameter, asks) ==
            LET argument == Operand(before, e.r)
            IN  Relate(argument.block, argument.slot, parameter, asks \cup argument.asks)
    IN  IF e.l = Known
        THEN LET call == Argument(b, known.types[2], {})
             IN  Value(call.block, known.types[1], call.asks)
        ELSE LET call == Argument(unified, result + 1, asked)
             IN  Value(call.block, result, call.asks)

(* match l { note -> r }: the pattern is a wildcard or an integer.         *)
Match(b, e) ==
    LET scrutinee == Operand(b, e.l)
        result    == Len(scrutinee.block.types) + 1
        pattern   == Fresh(Fresh(scrutinee.block, "General"),
                           IF e.note = "1" THEN "Integral" ELSE "General")
        matched   == Relate(pattern, scrutinee.slot, result + 1, scrutinee.asks)
        body      == Operand(matched.block, e.r)
        related   == Relate(body.block, body.slot, result, matched.asks \cup body.asks)
    IN  Value(related.block, result, related.asks)

Expression(b, e) ==
    CASE e.form = "operand"     -> Operand(b, e.l)
      [] e.form = "conditional" -> Conditional(b, e)
      [] e.form = "pair"        -> Tuple(b, e)
      [] e.form = "field"       -> TupleField(b, e)
      [] e.form = "ascription"  -> Ascription(b, e)
      [] e.form = "deref"       -> Dereference(b, e)
      [] e.form = "borrow"      -> Addressof(Operand(b, e.l), e.note)
      [] e.form = "reborrow"    -> Addressof(Dereference(b, e), e.note)
      [] e.form = "call"        -> Call(b, e)
      [] e.form = "match"       -> Match(b, e)

-----------------------------------------------------------------------------
(* Statements: let pattern: type = form.  A vocabulary says which forms,   *)
(* operands, notes, patterns, mutabilities and annotations the statements  *)
(* are made of, which statements come first, and how many there are.       *)
Operands(v)    == {o \in v.operands : o <= Len(names)}
Unused         == {Hole}
Notes(v, form) ==
    CASE form = "field"                  -> {"first", "second"}
      [] form = "ascription"             -> v.types
      [] form \in {"borrow", "reborrow"} -> v.muts
      [] form = "match"                  -> {"_", "1"}
      [] OTHER                           -> {"none"}
Form(form, left, right, notes) == [form : {form}, l : left, r : right, note : notes]
Expressions(v) ==
    UNION {Form(form, Operands(v),
                IF form \in {"conditional", "pair", "call", "match"} THEN Operands(v) ELSE Unused,
                Notes(v, form)) : form \in v.forms}
Statements(v) ==
    IF statements < Len(v.prelude) THEN {v.prelude[statements + 1]}
    ELSE [value : Expressions(v), pattern : v.patterns, mut : {"Immut"}, type : v.annotations]

(* resolve_pattern: a name, or a pair of names; a name is a fresh variable *)
(* and a place of the mutability it was written with.                      *)
Pattern(b, pattern, mut) ==
    LET m     == ResolveMutability(b, mut)
        first == Len(b.types) + 1
        fresh == Fresh(m.block, "General")
        pair  == Push(Fresh(fresh, "General"), Pair(first, first + 1))
        Name(slot) == [slot |-> slot, mut |-> m.slot]
    IN  IF pattern = "pair"
        THEN [block |-> pair, slot |-> first + 2, names |-> <<Name(first), Name(first + 1)>>]
        ELSE [block |-> fresh, slot |-> first, names |-> <<Name(first)>>]

Init == /\ vocabulary \in Vocabularies
        /\ block = EmptyBlock
        /\ names = <<>> /\ required = {}
        /\ phase = "resolving" /\ statements = 0

(* What stops the process, or leaves it in a state the model cannot follow. *)
Running == "Overflow" \notin block.reported /\ "torn" \notin block.marks

(* The initializer, the pattern, the annotated type, which the pattern is  *)
(* related to, and then the initializer to the pattern.                    *)
Let == /\ phase = "resolving" /\ statements < Len(vocabulary.prelude) + vocabulary.most
       /\ Running
       /\ \E s \in Statements(vocabulary) :
          \E value \in {Expression(block, s.value)} :
          \E pattern \in {Pattern(value.block, s.pattern, s.mut)} :
          \E typed \in {IF s.type = "none" THEN [block |-> pattern.block, asks |-> {}]
                       ELSE LET t == ResolveType(pattern.block, s.type)
                            IN  Relate(t.block, pattern.slot, t.slot, {})} :
          \E bound \in {Relate(typed.block, value.slot, pattern.slot, typed.asks)} :
             /\ block' = bound.block
             /\ names' = names \o pattern.names
             /\ required' = required \cup value.asks \cup bound.asks
       /\ statements' = statements + 1
       /\ UNCHANGED <<vocabulary, phase>>

(* ensure_no_unsolved_variables.  Its own flag decides what happens to a   *)
(* mutability variable, and nothing but a solution of its class while it   *)
(* was the leader has set that.                                            *)
EnsureMutability(b, v) ==
    IF b.mutVars[v].solved THEN b ELSE SetMutSolution(b, v, Immut)

BugEnsureSkipsFlatten(b, v) ==
    IF b.vars[v].solved THEN b
    ELSE IF b.vars[v].kind = "Integral" THEN SetSolution(b, v, Builtin("I32"))
    ELSE SetSolution(Report(b, "Unsolved"), v, Error)
BugEnsureForgetsGeneral(b, v) ==
    LET flat == Flatten(b, b.vars[v].slot)
    IN  IF flat.vars[v].solved THEN flat
        ELSE IF flat.vars[v].kind = "Integral" THEN SetSolution(flat, v, Builtin("I32"))
        ELSE Report(flat, "Unsolved")
(* A type variable's slot is flattened, and if it is still unsolved its    *)
(* class becomes I32 or an error.                                          *)
EnsureType(b, v) ==
    LET flat == Flatten(b, b.vars[v].slot)
    IN  IF flat.vars[v].solved THEN flat
        ELSE IF flat.vars[v].kind = "Integral" THEN SetSolution(flat, v, Builtin("I32"))
        ELSE SetSolution(Report(flat, "Unsolved"), v, Error)

Ensured(b) ==
    LET muts[v \in 0 .. Len(b.mutVars)] ==
            IF v = 0 THEN b ELSE EnsureMutability(muts[v - 1], v)
        types[v \in 0 .. Len(b.vars)] ==
            IF v = 0 THEN muts[Len(b.mutVars)] ELSE EnsureType(types[v - 1], v)
    IN  types[Len(b.vars)]

EndOfBody == /\ phase = "resolving" /\ phase' = "finished"
             /\ statements >= Len(vocabulary.prelude) /\ Running
             /\ block' = Ensured(block)
             /\ UNCHANGED <<vocabulary, names, required, statements>>

Next == Let \/ EndOfBody

Spec == Init /\ [][Next]_vars
-----------------------------------------------------------------------------
Slots     == DOMAIN block.types
Variables == DOMAIN block.vars

(* What a type or a mutability means once its variables are replaced by    *)
(* the solutions of their classes.                                         *)
Meaning(b, type) ==
    LET t == IF type.kind = "Slot" THEN Type(b, type.slot) ELSE type
    IN  IF IsVariable(t) THEN Type(b, Root(b, t.var).slot) ELSE t
MutMeaning(b, slot) ==
    LET m == b.muts[slot] IN IF IsVariable(m) THEN b.muts[MutRoot(b, m.var).slot] ELSE m

RECURSIVE IsSubtype(_, _, _)
IsSubtype(b, subtype, supertype) ==
    LET sub   == Meaning(b, subtype)
        super == Meaning(b, supertype)
    IN  \/ sub = super \/ sub = Never \/ Error \in {sub, super}
        \/ /\ IsComposite(sub) /\ sub.kind = super.kind
           /\ \A i \in DOMAIN sub.types : IsSubtype(b, Slot(sub.types[i]), Slot(super.types[i]))
           /\ sub.kind = "Reference" =>
                 IsSubmutability(MutMeaning(b, sub.mut), MutMeaning(b, super.mut))

(* No type contains itself, through the solutions of its variables: what   *)
(* occurs_check is there to refuse.                                        *)
NoTypeContainsItself == ~EndlessMeaning(block, Slots, Len(block.types))

Accepted == phase = "finished" /\ block.reported = {}

Subtypes == {o \in required : o.what = "subtype"}

(* A body that is accepted without a diagnostic satisfies every subtype    *)
(* relation that was required while it was resolved.                       *)
RequiredRelationsHold ==
    Accepted /\ NoTypeContainsItself =>
        \A o \in Subtypes : IsSubtype(block, o.sub, o.super)

(* The same for the bodies in which no class was merged with another after *)
(* one had a solution and no solution gave way to `!`; and in those, every *)
(* reference has at most the mutability of the place it refers to, and     *)
(* every integer literal is an integer unless a class mixes kinds.         *)
AcceptedBodyIsSound ==
    Accepted /\ NoTypeContainsItself /\ block.marks \cap {"late", "never"} = {} =>
        \A o \in required :
            CASE o.what = "subtype" -> IsSubtype(block, o.sub, o.super)
              [] o.what = "borrow"  -> LET have == MutMeaning(block, o.sub)
                                       IN  IsSubmutability(have, MutMeaning(block, o.super))
              [] o.what = "literal" -> \/ "mixed" \in block.marks
                                       \/ Meaning(block, o.sub) \in Integral

(* occurs_check looks for one variable of a class.  Wherever that is       *)
(* enough, no type comes to contain itself and every traversal of a type   *)
(* ends.  A type is overwritten under the visitor that walks it only in a  *)
(* body that has a diagnostic already.                                     *)
TypesStayFinite ==
    /\ block.marks \cap {"blind", "late"} = {} =>
          NoTypeContainsItself /\ "Overflow" \notin block.reported
    /\ "torn" \in block.marks => block.reported # {}

(* A variable is marked solved exactly when its own slot has stopped being *)
(* that variable: no step marks one and forgets the other.  After          *)
(* ensure_no_unsolved_variables every class of either sort is solved.      *)
EveryClassIsSolved ==
    /\ \A v \in Variables :
          block.vars[v].solved <=> Type(block, block.vars[v].slot) # Variable(v)
    /\ \A v \in DOMAIN block.mutVars :
          block.mutVars[v].solved <=> block.muts[block.mutVars[v].slot] # Variable(v)
    /\ phase = "finished" => /\ \A v \in Variables : Root(block, v).solved
                             /\ \A v \in DOMAIN block.mutVars : MutRoot(block, v).solved

(* ensure_no_unsolved_variables decides what was left open and nothing     *)
(* else.  The exception is a class of mutabilities with a member that is   *)
(* not flagged: it is asked to be immutable once more.                     *)
EnsuringRespectsSolutions ==
    [][phase' = "finished" =>
        /\ \A v \in Variables : Root(block, v).solved =>
              Type(block', Root(block, v).slot) = Type(block, Root(block, v).slot)
        /\ \A v \in DOMAIN block.mutVars :
              (\A u \in Members(block.mutLeader, v) : block.mutVars[u].solved) =>
                  MutMeaning(block', block.mutVars[v].slot) = MutMeaning(block, block.mutVars[v].slot)]_vars
=============================================================================

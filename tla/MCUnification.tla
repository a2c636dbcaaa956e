---------------------------- MODULE MCUnification ----------------------------
(* Small bodies for Unification: what their let statements are made of.    *)
EXTENDS Unification

Vocabulary(forms, operands, annotations, patterns, types, muts, prelude, most) ==
    [forms |-> forms, operands |-> operands, annotations |-> annotations,
     patterns |-> patterns, types |-> types, muts |-> muts, prelude |-> prelude, most |-> most]

Statement(form, l, r, note, mut) ==
    [value |-> [form |-> form, l |-> l, r |-> r, note |-> note],
     pattern |-> "name", mut |-> mut, type |-> "none"]
Bind(o, mut) == Statement("operand", o, Hole, "none", mut)

(* Anything but references, three times. *)
Types == Vocabulary({"operand", "conditional", "pair", "field", "ascription"}, {Hole, One, 1, 2},
                    {"none", "Bool"}, {"name"}, {"I32"}, {}, <<>>, 3)

(* let a = 1; let mut b = 1; let p = &a; let q = &mut b; let r = _;        *)
(* let _1 = *r; let _2 = *r; and then anything that relates, dereferences  *)
(* or borrows p, q and r.                                                  *)
Places == <<Bind(One, "Immut"), Bind(One, "Mut"),
            Statement("borrow", 1, Hole, "Immut", "Immut"), Statement("borrow", 2, Hole, "Mut", "Immut"),
            Bind(Hole, "Immut"),
            Statement("deref", 5, Hole, "none", "Immut"), Statement("deref", 5, Hole, "none", "Immut")>>
References == Vocabulary({"conditional", "deref", "reborrow"}, {3, 4, 5}, {"none"},
                         {"name"}, {}, {"Mut", "Immut"}, Places, 3)

(* Names of generic and of wrong mutability.                               *)
GenericPlaces == <<Bind(One, "M"), Bind(One, "Mut")>>
Generics == Vocabulary({"borrow", "reborrow", "operand"}, {1, 2, 3}, {"none", "&mut"},
                       {"name"}, {}, {"Mut", "Immut", "M", "N", "Error"}, GenericPlaces, 2)

(* Calls and matches; destructured pairs.                                  *)
Calls == Vocabulary({"call", "match"}, {Hole, One, Ret, Known, 1, 2}, {"none"},
                    {"name"}, {}, {}, <<>>, 2)
Pairs == Vocabulary({"operand", "pair"}, {Hole, One, 1, 2, 3, 4}, {"none", "_"},
                    {"name", "pair"}, {}, {}, <<>>, 2)

(* let a = _; let b = a; let c = (a, a); let d = (f, f); and then anything *)
(* that can knot them together.                                            *)
Knots == Vocabulary({"conditional"}, {1, 2, 3, 4}, {"none"}, {"name"}, {}, {},
                    <<Bind(Hole, "Immut"), Bind(1, "Immut"),
                      Statement("pair", 1, 1, "none", "Immut"),
                      Statement("pair", Known, Known, "none", "Immut")>>, 3)

(* What diverges, and what is declared to.                                 *)
Nevers == Vocabulary({"operand", "conditional"}, {Hole, Ret, 1, 2, 3}, {"none", "I32", "Never"},
                     {"name"}, {}, {}, <<>>, 3)
Bodies == {Nevers, Knots, Types, References, Generics, Calls, Pairs}

(* Names and wildcards only. *)
Aliases == {Vocabulary({"operand", "conditional"}, {Hole, 1, 2, 3}, {"none", "I32", "Bool"},
                       {"name"}, {}, {}, <<>>, 4)}
=============================================================================

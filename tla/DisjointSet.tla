----------------------------- MODULE DisjointSet -----------------------------
(***************************************************************************)
(* ki::utl::Disjoint_set (libutl/disjoint_set.cpp), the forest in which    *)
(* type and mutability variables are merged during unification.  One call  *)
(* runs at a time; one action is one turn of the loop of find, so that the *)
(* links are seen between the two searches of a merge and in the middle of *)
(* a path compression.                                                     *)
(***************************************************************************)
EXTENDS Integers, FiniteSets

CONSTANTS MaxNodes,     \* bound: no more nodes than this are ever added
          OutOfRange,   \* std::out_of_range, thrown by vector::at
          Void          \* what merge returns

ASSUME MaxNodesAssumption   == MaxNodes \in Nat
ASSUME OutOfRangeAssumption == OutOfRange \notin Nat
ASSUME VoidAssumption       == Void \notin Nat \cup {OutOfRange}

VARIABLES size,         \* m_parents.size() = m_weights.size()
          parents,      \* m_parents
          weights,      \* m_weights
          pc,           \* which call is running, and where it stands
          x, y,         \* the arguments of the call
          at,           \* the node find has climbed to
          root,         \* the representative merge found for x
          answer,       \* what the last call returned or threw
          leader        \* history: the class of each node, by its leader

code == <<size, parents, weights, pc, x, y, at, root, answer>>
vars == <<size, parents, weights, pc, x, y, at, root, answer, leader>>

Nodes == 0 .. (size - 1)

Searching == pc \in {"find", "merge_x", "merge_y"}
AtRoot    == at < size /\ parents[at] = at

-----------------------------------------------------------------------------
Init == /\ size \in 0 .. MaxNodes
        /\ parents = [n \in Nodes |-> n]
        /\ weights = [n \in Nodes |-> 1]
        /\ pc = "idle"
        /\ x = 0 /\ y = 0 /\ at = 0 /\ root = 0
        /\ answer = OutOfRange
        /\ leader = parents

(* Slips the code might contain have names that begin with Bug: each is an *)
(* alternative to the definition behind it, and a property refutes it.     *)
Add == /\ pc = "idle"
       /\ size < MaxNodes
       /\ size' = size + 1
       /\ parents' = [n \in Nodes' |-> IF n = size THEN n ELSE parents[n]]
       /\ weights' = [n \in Nodes' |-> IF n = size THEN 1 ELSE weights[n]]
       /\ leader'  = [n \in Nodes' |-> IF n = size THEN n ELSE leader[n]]
       /\ UNCHANGED <<pc, x, y, at, root, answer>>

(* A caller may ask about any index, also one that was never added. *)
CallFind == /\ pc = "idle" /\ pc' = "find"
            /\ x' \in 0 .. MaxNodes
            /\ at' = x'
            /\ UNCHANGED <<size, parents, weights, y, root, answer, leader>>

CallMerge == /\ pc = "idle" /\ pc' = "merge_x"
             /\ x' \in 0 .. MaxNodes /\ y' \in 0 .. MaxNodes
             /\ at' = x'
             /\ UNCHANGED <<size, parents, weights, root, answer, leader>>

(* m_parents.at(x) throws, and the call that was running is abandoned. *)
Throw == /\ Searching /\ at >= size
         /\ pc' = "idle" /\ answer' = OutOfRange
         /\ UNCHANGED <<size, parents, weights, x, y, at, root, leader>>

BugHalveWithoutMoving ==
    /\ Searching /\ at < size /\ ~AtRoot
    /\ parents' = [parents EXCEPT ![at] = parents[parents[at]]]
    /\ UNCHANGED <<size, weights, pc, x, y, at, root, answer, leader>>
(* x = parent = m_parents.at(parent): the node skips its parent, and so    *)
(* does the search.                                                        *)
Halve == /\ Searching /\ at < size /\ ~AtRoot
         /\ parents' = [parents EXCEPT ![at] = parents[parents[at]]]
         /\ at' = parents[parents[at]]
         /\ UNCHANGED <<size, weights, pc, x, y, root, answer, leader>>

FindReturns == /\ pc = "find" /\ AtRoot
               /\ pc' = "idle" /\ answer' = at
               /\ UNCHANGED <<size, parents, weights, x, y, at, root, leader>>

BugMergeFindsXTwice ==
    /\ pc = "merge_x" /\ AtRoot
    /\ pc' = "merge_y" /\ root' = at /\ at' = x
    /\ UNCHANGED <<size, parents, weights, x, y, answer, leader>>
(* merge keeps the representative of x and searches that of y. *)
MergeFindsX == /\ pc = "merge_x" /\ AtRoot
               /\ pc' = "merge_y" /\ root' = at /\ at' = y
               /\ UNCHANGED <<size, parents, weights, x, y, answer, leader>>

(* The root that stays and the root that is hung below it: after the swap  *)
(* the lighter one stays.                                                  *)
Upper(a, b) == IF weights[b] < weights[a] THEN b ELSE a
Lower(a, b) == IF weights[b] < weights[a] THEN a ELSE b

BugLinkWithoutWeight(a, b) ==
    /\ parents' = [parents EXCEPT ![Lower(a, b)] = Upper(a, b)]
    /\ UNCHANGED weights
BugLinkBelowArgument(a, b) ==
    /\ parents' = [parents EXCEPT ![y] = a]
    /\ weights' = [weights EXCEPT ![a] = @ + weights[b]]
Link(a, b) ==
    /\ parents' = [parents EXCEPT ![Lower(a, b)] = Upper(a, b)]
    /\ weights' = [weights EXCEPT ![Upper(a, b)] = @ + weights[Lower(a, b)]]

MergeLinks == /\ pc = "merge_y" /\ AtRoot /\ root # at
              /\ Link(root, at)
              /\ leader' = [n \in Nodes |-> IF leader[n] = Lower(root, at)
                                            THEN Upper(root, at) ELSE leader[n]]
              /\ pc' = "idle" /\ answer' = Void
              /\ UNCHANGED <<size, x, y, at, root>>

MergeFindsSame == /\ pc = "merge_y" /\ AtRoot /\ root = at
                  /\ pc' = "idle" /\ answer' = Void
                  /\ UNCHANGED <<size, parents, weights, x, y, at, root, leader>>

Step == \/ Throw \/ Halve \/ FindReturns
        \/ MergeFindsX \/ MergeLinks \/ MergeFindsSame
Next == Add \/ CallFind \/ CallMerge \/ Step

(* A call that has begun runs on: the processor does not stop in it.       *)
(* Nothing makes a caller call.                                            *)
Spec == Init /\ [][Next]_vars /\ WF_vars(Step)

(* find_without_compressing: climb to the root and change nothing. *)
FindWithoutCompressing ==
    LET climb[n \in Nodes] == IF parents[n] = n THEN n ELSE climb[parents[n]]
    IN  climb
-----------------------------------------------------------------------------
(* Every link and every weight belongs to a node that exists, and a search *)
(* never leaves the forest once it is in it.                               *)
TypeOK ==
    /\ size \in Nat
    /\ parents \in [Nodes -> Nodes]
    /\ weights \in [Nodes -> Nat \ {0}]
    /\ leader \in [Nodes -> Nodes]
    /\ pc \in {"idle", "find", "merge_x", "merge_y"}
    /\ x \in Nat /\ y \in Nat /\ at \in Nat
    /\ root \in Nat
    /\ answer \in Nat \cup {OutOfRange, Void}

(* A node that is not a root is strictly lighter than its parent, whatever *)
(* was merged and compressed: the links can have no cycle, though merge    *)
(* hangs the heavier root below the lighter one.                           *)
LighterThanParent ==
    \A n \in Nodes : parents[n] # n => weights[n] < weights[parents[n]]

(* The search of y, which rewrites links, leaves the root found for x a    *)
(* root: merge can link what it has found.                                 *)
FoundRootStays == pc = "merge_y" => root < size /\ parents[root] = root

(* Climbing without compression gives the leader that the merges made, in  *)
(* every state, so find and find_without_compressing agree.                *)
ClimbFindsLeader == \A n \in Nodes : FindWithoutCompressing[n] = leader[n]

(* Every call returns or throws: the loop of find ends. *)
CallReturns == pc # "idle" ~> pc = "idle"

(* The forest does what Partition promises: each find answers with the     *)
(* leader of the very node it was called with, each merge joins exactly    *)
(* the classes of its two arguments, also if the search of one rewrites    *)
(* the links of the other, and a call throws if and only if an argument    *)
(* was never added.                                                        *)
Abstract == INSTANCE Partition
              WITH call <- IF pc \in {"merge_x", "merge_y"} THEN "merge" ELSE pc
ImplementsPartition == Abstract!Spec
=============================================================================

-------------------------- MODULE DisjointSetProofs --------------------------
(***************************************************************************)
(* Proofs about DisjointSet, for every bound on the number of nodes.       *)
(*                                                                         *)
(* The inductive invariant adds to the properties of DisjointSet what they *)
(* rest on: leaders follow the links, the roots are exactly the nodes that *)
(* lead themselves, and a search never leaves the class it started in.     *)
(***************************************************************************)
EXTENDS DisjointSet, Minimum, TLAPS

(* A node has the leader of its parent; a node is a root exactly when it   *)
(* leads itself; every leader is a root.                                   *)
LeaderFollowsLinks ==
    \A n \in Nodes : /\ leader[parents[n]] = leader[n]
                     /\ parents[n] = n <=> leader[n] = n
                     /\ leader[leader[n]] = leader[n]

(* A search that started in the forest stays in the class of its start,    *)
(* and one that started outside has not moved.                             *)
StaysInClass(start) ==
    IF start < size THEN at < size /\ leader[at] = leader[start]
                    ELSE at >= size

SearchStaysInClass ==
    /\ pc \in {"find", "merge_x"} => StaysInClass(x)
    /\ pc = "merge_y" => /\ x < size /\ leader[x] = root
                         /\ StaysInClass(y)

IInv == /\ TypeOK
        /\ LighterThanParent
        /\ LeaderFollowsLinks
        /\ SearchStaysInClass
        /\ FoundRootStays

-----------------------------------------------------------------------------
(* The forest starts with every node a root of weight one. *)
LEMMA InitIInv == Init => IInv
<1> SUFFICES ASSUME Init PROVE IInv
  OBVIOUS
<1> USE MaxNodesAssumption, OutOfRangeAssumption DEF Init, Nodes
<1>1. TypeOK
  BY DEF TypeOK
<1>2. LighterThanParent
  BY DEF LighterThanParent
<1>3. LeaderFollowsLinks
  BY DEF LeaderFollowsLinks
<1>4. SearchStaysInClass /\ FoundRootStays
  BY DEF SearchStaysInClass, FoundRootStays
<1> QED
  BY <1>1, <1>2, <1>3, <1>4 DEF IInv

(* Adding a node that nothing points to disturbs no link. *)
LEMMA AddIInv == IInv /\ Add => IInv'
<1> SUFFICES ASSUME IInv, Add PROVE IInv'
  OBVIOUS
<1> USE DEF IInv, Add, Nodes, TypeOK
<1>1. TypeOK'
  OBVIOUS
<1>2. LighterThanParent'
  <2> SUFFICES ASSUME NEW n \in Nodes', parents'[n] # n
               PROVE  weights'[n] < weights'[parents'[n]]
    BY DEF LighterThanParent
  <2>1. n \in Nodes /\ parents[n] \in Nodes /\ parents'[n] = parents[n]
    OBVIOUS
  <2>2. weights'[n] = weights[n] /\ weights'[parents[n]] = weights[parents[n]]
    BY <2>1
  <2> QED
    BY <2>1, <2>2 DEF LighterThanParent
<1>3. LeaderFollowsLinks'
  BY DEF LeaderFollowsLinks
<1>4. (SearchStaysInClass /\ FoundRootStays)'
  BY DEF SearchStaysInClass, FoundRootStays
<1> QED
  BY <1>1, <1>2, <1>3, <1>4

(* A call, and the return of one, changes only where the search stands. *)
LEMMA CallIInv == IInv /\ (CallFind \/ CallMerge) => IInv'
<1> SUFFICES ASSUME IInv, CallFind \/ CallMerge PROVE IInv'
  OBVIOUS
<1> USE MaxNodesAssumption DEF IInv, CallFind, CallMerge, Nodes, TypeOK
<1>1. TypeOK'
  OBVIOUS
<1>2. LighterThanParent' /\ LeaderFollowsLinks'
  BY DEF LighterThanParent, LeaderFollowsLinks
<1>3. (SearchStaysInClass /\ FoundRootStays)'
  BY DEF SearchStaysInClass, StaysInClass, FoundRootStays
<1> QED
  BY <1>1, <1>2, <1>3

LEMMA ReturnIInv ==
    IInv /\ (Throw \/ FindReturns \/ MergeFindsX \/ MergeFindsSame) => IInv'
<1> SUFFICES ASSUME IInv,
                    Throw \/ FindReturns \/ MergeFindsX \/ MergeFindsSame
             PROVE  IInv'
  OBVIOUS
<1> USE DEF IInv, Throw, FindReturns, MergeFindsX, MergeFindsSame, AtRoot,
            Nodes, TypeOK
<1>1. TypeOK'
  OBVIOUS
<1>2. LighterThanParent' /\ LeaderFollowsLinks'
  BY DEF LighterThanParent, LeaderFollowsLinks
<1>3. CASE Throw \/ FindReturns \/ MergeFindsSame
  <2> (SearchStaysInClass /\ FoundRootStays)'
    BY <1>3 DEF SearchStaysInClass, FoundRootStays
  <2> QED
    BY <1>1, <1>2
<1>4. CASE MergeFindsX
  <2>1. at \in Nodes /\ leader[at] = at
    BY <1>4 DEF LeaderFollowsLinks
  <2>2. x < size /\ leader[x] = at
    BY <1>4, <2>1 DEF SearchStaysInClass, StaysInClass
  <2>3. SearchStaysInClass'
    BY <1>4, <2>2 DEF SearchStaysInClass, StaysInClass
  <2>4. FoundRootStays'
    BY <1>4, <2>1 DEF FoundRootStays
  <2> QED
    BY <1>1, <1>2, <2>3, <2>4
<1> QED
  BY <1>3, <1>4

(* Halving a path moves a node to its grandparent: it is in the same class *)
(* and heavier than the parent, so heavier than the node.                  *)
LEMMA HalveIInv == IInv /\ Halve => IInv'
<1> SUFFICES ASSUME IInv, Halve PROVE IInv'
  OBVIOUS
<1> USE DEF IInv, Halve, AtRoot, Nodes, TypeOK
<1> DEFINE up == parents[parents[at]]
<1>1. at \in Nodes /\ parents[at] \in Nodes /\ up \in Nodes /\ parents[at] # at
  OBVIOUS
<1>2. weights[at] < weights[up]
  <2>1. weights[at] < weights[parents[at]]
    BY <1>1 DEF LighterThanParent
  <2>2. up = parents[at] \/ weights[parents[at]] < weights[up]
    BY <1>1 DEF LighterThanParent
  <2>3. /\ weights[at] \in Nat /\ weights[parents[at]] \in Nat
        /\ weights[up] \in Nat
    BY <1>1
  <2> HIDE DEF up, IInv, Halve, TypeOK
  <2> QED
    BY <2>1, <2>2, <2>3
<1>3. leader[up] = leader[at] /\ leader[at] # at
  BY <1>1 DEF LeaderFollowsLinks
<1>4. up # at
  BY <1>1, <1>2
<1>5. TypeOK'
  <2>1. parents' = [parents EXCEPT ![at] = up] /\ at' = up /\ size' = size
    OBVIOUS
  <2>2. parents' \in [Nodes -> Nodes]
    <3> HIDE DEF up
    <3> QED
      BY <1>1, <2>1
  <2>3. at' \in Nat
    BY <1>1, <2>1
  <2> QED
    BY <2>2, <2>3
<1>6. LighterThanParent'
  BY <1>1, <1>2 DEF LighterThanParent
<1>7. LeaderFollowsLinks'
  BY <1>1, <1>3, <1>4 DEF LeaderFollowsLinks
<1>8. at < size /\ at' < size /\ leader'[at'] = leader[at]
  BY <1>1, <1>3
<1>9. SearchStaysInClass'
  <2>1. /\ size' = size /\ leader' = leader /\ root' = root
        /\ pc' = pc /\ x' = x /\ y' = y
        /\ at \in Nat /\ size \in Nat
    OBVIOUS
  <2>2. SearchStaysInClass
    OBVIOUS
  <2> HIDE DEF Halve, TypeOK, IInv
  <2> QED
    BY <2>1, <2>2, <1>8 DEF SearchStaysInClass, StaysInClass
<1>10. FoundRootStays'
  BY <1>1 DEF FoundRootStays
<1> QED
  BY <1>5, <1>6, <1>7, <1>9, <1>10

(* Linking hangs one root below another whose weight grows past its own.   *)
(* Both were leaders, and every node that one of them led follows it.      *)
LEMMA LinkIInv == IInv /\ MergeLinks => IInv'
<1> SUFFICES ASSUME IInv, MergeLinks PROVE IInv'
  OBVIOUS
<1> DEFINE up == Upper(root, at)
           lo == Lower(root, at)
<1> USE DEF IInv, Nodes
<1>1. /\ up \in Nodes /\ lo \in Nodes /\ up # lo
      /\ parents[up] = up /\ parents[lo] = lo
  <2>1. /\ root \in Nodes /\ at \in Nodes /\ root # at
        /\ parents[root] = root /\ parents[at] = at
    BY DEF MergeLinks, AtRoot, FoundRootStays, TypeOK
  <2> QED
    BY <2>1 DEF Upper, Lower
<1>2. /\ parents' = [parents EXCEPT ![lo] = up]
      /\ weights' = [weights EXCEPT ![up] = weights[up] + weights[lo]]
      /\ leader'  = [n \in Nodes |-> IF leader[n] = lo THEN up ELSE leader[n]]
      /\ size' = size /\ pc' = "idle"
      /\ UNCHANGED <<x, y, at, root>> /\ answer' = Void
  BY DEF MergeLinks, Link
<1> HIDE DEF up, lo
<1>3. /\ weights[up] \in Nat \ {0} /\ weights[lo] \in Nat \ {0}
      /\ \A n \in Nodes : weights[n] \in Nat
  BY <1>1 DEF TypeOK
<1>4. TypeOK'
  <2>1. weights' \in [Nodes -> Nat \ {0}]
    <3>1. weights[up] + weights[lo] \in Nat \ {0}
      BY <1>3
    <3>2. weights \in [Nodes -> Nat \ {0}]
      BY DEF TypeOK
    <3> HIDE DEF IInv
    <3> QED
      BY <1>1, <1>2, <3>1, <3>2
  <2>2. parents' \in [Nodes -> Nodes] /\ leader' \in [Nodes -> Nodes]
    BY <1>1, <1>2 DEF TypeOK
  <2> QED
    BY <1>2, <2>1, <2>2 DEF TypeOK
<1>5. LighterThanParent'
  <2> SUFFICES ASSUME NEW n \in Nodes, parents'[n] # n
               PROVE  weights'[n] < weights'[parents'[n]]
    BY <1>2 DEF LighterThanParent
  <2>1. CASE n = lo
    BY <1>1, <1>2, <1>3, <2>1 DEF TypeOK
  <2>2. CASE n # lo
    <3>1. parents'[n] = parents[n] /\ n # up /\ parents[n] \in Nodes
      BY <1>1, <1>2, <2>2 DEF TypeOK
    <3>2. weights[n] < weights[parents[n]]
      BY <3>1 DEF LighterThanParent
    <3>3. weights'[n] = weights[n]
      BY <1>1, <1>2, <3>1 DEF TypeOK
    <3>4. /\ weights'[parents[n]] >= weights[parents[n]]
          /\ weights'[parents[n]] \in Nat
      <4>1. CASE parents[n] = up
        <5>1. weights'[up] = weights[up] + weights[lo]
          BY <1>1, <1>2 DEF TypeOK
        <5> HIDE DEF IInv
        <5> QED
          BY <1>3, <4>1, <5>1
      <4>2. CASE parents[n] # up
        BY <1>2, <1>3, <3>1, <4>2 DEF TypeOK
      <4> QED
        BY <4>1, <4>2
    <3> QED
      BY <1>3, <3>1, <3>2, <3>3, <3>4
  <2> QED
    BY <2>1, <2>2
<1>6. LeaderFollowsLinks'
  BY <1>1, <1>2 DEF LeaderFollowsLinks, TypeOK
<1>7. (SearchStaysInClass /\ FoundRootStays)'
  BY <1>2 DEF SearchStaysInClass, FoundRootStays
<1> QED
  BY <1>4, <1>5, <1>6, <1>7

LEMMA NextIInv == IInv /\ [Next]_vars => IInv'
<1> SUFFICES ASSUME IInv, [Next]_vars PROVE IInv'
  OBVIOUS
<1>1. CASE UNCHANGED vars
  BY <1>1 DEF vars, IInv, TypeOK, LighterThanParent, LeaderFollowsLinks,
              SearchStaysInClass, StaysInClass, FoundRootStays, Nodes
<1>2. CASE Next
  BY <1>2, AddIInv, CallIInv, ReturnIInv, HalveIInv, LinkIInv DEF Next, Step
<1> QED
  BY <1>1, <1>2

(* Every reachable state satisfies the inductive invariant. *)
THEOREM Inductive == Spec => []IInv
BY InitIInv, NextIInv, PTL DEF Spec

(* Every link and weight belongs to a node that exists, for any number of  *)
(* nodes.                                                                  *)
THEOREM TypeCorrect == Spec => []TypeOK
<1>1. IInv => TypeOK
  BY DEF IInv
<1> QED
  BY <1>1, Inductive, PTL

(* No sequence of adds, merges and compressions closes a cycle of links:   *)
(* weights grow along every link.                                          *)
THEOREM NoCycle == Spec => []LighterThanParent
<1>1. IInv => LighterThanParent
  BY DEF IInv
<1> QED
  BY <1>1, Inductive, PTL

(* The representative merge found first is still a root when it links. *)
THEOREM RootStays == Spec => []FoundRootStays
<1>1. IInv => FoundRootStays
  BY DEF IInv
<1> QED
  BY <1>1, Inductive, PTL

-----------------------------------------------------------------------------
(* Climbing without compression.                                           *)

(* The recursion has a solution: the leaders are one.  So what             *)
(* FindWithoutCompressing chooses is a solution too.                       *)
Climbs(f) == f = [n \in Nodes |-> IF parents[n] = n THEN n ELSE f[parents[n]]]
LEMMA ClimbClimbs == IInv => Climbs(FindWithoutCompressing)
<1> SUFFICES ASSUME IInv PROVE Climbs(FindWithoutCompressing)
  OBVIOUS
<1>1. FindWithoutCompressing = CHOOSE f : Climbs(f)
  BY DEF FindWithoutCompressing, Climbs
<1>2. Climbs(leader)
  BY DEF IInv, TypeOK, LeaderFollowsLinks, Climbs
<1>3. Climbs(CHOOSE f : Climbs(f))
  BY <1>2, Zenon
<1> QED
  BY <1>1, <1>3

(* There is no other solution.  A heaviest node on which a solution        *)
(* disagrees with the leaders is no root; its parent has the same leader   *)
(* and the same solution, and is heavier.                                  *)
LEMMA ClimbIsUnique ==
    ASSUME IInv, NEW f, Climbs(f)
    PROVE  \A n \in Nodes : f[n] = leader[n]
<1> DEFINE Wrong == {n \in Nodes : f[n] # leader[n]}
<1>1. size \in Nat /\ parents \in [Nodes -> Nodes] /\ weights \in [Nodes -> Nat]
  BY DEF IInv, TypeOK
<1>2. PICK b \in Nat : \A n \in Nodes : weights[n] <= b
  BY <1>1, UpperBound DEF Nodes
<1> DEFINE Below == {b - weights[n] : n \in Wrong}
<1>3. ASSUME Wrong # {}
      PROVE  FALSE
  <2>1. Below \subseteq Nat /\ Below # {}
    <3>1. \A n \in Wrong : weights[n] \in Nat /\ weights[n] <= b
      BY <1>1, <1>2
    <3>2. \A n \in Wrong : b - weights[n] \in Nat
      BY <3>1
    <3> QED
      BY <1>3, <3>2
  <2>2. PICK least \in Below : \A k \in Below : least <= k
    BY <2>1, LeastNumber
  <2>3. PICK n \in Wrong : least = b - weights[n]
    BY <2>2
  <2>4. parents[n] \in Nodes /\ leader[parents[n]] = leader[n]
        /\ f[n] = IF parents[n] = n THEN n ELSE f[parents[n]]
    BY <1>1 DEF IInv, LeaderFollowsLinks, Climbs
  <2>5. CASE parents[n] = n
    BY <2>4, <2>5 DEF IInv, LeaderFollowsLinks
  <2>6. CASE parents[n] # n
    <3>1. parents[n] \in Wrong
      BY <2>4, <2>6
    <3>2. weights[n] < weights[parents[n]]
      BY <2>6 DEF IInv, LighterThanParent
    <3>3. b - weights[n] <= b - weights[parents[n]]
      BY <2>2, <2>3, <3>1
    <3>4. weights[n] \in Nat /\ weights[parents[n]] \in Nat
      BY <1>1, <2>4
    <3> QED
      BY <3>2, <3>3, <3>4
  <2> QED
    BY <2>5, <2>6
<1> QED
  BY <1>3

(* Climbing without compression finds the leader that the merges made, in  *)
(* every state of a search or a merge: find and find_without_compressing   *)
(* agree, and neither runs in a circle.                                    *)
THEOREM ClimbStaysRight == Spec => []ClimbFindsLeader
<1>1. IInv => ClimbFindsLeader
  BY ClimbClimbs, ClimbIsUnique DEF ClimbFindsLeader
<1> QED
  BY <1>1, Inductive, PTL

-----------------------------------------------------------------------------
(* What the search has found when it stops: a node outside of the forest   *)
(* is the argument that the running call was made with, and a root is the  *)
(* leader of that argument.                                                *)
LEMMA SearchFindsLeader ==
    ASSUME IInv, Searching
    PROVE  /\ at >= size => \/ pc \in {"find", "merge_x"} /\ x \notin Nodes
                            \/ pc = "merge_y" /\ y \notin Nodes
           /\ AtRoot => \/ pc \in {"find", "merge_x"} /\ x \in Nodes /\ at = leader[x]
                        \/ pc = "merge_y" /\ y \in Nodes /\ at = leader[y]
           /\ pc = "merge_y" => x \in Nodes /\ root = leader[x]
<1>1. /\ size \in Nat /\ x \in Nat /\ y \in Nat /\ at \in Nat
      /\ SearchStaysInClass
  BY DEF IInv, TypeOK
<1>2. AtRoot => at \in Nodes /\ leader[at] = at
  BY <1>1 DEF IInv, AtRoot, LeaderFollowsLinks, Nodes
<1> QED
  BY <1>1, <1>2 DEF Searching, AtRoot, SearchStaysInClass, StaysInClass, Nodes

(* Hanging the one root below the other joins the two classes, and no      *)
(* other, under one of their leaders.                                      *)
LEMMA LinkJoinsClasses ==
    ASSUME IInv, MergeLinks
    PROVE  \E new \in {leader[x], leader[y]} :
              leader' = [n \in Nodes |-> IF leader[n] \in {leader[x], leader[y]}
                                         THEN new ELSE leader[n]]
<1>1. leader[x] = root /\ leader[y] = at
  BY SearchFindsLeader DEF MergeLinks, Searching
<1>2. /\ Upper(root, at) \in {leader[x], leader[y]}
      /\ {leader[x], leader[y]} = {Upper(root, at), Lower(root, at)}
  BY <1>1 DEF Upper, Lower
<1>3. \A n \in Nodes :
         (IF leader[n] = Lower(root, at) THEN Upper(root, at) ELSE leader[n])
         = (IF leader[n] \in {leader[x], leader[y]}
            THEN Upper(root, at) ELSE leader[n])
  BY <1>2
<1>4. leader' = [n \in Nodes |-> IF leader[n] \in {leader[x], leader[y]}
                                 THEN Upper(root, at) ELSE leader[n]]
  BY <1>3 DEF MergeLinks
<1> QED
  BY <1>2, <1>4

(* A merge of two nodes of one class joins nothing.                        *)
LEMMA SameClassStays ==
    ASSUME IInv, MergeFindsSame
    PROVE  leader' = [n \in Nodes |-> IF leader[n] \in {leader[x], leader[y]}
                                      THEN leader[x] ELSE leader[n]]
<1>1. leader[x] = leader[y]
  BY SearchFindsLeader DEF MergeFindsSame, Searching
<1>2. leader = [n \in Nodes |-> leader[n]]
  BY DEF IInv, TypeOK
<1>3. \A n \in Nodes : leader[n] = IF leader[n] \in {leader[x], leader[y]}
                                   THEN leader[x] ELSE leader[n]
  BY <1>1
<1> QED
  BY <1>2, <1>3 DEF MergeFindsSame

(* Each step of the forest is a step of the partition in the same call,    *)
(* with the same arguments, or none.                                       *)
LEMMA StepRefines == IInv /\ [Next]_vars => [Abstract!Next]_(Abstract!vars)
<1> SUFFICES ASSUME IInv, [Next]_vars
             PROVE  Abstract!Next \/ UNCHANGED Abstract!vars
  OBVIOUS
<1> USE DEF Abstract!Next, Abstract!Nodes, Nodes
<1>1. CASE Add
  BY <1>1 DEF Add, Abstract!Add
<1>2. CASE CallFind
  BY <1>2 DEF CallFind, Abstract!CallFind
<1>3. CASE CallMerge
  BY <1>3 DEF CallMerge, Abstract!CallMerge
<1>4. CASE Throw
  <2>1. \/ pc \in {"find", "merge_x"} /\ x \notin Nodes
        \/ pc = "merge_y" /\ y \notin Nodes
    BY <1>4, SearchFindsLeader DEF Throw
  <2>2. Abstract!Refuse
    BY <1>4, <2>1 DEF Throw, Searching, Abstract!Refuse
  <2> QED
    BY <2>2
<1>5. CASE Halve \/ MergeFindsX \/ UNCHANGED vars
  BY <1>5 DEF Halve, MergeFindsX, vars, Abstract!vars
<1>6. CASE FindReturns
  <2>1. x \in Nodes /\ at = leader[x]
    BY <1>6, SearchFindsLeader DEF FindReturns, Searching
  <2>2. Abstract!Find
    BY <1>6, <2>1 DEF FindReturns, Abstract!Find
  <2> QED
    BY <2>2
<1>7. ASSUME MergeLinks \/ MergeFindsSame
      PROVE  Abstract!Next
  <2>1. x \in Nodes /\ y \in Nodes
    BY <1>7, SearchFindsLeader DEF MergeLinks, MergeFindsSame, Searching
  <2>2. \E new \in {leader[x], leader[y]} :
           leader' = [n \in Nodes |-> IF leader[n] \in {leader[x], leader[y]}
                                      THEN new ELSE leader[n]]
    BY <1>7, LinkJoinsClasses, SameClassStays
  <2>3. Abstract!Merge
    BY <1>7, <2>1, <2>2 DEF MergeLinks, MergeFindsSame, Abstract!Merge
  <2> QED
    BY <2>3
<1> QED
  BY <1>1, <1>2, <1>3, <1>4, <1>5, <1>6, <1>7 DEF Next, Step

(* The forest, with its compression and its weights, answers every find    *)
(* with the leader of the node that was asked about, makes every merge of  *)
(* the two nodes it was given, and throws exactly for nodes never added.   *)
THEOREM Implements == Spec => ImplementsPartition
<1>1. Init => Abstract!Init
  BY DEF Init, Abstract!Init, Nodes, Abstract!Nodes
<1> QED
  BY <1>1, StepRefines, Inductive, PTL DEF Spec, ImplementsPartition, Abstract!Spec
=============================================================================

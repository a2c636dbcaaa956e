------------------------------ MODULE Partition ------------------------------
(***************************************************************************)
(* What the disjoint-set forest of libutl promises its callers: the nodes  *)
(* 0 .. size-1 are split into classes, and each class has one leader.  A   *)
(* call is made with its arguments and ends in one step: find answers with *)
(* the leader of the node it was asked about, merge joins the classes of   *)
(* its two nodes under one of their leaders and leaves the other classes   *)
(* alone, and a call is refused if and only if it names a node that was    *)
(* never added.  DisjointSet.tla implements this with parent links and     *)
(* weights.                                                                *)
(***************************************************************************)
EXTENDS Integers

CONSTANTS MaxNodes,     \* bound: no more nodes than this are ever added
          OutOfRange,   \* the answer of a call on a node that does not exist
          Void          \* the answer of a merge

VARIABLES size, leader,
          call,         \* the call that is being made: "idle", "find", "merge"
          x, y,         \* its arguments
          answer        \* what the last call returned

vars == <<size, leader, call, x, y, answer>>

Nodes == 0 .. (size - 1)

Init == /\ size \in 0 .. MaxNodes
        /\ leader = [n \in Nodes |-> n]
        /\ call = "idle" /\ x = 0 /\ y = 0
        /\ answer = OutOfRange

(* A new node is a class of its own. *)
Add == /\ call = "idle"
       /\ size < MaxNodes
       /\ size' = size + 1
       /\ leader' = [n \in Nodes' |-> IF n = size THEN n ELSE leader[n]]
       /\ UNCHANGED <<call, x, y, answer>>

CallFind == /\ call = "idle" /\ call' = "find"
            /\ x' \in 0 .. MaxNodes
            /\ UNCHANGED <<size, leader, y, answer>>

CallMerge == /\ call = "idle" /\ call' = "merge"
             /\ x' \in 0 .. MaxNodes /\ y' \in 0 .. MaxNodes
             /\ UNCHANGED <<size, leader, answer>>

Find == /\ call = "find" /\ call' = "idle"
        /\ x \in Nodes
        /\ answer' = leader[x]
        /\ UNCHANGED <<size, leader, x, y>>

Merge == /\ call = "merge" /\ call' = "idle"
         /\ x \in Nodes /\ y \in Nodes
         /\ \E new \in {leader[x], leader[y]} :
               leader' = [n \in Nodes |-> IF leader[n] \in {leader[x], leader[y]}
                                          THEN new ELSE leader[n]]
         /\ answer' = Void
         /\ UNCHANGED <<size, x, y>>

Refuse == /\ \/ call \in {"find", "merge"} /\ x \notin Nodes
             \/ call = "merge" /\ y \notin Nodes
          /\ call' = "idle"
          /\ answer' = OutOfRange
          /\ UNCHANGED <<size, leader, x, y>>

Next == Add \/ CallFind \/ CallMerge \/ Find \/ Merge \/ Refuse

Spec == Init /\ [][Next]_vars
=============================================================================

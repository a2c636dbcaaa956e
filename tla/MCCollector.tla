----------------------------- MODULE MCCollector -----------------------------
(* Every short document for Collector. *)
EXTENDS Collector
CONSTANTS MaxItems, Allowed
Item == {i \in Definitions \cup Marks : i.kind \in Allowed}
ShortTexts == UNION {[1 .. n -> Item] : n \in 0 .. MaxItems}
=============================================================================

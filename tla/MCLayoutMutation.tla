------------------------- MODULE MCLayoutMutation -------------------------
(* Instances of LayoutMutation for TLC: two nodes, both workers.  No        *)
(* symmetry: the instances give the nodes different parts to play.          *)
EXTENDS LayoutMutation
===========================================================================

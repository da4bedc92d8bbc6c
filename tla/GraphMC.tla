------------------------------ MODULE GraphMC ------------------------------
(* Graph for TLC: three nodes and three arcs with their duals, and an arc  *)
(* whose dual does not fit.                                                *)
EXTENDS Graph

(* What the slots hold that were never written: an arc of a node, an arc   *)
(* that may be added late, and the index that stands for no arc.           *)
MCGarbage == {0, 5, INVALID_INDEX}
=============================================================================

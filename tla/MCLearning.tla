------------------------------ MODULE MCLearning ------------------------------
(***************************************************************************)
(* An instance of Learning for TLC: two nodes, an ordinary edge and a      *)
(* "blocks" edge between them.                                             *)
(***************************************************************************)
EXTENDS Learning

CONSTANTS n1, n2

MCNodes == {n1, n2}

MCEdgeKeys == {[source |-> n1, target |-> n2, relation |-> "kind_of"],
               [source |-> n1, target |-> n2, relation |-> "blocks"]}

MCLtd == -1
=============================================================================

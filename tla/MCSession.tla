------------------------------ MODULE MCSession ------------------------------
EXTENDS Session, TLC

(* A model as it is pretrained, then with the tables of the organs.        *)
MCTablesOf == <<{}, {"mood", "gain", "hubs", "kn"}>>
MCSymmetry == Permutations(Savers) \cup Permutations(Loaders)
=============================================================================

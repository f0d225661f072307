------------------------------ MODULE MCPretrain ------------------------------
(* Instances of Pretrain for TLC; the values are in the .cfg files.        *)
EXTENDS Pretrain
=============================================================================

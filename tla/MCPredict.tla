------------------------------- MODULE MCPredict -------------------------------
(* Instances of Predict for TLC: two orders of contexts and two tokens.    *)
EXTENDS Predict

MCWMin == -2
=============================================================================

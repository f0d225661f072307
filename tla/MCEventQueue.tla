----------------------------- MODULE MCEventQueue -----------------------------
(* EventQueue on an array of five events over two ticks.  Five events      *)
(* let heap_sift_down go two levels; of the signals one is negative and    *)
(* the stronger; the delays are further apart than the merge window.       *)
EXTENDS EventQueue

MCSignals == {-2, 1}
MCDelays == {1, 3}
=============================================================================

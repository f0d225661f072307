------------------------------- MODULE MCMemory -------------------------------
EXTENDS Memory

MCRelations == {"kind_of", "owns"}
MCBuiltin == <<"kind_of", "kind_of">> :> "kind_of"
MCPairs == {<<"kind_of", "kind_of">>, <<"kind_of", "owns">>}
(* A chain of three facts, of which the last may be stated later.          *)
MCGraphs == {{<<1, "kind_of", 2>>, <<2, "kind_of", 3>>},
             {<<1, "kind_of", 2>>, <<2, "kind_of", 3>>, <<3, "kind_of", 4>>}}
MCTriples == {<<1, 2, 3>>, <<1, 3, 4>>, <<2, 3, 4>>}
MCCharges == {[by |-> 256, useful |-> TRUE], [by |-> -64, useful |-> FALSE]}
=============================================================================

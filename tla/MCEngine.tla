------------------------------- MODULE MCEngine -------------------------------
EXTENDS Engine

p == "p"   b == "b"   f == "f"

MCNodes == {p, b, f}
Edge(id, s, t, rel) == [id |-> id, source |-> s, target |-> t, relation |-> rel,
                        blocker |-> FALSE, ctrl |-> None, gate |-> GateOne]
Blocker(id, s, t) == [Edge(id, s, t, "blocks") EXCEPT !.blocker = TRUE]

(* A penguin is a bird, and birds fly; a penguin does not.                 *)
Penguin == {Edge(1, p, b, "kind_of"), Edge(2, b, f, "kind_of"),
            Edge(3, p, f, "kind_of"), Blocker(4, p, f)}
(* Two cycles through b, and an edge gated by the charge of p.             *)
Loops == {Edge(1, p, b, "kind_of"), Edge(2, b, p, "kind_of"),
          [Edge(3, b, f, "inside") EXCEPT !.ctrl = p]}
(* A firing runs around this one for ever.                                 *)
Ring == {Edge(1, p, b, "kind_of"), Edge(2, b, f, "kind_of"), Edge(3, f, p, "kind_of")}
MCGraphs == {Penguin, Loops, Ring}
MCQueries == {[source |-> p, target |-> f, relation |-> "kind_of"],
              [source |-> b, target |-> p, relation |-> "inside"]}
MCWMin == -1024
MCLtd == -12
=============================================================================

------------------------------ MODULE MCCounting ------------------------------
EXTENDS Counting

Large == 99
Plain == [text |-> <<0, 1, 0, 1, 0>>, mode |-> "counted", order |-> 2,
          skip |-> FALSE, jobs |-> 1, chunk |-> 5, soft |-> 0, byCount |-> FALSE,
          norm |-> FALSE, nodeCap |-> Large, nameCap |-> Large, edgeCap |-> Large]

Short == {<<0, 1, 0, 1, 0>>, <<0, 0, 0, 0, 1>>}
Long == <<0, 1, 2, 0, 1, 2>>

Counts ==
  {[Plain EXCEPT !.text = x, !.jobs = n, !.soft = s, !.skip = k, !.norm = m] :
     x \in Short, n \in {1, 2, 3}, s \in {0, 3}, k \in BOOLEAN, m \in BOOLEAN}
  \cup
  {[Plain EXCEPT !.text = Long, !.order = 1, !.skip = TRUE, !.jobs = n, !.soft = s] :
     n \in {1, 2}, s \in {0, 4}}

FullGraphs ==
  {[Plain EXCEPT !.text = x, !.jobs = n, !.byCount = b, !.nodeCap = c,
                 !.nameCap = c + 1, !.edgeCap = e] :
     x \in Short, n \in {1, 2}, b \in BOOLEAN, c \in {1, 4, 5}, e \in {2, Large}}

Streams ==
  {[Plain EXCEPT !.text = x, !.mode = "online", !.chunk = n, !.nodeCap = c,
                 !.edgeCap = e] :
     x \in Short \cup {Long}, n \in {2, 3, 6}, c \in {3, Large}, e \in {2, Large}}

MCConfigs == Counts \cup FullGraphs \cup Streams
=============================================================================

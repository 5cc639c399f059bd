------------------------------- MODULE WakeGraph -------------------------------
(***************************************************************************)
(* The algorithm that validates a sequence of Wake-on-LAN: a search in depth *)
(* for a step on the way to itself.  WakeSequences says what it decides.    *)
(***************************************************************************)
EXTENDS WakeSequences
LOCAL INSTANCE FiniteSetsExt

\* visit: "visiting" are the steps on the way to this one, "done" those that have been
\* looked at with all they require; a step met on the way to itself is a cycle.
RECURSIVE Visit(_, _, _, _)
Visit(graph, s, visiting, done) ==
    IF s \in visiting THEN [acyclic |-> FALSE, done |-> done]
    ELSE IF s \in done THEN [acyclic |-> TRUE, done |-> done]
    ELSE LET Beyond(d, so) == IF so.acyclic THEN Visit(graph, d, visiting \cup {s}, so.done) ELSE so
             behind == FoldSet(Beyond, [acyclic |-> TRUE, done |-> done], graph[s])
         IN  [behind EXCEPT !.done = @ \cup {s}]

\* _validate_graph.
Validates(graph) ==
    /\ UNION Range(graph) \subseteq DOMAIN graph
    /\ LET From(s, so) == IF so.acyclic THEN Visit(graph, s, {}, so.done) ELSE so
       IN  FoldSet(From, [acyclic |-> TRUE, done |-> {}], DOMAIN graph).acyclic

-----------------------------------------------------------------------------
\* However steps require each other, and in whatever order they are looked at, the search
\* accepts just the sequences in which no steps only wait for each other, and so never one
\* that a run would find unsolvable (wol.py:475).
ASSUME ValidationFindsCycles == \A graph \in Requirements : Validates(graph) <=> ValidGraph(graph)
================================================================================

---------------------------------- MODULE Places ----------------------------------
(***************************************************************************)
(* What is left of a sequence when only some places of it are kept, and the *)
(* elements of a finite set in an order of theirs: sorts of the community   *)
(* modules and of TLC, and SelectSeq, are beyond the prover.                *)
(***************************************************************************)
EXTENDS Integers, Sequences, FiniteSets

\* The k-th of some places, and what is at them in a sequence.
Nth(places, k) == CHOOSE i \in places : Cardinality({j \in places : j < i}) = k - 1
AtPlaces(s, places) == [k \in 1..Cardinality(places) |-> s[Nth(places, k)]]

\* The elements of a finite set, as a strict order has them.
Ordered(S, Before(_, _)) ==
    [k \in 1..Cardinality(S) |-> CHOOSE x \in S : Cardinality({y \in S : Before(y, x)}) = k - 1]
====================================================================================

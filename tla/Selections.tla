----------------------------- MODULE Selections -----------------------------
(***************************************************************************)
(* The part of a sequence at some of its places: what filter and splice    *)
(* leave of an array.  The definitions say where each element goes, so     *)
(* that facts about them follow from facts about finite sets.              *)
(***************************************************************************)
EXTENDS Integers, Sequences, FiniteSets

\* How many of the places come no later than this one.
Rank(places, place) == Cardinality({p \in places : p <= place})

Nth(places, n) == CHOOSE p \in places : Rank(places, p) = n

\* The elements at the places, in their order.
AtPlaces(seq, places) == [n \in 1 .. Cardinality(places) |-> seq[Nth(places, n)]]
=============================================================================

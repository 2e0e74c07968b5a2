-------------------------------- MODULE Orders --------------------------------
(***************************************************************************)
(* Putting in order, and filtering what is in order: the sort and retain   *)
(* of the standard library, as the runtime uses them on its queues, stacks *)
(* and snapshots.                                                          *)
(***************************************************************************)
EXTENDS Naturals, FiniteSets, Sequences

\* The same sequence, which TLC then evaluates only once.
Listed(f) == <<>> \o f

\* The elements of a finite set by increasing key, no two of one key.
InOrder(S, key) ==
  [k \in 1..Cardinality(S) |->
     CHOOSE e \in S : Cardinality({d \in S : key[d] <= key[e]}) = k]

\* sort_by: the elements of a finite set, `before` being the pairs of them in strict order.
SortedBy(S, before) ==
  [k \in 1..Cardinality(S) |->
     CHOOSE e \in S : Cardinality({d \in S : <<d, e>> \in before}) = k - 1]

\* retain of Vec and VecDeque: what is in `keep` stays, in the order it was in.
Retain(q, keep) ==
  LET places == {i \in DOMAIN q : q[i] \in keep}
      order == InOrder(places, [i \in places |-> i])
  IN [k \in DOMAIN order |-> q[order[k]]]
===============================================================================

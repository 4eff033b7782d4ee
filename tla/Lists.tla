---------------------------------- MODULE Lists ----------------------------------
(***************************************************************************)
(* What Python's comprehensions and sorted() make of a list, by positions. *)
(***************************************************************************)
EXTENDS Integers, Sequences, FiniteSets

\* The numbers of a set, in their order.
InTurn(D) == [k \in 1 .. Cardinality(D) |-> CHOOSE i \in D : Cardinality({j \in D : j <= i}) = k]

\* [s[i] for i in D]: what s has at some of its positions, in their order.
Kept(s, D) == LET at == InTurn(D) IN [k \in 1 .. Cardinality(D) |-> s[at[k]]]

\* sorted(s, key): those of one key stay in the order they have.
SortedBy(s, key) ==
  LET upTo(i) == {j \in DOMAIN s : key[j] < key[i] \/ (key[j] = key[i] /\ j <= i)}
  IN [k \in DOMAIN s |-> s[CHOOSE i \in DOMAIN s : Cardinality(upTo(i)) = k]]
=============================================================================

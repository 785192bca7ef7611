------------------------------ MODULE Listings ------------------------------
(***************************************************************************)
(* Sets put in order, and what is left of a sequence when some of it is    *)
(* taken: sorted(), and a list built by a loop with a condition.  Both are *)
(* written without recursion.                                              *)
(***************************************************************************)
EXTENDS Naturals, Sequences, FiniteSets

\* The elements of S, each behind those that the relation R puts before it.
InOrder(S, R) ==
    [k \in 1..Cardinality(S) |->
        CHOOSE x \in S : Cardinality({y \in S : <<y, x>> \in R}) = k - 1]

\* The places P of a sequence, the first one first.
Places(P) == InOrder(P, {p \in P \X P : p[1] < p[2]})

\* What a sequence has at the places P.
Taken(s, P) == LET at == Places(P) IN [k \in DOMAIN at |-> s[at[k]]]
=============================================================================

--------------------------- MODULE SequenceFacts ---------------------------
(***************************************************************************)
(* Facts about numbers and sequences that the proofs of the components use. *)
(***************************************************************************)
EXTENDS Naturals, Sequences, Listings, FiniteSetTheorems, WellFoundedInduction, TLAPS


\* Every set of numbers that is not empty has a least one.
LEMMA LeastOf ==
    ASSUME NEW T, T \subseteq Nat, T # {}
    PROVE  \E x \in T : \A y \in T : x <= y
  <1> DEFINE R == OpToRel(<, Nat)
  <1>1. IsWellFoundedOn(R, Nat)
    BY NatLessThanWellFounded DEF OpToRel
  <1>2. \A x, y \in Nat : y < x => <<y, x>> \in R
    BY DEF OpToRel
  <1> HIDE DEF R
  <1>3. PICK x \in T : \A y \in T : <<y, x>> \notin R
    BY <1>1, WFMin
  <1>4. \A y \in T : ~(y < x)
    BY <1>2, <1>3
  <1> QED BY <1>3, <1>4

\* The two halves of a sequence.
LEMMA Halves ==
    ASSUME NEW S, NEW s \in Seq(S), NEW n \in 0..Len(s)
    PROVE  /\ SubSeq(s, 1, n) \in Seq(S) /\ Len(SubSeq(s, 1, n)) = n
           /\ \A i \in 1..n : SubSeq(s, 1, n)[i] = s[i]
           /\ SubSeq(s, n + 1, Len(s)) \in Seq(S) /\ Len(SubSeq(s, n + 1, Len(s))) = Len(s) - n
           /\ \A i \in 1..Len(s) - n : SubSeq(s, n + 1, Len(s))[i] = s[n + i]
  <1>1. Len(s) \in Nat /\ \A i \in 1..Len(s) : s[i] \in S
    OBVIOUS
  <1>2. SubSeq(s, 1, n) = [i \in 1..n |-> s[i]]
    BY <1>1
  <1>3. SubSeq(s, n + 1, Len(s)) = [i \in 1..Len(s) - n |-> s[n + i]]
    BY <1>1
  <1>4. /\ \A i \in 1..n : s[i] \in S
        /\ \A i \in 1..Len(s) - n : s[n + i] \in S
        /\ Len(s) - n \in Nat
    BY <1>1
  <1> QED BY <1>1, <1>2, <1>3, <1>4

\* Joining two sequences.
LEMMA Joined ==
    ASSUME NEW S, NEW s \in Seq(S), NEW r \in Seq(S)
    PROVE  /\ s \o r \in Seq(S) /\ Len(s \o r) = Len(s) + Len(r)
           /\ \A i \in 1..Len(s) : (s \o r)[i] = s[i]
           /\ \A i \in 1..Len(r) : (s \o r)[Len(s) + i] = r[i]
           /\ \A i \in 1..Len(s) + Len(r) : i \in 1..Len(s) \/ i - Len(s) \in 1..Len(r)
  <1>1. Len(s) \in Nat /\ Len(r) \in Nat
    OBVIOUS
  <1> QED BY <1>1

\* A sequence without its head, and with one element more.
LEMMA Rest ==
    ASSUME NEW S, NEW s \in Seq(S), s # <<>>
    PROVE  /\ Tail(s) \in Seq(S) /\ Len(Tail(s)) = Len(s) - 1 /\ Len(s) \in Nat \ {0}
           /\ Head(s) = s[1] /\ s[1] \in S
           /\ \A i \in 1..Len(s) - 1 : Tail(s)[i] = s[i + 1]
           /\ {Tail(s)[i] : i \in 1..Len(Tail(s))} \subseteq {s[i] : i \in 1..Len(s)}
           /\ {s[i] : i \in 1..Len(s)} \ {s[1]} \subseteq {Tail(s)[i] : i \in 1..Len(Tail(s))}
  <1>1. /\ Tail(s) \in Seq(S) /\ Len(Tail(s)) = Len(s) - 1 /\ Len(s) \in Nat \ {0}
        /\ Head(s) = s[1] /\ s[1] \in S
        /\ \A i \in 1..Len(s) - 1 : Tail(s)[i] = s[i + 1]
    OBVIOUS
  <1>2. \A i \in 1..Len(s) - 1 : i + 1 \in 1..Len(s)
    BY <1>1
  <1>3. \A i \in 1..Len(s) : i = 1 \/ (i - 1 \in 1..Len(s) - 1 /\ s[i] = Tail(s)[i - 1])
    <2>1. ASSUME NEW i \in 1..Len(s), i # 1
          PROVE  i - 1 \in 1..Len(s) - 1 /\ s[i] = Tail(s)[i - 1]
      <3>1. i - 1 \in 1..Len(s) - 1 /\ (i - 1) + 1 = i
        BY <1>1, <2>1
      <3> QED BY <1>1, <3>1
    <2> QED BY <2>1
  <1>4. {Tail(s)[i] : i \in 1..Len(s) - 1} \subseteq {s[i] : i \in 1..Len(s)}
    BY <1>1, <1>2
  <1>5. {s[i] : i \in 1..Len(s)} \ {s[1]} \subseteq {Tail(s)[i] : i \in 1..Len(s) - 1}
    BY <1>3
  <1> QED BY <1>1, <1>4, <1>5

LEMMA Added ==
    ASSUME NEW S, NEW s \in Seq(S), NEW e \in S
    PROVE  /\ Append(s, e) \in Seq(S) /\ Len(Append(s, e)) = Len(s) + 1 /\ Len(s) \in Nat
           /\ \A i \in 1..Len(s) : Append(s, e)[i] = s[i]
           /\ Append(s, e)[Len(s) + 1] = e
           /\ {Append(s, e)[i] : i \in 1..Len(Append(s, e))} = {s[i] : i \in 1..Len(s)} \union {e}
  <1>1. /\ Append(s, e) \in Seq(S) /\ Len(Append(s, e)) = Len(s) + 1 /\ Len(s) \in Nat
        /\ \A i \in 1..Len(s) : Append(s, e)[i] = s[i]
        /\ Append(s, e)[Len(s) + 1] = e
    OBVIOUS
  <1>2. 1..Len(s) + 1 = 1..Len(s) \union {Len(s) + 1}
    BY <1>1
  <1>3. {Append(s, e)[i] : i \in 1..Len(s) + 1} = {s[i] : i \in 1..Len(s)} \union {e}
    BY <1>1, <1>2
  <1> QED BY <1>1, <1>3

\* A relation that puts any two elements of a set in one order.
Orders(R, S) ==
    /\ \A x \in S : <<x, x>> \notin R
    /\ \A x, y, z \in S : <<x, y>> \in R /\ <<y, z>> \in R => <<x, z>> \in R
    /\ \A x, y \in S : x # y => <<x, y>> \in R \/ <<y, x>> \in R

\* A finite set is listed completely, each element once, and in the order.
LEMMA Listing ==
    ASSUME NEW S, IsFiniteSet(S), NEW R, Orders(R, S)
    PROVE  LET L == InOrder(S, R)
           IN  /\ Cardinality(S) \in Nat
               /\ L \in [1..Cardinality(S) -> S]
               /\ \A x \in S : \E k \in 1..Cardinality(S) : L[k] = x
               /\ \A j, k \in 1..Cardinality(S) : j < k => <<L[j], L[k]>> \in R /\ L[j] # L[k]
  <1> DEFINE Under(x) == {y \in S : <<y, x>> \in R}
             n == Cardinality(S)
             L == InOrder(S, R)
             At(k) == CHOOSE x \in S : Cardinality({y \in S : <<y, x>> \in R}) = k - 1
             rank == [x \in S |-> Cardinality(Under(x)) + 1]
  <1>1. n \in Nat
    BY FS_CardinalityType
  <1>2. \A x \in S : IsFiniteSet(Under(x)) /\ Cardinality(Under(x)) \in 0..n - 1
    <2> TAKE x \in S
    <2>1. IsFiniteSet(Under(x)) /\ Cardinality(Under(x)) <= n /\ (n = Cardinality(Under(x)) => S = Under(x))
      BY FS_Subset, Under(x) \in SUBSET S
    <2>2. x \notin Under(x)
      BY DEF Orders
    <2>3. Cardinality(Under(x)) \in Nat
      BY <2>1, FS_CardinalityType
    <2>4. Cardinality(Under(x)) # n
      BY <2>1, <2>2
    <2> HIDE DEF Under, n
    <2> QED BY <2>1, <2>3, <2>4, <1>1
  <1>3. \A x, y \in S : <<x, y>> \in R => Cardinality(Under(x)) < Cardinality(Under(y))
    <2> SUFFICES ASSUME NEW x \in S, NEW y \in S, <<x, y>> \in R
                 PROVE  Cardinality(Under(x)) < Cardinality(Under(y))
      OBVIOUS
    <2>1. Under(x) \in SUBSET Under(y) /\ x \in Under(y) /\ x \notin Under(x)
      BY DEF Orders
    <2>2. Cardinality(Under(x)) <= Cardinality(Under(y))
          /\ (Cardinality(Under(y)) = Cardinality(Under(x)) => Under(y) = Under(x))
      BY <1>2, <2>1, FS_Subset
    <2>3. Cardinality(Under(x)) # Cardinality(Under(y))
      BY <2>1, <2>2
    <2>4. Cardinality(Under(x)) \in 0..n - 1 /\ Cardinality(Under(y)) \in 0..n - 1
      BY <1>2
    <2> HIDE DEF Under, n
    <2> QED BY <1>1, <2>2, <2>3, <2>4
  <1>4. rank \in [S -> 1..n] /\ \A x \in S : rank[x] = Cardinality(Under(x)) + 1
    <2>1. \A x \in S : Cardinality(Under(x)) + 1 \in 1..n
      <3> HIDE DEF Under, n
      <3> QED BY <1>1, <1>2
    <2> HIDE DEF Under, n
    <2> QED BY <2>1
  <1>5. \A x, y \in S : rank[x] = rank[y] => x = y
    <2> SUFFICES ASSUME NEW x \in S, NEW y \in S, x # y PROVE rank[x] # rank[y]
      OBVIOUS
    <2>1. Cardinality(Under(x)) < Cardinality(Under(y)) \/ Cardinality(Under(y)) < Cardinality(Under(x))
      BY <1>3 DEF Orders
    <2>2. Cardinality(Under(x)) \in 0..n - 1 /\ Cardinality(Under(y)) \in 0..n - 1
      BY <1>2
    <2> HIDE DEF Under, rank
    <2> QED BY <1>1, <1>4, <2>1, <2>2
  <1>6. \A k \in 1..n : \E x \in S : rank[x] = k
    <2>1. IsFiniteSet(1..n) /\ Cardinality(1..n) = n
      BY <1>1, FS_Interval
    <2> HIDE DEF rank
    <2>2. rank \in Injection(S, 1..n)
      BY <1>4, <1>5 DEF Injection, IsInjective
    <2>3. rank \in Surjection(S, 1..n)
      BY <2>1, <2>2, FS_Injection
    <2> QED BY <2>3 DEF Surjection
  <1>7. \A k \in 1..n : L[k] \in S /\ rank[L[k]] = k
    <2> SUFFICES ASSUME NEW k \in 1..n PROVE L[k] \in S /\ rank[L[k]] = k
      OBVIOUS
    <2>1. L[k] = CHOOSE x \in S : Cardinality(Under(x)) = k - 1
      BY DEF InOrder
    <2>2. PICK x \in S : rank[x] = k
      BY <1>6
    <2>3. Cardinality(Under(x)) = k - 1
      <3>1. Cardinality(Under(x)) + 1 = k /\ Cardinality(Under(x)) \in 0..n - 1
        BY <1>4, <1>2, <2>2
      <3> HIDE DEF Under
      <3> QED BY <3>1, <1>1
    <2>4. L[k] \in S /\ Cardinality(Under(L[k])) = k - 1
      BY <2>1, <2>3
    <2>5. rank[L[k]] = k - 1 + 1
      BY <2>4, <1>4
    <2> HIDE DEF L, rank
    <2> QED BY <2>4, <2>5, <1>1
  <1>8. L \in [1..n -> S]
    <2>1. L = [k \in 1..n |-> At(k)]
      BY DEF InOrder
    <2> HIDE DEF L, At, n, rank
    <2> QED BY <2>1, <1>7
  <1>9. \A j, k \in 1..n : j < k => <<L[j], L[k]>> \in R /\ L[j] # L[k]
    <2> SUFFICES ASSUME NEW j \in 1..n, NEW k \in 1..n, j < k
                 PROVE  <<L[j], L[k]>> \in R /\ L[j] # L[k]
      OBVIOUS
    <2>1. L[j] \in S /\ L[k] \in S /\ rank[L[j]] = j /\ rank[L[k]] = k
      BY <1>7
    <2>2. L[j] # L[k]
      BY <2>1, <1>1
    <2>3. ~(<<L[k], L[j]>> \in R)
      <3>1. Cardinality(Under(L[j])) + 1 = j /\ Cardinality(Under(L[k])) + 1 = k
        BY <2>1, <1>4
      <3>2. Cardinality(Under(L[j])) \in 0..n - 1 /\ Cardinality(Under(L[k])) \in 0..n - 1
        BY <2>1, <1>2
      <3>3. ~(Cardinality(Under(L[k])) < Cardinality(Under(L[j])))
        <4> HIDE DEF Under, L
        <4> QED BY <1>1, <3>1, <3>2
      <3> QED BY <2>1, <3>3, <1>3
    <2> QED BY <2>1, <2>2, <2>3 DEF Orders
  <1>10. \A x \in S : L[rank[x]] = x /\ rank[x] \in 1..n
    <2> SUFFICES ASSUME NEW x \in S PROVE L[rank[x]] = x /\ rank[x] \in 1..n
      OBVIOUS
    <2>1. rank[x] \in 1..n
      BY <1>4
    <2>2. L[rank[x]] \in S /\ rank[L[rank[x]]] = rank[x]
      BY <2>1, <1>7
    <2> HIDE DEF L, rank
    <2> QED BY <2>1, <2>2, <1>5
  <1> HIDE DEF L, rank, Under, At
  <1> QED BY <1>1, <1>7, <1>8, <1>9, <1>10 DEF n, L

\* What is taken of a sequence are its entries at the places given, in their order.
LEMMA Taking ==
    ASSUME NEW S, NEW s \in Seq(S), NEW P \in SUBSET (1..Len(s))
    PROVE  LET t == Taken(s, P)
               at == Places(P)
           IN  /\ t \in Seq(S) /\ Len(t) = Cardinality(P) /\ Len(t) \in Nat
               /\ \A k \in 1..Len(t) : at[k] \in P /\ t[k] = s[at[k]]
               /\ \A i \in P : \E k \in 1..Len(t) : at[k] = i /\ t[k] = s[i]
               /\ \A j, k \in 1..Len(t) : j < k => at[j] < at[k]
  <1> DEFINE R == {p \in P \X P : p[1] < p[2]}
             at == Places(P)
             n == Cardinality(P)
  <1>1. Len(s) \in Nat /\ P \subseteq Nat /\ \A i \in 1..Len(s) : s[i] \in S
    OBVIOUS
  <1>2. IsFiniteSet(P)
    <2>1. IsFiniteSet(1..Len(s))
      BY <1>1, FS_Interval, 1 \in Int, Len(s) \in Int
    <2> QED BY <2>1, FS_Subset
  <1>3. Orders(R, P)
    BY <1>1 DEF Orders
  <1>4. /\ n \in Nat /\ at \in [1..n -> P]
        /\ \A x \in P : \E k \in 1..n : at[k] = x
        /\ \A j, k \in 1..n : j < k => <<at[j], at[k]>> \in R
    <2> HIDE DEF R
    <2>1. at = InOrder(P, R)
      BY DEF Places, R
    <2> QED BY <1>2, <1>3, <2>1, Listing
  <1>5. \A j, k \in 1..n : j < k => at[j] < at[k]
    BY <1>4
  <1>6. Taken(s, P) = [k \in 1..n |-> s[at[k]]]
    BY <1>4 DEF Taken
  <1> HIDE DEF at, n, R
  <1>7. \A k \in 1..n : s[at[k]] \in S
    <2>1. \A k \in 1..n : at[k] \in P
      BY <1>4
    <2> QED BY <1>1, <2>1
  <1>8. Taken(s, P) \in Seq(S) /\ Len(Taken(s, P)) = n
    BY <1>4, <1>6, <1>7
  <1> QED BY <1>4, <1>5, <1>6, <1>8 DEF at, n
=============================================================================

------------------------------ MODULE Ordering ------------------------------
(***************************************************************************)
(* Lists made of sets and of other lists: sorting by a key, and keeping    *)
(* the entries a condition selects.                                        *)
(***************************************************************************)
EXTENDS Naturals, FiniteSets

\* The members of S, each behind those that R, a set of pairs, puts before it.
Ordered(S, R) ==
  LET places == {<<x, Cardinality({y \in S : <<y, x>> \in R})>> : x \in S}
  IN [n \in 1 .. Cardinality(S) |-> CHOOSE x \in S : <<x, n - 1>> \in places]

\* R orders S: of two members exactly one comes first.
Orders(R, S) ==
  /\ \A x \in S : <<x, x>> \notin R
  /\ \A x, y \in S : x # y => <<x, y>> \in R \/ <<y, x>> \in R
  /\ \A x, y, z \in S : <<x, y>> \in R /\ <<y, z>> \in R => <<x, z>> \in R

Ascending(S) == Ordered(S, {p \in S \X S : p[1] < p[2]})

\* The entries of s at the positions I, in their order.
Entries(s, I) == LET at == Ascending(I) IN [n \in DOMAIN at |-> s[at[n]]]
=============================================================================

--------------------------------- MODULE Fdr ---------------------------------
(***************************************************************************)
(* scan::hygiene::fdr: the q-values of Benjamini and Hochberg of a family  *)
(* of p-values.  A p-value is a number of parts, Scale of which make 1.0;  *)
(* a q-value is an exact quotient of two numbers, in the same parts.       *)
(***************************************************************************)
EXTENDS Integers, Sequences, FiniteSets

CONSTANT Scale  \* the parts that make 1.0

ASSUME FdrAssumption == Scale \in Nat \ {0}

NaN == -1
NoQ == [num |-> NaN, den |-> 1]
One == [num |-> Scale, den |-> 1]

AtMost(a, b) == a.num * b.den <= b.num * a.den

Numbers(ps) == {i \in DOMAIN ps : ps[i] # NaN}

\* The place of p-value i in ascending order; the sort is stable.
Rank(ps, i) ==
  Cardinality({j \in Numbers(ps) : ps[j] < ps[i] \/ (ps[j] = ps[i] /\ j <= i)})

RawQ(ps, i) ==
  LET q == [num |-> ps[i] * Cardinality(Numbers(ps)), den |-> Rank(ps, i)]
  IN IF AtMost(q, One) THEN q ELSE One

\* Mutant of BhFdr: without the minimum over the higher ranks.
BhFdrRaw(ps) == [i \in DOMAIN ps |-> IF ps[i] = NaN THEN NoQ ELSE RawQ(ps, i)]

\* bh_fdr: NaN stays NaN and does not count; the walk from the highest rank down
\* keeps the least it has seen.
BhFdr(ps) ==
  [i \in DOMAIN ps |->
     IF ps[i] = NaN THEN NoQ
     ELSE LET seen == {RawQ(ps, j) : j \in {k \in Numbers(ps) : Rank(ps, k) >= Rank(ps, i)}}
          IN CHOOSE q \in seen : \A r \in seen : AtMost(q, r)]
=============================================================================

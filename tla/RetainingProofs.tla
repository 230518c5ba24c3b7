--------------------------- MODULE RetainingProofs ---------------------------
(***************************************************************************)
(* What Retained returns, for every sequence and every set of positions.    *)
(*                                                                          *)
(* The induction theorems of the library take an operator.  Here the        *)
(* counterexamples to a claim are a set of naturals: if there are any there *)
(* is a least one, and the claim holds just before it.                      *)
(***************************************************************************)
EXTENDS Retaining, Integers, TLAPS, WellFoundedInduction

\* A set of naturals that is not empty has a least element.
LEMMA LeastNatural ==
  ASSUME NEW T, T \subseteq Nat, T # {}
  PROVE  \E x \in T : \A y \in T : x <= y
<1> DEFINE R == OpToRel(<, Nat)
<1>1. IsWellFoundedOn(R, Nat)
  BY NatLessThanWellFounded, Zenon
<1>2. \A x, y \in Nat : <<y, x>> \in R <=> y < x
  BY DEF OpToRel
<1> HIDE DEF R
<1>3. PICK x \in T : \A y \in T : <<y, x>> \notin R
  BY <1>1, WFMin
<1>4. \A y \in T : x \in Nat /\ y \in Nat /\ ~(y < x)
  BY <1>2, <1>3, Zenon
<1>5. \A y \in T : x <= y
  BY <1>4
<1> QED
  BY <1>5

-----------------------------------------------------------------------------
(* The recursive function exists.                                          *)

\* g is Retained's function up to position n.
Grows(g, s, kept, n) ==
  g = [i \in 0..n |-> IF i = 0 THEN <<>>
                      ELSE IF i \in kept THEN Append(g[i - 1], s[i]) ELSE g[i - 1]]

LEMMA GrowingExists == ASSUME NEW s, NEW kept PROVE \A n \in Nat : \E g : Grows(g, s, kept, n)
<1> DEFINE T == {n \in Nat : ~\E g : Grows(g, s, kept, n)}
<1> SUFFICES ASSUME T # {} PROVE FALSE
  OBVIOUS
<1>1. PICK n \in T : \A m \in T : n <= m
  <2> T \subseteq Nat
    OBVIOUS
  <2> HIDE DEF T
  <2> QED
    BY LeastNatural
<1>2. n # 0
  <2>1. Grows([i \in 0..0 |-> <<>>], s, kept, 0)
    BY DEF Grows
  <2> QED
    BY <2>1
<1>3. PICK g : Grows(g, s, kept, n - 1)
  BY <1>1, <1>2
<1> DEFINE last == IF n \in kept THEN Append(g[n - 1], s[n]) ELSE g[n - 1]
           h    == [i \in 0..n |-> IF i = n THEN last ELSE g[i]]
<1>4. n \in 0..n /\ n - 1 \in 0..n /\ n - 1 # n
  BY <1>1, <1>2
<1>5. h[n] = IF n = 0 THEN <<>> ELSE IF n \in kept THEN Append(h[n - 1], s[n]) ELSE h[n - 1]
  BY <1>2, <1>4
<1>6. \A i \in 0..n : i # n =>
         h[i] = IF i = 0 THEN <<>> ELSE IF i \in kept THEN Append(h[i - 1], s[i]) ELSE h[i - 1]
  <2>1. \A i \in 0..n : i # n => i \in 0..(n - 1) /\ h[i] = g[i]
    BY <1>1
  <2>2. \A i \in 0..n : i # n /\ i # 0 => i - 1 \in 0..n /\ i - 1 # n
    BY <1>1
  <2> HIDE DEF h
  <2>3. \A i \in 0..n : i # n /\ i # 0 => h[i - 1] = g[i - 1]
    BY <2>1, <2>2
  <2> QED
    BY <1>3, <2>1, <2>3 DEF Grows
<1>7. Grows(h, s, kept, n)
  <2>1. h = [i \in 0..n |-> h[i]]
    OBVIOUS
  <2> HIDE DEF h
  <2> QED
    BY <1>5, <1>6, <2>1 DEF Grows
<1> QED
  BY <1>7

LEMMA RetainedGrows ==
  ASSUME NEW s, NEW kept, Len(s) \in Nat
  PROVE  \E g : Grows(g, s, kept, Len(s)) /\ Retained(s, kept) = g[Len(s)]
<1> DEFINE upTo == CHOOSE g : Grows(g, s, kept, Len(s))
<1>1. Grows(upTo, s, kept, Len(s))
  BY GrowingExists
<1>2. Retained(s, kept) = upTo[Len(s)]
  BY DEF Retained, Grows
<1> QED
  BY <1>1, <1>2

-----------------------------------------------------------------------------
(* What it returns.                                                        *)

\* r is the elements of s at the positions in kept, in their order.
Selects(r, s, kept) ==
  \E at \in [1..Len(r) -> kept] :
    /\ \A j \in 1..Len(r) : r[j] = s[at[j]]
    /\ \A i, j \in 1..Len(r) : i < j => at[i] < at[j]
    /\ \A k \in kept : \E j \in 1..Len(r) : at[j] = k

\* One more position that is kept.
LEMMA SelectsOneMore ==
  ASSUME NEW S, NEW s \in Seq(S), NEW kept, NEW n \in 1..Len(s), n \in kept,
         NEW q \in Seq(S), Selects(q, s, 1..(n - 1) \cap kept)
  PROVE  Append(q, s[n]) \in Seq(S) /\ Selects(Append(q, s[n]), s, 1..n \cap kept)
<1>1. PICK at \in [1..Len(q) -> 1..(n - 1) \cap kept] :
        /\ \A j \in 1..Len(q) : q[j] = s[at[j]]
        /\ \A i, j \in 1..Len(q) : i < j => at[i] < at[j]
        /\ \A k \in 1..(n - 1) \cap kept : \E j \in 1..Len(q) : at[j] = k
  BY DEF Selects
<1> DEFINE r  == Append(q, s[n])
           l  == Len(q) + 1
           to == [j \in 1..l |-> IF j = l THEN n ELSE at[j]]
<1>2. s[n] \in S /\ Len(q) \in Nat
  OBVIOUS
<1>3. r \in Seq(S) /\ Len(r) = l /\ r[l] = s[n] /\ \A j \in 1..Len(q) : r[j] = q[j]
  BY <1>2
<1>4. \A j \in 1..l : j # l => j \in 1..Len(q)
  BY <1>2
<1>5. to \in [1..l -> 1..n \cap kept]
  BY <1>1, <1>4
<1>6. \A j \in 1..l : r[j] = s[to[j]]
  BY <1>1, <1>2, <1>3, <1>4
<1>7. ASSUME NEW i \in 1..l, NEW j \in 1..l, i < j PROVE to[i] < to[j]
  <2>1. i \in 1..Len(q) /\ to[i] = at[i] /\ at[i] \in 1..(n - 1)
    BY <1>1, <1>2, <1>7
  <2>2. CASE j = l
    BY <2>1, <2>2
  <2>3. CASE j # l
    BY <1>1, <1>4, <1>7, <2>1, <2>3
  <2> QED
    BY <2>2, <2>3
<1>8. ASSUME NEW k \in 1..n \cap kept PROVE \E j \in 1..l : to[j] = k
  <2>1. CASE k = n
    BY <1>2, <2>1
  <2>2. CASE k # n
    <3>1. k \in 1..(n - 1) \cap kept
      BY <2>2
    <3>2. PICK j \in 1..Len(q) : at[j] = k
      BY <1>1, <3>1
    <3>3. j \in 1..l /\ j # l
      BY <1>2
    <3> QED
      BY <3>2, <3>3
  <2> QED
    BY <2>1, <2>2
<1> HIDE DEF to, r
<1>9. to \in [1..Len(r) -> 1..n \cap kept]
  BY <1>3, <1>5
<1>10. \A i, j \in 1..Len(r) : i < j => to[i] < to[j]
  BY <1>3, <1>7
<1>11. \A k \in 1..n \cap kept : \E j \in 1..Len(r) : to[j] = k
  BY <1>3, <1>8
<1>12. Selects(r, s, 1..n \cap kept)
  BY <1>3, <1>6, <1>9, <1>10, <1>11 DEF Selects
<1> QED
  BY <1>3, <1>12 DEF r

LEMMA GrowingSelects ==
  ASSUME NEW S, NEW s \in Seq(S), NEW kept, NEW g, Grows(g, s, kept, Len(s))
  PROVE  \A n \in 0..Len(s) : g[n] \in Seq(S) /\ Selects(g[n], s, 1..n \cap kept)
<1> DEFINE P(n) == g[n] \in Seq(S) /\ Selects(g[n], s, 1..n \cap kept)
           T    == {n \in 0..Len(s) : ~P(n)}
<1> SUFFICES ASSUME T # {} PROVE FALSE
  OBVIOUS
<1>1. PICK n \in T : \A m \in T : n <= m
  <2> T \subseteq Nat
    OBVIOUS
  <2> HIDE DEF T
  <2> QED
    BY LeastNatural
<1>2. n \in 0..Len(s) /\ ~P(n)
  BY <1>1
<1>3. n # 0
  <2>1. g[0] = <<>>
    BY DEF Grows
  <2>2. 1..0 \cap kept = {} /\ 1..Len(<<>>) = {}
    OBVIOUS
  <2>3. [j \in {} |-> 0] \in [{} -> {}]
    OBVIOUS
  <2>4. Selects(<<>>, s, {})
    BY <2>2, <2>3 DEF Selects
  <2>5. <<>> \in Seq(S)
    OBVIOUS
  <2>6. P(0)
    BY <2>1, <2>2, <2>4, <2>5
  <2> HIDE DEF P
  <2> QED
    BY <1>2, <2>6
<1>4. n \in 1..Len(s) /\ n - 1 \in 0..Len(s) /\ ~(n <= n - 1)
  BY <1>2, <1>3
<1>5. P(n - 1)
  <2>1. n - 1 \notin T
    BY <1>1, <1>4
  <2> QED
    BY <1>4, <2>1
<1>6. g[n] = IF n \in kept THEN Append(g[n - 1], s[n]) ELSE g[n - 1]
  BY <1>2, <1>3 DEF Grows
<1>7. CASE n \notin kept
  <2>1. 1..n \cap kept = 1..(n - 1) \cap kept
    BY <1>4, <1>7
  <2> QED
    BY <1>2, <1>5, <1>6, <1>7, <2>1
<1>8. CASE n \in kept
  <2>1. Append(g[n - 1], s[n]) \in Seq(S) /\ Selects(Append(g[n - 1], s[n]), s, 1..n \cap kept)
    <3> HIDE DEF P
    <3>1. g[n - 1] \in Seq(S) /\ Selects(g[n - 1], s, 1..(n - 1) \cap kept)
      BY <1>5 DEF P
    <3> QED
      BY <1>4, <1>8, <3>1, SelectsOneMore
  <2> QED
    BY <1>2, <1>6, <1>8, <2>1
<1> QED
  BY <1>7, <1>8

\* Vec::retain: what is kept, and in its order.
THEOREM RetainedSelects ==
  ASSUME NEW S, NEW s \in Seq(S), NEW kept
  PROVE  Retained(s, kept) \in Seq(S) /\ Selects(Retained(s, kept), s, DOMAIN s \cap kept)
<1>1. Len(s) \in Nat /\ Len(s) \in 0..Len(s) /\ DOMAIN s = 1..Len(s)
  OBVIOUS
<1>2. PICK g : Grows(g, s, kept, Len(s)) /\ Retained(s, kept) = g[Len(s)]
  BY <1>1, RetainedGrows
<1>3. g[Len(s)] \in Seq(S) /\ Selects(g[Len(s)], s, 1..Len(s) \cap kept)
  BY <1>1, <1>2, GrowingSelects
<1> QED
  BY <1>1, <1>2, <1>3

\* The elements of a retained sequence are those at the positions that are kept.
LEMMA RetainedElements ==
  ASSUME NEW S, NEW s \in Seq(S), NEW kept
  PROVE  LET r == Retained(s, kept) IN
         /\ r \in Seq(S)
         /\ {r[j] : j \in DOMAIN r} = {s[i] : i \in DOMAIN s \cap kept}
<1> DEFINE r == Retained(s, kept)
<1>1. r \in Seq(S) /\ Selects(r, s, DOMAIN s \cap kept)
  BY RetainedSelects
<1> HIDE DEF r
<1>2. DOMAIN r = 1..Len(r)
  BY <1>1
<1> QED
  BY <1>1, <1>2 DEF Selects, r
=============================================================================

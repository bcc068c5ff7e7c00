------------------------- MODULE AuditPolicyProofs -------------------------
(***************************************************************************)
(* Proofs about AuditLog and Policy: the pages of the audit log and the    *)
(* decisions of the policy, for logs, lists and limits of any length.      *)
(*                                                                         *)
(* Two algorithms loop over data, the filter of Lists and the sort of      *)
(* PostgreSQL.  What they return is shown by induction on the length, with *)
(* the induction principle stated for the set of lengths for which a fact  *)
(* holds.                                                                  *)
(***************************************************************************)
EXTENDS AuditLog, Policy, FiniteSetTheorems, TLAPS

-----------------------------------------------------------------------------
(* Natural numbers. *)

Less == {p \in Nat \X Nat : p[1] < p[2]}

(* Less is well-founded. *)
LEMMA LessIsWellFounded == IsWellFoundedOn(Less, Nat)
BY NatLessThanWellFounded, Zenon DEF OpToRel, Less

(* Every set of natural numbers but the empty one has a least element. *)
LEMMA LeastElement ==
  ASSUME NEW T, T \subseteq Nat, T # {}
  PROVE  \E x \in T : \A y \in T : x <= y
<1>1. PICK x \in T : \A y \in T : ~(<<y, x>> \in Less)
  BY LessIsWellFounded, WFMin, Zenon
<1>2. ASSUME NEW y \in T PROVE x <= y
  <2>1. x \in Nat /\ y \in Nat
    OBVIOUS
  <2>2. <<y, x>> \in Nat \X Nat
    BY <2>1
  <2>3. ~(y < x)
    BY <1>1, <2>2 DEF Less
  <2> QED BY <2>1, <2>3
<1> QED BY <1>2

(* Induction: a set with zero and the successors of its members has every  *)
(* natural number.                                                         *)
LEMMA SetInduction ==
  ASSUME NEW S, 0 \in S, \A n \in Nat : n \in S => n + 1 \in S
  PROVE  Nat \subseteq S
<1>1. SUFFICES ASSUME Nat \ S # {} PROVE FALSE
  OBVIOUS
<1>2. PICK x \in Nat \ S : \A y \in Nat \ S : x <= y
  BY <1>1, LeastElement, Zenon
<1>3. x # 0
  BY <1>2
<1>4. x - 1 \in Nat /\ ~(x <= x - 1)
  BY <1>2, <1>3
<1>5. x - 1 \in S
  BY <1>2, <1>4
<1>6. (x - 1) + 1 \in S
  BY <1>4, <1>5
<1> QED BY <1>2, <1>6

-----------------------------------------------------------------------------
(* The filter of Lists. *)

KeptStep(s, wanted, f, i) ==
  IF i = 0 THEN <<>>
  ELSE IF s[i] \in wanted THEN Append(f[i - 1], s[i])
  ELSE f[i - 1]

KeptUpTo(s, wanted, n) == CHOOSE f : f = [i \in 0..n |-> KeptStep(s, wanted, f, i)]

(* The equation of the filter has a solution for every length. *)
LEMMA KeptExists ==
  ASSUME NEW s, NEW wanted, NEW n \in Nat
  PROVE  \E f : f = [i \in 0..n |-> KeptStep(s, wanted, f, i)]
<1> DEFINE S == {m \in Nat : \E f : f = [i \in 0..m |-> KeptStep(s, wanted, f, i)]}
<1>1. 0 \in S
  <2> DEFINE f == [i \in 0..0 |-> <<>>]
  <2>1. f = [i \in 0..0 |-> KeptStep(s, wanted, f, i)]
    BY DEF KeptStep
  <2> QED BY <2>1
<1>2. ASSUME NEW m \in Nat, m \in S PROVE m + 1 \in S
  <2>1. PICK f : f = [i \in 0..m |-> KeptStep(s, wanted, f, i)]
    BY <1>2
  <2> DEFINE g == [i \in 0..(m + 1) |-> KeptStep(s, wanted, f, i)]
  <2>2. ASSUME NEW i \in 0..m PROVE g[i] = f[i]
    <3>1. i \in 0..(m + 1)
      OBVIOUS
    <3>2. f[i] = KeptStep(s, wanted, f, i)
      BY <2>1, Zenon
    <3> QED BY <3>1, <3>2, Zenon
  <2>3. ASSUME NEW i \in 0..(m + 1) PROVE KeptStep(s, wanted, g, i) = KeptStep(s, wanted, f, i)
    <3>1. CASE i = 0
      BY <3>1 DEF KeptStep
    <3>2. CASE i # 0
      <4>1. i - 1 \in 0..m
        BY <3>2
      <4>2. g[i - 1] = f[i - 1]
        BY <2>2, <4>1, Zenon
      <4> HIDE DEF g
      <4> QED BY <4>2, Zenon DEF KeptStep
    <3> QED BY <3>1, <3>2
  <2>4. g = [i \in 0..(m + 1) |-> KeptStep(s, wanted, g, i)]
    BY <2>3, Zenon
  <2>5. m + 1 \in Nat
    OBVIOUS
  <2> QED BY <2>4, <2>5, Zenon
<1>3. n \in S
  <2> HIDE DEF S
  <2> QED BY <1>1, <1>2, SetInduction, Zenon
<1> QED BY <1>3

(* The filter is the last value of its equation. *)
LEMMA KeptEquation ==
  ASSUME NEW s, NEW wanted, Len(s) \in Nat
  PROVE  \E f : /\ f = [i \in 0..Len(s) |-> KeptStep(s, wanted, f, i)]
               /\ Kept(s, wanted) = f[Len(s)]
<1> DEFINE f == KeptUpTo(s, wanted, Len(s))
<1>1. f = [i \in 0..Len(s) |-> KeptStep(s, wanted, f, i)]
  BY KeptExists, ZenonT(60) DEF KeptUpTo
<1>2. Kept(s, wanted) = f[Len(s)]
  BY Zenon DEF Kept, KeptUpTo, KeptStep
<1> QED BY <1>1, <1>2, Zenon

(* k lists the wanted items among the first n of s, in their order: g      *)
(* gives the position in s of every item of k.                             *)
Selection(s, wanted, n, k, g) ==
  /\ g \in [1..Len(k) -> 1..n]
  /\ \A i, j \in 1..Len(k) : i < j => g[i] < g[j]
  /\ \A i \in 1..Len(k) : k[i] = s[g[i]] /\ s[g[i]] \in wanted
  /\ \A m \in 1..n : s[m] \in wanted => \E i \in 1..Len(k) : g[i] = m

(* One round of the loop that appends. *)
LEMMA SelectionAppends ==
  ASSUME NEW T, NEW s \in Seq(T), NEW wanted, NEW n \in 0..(Len(s) - 1),
         NEW k \in Seq(T), NEW g, Selection(s, wanted, n, k, g), s[n + 1] \in wanted
  PROVE  /\ Append(k, s[n + 1]) \in Seq(T)
         /\ \E h : Selection(s, wanted, n + 1, Append(k, s[n + 1]), h)
<1> DEFINE l == Append(k, s[n + 1])
           h == [i \in 1..(Len(k) + 1) |-> IF i = Len(k) + 1 THEN n + 1 ELSE g[i]]
<1>1. Len(k) \in Nat /\ Len(s) \in Nat /\ n \in Nat /\ n + 1 \in 1..Len(s)
  OBVIOUS
<1>2. s[n + 1] \in T
  BY <1>1
<1>3. l \in Seq(T) /\ Len(l) = Len(k) + 1 /\ l[Len(k) + 1] = s[n + 1]
  BY <1>2
<1>4. \A i \in 1..Len(k) : l[i] = k[i]
  BY <1>2
<1>5. \A i \in 1..Len(k) : i \in 1..(Len(k) + 1) /\ i # Len(k) + 1
  BY <1>1
<1>6. \A i \in 1..Len(k) : h[i] = g[i]
  BY <1>5, Zenon
<1>7. Len(k) + 1 \in 1..(Len(k) + 1)
  BY <1>1
<1>8. h[Len(k) + 1] = n + 1
  BY <1>7, Zenon
<1>9. \A i \in 1..Len(k) : g[i] \in 1..n
  BY DEF Selection
<1>10. \A i \in 1..(Len(k) + 1) : i \in 1..Len(k) \/ i = Len(k) + 1
  BY <1>1
<1>11. \A m \in 1..n : m \in 1..(n + 1) /\ m < n + 1
  BY <1>1
<1>12. \A m \in 1..(n + 1) : m \in 1..n \/ m = n + 1
  BY <1>1
<1>13. n + 1 \in 1..(n + 1)
  BY <1>1
<1>14. h \in [1..(Len(k) + 1) -> 1..(n + 1)]
  BY <1>6, <1>8, <1>9, <1>10, <1>11, <1>13, Zenon
<1> HIDE DEF l, h
<1>15. ASSUME NEW i \in 1..Len(l), NEW j \in 1..Len(l), i < j PROVE h[i] < h[j]
  <2>1. i \in 1..Len(k)
    BY <1>1, <1>3, <1>15
  <2>2. CASE j \in 1..Len(k)
    BY <1>6, <1>15, <2>1, <2>2 DEF Selection
  <2>3. CASE j = Len(k) + 1
    <3>1. g[i] < n + 1
      BY <1>9, <1>11, <2>1, Zenon
    <3> QED BY <1>6, <1>8, <2>1, <2>3, <3>1, Zenon
  <2> QED BY <1>3, <1>10, <2>2, <2>3, Zenon
<1>16. ASSUME NEW i \in 1..Len(l) PROVE l[i] = s[h[i]] /\ s[h[i]] \in wanted
  <2>1. CASE i \in 1..Len(k)
    BY <1>4, <1>6, <2>1, Zenon DEF Selection
  <2>2. CASE i = Len(k) + 1
    BY <1>3, <1>8, <2>2, Zenon
  <2> QED BY <1>3, <1>10, <2>1, <2>2, Zenon
<1>17. ASSUME NEW m \in 1..(n + 1), s[m] \in wanted PROVE \E i \in 1..Len(l) : h[i] = m
  <2>1. CASE m \in 1..n
    <3>1. PICK i \in 1..Len(k) : g[i] = m
      BY <1>17, <2>1, Zenon DEF Selection
    <3> QED BY <1>3, <1>5, <1>6, <3>1, Zenon
  <2>2. CASE m = n + 1
    BY <1>3, <1>7, <1>8, <2>2, Zenon
  <2> QED BY <1>12, <2>1, <2>2, Zenon
<1>18. Selection(s, wanted, n + 1, l, h)
  BY <1>3, <1>14, <1>15, <1>16, <1>17, Zenon DEF Selection
<1> QED BY <1>3, <1>18, Zenon DEF l

(* One round of the loop that skips an item. *)
LEMMA SelectionSkips ==
  ASSUME NEW s, NEW wanted, NEW n \in Nat, NEW k, NEW g, Selection(s, wanted, n, k, g),
         s[n + 1] \notin wanted
  PROVE  Selection(s, wanted, n + 1, k, g)
<1>1. \A m \in 1..n : m \in 1..(n + 1)
  OBVIOUS
<1>2. \A m \in 1..(n + 1) : m \in 1..n \/ m = n + 1
  OBVIOUS
<1>3. g \in [1..Len(k) -> 1..(n + 1)]
  BY <1>1, Zenon DEF Selection
<1>4. ASSUME NEW m \in 1..(n + 1), s[m] \in wanted PROVE m \in 1..n
  BY <1>2, <1>4, Zenon
<1> QED BY <1>3, <1>4, Zenon DEF Selection

(* The filter lists the wanted items in their order. *)
LEMMA KeptSelects ==
  ASSUME NEW T, NEW s \in Seq(T), NEW wanted
  PROVE  /\ Kept(s, wanted) \in Seq(T)
         /\ \E g : Selection(s, wanted, Len(s), Kept(s, wanted), g)
<1>1. Len(s) \in Nat
  OBVIOUS
<1>2. PICK f : /\ f = [i \in 0..Len(s) |-> KeptStep(s, wanted, f, i)]
               /\ Kept(s, wanted) = f[Len(s)]
  BY <1>1, KeptEquation, Zenon
<1> DEFINE Good(n) == f[n] \in Seq(T) /\ \E g : Selection(s, wanted, n, f[n], g)
           S == {n \in Nat : n <= Len(s) => Good(n)}
<1>3. 0 \in S
  <2>1. 0 \in 0..Len(s) /\ 0 \in Nat
    BY <1>1
  <2>2. f[0] = <<>>
    BY <1>2, <2>1, Zenon DEF KeptStep
  <2>3. f[0] \in Seq(T) /\ Len(f[0]) = 0 /\ 1..0 = {}
    BY <2>2
  <2>4. Selection(s, wanted, 0, f[0], [i \in 1..0 |-> 0])
    <3> DEFINE g == [i \in 1..0 |-> 0]
    <3>1. g \in [1..Len(f[0]) -> 1..0]
      BY <2>3, Zenon
    <3> HIDE DEF g
    <3>2. Selection(s, wanted, 0, f[0], g)
      BY <2>3, <3>1, Zenon DEF Selection
    <3> QED BY <3>2, Zenon DEF g
  <2> QED BY <2>1, <2>3, <2>4, Zenon
<1>4. ASSUME NEW n \in Nat, n \in S PROVE n + 1 \in S
  <2>1. n + 1 \in Nat
    OBVIOUS
  <2>2. SUFFICES ASSUME n + 1 <= Len(s) PROVE Good(n + 1)
    BY <2>1, Zenon
  <2>3. n \in 0..(Len(s) - 1) /\ n <= Len(s) /\ n + 1 \in 0..Len(s) /\ n + 1 # 0 /\ (n + 1) - 1 = n
    BY <1>1, <2>2
  <2>4. Good(n)
    BY <1>4, <2>3, Zenon
  <2>5. f[n + 1] = IF s[n + 1] \in wanted THEN Append(f[n], s[n + 1]) ELSE f[n]
    BY <1>2, <2>3, Zenon DEF KeptStep
  <2>6. CASE s[n + 1] \in wanted
    <3>1. f[n] \in Seq(T) /\ f[n + 1] = Append(f[n], s[n + 1])
      BY <2>4, <2>5, <2>6, Zenon
    <3>2. PICK g : Selection(s, wanted, n, f[n], g)
      BY <2>4, Zenon
    <3>3. /\ Append(f[n], s[n + 1]) \in Seq(T)
          /\ \E h : Selection(s, wanted, n + 1, Append(f[n], s[n + 1]), h)
      BY <2>3, <2>6, <3>1, <3>2, SelectionAppends, Zenon
    <3> QED BY <3>1, <3>3, Zenon
  <2>7. CASE s[n + 1] \notin wanted
    BY <2>4, <2>5, <2>7, SelectionSkips, Zenon
  <2> QED BY <2>6, <2>7, Zenon
<1>5. Len(s) \in S
  <2> HIDE DEF S
  <2> QED BY <1>1, <1>3, <1>4, SetInduction, Zenon
<1>6. Len(s) <= Len(s)
  BY <1>1
<1> QED BY <1>2, <1>5, <1>6, Zenon

-----------------------------------------------------------------------------
(* The orders that a query may list a set in. *)

(* An order of a finite set lists each of its members once. *)
LEMMA OrderListsAll ==
  ASSUME NEW M, IsFiniteSet(M), NEW s \in Orders(M)
  PROVE  /\ s \in Seq(M) /\ Len(s) = Cardinality(M)
         /\ IsInjective(s) /\ Range(s) = M
<1> DEFINE D == 1..Cardinality(M)
<1>1. Cardinality(M) \in Nat
  BY FS_CardinalityType, Zenon
<1>2. s \in Injection(D, M)
  BY Zenon DEF Orders
<1>3. s \in [D -> M] /\ IsInjective(s)
  BY <1>2, Zenon DEF Injection
<1>4. s \in Seq(M) /\ Len(s) = Cardinality(M)
  BY <1>1, <1>3
<1>5. Cardinality(D) = Cardinality(M)
  BY <1>1, FS_Interval
<1> HIDE DEF D
<1>6. s \in Surjection(D, M)
  BY <1>2, <1>5, FS_Injection, Zenon
<1>7. DOMAIN s = D /\ (\A i \in D : s[i] \in M) /\ \A m \in M : \E i \in D : s[i] = m
  BY <1>3, <1>6, Zenon DEF Surjection
<1>8. Range(s) = M
  <2>1. ASSUME NEW m \in Range(s) PROVE m \in M
    BY <1>7, <2>1, Zenon DEF Range
  <2>2. ASSUME NEW m \in M PROVE m \in Range(s)
    <3>1. PICK i \in D : s[i] = m
      BY <1>7, Zenon
    <3> QED BY <1>7, <3>1, Zenon DEF Range
  <2> QED BY <2>1, <2>2, Zenon
<1> QED BY <1>3, <1>4, <1>8

Descending(s, stamp) ==
  \A i, j \in DOMAIN s : i < j => stamp[s[i]] >= stamp[s[j]]

(* An order grows at its end by a member with the least stamp. *)
LEMMA OrderGrows ==
  ASSUME NEW U, IsFiniteSet(U), NEW x \in U, NEW stamp \in [U -> Nat],
         \A u \in U : stamp[x] <= stamp[u],
         NEW s \in Orders(U \ {x}), Descending(s, stamp)
  PROVE  \E l \in Orders(U) : Descending(l, stamp)
<1> DEFINE n == Cardinality(U \ {x})
           l == [i \in 1..(n + 1) |-> IF i = n + 1 THEN x ELSE s[i]]
<1>1. IsFiniteSet(U \ {x}) /\ Cardinality(U \ {x}) = Cardinality(U) - 1
  BY FS_RemoveElement, Zenon
<1>2. n \in Nat
  BY <1>1, FS_CardinalityType, Zenon
<1>3. Cardinality(U) \in Nat
  BY FS_CardinalityType, Zenon
<1>4. Cardinality(U) = n + 1
  BY <1>1, <1>3
<1>5. s \in [1..n -> U \ {x}] /\ \A i, j \in 1..n : i # j => s[i] # s[j]
  BY Zenon DEF Orders, Injection, IsInjective
<1> HIDE DEF n
<1>6. \A i \in 1..(n + 1) : i \in 1..n \/ i = n + 1
  BY <1>2
<1>7. \A i \in 1..n : i # n + 1 /\ i \in 1..(n + 1)
  BY <1>2
<1>8. n + 1 \in 1..(n + 1)
  BY <1>2
<1>9. l[n + 1] = x /\ \A i \in 1..n : l[i] = s[i]
  BY <1>7, <1>8, Zenon
<1>10. l \in [1..(n + 1) -> U]
  BY <1>5, <1>6, Zenon
<1> HIDE DEF l
<1>11. ASSUME NEW i \in 1..(n + 1), NEW j \in 1..(n + 1), i # j PROVE l[i] # l[j]
  <2>1. CASE i \in 1..n /\ j \in 1..n
    BY <1>5, <1>9, <1>11, <2>1, Zenon
  <2>2. CASE i \in 1..n /\ j = n + 1
    BY <1>5, <1>9, <2>2, Zenon
  <2>3. CASE i = n + 1 /\ j \in 1..n
    BY <1>5, <1>9, <2>3, Zenon
  <2> QED BY <1>6, <1>11, <2>1, <2>2, <2>3, Zenon
<1>12. l \in Orders(U)
  BY <1>4, <1>10, <1>11, Zenon DEF Orders, Injection, IsInjective
<1>13. DOMAIN l = 1..(n + 1) /\ DOMAIN s = 1..n
  BY <1>5, <1>10, Zenon
<1>14. ASSUME NEW i \in 1..(n + 1), NEW j \in 1..(n + 1), i < j
       PROVE  stamp[l[i]] >= stamp[l[j]]
  <2>1. i \in 1..n
    BY <1>2, <1>14
  <2>2. CASE j \in 1..n
    BY <1>9, <1>13, <1>14, <2>1, <2>2, Zenon DEF Descending
  <2>3. CASE j = n + 1
    <3>1. s[i] \in U /\ l[i] = s[i] /\ l[j] = x
      BY <1>5, <1>9, <2>1, <2>3, Zenon
    <3>2. stamp[x] <= stamp[s[i]] /\ stamp[x] \in Nat /\ stamp[s[i]] \in Nat
      BY <3>1, Zenon
    <3> QED BY <3>1, <3>2
  <2> QED BY <1>6, <2>2, <2>3, Zenon
<1>15. Descending(l, stamp)
  BY <1>13, <1>14, Zenon DEF Descending
<1> QED BY <1>12, <1>15, Zenon

(* Every finite set can be sorted by its stamps. *)
LEMMA OrderExists ==
  ASSUME NEW M, IsFiniteSet(M), NEW stamp \in [M -> Nat]
  PROVE  \E s \in Orders(M) : Descending(s, stamp)
<1> DEFINE Sorts(U) == \E s \in Orders(U) : Descending(s, stamp)
           S == {n \in Nat : \A U \in SUBSET M : Cardinality(U) = n => Sorts(U)}
<1>1. \A U \in SUBSET M : IsFiniteSet(U) /\ Cardinality(U) \in Nat
  BY FS_Subset, FS_CardinalityType, Zenon
<1>2. 0 \in S
  <2>1. ASSUME NEW U \in SUBSET M, Cardinality(U) = 0 PROVE Sorts(U)
    <3>1. 1..0 = {}
      OBVIOUS
    <3> DEFINE s == [i \in 1..0 |-> 0]
    <3>2. s \in Orders(U)
      BY <2>1, <3>1, Zenon DEF Orders, Injection, IsInjective
    <3>3. Descending(s, stamp)
      BY <3>1, Zenon DEF Descending
    <3> QED BY <3>2, <3>3, Zenon
  <2> QED BY <2>1
<1>3. ASSUME NEW n \in Nat, n \in S PROVE n + 1 \in S
  <2>1. ASSUME NEW U \in SUBSET M, Cardinality(U) = n + 1 PROVE Sorts(U)
    <3> DEFINE V == {stamp[u] : u \in U}
    <3>1. U # {}
      <4>1. n + 1 # 0
        OBVIOUS
      <4> QED BY <2>1, <4>1, FS_EmptySet, Zenon
    <3>2. V # {} /\ V \subseteq Nat
      BY <3>1, Zenon
    <3>3. PICK v \in V : \A y \in V : v <= y
      <4> HIDE DEF V
      <4> QED BY <3>2, LeastElement, Zenon
    <3>4. PICK x \in U : v = stamp[x]
      BY <3>3, Zenon
    <3>5. \A u \in U : stamp[x] <= stamp[u]
      BY <3>3, <3>4, Zenon
    <3>6. Cardinality(U \ {x}) = Cardinality(U) - 1
      BY <1>1, FS_RemoveElement, Zenon
    <3>7. (n + 1) - 1 = n
      OBVIOUS
    <3>8. Sorts(U \ {x})
      <4>1. U \ {x} \in SUBSET M
        OBVIOUS
      <4> QED BY <1>3, <2>1, <3>6, <3>7, <4>1, Zenon
    <3>9. PICK s \in Orders(U \ {x}) : Descending(s, stamp)
      BY <3>8, Zenon
    <3> DEFINE part == [u \in U |-> stamp[u]]
    <3>10. part \in [U -> Nat] /\ \A u \in U : part[u] = stamp[u]
      BY Zenon
    <3>11. \A W \in SUBSET U : \A l \in Orders(W) :
             Descending(l, stamp) <=> Descending(l, part)
      <4>1. ASSUME NEW W \in SUBSET U, NEW l \in Orders(W), NEW i \in DOMAIN l
            PROVE  l[i] \in U
        BY Zenon DEF Orders, Injection, IsInjective
      <4> HIDE DEF part
      <4> QED BY <3>10, <4>1, Zenon DEF Descending
    <3>12. Descending(s, part)
      <4>1. U \ {x} \in SUBSET U
        OBVIOUS
      <4> QED BY <3>9, <3>11, <4>1, Zenon
    <3> HIDE DEF part
    <3>13. \A u \in U : part[x] <= part[u]
      BY <3>5, <3>10, Zenon
    <3>14. PICK l \in Orders(U) : Descending(l, part)
      BY <1>1, <3>10, <3>12, <3>13, OrderGrows, Zenon
    <3>15. Descending(l, stamp)
      <4>1. U \in SUBSET U
        OBVIOUS
      <4> QED BY <3>11, <3>14, <4>1, Zenon
    <3> QED BY <3>15, Zenon
  <2>2. n + 1 \in Nat
    OBVIOUS
  <2> QED BY <2>1, <2>2
<1>4. Cardinality(M) \in S
  <2> HIDE DEF S
  <2> QED BY <1>1, <1>2, <1>3, SetInduction, FS_CardinalityType, Zenon
<1>5. M \in SUBSET M
  OBVIOUS
<1> QED BY <1>4, <1>5, Zenon

-----------------------------------------------------------------------------
(* Listings and their pages. *)

(* s lists the members of M, each once. *)
Listing(s, M) == s \in Seq(M) /\ IsInjective(s) /\ Range(s) = M

(* A page is the beginning of a listing, cut where the limit says. *)
LEMMA PageOfListing ==
  ASSUME NEW M, NEW s, Listing(s, M), NEW limit \in Int
  PROVE  LET page == Page(s, limit)
         IN  /\ Limit(limit) \in Nat
             /\ DOMAIN page \subseteq DOMAIN s
             /\ \A i \in DOMAIN page : page[i] = s[i] /\ 1..i \subseteq DOMAIN page
             /\ IsInjective(page) /\ Range(page) \subseteq M
             /\ \/ Range(page) = M /\ Len(page) <= Limit(limit)
                \/ Len(page) = Limit(limit)
<1> DEFINE n == IF Len(s) < Limit(limit) THEN Len(s) ELSE Limit(limit)
           page == Page(s, limit)
<1>1. MaxLimit \in Nat /\ DefaultLimit \in Nat
  BY AuditLogAssumption, NumeralsAssumption
<1>2. Limit(limit) \in Nat
  BY <1>1 DEF Limit
<1>3. s \in Seq(M) /\ Len(s) \in Nat /\ DOMAIN s = 1..Len(s)
  BY DEF Listing
<1>4. n \in Nat /\ n <= Len(s) /\ n <= Limit(limit) /\ (n = Len(s) \/ n = Limit(limit))
  BY <1>2, <1>3
<1>5. page = SubSeq(s, 1, n)
  BY Zenon DEF Page
<1> HIDE DEF n
<1>6. \A i \in 1..n : i \in DOMAIN s /\ s[i] \in M
  <2>1. \A i \in 1..n : i \in 1..Len(s)
    <3>1. n \in Nat /\ Len(s) \in Nat /\ n <= Len(s)
      BY <1>3, <1>4, Zenon
    <3> QED BY <3>1
  <2>2. \A i \in 1..Len(s) : s[i] \in M
    BY <1>3
  <2> QED BY <1>3, <2>1, <2>2, Zenon
<1>7. /\ SubSeq(s, 1, n) \in Seq(M)
      /\ Len(SubSeq(s, 1, n)) = IF 1 <= n THEN (n - 1) + 1 ELSE 0
      /\ \A i \in 1..((n - 1) + 1) : SubSeq(s, 1, n)[i] = s[(1 + i) - 1]
  BY <1>4, <1>6
<1>8. \A i \in 1..n : i \in 1..((n - 1) + 1) /\ (1 + i) - 1 = i
  BY <1>4
<1>9. page \in Seq(M) /\ \A i \in 1..n : page[i] = s[i]
  BY <1>5, <1>7, <1>8, Zenon
<1>10. Len(page) = n
  BY <1>4, <1>5, <1>7
<1> HIDE DEF page
<1>11. DOMAIN page = 1..n
  BY <1>9, <1>10
<1>12. \A i \in 1..n : 1..i \subseteq 1..n
  BY <1>4
<1>13. IsInjective(page)
  BY <1>6, <1>9, <1>11, Zenon DEF IsInjective, Listing
<1>14. Range(page) \subseteq M
  BY <1>6, <1>9, <1>11, Zenon DEF Range
<1>15. CASE n = Len(s)
  <2>1. Range(page) = Range(s)
    BY <1>3, <1>9, <1>11, <1>15, Zenon DEF Range
  <2>2. Range(page) = M /\ Len(page) <= Limit(limit)
    BY <1>4, <1>10, <2>1, Zenon DEF Listing
  <2> QED BY <1>2, <1>6, <1>9, <1>11, <1>12, <1>13, <1>14, <2>2, Zenon DEF page
<1>16. CASE n = Limit(limit)
  BY <1>2, <1>6, <1>9, <1>10, <1>11, <1>12, <1>13, <1>14, <1>16, Zenon DEF page
<1> QED BY <1>4, <1>15, <1>16, Zenon

(* What MemoryStore collects on its way back through the log l: what it    *)
(* looks for, the later appended before the earlier.                       *)
LEMMA BackwardsListing ==
  ASSUME NEW T, NEW l \in Seq(T), IsInjective(l), NEW M, M \subseteq Range(l)
  PROVE  LET k == Kept(Backwards(l), M)
         IN  /\ Listing(k, M)
             /\ \A i, j \in DOMAIN k : \A a, b \in DOMAIN l :
                  k[i] = l[a] /\ k[j] = l[b] /\ a < b => j < i
<1> DEFINE rev == Backwards(l)
           k == Kept(rev, M)
           n == Len(l)
<1>1. n \in Nat /\ DOMAIN l = 1..n
  OBVIOUS
<1>2. \A i \in 1..n : (n - i) + 1 \in 1..n /\ (n - ((n - i) + 1)) + 1 = i
  BY <1>1
<1>3. rev = [i \in 1..n |-> l[(n - i) + 1]]
  BY Zenon DEF Backwards
<1>4. rev \in [1..n -> T]
  <2>1. \A i \in 1..n : l[i] \in T
    OBVIOUS
  <2> QED BY <1>2, <1>3, <2>1, Zenon
<1>5. rev \in Seq(T) /\ Len(rev) = n
  BY <1>1, <1>4
<1>6. \A i \in 1..n : rev[i] = l[(n - i) + 1]
  BY <1>3, Zenon
<1> HIDE DEF rev, n
<1>7. k \in Seq(T) /\ \E g : Selection(rev, M, n, k, g)
  BY <1>5, KeptSelects, Zenon
<1> HIDE DEF k
<1>8. PICK g : Selection(rev, M, n, k, g)
  BY <1>7, Zenon
<1>9. DOMAIN k = 1..Len(k) /\ Len(k) \in Nat
  BY <1>7
<1>10. \A i \in 1..Len(k) : g[i] \in 1..n /\ k[i] = rev[g[i]] /\ k[i] \in M
  BY <1>8, Zenon DEF Selection
<1>11. \A i \in 1..Len(k) : k[i] = l[(n - g[i]) + 1] /\ (n - g[i]) + 1 \in 1..n
  BY <1>2, <1>6, <1>10, Zenon
<1>12. ASSUME NEW i \in 1..Len(k), NEW j \in 1..Len(k), NEW a \in 1..n, NEW b \in 1..n,
              k[i] = l[a], k[j] = l[b], a < b
       PROVE  j < i
  <2>1. a = (n - g[i]) + 1 /\ b = (n - g[j]) + 1
    <3>1. (n - g[i]) + 1 \in DOMAIN l /\ l[(n - g[i]) + 1] = l[a] /\ a \in DOMAIN l
      BY <1>1, <1>11, <1>12, Zenon
    <3>2. (n - g[j]) + 1 \in DOMAIN l /\ l[(n - g[j]) + 1] = l[b] /\ b \in DOMAIN l
      BY <1>1, <1>11, <1>12, Zenon
    <3> QED BY <3>1, <3>2, Zenon DEF IsInjective
  <2>2. g[i] \in 1..n /\ g[j] \in 1..n
    BY <1>10, Zenon
  <2>3. g[j] < g[i]
    BY <1>1, <1>12, <2>1, <2>2, SMTT(30)
  <2>4. ~(g[i] < g[j]) /\ i # j
    BY <2>2, <2>3
  <2>5. ~(i < j)
    BY <1>8, <2>4, Zenon DEF Selection
  <2> QED BY <1>9, <2>4, <2>5
<1>13. IsInjective(k)
  <2>1. ASSUME NEW i \in 1..Len(k), NEW j \in 1..Len(k), k[i] = k[j] PROVE i = j
    <3>1. (n - g[i]) + 1 = (n - g[j]) + 1
      BY <1>1, <1>11, <2>1, Zenon DEF IsInjective
    <3>2. g[i] \in 1..n /\ g[j] \in 1..n
      BY <1>10, Zenon
    <3>3. g[i] = g[j]
      BY <1>1, <3>1, <3>2
    <3>4. ~(g[i] < g[j]) /\ ~(g[j] < g[i])
      BY <3>2, <3>3
    <3>5. ~(i < j) /\ ~(j < i)
      BY <1>8, <3>4, Zenon DEF Selection
    <3> QED BY <1>9, <3>5
  <2> QED BY <1>9, <2>1, Zenon DEF IsInjective
<1>14. k \in Seq(M)
  BY <1>7, <1>9, <1>10
<1>15. ASSUME NEW m \in M PROVE \E i \in 1..Len(k) : k[i] = m
  <2>1. PICK a \in 1..n : l[a] = m
    BY <1>1, Zenon DEF Range
  <2>2. (n - a) + 1 \in 1..n /\ rev[(n - a) + 1] = m
    BY <1>2, <1>6, <2>1, Zenon
  <2>3. PICK i \in 1..Len(k) : g[i] = (n - a) + 1
    BY <1>8, <2>2, Zenon DEF Selection
  <2> QED BY <1>10, <2>2, <2>3, Zenon
<1>16. Range(k) = M
  <2>1. ASSUME NEW m \in Range(k) PROVE m \in M
    BY <1>9, <1>10, <2>1, Zenon DEF Range
  <2>2. ASSUME NEW m \in M PROVE m \in Range(k)
    <3>1. PICK i \in 1..Len(k) : k[i] = m
      BY <1>15, Zenon
    <3> QED BY <1>9, <3>1, Zenon DEF Range
  <2> QED BY <2>1, <2>2, Zenon
<1>17. Listing(k, M)
  BY <1>13, <1>14, <1>16, Zenon DEF Listing
<1> QED BY <1>1, <1>9, <1>12, <1>17, Zenon DEF k, rev

-----------------------------------------------------------------------------
(* The invariant of the log. *)

(* Initially nothing is stamped or logged. *)
LEMMA LogInit == ASSUME Init PROVE LogInv
<1>1. log = <<>> /\ DOMAIN log = {} /\ log \in Seq(Events)
  BY DEF Init
<1>2. Logged = {} /\ IsInjective(log)
  BY <1>1, Zenon DEF Logged, Range, IsInjective
<1>3. \A e \in Events : event[e] = None /\ past[e] = {}
  BY Zenon DEF Init
<1>4. clock \in 0..MaxClock
  BY AuditLogAssumption DEF Init
<1>5. TypeOK
  BY <1>1, <1>2, <1>4, Zenon DEF Init, TypeOK
<1> QED BY <1>1, <1>2, <1>3, <1>5, Zenon DEF LogInv

(* The stamp of an event that has one. *)
LEMMA StampType ==
  ASSUME TypeOK, NEW e \in Events, event[e] # None
  PROVE  event[e] \in AuditEvent /\ event[e].createdAt \in Nat
<1>1. event[e] \in AuditEvent
  BY Zenon DEF TypeOK
<1> QED BY <1>1, AuditLogAssumption DEF AuditEvent

(* The clock moves on. *)
LEMMA TickKeepsLogInv == ASSUME LogInv, Tick PROVE LogInv'
<1>1. TypeOK /\ clock' = clock + 1 /\ clock < MaxClock /\ UNCHANGED <<log, event, past>>
  BY Zenon DEF LogInv, Tick
<1>2. clock' \in 0..MaxClock /\ clock \in Nat
  BY <1>1, AuditLogAssumption DEF TypeOK
<1>3. TypeOK' /\ Logged' = Logged
  BY <1>1, <1>2, Zenon DEF TypeOK, Logged
<1>4. ASSUME NEW e \in Events, event[e] # None PROVE event[e].createdAt <= clock'
  <2>1. event[e].createdAt \in Nat /\ event[e].createdAt <= clock
    BY <1>1, <1>4, StampType, Zenon DEF LogInv
  <2> QED BY <1>1, <1>2, <2>1
<1> QED BY <1>1, <1>3, <1>4, Zenon DEF LogInv

(* An event is stamped after everything that is in the log. *)
LEMMA AppendAuditKeepsLogInv ==
  ASSUME LogInv, NEW e \in Events, NEW r \in Resources, appendAudit(e, r)
  PROVE  LogInv'
<1> DEFINE stamped == [resourceID |-> r, createdAt |-> clock]
<1>1. /\ TypeOK /\ event[e] = None /\ UNCHANGED <<clock, log>>
      /\ event' = [event EXCEPT ![e] = stamped]
      /\ past' = [past EXCEPT ![e] = Logged]
  BY Zenon DEF LogInv, appendAudit
<1>2. stamped \in AuditEvent /\ stamped.createdAt = clock
  BY <1>1 DEF TypeOK, AuditEvent
<1>3. stamped # None
  BY <1>2, AuditLogAssumption, Zenon
<1> HIDE DEF stamped
<1>4. /\ event'[e] = stamped /\ past'[e] = Logged
      /\ \A d \in Events : d # e => event'[d] = event[d] /\ past'[d] = past[d]
  BY <1>1, Zenon DEF TypeOK
<1>5. Logged' = Logged /\ e \notin Logged
  BY <1>1, Zenon DEF Logged, LogInv
<1>6. Logged \subseteq Events
  BY <1>1 DEF TypeOK, Logged, Range
<1>7. TypeOK'
  BY <1>1, <1>2, <1>5, <1>6, Zenon DEF TypeOK
<1>8. \A d \in Logged : event'[d] = event[d] /\ event[d] # None /\ event[d].createdAt <= clock
  BY <1>4, <1>5, <1>6, Zenon DEF LogInv
<1>9. clock <= clock
  BY <1>1 DEF TypeOK
<1>10. ASSUME NEW d \in Events
       PROVE  /\ event'[d] # None => event'[d].createdAt <= clock'
              /\ past'[d] # {} => event'[d] # None
              /\ past'[d] \subseteq Logged'
              /\ \A c \in past'[d] : event'[c].createdAt <= event'[d].createdAt
  <2>1. CASE d = e
    BY <1>1, <1>2, <1>3, <1>4, <1>5, <1>8, <1>9, <2>1, Zenon
  <2>2. CASE d # e
    BY <1>1, <1>4, <1>5, <1>8, <2>2, Zenon DEF LogInv
  <2> QED BY <2>1, <2>2
<1>11. ASSUME NEW i \in DOMAIN log, NEW j \in DOMAIN log, log[j] \in past'[log[i]]
       PROVE  j < i
  <2>1. log[i] \in Logged
    BY Zenon DEF Logged, Range
  <2> QED BY <1>4, <1>5, <1>6, <1>11, <2>1, Zenon DEF LogInv
<1> QED BY <1>1, <1>5, <1>7, <1>8, <1>10, <1>11, Zenon DEF LogInv

(* An event enters the log behind everything that its handler could see. *)
LEMMA AppendEventKeepsLogInv ==
  ASSUME LogInv, NEW e \in Events, AppendAuditEvent(e)
  PROVE  LogInv'
<1>1. /\ TypeOK /\ event[e] # None /\ e \notin Logged
      /\ log' = Append(log, e) /\ UNCHANGED <<clock, event, past>>
  BY Zenon DEF LogInv, AppendAuditEvent
<1>2. log \in Seq(Events) /\ IsInjective(log)
  BY <1>1, Zenon DEF TypeOK
<1> DEFINE n == Len(log)
<1>3. n \in Nat /\ DOMAIN log = 1..n
  BY <1>2
<1>4. /\ log' \in Seq(Events) /\ Len(log') = n + 1
      /\ log'[n + 1] = e /\ \A i \in 1..n : log'[i] = log[i]
  BY <1>1, <1>2
<1>5. DOMAIN log' = 1..(n + 1)
  BY <1>4
<1> HIDE DEF n
<1>6. \A i \in 1..(n + 1) : i \in 1..n \/ i = n + 1
  BY <1>3
<1>7. n + 1 \in 1..(n + 1) /\ \A i \in 1..n : i \in 1..(n + 1) /\ i < n + 1
  BY <1>3
<1>8. \A i \in 1..n : log[i] \in Logged
  BY <1>3, Zenon DEF Logged, Range
<1>9. Logged' = Logged \cup {e}
  <2>1. ASSUME NEW d \in Logged' PROVE d \in Logged \cup {e}
    <3>1. PICK i \in 1..(n + 1) : d = log'[i]
      BY <1>5, Zenon DEF Logged, Range
    <3> QED BY <1>4, <1>6, <1>8, <3>1, Zenon
  <2>2. ASSUME NEW d \in Logged PROVE d \in Logged'
    <3>1. PICK i \in 1..n : d = log[i]
      BY <1>3, Zenon DEF Logged, Range
    <3>2. i \in DOMAIN log' /\ d = log'[i]
      BY <1>4, <1>5, <1>7, <3>1, Zenon
    <3> QED BY <3>2, Zenon DEF Logged, Range
  <2>3. e \in Logged'
    <3>1. n + 1 \in DOMAIN log' /\ e = log'[n + 1]
      BY <1>4, <1>5, <1>7, Zenon
    <3> QED BY <3>1, Zenon DEF Logged, Range
  <2> QED BY <2>1, <2>2, <2>3, Zenon
<1>10. IsInjective(log')
  <2>1. ASSUME NEW i \in 1..(n + 1), NEW j \in 1..(n + 1), log'[i] = log'[j] PROVE i = j
    <3>1. CASE i \in 1..n /\ j \in 1..n
      <4>1. log[i] = log[j] /\ i \in DOMAIN log /\ j \in DOMAIN log
        BY <1>3, <1>4, <2>1, <3>1, Zenon
      <4> QED BY <1>2, <4>1, Zenon DEF IsInjective
    <3>2. CASE i \in 1..n /\ j = n + 1
      BY <1>1, <1>4, <1>8, <2>1, <3>2, Zenon
    <3>3. CASE i = n + 1 /\ j \in 1..n
      BY <1>1, <1>4, <1>8, <2>1, <3>3, Zenon
    <3> QED BY <1>6, <3>1, <3>2, <3>3, Zenon
  <2> QED BY <1>5, <2>1, Zenon DEF IsInjective
<1>11. TypeOK'
  BY <1>1, <1>4, <1>10, Zenon DEF TypeOK
<1>12. ASSUME NEW i \in 1..(n + 1), NEW j \in 1..(n + 1), log'[j] \in past[log'[i]]
       PROVE  j < i
  <2>1. log'[i] \in Events
    BY <1>4, <1>5
  <2>2. log'[j] \in Logged
    BY <1>12, <2>1, Zenon DEF LogInv
  <2>3. j \in 1..n
    BY <1>1, <1>4, <1>6, <2>2, Zenon
  <2>4. CASE i \in 1..n
    BY <1>3, <1>4, <1>12, <2>3, <2>4, Zenon DEF LogInv
  <2>5. CASE i = n + 1
    BY <1>7, <2>3, <2>5, Zenon
  <2> QED BY <1>6, <2>4, <2>5, Zenon
<1> QED BY <1>1, <1>5, <1>9, <1>11, <1>12, Zenon DEF LogInv

(* The log and its stamps agree: an event is stamped no earlier than what  *)
(* its handler could see in the log, and stands behind it, whatever the    *)
(* order in which handlers reach the store.                                *)
THEOREM LogInvariance == Spec => []LogInv
<1>1. ASSUME LogInv, [Next]_vars PROVE LogInv'
  <2>1. CASE Tick
    BY <1>1, <2>1, TickKeepsLogInv
  <2>2. ASSUME NEW e \in Events, NEW r \in Resources, appendAudit(e, r) PROVE LogInv'
    BY <1>1, <2>2, AppendAuditKeepsLogInv
  <2>3. ASSUME NEW e \in Events, AppendAuditEvent(e) PROVE LogInv'
    BY <1>1, <2>3, AppendEventKeepsLogInv
  <2>4. CASE UNCHANGED vars
    BY <1>1, <2>4, Zenon DEF LogInv, TypeOK, Logged, vars
  <2> QED BY <1>1, <2>1, <2>2, <2>3, <2>4, Zenon DEF Next
<1> QED BY <1>1, LogInit, PTL DEF Spec

-----------------------------------------------------------------------------
(* The pages of both stores. *)

(* What the log has of a resource is finite and stamped. *)
LEMMA MatchingFacts ==
  ASSUME LogInv, NEW r
  PROVE  /\ log \in Seq(Events) /\ IsInjective(log)
         /\ IsFiniteSet(Matching(r)) /\ Matching(r) \subseteq Range(log)
         /\ \A e \in Matching(r) : e \in Events /\ event[e].createdAt \in Nat
<1>1. TypeOK /\ log \in Seq(Events) /\ IsInjective(log)
  BY Zenon DEF LogInv, TypeOK
<1>2. Matching(r) \subseteq Range(log)
  BY Zenon DEF Matching, Logged
<1>3. Len(log) \in Nat /\ DOMAIN log = 1..Len(log)
  BY <1>1
<1>4. Range(log) \subseteq Events
  BY <1>1 DEF Range
<1>5. \A e \in Matching(r) : e \in Events /\ event[e] # None
  BY <1>4, Zenon DEF Matching, Logged, LogInv
<1>6. IsFiniteSet(Range(log))
  <2>1. log \in Surjection(1..Len(log), Range(log))
    <3>1. log \in [1..Len(log) -> Range(log)]
      BY <1>1, <1>3 DEF Range
    <3> QED BY <1>3, <3>1, Zenon DEF Surjection, Range
  <2>2. IsFiniteSet(1..Len(log))
    BY <1>3, FS_Interval
  <2> QED BY <2>1, <2>2, FS_Surjection, Zenon
<1>7. IsFiniteSet(Matching(r))
  BY <1>2, <1>6, FS_Subset, Zenon
<1> QED BY <1>1, <1>2, <1>5, <1>7, StampType, Zenon

(* The pages of a store are cut from listings of what was asked for. *)
Sources(store, r) ==
  IF store = "memory" THEN {Kept(Backwards(log), Matching(r))}
  ELSE {s \in Orders(Matching(r)) : ByStamp(s)}

(* There is such a listing in both stores. *)
LEMMA SourcesAreListings ==
  ASSUME LogInv, NEW store \in Stores, NEW r
  PROVE  /\ Sources(store, r) # {}
         /\ \A s \in Sources(store, r) : Listing(s, Matching(r))
<1>1. CASE store = "memory"
  <2>1. Sources(store, r) = {Kept(Backwards(log), Matching(r))}
    BY <1>1, Zenon DEF Sources
  <2>2. Listing(Kept(Backwards(log), Matching(r)), Matching(r))
    BY MatchingFacts, BackwardsListing, Zenon
  <2> QED BY <2>1, <2>2, Zenon
<1>2. CASE store # "memory"
  <2>1. Sources(store, r) = {s \in Orders(Matching(r)) : ByStamp(s)}
    BY <1>2, Zenon DEF Sources
  <2> DEFINE stamp == [e \in Matching(r) |-> event[e].createdAt]
  <2>2. IsFiniteSet(Matching(r)) /\ stamp \in [Matching(r) -> Nat]
    BY MatchingFacts, Zenon
  <2>3. \A e \in Matching(r) : stamp[e] = event[e].createdAt
    BY Zenon
  <2> HIDE DEF stamp
  <2>4. PICK s \in Orders(Matching(r)) : Descending(s, stamp)
    BY <2>2, OrderExists, Zenon
  <2>5. \A i \in DOMAIN s : s[i] \in Matching(r)
    BY Zenon DEF Orders, Injection, IsInjective
  <2>6. ByStamp(s)
    BY <2>3, <2>4, <2>5, Zenon DEF ByStamp, Descending
  <2>7. \A l \in Orders(Matching(r)) : Listing(l, Matching(r))
    BY <2>2, OrderListsAll, Zenon DEF Listing
  <2> QED BY <2>1, <2>6, <2>7, Zenon
<1> QED BY <1>1, <1>2

(* A store's list is the set of pages of its listings. *)
LEMMA ListIsPages ==
  ASSUME NEW store, NEW r, NEW limit
  PROVE  ListAuditEvents(store, r, limit) = {Page(s, limit) : s \in Sources(store, r)}
<1>1. CASE store = "memory"
  BY <1>1, Zenon DEF ListAuditEvents, Sources, MemoryList
<1>2. CASE store # "memory"
  BY <1>2, Zenon DEF ListAuditEvents, Sources, PostgresList
<1> QED BY <1>1, <1>2

(* The handler's limit: refused, or an integer that the stores turn into   *)
(* what the client may expect.                                             *)
LEMMA HandlerLimit ==
  ASSUME NEW store, NEW r, NEW raw \in RawLimits
  PROVE  \/ IsRefused(raw) /\ listAuditEvents(store, r, raw) = {}
         \/ /\ ~IsRefused(raw)
            /\ \E limit \in Int :
                 /\ listAuditEvents(store, r, raw) = ListAuditEvents(store, r, limit)
                 /\ Limit(limit) = Expected(raw)
<1>1. /\ MaxLimit \in Nat /\ DefaultLimit \in Nat /\ MaxInt64 \in Nat /\ MaxNumber \in Nat
      /\ 0 < DefaultLimit /\ DefaultLimit <= MaxLimit
      /\ MaxLimit <= MaxInt64 /\ MaxInt64 < MaxNumber
  BY AuditLogAssumption, NumeralsAssumption
<1>2. 1..MaxLimit \subseteq Numbers
  BY <1>1 DEF Numbers
<1>3. /\ None # Malformed /\ None \notin Numbers /\ Malformed \notin Numbers
  BY NumeralsAssumption, Zenon
<1>4. CASE raw = None
  <2>1. raw \notin 1..MaxLimit
    BY <1>2, <1>3, <1>4, Zenon
  <2>2. ~IsRefused(raw) /\ Expected(raw) = DefaultLimit
    BY <1>4, <2>1, Zenon DEF IsRefused, Expected
  <2>3. Limit(DefaultLimit) = DefaultLimit /\ DefaultLimit \in Int
    BY <1>1 DEF Limit
  <2>4. listAuditEvents(store, r, raw) = ListAuditEvents(store, r, DefaultLimit)
    BY <1>4 DEF listAuditEvents
  <2> QED BY <2>2, <2>3, <2>4, Zenon
<1>5. CASE raw = Malformed
  <2>1. raw # None /\ ParseInt(raw) = Malformed
    BY <1>3, <1>5, Zenon DEF ParseInt
  <2>2. listAuditEvents(store, r, raw) = {}
    BY <2>1 DEF listAuditEvents
  <2> QED BY <1>5, <2>1, <2>2, Zenon DEF IsRefused
<1>6. CASE raw \in Numbers /\ raw > MaxInt64
  <2>1. raw # None /\ ~(raw <= MaxInt64)
    BY <1>1, <1>3, <1>6 DEF Numbers
  <2>2. ParseInt(raw) = Malformed
    BY <2>1, Zenon DEF ParseInt
  <2>3. listAuditEvents(store, r, raw) = {}
    BY <2>1, <2>2 DEF listAuditEvents
  <2> QED BY <1>6, <2>1, <2>3, Zenon DEF IsRefused
<1>7. CASE raw \in Numbers /\ ~(raw > MaxInt64)
  <2>1. raw \in Int /\ raw <= MaxInt64
    BY <1>1, <1>7 DEF Numbers
  <2>2. raw # None /\ raw # Malformed /\ ParseInt(raw) = raw
    BY <1>3, <1>7, <2>1, Zenon DEF ParseInt
  <2>3. listAuditEvents(store, r, raw) = ListAuditEvents(store, r, raw)
    BY <2>2 DEF listAuditEvents
  <2>4. Limit(raw) = Expected(raw)
    BY <1>1, <2>1 DEF Limit, Expected
  <2>5. ~IsRefused(raw)
    BY <1>7, <2>2, Zenon DEF IsRefused
  <2> QED BY <2>1, <2>3, <2>4, <2>5, Zenon
<1> QED BY <1>4, <1>5, <1>6, <1>7, Zenon DEF RawLimits, Texts

(* Every page of both stores is full or complete, for logs of any length   *)
(* and any limit: MemoryStore's walk back through the log and the sorted   *)
(* query of PostgresStore leave out an event of the resource only when the *)
(* page has as many as the limit allows, and list none twice.              *)
THEOREM PagesAreFull == Spec => []PageIsFull
<1>1. ASSUME LogInv PROVE PageIsFull
  <2> SUFFICES ASSUME NEW store \in Stores, NEW r \in Filters, NEW raw \in RawLimits
               PROVE  LET pages == listAuditEvents(store, r, raw)
                      IN  /\ pages = {} <=> IsRefused(raw)
                          /\ \A page \in pages :
                               /\ IsInjective(page) /\ Range(page) \subseteq Matching(r)
                               /\ \/ Range(page) = Matching(r) /\ Len(page) <= Expected(raw)
                                  \/ Len(page) = Expected(raw)
    BY Zenon DEF PageIsFull
  <2>1. CASE IsRefused(raw) /\ listAuditEvents(store, r, raw) = {}
    BY <2>1, Zenon
  <2>2. ASSUME ~IsRefused(raw), NEW limit \in Int,
               listAuditEvents(store, r, raw) = ListAuditEvents(store, r, limit),
               Limit(limit) = Expected(raw)
        PROVE  LET pages == listAuditEvents(store, r, raw)
               IN  /\ pages # {}
                   /\ \A page \in pages :
                        /\ IsInjective(page) /\ Range(page) \subseteq Matching(r)
                        /\ \/ Range(page) = Matching(r) /\ Len(page) <= Expected(raw)
                           \/ Len(page) = Expected(raw)
    <3>1. listAuditEvents(store, r, raw) = {Page(s, limit) : s \in Sources(store, r)}
      BY <2>2, ListIsPages, Zenon
    <3>2. /\ Sources(store, r) # {}
          /\ \A s \in Sources(store, r) : Listing(s, Matching(r))
      BY <1>1, SourcesAreListings, Zenon
    <3>3. ASSUME NEW s \in Sources(store, r)
          PROVE  LET page == Page(s, limit)
                 IN  /\ IsInjective(page) /\ Range(page) \subseteq Matching(r)
                     /\ \/ Range(page) = Matching(r) /\ Len(page) <= Expected(raw)
                        \/ Len(page) = Expected(raw)
      BY <2>2, <3>2, PageOfListing, Zenon
    <3> QED BY <3>1, <3>2, <3>3, Zenon
  <2> QED BY <2>1, <2>2, HandlerLimit, Zenon
<1> QED BY <1>1, LogInvariance, PTL

(* A page shows what comes first in its listing first. *)
LEMMA AboveInPage ==
  ASSUME NEW M, NEW s, Listing(s, M), NEW limit \in Int, NEW e \in M, NEW d,
         \A i, j \in DOMAIN s : s[i] = d /\ s[j] = e => j < i
  PROVE  ListedAbove(Page(s, limit), e, d)
<1> DEFINE page == Page(s, limit)
<1>1. /\ DOMAIN page \subseteq DOMAIN s
      /\ \A i \in DOMAIN page : page[i] = s[i] /\ 1..i \subseteq DOMAIN page
  BY PageOfListing, Zenon
<1> HIDE DEF page
<1>2. DOMAIN s \subseteq Nat \ {0}
  <2>1. s \in Seq(M)
    BY Zenon DEF Listing
  <2> QED BY <2>1
<1>3. ASSUME NEW i \in DOMAIN page, page[i] = d PROVE \E j \in 1..(i - 1) : page[j] = e
  <2>1. PICK j \in DOMAIN s : s[j] = e
    BY Zenon DEF Listing, Range
  <2>2. i \in DOMAIN s /\ s[i] = d
    BY <1>1, <1>3, Zenon
  <2>3. j < i
    BY <2>1, <2>2, Zenon
  <2>4. i \in Nat /\ j \in Nat \ {0}
    BY <1>2, <2>1, <2>2, Zenon
  <2>5. j \in 1..(i - 1) /\ j \in 1..i
    BY <2>3, <2>4
  <2>6. page[j] = e
    BY <1>1, <2>1, <2>5, Zenon
  <2> QED BY <2>5, <2>6, Zenon
<1> QED BY <1>3, Zenon DEF ListedAbove, page

(* MemoryStore lists an event above what was in the log when it was        *)
(* stamped: such a cause stands before it in the log.                      *)
LEMMA MemoryOrder ==
  ASSUME LogInv, NEW r, NEW e \in Matching(r), NEW d \in past[e],
         NEW s \in Sources("memory", r)
  PROVE  \A i, j \in DOMAIN s : s[i] = d /\ s[j] = e => j < i
<1>1. s = Kept(Backwards(log), Matching(r))
  BY Zenon DEF Sources
<1>2. \A i, j \in DOMAIN s : \A a, b \in DOMAIN log :
        s[i] = log[a] /\ s[j] = log[b] /\ a < b => j < i
  <2>1. log \in Seq(Events) /\ IsInjective(log) /\ Matching(r) \subseteq Range(log)
    BY MatchingFacts, Zenon
  <2>2. LET k == Kept(Backwards(log), Matching(r))
        IN  \A i, j \in DOMAIN k : \A a, b \in DOMAIN log :
              k[i] = log[a] /\ k[j] = log[b] /\ a < b => j < i
    BY <2>1, BackwardsListing, Zenon
  <2> QED BY <1>1, <2>2, Zenon
<1>3. e \in Logged /\ e \in Events
  BY MatchingFacts, Zenon DEF Matching
<1>4. PICK b \in DOMAIN log : e = log[b]
  BY <1>3, Zenon DEF Logged, Range
<1>5. d \in Logged
  BY <1>3, Zenon DEF LogInv
<1>6. PICK a \in DOMAIN log : d = log[a]
  BY <1>5, Zenon DEF Logged, Range
<1>7. a < b
  BY <1>4, <1>6, Zenon DEF LogInv
<1> QED BY <1>2, <1>4, <1>6, <1>7, Zenon

(* So does PostgresStore, unless the two have the same stamp: the stamp of *)
(* the cause is no larger.                                                 *)
LEMMA PostgresOrder ==
  ASSUME LogInv, NEW r, NEW e \in Matching(r), NEW d \in past[e], ~Tied(e, d),
         NEW s \in Sources("postgres", r)
  PROVE  \A i, j \in DOMAIN s : s[i] = d /\ s[j] = e => j < i
<1>1. s \in Orders(Matching(r)) /\ ByStamp(s)
  <2>1. "postgres" # "memory"
    OBVIOUS
  <2> QED BY <2>1, Zenon DEF Sources
<1>2. s \in Seq(Matching(r))
  BY <1>1, MatchingFacts, OrderListsAll, Zenon
<1>3. SUFFICES ASSUME NEW i \in DOMAIN s, NEW j \in DOMAIN s, s[i] = d, s[j] = e
               PROVE  j < i
  OBVIOUS
<1>4. d \in Matching(r)
  BY <1>2, <1>3
<1>5. /\ event[d].createdAt \in Nat /\ event[e].createdAt \in Nat
      /\ event[d].createdAt <= event[e].createdAt
  BY <1>4, MatchingFacts, Zenon DEF LogInv
<1>6. ~(event[d].createdAt >= event[e].createdAt)
  BY <1>5 DEF Tied
<1>7. ~(i < j)
  BY <1>1, <1>3, <1>6, Zenon DEF ByStamp
<1>8. i # j
  BY <1>3, Zenon DEF Tied
<1>9. i \in Nat /\ j \in Nat
  BY <1>2
<1> QED BY <1>7, <1>8, <1>9

(* No page shows a cause above its effect, or without it: what was in the  *)
(* log when an event was stamped is listed below it by MemoryStore, and by *)
(* PostgresStore too unless both stamps are the same reading of the clock. *)
THEOREM EffectsListedAboveCauses == Spec => []EffectsAboveCauses
<1>1. ASSUME LogInv PROVE EffectsAboveCauses
  <2> SUFFICES ASSUME NEW r \in Filters, NEW raw \in RawLimits,
                      NEW e \in Matching(r), NEW d \in past[e]
               PROVE  /\ \A page \in listAuditEvents("memory", r, raw) :
                           ListedAbove(page, e, d)
                      /\ Tied(e, d) \/ \A page \in listAuditEvents("postgres", r, raw) :
                                         ListedAbove(page, e, d)
    BY Zenon DEF EffectsAboveCauses
  <2>1. ASSUME NEW store \in Stores, NEW page \in listAuditEvents(store, r, raw),
               \A s \in Sources(store, r) :
                 \A i, j \in DOMAIN s : s[i] = d /\ s[j] = e => j < i
        PROVE  ListedAbove(page, e, d)
    <3>1. PICK limit \in Int : listAuditEvents(store, r, raw) = ListAuditEvents(store, r, limit)
      BY HandlerLimit, <2>1, Zenon
    <3>2. PICK s \in Sources(store, r) : page = Page(s, limit)
      BY <2>1, <3>1, ListIsPages, Zenon
    <3>3. Listing(s, Matching(r))
      BY <1>1, SourcesAreListings, Zenon
    <3> QED BY <2>1, <3>2, <3>3, AboveInPage, Zenon
  <2>2. "memory" \in Stores /\ "postgres" \in Stores
    BY Zenon DEF Stores
  <2> QED BY <1>1, <2>1, <2>2, MemoryOrder, PostgresOrder, Zenon
<1> QED BY <1>1, LogInvariance, PTL

-----------------------------------------------------------------------------
(* The policy. *)

(* What the process decides by is what it read at its start. *)
PolicyInv ==
  /\ environment \in Environment
  /\ policy = WithPolicy(Load(environment))
  /\ decided # None =>
       \E r \in Request : decided = [request |-> r, passed |-> Passes(r)]

(* The environment is read once. *)
LEMMA PolicyInvariance == PolicySpec => []PolicyInv
<1>1. PolicyInit => PolicyInv
  BY Zenon DEF PolicyInit, Start, PolicyInv
<1>2. ASSUME PolicyInv, [PolicyNext]_policyVars PROVE PolicyInv'
  <2>1. ASSUME NEW r \in Request, Decide(r) PROVE PolicyInv'
    <3>1. /\ UNCHANGED <<environment, policy>>
          /\ decided' = [request |-> r, passed |-> Passes(r)]
      BY <2>1, Zenon DEF Decide
    <3>2. Passes(r)' = Passes(r)
      BY <3>1, Zenon DEF Passes, validateAmountPolicy, signerAllowed
    <3> QED BY <1>2, <3>1, <3>2, Zenon DEF PolicyInv
  <2>2. CASE UNCHANGED policyVars
    <3>1. UNCHANGED <<environment, policy, decided>>
      BY <2>2, Zenon DEF policyVars
    <3>2. \A r : Passes(r)' = Passes(r)
      BY <3>1, ZenonT(60) DEF Passes, validateAmountPolicy, signerAllowed
    <3> QED BY <1>2, <3>1, <3>2, Zenon DEF PolicyInv
  <2> QED BY <1>2, <2>1, <2>2, Zenon DEF PolicyNext
<1> QED BY <1>1, <1>2, PTL DEF PolicySpec

(* The signers that are read from a list are the ones it names, however    *)
(* many blanks stand between them.                                         *)
LEMMA ListedSigners ==
  ASSUME NEW env \in Environment
  PROVE  signerSet(envList(env.signers)) = Listed(env)
<1> DEFINE items == env.signers
           wanted == {items[i] : i \in DOMAIN items} \ {Blank}
           k == Kept(items, wanted)
<1>1. PICK n \in 0..MaxItems : items \in [1..n -> Signers \cup {Blank}]
  <2>1. env.signers \in SignerLists
    BY DEF Environment
  <2> QED BY <2>1, Zenon DEF SignerLists
<1>2. n \in Nat
  BY <1>1, PolicyAssumption
<1>3. items \in Seq(Signers \cup {Blank}) /\ Len(items) = n /\ DOMAIN items = 1..n
  BY <1>1, <1>2
<1>4. k \in Seq(Signers \cup {Blank}) /\ \E g : Selection(items, wanted, n, k, g)
  <2> HIDE DEF items, wanted
  <2> QED BY <1>3, KeptSelects, Zenon
<1>5. envList(env.signers) = k
  BY Zenon DEF envList
<1> HIDE DEF k
<1>6. PICK g : Selection(items, wanted, n, k, g)
  BY <1>4, Zenon
<1>7. DOMAIN k = 1..Len(k)
  BY <1>4
<1>8. ASSUME NEW x \in signerSet(k) PROVE x \in Listed(env)
  <2>1. PICK i \in 1..Len(k) : x = k[i]
    BY <1>7, Zenon DEF signerSet
  <2>2. x = items[g[i]] /\ x # Blank /\ g[i] \in 1..n
    BY <1>6, <2>1, Zenon DEF Selection
  <2>3. x \in Signers
    BY <1>1, <2>2, Zenon
  <2> QED BY <1>3, <2>2, <2>3, Zenon DEF Listed
<1>9. ASSUME NEW x \in Listed(env) PROVE x \in signerSet(k)
  <2>1. x \in Signers /\ x # Blank
    BY PolicyAssumption, Zenon DEF Listed
  <2>2. PICK m \in 1..n : items[m] = x
    BY <1>3, Zenon DEF Listed
  <2>3. items[m] \in wanted
    BY <1>3, <2>1, <2>2, Zenon
  <2>4. PICK i \in 1..Len(k) : g[i] = m
    BY <1>6, <2>3, Zenon DEF Selection
  <2>5. k[i] = x
    BY <1>6, <2>2, <2>4, Zenon DEF Selection
  <2> QED BY <1>7, <2>5, Zenon DEF signerSet
<1> QED BY <1>5, <1>8, <1>9, Zenon

(* strconv reads what int64 can hold and nothing else. *)
LEMMA ParseIntReads ==
  ASSUME NEW text \in Texts
  PROVE  \/ text = Malformed /\ ParseInt(text) = Malformed
         \/ text \in Int /\ text # Malformed /\ text > MaxInt64 /\ ParseInt(text) = Malformed
         \/ text \in Int /\ text # Malformed /\ text <= MaxInt64 /\ ParseInt(text) = text
<1>1. Malformed \notin Numbers /\ MaxInt64 \in Nat /\ MaxNumber \in Nat
  BY NumeralsAssumption, Zenon
<1>2. CASE text = Malformed
  BY <1>1, <1>2, Zenon DEF ParseInt
<1>3. CASE text \in Numbers
  <2>1. text \in Int /\ text # Malformed
    BY <1>1, <1>3 DEF Numbers
  <2>2. CASE text <= MaxInt64
    BY <1>3, <2>1, <2>2, Zenon DEF ParseInt
  <2>3. CASE ~(text <= MaxInt64)
    <3>1. text > MaxInt64
      BY <1>1, <2>1, <2>3
    <3>2. ParseInt(text) = Malformed
      BY <2>3, Zenon DEF ParseInt
    <3> QED BY <2>1, <3>1, <3>2, Zenon
  <2> QED BY <2>2, <2>3
<1> QED BY <1>2, <1>3, Zenon DEF Texts

(* A limit in sats: what int64 cannot hold, and what is no natural number, *)
(* is read as zero.                                                        *)
LEMMA BitcoinLimit ==
  ASSUME NEW text \in Texts \cup {None}
  PROVE  \/ envInt64(text) = 0 /\ text \in {None, Malformed}
         \/ envInt64(text) = 0 /\ text \in Int /\ text \notin {None, Malformed}
              /\ (text < 0 \/ text > MaxInt64)
         \/ envInt64(text) = text /\ text \in Nat /\ text \notin {None, Malformed}
              /\ text <= MaxInt64
<1>1. CASE text = None
  BY <1>1, Zenon DEF envInt64
<1>2. CASE text # None /\ text = Malformed /\ ParseInt(text) = Malformed
  BY <1>2, Zenon DEF envInt64, AtLeast
<1>3. CASE /\ text # None /\ text \in Int /\ text # Malformed
           /\ text > MaxInt64 /\ ParseInt(text) = Malformed
  <2>1. envInt64(text) = 0
    BY <1>3, Zenon DEF envInt64, AtLeast
  <2> QED BY <1>3, <2>1, Zenon
<1>4. CASE /\ text # None /\ text \in Int /\ text # Malformed
           /\ text <= MaxInt64 /\ ParseInt(text) = text
  <2>1. CASE text >= 0
    <3>1. envInt64(text) = text
      BY <1>4, <2>1, Zenon DEF envInt64, AtLeast
    <3>2. text \in Nat
      BY <1>4, <2>1
    <3> QED BY <1>4, <3>1, <3>2, Zenon
  <2>2. CASE ~(text >= 0)
    <3>1. envInt64(text) = 0
      BY <1>4, <2>2, Zenon DEF envInt64, AtLeast
    <3>2. text < 0
      BY <1>4, <2>2
    <3> QED BY <1>4, <3>1, <3>2, Zenon
  <2> QED BY <2>1, <2>2
<1>5. CASE text # None
  <2>1. text \in Texts
    BY <1>5
  <2> QED BY <1>2, <1>3, <1>4, <1>5, <2>1, ParseIntReads, Zenon
<1> QED BY <1>1, <1>5

(* Amounts in sats: a limit that is read as none still caps, because no    *)
(* amount beyond int64 is read.                                            *)
LEMMA BitcoinAmounts ==
  ASSUME NEW limit \in Texts \cup {None}, NEW amount \in Texts
  PROVE  (/\ AtLeast(ParseInt(amount), 1)
          /\ envInt64(limit) > 0 => amount <= envInt64(limit))
         <=>
         (/\ amount # Malformed /\ amount > 0 /\ amount <= MaxInt64
          /\ limit \notin {None, Malformed} /\ limit >= 1 => amount <= limit)
<1>1. MaxInt64 \in Nat
  BY NumeralsAssumption, Zenon
<1>2. CASE amount = Malformed /\ ParseInt(amount) = Malformed
  BY <1>2, Zenon DEF AtLeast
<1>3. CASE amount \in Int /\ amount > MaxInt64 /\ ParseInt(amount) = Malformed
  <2>1. ~(amount <= MaxInt64)
    BY <1>1, <1>3
  <2> QED BY <1>3, <2>1, Zenon DEF AtLeast
<1>4. CASE amount \in Int /\ amount # Malformed /\ amount <= MaxInt64 /\ ParseInt(amount) = amount
  <2>1. AtLeast(ParseInt(amount), 1) <=> amount >= 1
    BY <1>4, Zenon DEF AtLeast
  <2>2. amount >= 1 <=> amount > 0
    BY <1>4
  <2>3. CASE envInt64(limit) = 0 /\ limit \in {None, Malformed}
    <3>1. ~(envInt64(limit) > 0)
      BY <2>3
    <3> QED BY <1>4, <2>1, <2>2, <2>3, <3>1, Zenon
  <2>4. CASE envInt64(limit) = 0 /\ limit \in Int /\ (limit < 0 \/ limit > MaxInt64)
    <3>1. ~(envInt64(limit) > 0)
      BY <2>4
    <3>2. limit >= 1 => amount <= limit
      BY <1>1, <1>4, <2>4
    <3> QED BY <1>4, <2>1, <2>2, <3>1, <3>2, Zenon
  <2>5. CASE envInt64(limit) = limit /\ limit \in Nat /\ limit \notin {None, Malformed}
    <3>1. limit > 0 <=> limit >= 1
      BY <2>5
    <3> QED BY <1>4, <2>1, <2>2, <2>5, <3>1, Zenon
  <2> QED BY <2>3, <2>4, <2>5, BitcoinLimit, Zenon
<1> QED BY <1>2, <1>3, <1>4, ParseIntReads, Zenon

(* Amounts in wei have no largest number: a limit that is no natural       *)
(* number is none, and zero is one.                                        *)
LEMMA EVMAmounts ==
  ASSUME NEW limit \in Texts \cup {None}, NEW amount \in Texts
  PROVE  (/\ AtLeast(amount, 1)
          /\ envBigInt(limit) # None => amount <= envBigInt(limit))
         <=>
         (/\ amount # Malformed /\ amount > 0
          /\ limit \notin {None, Malformed} /\ limit >= 0 => amount <= limit)
<1>1. CASE amount = Malformed
  BY <1>1, Zenon DEF AtLeast
<1>2. CASE amount # Malformed
  <2>1. amount \in Int
    BY <1>2, NumeralsAssumption DEF Texts, Numbers
  <2>2. AtLeast(amount, 1) <=> amount > 0
    BY <1>2, <2>1 DEF AtLeast
  <2>3. envBigInt(limit) # None <=> limit \notin {None, Malformed} /\ limit >= 0
    BY Zenon DEF envBigInt, AtLeast
  <2>4. envBigInt(limit) # None => envBigInt(limit) = limit
    BY Zenon DEF envBigInt
  <2> QED BY <1>2, <2>2, <2>3, <2>4, Zenon
<1> QED BY <1>1, <1>2

(* The service decides every proposal and every co-signer as the           *)
(* environment of the process says, for lists and numbers of any length:   *)
(* reading the limits as int64 or big.Int and the signers from a list with *)
(* blanks, and keeping them in the policy, changes no decision.            *)
THEOREM PolicyDecides == PolicySpec => []DecidesAsConfigured
<1>1. ASSUME PolicyInv, decided # None
      PROVE  decided.passed <=> Wanted(environment, decided.request)
  <2>1. PICK r \in Request : decided = [request |-> r, passed |-> Passes(r)]
    BY <1>1, Zenon DEF PolicyInv
  <2>2. environment \in Environment
    BY <1>1, Zenon DEF PolicyInv
  <2>3. environment.limit \in [Chains -> Texts \cup {None}]
    BY <2>2 DEF Environment
  <2>4. /\ environment.limit["bitcoin"] \in Texts \cup {None}
        /\ environment.limit["evm"] \in Texts \cup {None}
    BY <2>3, Zenon DEF Chains
  <2>5. /\ policy.AllowedSigners = signerSet(envList(environment.signers))
        /\ policy.MaxBitcoinAmountSats = envInt64(environment.limit["bitcoin"])
        /\ policy.MaxEVMAmountWei = envBigInt(environment.limit["evm"])
    BY <1>1 DEF PolicyInv, WithPolicy, Load
  <2>6. ASSUME r \in [op : {"cosign"}, signer : Signers]
        PROVE  Passes(r) <=> Wanted(environment, r)
    <3>1. r.op = "cosign" /\ r.op # "propose"
      BY <2>6
    <3>2. Passes(r) <=> Listed(environment) = {} \/ r.signer \in Listed(environment)
      BY <2>2, <2>5, <3>1, ListedSigners, Zenon DEF Passes, signerAllowed
    <3> QED BY <3>1, <3>2, Zenon DEF Wanted
  <2>7. ASSUME r \in [op : {"propose"}, chain : Chains, amount : Texts]
        PROVE  Passes(r) <=> Wanted(environment, r)
    <3>1. r.op = "propose" /\ r.op # "cosign" /\ r.chain \in Chains /\ r.amount \in Texts
      BY <2>7
    <3>2. Passes(r) <=> validateAmountPolicy(r.chain, r.amount)
      BY <3>1, Zenon DEF Passes
    <3>3. CASE r.chain = "bitcoin"
      <4>1. r.chain # "evm"
        BY <3>3
      <4> DEFINE limit == environment.limit["bitcoin"]
      <4>2. IsLimit(environment, r.chain) <=> limit \notin {None, Malformed} /\ limit >= 1
        BY <3>3, Zenon DEF IsLimit
      <4>3. validateAmountPolicy(r.chain, r.amount) <=>
              /\ AtLeast(ParseInt(r.amount), 1)
              /\ envInt64(limit) > 0 => r.amount <= envInt64(limit)
        BY <2>5, <3>3, <4>1, Zenon DEF validateAmountPolicy
      <4>4. Wanted(environment, r) <=>
              /\ r.amount # Malformed /\ r.amount > 0 /\ r.amount <= MaxInt64
              /\ limit \notin {None, Malformed} /\ limit >= 1 => r.amount <= limit
        BY <3>1, <3>3, <4>1, <4>2, Zenon DEF Wanted
      <4>5. limit \in Texts \cup {None}
        BY <2>4, Zenon
      <4> HIDE DEF limit
      <4> QED BY <3>1, <3>2, <4>3, <4>4, <4>5, BitcoinAmounts, Zenon
    <3>4. CASE r.chain = "evm"
      <4>1. r.chain # "bitcoin"
        BY <3>4
      <4> DEFINE limit == environment.limit["evm"]
      <4>2. IsLimit(environment, r.chain) <=> limit \notin {None, Malformed} /\ limit >= 0
        BY <3>4, <4>1, Zenon DEF IsLimit
      <4>3. validateAmountPolicy(r.chain, r.amount) <=>
              /\ AtLeast(r.amount, 1)
              /\ envBigInt(limit) # None => r.amount <= envBigInt(limit)
        BY <2>5, <3>4, <4>1, Zenon DEF validateAmountPolicy
      <4>4. Wanted(environment, r) <=>
              /\ r.amount # Malformed /\ r.amount > 0
              /\ limit \notin {None, Malformed} /\ limit >= 0 => r.amount <= limit
        BY <3>1, <3>4, <4>1, <4>2, Zenon DEF Wanted
      <4>5. limit \in Texts \cup {None}
        BY <2>4, Zenon
      <4> HIDE DEF limit
      <4> QED BY <3>1, <3>2, <4>3, <4>4, <4>5, EVMAmounts, Zenon
    <3> QED BY <3>1, <3>3, <3>4, Zenon DEF Chains
  <2>8. Passes(r) <=> Wanted(environment, r)
    BY <2>6, <2>7, Zenon DEF Request
  <2>9. decided.passed = Passes(r) /\ decided.request = r
    BY <2>1, Zenon
  <2> QED BY <2>8, <2>9, Zenon
<1>2. PolicyInv => DecidesAsConfigured
  BY <1>1, Zenon DEF DecidesAsConfigured
<1> QED BY <1>2, PolicyInvariance, PTL
=============================================================================

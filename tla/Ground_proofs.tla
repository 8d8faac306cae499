---------------------------- MODULE Ground_proofs ----------------------------
(***************************************************************************)
(* Proofs about Ground for every set of players and tiles, every imported  *)
(* map and every limit.                                                    *)
(*                                                                         *)
(* First what it is to put numbers in order and to leave places out of a   *)
(* sequence; then what the records of a tile say of its ordinals; then the *)
(* inductive invariant, by which every tile is its imported stacks with    *)
(* the journal applied, followed by as many items as it has records, and   *)
(* while the ordinals have no gap by the items of those records.  Then     *)
(* sums over players, tiles and stacks, what each action does to them, and *)
(* that loot lies in corpses only.                                         *)
(***************************************************************************)
EXTENDS Ground, FiniteSetTheorems, SequenceTheorems, TLAPS

----------------------------------------------------------------------------
(* Numbers in order *)

(* g lists the m members of S, the least first. *)
Enumerates(g, m, S) ==
    /\ m \in Nat /\ S \subseteq Nat /\ g \in [1..m -> S]
    /\ \A x \in S : \E k \in 1..m : g[k] = x
    /\ \A j, k \in 1..m : j < k => g[j] < g[k]

LEMMA EnumeratedCount ==
  ASSUME NEW g, NEW m, NEW S, Enumerates(g, m, S)
  PROVE  IsFiniteSet(S) /\ Cardinality(S) = m
<1>0. m \in Nat /\ S \subseteq Nat /\ g \in [1..m -> S]
  BY DEF Enumerates
<1>1. \A j, k \in 1..m : g[j] = g[k] => j = k
  <2>1. ASSUME NEW j \in 1..m, NEW k \in 1..m, g[j] = g[k], j # k
        PROVE  FALSE
    <3>1. g[j] \in Nat /\ g[k] \in Nat
      BY <1>0
    <3>2. j < k \/ k < j
      BY <1>0, <2>1
    <3>3. g[j] < g[k] \/ g[k] < g[j]
      BY <3>2 DEF Enumerates
    <3> QED BY <2>1, <3>1, <3>3
  <2> QED BY <2>1
<1>2. g \in Bijection(1..m, S)
  BY <1>0, <1>1 DEF Enumerates, Bijection, Injection, Surjection, IsInjective
<1>3. IsFiniteSet(1..m) /\ Cardinality(1..m) = m
  BY <1>0, FS_Interval
<1>4. ExistsBijection(1..m, S)
  BY <1>2 DEF ExistsBijection
<1> QED
  BY <1>3, <1>4, FS_Bijection

(* The first of an enumeration enumerate what lies below the next. *)
LEMMA EnumeratedBelow ==
  ASSUME NEW g, NEW m, NEW S, Enumerates(g, m, S), NEW k \in 1..m
  PROVE  Cardinality({y \in S : y < g[k]}) = k - 1
<1>00. m \in Nat /\ S \subseteq Nat /\ g \in [1..m -> S]
  BY DEF Enumerates
<1>01. k \in Nat /\ k >= 1 /\ k <= m
  BY <1>00
<1>02. \A j \in 1..m : g[j] \in S
  BY <1>00
<1>0. /\ m \in Nat /\ S \subseteq Nat /\ g \in [1..m -> S] /\ k \in Nat /\ k >= 1 /\ k <= m
      /\ \A j \in 1..m : g[j] \in S /\ g[j] \in Nat
  BY <1>00, <1>01, <1>02, Zenon
<1>1. \A i, j \in 1..m : i < j => g[i] < g[j]
  BY DEF Enumerates
<1> DEFINE B == {y \in S : y < g[k]}
           h == [j \in 1..(k - 1) |-> g[j]]
<1>2. k - 1 \in Nat /\ B \subseteq Nat /\ \A j \in 1..(k - 1) : j \in 1..m /\ j < k
  <2>1. B \subseteq Nat
    BY <1>00
  <2> HIDE DEF B
  <2>2. k - 1 \in Nat /\ \A j \in 1..(k - 1) : j \in 1..m /\ j < k
    BY <1>00, <1>01
  <2> QED BY <2>1, <2>2
<1>3. h \in [1..(k - 1) -> B]
  BY <1>0, <1>1, <1>2
<1>4. ASSUME NEW x \in B
      PROVE  \E j \in 1..(k - 1) : h[j] = x
  <2>1. PICK j \in 1..m : g[j] = x
    BY DEF Enumerates
  <2>2. j < k
    <3>1. x < g[k] /\ x \in Nat
      BY <1>0
    <3>2. ~ (k < j) /\ k # j
      BY <1>0, <1>1, <2>1, <3>1
    <3> QED BY <1>0, <3>2
  <2> QED BY <1>0, <2>1, <2>2
<1>5. \A i, j \in 1..(k - 1) : i < j => h[i] < h[j]
  BY <1>1, <1>2
<1>6. Enumerates(h, k - 1, B)
  <2> HIDE DEF B, h
  <2> QED BY <1>2, <1>3, <1>4, <1>5 DEF Enumerates
<1> QED
  <2> HIDE DEF h
  <2> QED BY <1>6, EnumeratedCount

LEMMA OrderedIs ==
  ASSUME NEW g, NEW m, NEW S, Enumerates(g, m, S)
  PROVE  Ordered(S) = g
<1>0. m \in Nat /\ g \in [1..m -> S] /\ \A k \in 1..m : g[k] \in S
  BY DEF Enumerates
<1>1. Cardinality(S) = m
  BY EnumeratedCount
<1>2. ASSUME NEW k \in 1..m
      PROVE  (CHOOSE x \in S : Cardinality({y \in S : y < x}) = k - 1) = g[k]
  <2>1. Cardinality({y \in S : y < g[k]}) = k - 1
    BY EnumeratedBelow
  <2>2. ASSUME NEW x \in S, Cardinality({y \in S : y < x}) = k - 1
        PROVE  x = g[k]
    <3>1. PICK j \in 1..m : g[j] = x
      BY DEF Enumerates
    <3>2. Cardinality({y \in S : y < g[j]}) = j - 1
      BY EnumeratedBelow
    <3>3. j - 1 = k - 1
      BY <2>2, <3>1, <3>2
    <3> QED BY <1>0, <3>1, <3>3
  <2> QED BY <1>0, <2>1, <2>2
<1>3. Ordered(S) = [k \in 1..m |-> g[k]]
  BY <1>1, <1>2 DEF Ordered
<1> QED
  BY <1>0, <1>3

(* Every finite set of natural numbers has such a list. *)
LEMMA Least ==
  ASSUME NEW S, S \subseteq Nat, S # {}
  PROVE  \E least \in S : \A q \in S : least <= q
<1> DEFINE R == OpToRel(<, Nat)
<1>1. IsWellFoundedOn(R, Nat)
  BY NatLessThanWellFounded
<1>2. \A x, y \in Nat : <<x, y>> \in R <=> x < y
  BY DEF OpToRel
<1> HIDE DEF R
<1>3. PICK least \in S : \A q \in S : <<q, least>> \notin R
  BY <1>1, WFMin
<1>4. ASSUME NEW q \in S
      PROVE  least <= q
  <2>1. q \in Nat /\ least \in Nat
    OBVIOUS
  <2>2. ~ (q < least)
    BY <1>2, <1>3, <2>1
  <2> QED BY <2>1, <2>2
<1> QED
  BY <1>4

LEMMA EnumerateMore ==
  ASSUME NEW S, S \subseteq Nat, NEW least \in S, \A q \in S : least <= q,
         NEW n \in Nat, NEW f, Enumerates(f, n, S \ {least})
  PROVE  \E g : Enumerates(g, n + 1, S)
<1> DEFINE g == [k \in 1..(n + 1) |-> IF k = 1 THEN least ELSE f[k - 1]]
<1>0. /\ f \in [1..n -> S \ {least}] /\ least \in Nat
      /\ \A x \in S \ {least} : \E k \in 1..n : f[k] = x
      /\ \A j, k \in 1..n : j < k => f[j] < f[k]
  BY DEF Enumerates
<1>1. \A k \in 1..(n + 1) : k # 1 => k - 1 \in 1..n
  OBVIOUS
<1>2. g \in [1..(n + 1) -> S]
  BY <1>0, <1>1
<1>3. ASSUME NEW x \in S
      PROVE  \E k \in 1..(n + 1) : g[k] = x
  <2>1. CASE x = least
    <3>1. 1 \in 1..(n + 1) /\ g[1] = least
      OBVIOUS
    <3> QED BY <2>1, <3>1
  <2>2. CASE x # least
    <3>1. PICK k \in 1..n : f[k] = x
      BY <1>0, <2>2
    <3>2. k + 1 \in 1..(n + 1) /\ k + 1 # 1 /\ (k + 1) - 1 = k
      OBVIOUS
    <3>3. g[k + 1] = f[k]
      BY <3>2
    <3> QED BY <3>1, <3>2, <3>3
  <2> QED BY <2>1, <2>2
<1>4. ASSUME NEW j \in 1..(n + 1), NEW k \in 1..(n + 1), j < k
      PROVE  g[j] < g[k]
  <2>1. k # 1 /\ k - 1 \in 1..n /\ g[k] = f[k - 1]
    BY <1>4
  <2>2. CASE j = 1
    <3>1. f[k - 1] \in S /\ f[k - 1] # least
      BY <1>0, <2>1
    <3>2. least <= f[k - 1] /\ f[k - 1] \in Nat
      BY <3>1
    <3> QED BY <1>0, <2>1, <2>2, <3>1, <3>2
  <2>3. CASE j # 1
    <3>1. j - 1 \in 1..n /\ j - 1 < k - 1 /\ g[j] = f[j - 1]
      BY <1>4, <2>3
    <3>2. f[j - 1] < f[k - 1]
      BY <1>0, <2>1, <3>1
    <3> QED BY <2>1, <3>1, <3>2
  <2> QED BY <2>2, <2>3
<1>5. Enumerates(g, n + 1, S)
  <2>1. n + 1 \in Nat
    OBVIOUS
  <2> HIDE DEF g
  <2> QED BY <1>2, <1>3, <1>4, <2>1 DEF Enumerates
<1> QED
  BY <1>5

LEMMA Enumerable ==
  ASSUME NEW S, S \subseteq Nat, IsFiniteSet(S)
  PROVE  \E g : Enumerates(g, Cardinality(S), S)
<1> DEFINE Fails(n) == \E T : /\ T \subseteq Nat /\ IsFiniteSet(T) /\ Cardinality(T) = n
                              /\ ~ \E g : Enumerates(g, n, T)
           bad == {n \in Nat : Fails(n)}
<1>1. ASSUME bad # {}
      PROVE  FALSE
  <2>1. PICK n \in bad : \A q \in bad : n <= q
    <3>1. bad \subseteq Nat
      OBVIOUS
    <3> HIDE DEF bad
    <3> QED BY <1>1, <3>1, Least
  <2>2. n \in Nat /\ Fails(n)
    OBVIOUS
  <2>3. PICK T : /\ T \subseteq Nat /\ IsFiniteSet(T) /\ Cardinality(T) = n
                 /\ ~ \E g : Enumerates(g, n, T)
    BY <2>2
  <2>4. CASE T = {}
    <3>1. n = 0
      BY <2>3, <2>4, FS_EmptySet
    <3>2. Enumerates(<<>>, 0, T)
      BY <2>4 DEF Enumerates
    <3> QED BY <2>3, <3>1, <3>2
  <2>5. CASE T # {}
    <3>1. PICK least \in T : \A q \in T : least <= q
      BY <2>3, <2>5, Least
    <3>2. IsFiniteSet(T \ {least}) /\ Cardinality(T \ {least}) = n - 1
      BY <2>3, FS_RemoveElement
    <3>3. n - 1 \in Nat
      <4>1. n # 0
        BY <2>3, <2>5, FS_EmptySet
      <4> QED BY <2>2, <4>1
    <3>4. n - 1 \notin bad
      <4> HIDE DEF bad
      <4>1. n \in Nat /\ ~ (n <= n - 1)
        BY <2>2
      <4> QED BY <2>1, <4>1
    <3>5. \E f : Enumerates(f, n - 1, T \ {least})
      <4>1. ~ Fails(n - 1)
        BY <3>3, <3>4
      <4>2. T \ {least} \subseteq Nat
        BY <2>3
      <4> QED BY <3>2, <4>1, <4>2
    <3>6. PICK f : Enumerates(f, n - 1, T \ {least})
      BY <3>5
    <3>7. \E g : Enumerates(g, (n - 1) + 1, T)
      BY <2>3, <3>1, <3>3, <3>6, EnumerateMore
    <3>8. (n - 1) + 1 = n
      BY <2>2
    <3> QED BY <2>3, <3>7, <3>8
  <2> QED BY <2>4, <2>5
<1>2. Cardinality(S) \in Nat
  BY FS_CardinalityType
<1>3. ~ Fails(Cardinality(S))
  BY <1>1, <1>2
<1> QED
  BY <1>3

LEMMA OrderedEnumerates ==
  ASSUME NEW S, S \subseteq Nat, IsFiniteSet(S)
  PROVE  Enumerates(Ordered(S), Cardinality(S), S)
<1>1. PICK g : Enumerates(g, Cardinality(S), S)
  BY Enumerable
<1> QED
  BY <1>1, OrderedIs

LEMMA EnumerationFields ==
  ASSUME NEW g, NEW m, NEW S, Enumerates(g, m, S)
  PROVE  /\ m \in Nat /\ S \subseteq Nat /\ g \in [1..m -> S] /\ DOMAIN g = 1..m
         /\ \A k \in 1..m : g[k] \in S
         /\ \A x \in S : \E k \in 1..m : g[k] = x
         /\ \A j, k \in 1..m : j < k => g[j] < g[k]
         /\ \A j, k \in 1..m : g[j] = g[k] => j = k
<1>1. m \in Nat /\ S \subseteq Nat /\ g \in [1..m -> S]
  BY DEF Enumerates
<1>2. \A j, k \in 1..m : j < k => g[j] < g[k]
  BY DEF Enumerates
<1>3. \A k \in 1..m : g[k] \in S
  BY <1>1
<1>4. ASSUME NEW j \in 1..m, NEW k \in 1..m, g[j] = g[k]
      PROVE  j = k
  <2>1. g[j] \in Nat /\ g[k] \in Nat
    BY <1>1, <1>3
  <2>2. ~ (g[j] < g[k]) /\ ~ (g[k] < g[j])
    BY <1>4, <2>1
  <2> QED BY <1>1, <1>2, <2>2
<1> QED
  BY <1>1, <1>2, <1>3, <1>4 DEF Enumerates

(* A set that holds the first numbers starts with them. *)
LEMMA OrderedStart ==
  ASSUME NEW S, S \subseteq Nat \ {0}, IsFiniteSet(S), NEW n \in Nat, 1..n \subseteq S
  PROVE  n <= Cardinality(S) /\ \A k \in 1..n : Ordered(S)[k] = k
<1> DEFINE g == Ordered(S)
           m == Cardinality(S)
<1>1. Enumerates(g, m, S)
  BY OrderedEnumerates
<1> HIDE DEF g, m
<1>2. ASSUME NEW k \in 1..n
      PROVE  k \in 1..m /\ g[k] = k
  <2>1. k \in S /\ k \in Nat
    OBVIOUS
  <2>2. PICK j \in 1..m : g[j] = k
    BY <1>1, <2>1, EnumerationFields
  <2>3. Cardinality({y \in S : y < g[j]}) = j - 1
    BY <1>1, EnumeratedBelow
  <2>4. {y \in S : y < k} = 1..(k - 1)
    <3>1. \A y \in S : y \in Nat /\ y # 0
      OBVIOUS
    <3>2. \A y \in 1..(k - 1) : y \in 1..n /\ y < k
      OBVIOUS
    <3>3. \A y \in 1..(k - 1) : y \in S /\ y < k
      BY <3>2
    <3>4. \A y \in S : y < k => y \in 1..(k - 1)
      BY <2>1, <3>1
    <3> QED BY <3>3, <3>4
  <2>5. Cardinality(1..(k - 1)) = k - 1
    BY <2>1, FS_Interval
  <2>6. m \in Nat
    BY <1>1, EnumerationFields
  <2>7. j - 1 = k - 1
    BY <2>2, <2>3, <2>4, <2>5
  <2>8. j = k
    BY <2>1, <2>6, <2>7
  <2> QED BY <2>2, <2>8
<1>3. n <= m
  <2>1. CASE n = 0
    BY <1>1, <2>1, EnumerationFields
  <2>2. CASE n # 0
    <3>1. n \in 1..n
      BY <2>2
    <3> QED BY <1>2, <3>1
  <2> QED BY <2>1, <2>2
<1> QED
  BY <1>2, <1>3 DEF g, m

----------------------------------------------------------------------------
(* Leaving places out *)

LEMMA ListIs ==
  ASSUME NEW T, NEW m \in Nat, NEW g \in [1..m -> T]
  PROVE  g \in Seq(T) /\ Len(g) = m
BY SeqDef, LenProperties

(* The place of what comes k-th when the one at a place is left out. *)
Skip(at, k) == IF k < at THEN k ELSE k + 1

LEMMA SkipIs ==
  ASSUME NEW n \in Nat, NEW at \in 1..n
  PROVE  /\ n - 1 \in Nat
         /\ \A k \in 1..(n - 1) : Skip(at, k) \in 1..n /\ Skip(at, k) # at
         /\ \A j, k \in 1..(n - 1) : j < k => Skip(at, j) < Skip(at, k)
         /\ \A x \in 1..n : x # at => \E k \in 1..(n - 1) : Skip(at, k) = x
<1>1. ASSUME NEW x \in 1..n, x # at
      PROVE  \E k \in 1..(n - 1) : Skip(at, k) = x
  <2>1. CASE x < at
    <3>1. x \in 1..(n - 1) /\ Skip(at, x) = x
      BY <2>1 DEF Skip
    <3> QED BY <3>1
  <2>2. CASE ~ (x < at)
    <3>1. x - 1 \in 1..(n - 1) /\ Skip(at, x - 1) = x
      BY <1>1, <2>2 DEF Skip
    <3> QED BY <3>1
  <2> QED BY <2>1, <2>2
<1> QED
  BY <1>1 DEF Skip

LEMMA OrderedSkips ==
  ASSUME NEW n \in Nat, NEW at \in 1..n
  PROVE  Ordered((1..n) \ {at}) = [k \in 1..(n - 1) |-> Skip(at, k)]
<1> DEFINE g == [k \in 1..(n - 1) |-> Skip(at, k)]
           S == (1..n) \ {at}
<1>1. g \in [1..(n - 1) -> S] /\ S \subseteq Nat
  <2>1. \A k \in 1..(n - 1) : Skip(at, k) \in 1..n /\ Skip(at, k) # at
    BY SkipIs
  <2>2. S \subseteq Nat
    OBVIOUS
  <2> QED BY <2>1, <2>2
<1>2. \A x \in S : \E k \in 1..(n - 1) : g[k] = x
  BY SkipIs
<1>3. \A j, k \in 1..(n - 1) : j < k => g[j] < g[k]
  BY SkipIs
<1>4. n - 1 \in Nat
  BY SkipIs
<1>5. Enumerates(g, n - 1, S)
  <2> HIDE DEF g, S
  <2> QED BY <1>1, <1>2, <1>3, <1>4 DEF Enumerates
<1> HIDE DEF g, S
<1>6. Ordered(S) = g
  BY <1>5, OrderedIs
<1> QED
  BY <1>6 DEF g, S

LeavesOut(s, at, w) ==
    /\ w = [k \in 1..(Len(s) - 1) |-> s[Skip(at, k)]]
    /\ Len(w) = Len(s) - 1

LEMMA WithoutOne ==
  ASSUME NEW T, NEW s \in Seq(T), NEW at \in DOMAIN s
  PROVE  LeavesOut(s, at, Without(s, {at})) /\ Without(s, {at}) \in Seq(T)
<1> DEFINE n == Len(s)
           w == [k \in 1..(n - 1) |-> s[Skip(at, k)]]
<1>1. n \in Nat /\ DOMAIN s = 1..n /\ at \in 1..n /\ \A k \in 1..n : s[k] \in T
  BY LenProperties, ElementOfSeq
<1>2. Ordered(DOMAIN s \ {at}) = [k \in 1..(n - 1) |-> Skip(at, k)]
  BY <1>1, OrderedSkips
<1>3. Without(s, {at}) = w
  BY <1>2 DEF Without
<1>4. \A k \in 1..(n - 1) : s[Skip(at, k)] \in T
  <2> HIDE DEF n
  <2> QED BY <1>1, SkipIs
<1>5. w \in [1..(n - 1) -> T]
  BY <1>4
<1>6. n - 1 \in Nat
  BY <1>1
<1> HIDE DEF w
<1>7. w \in Seq(T) /\ Len(w) = n - 1
  BY <1>5, <1>6, ListIs
<1> QED
  BY <1>3, <1>7 DEF w, LeavesOut

Keeps(s, places, w) ==
    /\ Len(w) = Cardinality((1..Len(s)) \ places)
    /\ \A n \in 0..Len(s) :
          (\A k \in 1..n : k \notin places) => n <= Len(w) /\ \A k \in 1..n : w[k] = s[k]

LEMMA WithoutIs ==
  ASSUME NEW T, NEW s \in Seq(T), NEW places
  PROVE  Keeps(s, places, Without(s, places)) /\ Without(s, places) \in Seq(T)
<1> DEFINE S == (1..Len(s)) \ places
           g == Ordered(S)
           m == Cardinality(S)
           w == [k \in 1..m |-> s[g[k]]]
<1>1. Len(s) \in Nat /\ DOMAIN s = 1..Len(s) /\ \A k \in 1..Len(s) : s[k] \in T
  BY LenProperties, ElementOfSeq
<1>2. S \subseteq Nat \ {0} /\ IsFiniteSet(S) /\ S \subseteq Nat /\ S \subseteq 1..Len(s)
  <2>1. IsFiniteSet(1..Len(s)) /\ S \in SUBSET (1..Len(s))
    BY <1>1, FS_Interval
  <2>2. IsFiniteSet(S)
    BY <2>1, FS_Subset
  <2> QED BY <1>1, <2>2
<1>3. Enumerates(g, m, S)
  <2> HIDE DEF S
  <2> QED BY <1>2, OrderedEnumerates
<1>4. m \in Nat /\ DOMAIN g = 1..m /\ \A k \in 1..m : g[k] \in S
  <2> HIDE DEF S, g, m
  <2> QED BY <1>3, EnumerationFields
<1>5. Without(s, places) = w
  <2>1. Without(s, places) = [k \in DOMAIN g |-> s[g[k]]]
    BY <1>1 DEF Without
  <2> HIDE DEF S, g, m
  <2> QED BY <1>4, <2>1
<1>6. w \in [1..m -> T]
  <2> HIDE DEF S, g, m
  <2> QED BY <1>1, <1>2, <1>4
<1>7. w \in Seq(T) /\ Len(w) = m
  <2> HIDE DEF S, g, m, w
  <2> QED BY <1>4, <1>6, ListIs
<1>8. ASSUME NEW n \in 0..Len(s), \A k \in 1..n : k \notin places
      PROVE  n <= m /\ \A k \in 1..n : w[k] = s[k]
  <2>1. 1..n \subseteq S /\ n \in Nat
    BY <1>1, <1>8
  <2>2. n <= m /\ \A k \in 1..n : g[k] = k
    <3> HIDE DEF S
    <3> QED BY <1>2, <2>1, OrderedStart
  <2>3. \A k \in 1..n : k \in 1..m
    <3> HIDE DEF m
    <3> QED BY <1>4, <2>1, <2>2
  <2> HIDE DEF S, g, m
  <2> QED BY <2>2, <2>3
<1> HIDE DEF w, m, S, g
<1> QED
  BY <1>5, <1>7, <1>8 DEF m, S, Keeps

(* Leaving the member at a place out of an ordered set. *)
LEMMA OrderedLess ==
  ASSUME NEW S, S \subseteq Nat, IsFiniteSet(S), NEW at \in DOMAIN Ordered(S)
  PROVE  Ordered(S \ {Ordered(S)[at]}) = Without(Ordered(S), {at})
<1> DEFINE g == Ordered(S)
           m == Cardinality(S)
           h == [k \in 1..(m - 1) |-> g[Skip(at, k)]]
           R == S \ {g[at]}
<1>1. Enumerates(g, m, S)
  BY OrderedEnumerates
<1> HIDE DEF g, m
<1>2. /\ m \in Nat /\ S \subseteq Nat /\ g \in [1..m -> S] /\ DOMAIN g = 1..m
      /\ \A k \in 1..m : g[k] \in S
      /\ \A x \in S : \E k \in 1..m : g[k] = x
      /\ \A j, k \in 1..m : j < k => g[j] < g[k]
      /\ \A j, k \in 1..m : g[j] = g[k] => j = k
  BY <1>1, EnumerationFields
<1>3. at \in 1..m
  BY <1>2 DEF g
<1>4. /\ m - 1 \in Nat
      /\ \A k \in 1..(m - 1) : Skip(at, k) \in 1..m /\ Skip(at, k) # at
      /\ \A j, k \in 1..(m - 1) : j < k => Skip(at, j) < Skip(at, k)
      /\ \A x \in 1..m : x # at => \E k \in 1..(m - 1) : Skip(at, k) = x
  BY <1>2, <1>3, SkipIs
<1>5. h \in [1..(m - 1) -> R]
  BY <1>2, <1>3, <1>4
<1>6. \A x \in R : \E k \in 1..(m - 1) : h[k] = x
  <2>1. ASSUME NEW x \in R
        PROVE  \E k \in 1..(m - 1) : h[k] = x
    <3>1. PICK j \in 1..m : g[j] = x
      BY <1>2
    <3>2. j # at
      BY <3>1
    <3>3. PICK k \in 1..(m - 1) : Skip(at, k) = j
      BY <1>4, <3>2
    <3> QED BY <3>1, <3>3
  <2> QED BY <2>1
<1>7. \A j, k \in 1..(m - 1) : j < k => h[j] < h[k]
  BY <1>2, <1>4
<1>8. Enumerates(h, m - 1, R)
  <2>1. R \subseteq Nat
    OBVIOUS
  <2> HIDE DEF h, R
  <2> QED BY <1>4, <1>5, <1>6, <1>7, <2>1 DEF Enumerates
<1>9. Ordered(R) = h
  <2> HIDE DEF h, R
  <2> QED BY <1>8, OrderedIs
<1>10. Without(g, {at}) = h
  <2>1. g \in Seq(S) /\ Len(g) = m
    <3>1. m \in Nat /\ g \in [1..m -> S]
      BY <1>2, Zenon
    <3> QED BY <3>1, ListIs
  <2>2. Without(g, {at}) = [k \in 1..(Len(g) - 1) |-> g[Skip(at, k)]]
    <3>1. g \in Seq(S) /\ at \in DOMAIN g
      BY <1>2, <1>3, <2>1
    <3> QED BY <3>1, WithoutOne DEF LeavesOut
  <2> QED BY <2>1, <2>2
<1> QED
  BY <1>9, <1>10 DEF g

----------------------------------------------------------------------------
(* Records and ordinals *)

Count(reg, t) == Cardinality(Records(reg, t))

Registered(reg) == reg \subseteq Record /\ IsFiniteSet(reg) /\ Valid(reg)

LEMMA RecordFields ==
  ASSUME NEW r \in Record
  PROVE  /\ r.tile \in Tiles /\ r.ordinal \in Nat /\ r.item \in Item
         /\ r.due \in Nat \cup {Never}
BY DEF Record

LEMMA ItemFields ==
  ASSUME NEW item \in Item
  PROVE  /\ item.thing \in Carried /\ item.count \in Nat \ {0} /\ item.inside \in Nat
BY DEF Item

LEMMA RegisteredParts ==
  ASSUME NEW reg, Registered(reg), NEW t
  PROVE  /\ reg \subseteq Record /\ IsFiniteSet(reg)
         /\ IsFiniteSet(Records(reg, t)) /\ Count(reg, t) \in Nat
         /\ Records(reg, t) \subseteq reg
         /\ \A r, q \in reg : r.tile = q.tile /\ r.ordinal = q.ordinal => r = q
         /\ \A r \in reg : r.ordinal \in Nat
<1>1. Records(reg, t) \in SUBSET reg
  BY DEF Records
<1>2. IsFiniteSet(Records(reg, t))
  BY <1>1, FS_Subset DEF Registered
<1> QED
  BY <1>1, <1>2, FS_CardinalityType, RecordFields DEF Registered, Valid, Count

(* A tile has as many ordinals as records. *)
LEMMA OrdinalsCount ==
  ASSUME NEW reg, Registered(reg), NEW t
  PROVE  IsFiniteSet(Ordinals(reg, t)) /\ Cardinality(Ordinals(reg, t)) = Count(reg, t)
<1> DEFINE S == Records(reg, t)
           c == Count(reg, t)
           O == Ordinals(reg, t)
           f == [r \in S |-> r.ordinal]
<1>1. /\ IsFiniteSet(S) /\ c \in Nat /\ S \subseteq reg
      /\ \A r, q \in reg : r.tile = q.tile /\ r.ordinal = q.ordinal => r = q
      /\ \A r \in reg : r.ordinal \in Nat
  BY RegisteredParts
<1>2. O = {r.ordinal : r \in S} /\ \A r \in S : r.tile = t
  BY DEF Ordinals, Records
<1>4. Cardinality(S) = c
  BY DEF Count
<1> HIDE DEF S, c, O
<1>5. IsFiniteSet(O) /\ Cardinality(O) = c
  <2>1. f \in Bijection(S, O)
    BY <1>1, <1>2 DEF Bijection, Injection, Surjection, IsInjective
  <2>2. ExistsBijection(S, O)
    BY <2>1 DEF ExistsBijection
  <2> QED BY <1>1, <1>4, <2>2, FS_Bijection
<1> QED
  BY <1>5 DEF O, c

(* The ordinals of a tile have no gap when each is below their number. *)
LEMMA GaplessIs ==
  ASSUME NEW reg, Registered(reg), NEW t
  PROVE  Gapless(reg, t) <=> \A r \in Records(reg, t) : r.ordinal < Count(reg, t)
<1> DEFINE S == Records(reg, t)
           c == Count(reg, t)
           O == Ordinals(reg, t)
<1>1. c \in Nat /\ S \subseteq reg /\ \A r \in reg : r.ordinal \in Nat
  BY RegisteredParts
<1>2. O = {r.ordinal : r \in S}
  BY DEF Ordinals
<1>3. Gapless(reg, t) <=> O = 0..(c - 1)
  BY DEF Gapless, Count
<1>5. Cardinality(O) = c
  BY OrdinalsCount
<1> HIDE DEF S, c, O
<1>6. ASSUME \A r \in S : r.ordinal < c
      PROVE  O = 0..(c - 1)
  <2>1. O \in SUBSET (0..(c - 1))
    BY <1>1, <1>2, <1>6
  <2>2. IsFiniteSet(0..(c - 1)) /\ Cardinality(0..(c - 1)) = c
    BY <1>1, FS_Interval
  <2> QED BY <1>5, <2>1, <2>2, FS_Subset
<1>7. ASSUME O = 0..(c - 1)
      PROVE  \A r \in S : r.ordinal < c
  BY <1>1, <1>2, <1>7
<1> QED
  BY <1>3, <1>6, <1>7 DEF S, c

(* A record that is numbered by those of its tile. *)
LEMMA AppendedRecords ==
  ASSUME NEW reg, Registered(reg), NEW r \in Record, r \notin reg, Valid(reg \cup {r}),
         r.ordinal = Count(reg, r.tile)
  PROVE  /\ Registered(reg \cup {r})
         /\ \A t : t # r.tile => Records(reg \cup {r}, t) = Records(reg, t)
         /\ Records(reg \cup {r}, r.tile) = Records(reg, r.tile) \cup {r}
         /\ Count(reg \cup {r}, r.tile) = Count(reg, r.tile) + 1
         /\ Gapless(reg \cup {r}, r.tile) <=> Gapless(reg, r.tile)
<1> DEFINE new == reg \cup {r}
           t == r.tile
           c == Count(reg, t)
<1>1. /\ IsFiniteSet(reg) /\ reg \subseteq Record /\ c \in Nat
      /\ IsFiniteSet(Records(reg, t)) /\ Records(reg, t) \subseteq reg
      /\ \A q \in reg : q.ordinal \in Nat
  BY RegisteredParts
<1>2. Registered(new)
  BY <1>1, FS_AddElement DEF Registered
<1>3. Records(new, t) = Records(reg, t) \cup {r}
  BY DEF Records
<1>4. \A u : u # t => Records(new, u) = Records(reg, u)
  BY DEF Records
<1>5. Count(new, t) = c + 1
  <2>1. r \notin Records(reg, t)
    BY <1>1
  <2> QED BY <1>1, <1>3, <2>1, FS_AddElement DEF Count
<1>6. \A q \in Records(reg, t) : q.ordinal # c
  <2>1. ASSUME NEW q \in Records(reg, t), q.ordinal = c
        PROVE  FALSE
    <3>1. q \in new /\ r \in new /\ q.tile = r.tile /\ q.ordinal = r.ordinal /\ q # r
      BY <2>1 DEF Records
    <3> QED BY <3>1 DEF Valid
  <2> QED BY <2>1
<1>7. Gapless(new, t) <=> \A q \in Records(new, t) : q.ordinal < c + 1
  BY <1>2, <1>5, GaplessIs
<1>8. Gapless(reg, t) <=> \A q \in Records(reg, t) : q.ordinal < c
  BY GaplessIs
<1>9. r.ordinal = c
  OBVIOUS
<1> HIDE DEF new, c, t
<1>10. \A q \in Records(reg, t) : q.ordinal < c + 1 <=> q.ordinal < c
  <2>1. \A q \in Records(reg, t) : q.ordinal \in Nat
    BY <1>1
  <2>2. \A x \in Nat : x # c => (x < c + 1 <=> x < c)
    BY <1>1
  <2> QED BY <1>6, <2>1, <2>2
<1>11. Gapless(new, t) <=> Gapless(reg, t)
  BY <1>1, <1>3, <1>7, <1>8, <1>9, <1>10
<1> QED
  BY <1>2, <1>3, <1>4, <1>5, <1>11 DEF new, c, t

(* A record whose item changes. *)
Changes(reg, r, q, now) ==
    /\ r \in reg /\ q \in Record /\ q.tile = r.tile /\ q.ordinal = r.ordinal
    /\ now = (reg \ {r}) \cup {q}

Changed(reg, r, q, now) ==
    /\ Registered(now)
    /\ \A u : u # r.tile => Records(now, u) = Records(reg, u)
    /\ Records(now, r.tile) = (Records(reg, r.tile) \ {r}) \cup {q}
    /\ Count(now, r.tile) = Count(reg, r.tile)
    /\ Gapless(now, r.tile) <=> Gapless(reg, r.tile)

LEMMA ChangedRecord ==
  ASSUME NEW reg, Registered(reg), NEW r, NEW q, NEW now, Changes(reg, r, q, now)
  PROVE  Changed(reg, r, q, now)
<1> SUFFICES ASSUME r \in reg, q \in Record, q.tile = r.tile, q.ordinal = r.ordinal,
                    now = (reg \ {r}) \cup {q}
             PROVE  Changed(reg, r, q, now)
  BY DEF Changes
<1> DEFINE rest == reg \ {r}
           new == rest \cup {q}
           t == r.tile
<1>1. /\ IsFiniteSet(reg) /\ reg \subseteq Record /\ Count(reg, t) \in Nat
      /\ IsFiniteSet(Records(reg, t)) /\ Records(reg, t) \subseteq reg
      /\ \A x, y \in reg : x.tile = y.tile /\ x.ordinal = y.ordinal => x = y
  BY RegisteredParts
<1>2. q \notin rest
  BY <1>1
<1>3. IsFiniteSet(new) /\ Cardinality(new) = Cardinality(reg)
  <2>1. Cardinality(reg) \in Nat
    BY <1>1, FS_CardinalityType
  <2>2. IsFiniteSet(rest) /\ Cardinality(rest) = Cardinality(reg) - 1
    BY <1>1, FS_RemoveElement
  <2>3. IsFiniteSet(new) /\ Cardinality(new) = Cardinality(rest) + 1
    BY <1>2, <2>2, FS_AddElement
  <2> QED BY <2>1, <2>2, <2>3
<1>4. Valid(new)
  <2>1. \A x, y \in new : x.tile = y.tile /\ x.ordinal = y.ordinal => x = y
    BY <1>1
  <2>2. Cardinality(reg) <= MaxRecords
    BY DEF Registered, Valid
  <2> QED BY <1>3, <2>1, <2>2 DEF Valid
<1>5. Registered(new)
  BY <1>1, <1>3, <1>4 DEF Registered
<1>6. Records(new, t) = (Records(reg, t) \ {r}) \cup {q}
  BY DEF Records
<1>7. \A u : u # t => Records(new, u) = Records(reg, u)
  BY DEF Records
<1>8. Count(new, t) = Count(reg, t)
  <2>1. r \in Records(reg, t) /\ q \notin Records(reg, t) \ {r}
    BY <1>1, <1>2 DEF Records
  <2>2. IsFiniteSet(Records(reg, t) \ {r})
        /\ Cardinality(Records(reg, t) \ {r}) = Cardinality(Records(reg, t)) - 1
    BY <1>1, <2>1, FS_RemoveElement
  <2>3. Cardinality((Records(reg, t) \ {r}) \cup {q}) = Cardinality(Records(reg, t) \ {r}) + 1
    BY <2>1, <2>2, FS_AddElement
  <2> HIDE DEF new, t, rest
  <2>4. Cardinality(Records(reg, t)) \in Nat
    BY <1>1 DEF Count
  <2> QED BY <1>6, <2>2, <2>3, <2>4 DEF Count
<1>9. Gapless(new, t) <=> Gapless(reg, t)
  <2>1. Ordinals(new, t) = Ordinals(reg, t)
    <3>1. r \in Records(reg, t)
      BY DEF Records
    <3> HIDE DEF new, t, rest
    <3> QED BY <1>6, <3>1 DEF Ordinals
  <2> QED BY <1>8, <2>1 DEF Gapless, Count
<1> HIDE DEF new
<1>10. /\ Registered(new)
       /\ \A u : u # r.tile => Records(new, u) = Records(reg, u)
       /\ Records(new, r.tile) = (Records(reg, r.tile) \ {r}) \cup {q}
       /\ Count(new, r.tile) = Count(reg, r.tile)
       /\ Gapless(new, r.tile) <=> Gapless(reg, r.tile)
  BY <1>5, <1>6, <1>7, <1>8, <1>9
<1>11. now = new
  BY DEF new
<1> QED
  BY <1>10, <1>11, Zenon DEF Changed

(* The number of a record once the one at an ordinal of the tile is gone. *)
Lower(q, t, ordinal) ==
    IF q.tile = t /\ q.ordinal > ordinal THEN [q EXCEPT !.ordinal = @ - 1] ELSE q

LEMMA LowerIs ==
  ASSUME NEW q \in Record, NEW t, NEW ordinal \in Nat
  PROVE  /\ Lower(q, t, ordinal) \in Record
         /\ Lower(q, t, ordinal).tile = q.tile /\ Lower(q, t, ordinal).item = q.item
         /\ Lower(q, t, ordinal).ordinal = IF q.tile = t /\ q.ordinal > ordinal
                                           THEN q.ordinal - 1 ELSE q.ordinal
<1>1. CASE q.tile = t /\ q.ordinal > ordinal
  <2>1. q.ordinal - 1 \in Nat
    BY <1>1, RecordFields
  <2> QED BY <1>1, <2>1 DEF Lower, Record
<1>2. CASE ~ (q.tile = t /\ q.ordinal > ordinal)
  BY <1>2 DEF Lower
<1> QED
  BY <1>1, <1>2

LEMMA LowerApart ==
  ASSUME NEW reg, Registered(reg), NEW r \in reg
  PROVE  \A x, y \in reg \ {r} :
            (/\ Lower(x, r.tile, r.ordinal).tile = Lower(y, r.tile, r.ordinal).tile
             /\ Lower(x, r.tile, r.ordinal).ordinal = Lower(y, r.tile, r.ordinal).ordinal)
               => x = y
<1> SUFFICES ASSUME NEW x \in reg \ {r}, NEW y \in reg \ {r},
                    Lower(x, r.tile, r.ordinal).tile = Lower(y, r.tile, r.ordinal).tile,
                    Lower(x, r.tile, r.ordinal).ordinal = Lower(y, r.tile, r.ordinal).ordinal
             PROVE  x = y
  OBVIOUS
<1> DEFINE o == r.ordinal
           t == r.tile
           i == x.ordinal
           j == y.ordinal
<1>1. /\ x \in Record /\ y \in Record /\ o \in Nat /\ i \in Nat /\ j \in Nat
      /\ \A p, q \in reg : p.tile = q.tile /\ p.ordinal = q.ordinal => p = q
  BY RegisteredParts
<1>2. x.tile = y.tile
  BY <1>1, LowerIs
<1>3. (IF x.tile = t /\ i > o THEN i - 1 ELSE i) = (IF y.tile = t /\ j > o THEN j - 1 ELSE j)
  BY <1>1, LowerIs
<1>4. x.tile = t => i # o
  BY <1>1
<1>5. y.tile = t => j # o
  BY <1>1
<1>6. i = j
  <2> HIDE DEF i, j, o, t
  <2>1. CASE x.tile = t
    <3>1. (IF i > o THEN i - 1 ELSE i) = (IF j > o THEN j - 1 ELSE j) /\ i # o /\ j # o
      BY <1>2, <1>3, <1>4, <1>5, <2>1
    <3>2. \A a, b, c \in Nat :
             (IF a > c THEN a - 1 ELSE a) = (IF b > c THEN b - 1 ELSE b) /\ a # c /\ b # c
                 => a = b
      OBVIOUS
    <3> QED BY <1>1, <3>1, <3>2
  <2>2. CASE x.tile # t
    BY <1>2, <1>3, <2>2
  <2> QED BY <2>1, <2>2
<1> QED
  BY <1>1, <1>2, <1>6

(* A record that leaves, with the ones above it moving down. *)
Takes(reg, r, now) ==
    /\ r \in reg /\ r.ordinal < Count(reg, r.tile)
    /\ now = Renumbered(reg \ {r}, r.tile, r.ordinal)

Taken(reg, r, now) ==
    /\ Registered(now)
    /\ \A u : u # r.tile => Records(now, u) = Records(reg, u)
    /\ Records(now, r.tile)
          = {Lower(q, r.tile, r.ordinal) : q \in Records(reg, r.tile) \ {r}}
    /\ Count(now, r.tile) = Count(reg, r.tile) - 1
    /\ Gapless(now, r.tile) <=> Gapless(reg, r.tile)

LEMMA TakenRecords ==
  ASSUME NEW reg, Registered(reg), NEW r, NEW now, Takes(reg, r, now)
  PROVE  Taken(reg, r, now)
<1> SUFFICES ASSUME r \in reg, r.ordinal < Count(reg, r.tile),
                    now = Renumbered(reg \ {r}, r.tile, r.ordinal)
             PROVE  Taken(reg, r, now)
  BY DEF Takes
<1> DEFINE t == r.tile
           o == r.ordinal
           rest == reg \ {r}
           low == [q \in rest |-> Lower(q, t, o)]
           new == Renumbered(rest, t, o)
           c == Count(reg, t)
           S == Records(reg, t)
<1>1. /\ IsFiniteSet(reg) /\ reg \subseteq Record /\ c \in Nat
      /\ IsFiniteSet(S) /\ S \subseteq reg
      /\ \A x, y \in reg : x.tile = y.tile /\ x.ordinal = y.ordinal => x = y
      /\ \A q \in reg : q.ordinal \in Nat
  BY RegisteredParts
<1>2. o \in Nat /\ t \in Tiles /\ r \in S
  BY <1>1, RecordFields DEF Records
<1>3. new = {Lower(q, t, o) : q \in rest}
  BY DEF Renumbered, Lower
<1>4. \A q \in rest : /\ Lower(q, t, o) \in Record
                      /\ Lower(q, t, o).tile = q.tile /\ Lower(q, t, o).item = q.item
                      /\ Lower(q, t, o).ordinal = IF q.tile = t /\ q.ordinal > o
                                                  THEN q.ordinal - 1 ELSE q.ordinal
  <2> HIDE DEF t, o
  <2> QED BY <1>1, <1>2, LowerIs
<1>5. \A x, y \in rest : (/\ Lower(x, t, o).tile = Lower(y, t, o).tile
                          /\ Lower(x, t, o).ordinal = Lower(y, t, o).ordinal) => x = y
  BY LowerApart, Zenon
<1> HIDE DEF new
<1>6. low \in Bijection(rest, new)
  <2> HIDE DEF rest, t, o
  <2> QED BY <1>3, <1>5 DEF Bijection, Injection, Surjection, IsInjective
<1>7. IsFiniteSet(rest) /\ Cardinality(rest) = Cardinality(reg) - 1
  BY <1>1, FS_RemoveElement
<1>8. IsFiniteSet(new) /\ Cardinality(new) = Cardinality(reg) - 1
  <2>1. ExistsBijection(rest, new)
    BY <1>6 DEF ExistsBijection
  <2> QED BY <1>7, <2>1, FS_Bijection
<1>9. Registered(new)
  <2>1. new \subseteq Record
    BY <1>3, <1>4
  <2>2. \A x, y \in new : x.tile = y.tile /\ x.ordinal = y.ordinal => x = y
    BY <1>3, <1>5
  <2>3. Cardinality(new) <= MaxRecords
    <3>1. Cardinality(reg) \in Nat /\ Cardinality(reg) <= MaxRecords
      BY <1>1, FS_CardinalityType DEF Registered, Valid
    <3> QED BY <1>8, <3>1, GroundAssumption
  <2> QED BY <1>8, <2>1, <2>2, <2>3 DEF Registered, Valid
<1>10. ASSUME NEW u, u # t
       PROVE  Records(new, u) = Records(reg, u)
  <2>1. \A q \in rest : q.tile = u => Lower(q, t, o) = q
    BY <1>10 DEF Lower
  <2>2. Records(new, u) = {q \in rest : q.tile = u}
    <3> HIDE DEF rest, t, o
    <3> QED BY <1>3, <1>4, <2>1 DEF Records
  <2> QED BY <1>10, <2>2 DEF Records
<1>11. Records(new, t) = {Lower(q, t, o) : q \in S \ {r}}
  <2>1. \A q \in rest : q.tile = t <=> q \in S \ {r}
    BY DEF Records
  <2>2. \A q \in S \ {r} : q \in rest
    BY <1>1
  <2> HIDE DEF rest, t, o, S
  <2> QED BY <1>3, <1>4, <2>1, <2>2 DEF Records
<1>12. Count(new, t) = c - 1
  <2> DEFINE f == [q \in S \ {r} |-> Lower(q, t, o)]
  <2>1. S \ {r} \subseteq rest
    BY <1>1
  <2>2. f \in Bijection(S \ {r}, Records(new, t))
    <3> HIDE DEF rest, t, o, S
    <3> QED BY <1>5, <1>11, <2>1 DEF Bijection, Injection, Surjection, IsInjective
  <2>3. IsFiniteSet(S \ {r}) /\ Cardinality(S \ {r}) = c - 1
    BY <1>1, <1>2, FS_RemoveElement DEF Count
  <2>4. ExistsBijection(S \ {r}, Records(new, t))
    BY <2>2 DEF ExistsBijection
  <2> HIDE DEF S, f, t
  <2> QED BY <2>3, <2>4, FS_Bijection DEF Count
<1>13. Gapless(new, t) <=> Gapless(reg, t)
  <2>1. Gapless(new, t) <=> \A q \in Records(new, t) : q.ordinal < c - 1
    BY <1>9, <1>12, GaplessIs
  <2>2. Gapless(reg, t) <=> \A q \in S : q.ordinal < c
    BY GaplessIs
  <2>3. o < c
    OBVIOUS
  <2>4. \A q \in S : q.tile = t /\ q.ordinal \in Nat /\ (q # r => q \in rest /\ q.ordinal # o)
    BY <1>1 DEF Records
  <2> HIDE DEF c, S, t, o, rest
  <2>5. ASSUME NEW q \in S, q # r
        PROVE  Lower(q, t, o).ordinal < c - 1 <=> q.ordinal < c
    <3>1. q.ordinal \in Nat /\ q.ordinal # o
          /\ Lower(q, t, o).ordinal = IF q.ordinal > o THEN q.ordinal - 1 ELSE q.ordinal
      BY <1>4, <2>4, <2>5
    <3>2. \A a \in Nat : a # o => ((IF a > o THEN a - 1 ELSE a) < c - 1 <=> a < c)
      BY <1>1, <1>2, <2>3
    <3> QED BY <3>1, <3>2
  <2>6. (\A q \in Records(new, t) : q.ordinal < c - 1)
           <=> \A q \in S \ {r} : Lower(q, t, o).ordinal < c - 1
    BY <1>11
  <2>7. (\A q \in S : q.ordinal < c) <=> \A q \in S \ {r} : q.ordinal < c
    BY <2>3 DEF o
  <2> QED BY <2>1, <2>2, <2>5, <2>6, <2>7
<1>14. /\ Registered(new)
       /\ \A u : u # r.tile => Records(new, u) = Records(reg, u)
       /\ Records(new, r.tile) = {Lower(q, r.tile, r.ordinal) : q \in Records(reg, r.tile) \ {r}}
       /\ Count(new, r.tile) = Count(reg, r.tile) - 1
       /\ Gapless(new, r.tile) <=> Gapless(reg, r.tile)
  BY <1>9, <1>10, <1>11, <1>12, <1>13
<1>15. now = new
  BY DEF new
<1> QED
  BY <1>14, <1>15, Zenon DEF Taken

(* Records that leave without the others moving. *)
Survives(reg, gone, now, t) ==
    /\ Registered(now)
    /\ Records(now, t) = Records(reg, t) \ gone
    /\ Count(now, t) = Count(reg, t) - Count(gone, t)
    /\ Count(gone, t) \in Nat /\ Count(gone, t) <= Count(reg, t)
    /\ (\A r \in Records(gone, t) : r.ordinal < Count(reg, t)) =>
          (Gapless(now, t) => Gapless(reg, t))

LEMMA SurvivingRecords ==
  ASSUME NEW reg, Registered(reg), NEW gone \in SUBSET reg, NEW t
  PROVE  Survives(reg, gone, reg \ gone, t)
<1> DEFINE new == reg \ gone
           S == Records(reg, t)
           G == Records(gone, t)
           c == Count(reg, t)
<1>1. /\ IsFiniteSet(reg) /\ reg \subseteq Record /\ c \in Nat
      /\ IsFiniteSet(S) /\ S \subseteq reg
      /\ \A x, y \in reg : x.tile = y.tile /\ x.ordinal = y.ordinal => x = y
      /\ \A q \in reg : q.ordinal \in Nat
  BY RegisteredParts
<1>2. new \in SUBSET reg
  OBVIOUS
<1>3. IsFiniteSet(new) /\ Cardinality(new) <= Cardinality(reg)
  BY <1>1, <1>2, FS_Subset
<1>4. Registered(new)
  <2>1. \A x, y \in new : x.tile = y.tile /\ x.ordinal = y.ordinal => x = y
    BY <1>1
  <2>2. Cardinality(new) <= MaxRecords
    <3>1. Cardinality(reg) \in Nat /\ Cardinality(reg) <= MaxRecords
          /\ Cardinality(new) \in Nat
      BY <1>1, <1>3, FS_CardinalityType DEF Registered, Valid
    <3> HIDE DEF new
    <3> QED BY <1>3, <3>1, GroundAssumption
  <2> QED BY <1>1, <1>3, <2>1, <2>2 DEF Registered, Valid
<1>5. Records(new, t) = S \ G /\ Records(new, t) = S \ gone /\ G \subseteq S
  BY DEF Records
<1>6. Cardinality(S \ G) = Cardinality(S) - Cardinality(G) /\ IsFiniteSet(G)
      /\ Cardinality(G) <= Cardinality(S)
  <2>1. S \cap G = G /\ G \in SUBSET S
    BY <1>5
  <2> HIDE DEF S, G
  <2> QED BY <1>1, <2>1, FS_Difference, FS_Subset
<1>7. Count(new, t) = c - Count(gone, t) /\ Count(gone, t) \in Nat /\ Count(gone, t) <= c
  BY <1>5, <1>6, FS_CardinalityType DEF Count
<1>8. ASSUME \A r \in G : r.ordinal < c, Gapless(new, t)
      PROVE  Gapless(reg, t)
  <2>1. \A q \in Records(new, t) : q.ordinal < Count(new, t)
    BY <1>4, <1>8, GaplessIs
  <2>2. \A q \in S : q \in G \/ q \in Records(new, t)
    BY <1>5
  <2>3. ASSUME NEW q \in S
        PROVE  q.ordinal < c
    <3>1. CASE q \in G
      BY <1>8, <3>1
    <3>2. CASE q \in Records(new, t)
      <4>1. q.ordinal < Count(new, t) /\ q.ordinal \in Nat
        BY <1>1, <2>1, <3>2
      <4> HIDE DEF c, new
      <4> QED BY <1>1, <1>7, <4>1
    <3> QED BY <2>2, <3>1, <3>2
  <2> QED BY <2>3, GaplessIs
<1> HIDE DEF new
<1>9. /\ Registered(new) /\ Records(new, t) = Records(reg, t) \ gone
      /\ Count(new, t) = Count(reg, t) - Count(gone, t)
  BY <1>4, <1>5, <1>7
<1>10. Survives(reg, gone, new, t)
  BY <1>7, <1>8, <1>9 DEF Survives
<1> QED
  BY <1>10 DEF new

----------------------------------------------------------------------------
(* What lies on a tile *)

(* The imported stacks the journal leaves, then as many items as the tile has *)
(* records, and without a gap in the ordinals the items of those records.     *)
Laid(here, from, saved, t) ==
    /\ here \in Seq(Item)
    /\ from = RecoveredOrigin(saved, t)
    /\ Len(here) = Len(from) + Count(saved.registry, t)
    /\ Len(here) <= Limit
    /\ \A k \in 1..Len(from) : here[k] = Imported(saved, t, from[k])
    /\ Gapless(saved.registry, t) =>
          \A r \in Records(saved.registry, t) : here[Len(from) + r.ordinal + 1] = r.item

Journaled(saved) ==
    /\ saved.removed \subseteq Identities
    /\ DOMAIN saved.reduced \subseteq Identities
    /\ \A id \in DOMAIN saved.reduced :
          /\ id \notin saved.removed
          /\ saved.reduced[id] \in Nat \ {0}
          /\ saved.reduced[id] < Source[id[1]][id[2]].count
    /\ Registered(saved.registry)

LEMMA SourceIs ==
  ASSUME NEW t \in Tiles
  PROVE  /\ Len(Source[t]) \in Nat /\ Len(Source[t]) <= Limit
         /\ DOMAIN Source[t] = 1..Len(Source[t])
         /\ \A i \in DOMAIN Source[t] :
               Source[t][i].thing \in Things /\ Source[t][i].count \in Nat \ {0}
<1> DEFINE Stack == [thing : Things, count : Nat \ {0}]
<1>1. Source[t] \in Seq(Stack)
  BY GroundAssumption
<1>2. \A x \in Stack : x.thing \in Things /\ x.count \in Nat \ {0}
  OBVIOUS
<1> HIDE DEF Stack
<1>3. Len(Source[t]) \in Nat /\ DOMAIN Source[t] = 1..Len(Source[t])
      /\ \A i \in 1..Len(Source[t]) : Source[t][i] \in Stack
  BY <1>1, LenProperties, ElementOfSeq
<1> QED
  BY <1>2, <1>3, GroundAssumption

LEMMA OriginIs ==
  ASSUME NEW saved, NEW t \in Tiles, NEW from, from = RecoveredOrigin(saved, t)
  PROVE  /\ from \in Seq(Nat \ {0}) /\ Len(from) \in Nat /\ DOMAIN from = 1..Len(from)
         /\ Len(from) <= Limit
         /\ \A k \in 1..Len(from) : from[k] \in LeftOf(saved, t) /\ from[k] \in Nat \ {0}
         /\ LeftOf(saved, t) \subseteq Nat \ {0} /\ IsFiniteSet(LeftOf(saved, t))
         /\ \A j, k \in 1..Len(from) : from[j] = from[k] => j = k
         /\ LeftOf(saved, t) \subseteq DOMAIN Source[t]
<1> DEFINE S == LeftOf(saved, t)
           m == Cardinality(S)
           n == Len(Source[t])
<1>1. n \in Nat /\ n <= Limit /\ S \in SUBSET (1..n)
  BY SourceIs DEF LeftOf
<1>2. IsFiniteSet(1..n) /\ Cardinality(1..n) = n
  BY <1>1, FS_Interval
<1> HIDE DEF S
<1>3. IsFiniteSet(S) /\ m <= n /\ S \subseteq Nat \ {0} /\ S \subseteq Nat
  <2>1. IsFiniteSet(S) /\ Cardinality(S) <= Cardinality(1..n)
    BY <1>1, <1>2, FS_Subset
  <2>2. \A x \in 1..n : x \in Nat \ {0}
    BY <1>1
  <2> QED BY <1>1, <1>2, <2>1, <2>2
<1>4. Enumerates(from, m, S)
  BY <1>3, OrderedEnumerates DEF RecoveredOrigin, S
<1> HIDE DEF m, n
<1>5. /\ m \in Nat /\ from \in [1..m -> S] /\ DOMAIN from = 1..m
      /\ \A k \in 1..m : from[k] \in S
      /\ \A j, k \in 1..m : from[j] = from[k] => j = k
  BY <1>4, EnumerationFields
<1>6. from \in Seq(S) /\ Len(from) = m
  <2>1. m \in Nat /\ from \in [1..m -> S]
    BY <1>5, Zenon
  <2> QED BY <2>1, ListIs
<1>7. from \in [1..m -> Nat \ {0}]
  BY <1>3, <1>5
<1>8. from \in Seq(Nat \ {0})
  BY <1>5, <1>7, ListIs
<1>9. m <= Limit
  BY <1>1, <1>3, <1>5, GroundAssumption
<1>10. S \subseteq DOMAIN Source[t]
  BY DEF S, LeftOf
<1> QED
  BY <1>3, <1>5, <1>6, <1>8, <1>9, <1>10 DEF S

LEMMA ImportedIs ==
  ASSUME NEW saved, Journaled(saved), NEW t \in Tiles, NEW i \in DOMAIN Source[t]
  PROVE  Imported(saved, t, i) \in Item
<1>1. Source[t][i].thing \in Carried /\ Source[t][i].count \in Nat \ {0}
  BY SourceIs DEF Carried
<1>2. <<t, i>> \in DOMAIN saved.reduced => saved.reduced[<<t, i>>] \in Nat \ {0}
  BY DEF Journaled
<1> QED
  BY <1>1, <1>2 DEF Imported, Plain, Item

LEMMA Halves ==
  ASSUME NEW T, NEW s \in Seq(T), NEW n \in Nat, NEW c \in Nat, Len(s) = n + c
  PROVE  [k \in 1..n |-> s[k]] \o [k \in 1..c |-> s[n + k]] = s
<1> DEFINE f == [k \in 1..n |-> s[k]]
           h == [k \in 1..c |-> s[n + k]]
<1>1. DOMAIN s = 1..(n + c) /\ \A k \in 1..(n + c) : s[k] \in T
  BY LenProperties, ElementOfSeq
<1>2. f \in [1..n -> T] /\ h \in [1..c -> T]
  BY <1>1
<1> HIDE DEF f, h
<1>3. f \in Seq(T) /\ Len(f) = n
  BY <1>2, ListIs
<1>4. h \in Seq(T) /\ Len(h) = c
  BY <1>2, ListIs
<1>5. /\ f \o h \in Seq(T) /\ Len(f \o h) = n + c
      /\ \A i \in 1..(n + c) : (f \o h)[i] = IF i <= n THEN f[i] ELSE h[i - n]
  BY <1>3, <1>4, ConcatProperties
<1>6. \A i \in 1..(n + c) : (f \o h)[i] = s[i]
  <2>1. ASSUME NEW i \in 1..(n + c)
        PROVE  (f \o h)[i] = s[i]
    <3>1. CASE i <= n
      BY <1>5, <3>1 DEF f
    <3>2. CASE ~ (i <= n)
      <4>1. i - n \in 1..c /\ n + (i - n) = i
        BY <3>2
      <4>2. h[i - n] = s[n + (i - n)]
        BY <4>1 DEF h
      <4> QED BY <1>5, <3>2, <4>1, <4>2
    <3> QED BY <3>1, <3>2
  <2> QED BY <2>1
<1>7. f \o h = s
  BY <1>5, <1>6, SeqEqual
<1> QED
  BY <1>7 DEF f, h

(* The last items of a tile whose ordinals have no gap are those of its records. *)
LEMMA RecordedTail ==
  ASSUME NEW reg, Registered(reg), NEW t, Gapless(reg, t)
  PROVE  /\ Ordered(Ordinals(reg, t)) = [k \in 1..Count(reg, t) |-> k - 1]
         /\ \A k \in 1..Count(reg, t) :
               LET r == CHOOSE r \in Records(reg, t) : r.ordinal = k - 1
               IN  r \in Records(reg, t) /\ r.ordinal = k - 1
<1> DEFINE c == Count(reg, t)
           O == Ordinals(reg, t)
           g == [k \in 1..c |-> k - 1]
<1>1. c \in Nat
  BY RegisteredParts
<1>2. O = 0..(c - 1)
  BY DEF Gapless, Count
<1>3. Enumerates(g, c, O)
  <2> HIDE DEF c, O
  <2>1. \A k \in 1..c : k - 1 \in O
    BY <1>1, <1>2
  <2>2. g \in [1..c -> O] /\ O \subseteq Nat
    BY <1>1, <1>2, <2>1
  <2>3. \A x \in O : x + 1 \in 1..c /\ g[x + 1] = x
    BY <1>1, <1>2
  <2>4. \A j, k \in 1..c : j < k => g[j] < g[k]
    BY <1>1
  <2> HIDE DEF g
  <2> QED BY <1>1, <2>2, <2>3, <2>4 DEF Enumerates
<1>4. Ordered(O) = g
  <2> HIDE DEF c, O, g
  <2> QED BY <1>3, OrderedIs
<1>5. ASSUME NEW k \in 1..c
      PROVE  \E r \in Records(reg, t) : r.ordinal = k - 1
  <2> HIDE DEF c
  <2>1. k - 1 \in O
    BY <1>1, <1>2
  <2> QED BY <2>1 DEF Ordinals
<1> QED
  BY <1>4, <1>5

LEMMA LaidRecovers ==
  ASSUME NEW saved, Journaled(saved), NEW t \in Tiles, NEW here, NEW from,
         Laid(here, from, saved, t), Gapless(saved.registry, t)
  PROVE  RecoveredOrigin(saved, t) = from /\ RecoveredTile(saved, t) = here
<1> DEFINE reg == saved.registry
           c == Count(reg, t)
           n == Len(from)
           tail == Ordered(Ordinals(reg, t))
           f == [k \in DOMAIN from |-> Imported(saved, t, from[k])]
           h == [k \in DOMAIN tail |->
                   (CHOOSE r \in Records(reg, t) : r.ordinal = tail[k]).item]
<1>1. from = RecoveredOrigin(saved, t) /\ here \in Seq(Item) /\ Len(here) = n + c
  BY DEF Laid
<1>2. n \in Nat /\ DOMAIN from = 1..n
  BY <1>1, OriginIs
<1>3. Registered(reg)
  BY DEF Journaled
<1>4. c \in Nat
  BY <1>3, RegisteredParts
<1>5. f = [k \in 1..n |-> here[k]]
  BY <1>2 DEF Laid
<1>6. h = [k \in 1..c |-> here[n + k]]
  <2>1. /\ tail = [k \in 1..c |-> k - 1]
        /\ \A k \in 1..c :
              LET r == CHOOSE r \in Records(reg, t) : r.ordinal = k - 1
              IN  r \in Records(reg, t) /\ r.ordinal = k - 1
    BY <1>3, RecordedTail
  <2>2. \A r \in Records(reg, t) : here[n + r.ordinal + 1] = r.item
    BY DEF Laid
  <2> HIDE DEF n, c, reg, tail
  <2>3. ASSUME NEW k \in 1..c
        PROVE  h[k] = here[n + k]
    <3> DEFINE r == CHOOSE r \in Records(reg, t) : r.ordinal = k - 1
    <3>1. r \in Records(reg, t) /\ r.ordinal = k - 1
      BY <2>1
    <3>2. k \in DOMAIN tail /\ tail[k] = k - 1
      BY <2>1
    <3>3. h[k] = r.item
      BY <3>2
    <3> HIDE DEF r, h
    <3>4. n + r.ordinal + 1 = n + k
      BY <1>2, <1>4, <3>1
    <3>5. here[n + r.ordinal + 1] = r.item
      BY <2>2, <3>1, Zenon
    <3> QED BY <3>3, <3>4, <3>5, Zenon
  <2>4. DOMAIN tail = 1..c
    BY <2>1
  <2> QED BY <2>3, <2>4
<1>7. f \o h = here
  <2> HIDE DEF n, c, f, h
  <2>1. [k \in 1..n |-> here[k]] \o [k \in 1..c |-> here[n + k]] = here
    BY <1>1, <1>2, <1>4, Halves
  <2> QED BY <1>5, <1>6, <2>1, Zenon
<1>8. RecoveredTile(saved, t) = f \o h
  BY <1>1 DEF RecoveredTile
<1> QED
  <2> HIDE DEF f, h
  <2> QED BY <1>1, <1>7, <1>8, Zenon

(* A tile at the first start. *)
LEMMA NoRecords ==
  ASSUME NEW t
  PROVE  /\ Registered({}) /\ Records({}, t) = {} /\ Count({}, t) = 0
         /\ Ordered(Ordinals({}, t)) = <<>>
<1>1. Records({}, t) = {}
  BY DEF Records
<1>2. Ordinals({}, t) = {}
  BY <1>1 DEF Ordinals
<1>3. Count({}, t) = 0
  BY <1>1, FS_EmptySet DEF Count
<1>4. Enumerates(<<>>, 0, {})
  BY DEF Enumerates
<1>5. Ordered({}) = <<>>
  BY <1>4, OrderedIs
<1>6. Registered({})
  <2>1. IsFiniteSet({}) /\ Cardinality({}) = 0
    BY FS_EmptySet
  <2> QED BY <2>1, GroundAssumption DEF Registered, Valid
<1> QED
  BY <1>1, <1>2, <1>3, <1>5, <1>6

LEMMA LaidAtFirst ==
  ASSUME NEW saved, Journaled(saved), saved.registry = {}, NEW t \in Tiles
  PROVE  Laid(RecoveredTile(saved, t), RecoveredOrigin(saved, t), saved, t)
<1> DEFINE from == RecoveredOrigin(saved, t)
           n == Len(from)
           f == [k \in 1..n |-> Imported(saved, t, from[k])]
<1>1. /\ n \in Nat /\ DOMAIN from = 1..n /\ n <= Limit
      /\ \A k \in 1..n : from[k] \in LeftOf(saved, t)
      /\ LeftOf(saved, t) \subseteq DOMAIN Source[t]
  BY OriginIs
<1>2. \A k \in 1..n : Imported(saved, t, from[k]) \in Item
  <2> HIDE DEF n, from
  <2> QED BY <1>1, ImportedIs
<1>3. f \in [1..n -> Item]
  <2> HIDE DEF n, from
  <2> QED BY <1>2
<1>4. f \in Seq(Item) /\ Len(f) = n
  <2> HIDE DEF n, f
  <2> QED BY <1>1, <1>3, ListIs
<1>5. RecoveredTile(saved, t) = f
  <2>1. Ordered(Ordinals(saved.registry, t)) = <<>>
    BY NoRecords
  <2> DEFINE tail == Ordered(Ordinals(saved.registry, t))
             h == [k \in DOMAIN tail |->
                     (CHOOSE r \in Records(saved.registry, t) : r.ordinal = tail[k]).item]
  <2>2. RecoveredTile(saved, t) = f \o h
    BY <1>1 DEF RecoveredTile
  <2>3. h = <<>>
    BY <2>1
  <2> HIDE DEF f, h
  <2> QED BY <1>4, <2>2, <2>3
<1>6. Count(saved.registry, t) = 0 /\ Records(saved.registry, t) = {}
  BY NoRecords
<1>7. \A k \in 1..n : f[k] = Imported(saved, t, from[k])
  OBVIOUS
<1> HIDE DEF f
<1> QED
  BY <1>1, <1>4, <1>5, <1>6, <1>7 DEF Laid

LEMMA LaidFields ==
  ASSUME NEW saved, Journaled(saved), NEW t \in Tiles, NEW here, NEW from,
         Laid(here, from, saved, t)
  PROVE  /\ here \in Seq(Item) /\ Len(here) \in Nat /\ Len(here) <= Limit
         /\ DOMAIN here = 1..Len(here) /\ \A k \in 1..Len(here) : here[k] \in Item
         /\ Len(from) \in Nat /\ DOMAIN from = 1..Len(from) /\ from \in Seq(Nat \ {0})
         /\ from = RecoveredOrigin(saved, t)
         /\ \A k \in 1..Len(from) : from[k] \in LeftOf(saved, t)
         /\ \A j, k \in 1..Len(from) : from[j] = from[k] => j = k
         /\ Registered(saved.registry)
         /\ Count(saved.registry, t) \in Nat
         /\ Len(here) = Len(from) + Count(saved.registry, t)
         /\ \A r \in Records(saved.registry, t) : r.ordinal \in Nat /\ r.tile = t
<1>1. /\ from = RecoveredOrigin(saved, t) /\ here \in Seq(Item)
      /\ Len(here) <= Limit /\ Len(here) = Len(from) + Count(saved.registry, t)
  BY DEF Laid
<1>2. Registered(saved.registry)
  BY DEF Journaled
<1>3. Len(here) \in Nat /\ DOMAIN here = 1..Len(here) /\ \A k \in 1..Len(here) : here[k] \in Item
  BY <1>1, LenProperties, ElementOfSeq
<1>4. /\ Count(saved.registry, t) \in Nat
      /\ \A r \in Records(saved.registry, t) : r.ordinal \in Nat
  <2>1. /\ Count(saved.registry, t) \in Nat
        /\ Records(saved.registry, t) \subseteq saved.registry
        /\ \A r \in saved.registry : r.ordinal \in Nat
    BY <1>2, RegisteredParts
  <2> QED BY <2>1
<1>5. \A r \in Records(saved.registry, t) : r.tile = t
  BY DEF Records
<1>6. /\ Len(from) \in Nat /\ DOMAIN from = 1..Len(from) /\ from \in Seq(Nat \ {0})
      /\ \A k \in 1..Len(from) : from[k] \in LeftOf(saved, t)
      /\ \A j, k \in 1..Len(from) : from[j] = from[k] => j = k
  BY <1>1, OriginIs
<1> QED
  BY <1>1, <1>2, <1>3, <1>4, <1>5, <1>6

(* A start reads everything back when no tile has a gap in its ordinals. *)
LEMMA LaidRecoverable ==
  ASSUME NEW saved, Journaled(saved), NEW here, NEW from,
         \A t \in Tiles : Laid(here[t], from[t], saved, t),
         \A t \in Tiles : Gapless(saved.registry, t)
  PROVE  Recoverable(saved)
<1>1. \A t \in Tiles : RecoveredTile(saved, t) = here[t]
  BY LaidRecovers
<1>2. \A t \in Tiles : Len(here[t]) <= Limit
  BY DEF Laid
<1> QED
  BY <1>1, <1>2 DEF Recoverable, Journaled

(* A tile that neither the journal nor the registry says anything new of. *)
LEMMA LaidElsewhere ==
  ASSUME NEW saved, NEW next, NEW t, NEW here, NEW from, Laid(here, from, saved, t),
         LeftOf(next, t) = LeftOf(saved, t),
         \A i \in LeftOf(saved, t) : Imported(next, t, i) = Imported(saved, t, i),
         Records(next.registry, t) = Records(saved.registry, t),
         t \in Tiles
  PROVE  Laid(here, from, next, t)
<1>1. Count(next.registry, t) = Count(saved.registry, t)
      /\ (Gapless(next.registry, t) <=> Gapless(saved.registry, t))
  BY DEF Count, Gapless, Ordinals
<1>2. RecoveredOrigin(next, t) = RecoveredOrigin(saved, t)
  BY DEF RecoveredOrigin
<1>3. from = RecoveredOrigin(saved, t)
  BY DEF Laid
<1>4. \A k \in 1..Len(from) : from[k] \in LeftOf(saved, t)
  BY <1>3, OriginIs
<1>5. \A k \in 1..Len(from) : here[k] = Imported(next, t, from[k])
  BY <1>4 DEF Laid
<1> QED
  BY <1>1, <1>2, <1>5 DEF Laid

SameJournal(saved, next) == next.removed = saved.removed /\ next.reduced = saved.reduced

LEMMA SameImports ==
  ASSUME NEW saved, NEW next, SameJournal(saved, next), NEW t
  PROVE  /\ LeftOf(next, t) = LeftOf(saved, t)
         /\ RecoveredOrigin(next, t) = RecoveredOrigin(saved, t)
         /\ \A i : Imported(next, t, i) = Imported(saved, t, i)
<1>1. next.removed = saved.removed /\ next.reduced = saved.reduced
  BY DEF SameJournal
<1>2. LeftOf(next, t) = LeftOf(saved, t)
  BY <1>1 DEF LeftOf
<1>3. \A i : Imported(next, t, i) = Imported(saved, t, i)
  BY <1>1 DEF Imported
<1> QED
  BY <1>2, <1>3 DEF RecoveredOrigin

(* An item that is put on top. *)
LEMMA LaidAppended ==
  ASSUME NEW saved, Journaled(saved), NEW next, SameJournal(saved, next), NEW t \in Tiles,
         NEW here, NEW from, Laid(here, from, saved, t), Len(here) < Limit,
         NEW r \in Record, r.tile = t, r.ordinal = Count(saved.registry, t),
         r \notin saved.registry, Valid(saved.registry \cup {r}),
         next.registry = saved.registry \cup {r}
  PROVE  Laid(Append(here, r.item), from, next, t)
<1> DEFINE c == Count(saved.registry, t)
           n == Len(from)
           now == Append(here, r.item)
<1>1. /\ here \in Seq(Item) /\ Len(here) \in Nat /\ n \in Nat /\ c \in Nat /\ Len(here) = n + c
      /\ from = RecoveredOrigin(saved, t) /\ Registered(saved.registry)
      /\ \A q \in Records(saved.registry, t) : q.ordinal \in Nat /\ q.tile = t
  BY LaidFields
<1>2. r.item \in Item
  BY RecordFields
<1>3. /\ now \in Seq(Item) /\ Len(now) = n + c + 1 /\ now[n + c + 1] = r.item
      /\ \A k \in 1..(n + c) : now[k] = here[k]
  BY <1>1, <1>2, AppendProperties
<1>4. /\ Records(next.registry, t) = Records(saved.registry, t) \cup {r}
      /\ Count(next.registry, t) = c + 1
      /\ Gapless(next.registry, t) <=> Gapless(saved.registry, t)
  <2> DEFINE reg == saved.registry
  <2>1. Registered(reg) /\ r.ordinal = Count(reg, r.tile) /\ r \notin reg /\ Valid(reg \cup {r})
    BY <1>1
  <2> HIDE DEF reg
  <2>2. /\ Records(reg \cup {r}, r.tile) = Records(reg, r.tile) \cup {r}
        /\ Count(reg \cup {r}, r.tile) = Count(reg, r.tile) + 1
        /\ Gapless(reg \cup {r}, r.tile) <=> Gapless(reg, r.tile)
    BY <2>1, AppendedRecords
  <2>3. next.registry = reg \cup {r} /\ saved.registry = reg
    BY DEF reg
  <2> QED BY <2>2, <2>3
<1>5. from = RecoveredOrigin(next, t) /\ \A i : Imported(next, t, i) = Imported(saved, t, i)
  BY <1>1, SameImports
<1>6. \A k \in 1..n : now[k] = Imported(next, t, from[k])
  <2>1. \A k \in 1..n : k \in 1..(n + c) /\ here[k] = Imported(saved, t, from[k])
    BY <1>1 DEF Laid
  <2> HIDE DEF now, n, c
  <2> QED BY <1>3, <1>5, <2>1
<1>7. ASSUME Gapless(next.registry, t), NEW q \in Records(next.registry, t)
      PROVE  now[n + q.ordinal + 1] = q.item
  <2>1. CASE q = r
    BY <1>1, <1>3, <2>1
  <2>2. CASE q \in Records(saved.registry, t)
    <3>1. here[n + q.ordinal + 1] = q.item
      BY <1>4, <1>7, <2>2 DEF Laid
    <3>2. q.ordinal < c /\ q.ordinal \in Nat
      BY <1>1, <1>4, <1>7, <2>2, GaplessIs
    <3> HIDE DEF now, n, c
    <3>3. n + q.ordinal + 1 \in 1..(n + c)
      BY <1>1, <3>2
    <3> QED BY <1>3, <3>1, <3>3
  <2> QED BY <1>4, <1>7, <2>1, <2>2
<1>8. Len(now) = n + Count(next.registry, t) /\ Len(now) <= Limit
  <2>1. Limit \in Nat
    BY GroundAssumption
  <2> HIDE DEF now, n, c
  <2> QED BY <1>1, <1>3, <1>4, <2>1
<1> HIDE DEF now, c
<1>9. Laid(now, from, next, t)
  BY <1>3, <1>5, <1>6, <1>7, <1>8 DEF Laid
<1> QED
  BY <1>9 DEF now

(* A sequence in which another item is at a place. *)
Replaces(here, at, item, now) ==
    /\ now \in Seq(Item) /\ Len(now) = Len(here) /\ now[at] = item
    /\ \A k \in 1..Len(here) : k # at => now[k] = here[k]

(* The item of a record that becomes another one. *)
LEMMA LaidChanged ==
  ASSUME NEW saved, Journaled(saved), NEW next, SameJournal(saved, next), NEW t \in Tiles,
         NEW here, NEW from, Laid(here, from, saved, t),
         NEW r \in Records(saved.registry, t), NEW at \in 1..Len(here),
         at = Len(from) + r.ordinal + 1,
         NEW q, Changes(saved.registry, r, q, next.registry),
         NEW item, Gapless(saved.registry, t) => item = q.item,
         NEW now, Replaces(here, at, item, now)
  PROVE  Laid(now, from, next, t)
<1>0. /\ now \in Seq(Item) /\ Len(now) = Len(here) /\ now[at] = item
      /\ \A k \in 1..Len(here) : k # at => now[k] = here[k]
      /\ q.tile = r.tile /\ q.ordinal = r.ordinal
  BY DEF Changes, Replaces
<1> DEFINE c == Count(saved.registry, t)
           n == Len(from)
<1>1. /\ here \in Seq(Item) /\ Len(here) \in Nat /\ n \in Nat /\ c \in Nat /\ Len(here) = n + c
      /\ from = RecoveredOrigin(saved, t) /\ Registered(saved.registry)
      /\ Len(here) <= Limit
      /\ \A p \in Records(saved.registry, t) : p.ordinal \in Nat /\ p.tile = t
  BY LaidFields
<1>2. r \in saved.registry /\ r.tile = t /\ r.ordinal \in Nat
  BY <1>1 DEF Records
<1>3. /\ Records(next.registry, t) = (Records(saved.registry, t) \ {r}) \cup {q}
      /\ Count(next.registry, t) = c
      /\ Gapless(next.registry, t) <=> Gapless(saved.registry, t)
  <2>2. Changed(saved.registry, r, q, next.registry)
    BY <1>1, ChangedRecord, Zenon
  <2> QED BY <1>2, <2>2 DEF Changed
<1>4. from = RecoveredOrigin(next, t) /\ \A i : Imported(next, t, i) = Imported(saved, t, i)
  BY <1>1, SameImports
<1>5. \A k \in 1..n : now[k] = Imported(next, t, from[k])
  <2>1. \A k \in 1..n : here[k] = Imported(saved, t, from[k])
    BY DEF Laid
  <2> HIDE DEF n, c
  <2>2. \A k \in 1..n : k \in 1..Len(here) /\ k # at
    BY <1>1, <1>2 DEF n
  <2> QED BY <1>0, <1>4, <2>1, <2>2
<1>6. ASSUME Gapless(next.registry, t), NEW p \in Records(next.registry, t)
      PROVE  now[n + p.ordinal + 1] = p.item
  <2>1. CASE p = q
    BY <1>0, <1>3, <1>6, <2>1
  <2>2. CASE p \in Records(saved.registry, t) /\ p # r
    <3>1. here[n + p.ordinal + 1] = p.item
      BY <1>3, <1>6, <2>2 DEF Laid
    <3>2. p.ordinal < c /\ p.ordinal \in Nat
      BY <1>1, <1>3, <1>6, <2>2, GaplessIs
    <3>3. p.ordinal # r.ordinal
      <4>1. p \in saved.registry /\ p.tile = r.tile
        BY <1>2, <2>2 DEF Records
      <4> QED BY <1>1, <1>2, <2>2, <4>1, RegisteredParts
    <3> HIDE DEF n, c
    <3>4. n + p.ordinal + 1 \in 1..Len(here) /\ n + p.ordinal + 1 # at
      BY <1>1, <1>2, <3>2, <3>3 DEF n
    <3> QED BY <1>0, <3>1, <3>4
  <2> QED BY <1>3, <1>6, <2>1, <2>2
<1> QED
  BY <1>0, <1>1, <1>3, <1>4, <1>5, <1>6 DEF Laid

(* The place an item of the tail comes from when another one has left it. *)
Down(i, o) == IF i > o THEN i - 1 ELSE i

ComesFrom(n, c, o, i) ==
    /\ n + Down(i, o) + 1 \in 1..(n + c - 1)
    /\ Skip(n + o + 1, n + Down(i, o) + 1) = n + i + 1

LEMMA SkipsTaken ==
  ASSUME NEW n \in Nat, NEW c \in Nat, NEW o \in Nat, NEW i \in Nat, o < c, i < c, i # o
  PROVE  ComesFrom(n, c, o, i)
<1> USE DEF ComesFrom
<1>1. CASE i > o
  <2>1. Down(i, o) = i - 1
    BY <1>1 DEF Down
  <2> QED BY <1>1, <2>1 DEF Skip
<1>2. CASE ~ (i > o)
  <2>1. Down(i, o) = i /\ i < o
    BY <1>2 DEF Down
  <2> QED BY <2>1 DEF Skip
<1> QED
  BY <1>1, <1>2

(* The item of a record that is carried away. *)
LEMMA LaidTaken ==
  ASSUME NEW saved, Journaled(saved), NEW next, SameJournal(saved, next), NEW t \in Tiles,
         NEW here, NEW from, Laid(here, from, saved, t),
         NEW r \in Records(saved.registry, t), NEW at \in 1..Len(here),
         at = Len(from) + r.ordinal + 1,
         next.registry = Renumbered(saved.registry \ {r}, t, r.ordinal)
  PROVE  Laid(Without(here, {at}), from, next, t)
<1> DEFINE c == Count(saved.registry, t)
           n == Len(from)
           o == r.ordinal
           now == Without(here, {at})
<1>1. /\ here \in Seq(Item) /\ Len(here) \in Nat /\ n \in Nat /\ c \in Nat /\ Len(here) = n + c
      /\ from = RecoveredOrigin(saved, t) /\ Registered(saved.registry)
      /\ Len(here) <= Limit /\ DOMAIN here = 1..Len(here)
      /\ \A p \in Records(saved.registry, t) : p.ordinal \in Nat /\ p.tile = t
  BY LaidFields
<1>2. r \in saved.registry /\ r.tile = t /\ o \in Nat
  BY <1>1 DEF Records
<1>3. o < c /\ at = n + o + 1
  BY <1>1, <1>2
<1>4. /\ Records(next.registry, t) = {Lower(q, t, o) : q \in Records(saved.registry, t) \ {r}}
      /\ Count(next.registry, t) = c - 1
      /\ Gapless(next.registry, t) <=> Gapless(saved.registry, t)
  <2>1. Takes(saved.registry, r, next.registry)
    BY <1>2, <1>3 DEF Takes
  <2>2. Taken(saved.registry, r, next.registry)
    BY <1>1, <2>1, TakenRecords, Zenon
  <2> QED BY <1>2, <2>2 DEF Taken
<1>5. from = RecoveredOrigin(next, t) /\ \A i : Imported(next, t, i) = Imported(saved, t, i)
  BY <1>1, SameImports
<1>6. /\ now = [k \in 1..(n + c - 1) |-> here[Skip(at, k)]]
      /\ now \in Seq(Item) /\ Len(now) = n + c - 1
  <2>1. here \in Seq(Item) /\ at \in DOMAIN here
    BY <1>1
  <2>2. LeavesOut(here, at, now) /\ now \in Seq(Item)
    BY <2>1, WithoutOne, Zenon
  <2> HIDE DEF now, n, c
  <2> QED BY <1>1, <2>2 DEF LeavesOut
<1> HIDE DEF now
<1>7. \A k \in 1..n : now[k] = Imported(next, t, from[k])
  <2>1. \A k \in 1..n : here[k] = Imported(saved, t, from[k])
    BY DEF Laid
  <2>2. \A k \in 1..n : k \in 1..(n + c - 1) /\ Skip(at, k) = k
    <3> HIDE DEF n, c, o
    <3> QED BY <1>1, <1>2, <1>3 DEF Skip
  <2> HIDE DEF n, c
  <2> QED BY <1>5, <1>6, <2>1, <2>2
<1>8. ASSUME Gapless(next.registry, t), NEW p \in Records(next.registry, t)
      PROVE  now[n + p.ordinal + 1] = p.item
  <2>1. PICK q \in Records(saved.registry, t) \ {r} : p = Lower(q, t, o)
    BY <1>4
  <2>2. here[n + q.ordinal + 1] = q.item
    BY <1>4, <1>8 DEF Laid
  <2>3. q.ordinal < c /\ q.ordinal \in Nat /\ q.tile = t
    BY <1>1, <1>4, <1>8, GaplessIs
  <2>4. q.ordinal # o
    <3>1. q \in saved.registry /\ q.tile = r.tile
      BY <1>2 DEF Records
    <3> QED BY <1>1, <1>2, <3>1, RegisteredParts
  <2>5. p.item = q.item /\ p.ordinal = IF q.ordinal > o THEN q.ordinal - 1 ELSE q.ordinal
    <3>1. q \in Record
      BY <1>1, RegisteredParts
    <3> HIDE DEF o
    <3> QED BY <1>2, <2>1, <2>3, <3>1, LowerIs
  <2> DEFINE k == n + p.ordinal + 1
  <2>6. k \in 1..(n + c - 1) /\ Skip(at, k) = n + q.ordinal + 1
    <3> DEFINE i == q.ordinal
               j == p.ordinal
    <3>1. i \in Nat /\ i < c /\ i # o /\ j = Down(i, o)
      BY <2>3, <2>4, <2>5 DEF Down
    <3> HIDE DEF i, j, o, n, c
    <3>2. ComesFrom(n, c, o, i)
      <4>1. n \in Nat /\ c \in Nat /\ o \in Nat /\ i \in Nat
        BY <1>1, <1>2, <3>1
      <4>2. o < c /\ i < c /\ i # o
        BY <1>3, <3>1
      <4> QED BY <4>1, <4>2, SkipsTaken
    <3> QED BY <1>3, <3>1, <3>2 DEF i, j, ComesFrom
  <2>7. now[k] = here[Skip(at, k)]
    <3> HIDE DEF k, n, c
    <3> QED BY <1>6, <2>6
  <2> QED BY <2>2, <2>5, <2>6, <2>7
<1>9. Len(now) = n + Count(next.registry, t) /\ Len(now) <= Limit
  <2>1. Limit \in Nat
    BY GroundAssumption
  <2> HIDE DEF n, c
  <2> QED BY <1>1, <1>4, <1>6, <2>1
<1> HIDE DEF c
<1>10. Laid(now, from, next, t)
  BY <1>5, <1>6, <1>7, <1>8, <1>9 DEF Laid
<1> QED
  BY <1>10 DEF now

(* An imported stack of which only some is left. *)
Shrinks(saved, next, id, rest) ==
    /\ next.removed = saved.removed /\ next.registry = saved.registry
    /\ next.reduced = [i \in DOMAIN saved.reduced \cup {id} |->
                          IF i = id THEN rest ELSE saved.reduced[i]]

LEMMA LaidReduced ==
  ASSUME NEW saved, Journaled(saved), NEW next, NEW t \in Tiles,
         NEW here, NEW from, Laid(here, from, saved, t),
         NEW at \in 1..Len(from), NEW rest, Shrinks(saved, next, <<t, from[at]>>, rest),
         NEW now, Replaces(here, at, Plain(Source[t][from[at]].thing, rest), now)
  PROVE  Laid(now, from, next, t)
<1> SUFFICES ASSUME next.removed = saved.removed, next.registry = saved.registry,
                    next.reduced = [i \in DOMAIN saved.reduced \cup {<<t, from[at]>>} |->
                              IF i = <<t, from[at]>> THEN rest ELSE saved.reduced[i]],
                    now \in Seq(Item), Len(now) = Len(here),
                    now[at] = Plain(Source[t][from[at]].thing, rest),
                    \A k \in 1..Len(here) : k # at => now[k] = here[k]
             PROVE  Laid(now, from, next, t)
  BY DEF Shrinks, Replaces
<1> DEFINE c == Count(saved.registry, t)
           n == Len(from)
<1>1. /\ Len(here) \in Nat /\ n \in Nat /\ c \in Nat /\ Len(here) = n + c
      /\ from = RecoveredOrigin(saved, t) /\ Registered(saved.registry)
      /\ Len(here) <= Limit
      /\ \A j, k \in 1..n : from[j] = from[k] => j = k
      /\ \A p \in Records(saved.registry, t) : p.ordinal \in Nat /\ p.tile = t
  BY LaidFields
<1>2. LeftOf(next, t) = LeftOf(saved, t)
  BY DEF LeftOf
<1>3. from = RecoveredOrigin(next, t)
  BY <1>1, <1>2 DEF RecoveredOrigin
<1>4. Imported(next, t, from[at]) = Plain(Source[t][from[at]].thing, rest)
  BY DEF Imported
<1>5. \A i : i # from[at] => Imported(next, t, i) = Imported(saved, t, i)
  BY DEF Imported
<1>6. \A k \in 1..n : now[k] = Imported(next, t, from[k])
  <2>1. \A k \in 1..n : here[k] = Imported(saved, t, from[k]) /\ k \in 1..Len(here)
    <3>1. \A k \in 1..n : here[k] = Imported(saved, t, from[k])
      BY DEF Laid
    <3> HIDE DEF n, c
    <3>2. \A k \in 1..n : k \in 1..Len(here)
      BY <1>1
    <3> QED BY <3>1, <3>2
  <2>2. \A k \in 1..n : k # at => from[k] # from[at]
    BY <1>1
  <2> HIDE DEF n
  <2> QED BY <1>4, <1>5, <2>1, <2>2
<1>7. ASSUME Gapless(next.registry, t), NEW r \in Records(next.registry, t)
      PROVE  now[n + r.ordinal + 1] = r.item
  <2>1. here[n + r.ordinal + 1] = r.item
    BY <1>7 DEF Laid
  <2>2. r.ordinal < c /\ r.ordinal \in Nat
    BY <1>1, <1>7, GaplessIs
  <2>3. n + r.ordinal + 1 \in 1..Len(here) /\ n + r.ordinal + 1 # at
    <3>1. at <= n
      BY <1>1
    <3> HIDE DEF n, c
    <3> QED BY <1>1, <2>2, <3>1
  <2> QED BY <2>1, <2>3
<1> QED
  BY <1>1, <1>3, <1>6, <1>7 DEF Laid

(* An imported stack of which nothing is left. *)
Strikes(saved, next, id) ==
    /\ next.removed = saved.removed \cup {id} /\ next.registry = saved.registry
    /\ next.reduced = [i \in DOMAIN saved.reduced \ {id} |-> saved.reduced[i]]

LEMMA LaidRemoved ==
  ASSUME NEW saved, Journaled(saved), NEW next, NEW t \in Tiles,
         NEW here, NEW from, Laid(here, from, saved, t),
         NEW at \in 1..Len(from), Strikes(saved, next, <<t, from[at]>>)
  PROVE  Laid(Without(here, {at}), Without(from, {at}), next, t)
<1> SUFFICES ASSUME next.removed = saved.removed \cup {<<t, from[at]>>},
                    next.registry = saved.registry,
                    next.reduced = [i \in DOMAIN saved.reduced \ {<<t, from[at]>>} |->
                                       saved.reduced[i]]
             PROVE  Laid(Without(here, {at}), Without(from, {at}), next, t)
  BY DEF Strikes
<1> DEFINE c == Count(saved.registry, t)
           n == Len(from)
           S == LeftOf(saved, t)
           now == Without(here, {at})
           rest == Without(from, {at})
<1>1. /\ here \in Seq(Item) /\ DOMAIN here = 1..Len(here)
      /\ from \in Seq(Nat \ {0}) /\ DOMAIN from = 1..n
      /\ Len(here) \in Nat /\ n \in Nat /\ c \in Nat /\ Len(here) = n + c
      /\ from = RecoveredOrigin(saved, t) /\ Registered(saved.registry)
      /\ Len(here) <= Limit
      /\ \A j, k \in 1..n : from[j] = from[k] => j = k
      /\ \A p \in Records(saved.registry, t) : p.ordinal \in Nat /\ p.tile = t
  BY LaidFields
<1>2. LeftOf(next, t) = S \ {from[at]}
  BY DEF LeftOf
<1>3. RecoveredOrigin(next, t) = rest
  <2>1. S \subseteq Nat /\ IsFiniteSet(S) /\ from = Ordered(S)
    BY <1>1, OriginIs DEF RecoveredOrigin
  <2>2. at \in DOMAIN Ordered(S)
    BY <1>1, <2>1
  <2> HIDE DEF S
  <2>3. Ordered(S \ {Ordered(S)[at]}) = Without(Ordered(S), {at})
    BY <2>1, <2>2, OrderedLess
  <2> QED BY <1>2, <2>1, <2>3 DEF RecoveredOrigin
<1>4. \A i : i # from[at] => Imported(next, t, i) = Imported(saved, t, i)
  BY DEF Imported
<1>5. /\ now = [k \in 1..(n + c - 1) |-> here[Skip(at, k)]]
      /\ now \in Seq(Item) /\ Len(now) = n + c - 1
  <2>1. at \in DOMAIN here
    <3>1. at \in Nat /\ at >= 1 /\ at <= n
      BY <1>1
    <3> HIDE DEF n, c
    <3> QED BY <1>1, <3>1
  <2>2. here \in Seq(Item)
    BY <1>1
  <2>3. LeavesOut(here, at, now) /\ now \in Seq(Item)
    BY <2>1, <2>2, WithoutOne, Zenon
  <2> HIDE DEF now, n, c
  <2> QED BY <1>1, <2>3 DEF LeavesOut
<1>6. /\ rest = [k \in 1..(n - 1) |-> from[Skip(at, k)]] /\ Len(rest) = n - 1
  <2>1. at \in DOMAIN from /\ from \in Seq(Nat \ {0})
    BY <1>1
  <2>2. LeavesOut(from, at, rest)
    BY <2>1, WithoutOne, Zenon
  <2> QED BY <2>2 DEF LeavesOut
<1>7. at \in Nat /\ at >= 1 /\ at <= n
  BY <1>1
<1> HIDE DEF now, rest
<1>8. \A k \in 1..Len(rest) : now[k] = Imported(next, t, rest[k])
  <2>1. \A k \in 1..n : here[k] = Imported(saved, t, from[k])
    BY DEF Laid
  <2> HIDE DEF n, c
  <2>2. ASSUME NEW k \in 1..(n - 1)
        PROVE  now[k] = Imported(next, t, rest[k])
    <3>1. Skip(at, k) \in 1..n /\ Skip(at, k) # at /\ k \in 1..(n + c - 1)
      BY <1>1, <1>7 DEF Skip
    <3>2. from[Skip(at, k)] # from[at]
      BY <1>1, <3>1 DEF n
    <3>3. now[k] = here[Skip(at, k)] /\ rest[k] = from[Skip(at, k)]
      BY <1>5, <1>6, <3>1
    <3> QED BY <1>4, <2>1, <3>1, <3>2, <3>3, Zenon
  <2> QED BY <1>6, <2>2
<1>9. ASSUME Gapless(next.registry, t), NEW r \in Records(next.registry, t)
      PROVE  now[Len(rest) + r.ordinal + 1] = r.item
  <2>1. here[n + r.ordinal + 1] = r.item
    BY <1>9 DEF Laid
  <2>2. r.ordinal < c /\ r.ordinal \in Nat
    BY <1>1, <1>9, GaplessIs
  <2> DEFINE k == Len(rest) + r.ordinal + 1
  <2>3. k \in 1..(n + c - 1) /\ Skip(at, k) = n + r.ordinal + 1
    <3> DEFINE i == r.ordinal
    <3>1. i \in Nat /\ i < c /\ k = Len(rest) + i + 1
      BY <2>2
    <3> HIDE DEF n, c, i, k
    <3>2. k = n + i /\ k \in 1..(n + c - 1) /\ ~ (k < at)
      BY <1>1, <1>6, <1>7, <3>1
    <3> QED BY <3>2 DEF Skip, i
  <2>4. now[k] = here[Skip(at, k)]
    <3> HIDE DEF k, n, c
    <3> QED BY <1>5, <2>3
  <2> QED BY <2>1, <2>3, <2>4
<1>10. Len(now) = Len(rest) + c /\ Len(now) <= Limit
  <2>1. Limit \in Nat
    BY GroundAssumption
  <2>2. /\ Len(now) = n + c - 1 /\ Len(rest) = n - 1
        /\ n \in Nat /\ c \in Nat /\ n + c <= Limit
    BY <1>1, <1>5, <1>6
  <2> HIDE DEF n, c
  <2> QED BY <2>1, <2>2
<1>11. Laid(now, rest, next, t)
  BY <1>3, <1>5, <1>8, <1>9, <1>10 DEF Laid
<1> QED
  BY <1>11 DEF now, rest

(* Records that decay, those above them keeping their ordinals. *)
LEMMA LaidDecayed ==
  ASSUME NEW saved, Journaled(saved), NEW next, SameJournal(saved, next), NEW t \in Tiles,
         NEW here, NEW from, Laid(here, from, saved, t),
         NEW gone \in SUBSET saved.registry, next.registry = saved.registry \ gone,
         NEW places, places = {Len(from) + r.ordinal + 1 : r \in Records(gone, t)},
         places \subseteq DOMAIN here
  PROVE  Laid(Without(here, places), from, next, t)
<1> DEFINE c == Count(saved.registry, t)
           n == Len(from)
           G == Records(gone, t)
           e == Count(gone, t)
           now == Without(here, places)
<1>1. /\ here \in Seq(Item) /\ DOMAIN here = 1..Len(here)
      /\ Len(here) \in Nat /\ n \in Nat /\ c \in Nat /\ Len(here) = n + c
      /\ from = RecoveredOrigin(saved, t) /\ Registered(saved.registry)
      /\ Len(here) <= Limit
      /\ \A p \in Records(saved.registry, t) : p.ordinal \in Nat /\ p.tile = t
  BY LaidFields
<1>2. /\ Records(next.registry, t) = Records(saved.registry, t) \ gone
      /\ Count(next.registry, t) = c - e /\ e \in Nat /\ e <= c
      /\ (\A r \in G : r.ordinal < c) =>
               (Gapless(next.registry, t) => Gapless(saved.registry, t))
  <2> DEFINE reg == saved.registry
  <2>1. Registered(reg) /\ gone \in SUBSET reg /\ next.registry = reg \ gone
    BY <1>1
  <2> HIDE DEF reg
  <2>2. Survives(reg, gone, reg \ gone, t)
    BY <2>1, SurvivingRecords, Zenon
  <2> QED BY <2>1, <2>2 DEF reg, Survives
<1>3. \A r \in G : r \in Records(saved.registry, t) /\ r.ordinal \in Nat
  BY <1>1 DEF Records
<1>4. \A r \in G : r.ordinal < c /\ n + r.ordinal + 1 \in places
  <2> HIDE DEF n, c, G
  <2>1. \A r \in G : n + r.ordinal + 1 \in places
    BY DEF n, G
  <2>2. \A r \in G : n + r.ordinal + 1 \in 1..(n + c)
    BY <1>1, <2>1
  <2> QED BY <1>1, <1>3, <2>1, <2>2
<1>5. \A k \in 1..n : k \notin places
  <2> HIDE DEF c
  <2>1. ASSUME NEW k \in places
        PROVE  k \notin 1..n
    <3>1. PICK r \in G : k = n + r.ordinal + 1
      OBVIOUS
    <3> HIDE DEF n, G
    <3> QED BY <1>1, <1>3, <3>1
  <2> QED BY <2>1
<1>6. /\ now \in Seq(Item) /\ Len(now) = Cardinality((1..Len(here)) \ places)
      /\ \A m \in 0..Len(here) :
            (\A k \in 1..m : k \notin places) =>
               m <= Len(now) /\ \A k \in 1..m : now[k] = here[k]
  <2>1. here \in Seq(Item)
    BY <1>1
  <2>2. Keeps(here, places, now) /\ now \in Seq(Item)
    BY <2>1, WithoutIs, Zenon
  <2> QED BY <2>2 DEF Keeps
<1> HIDE DEF now
<1>7. Cardinality(places) = e
  <2> DEFINE f == [r \in G |-> n + r.ordinal + 1]
  <2>1. \A r, q \in G : r.ordinal = q.ordinal => r = q
    <3>1. \A r, q \in G : r \in saved.registry /\ q \in saved.registry /\ r.tile = q.tile
      BY DEF Records
    <3> HIDE DEF G
    <3> QED BY <1>1, <3>1, RegisteredParts
  <2>2. places = {n + r.ordinal + 1 : r \in G}
    OBVIOUS
  <2>3. IsFiniteSet(G)
    <3>1. G \in SUBSET Records(saved.registry, t) /\ IsFiniteSet(Records(saved.registry, t))
      BY <1>1, <1>3, RegisteredParts
    <3> QED BY <3>1, FS_Subset
  <2> HIDE DEF n, G
  <2>4. \A r, q \in G : n + r.ordinal + 1 = n + q.ordinal + 1 => r = q
    BY <1>1, <1>3, <2>1
  <2>5. f \in Bijection(G, places)
    BY <2>2, <2>4 DEF Bijection, Injection, Surjection, IsInjective
  <2>6. ExistsBijection(G, places)
    BY <2>5 DEF ExistsBijection
  <2>7. Cardinality(places) = Cardinality(G)
    BY <2>3, <2>6, FS_Bijection
  <2>8. Cardinality(G) = e
    BY DEF Count, G
  <2> QED BY <2>7, <2>8
<1>8. Len(now) = n + (c - e)
  <2> DEFINE D == 1..Len(here)
  <2>1. IsFiniteSet(D) /\ Cardinality(D) = Len(here) /\ D \cap places = places
    <3>1. IsFiniteSet(D) /\ Cardinality(D) = Len(here)
      BY <1>1, FS_Interval
    <3> QED BY <1>1, <3>1
  <2> HIDE DEF D
  <2>2. Cardinality(D \ places) = Cardinality(D) - Cardinality(D \cap places)
    BY <2>1, FS_Difference
  <2>3. Len(now) = Cardinality(D \ places)
    BY <1>6 DEF D
  <2>4. Cardinality(D \ places) = Len(here) - Cardinality(places)
    BY <2>1, <2>2, Zenon
  <2>5. Len(now) = Len(here) - e
    BY <1>7, <2>3, <2>4, Zenon
  <2>6. Len(here) = n + c /\ n \in Nat /\ c \in Nat /\ e \in Nat
    BY <1>1, <1>2
  <2> HIDE DEF n, c, e
  <2> QED BY <2>5, <2>6
<1>9. from = RecoveredOrigin(next, t) /\ \A i : Imported(next, t, i) = Imported(saved, t, i)
  BY <1>1, SameImports
<1>10. \A k \in 1..n : now[k] = Imported(next, t, from[k])
  <2>1. \A k \in 1..n : here[k] = Imported(saved, t, from[k])
    BY DEF Laid
  <2>2. n \in 0..Len(here)
    <3> HIDE DEF n, c
    <3> QED BY <1>1
  <2> HIDE DEF n
  <2>3. \A k \in 1..n : now[k] = here[k]
    BY <1>5, <1>6, <2>2
  <2> QED BY <1>9, <2>1, <2>3
<1>11. ASSUME Gapless(next.registry, t), NEW r \in Records(next.registry, t)
       PROVE  now[n + r.ordinal + 1] = r.item
  <2>1. Gapless(saved.registry, t)
    <3> HIDE DEF c, n, G
    <3> QED BY <1>2, <1>4, <1>11
  <2>2. r \in Records(saved.registry, t)
    BY <1>2, <1>11
  <2>3. here[n + r.ordinal + 1] = r.item
    BY <2>1, <2>2 DEF Laid
  <2>4. Registered(next.registry)
    <3>1. Registered(saved.registry)
      BY <1>1
    <3>2. Survives(saved.registry, gone, saved.registry \ gone, t)
      BY <3>1, SurvivingRecords, Zenon
    <3> QED BY <3>2 DEF Survives
  <2>5. \A q \in Records(next.registry, t) : q.ordinal < c - e
    BY <1>2, <1>11, <2>4, GaplessIs
  <2> DEFINE m == n + (c - e)
  <2>6. m \in 0..Len(here)
    <3> HIDE DEF n, c, e
    <3> QED BY <1>1, <1>2
  <2>7. ASSUME NEW k \in 1..m, k \in places
        PROVE  FALSE
    <3>1. PICK q \in G : k = n + q.ordinal + 1
      BY <2>7
    <3>2. q.ordinal \in Nat /\ q.ordinal < c - e
      <4> HIDE DEF n, c, e, G
      <4>1. q.ordinal \in Nat
        BY <1>3
      <4>2. n + q.ordinal + 1 <= n + (c - e)
        BY <1>1, <1>2, <3>1 DEF m
      <4> QED BY <1>1, <1>2, <4>1, <4>2
    <3>3. \E p \in Records(next.registry, t) : p.ordinal = q.ordinal
      <4>1. Ordinals(next.registry, t) = 0..((c - e) - 1)
        BY <1>2, <1>11 DEF Gapless, Count
      <4>2. q.ordinal \in 0..((c - e) - 1)
        <5> DEFINE i == q.ordinal
        <5> HIDE DEF c, e, i
        <5> QED BY <1>1, <1>2, <3>2 DEF i
      <4>3. q.ordinal \in Ordinals(next.registry, t)
        BY <4>1, <4>2
      <4> QED BY <4>3 DEF Ordinals
    <3>4. PICK p \in Records(next.registry, t) : p.ordinal = q.ordinal
      BY <3>3
    <3>5. p \in saved.registry /\ p \notin gone /\ q \in saved.registry /\ q \in gone
          /\ p.tile = q.tile
      BY <1>2 DEF Records
    <3>6. p = q
      BY <1>1, <3>4, <3>5, RegisteredParts
    <3> QED BY <3>5, <3>6
  <2>8. \A k \in 1..m : now[k] = here[k]
    <3> HIDE DEF m
    <3> QED BY <1>6, <2>6, <2>7
  <2>9. n + r.ordinal + 1 \in 1..m
    <3> DEFINE i == r.ordinal
    <3>1. i \in Nat /\ i < c - e
      BY <1>1, <1>11, <2>2, <2>5
    <3> HIDE DEF n, c, e, i
    <3>2. n + i + 1 \in 1..m
      BY <1>1, <1>2, <3>1
    <3> QED BY <3>2 DEF i
  <2> QED BY <2>3, <2>8, <2>9
<1>12. Len(now) <= Limit
  <2>1. Limit \in Nat
    BY GroundAssumption
  <2> HIDE DEF n, c, e
  <2> QED BY <1>1, <1>2, <1>8, <2>1
<1> HIDE DEF c, e
<1>13. Laid(now, from, next, t)
  BY <1>2, <1>6, <1>8, <1>9, <1>10, <1>11, <1>12 DEF Laid
<1> QED
  BY <1>13 DEF now

(* A gap is left by a record that decays below another one. *)
LeftBelow(reg, gone, t) ==
    \E r \in gone, q \in reg \ gone : r.tile = t /\ q.tile = t /\ r.ordinal < q.ordinal

LEMMA GapBelow ==
  ASSUME NEW reg, Registered(reg), NEW gone \in SUBSET reg, NEW t,
         Gapless(reg, t), ~ Gapless(reg \ gone, t)
  PROVE  LeftBelow(reg, gone, t)
<1> DEFINE now == reg \ gone
           O == Ordinals(now, t)
           c == Count(now, t)
<1>1. Registered(now)
  <2>1. Survives(reg, gone, now, t)
    BY SurvivingRecords, Zenon
  <2> QED BY <2>1 DEF Survives
<1>2. \A r \in reg : r.ordinal \in Nat
  BY RegisteredParts
<1>3. IsFiniteSet(O) /\ Cardinality(O) = c /\ c \in Nat
  <2> HIDE DEF now
  <2> QED BY <1>1, OrdinalsCount, RegisteredParts
<1>4. PICK q \in Records(now, t) : ~ (q.ordinal < c)
  <2> HIDE DEF now
  <2>1. ~ Gapless(now, t)
    BY DEF now
  <2> QED BY <1>1, <2>1, GaplessIs
<1>5. q \in reg \ gone /\ q.tile = t /\ q.ordinal \in Nat
  BY <1>2 DEF Records
<1>6. ASSUME \A r \in gone : r.tile = t => ~ (r.ordinal < q.ordinal)
      PROVE  FALSE
  <2>1. ASSUME NEW x \in 0..q.ordinal
        PROVE  x \in O
    <3>1. CASE x = q.ordinal
      BY <3>1 DEF Ordinals
    <3>2. CASE x # q.ordinal
      <4>1. q.ordinal \in Ordinals(reg, t)
        BY <1>5 DEF Ordinals, Records
      <4>2. q.ordinal \in 0..(Cardinality(Records(reg, t)) - 1)
        BY <4>1 DEF Gapless
      <4>3. x \in 0..(Cardinality(Records(reg, t)) - 1) /\ x < q.ordinal
        <5>1. Cardinality(Records(reg, t)) \in Nat
          BY RegisteredParts DEF Count
        <5> QED BY <1>5, <3>2, <4>2, <5>1
      <4>4. x \in Ordinals(reg, t)
        BY <4>3 DEF Gapless
      <4>5. PICK r \in Records(reg, t) : r.ordinal = x
        BY <4>4 DEF Ordinals
      <4>6. r \in reg /\ r.tile = t /\ r \notin gone
        BY <1>6, <4>3, <4>5 DEF Records
      <4> QED BY <4>5, <4>6 DEF Ordinals, Records
    <3> QED BY <3>1, <3>2
  <2> HIDE DEF O, c, now
  <2>2. IsFiniteSet(0..q.ordinal) /\ Cardinality(0..q.ordinal) = q.ordinal + 1
    BY <1>5, FS_Interval
  <2>3. 0..q.ordinal \in SUBSET O
    BY <2>1
  <2>4. Cardinality(0..q.ordinal) <= Cardinality(O)
    BY <1>3, <2>3, FS_Subset
  <2> DEFINE i == q.ordinal
  <2>5. i \in Nat /\ i + 1 <= c /\ ~ (i < c)
    BY <1>3, <1>4, <1>5, <2>2, <2>4
  <2> HIDE DEF i
  <2> QED BY <1>3, <2>5
<1>7. PICK r \in gone : r.tile = t /\ r.ordinal < q.ordinal
  BY <1>6
<1> QED
  BY <1>5, <1>7 DEF LeftBelow

----------------------------------------------------------------------------
(* The inductive invariant *)

Stored == [removed |-> removed, reduced |-> reduced, registry |-> registry, goods |-> goods]

(* What is in memory is on disk, and lies on the tiles. *)
MapInv ==
    /\ disk = Stored
    /\ Journaled(disk)
    /\ ground \in [Tiles -> Seq(Item)]
    /\ origin \in [Tiles -> Seq(Nat \ {0})]
    /\ goods \in [Players -> [Carried -> Nat]]
    /\ \A t \in Tiles : Laid(ground[t], origin[t], disk, t)

Others ==
    /\ aim \in [Players -> Aim \cup {NoAim}]
    /\ clock \in 0..MaxTicks
    /\ beat \in {"tick", "decay", "ended"}
    /\ server \in {"up", "refused"}
    /\ spent \in [Bounded -> Nat]

GroundInv == MapInv /\ Others

(* An action opens no gap in the ordinals of a tile. *)
NoGap == \A t \in Tiles : Gapless(registry, t) => Gapless(registry', t)

LEMMA InvTypes ==
  ASSUME GroundInv
  PROVE  TypeOK
<1>1. /\ disk = Stored /\ disk.removed \subseteq Identities
      /\ DOMAIN disk.reduced \subseteq Identities
      /\ \A id \in DOMAIN disk.reduced : disk.reduced[id] \in Nat \ {0}
      /\ disk.registry \subseteq Record /\ Cardinality(disk.registry) <= MaxRecords
  BY DEF GroundInv, MapInv, Journaled, Registered, Valid
<1>2. /\ DOMAIN disk = {"removed", "reduced", "registry", "goods"}
      /\ disk.goods \in [Players -> [Carried -> Nat]]
  BY <1>1 DEF Stored, GroundInv, MapInv
<1>3. Tables(disk)
  BY <1>1, <1>2 DEF Tables
<1>4. Tables([removed |-> removed, reduced |-> reduced, registry |-> registry, goods |-> goods])
  BY <1>1, <1>3, Zenon DEF Stored
<1>5. \A t \in Tiles : Len(ground[t]) <= Limit
  BY DEF GroundInv, MapInv, Laid
<1> QED
  BY <1>3, <1>4, <1>5 DEF GroundInv, MapInv, Others, TypeOK

LEMMA StoredFields ==
  ASSUME disk = Stored
  PROVE  /\ disk.removed = removed /\ disk.reduced = reduced
         /\ disk.registry = registry /\ disk.goods = goods
BY DEF Stored

LEMMA InvRestores ==
  ASSUME GroundInv
  PROVE  DiskRestoresTheGround
<1>1. /\ disk = Stored /\ Journaled(disk)
      /\ \A t \in Tiles : Laid(ground[t], origin[t], disk, t)
  BY DEF GroundInv, MapInv
<1>2. disk.goods = goods
  BY <1>1, StoredFields
<1>3. \A t \in Tiles : Gapless(disk.registry, t) =>
         RecoveredTile(disk, t) = ground[t] /\ RecoveredOrigin(disk, t) = origin[t]
  BY <1>1, LaidRecovers
<1>4. (\A t \in Tiles : Gapless(disk.registry, t)) => Recoverable(disk)
  BY <1>1, LaidRecoverable
<1> QED
  BY <1>2, <1>3, <1>4 DEF DiskRestoresTheGround

LEMMA EmptyIs ==
  /\ Journaled(Empty) /\ Empty.registry = {}
  /\ Empty.removed = {} /\ Empty.reduced = <<>>
  /\ Empty.goods \in [Players -> [Carried -> Nat]]
<1>1. /\ Empty.registry = {} /\ Empty.removed = {} /\ Empty.reduced = <<>>
      /\ Empty.goods = [p \in Players |-> [x \in Carried |->
                           IF x = Corpse THEN 0 ELSE Stock[p][x]]]
  BY DEF Empty
<1>2. Registered({})
  BY NoRecords
<1>3. Journaled(Empty)
  BY <1>1, <1>2 DEF Journaled
<1>4. ASSUME NEW p \in Players, NEW x \in Carried
      PROVE  (IF x = Corpse THEN 0 ELSE Stock[p][x]) \in Nat
  BY GroundAssumption DEF Carried
<1>5. Empty.goods \in [Players -> [Carried -> Nat]]
  BY <1>1, <1>4
<1> QED
  BY <1>1, <1>3, <1>5

LEMMA GroundStarts == Init => GroundInv
<1> SUFFICES ASSUME Init PROVE GroundInv
  OBVIOUS
<1>1. disk = Stored
  BY DEF Init, Stored, Empty
<1>2. Journaled(disk) /\ disk.registry = {} /\ goods \in [Players -> [Carried -> Nat]]
  BY EmptyIs DEF Init
<1>3. ASSUME NEW t \in Tiles
      PROVE  Laid(ground[t], origin[t], disk, t)
  <2>1. Laid(RecoveredTile(disk, t), RecoveredOrigin(disk, t), disk, t)
    BY <1>2, LaidAtFirst
  <2>2. ground[t] = RecoveredTile(disk, t) /\ origin[t] = RecoveredOrigin(disk, t)
    BY DEF Init
  <2> QED BY <2>1, <2>2, Zenon
<1>4. \A t \in Tiles : ground[t] \in Seq(Item) /\ origin[t] \in Seq(Nat \ {0})
  BY <1>2, <1>3, LaidFields
<1>5. ground \in [Tiles -> Seq(Item)] /\ origin \in [Tiles -> Seq(Nat \ {0})]
  BY <1>4 DEF Init
<1>6. Others
  <2>1. 0 \in 0..MaxTicks
    BY GroundAssumption
  <2> QED BY <2>1 DEF Init, Others
<1> QED
  BY <1>1, <1>2, <1>3, <1>5, <1>6 DEF GroundInv, MapInv

(* The tail of a tile begins behind its imported stacks. *)
LEMMA TailIs ==
  ASSUME MapInv, NEW t \in Tiles
  PROVE  TailStart(t) = Len(origin[t])
<1>1. disk.registry = registry /\ Journaled(disk) /\ Laid(ground[t], origin[t], disk, t)
  BY StoredFields DEF MapInv
<1>2. /\ Len(ground[t]) = Len(origin[t]) + Count(registry, t)
      /\ Len(origin[t]) \in Nat /\ Count(registry, t) \in Nat
  BY <1>1, LaidFields
<1>3. TailStart(t) = IF Count(registry, t) > Len(ground[t]) THEN 0
                     ELSE Len(ground[t]) - Count(registry, t)
  BY DEF TailStart, Count
<1> QED
  BY <1>2, <1>3

LEMMA PlaceIs ==
  ASSUME MapInv, NEW r \in Record
  PROVE  Place(r) = Len(origin[r.tile]) + r.ordinal + 1
BY TailIs, RecordFields DEF Place

(* Where neither memory nor disk changes. *)
LEMMA MapKept ==
  ASSUME MapInv, UNCHANGED <<memory, disk>>
  PROVE  MapInv' /\ NoGap
<1>1. /\ ground' = ground /\ origin' = origin /\ removed' = removed /\ reduced' = reduced
      /\ registry' = registry /\ goods' = goods /\ disk' = disk
  BY DEF memory
<1> QED
  BY <1>1 DEF MapInv, Stored, NoGap

LEMMA Spends ==
  ASSUME NEW b \in Bounded, NEW bound, Spend(b, bound), spent \in [Bounded -> Nat]
  PROVE  spent' \in [Bounded -> Nat]
<1>1. spent[b] + 1 \in Nat
  OBVIOUS
<1> QED
  BY <1>1 DEF Spend

LEMMA GainsTyped ==
  ASSUME NEW p \in Players, NEW x \in Carried, NEW n \in Nat, Gains(p, x, n),
         goods \in [Players -> [Carried -> Nat]]
  PROVE  goods' \in [Players -> [Carried -> Nat]]
<1>1. goods[p][x] + n \in Nat
  OBVIOUS
<1> QED
  BY <1>1 DEF Gains

(* Where one tile changes. *)
Elsewhere(saved, next, t) ==
    \A u \in Tiles : u # t =>
       /\ LeftOf(next, u) = LeftOf(saved, u)
       /\ \A i \in LeftOf(saved, u) : Imported(next, u, i) = Imported(saved, u, i)
       /\ Records(next.registry, u) = Records(saved.registry, u)

LEMMA TileChanged ==
  ASSUME MapInv, NEW t \in Tiles, NEW now, NEW rest,
         ground' = [ground EXCEPT ![t] = now], origin' = [origin EXCEPT ![t] = rest],
         goods' \in [Players -> [Carried -> Nat]],
         disk' = Stored', Journaled(disk'), Elsewhere(disk, disk', t),
         Laid(now, rest, disk', t)
  PROVE  MapInv'
<1> DEFINE next == disk'
<1>1. now \in Seq(Item) /\ rest \in Seq(Nat \ {0})
  <2>1. Journaled(next) /\ Laid(now, rest, next, t)
    OBVIOUS
  <2> HIDE DEF next
  <2> QED BY <2>1, LaidFields
<1>2. ground' \in [Tiles -> Seq(Item)] /\ origin' \in [Tiles -> Seq(Nat \ {0})]
  BY <1>1 DEF MapInv
<1>3. ASSUME NEW u \in Tiles
      PROVE  Laid(ground'[u], origin'[u], next, u)
  <2>1. CASE u = t
    <3>1. ground'[u] = now /\ origin'[u] = rest
      BY <2>1 DEF MapInv
    <3> QED BY <2>1, <3>1
  <2>2. CASE u # t
    <3>1. ground'[u] = ground[u] /\ origin'[u] = origin[u]
      BY <2>2 DEF MapInv
    <3>2. Laid(ground[u], origin[u], disk, u)
      BY DEF MapInv
    <3>3. /\ LeftOf(next, u) = LeftOf(disk, u)
          /\ \A i \in LeftOf(disk, u) : Imported(next, u, i) = Imported(disk, u, i)
          /\ Records(next.registry, u) = Records(disk.registry, u)
      BY <2>2 DEF Elsewhere
    <3> HIDE DEF next
    <3>4. Laid(ground[u], origin[u], next, u)
      BY <3>2, <3>3, LaidElsewhere
    <3> QED BY <3>1, <3>4
  <2> QED BY <2>1, <2>2
<1> QED
  BY <1>2, <1>3 DEF MapInv

(* The journal and the registry agree with memory where the former is kept. *)
LEMMA SameJournalKept ==
  ASSUME MapInv, disk' = Stored', removed' = removed, reduced' = reduced, Registered(registry')
  PROVE  /\ Journaled(disk') /\ SameJournal(disk, disk')
         /\ disk.registry = registry /\ disk'.registry = registry'
<1>1. /\ disk.removed = removed /\ disk.reduced = reduced /\ disk.registry = registry
      /\ Journaled(disk)
  BY StoredFields DEF MapInv
<1>2. /\ disk'.removed = removed' /\ disk'.reduced = reduced' /\ disk'.registry = registry'
  BY DEF Stored
<1>3. SameJournal(disk, disk')
  BY <1>1, <1>2 DEF SameJournal
<1>4. disk'.removed = disk.removed /\ disk'.reduced = disk.reduced
  BY <1>1, <1>2
<1> DEFINE next == disk'
<1>5. Journaled(next)
  <2>1. Registered(next.registry) /\ next.removed = disk.removed /\ next.reduced = disk.reduced
    BY <1>2, <1>4
  <2> HIDE DEF next
  <2> QED BY <1>1, <2>1 DEF Journaled
<1> QED
  BY <1>1, <1>2, <1>3, <1>5

----------------------------------------------------------------------------
(* One lemma per kind of change *)

LEMMA ElsewhereKept ==
  ASSUME NEW saved, NEW next, SameJournal(saved, next), NEW t,
         \A u : u # t => Records(next.registry, u) = Records(saved.registry, u)
  PROVE  Elsewhere(saved, next, t)
<1>1. \A u : LeftOf(next, u) = LeftOf(saved, u)
             /\ \A i : Imported(next, u, i) = Imported(saved, u, i)
  BY SameImports
<1> QED
  BY <1>1 DEF Elsewhere

LEMMA OriginKept ==
  ASSUME MapInv, origin' = origin, NEW t \in Tiles
  PROVE  origin' = [origin EXCEPT ![t] = origin[t]]
BY DEF MapInv

LEMMA NoGapElsewhere ==
  ASSUME NEW t, \A u : u # t => Records(registry', u) = Records(registry, u),
         Gapless(registry, t) => Gapless(registry', t)
  PROVE  NoGap
<1>1. \A u : u # t => (Gapless(registry', u) <=> Gapless(registry, u))
  BY DEF Gapless, Ordinals
<1> QED
  BY <1>1 DEF NoGap

(* Something is put on top of a tile. *)
LEMMA AppendKeeps ==
  ASSUME MapInv, NEW t \in Tiles, NEW item \in Item, NEW due \in Nat \cup {Never},
         Appends(t, item, due), removed' = removed, reduced' = reduced, origin' = origin,
         disk' = Stored', goods' \in [Players -> [Carried -> Nat]]
  PROVE  MapInv' /\ NoGap
<1> DEFINE r == Appended(t, item, due)
           next == disk'
           now == Append(ground[t], r.item)
<1>1. /\ disk.registry = registry /\ Journaled(disk) /\ Laid(ground[t], origin[t], disk, t)
  BY StoredFields DEF MapInv
<1>2. Registered(registry) /\ Count(registry, t) \in Nat
  BY <1>1, LaidFields
<1>3. /\ r \in Record /\ r.tile = t /\ r.ordinal = Count(registry, t) /\ r.item = item
  BY <1>2 DEF Appended, Record, Count
<1>4. /\ Len(ground[t]) < Limit /\ Valid(registry \cup {r}) /\ r \notin registry
      /\ registry' = registry \cup {r} /\ ground' = [ground EXCEPT ![t] = Append(@, item)]
  BY DEF Appends
<1> HIDE DEF r
<1>5. /\ Registered(registry \cup {r})
      /\ \A u : u # r.tile => Records(registry \cup {r}, u) = Records(registry, u)
      /\ Gapless(registry \cup {r}, r.tile) <=> Gapless(registry, r.tile)
  BY <1>2, <1>3, <1>4, AppendedRecords
<1>6. /\ Registered(registry') /\ \A u : u # t => Records(registry', u) = Records(registry, u)
      /\ Gapless(registry, t) => Gapless(registry', t)
  BY <1>3, <1>4, <1>5
<1>7. NoGap
  BY <1>6, NoGapElsewhere
<1>8. Journaled(next) /\ SameJournal(disk, next) /\ next.registry = registry'
  BY <1>6, SameJournalKept
<1>9. Elsewhere(disk, next, t)
  <2>1. \A u : u # t => Records(next.registry, u) = Records(disk.registry, u)
    BY <1>1, <1>6, <1>8
  <2> HIDE DEF next
  <2> QED BY <1>8, <2>1, ElsewhereKept
<1>10. Laid(now, origin[t], next, t)
  <2>1. next.registry = disk.registry \cup {r}
    BY <1>1, <1>4, <1>8
  <2>2. /\ r.ordinal = Count(disk.registry, t) /\ r \notin disk.registry
        /\ Valid(disk.registry \cup {r})
    BY <1>1, <1>3, <1>4
  <2> HIDE DEF next
  <2> QED BY <1>1, <1>3, <1>4, <1>8, <2>1, <2>2, LaidAppended
<1>11. ground' = [ground EXCEPT ![t] = now]
  BY <1>3, <1>4 DEF MapInv
<1>12. origin' = [origin EXCEPT ![t] = origin[t]]
  BY OriginKept
<1> HIDE DEF now
<1> QED
  BY <1>7, <1>8, <1>9, <1>10, <1>11, <1>12, TileChanged

(* What a session finds at a place of the tail. *)
LEMMA FoundIs ==
  ASSUME MapInv, NEW t \in Tiles, NEW at, NEW r \in registry, Found(t, at, r)
  PROVE  /\ disk.registry = registry /\ Journaled(disk) /\ Registered(registry)
         /\ Laid(ground[t], origin[t], disk, t)
         /\ at \in 1..Len(ground[t]) /\ ground[t][at] \in Item /\ ground[t] \in Seq(Item)
         /\ r \in Record /\ r \in Records(registry, t) /\ r.tile = t
         /\ at = Len(origin[t]) + r.ordinal + 1
         /\ r.ordinal < Count(registry, t)
         /\ Gapless(registry, t) => ground[t][at] = r.item
<1>1. /\ disk.registry = registry /\ Journaled(disk) /\ Laid(ground[t], origin[t], disk, t)
  BY StoredFields DEF MapInv
<1>2. at \in DOMAIN ground[t] /\ r \in Records(registry, t) /\ Place(r) = at
  BY DEF Found
<1>3. /\ Registered(registry) /\ DOMAIN ground[t] = 1..Len(ground[t])
      /\ \A k \in 1..Len(ground[t]) : ground[t][k] \in Item
      /\ ground[t] \in Seq(Item)
      /\ Len(ground[t]) = Len(origin[t]) + Count(registry, t)
      /\ Len(origin[t]) \in Nat /\ Count(registry, t) \in Nat
  BY <1>1, LaidFields
<1>4. r \in Record /\ r.tile = t
  BY <1>2, <1>3 DEF Registered, Records
<1>5. at = Len(origin[t]) + r.ordinal + 1 /\ r.ordinal \in Nat
  BY <1>2, <1>4, PlaceIs, RecordFields
<1>6. r.ordinal < Count(registry, t)
  <2>1. at \in 1..Len(ground[t])
    BY <1>2, <1>3
  <2> QED BY <1>3, <1>5, <2>1
<1>7. Gapless(registry, t) => ground[t][at] = r.item
  BY <1>1, <1>2, <1>5 DEF Laid
<1> QED
  BY <1>1, <1>2, <1>3, <1>4, <1>5, <1>6, <1>7

(* The item of a record changes. *)
LEMMA ChangeKeeps ==
  ASSUME MapInv, NEW t \in Tiles, NEW at, NEW r \in registry, Found(t, at, r),
         NEW q \in Record, q.tile = r.tile, q.ordinal = r.ordinal,
         registry' = (registry \ {r}) \cup {q}, NEW item \in Item,
         ground' = [ground EXCEPT ![t] = [ground[t] EXCEPT ![at] = item]],
         Gapless(registry, t) => item = q.item,
         removed' = removed, reduced' = reduced, origin' = origin,
         disk' = Stored', goods' \in [Players -> [Carried -> Nat]]
  PROVE  MapInv' /\ NoGap
<1> DEFINE next == disk'
           now == [ground[t] EXCEPT ![at] = item]
<1>1. /\ disk.registry = registry /\ Journaled(disk) /\ Registered(registry)
      /\ Laid(ground[t], origin[t], disk, t)
      /\ at \in 1..Len(ground[t]) /\ ground[t][at] \in Item /\ ground[t] \in Seq(Item)
      /\ r \in Records(registry, t) /\ r.tile = t
      /\ at = Len(origin[t]) + r.ordinal + 1
  BY FoundIs
<1>2. Changed(registry, r, q, registry')
  <2>1. Changes(registry, r, q, registry')
    BY DEF Changes
  <2> QED BY <1>1, <2>1, ChangedRecord, Zenon
<1>3. /\ Registered(registry') /\ \A u : u # t => Records(registry', u) = Records(registry, u)
      /\ Gapless(registry, t) => Gapless(registry', t)
  BY <1>1, <1>2 DEF Changed
<1>4. NoGap
  BY <1>3, NoGapElsewhere
<1>5. Journaled(next) /\ SameJournal(disk, next) /\ next.registry = registry'
  BY <1>3, SameJournalKept
<1>6. Elsewhere(disk, next, t)
  <2>1. \A u : u # t => Records(next.registry, u) = Records(disk.registry, u)
    BY <1>1, <1>3, <1>5
  <2> HIDE DEF next
  <2> QED BY <1>5, <2>1, ElsewhereKept
<1>7. Replaces(ground[t], at, item, now)
  BY <1>1, ExceptSeq DEF Replaces
<1>8. Laid(now, origin[t], next, t)
  <2>1. Changes(disk.registry, r, q, next.registry)
    BY <1>1, <1>5 DEF Changes
  <2>2. r \in Records(disk.registry, t) /\ (Gapless(disk.registry, t) => item = q.item)
    BY <1>1
  <2> HIDE DEF next, now
  <2> QED BY <1>1, <1>5, <1>7, <2>1, <2>2, LaidChanged
<1>9. ground' = [ground EXCEPT ![t] = now]
  OBVIOUS
<1>10. origin' = [origin EXCEPT ![t] = origin[t]]
  BY OriginKept
<1> HIDE DEF now
<1> QED
  BY <1>4, <1>5, <1>6, <1>8, <1>9, <1>10, TileChanged

(* The item of a record is carried away. *)
LEMMA TakeKeeps ==
  ASSUME MapInv, NEW t \in Tiles, NEW at, NEW r \in registry, Found(t, at, r),
         registry' = Renumbered(registry \ {r}, t, r.ordinal),
         ground' = [ground EXCEPT ![t] = Without(@, {at})],
         removed' = removed, reduced' = reduced, origin' = origin,
         disk' = Stored', goods' \in [Players -> [Carried -> Nat]]
  PROVE  MapInv' /\ NoGap
<1> DEFINE next == disk'
           now == Without(ground[t], {at})
<1>1. /\ disk.registry = registry /\ Journaled(disk) /\ Registered(registry)
      /\ Laid(ground[t], origin[t], disk, t)
      /\ at \in 1..Len(ground[t])
      /\ r \in Records(registry, t) /\ r.tile = t
      /\ at = Len(origin[t]) + r.ordinal + 1
      /\ r.ordinal < Count(registry, t)
  BY FoundIs
<1>2. Taken(registry, r, registry')
  <2>1. Takes(registry, r, registry')
    BY <1>1 DEF Takes
  <2> QED BY <1>1, <2>1, TakenRecords, Zenon
<1>3. /\ Registered(registry') /\ \A u : u # t => Records(registry', u) = Records(registry, u)
      /\ Gapless(registry, t) => Gapless(registry', t)
  BY <1>1, <1>2 DEF Taken
<1>4. NoGap
  BY <1>3, NoGapElsewhere
<1>5. Journaled(next) /\ SameJournal(disk, next) /\ next.registry = registry'
  BY <1>3, SameJournalKept
<1>6. Elsewhere(disk, next, t)
  <2>1. \A u : u # t => Records(next.registry, u) = Records(disk.registry, u)
    BY <1>1, <1>3, <1>5
  <2> HIDE DEF next
  <2> QED BY <1>5, <2>1, ElsewhereKept
<1>7. Laid(now, origin[t], next, t)
  <2>1. next.registry = Renumbered(disk.registry \ {r}, t, r.ordinal)
    BY <1>1, <1>5
  <2>2. r \in Records(disk.registry, t)
    BY <1>1
  <2> HIDE DEF next
  <2> QED BY <1>1, <1>5, <2>1, <2>2, LaidTaken
<1>8. ground' = [ground EXCEPT ![t] = now]
  BY DEF MapInv
<1>9. origin' = [origin EXCEPT ![t] = origin[t]]
  BY OriginKept
<1> HIDE DEF now
<1> QED
  BY <1>4, <1>5, <1>6, <1>7, <1>8, <1>9, TileChanged

(* What a session finds among the imported stacks of a tile. *)
LEMMA SourceFound ==
  ASSUME MapInv, NEW t \in Tiles, NEW at \in DOMAIN origin[t]
  PROVE  /\ Journaled(disk) /\ Laid(ground[t], origin[t], disk, t)
         /\ at \in 1..Len(origin[t]) /\ at \in 1..Len(ground[t])
         /\ ground[t] \in Seq(Item) /\ ground[t][at] \in Item
         /\ <<t, origin[t][at]>> \in Identities
         /\ ground[t][at] = Imported(disk, t, origin[t][at])
         /\ ground[t][at].thing = Source[t][origin[t][at]].thing /\ ground[t][at].inside = 0
         /\ ground[t][at].count \in Nat
         /\ Source[t][origin[t][at]].count \in Nat
         /\ ground[t][at].count <= Source[t][origin[t][at]].count
<1> DEFINE i == origin[t][at]
<1>1. Journaled(disk) /\ Laid(ground[t], origin[t], disk, t)
  BY DEF MapInv
<1>2. /\ DOMAIN origin[t] = 1..Len(origin[t]) /\ ground[t] \in Seq(Item)
      /\ Len(ground[t]) = Len(origin[t]) + Count(disk.registry, t)
      /\ Len(origin[t]) \in Nat /\ Count(disk.registry, t) \in Nat
      /\ \A k \in 1..Len(ground[t]) : ground[t][k] \in Item
      /\ \A k \in 1..Len(origin[t]) : origin[t][k] \in LeftOf(disk, t)
  BY <1>1, LaidFields
<1>3. at \in 1..Len(origin[t]) /\ at \in 1..Len(ground[t])
  BY <1>2
<1>4. i \in DOMAIN Source[t] /\ <<t, i>> \notin disk.removed
  BY <1>2, <1>3 DEF LeftOf
<1>5. <<t, i>> \in Identities
  BY <1>4 DEF Identities
<1>6. ground[t][at] = Imported(disk, t, i)
  BY <1>1, <1>3 DEF Laid
<1>7. Source[t][i].count \in Nat
  BY <1>4, SourceIs
<1>8. /\ <<t, i>> \in DOMAIN disk.reduced =>
           disk.reduced[<<t, i>>] \in Nat /\ disk.reduced[<<t, i>>] < Source[t][i].count
  BY <1>1 DEF Journaled
<1>9. /\ Imported(disk, t, i).thing = Source[t][i].thing /\ Imported(disk, t, i).inside = 0
      /\ Imported(disk, t, i).count = IF <<t, i>> \in DOMAIN disk.reduced
                                      THEN disk.reduced[<<t, i>>] ELSE Source[t][i].count
  BY DEF Imported, Plain
<1> HIDE DEF i
<1>10. Imported(disk, t, i).count \in Nat /\ Imported(disk, t, i).count <= Source[t][i].count
  BY <1>7, <1>8, <1>9
<1> QED
  BY <1>1, <1>2, <1>3, <1>5, <1>6, <1>7, <1>9, <1>10 DEF i

(* What is gone or reduced on one tile says nothing of the others. *)
LEMMA ElsewhereShrunk ==
  ASSUME NEW saved, NEW next, NEW t, NEW i, NEW rest, Shrinks(saved, next, <<t, i>>, rest)
  PROVE  Elsewhere(saved, next, t)
<1>1. \A u : LeftOf(next, u) = LeftOf(saved, u)
  BY DEF Shrinks, LeftOf
<1>2. ASSUME NEW u, u # t, NEW j
      PROVE  Imported(next, u, j) = Imported(saved, u, j)
  <2>1. <<u, j>> # <<t, i>>
    BY <1>2
  <2>2. /\ <<u, j>> \in DOMAIN next.reduced <=> <<u, j>> \in DOMAIN saved.reduced
        /\ <<u, j>> \in DOMAIN saved.reduced =>
              next.reduced[<<u, j>>] = saved.reduced[<<u, j>>]
    BY <2>1 DEF Shrinks
  <2> QED BY <2>2 DEF Imported
<1> QED
  BY <1>1, <1>2 DEF Elsewhere, Shrinks

LEMMA ElsewhereStruck ==
  ASSUME NEW saved, NEW next, NEW t, NEW i, Strikes(saved, next, <<t, i>>)
  PROVE  Elsewhere(saved, next, t)
<1>1. ASSUME NEW u, u # t
      PROVE  LeftOf(next, u) = LeftOf(saved, u)
  <2>1. \A j : <<u, j>> # <<t, i>>
    BY <1>1
  <2>2. \A j : <<u, j>> \in next.removed <=> <<u, j>> \in saved.removed
    BY <2>1 DEF Strikes
  <2> QED BY <2>2 DEF LeftOf
<1>2. ASSUME NEW u, u # t, NEW j
      PROVE  Imported(next, u, j) = Imported(saved, u, j)
  <2>1. <<u, j>> # <<t, i>>
    BY <1>2
  <2>2. /\ <<u, j>> \in DOMAIN next.reduced <=> <<u, j>> \in DOMAIN saved.reduced
        /\ <<u, j>> \in DOMAIN saved.reduced =>
              next.reduced[<<u, j>>] = saved.reduced[<<u, j>>]
    BY <2>1 DEF Strikes
  <2> QED BY <2>2 DEF Imported
<1> QED
  BY <1>1, <1>2 DEF Elsewhere, Strikes

LEMMA JournaledShrunk ==
  ASSUME NEW saved, Journaled(saved), NEW next, NEW t, NEW i, NEW rest \in Nat \ {0},
         Shrinks(saved, next, <<t, i>>, rest), <<t, i>> \in Identities,
         <<t, i>> \notin saved.removed, rest < Source[t][i].count
  PROVE  Journaled(next)
<1> DEFINE id == <<t, i>>
<1>1. /\ next.removed = saved.removed /\ next.registry = saved.registry
      /\ DOMAIN next.reduced = DOMAIN saved.reduced \cup {id}
      /\ next.reduced[id] = rest
      /\ \A j \in DOMAIN saved.reduced : j # id => next.reduced[j] = saved.reduced[j]
  BY DEF Shrinks
<1>2. id[1] = t /\ id[2] = i
  OBVIOUS
<1>3. id \in Identities /\ id \notin saved.removed
  OBVIOUS
<1> HIDE DEF id
<1>4. DOMAIN next.reduced \subseteq Identities
  BY <1>1, <1>3 DEF Journaled
<1>5. ASSUME NEW j \in DOMAIN next.reduced
      PROVE  /\ j \notin next.removed /\ next.reduced[j] \in Nat \ {0}
             /\ next.reduced[j] < Source[j[1]][j[2]].count
  <2>1. CASE j = id
    BY <1>1, <1>2, <1>3, <2>1
  <2>2. CASE j # id
    BY <1>1, <1>5, <2>2 DEF Journaled
  <2> QED BY <2>1, <2>2
<1> QED
  BY <1>1, <1>4, <1>5 DEF Journaled

LEMMA JournaledStruck ==
  ASSUME NEW saved, Journaled(saved), NEW next, NEW id \in Identities, Strikes(saved, next, id)
  PROVE  Journaled(next)
<1>1. /\ next.removed = saved.removed \cup {id} /\ next.registry = saved.registry
      /\ DOMAIN next.reduced = DOMAIN saved.reduced \ {id}
      /\ \A j \in DOMAIN saved.reduced : j # id => next.reduced[j] = saved.reduced[j]
  BY DEF Strikes
<1> QED
  BY <1>1 DEF Journaled

(* Some of an imported stack is taken. *)
LEMMA ShrinkKeeps ==
  ASSUME MapInv, NEW t \in Tiles, NEW at \in DOMAIN origin[t], NEW rest \in Nat \ {0},
         <<t, origin[t][at]>> \notin disk.removed, rest < ground[t][at].count,
         Shrinks(disk, disk', <<t, origin[t][at]>>, rest),
         ground' = [ground EXCEPT ![t] =
                      [ground[t] EXCEPT ![at] = [ground[t][at] EXCEPT !.count = rest]]],
         origin' = origin, disk' = Stored', goods' \in [Players -> [Carried -> Nat]]
  PROVE  MapInv'
<1> DEFINE next == disk'
           i == origin[t][at]
           item == [ground[t][at] EXCEPT !.count = rest]
           now == [ground[t] EXCEPT ![at] = item]
<1>1. /\ Journaled(disk) /\ Laid(ground[t], origin[t], disk, t)
      /\ at \in 1..Len(origin[t]) /\ at \in 1..Len(ground[t])
      /\ ground[t] \in Seq(Item) /\ ground[t][at] \in Item
      /\ <<t, i>> \in Identities
      /\ ground[t][at] = Imported(disk, t, i)
      /\ ground[t][at].thing = Source[t][i].thing
      /\ ground[t][at].count \in Nat
      /\ Source[t][i].count \in Nat
      /\ ground[t][at].count <= Source[t][i].count
  BY SourceFound
<1>2. item = Plain(Source[t][i].thing, rest)
  BY <1>1 DEF Imported, Plain
<1>3. item \in Item
  BY <1>1 DEF Item
<1>4. Replaces(ground[t], at, Plain(Source[t][i].thing, rest), now)
  <2>1. Replaces(ground[t], at, item, now)
    <3> HIDE DEF item
    <3> QED BY <1>1, <1>3, ExceptSeq DEF Replaces
  <2> QED BY <1>2, <2>1, Zenon
<1>5. rest < Source[t][i].count
  BY <1>1
<1> HIDE DEF item, i
<1>6. Shrinks(disk, next, <<t, i>>, rest) /\ <<t, i>> \notin disk.removed
  BY DEF i
<1>7. Laid(now, origin[t], next, t)
  <2>1. Shrinks(disk, next, <<t, origin[t][at]>>, rest)
    OBVIOUS
  <2>2. Replaces(ground[t], at, Plain(Source[t][origin[t][at]].thing, rest), now)
    BY <1>4 DEF i
  <2> HIDE DEF next, now
  <2> QED BY <1>1, <2>1, <2>2, LaidReduced
<1>8. Elsewhere(disk, next, t)
  <2> HIDE DEF next
  <2> QED BY <1>6, ElsewhereShrunk
<1>9. Journaled(next)
  <2> HIDE DEF next
  <2> QED BY <1>1, <1>5, <1>6, JournaledShrunk
<1>10. ground' = [ground EXCEPT ![t] = now]
  BY DEF item
<1>11. origin' = [origin EXCEPT ![t] = origin[t]]
  BY OriginKept
<1> HIDE DEF now
<1> QED
  BY <1>7, <1>8, <1>9, <1>10, <1>11, TileChanged

(* All of an imported stack is taken. *)
LEMMA StrikeKeeps ==
  ASSUME MapInv, NEW t \in Tiles, NEW at \in DOMAIN origin[t],
         Strikes(disk, disk', <<t, origin[t][at]>>),
         ground' = [ground EXCEPT ![t] = Without(@, {at})],
         origin' = [origin EXCEPT ![t] = Without(@, {at})],
         disk' = Stored', goods' \in [Players -> [Carried -> Nat]]
  PROVE  MapInv'
<1> DEFINE next == disk'
           now == Without(ground[t], {at})
           rest == Without(origin[t], {at})
<1>1. /\ Journaled(disk) /\ Laid(ground[t], origin[t], disk, t)
      /\ at \in 1..Len(origin[t])
      /\ <<t, origin[t][at]>> \in Identities
  BY SourceFound
<1>2. Strikes(disk, next, <<t, origin[t][at]>>)
  OBVIOUS
<1>3. Laid(now, rest, next, t)
  <2> HIDE DEF next
  <2> QED BY <1>1, <1>2, LaidRemoved
<1>4. Elsewhere(disk, next, t)
  <2> HIDE DEF next
  <2> QED BY <1>2, ElsewhereStruck
<1>5. Journaled(next)
  <2> HIDE DEF next
  <2> QED BY <1>1, <1>2, JournaledStruck
<1>6. ground' = [ground EXCEPT ![t] = now] /\ origin' = [origin EXCEPT ![t] = rest]
  BY DEF MapInv
<1> HIDE DEF now, rest
<1> QED
  BY <1>3, <1>4, <1>5, <1>6, TileChanged

(* The transaction that stores the registry alone. *)
LEMMA StoreRegistryIs ==
  ASSUME disk = Stored, StoreRegistry, removed' = removed, reduced' = reduced, goods' = goods
  PROVE  disk' = Stored'
BY DEF Stored, StoreRegistry

(* Only decay can leave a gap, below a record that stays. *)
LEMMA DecayKeeps ==
  ASSUME MapInv, Decay
  PROVE  /\ MapInv'
         /\ \A t \in Tiles : Gapless(registry, t) /\ ~ Gapless(registry', t) =>
               \E r \in registry \ registry', q \in registry' :
                  r.tile = t /\ q.tile = t /\ r.ordinal < q.ordinal
<1> DEFINE next == disk'
<1>1. /\ disk = Stored /\ disk.registry = registry /\ Journaled(disk)
      /\ \A t \in Tiles : Laid(ground[t], origin[t], disk, t)
      /\ goods \in [Players -> [Carried -> Nat]]
      /\ origin \in [Tiles -> Seq(Nat \ {0})]
  BY StoredFields DEF MapInv
<1>2. Registered(registry)
  BY <1>1 DEF Journaled
<1>3. /\ Resolves /\ registry' = registry \ Expired /\ StoreRegistry
      /\ ground' = [t \in Tiles |-> Without(ground[t], {Place(r) : r \in Records(Expired, t)})]
      /\ origin' = origin /\ removed' = removed /\ reduced' = reduced /\ goods' = goods
  BY DEF Decay, Survivors
<1>4. Expired \in SUBSET registry
  BY DEF Expired
<1>5. disk' = Stored'
  BY <1>1, <1>3, StoreRegistryIs
<1>6. Registered(registry')
  <2>1. \A t : Survives(registry, Expired, registry \ Expired, t)
    BY <1>2, <1>4, SurvivingRecords, Zenon
  <2> QED BY <1>3, <2>1 DEF Survives
<1>7. Journaled(next) /\ SameJournal(disk, next) /\ next.registry = registry'
  BY <1>3, <1>5, <1>6, SameJournalKept
<1>8. ASSUME NEW t \in Tiles
      PROVE  Laid(ground'[t], origin[t], next, t)
  <2> DEFINE places == {Place(r) : r \in Records(Expired, t)}
  <2>1. \A r \in Records(Expired, t) :
           r \in Record /\ r.tile = t /\ Place(r) = Len(origin[t]) + r.ordinal + 1
           /\ Place(r) \in DOMAIN ground[t]
    <3>1. \A r \in Records(Expired, t) : r \in Expired /\ r \in Record /\ r.tile = t
      BY <1>2, <1>4 DEF Records, Registered
    <3> QED BY <1>3, <3>1, PlaceIs DEF Resolves
  <2>2. places = {Len(origin[t]) + r.ordinal + 1 : r \in Records(Expired, t)}
    BY <2>1
  <2>3. places \subseteq DOMAIN ground[t]
    BY <2>1
  <2>4. ground'[t] = Without(ground[t], places)
    BY <1>3
  <2>5. Expired \in SUBSET disk.registry /\ next.registry = disk.registry \ Expired
    BY <1>1, <1>3, <1>4, <1>7
  <2>6. Laid(ground[t], origin[t], disk, t)
    BY <1>1
  <2> HIDE DEF places, next
  <2>7. Laid(Without(ground[t], places), origin[t], next, t)
    BY <1>1, <1>7, <2>2, <2>3, <2>5, <2>6, LaidDecayed
  <2> QED BY <2>4, <2>7
<1>9. ground' \in [Tiles -> Seq(Item)]
  <2>1. \A t \in Tiles : ground'[t] \in Seq(Item)
    BY <1>8 DEF Laid
  <2> QED BY <1>3, <2>1
<1>10. MapInv'
  BY <1>1, <1>3, <1>5, <1>7, <1>8, <1>9 DEF MapInv
<1>11. ASSUME NEW t \in Tiles, Gapless(registry, t), ~ Gapless(registry', t)
       PROVE  \E r \in registry \ registry', q \in registry' :
                 r.tile = t /\ q.tile = t /\ r.ordinal < q.ordinal
  <2>1. ~ Gapless(registry \ Expired, t)
    BY <1>3, <1>11
  <2>2. LeftBelow(registry, Expired, t)
    <3>1. Registered(registry) /\ Expired \in SUBSET registry /\ Gapless(registry, t)
      BY <1>2, <1>4, <1>11
    <3> QED BY <2>1, <3>1, GapBelow, Zenon
  <2>3. \A r \in Expired : r \in registry \ registry'
    BY <1>3, <1>4
  <2> QED BY <1>3, <2>2, <2>3 DEF LeftBelow
<1> QED
  BY <1>10, <1>11

(* A start that is not refused finds the world as it was left. *)
LEMMA RestartKeeps ==
  ASSUME MapInv, Restart
  PROVE  MapInv' /\ NoGap
<1>1. /\ disk = Stored /\ Journaled(disk) /\ \A t \in Tiles : Laid(ground[t], origin[t], disk, t)
      /\ ground \in [Tiles -> Seq(Item)] /\ origin \in [Tiles -> Seq(Nat \ {0})]
  BY DEF MapInv
<1>2. \A t \in Tiles : Gapless(disk.registry, t)
  BY DEF Restart, Recoverable
<1>3. \A t \in Tiles : RecoveredTile(disk, t) = ground[t] /\ RecoveredOrigin(disk, t) = origin[t]
  BY <1>1, <1>2, LaidRecovers
<1>4. ground' = ground /\ origin' = origin
  BY <1>1, <1>3 DEF Restart
<1>5. removed' = removed /\ reduced' = reduced /\ registry' = registry /\ goods' = goods
  BY <1>1, StoredFields DEF Restart
<1>6. UNCHANGED <<memory, disk>>
  BY <1>4, <1>5 DEF memory, Restart
<1> QED
  BY <1>6, MapKept

----------------------------------------------------------------------------
(* Every action keeps the invariant *)

LEMMA OthersKept ==
  ASSUME Others, NEW p \in Players, aim' = aim \/ aim' = [aim EXCEPT ![p] = NoAim],
         UNCHANGED <<clock, beat, server>>, spent' \in [Bounded -> Nat]
  PROVE  Others'
BY DEF Others

LEMMA DropStackKeeps ==
  ASSUME GroundInv, NEW p \in Players, NEW t \in Tiles, NEW x \in Carried, NEW n,
         DropStack(p, t, x, n)
  PROVE  GroundInv' /\ NoGap
<1>1. MapInv /\ Others /\ goods \in [Players -> [Carried -> Nat]]
  BY DEF GroundInv, MapInv
<1>2. /\ n \in 1..goods[p][x] /\ Appends(t, Plain(x, n), Never)
      /\ goods' = [goods EXCEPT ![p][x] = @ - n]
      /\ origin' = origin /\ removed' = removed /\ reduced' = reduced
      /\ disk' = Stored' /\ Spend("drops", MaxDrops) /\ UNCHANGED <<aim, clock, beat, server>>
  BY DEF DropStack, StoreAll, Stored
<1>3. goods[p][x] \in Nat /\ n \in Nat \ {0} /\ goods[p][x] - n \in Nat
  <2>1. goods[p][x] \in Nat
    BY <1>1
  <2> QED BY <1>2, <2>1
<1>4. goods' \in [Players -> [Carried -> Nat]]
  BY <1>1, <1>2, <1>3
<1>5. Plain(x, n) \in Item
  BY <1>3 DEF Plain, Item
<1>6. MapInv' /\ NoGap
  <2>1. Never \in Nat \cup {Never}
    OBVIOUS
  <2> QED BY <1>1, <1>2, <1>4, <1>5, <2>1, AppendKeeps
<1>7. Others'
  <2>1. spent' \in [Bounded -> Nat]
    BY <1>1, <1>2, Spends DEF Others, Bounded
  <2> QED BY <1>1, <1>2, <2>1 DEF Others
<1> QED
  BY <1>6, <1>7 DEF GroundInv

LEMMA PlaceCorpseKeeps ==
  ASSUME GroundInv, NEW t \in Tiles, NEW n \in 0..MaxLoot, PlaceCorpse(t, n)
  PROVE  GroundInv' /\ NoGap
<1> DEFINE item == [thing |-> Corpse, count |-> 1, inside |-> n]
           due == clock + DecayAfter
<1>1. MapInv /\ Others /\ disk = Stored /\ goods \in [Players -> [Carried -> Nat]]
      /\ clock \in 0..MaxTicks
  BY DEF GroundInv, MapInv, Others
<1>2. /\ Appends(t, item, due) /\ StoreRegistry
      /\ origin' = origin /\ removed' = removed /\ reduced' = reduced /\ goods' = goods
      /\ Spend("corpses", MaxCorpses) /\ UNCHANGED <<aim, clock, beat, server>>
  BY DEF PlaceCorpse
<1>3. item \in Item /\ due \in Nat \cup {Never}
  <2>1. n \in Nat /\ MaxTicks \in Nat /\ DecayAfter \in Nat
    BY GroundAssumption
  <2> QED BY <1>1, <2>1 DEF Item, Carried
<1>4. disk' = Stored'
  BY <1>1, <1>2, StoreRegistryIs
<1>5. goods' \in [Players -> [Carried -> Nat]]
  BY <1>1, <1>2
<1> HIDE DEF item, due
<1>6. MapInv' /\ NoGap
  BY <1>1, <1>2, <1>3, <1>4, <1>5, AppendKeeps
<1>7. Others'
  <2>1. spent' \in [Bounded -> Nat]
    BY <1>1, <1>2, Spends DEF Others, Bounded
  <2> QED BY <1>1, <1>2, <2>1 DEF Others
<1> QED
  BY <1>6, <1>7 DEF GroundInv

(* A session that aims at something aims at a place of a tile. *)
LEMMA AimIs ==
  ASSUME Others, NEW p \in Players, NEW kind, kind # "none", Aimed(p, kind)
  PROVE  aim[p].tile \in Tiles
<1>1. aim[p] \in Aim \cup {NoAim} /\ aim[p].kind = kind
  BY DEF Others, Aimed
<1>2. aim[p] # NoAim
  BY <1>1 DEF NoAim
<1> QED
  BY <1>1, <1>2 DEF Aim

LEMMA TakeWholeKeeps ==
  ASSUME GroundInv, NEW p \in Players, TakeWhole(p)
  PROVE  GroundInv' /\ NoGap
<1> DEFINE t == aim[p].tile
           at == aim[p].at
<1>1. MapInv /\ Others /\ goods \in [Players -> [Carried -> Nat]]
  BY DEF GroundInv, MapInv
<1>2. PICK r \in registry :
         /\ Found(t, at, r)
         /\ registry' = Renumbered(registry \ {r}, t, r.ordinal)
         /\ Gains(p, ground[t][at].thing, ground[t][at].count)
         /\ ground' = [ground EXCEPT ![t] = Without(@, {at})]
  BY DEF TakeWhole
<1>3. /\ Aimed(p, "runtime")
      /\ origin' = origin /\ removed' = removed /\ reduced' = reduced
      /\ disk' = Stored' /\ aim' = [aim EXCEPT ![p] = NoAim]
      /\ UNCHANGED <<clock, beat, server, spent>>
  BY DEF TakeWhole, StoreAll, Stored
<1>4. t \in Tiles
  BY <1>1, <1>3, AimIs
<1> HIDE DEF t, at
<1>5. ground[t][at] \in Item
  BY <1>1, <1>2, <1>4, FoundIs
<1>6. ground[t][at].thing \in Carried /\ ground[t][at].count \in Nat
  BY <1>5, ItemFields
<1>7. goods' \in [Players -> [Carried -> Nat]]
  BY <1>1, <1>2, <1>6, GainsTyped
<1>8. MapInv' /\ NoGap
  BY <1>1, <1>2, <1>3, <1>4, <1>7, TakeKeeps
<1>9. Others'
  BY <1>1, <1>3 DEF Others
<1> QED
  BY <1>8, <1>9 DEF GroundInv

LEMMA TakeSomeKeeps ==
  ASSUME GroundInv, NEW p \in Players, NEW n, TakeSome(p, n)
  PROVE  GroundInv' /\ NoGap
<1> DEFINE t == aim[p].tile
           at == aim[p].at
           here == ground[t][at]
           item == [here EXCEPT !.count = here.count - n]
<1>1. MapInv /\ Others /\ goods \in [Players -> [Carried -> Nat]]
      /\ ground \in [Tiles -> Seq(Item)]
  BY DEF GroundInv, MapInv
<1>2. PICK r \in registry :
         /\ Found(t, at, r)
         /\ n \in 1..(here.count - 1)
         /\ registry' = (registry \ {r}) \cup {[r EXCEPT !.item.count = here.count - n]}
         /\ Gains(p, here.thing, n)
         /\ ground' = [ground EXCEPT ![t][at].count = @ - n]
  BY DEF TakeSome
<1>3. /\ Aimed(p, "runtime")
      /\ origin' = origin /\ removed' = removed /\ reduced' = reduced
      /\ disk' = Stored' /\ aim' = [aim EXCEPT ![p] = NoAim]
      /\ UNCHANGED <<clock, beat, server, spent>>
  BY DEF TakeSome, StoreAll, Stored
<1>4. t \in Tiles
  BY <1>1, <1>3, AimIs
<1> DEFINE q == [r EXCEPT !.item.count = here.count - n]
<1>5. /\ here \in Item /\ r \in Record /\ at \in 1..Len(ground[t]) /\ ground[t] \in Seq(Item)
      /\ Gapless(registry, t) => here = r.item
  <2> HIDE DEF t, at
  <2> QED BY <1>1, <1>2, <1>4, FoundIs
<1>6. /\ here.thing \in Carried /\ here.count \in Nat /\ n \in Nat /\ here.count - n \in Nat \ {0}
      /\ r.tile \in Tiles /\ r.ordinal \in Nat /\ r.item \in Item /\ r.due \in Nat \cup {Never}
  <2>1. here.thing \in Carried /\ here.count \in Nat
    <3> HIDE DEF here
    <3> QED BY <1>5, ItemFields
  <2>2. n \in 1..(here.count - 1)
    BY <1>2
  <2>3. n \in Nat /\ here.count - n \in Nat \ {0}
    <3> DEFINE c == here.count
    <3> HIDE DEF c, here
    <3> QED BY <2>1, <2>2 DEF c
  <2> QED BY <1>5, <2>1, <2>3, RecordFields
<1>7. goods' \in [Players -> [Carried -> Nat]]
  <2> HIDE DEF here
  <2> QED BY <1>1, <1>2, <1>6, GainsTyped
<1>8. ground' = [ground EXCEPT ![t] = [ground[t] EXCEPT ![at] = item]]
  BY <1>1, <1>2, <1>4, <1>5
<1> HIDE DEF here
<1>9. item \in Item
  BY <1>5, <1>6 DEF Item
<1>10. /\ q.tile = r.tile /\ q.ordinal = r.ordinal /\ q \in Record
       /\ q.item = [r.item EXCEPT !.count = here.count - n]
  BY <1>5, <1>6 DEF Record, Item
<1>11. Gapless(registry, t) => item = q.item
  BY <1>5, <1>10
<1>12. registry' = (registry \ {r}) \cup {q} /\ Found(t, at, r)
  BY <1>2
<1> HIDE DEF t, at, q, item
<1>13. MapInv' /\ NoGap
  BY <1>1, <1>3, <1>4, <1>7, <1>8, <1>9, <1>10, <1>11, <1>12, ChangeKeeps
<1>14. Others'
  BY <1>1, <1>3 DEF Others
<1> QED
  BY <1>13, <1>14 DEF GroundInv

LEMMA TakeInsideKeeps ==
  ASSUME GroundInv, NEW p \in Players, NEW n, TakeInside(p, n)
  PROVE  GroundInv' /\ NoGap
<1> DEFINE t == aim[p].tile
           at == aim[p].at
           here == ground[t][at]
           item == [here EXCEPT !.inside = here.inside - n]
<1>1. MapInv /\ Others /\ goods \in [Players -> [Carried -> Nat]]
      /\ ground \in [Tiles -> Seq(Item)]
  BY DEF GroundInv, MapInv
<1>2. PICK r \in registry :
         /\ Found(t, at, r)
         /\ n \in 1..here.inside
         /\ registry' = (registry \ {r}) \cup {[r EXCEPT !.item.inside = here.inside - n]}
         /\ ground' = [ground EXCEPT ![t][at].inside = @ - n]
  BY DEF TakeInside
<1>3. /\ Aimed(p, "window") /\ Gains(p, Loot, n)
      /\ origin' = origin /\ removed' = removed /\ reduced' = reduced
      /\ disk' = Stored' /\ UNCHANGED <<aim, clock, beat, server, spent>>
  BY DEF TakeInside, StoreAll, Stored
<1>4. t \in Tiles
  BY <1>1, <1>3, AimIs
<1> DEFINE q == [r EXCEPT !.item.inside = here.inside - n]
<1>5. /\ here \in Item /\ r \in Record /\ at \in 1..Len(ground[t]) /\ ground[t] \in Seq(Item)
      /\ Gapless(registry, t) => here = r.item
  <2> HIDE DEF t, at
  <2> QED BY <1>1, <1>2, <1>4, FoundIs
<1>6. /\ here.inside \in Nat /\ n \in Nat /\ here.inside - n \in Nat
      /\ r.tile \in Tiles /\ r.ordinal \in Nat /\ r.item \in Item /\ r.due \in Nat \cup {Never}
  <2>1. here.inside \in Nat
    <3> HIDE DEF here
    <3> QED BY <1>5, ItemFields
  <2>2. n \in 1..here.inside
    BY <1>2
  <2>3. n \in Nat /\ here.inside - n \in Nat
    <3> DEFINE c == here.inside
    <3> HIDE DEF c, here
    <3> QED BY <2>1, <2>2 DEF c
  <2> QED BY <1>5, <2>1, <2>3, RecordFields
<1>7. goods' \in [Players -> [Carried -> Nat]]
  <2>1. Loot \in Carried
    BY GroundAssumption DEF Carried
  <2> HIDE DEF here
  <2> QED BY <1>1, <1>3, <1>6, <2>1, GainsTyped
<1>8. ground' = [ground EXCEPT ![t] = [ground[t] EXCEPT ![at] = item]]
  BY <1>1, <1>2, <1>4, <1>5
<1> HIDE DEF here
<1>9. item \in Item
  BY <1>5, <1>6 DEF Item
<1>10. /\ q.tile = r.tile /\ q.ordinal = r.ordinal /\ q \in Record
       /\ q.item = [r.item EXCEPT !.inside = here.inside - n]
  BY <1>5, <1>6 DEF Record, Item
<1>11. Gapless(registry, t) => item = q.item
  BY <1>5, <1>10
<1>12. registry' = (registry \ {r}) \cup {q} /\ Found(t, at, r)
  BY <1>2
<1> HIDE DEF t, at, q, item
<1>13. MapInv' /\ NoGap
  BY <1>1, <1>3, <1>4, <1>7, <1>8, <1>9, <1>10, <1>11, <1>12, ChangeKeeps
<1>14. Others'
  BY <1>1, <1>3 DEF Others
<1> QED
  BY <1>13, <1>14 DEF GroundInv

LEMMA TakeSourceKeeps ==
  ASSUME GroundInv, NEW p \in Players, NEW n, TakeSource(p, n)
  PROVE  GroundInv' /\ NoGap
<1> DEFINE t == aim[p].tile
           at == aim[p].at
           id == <<t, origin[t][at]>>
           here == ground[t][at]
           rest == here.count - n
           next == disk'
<1>1. /\ MapInv /\ Others /\ goods \in [Players -> [Carried -> Nat]]
      /\ ground \in [Tiles -> Seq(Item)]
      /\ disk.removed = removed /\ disk.reduced = reduced /\ disk.registry = registry
  BY StoredFields DEF GroundInv, MapInv
<1>2. /\ Aimed(p, "source") /\ registry' = registry
      /\ disk' = Stored' /\ aim' = [aim EXCEPT ![p] = NoAim]
      /\ UNCHANGED <<clock, beat, server, spent>>
  BY DEF TakeSource, StoreAll, Stored
<1>3. /\ at \in DOMAIN origin[t] /\ id \notin removed /\ n \in 1..here.count
      /\ Gains(p, here.thing, n) /\ reduced' = Reduced(id, rest)
      /\ \/ /\ rest = 0
            /\ ground' = [ground EXCEPT ![t] = Without(@, {at})]
            /\ origin' = [origin EXCEPT ![t] = Without(@, {at})]
            /\ removed' = removed \cup {id}
         \/ /\ rest > 0
            /\ ground' = [ground EXCEPT ![t][at].count = rest]
            /\ UNCHANGED <<origin, removed>>
  BY DEF TakeSource
<1>4. t \in Tiles
  BY <1>1, <1>2, AimIs
<1>5. /\ here \in Item /\ at \in 1..Len(ground[t]) /\ ground[t] \in Seq(Item)
  <2> HIDE DEF t, at
  <2> QED BY <1>1, <1>3, <1>4, SourceFound
<1>6. /\ here.thing \in Carried /\ here.count \in Nat /\ n \in Nat /\ n >= 1 /\ rest \in Nat
      /\ rest < here.count
  <2>1. here.thing \in Carried /\ here.count \in Nat
    <3> HIDE DEF here
    <3> QED BY <1>5, ItemFields
  <2>2. n \in 1..here.count
    BY <1>3
  <2> DEFINE c == here.count
  <2>3. rest = c - n
    OBVIOUS
  <2> HIDE DEF c, here, rest
  <2>4. c \in Nat /\ n \in 1..c
    BY <2>1, <2>2 DEF c
  <2>5. n \in Nat /\ n >= 1 /\ rest \in Nat /\ rest < c
    BY <2>3, <2>4
  <2> QED BY <2>1, <2>5 DEF c
<1>7. goods' \in [Players -> [Carried -> Nat]]
  <2> HIDE DEF here
  <2> QED BY <1>1, <1>3, <1>6, GainsTyped
<1>8. next.removed = removed' /\ next.reduced = reduced' /\ next.registry = registry'
  BY <1>2 DEF Stored
<1>9. NoGap
  BY <1>2 DEF NoGap
<1>10. MapInv'
  <2>1. CASE rest = 0
    <3>1. /\ ground' = [ground EXCEPT ![t] = Without(@, {at})]
          /\ origin' = [origin EXCEPT ![t] = Without(@, {at})]
          /\ removed' = removed \cup {id}
      <4> HIDE DEF rest, id, t, at, here
      <4>1. ~ (rest > 0)
        BY <2>1
      <4> QED BY <1>3, <4>1
    <3>2. reduced' = [i \in DOMAIN reduced \ {id} |-> reduced[i]]
      BY <1>3, <2>1 DEF Reduced
    <3>3. Strikes(disk, next, id)
      <4> HIDE DEF id, next
      <4> QED BY <1>1, <1>2, <1>8, <3>1, <3>2 DEF Strikes
    <3> HIDE DEF t, at, here, rest
    <3> QED BY <1>1, <1>2, <1>3, <1>4, <1>7, <3>1, <3>3, StrikeKeeps
  <2>2. CASE rest # 0
    <3>1. /\ ground' = [ground EXCEPT ![t][at].count = rest]
          /\ origin' = origin /\ removed' = removed /\ rest \in Nat \ {0}
      BY <1>3, <1>6, <2>2
    <3>2. reduced' = [i \in DOMAIN reduced \cup {id} |-> IF i = id THEN rest ELSE reduced[i]]
      BY <1>3, <2>2 DEF Reduced
    <3>3. Shrinks(disk, next, id, rest)
      <4> HIDE DEF id, next, rest
      <4> QED BY <1>1, <1>2, <1>8, <3>1, <3>2 DEF Shrinks
    <3>4. ground' = [ground EXCEPT ![t] =
                       [ground[t] EXCEPT ![at] = [ground[t][at] EXCEPT !.count = rest]]]
      <4> HIDE DEF rest, t, at
      <4> QED BY <1>1, <3>1
    <3>5. id \notin disk.removed
      BY <1>1, <1>3
    <3>6. rest < ground[t][at].count
      BY <1>6
    <3> HIDE DEF t, at, here, rest
    <3> QED BY <1>1, <1>2, <1>3, <1>4, <1>7, <3>1, <3>3, <3>4, <3>5, <3>6, ShrinkKeeps
  <2> QED BY <2>1, <2>2
<1>11. Others'
  BY <1>1, <1>2 DEF Others
<1> QED
  BY <1>9, <1>10, <1>11 DEF GroundInv

LEMMA LookAtKeeps ==
  ASSUME GroundInv, NEW p \in Players, NEW t \in Tiles, NEW at \in 1..Limit, LookAt(p, t, at)
  PROVE  GroundInv' /\ NoGap
<1>1. MapInv /\ Others
  BY DEF GroundInv
<1>2. /\ UNCHANGED <<memory, disk, clock, beat, server>> /\ Spend("looks", MaxLooks)
      /\ \E kind \in {"source", "runtime", "window"} :
            aim' = [aim EXCEPT ![p] = [kind |-> kind, tile |-> t, at |-> at]]
  <2>1. PICK kind \in IF at <= TailStart(t) THEN {"source"}
                      ELSE IF ground[t][at].thing = Corpse THEN {"runtime", "window"}
                      ELSE {"runtime"} :
           aim' = [aim EXCEPT ![p] = [kind |-> kind, tile |-> t, at |-> at]]
    BY DEF LookAt
  <2>2. kind \in {"source", "runtime", "window"}
    OBVIOUS
  <2> QED BY <2>1, <2>2 DEF LookAt
<1>3. MapInv' /\ NoGap
  BY <1>1, <1>2, MapKept
<1>4. aim' \in [Players -> Aim \cup {NoAim}]
  <2>1. at \in Nat \ {0}
    BY GroundAssumption
  <2> QED BY <1>1, <1>2, <2>1 DEF Others, Aim
<1>5. spent' \in [Bounded -> Nat]
  BY <1>1, <1>2, Spends DEF Others, Bounded
<1>6. Others'
  BY <1>1, <1>2, <1>4, <1>5 DEF Others
<1> QED
  BY <1>3, <1>6 DEF GroundInv

LEMMA LookAwayKeeps ==
  ASSUME GroundInv, NEW p \in Players, LookAway(p)
  PROVE  GroundInv' /\ NoGap
<1>1. MapInv' /\ NoGap
  <2>1. MapInv /\ UNCHANGED <<memory, disk>>
    BY DEF GroundInv, LookAway
  <2> QED BY <2>1, MapKept
<1>2. Others'
  BY DEF GroundInv, LookAway, Others
<1> QED
  BY <1>1, <1>2 DEF GroundInv

LEMMA TickKeeps ==
  ASSUME GroundInv, Tick
  PROVE  GroundInv' /\ NoGap
<1>1. MapInv' /\ NoGap
  <2>1. MapInv /\ UNCHANGED <<memory, disk>>
    BY DEF GroundInv, Tick
  <2> QED BY <2>1, MapKept
<1>2. clock' \in 0..MaxTicks
  <2>1. clock \in 0..MaxTicks /\ clock < MaxTicks /\ clock' = clock + 1 /\ MaxTicks \in Nat
    BY GroundAssumption DEF GroundInv, Others, Tick
  <2> QED BY <2>1
<1>3. Others'
  BY <1>2 DEF GroundInv, Tick, Others
<1> QED
  BY <1>1, <1>3 DEF GroundInv

LEMMA DecayFailsKeeps ==
  ASSUME GroundInv, DecayFails
  PROVE  GroundInv' /\ NoGap
<1>1. MapInv' /\ NoGap
  <2>1. MapInv /\ UNCHANGED <<memory, disk>>
    BY DEF GroundInv, DecayFails
  <2> QED BY <2>1, MapKept
<1>2. Others'
  BY DEF GroundInv, DecayFails, Others
<1> QED
  BY <1>1, <1>2 DEF GroundInv

LEMMA RestartStepKeeps ==
  ASSUME GroundInv, Restart
  PROVE  GroundInv' /\ NoGap
<1>1. MapInv' /\ NoGap
  BY RestartKeeps DEF GroundInv
<1>2. spent' \in [Bounded -> Nat]
  BY Spends DEF GroundInv, Others, Bounded, Restart
<1>3. Others'
  <2>1. 0 \in 0..MaxTicks
    BY GroundAssumption
  <2> QED BY <1>2, <2>1 DEF GroundInv, Others, Restart
<1> QED
  BY <1>1, <1>3 DEF GroundInv

LEMMA StartRefusedKeeps ==
  ASSUME GroundInv, StartRefused
  PROVE  GroundInv' /\ NoGap
<1>1. MapInv' /\ NoGap
  <2>1. MapInv /\ UNCHANGED <<memory, disk>>
    BY DEF GroundInv, StartRefused
  <2> QED BY <2>1, MapKept
<1>2. spent' \in [Bounded -> Nat]
  BY Spends DEF GroundInv, Others, Bounded, StartRefused
<1>3. Others'
  BY <1>2 DEF GroundInv, Others, StartRefused
<1> QED
  BY <1>1, <1>3 DEF GroundInv

LEMMA DecayStepKeeps ==
  ASSUME GroundInv, Decay
  PROVE  GroundInv'
<1>1. MapInv'
  BY DecayKeeps DEF GroundInv
<1>2. Others'
  BY DEF GroundInv, Others, Decay
<1> QED
  BY <1>1, <1>2 DEF GroundInv

(* What a step may do to the ordinals of the tiles. *)
GapStep ==
    \A t \in Tiles : Gapless(registry, t) /\ ~Gapless(registry', t) =>
        /\ beat = "decay"
        /\ \E r \in registry \ registry', q \in registry' :
              r.tile = t /\ q.tile = t /\ r.ordinal < q.ordinal

LEMMA GroundSteps == GroundInv /\ [Next]_vars => GroundInv' /\ [GapStep]_vars
<1> SUFFICES ASSUME GroundInv, [Next]_vars PROVE GroundInv' /\ GapStep
  OBVIOUS
<1>1. NoGap => GapStep
  BY DEF NoGap, GapStep
<1>2. ASSUME NEW p \in Players, SessionStep(p)
      PROVE  GroundInv' /\ NoGap
  <2>1. CASE \E t \in Tiles, at \in 1..Limit : LookAt(p, t, at)
    BY <2>1, LookAtKeeps
  <2>2. CASE LookAway(p)
    BY <2>2, LookAwayKeeps
  <2>3. CASE \E t \in Tiles, x \in Carried, n \in 1..Most : DropStack(p, t, x, n)
    BY <2>3, DropStackKeeps
  <2>4. CASE TakeWhole(p)
    BY <2>4, TakeWholeKeeps
  <2>5. CASE \E n \in 1..Most : TakeSome(p, n)
    BY <2>5, TakeSomeKeeps
  <2>6. CASE \E n \in 1..Most : TakeInside(p, n)
    BY <2>6, TakeInsideKeeps
  <2>7. CASE \E n \in 1..Most : TakeSource(p, n)
    BY <2>7, TakeSourceKeeps
  <2> QED BY <1>2, <2>1, <2>2, <2>3, <2>4, <2>5, <2>6, <2>7 DEF SessionStep
<1>3. CASE \E p \in Players : SessionStep(p)
  BY <1>1, <1>2, <1>3
<1>4. CASE \E t \in Tiles, n \in 0..MaxLoot : PlaceCorpse(t, n)
  BY <1>1, <1>4, PlaceCorpseKeeps
<1>5. CASE Tick
  BY <1>1, <1>5, TickKeeps
<1>6. CASE Decay
  <2>1. GapStep
    <3>1. beat = "decay"
      BY <1>6 DEF Decay
    <3> QED BY <1>6, <3>1, DecayKeeps DEF GapStep, GroundInv
  <2> QED BY <1>6, <2>1, DecayStepKeeps
<1>7. CASE DecayFails
  BY <1>1, <1>7, DecayFailsKeeps
<1>8. CASE Restart
  BY <1>1, <1>8, RestartStepKeeps
<1>9. CASE StartRefused
  BY <1>1, <1>9, StartRefusedKeeps
<1>10. CASE UNCHANGED vars
  <2>1. MapInv' /\ NoGap
    <3>1. MapInv /\ UNCHANGED <<memory, disk>>
      BY <1>10 DEF GroundInv, vars
    <3> QED BY <3>1, MapKept
  <2>2. Others'
    BY <1>10 DEF GroundInv, Others, vars
  <2> QED BY <1>1, <2>1, <2>2 DEF GroundInv
<1> QED
  BY <1>3, <1>4, <1>5, <1>6, <1>7, <1>8, <1>9, <1>10 DEF Next

----------------------------------------------------------------------------
(* Sums over finite sets, as SumFunction takes them *)

Numbers(F, S) == \A x \in S : F[x] \in Int

AlikeBut(F, G, S, a) == \A x \in S \ {a} : G[x] = F[x]

Pick(s) == CHOOSE x \in s : TRUE

(* it is the sum of F over every subset of S. *)
Sums(F, S, it) ==
    it = [s \in SUBSET S |-> IF s = {} THEN 0 ELSE F[Pick(s)] + it[s \ {Pick(s)}]]

LEMMA SmallestSet ==
  ASSUME NEW S, IsFiniteSet(S), NEW Bad, Bad \subseteq SUBSET S, Bad # {}
  PROVE  \E s \in Bad : \A t \in Bad : t \subseteq s => t = s
<1> DEFINE R == StrictSubsetOrdering(S)
<1>1. IsWellFoundedOn(R, SUBSET S)
  BY FS_StrictSubsetOrderingWellFounded, FS_FiniteSubsetsOfFinite
<1>2. \A s, t \in SUBSET S : <<t, s>> \in R <=> t \subseteq s /\ t # s
  BY DEF StrictSubsetOrdering
<1> HIDE DEF R
<1>3. \E s \in Bad : \A t \in Bad : ~ (<<t, s>> \in R)
  BY <1>1, WFMin
<1> QED
  BY <1>2, <1>3

LEMMA SumOf ==
  ASSUME NEW S, NEW F, NEW it, Sums(F, S, it)
  PROVE  \A s \in SUBSET S : it[s] = IF s = {} THEN 0 ELSE F[Pick(s)] + it[s \ {Pick(s)}]
BY DEF Sums

LEMMA PickType == ASSUME NEW s, s # {} PROVE Pick(s) \in s
BY DEF Pick

(* Summands that differ at one place only make sums that differ as they do. *)
AlikeSums(S, F, G, a, T, U, it, jt, r) ==
    /\ IsFiniteSet(S) /\ Numbers(F, S) /\ Numbers(G, S) /\ AlikeBut(F, G, S, a)
    /\ T \in SUBSET S /\ U \in SUBSET S /\ r \subseteq T /\ r \subseteq U
    /\ Sums(F, T, it) /\ Sums(G, U, jt)

LEMMA SumsDiffer ==
  ASSUME NEW S, NEW F, NEW G, NEW a, NEW T, NEW U, NEW it, NEW jt, NEW r,
         AlikeSums(S, F, G, a, T, U, it, jt, r)
  PROVE  /\ it[r] \in Int
         /\ a \in r => jt[r] = it[r] + (G[a] - F[a])
         /\ a \notin r => jt[r] = it[r]
<1> USE DEF AlikeSums
<1>i. \A v \in SUBSET T : it[v] = IF v = {} THEN 0 ELSE F[Pick(v)] + it[v \ {Pick(v)}]
  BY DEF Sums
<1>j. \A v \in SUBSET U : jt[v] = IF v = {} THEN 0 ELSE G[Pick(v)] + jt[v \ {Pick(v)}]
  BY DEF Sums
<1> DEFINE OK(s) == /\ it[s] \in Int
                    /\ a \in s => jt[s] = it[s] + (G[a] - F[a])
                    /\ a \notin s => jt[s] = it[s]
           Bad == {s \in SUBSET (T \cap U) : ~OK(s)}
<1>1. SUFFICES Bad = {}
  BY <1>1
<1>2. SUFFICES ASSUME Bad # {} PROVE FALSE
  OBVIOUS
<1>3. PICK s \in Bad : \A t \in Bad : t \subseteq s => t = s
  <2>1. Bad \subseteq SUBSET S
    OBVIOUS
  <2> HIDE DEF Bad
  <2> QED BY <1>2, <2>1, SmallestSet
<1>4. s \subseteq T /\ s \subseteq U /\ ~OK(s)
  OBVIOUS
<1>5. CASE s = {}
  <2>1. it[s] = 0 /\ jt[s] = 0
    BY <1>4, <1>5, <1>i, <1>j
  <2> QED
    BY <1>4, <1>5, <2>1
<1>6. CASE s # {}
  <2> DEFINE x == Pick(s)
             t == s \ {x}
  <2>1. x \in s /\ it[s] = F[x] + it[t] /\ jt[s] = G[x] + jt[t]
    BY <1>4, <1>6, <1>i, <1>j, PickType
  <2>2. OK(t)
    BY <1>3, <1>4, <2>1
  <2>3. x \in S /\ F[x] \in Int /\ G[x] \in Int
    BY <1>4, <2>1 DEF Numbers
  <2>4. CASE x = a
    BY <2>1, <2>2, <2>3, <2>4, <1>4
  <2>5. CASE x # a
    <3>1. G[x] = F[x] /\ (a \in t <=> a \in s)
      BY <2>3, <2>5 DEF AlikeBut
    <3>2. CASE a \in s
      <4>1. G[a] \in Int /\ F[a] \in Int
        BY <1>4, <3>2 DEF Numbers
      <4> QED
        BY <2>1, <2>2, <2>3, <3>1, <3>2, <4>1, <1>4
    <3>3. CASE a \notin s
      BY <2>1, <2>2, <2>3, <3>1, <3>3, <1>4
    <3> QED
      BY <3>2, <3>3
  <2> QED
    BY <2>4, <2>5
<1> QED
  BY <1>5, <1>6

LEMMA SumsAgree ==
  ASSUME NEW S, IsFiniteSet(S), NEW F, Numbers(F, S),
         NEW T \in SUBSET S, NEW U \in SUBSET S, NEW it, NEW jt,
         Sums(F, T, it), Sums(F, U, jt), NEW r, r \subseteq T, r \subseteq U
  PROVE  it[r] \in Int /\ jt[r] = it[r]
<1>1. PICK a : a \notin S
  BY NoSetContainsEverything
<1>2. AlikeSums(S, F, F, a, T, U, it, jt, r)
  BY DEF AlikeBut, AlikeSums
<1>3. /\ it[r] \in Int
      /\ a \in r => jt[r] = it[r] + (F[a] - F[a])
      /\ a \notin r => jt[r] = it[r]
  BY <1>2, SumsDiffer
<1> QED
  BY <1>1, <1>3

(* Every finite sum exists: a smallest set without one would have the sums of *)
(* its proper subsets put together.                                           *)
LEMMA SumsExist ==
  ASSUME NEW S, IsFiniteSet(S), NEW F, Numbers(F, S)
  PROVE  \E it : Sums(F, S, it)
<1> DEFINE Bad == {s \in SUBSET S : ~\E it : Sums(F, s, it)}
<1>1. SUFFICES ASSUME Bad # {} PROVE FALSE
  OBVIOUS
<1>2. PICK T \in Bad : \A t \in Bad : t \subseteq T => t = T
  <2>1. Bad \subseteq SUBSET S
    OBVIOUS
  <2> HIDE DEF Bad
  <2> QED BY <1>1, <2>1, SmallestSet
<1> DEFINE H(s) == CHOOSE it : Sums(F, s, it)
           jt == [s \in SUBSET T |-> IF s = T /\ T # {}
                                     THEN F[Pick(T)] + H(T \ {Pick(T)})[T \ {Pick(T)}]
                                     ELSE IF s = {} THEN 0 ELSE H(s)[s]]
<1>3. T \in SUBSET S /\ ~\E it : Sums(F, T, it)
  OBVIOUS
<1>4. ASSUME NEW s \in SUBSET T, s # T PROVE Sums(F, s, H(s))
  <2>1. \E it : Sums(F, s, it)
    BY <1>2, <1>3, <1>4
  <2> QED
    BY <2>1, Zenon
<1>5. ASSUME NEW s \in SUBSET T
      PROVE  jt[s] = IF s = {} THEN 0 ELSE F[Pick(s)] + jt[s \ {Pick(s)}]
  <2> HIDE DEF H, Bad
  <2> DEFINE x == Pick(s)
             t == s \ {x}
  <2>1. CASE s = {}
    BY <2>1
  <2>2. CASE s # {}
    <3>1. x \in s /\ t \in SUBSET T /\ t # T /\ t # s
      BY <2>2 DEF Pick
    <3>2. Sums(F, t, H(t))
      BY <1>4, <3>1
    <3>3. jt[t] = H(t)[t]
      <4> HIDE DEF x
      <4>1. CASE t = {}
        <5>1. H(t)[t] = 0
          BY <3>2, <4>1, SumOf
        <5> QED
          BY <3>1, <4>1, <5>1
      <4>2. CASE t # {}
        BY <3>1, <4>2
      <4> QED BY <4>1, <4>2
    <3>4. CASE s = T
      BY <2>2, <3>3, <3>4
    <3>5. CASE s # T
      <4>1. Sums(F, s, H(s))
        BY <1>4, <3>5
      <4>2. H(s)[s] = F[x] + H(s)[t]
        BY <2>2, <4>1, <3>5, SumOf
      <4>3. H(s)[t] = H(t)[t]
        <5>1. s \in SUBSET S /\ t \in SUBSET S /\ t \subseteq s
          BY <1>3, <3>1
        <5> HIDE DEF t
        <5> QED BY <3>2, <4>1, <5>1, SumsAgree
      <4>4. jt[s] = H(s)[s]
        BY <2>2, <3>5
      <4> QED
        BY <2>2, <3>3, <4>2, <4>3, <4>4
    <3> QED BY <3>4, <3>5
  <2> QED BY <2>1, <2>2
<1>6. Sums(F, T, jt)
  <2>1. jt = [s \in SUBSET T |-> jt[s]]
    OBVIOUS
  <2> HIDE DEF jt
  <2> QED BY <1>5, <2>1 DEF Sums
<1> QED
  BY <1>3, <1>6

SumOver(F, S) == (CHOOSE it : Sums(F, S, it))[S]

LEMMA SumIsTaken ==
  ASSUME NEW S, IsFiniteSet(S), NEW F, Numbers(F, S)
  PROVE  Sums(F, S, CHOOSE it : Sums(F, S, it))
BY SumsExist, Zenon

LEMMA SumOverIs ==
  ASSUME NEW S, IsFiniteSet(S), NEW F, Numbers(F, S), NEW it, Sums(F, S, it)
  PROVE  it[S] = SumOver(F, S)
<1> DEFINE jt == CHOOSE jt : Sums(F, S, jt)
<1>1. Sums(F, S, jt) /\ SumOver(F, S) = jt[S]
  BY SumIsTaken DEF SumOver
<1> HIDE DEF jt
<1> QED
  BY <1>1, SumsAgree

LEMMA SumOverType ==
  ASSUME NEW S, IsFiniteSet(S), NEW F, Numbers(F, S)
  PROVE  SumOver(F, S) \in Int
<1> DEFINE it == CHOOSE it : Sums(F, S, it)
<1>1. Sums(F, S, it)
  BY SumIsTaken
<1>2. SumOver(F, S) = it[S]
  BY DEF SumOver
<1> HIDE DEF it
<1> QED
  BY <1>1, <1>2, SumsAgree

(* Any member can be taken out of a sum, not only the one that is chosen. *)
LEMMA SumsTakeOut ==
  ASSUME NEW S, IsFiniteSet(S), NEW F, Numbers(F, S), NEW it, Sums(F, S, it),
         NEW s \in SUBSET S, NEW a \in s
  PROVE  it[s] = F[a] + it[s \ {a}]
<1>i. \A v \in SUBSET S : it[v] = IF v = {} THEN 0 ELSE F[Pick(v)] + it[v \ {Pick(v)}]
  BY SumOf
<1>n. \A v \in SUBSET S : it[v] \in Int
  BY SumsAgree
<1> DEFINE Wrong(v) == \E b \in v : it[v] # F[b] + it[v \ {b}]
           Bad == {v \in SUBSET S : Wrong(v)}
<1>1. SUFFICES ASSUME Bad # {} PROVE FALSE
  OBVIOUS
<1>2. PICK v \in Bad : \A u \in Bad : u \subseteq v => u = v
  <2>1. Bad \subseteq SUBSET S
    OBVIOUS
  <2> HIDE DEF Bad
  <2> QED BY <1>1, <2>1, SmallestSet
<1>3. v \in SUBSET S /\ Wrong(v)
  OBVIOUS
<1>4. PICK b \in v : it[v] # F[b] + it[v \ {b}]
  BY <1>3
<1> DEFINE x == Pick(v)
<1>5. x \in v /\ it[v] = F[x] + it[v \ {x}]
  BY <1>3, <1>4, <1>i, PickType
<1>6. x # b
  BY <1>4, <1>5
<1>7. \A u \in SUBSET v : u # v => \A c \in u : it[u] = F[c] + it[u \ {c}]
  BY <1>2, <1>3
<1> HIDE DEF x, Bad, Wrong
<1>8. it[v \ {x}] = F[b] + it[(v \ {x}) \ {b}]
  <2>1. v \ {x} \in SUBSET v /\ v \ {x} # v /\ b \in v \ {x}
    BY <1>5, <1>6
  <2> QED BY <1>7, <2>1
<1>9. it[v \ {b}] = F[x] + it[(v \ {b}) \ {x}]
  <2>1. v \ {b} \in SUBSET v /\ v \ {b} # v /\ x \in v \ {b}
    BY <1>5, <1>6
  <2> QED BY <1>7, <2>1
<1>10. (v \ {b}) \ {x} = (v \ {x}) \ {b}
  OBVIOUS
<1>11. F[x] \in Int /\ F[b] \in Int /\ it[(v \ {x}) \ {b}] \in Int
  <2>1. x \in S /\ b \in S /\ (v \ {x}) \ {b} \in SUBSET S
    BY <1>3, <1>5
  <2> QED BY <2>1, <1>n DEF Numbers
<1>12. it[v] = F[b] + it[v \ {b}]
  <2> DEFINE m == it[(v \ {x}) \ {b}]
             fx == F[x]
             fb == F[b]
  <2>1. it[v] = fx + (fb + m) /\ it[v \ {b}] = fx + m
    BY <1>5, <1>8, <1>9, <1>10
  <2>2. fx \in Int /\ fb \in Int /\ m \in Int
    BY <1>11
  <2> HIDE DEF m, fx, fb
  <2>3. it[v] = fb + it[v \ {b}]
    BY <2>1, <2>2
  <2> QED BY <2>3 DEF fb
<1> QED
  BY <1>4, <1>12

LEMMA SumOverNone ==
  ASSUME NEW F
  PROVE  SumOver(F, {}) = 0
<1>1. Numbers(F, {}) /\ IsFiniteSet({})
  BY FS_EmptySet DEF Numbers
<1> DEFINE it == CHOOSE it : Sums(F, {}, it)
<1>2. Sums(F, {}, it)
  BY <1>1, SumIsTaken
<1>3. SumOver(F, {}) = it[{}]
  BY DEF SumOver
<1> HIDE DEF it
<1>4. it[{}] = 0
  BY <1>2, SumOf
<1> QED
  BY <1>3, <1>4

LEMMA SumOverAdds ==
  ASSUME NEW S, IsFiniteSet(S), NEW F, Numbers(F, S), NEW a \in S
  PROVE  SumOver(F, S) = F[a] + SumOver(F, S \ {a})
<1> DEFINE it == CHOOSE it : Sums(F, S, it)
           R == S \ {a}
           jt == CHOOSE jt : Sums(F, R, jt)
<1>1. IsFiniteSet(R) /\ R \subseteq S /\ Numbers(F, R)
  BY FS_Subset DEF Numbers
<1>2. Sums(F, S, it) /\ SumOver(F, S) = it[S]
  BY SumIsTaken DEF SumOver
<1>3. Sums(F, R, jt) /\ SumOver(F, R) = jt[R]
  <2>1. SumOver(F, R) = jt[R]
    BY DEF SumOver
  <2>2. Sums(F, R, jt)
    <3> HIDE DEF R
    <3> QED BY <1>1, SumIsTaken
  <2> QED BY <2>1, <2>2
<1> HIDE DEF it, jt
<1>4. it[S] = F[a] + it[R]
  BY <1>2, SumsTakeOut
<1> HIDE DEF R
<1>5. jt[R] = it[R]
  <2>1. S \in SUBSET S /\ R \in SUBSET S /\ R \subseteq R
    BY <1>1
  <2> QED BY <1>1, <1>2, <1>3, <2>1, SumsAgree
<1> QED
  BY <1>2, <1>3, <1>4, <1>5 DEF R

AtMost(G, F, S) == \A x \in S : G[x] <= F[x]

(* Smaller summands make a smaller sum. *)
LEMMA SumOverAtMost ==
  ASSUME NEW S, IsFiniteSet(S), NEW F, NEW G, Numbers(F, S), Numbers(G, S), AtMost(G, F, S)
  PROVE  SumOver(G, S) <= SumOver(F, S)
<1> DEFINE Bad == {s \in SUBSET S : ~ (SumOver(G, s) <= SumOver(F, s))}
<1>1. SUFFICES ASSUME Bad # {} PROVE FALSE
  OBVIOUS
<1>2. PICK s \in Bad : \A t \in Bad : t \subseteq s => t = s
  <2>1. Bad \subseteq SUBSET S
    OBVIOUS
  <2> HIDE DEF Bad
  <2> QED BY <1>1, <2>1, SmallestSet
<1>3. s \in SUBSET S /\ ~ (SumOver(G, s) <= SumOver(F, s))
  OBVIOUS
<1>4. CASE s = {}
  <2>1. SumOver(G, {}) = 0 /\ SumOver(F, {}) = 0
    BY SumOverNone
  <2> QED BY <1>3, <1>4, <2>1
<1>5. CASE s # {}
  <2>1. PICK a : a \in s
    BY <1>5
  <2> DEFINE t == s \ {a}
  <2>2. SumOver(G, t) <= SumOver(F, t)
    <3>1. t \subseteq s /\ t # s /\ t \in SUBSET S
      BY <1>3, <2>1
    <3> QED BY <1>2, <3>1
  <2>3. IsFiniteSet(s) /\ Numbers(F, s) /\ Numbers(G, s)
    BY <1>3, FS_Subset DEF Numbers
  <2>4. SumOver(F, s) = F[a] + SumOver(F, t) /\ SumOver(G, s) = G[a] + SumOver(G, t)
    BY <2>1, <2>3, SumOverAdds
  <2>5. IsFiniteSet(t) /\ Numbers(F, t) /\ Numbers(G, t)
    BY <2>3, FS_Subset DEF Numbers
  <2>6. F[a] \in Int /\ G[a] \in Int /\ G[a] <= F[a]
    BY <1>3, <2>1 DEF Numbers, AtMost
  <2> HIDE DEF t
  <2>7. SumOver(F, t) \in Int /\ SumOver(G, t) \in Int
    BY <2>5, SumOverType
  <2> HIDE DEF Bad
  <2> QED BY <1>3, <2>2, <2>4, <2>6, <2>7
<1> QED
  BY <1>4, <1>5

(* A sum of numbers that are not negative is at least that over a part. *)
LEMMA SumOverPart ==
  ASSUME NEW S, IsFiniteSet(S), NEW F, \A x \in S : F[x] \in Nat, NEW R, R \subseteq S
  PROVE  SumOver(F, R) <= SumOver(F, S)
<1> DEFINE Bad == {s \in SUBSET S : ~ (SumOver(F, s \cap R) <= SumOver(F, s))}
<1>1. ASSUME Bad # {} PROVE FALSE
  <2>1. PICK s \in Bad : \A t \in Bad : t \subseteq s => t = s
    <3>1. Bad \subseteq SUBSET S
      OBVIOUS
    <3> HIDE DEF Bad
    <3> QED BY <1>1, <3>1, SmallestSet
  <2>2. s \in SUBSET S /\ ~ (SumOver(F, s \cap R) <= SumOver(F, s))
    OBVIOUS
  <2>3. s # {}
    <3>1. SumOver(F, {}) = 0 /\ {} \cap R = {}
      BY SumOverNone
    <3>2. ASSUME s = {} PROVE FALSE
      <4>1. SumOver(F, s \cap R) = 0 /\ SumOver(F, s) = 0
        BY <3>1, <3>2, Zenon
      <4> QED BY <2>2, <4>1
    <3> QED BY <3>2
  <2>4. PICK a : a \in s
    BY <2>3
  <2> DEFINE t == s \ {a}
             u == s \cap R
  <2>5. SumOver(F, t \cap R) <= SumOver(F, t)
    <3>1. t \subseteq s /\ t # s /\ t \in SUBSET S
      BY <2>2, <2>4
    <3> QED BY <2>1, <3>1
  <2>6. /\ IsFiniteSet(s) /\ Numbers(F, s) /\ IsFiniteSet(t) /\ Numbers(F, t)
        /\ IsFiniteSet(u) /\ Numbers(F, u) /\ IsFiniteSet(t \cap R) /\ Numbers(F, t \cap R)
    <3>1. s \subseteq S /\ t \subseteq S /\ u \subseteq S /\ t \cap R \subseteq S
      BY <2>2
    <3>2. \A v : v \subseteq S => IsFiniteSet(v) /\ Numbers(F, v)
      BY FS_Subset DEF Numbers
    <3> HIDE DEF t, u
    <3> QED BY <3>1, <3>2
  <2>7. SumOver(F, s) = F[a] + SumOver(F, t) /\ F[a] \in Nat
    BY <2>2, <2>4, <2>6, SumOverAdds
  <2>8. SumOver(F, t) \in Int /\ SumOver(F, t \cap R) \in Int
    <3> HIDE DEF t
    <3> QED BY <2>6, SumOverType
  <2>9. CASE a \in R
    <3>1. a \in u /\ u \ {a} = t \cap R
      BY <2>4, <2>9
    <3>2. SumOver(F, u) = F[a] + SumOver(F, u \ {a})
      <4> HIDE DEF u
      <4> QED BY <2>6, <3>1, SumOverAdds
    <3>3. SumOver(F, u) <= SumOver(F, s)
      <4> HIDE DEF t, u, Bad
      <4> QED BY <2>5, <2>7, <2>8, <3>1, <3>2
    <3> QED BY <2>2, <3>3
  <2>10. CASE a \notin R
    <3>1. u = t \cap R
      BY <2>10
    <3>2. SumOver(F, u) <= SumOver(F, s)
      <4> HIDE DEF t, u, Bad
      <4> QED BY <2>5, <2>7, <2>8, <3>1
    <3> QED BY <2>2, <3>2
  <2> QED BY <2>9, <2>10
<1>2. SumOver(F, S \cap R) <= SumOver(F, S)
  <2>1. S \notin Bad
    BY <1>1
  <2> QED BY <2>1
<1>3. S \cap R = R
  OBVIOUS
<1> QED
  BY <1>2, <1>3

(* Equal summands make equal sums. *)
LEMMA SumOverSame ==
  ASSUME NEW S, IsFiniteSet(S), NEW F, NEW G, Numbers(F, S), \A x \in S : G[x] = F[x]
  PROVE  SumOver(G, S) = SumOver(F, S)
<1>1. Numbers(G, S) /\ AtMost(G, F, S) /\ AtMost(F, G, S)
  <2>1. \A x \in S : G[x] = F[x] /\ F[x] \in Int
    BY DEF Numbers
  <2>2. \A x \in S : G[x] <= F[x] /\ F[x] <= G[x] /\ G[x] \in Int
    <3>1. \A n \in Int : n <= n
      OBVIOUS
    <3> QED BY <2>1, <3>1
  <2> QED BY <2>2 DEF Numbers, AtMost
<1>2. SumOver(G, S) <= SumOver(F, S) /\ SumOver(F, S) <= SumOver(G, S)
  BY <1>1, SumOverAtMost
<1>3. SumOver(G, S) \in Int /\ SumOver(F, S) \in Int
  BY <1>1, SumOverType
<1> QED
  BY <1>2, <1>3

(* One summand changes. *)
LEMMA SumOverDiffers ==
  ASSUME NEW S, IsFiniteSet(S), NEW F, NEW G, Numbers(F, S), Numbers(G, S), NEW a \in S,
         AlikeBut(F, G, S, a)
  PROVE  SumOver(G, S) = SumOver(F, S) + (G[a] - F[a])
<1> DEFINE R == S \ {a}
<1>1. SumOver(F, S) = F[a] + SumOver(F, R) /\ SumOver(G, S) = G[a] + SumOver(G, R)
  BY SumOverAdds
<1>2. IsFiniteSet(R) /\ Numbers(F, R) /\ \A x \in R : G[x] = F[x]
  BY FS_Subset DEF Numbers, AlikeBut
<1> HIDE DEF R
<1>3. SumOver(G, R) = SumOver(F, R) /\ SumOver(F, R) \in Int
  BY <1>2, SumOverSame, SumOverType
<1>4. F[a] \in Int /\ G[a] \in Int
  BY DEF Numbers
<1> QED
  BY <1>1, <1>3, <1>4

----------------------------------------------------------------------------
(* What lies on a tile, and what players carry *)

LEMMA SumFunctionIs ==
  ASSUME NEW F
  PROVE  SumFunction(F) = SumOver(F, DOMAIN F)
BY DEF SumFunction, SumFunctionOnSet, FoldFunctionOnSet, MapThenFoldSet, SumOver, Sums, Pick

(* What a sum over the places of a list has to do with the places. *)
MovedBy(H, F, g, m) == \A k \in 1..m : H[k] = F[g[k]]

LEMMA SumMoved ==
  ASSUME NEW g, NEW m, NEW S, Enumerates(g, m, S), NEW F, NEW H, Numbers(F, S),
         MovedBy(H, F, g, m)
  PROVE  SumOver(H, 1..m) = SumOver(F, S)
<1> DEFINE Image(n) == {g[k] : k \in 1..n}
           Fails(n) == n <= m /\ SumOver(H, 1..n) # SumOver(F, Image(n))
           bad == {n \in Nat : Fails(n)}
<1>0. /\ m \in Nat /\ \A k \in 1..m : g[k] \in S
      /\ \A x \in S : \E k \in 1..m : g[k] = x
      /\ \A j, k \in 1..m : g[j] = g[k] => j = k
  BY EnumerationFields
<1>1. \A k \in 1..m : H[k] = F[g[k]] /\ F[g[k]] \in Int
  BY <1>0 DEF Numbers, MovedBy
<1>2. ASSUME bad # {} PROVE FALSE
  <2>1. PICK n \in bad : \A q \in bad : n <= q
    <3>1. bad \subseteq Nat
      OBVIOUS
    <3> HIDE DEF bad
    <3> QED BY <1>2, <3>1, Least
  <2>2. n \in Nat /\ n <= m /\ SumOver(H, 1..n) # SumOver(F, Image(n))
    OBVIOUS
  <2>3. CASE n = 0
    <3>1. 1..0 = {} /\ Image(0) = {}
      OBVIOUS
    <3> HIDE DEF Image
    <3>2. SumOver(H, 1..0) = 0 /\ SumOver(F, Image(0)) = 0
      BY <3>1, SumOverNone
    <3> QED BY <2>2, <2>3, <3>2
  <2>4. CASE n # 0
    <3>1. n - 1 \in Nat /\ n - 1 <= m /\ n \in 1..n /\ n \in 1..m
      BY <1>0, <2>2, <2>4
    <3>2. SumOver(H, 1..(n - 1)) = SumOver(F, Image(n - 1))
      <4>1. n - 1 \notin bad
        <5> HIDE DEF bad
        <5>1. ~ (n <= n - 1)
          BY <2>2
        <5> QED BY <2>1, <5>1
      <4> QED BY <3>1, <4>1
    <3>3. (1..n) \ {n} = 1..(n - 1)
      BY <2>2, <3>1
    <3>4. \A k \in 1..n : k \in 1..m
      BY <1>0, <2>2
    <3>5. Image(n) \ {g[n]} = Image(n - 1) /\ g[n] \in Image(n) /\ Image(n) \subseteq S
      <4>1. \A k \in 1..n : g[k] = g[n] => k = n
        BY <1>0, <3>1, <3>4
      <4>2. \A k : k \in 1..n /\ k # n <=> k \in 1..(n - 1)
        BY <3>3, <3>1
      <4>3. g[n] \in Image(n) /\ Image(n) \subseteq S
        BY <1>0, <3>1, <3>4
      <4>4. \A y : y \in Image(n) /\ y # g[n] <=> y \in Image(n - 1)
        BY <4>1, <4>2
      <4> HIDE DEF Image
      <4> QED BY <4>3, <4>4
    <3>6. IsFiniteSet(1..n) /\ IsFiniteSet(Image(n))
      <4>1. IsFiniteSet(1..n)
        BY <2>2, FS_Interval
      <4>2. IsFiniteSet(S) /\ Image(n) \in SUBSET S
        BY <3>5, EnumeratedCount
      <4>3. IsFiniteSet(Image(n))
        <5> HIDE DEF Image
        <5> QED BY <4>2, FS_Subset
      <4> QED BY <4>1, <4>3
    <3> HIDE DEF Image
    <3>7. Numbers(H, 1..n) /\ Numbers(F, Image(n))
      BY <1>1, <3>4, <3>5 DEF Numbers
    <3>8. SumOver(H, 1..n) = H[n] + SumOver(H, (1..n) \ {n})
      BY <3>1, <3>6, <3>7, SumOverAdds
    <3>9. SumOver(F, Image(n)) = F[g[n]] + SumOver(F, Image(n) \ {g[n]})
      BY <3>5, <3>6, <3>7, SumOverAdds
    <3>10. H[n] = F[g[n]]
      BY <1>1, <3>1
    <3>11. SumOver(H, 1..n) = SumOver(F, Image(n))
      BY <3>2, <3>3, <3>5, <3>8, <3>9, <3>10
    <3> QED BY <2>2, <3>11
  <2> QED BY <2>3, <2>4
<1>3. SumOver(H, 1..m) = SumOver(F, Image(m))
  <2>1. m \notin bad
    BY <1>2
  <2> QED BY <1>0, <2>1
<1>4. Image(m) = S
  BY <1>0
<1> HIDE DEF Image
<1> QED
  BY <1>3, <1>4

(* What the items of a tile weigh. *)
Weights(W, s) == [k \in DOMAIN s |-> W[s[k]]]
OnTile(W, s) == SumFunction(Weights(W, s))

LEMMA OnTileIs ==
  ASSUME NEW W \in [Item -> Nat], NEW s \in Seq(Item)
  PROVE  /\ Len(s) \in Nat /\ DOMAIN s = 1..Len(s) /\ IsFiniteSet(1..Len(s))
         /\ \A k \in 1..Len(s) : s[k] \in Item
         /\ \A k \in 1..Len(s) : Weights(W, s)[k] = W[s[k]] /\ W[s[k]] \in Nat
         /\ Numbers(Weights(W, s), 1..Len(s))
         /\ OnTile(W, s) = SumOver(Weights(W, s), 1..Len(s))
         /\ OnTile(W, s) \in Int
<1>1. Len(s) \in Nat /\ DOMAIN s = 1..Len(s) /\ \A k \in 1..Len(s) : s[k] \in Item
  BY LenProperties, ElementOfSeq
<1>2. \A k \in 1..Len(s) : Weights(W, s)[k] = W[s[k]] /\ W[s[k]] \in Nat
  BY <1>1 DEF Weights
<1>3. DOMAIN Weights(W, s) = 1..Len(s)
  BY <1>1 DEF Weights
<1>4. OnTile(W, s) = SumOver(Weights(W, s), 1..Len(s))
  BY <1>3, SumFunctionIs DEF OnTile
<1>5. IsFiniteSet(1..Len(s))
  BY <1>1, FS_Interval
<1>6. Numbers(Weights(W, s), 1..Len(s))
  BY <1>2 DEF Numbers
<1>7. SumOver(Weights(W, s), 1..Len(s)) \in Int
  BY <1>5, <1>6, SumOverType
<1> QED
  BY <1>1, <1>2, <1>4, <1>5, <1>6, <1>7

LEMMA OnTileAppended ==
  ASSUME NEW W \in [Item -> Nat], NEW s \in Seq(Item), NEW item \in Item
  PROVE  OnTile(W, Append(s, item)) = OnTile(W, s) + W[item]
<1> DEFINE n == Len(s)
           w == Append(s, item)
<1>1. w \in Seq(Item) /\ Len(w) = n + 1 /\ w[n + 1] = item /\ \A k \in 1..n : w[k] = s[k]
  BY AppendProperties
<1> HIDE DEF w
<1>2. /\ n \in Nat /\ IsFiniteSet(1..n) /\ Numbers(Weights(W, s), 1..n)
      /\ \A k \in 1..n : Weights(W, s)[k] = W[s[k]]
      /\ OnTile(W, s) = SumOver(Weights(W, s), 1..n) /\ OnTile(W, s) \in Int
  BY OnTileIs
<1>3. /\ IsFiniteSet(1..(n + 1)) /\ Numbers(Weights(W, w), 1..(n + 1))
      /\ \A k \in 1..(n + 1) : Weights(W, w)[k] = W[w[k]]
      /\ OnTile(W, w) = SumOver(Weights(W, w), 1..(n + 1))
  BY <1>1, OnTileIs
<1> HIDE DEF n
<1>4. (1..(n + 1)) \ {n + 1} = 1..n /\ n + 1 \in 1..(n + 1) /\ \A k \in 1..n : k \in 1..(n + 1)
  BY <1>2
<1>5. SumOver(Weights(W, w), 1..(n + 1)) = Weights(W, w)[n + 1] + SumOver(Weights(W, w), 1..n)
  <2> DEFINE N == 1..(n + 1)
             a == n + 1
             F == Weights(W, w)
  <2>1. IsFiniteSet(N) /\ Numbers(F, N) /\ a \in N /\ N \ {a} = 1..n
    BY <1>3, <1>4
  <2> HIDE DEF N, a, F
  <2>2. SumOver(F, N) = F[a] + SumOver(F, N \ {a})
    BY <2>1, SumOverAdds
  <2> QED BY <2>1, <2>2 DEF N, a, F
<1>6. Weights(W, w)[n + 1] = W[item] /\ W[item] \in Nat
  BY <1>1, <1>3, <1>4
<1>7. SumOver(Weights(W, w), 1..n) = SumOver(Weights(W, s), 1..n)
  <2>1. \A k \in 1..n : Weights(W, w)[k] = Weights(W, s)[k]
    BY <1>1, <1>2, <1>3, <1>4
  <2> QED BY <1>2, <2>1, SumOverSame
<1> QED
  BY <1>2, <1>3, <1>5, <1>6, <1>7 DEF w

LEMMA OnTileChanged ==
  ASSUME NEW W \in [Item -> Nat], NEW s \in Seq(Item), NEW at \in 1..Len(s), NEW item \in Item
  PROVE  /\ [s EXCEPT ![at] = item] \in Seq(Item)
         /\ OnTile(W, [s EXCEPT ![at] = item]) = OnTile(W, s) + (W[item] - W[s[at]])
<1> DEFINE w == [s EXCEPT ![at] = item]
<1>1. w \in Seq(Item) /\ Len(w) = Len(s) /\ w[at] = item
      /\ \A k \in 1..Len(s) : k # at => w[k] = s[k]
  BY ExceptSeq
<1> HIDE DEF w
<1>2. /\ IsFiniteSet(1..Len(s)) /\ Numbers(Weights(W, s), 1..Len(s))
      /\ \A k \in 1..Len(s) : Weights(W, s)[k] = W[s[k]]
      /\ OnTile(W, s) = SumOver(Weights(W, s), 1..Len(s))
  BY OnTileIs
<1>3. /\ Numbers(Weights(W, w), 1..Len(s))
      /\ \A k \in 1..Len(s) : Weights(W, w)[k] = W[w[k]]
      /\ OnTile(W, w) = SumOver(Weights(W, w), 1..Len(s))
  <2>1. /\ Numbers(Weights(W, w), 1..Len(w))
        /\ \A k \in 1..Len(w) : Weights(W, w)[k] = W[w[k]]
        /\ OnTile(W, w) = SumOver(Weights(W, w), 1..Len(w))
    BY <1>1, OnTileIs
  <2> QED BY <1>1, <2>1, Zenon
<1>4. AlikeBut(Weights(W, s), Weights(W, w), 1..Len(s), at)
  BY <1>1, <1>2, <1>3 DEF AlikeBut
<1>5. SumOver(Weights(W, w), 1..Len(s))
        = SumOver(Weights(W, s), 1..Len(s)) + (Weights(W, w)[at] - Weights(W, s)[at])
  BY <1>2, <1>3, <1>4, SumOverDiffers
<1>6. Weights(W, w)[at] = W[item] /\ Weights(W, s)[at] = W[s[at]]
  BY <1>1, <1>2, <1>3
<1> QED
  BY <1>1, <1>2, <1>3, <1>5, <1>6 DEF w

PartOf(w, s) == \A k \in DOMAIN w : \E j \in DOMAIN s : w[k] = s[j]

(* What is left of a tile weighs what the places that are left do. *)
LEMMA OnTileWithout ==
  ASSUME NEW W \in [Item -> Nat], NEW s \in Seq(Item), NEW places
  PROVE  /\ OnTile(W, Without(s, places)) = SumOver(Weights(W, s), (1..Len(s)) \ places)
         /\ PartOf(Without(s, places), s)
<1> DEFINE S == (1..Len(s)) \ places
           g == Ordered(S)
           m == Cardinality(S)
           w == Without(s, places)
<1>1. /\ Len(s) \in Nat /\ DOMAIN s = 1..Len(s) /\ IsFiniteSet(1..Len(s))
      /\ \A k \in 1..Len(s) : s[k] \in Item
      /\ \A k \in 1..Len(s) : Weights(W, s)[k] = W[s[k]] /\ W[s[k]] \in Nat
  BY OnTileIs
<1>2. S \subseteq 1..Len(s) /\ IsFiniteSet(S) /\ S \subseteq Nat
  <2>1. S \subseteq 1..Len(s) /\ S \subseteq Nat
    BY <1>1
  <2> HIDE DEF S
  <2> QED BY <1>1, <2>1, FS_Subset
<1>3. Enumerates(g, m, S)
  <2> HIDE DEF S
  <2> QED BY <1>2, OrderedEnumerates
<1>4. m \in Nat /\ DOMAIN g = 1..m /\ \A k \in 1..m : g[k] \in S
  <2> HIDE DEF S, g, m
  <2> QED BY <1>3, EnumerationFields
<1>5. w = [k \in 1..m |-> s[g[k]]]
  <2>1. w = [k \in DOMAIN g |-> s[g[k]]]
    BY <1>1 DEF Without
  <2> HIDE DEF S, g, m, w
  <2> QED BY <1>4, <2>1
<1>6. w \in Seq(Item)
  BY WithoutIs
<1> HIDE DEF S, g, m, w
<1>7. DOMAIN w = 1..m /\ \A k \in 1..m : w[k] = s[g[k]] /\ g[k] \in 1..Len(s)
  BY <1>2, <1>4, <1>5
<1>8. MovedBy(Weights(W, w), Weights(W, s), g, m)
  <2>1. \A k \in 1..m : W[w[k]] = Weights(W, s)[g[k]]
    BY <1>1, <1>7
  <2>2. \A k \in 1..m : Weights(W, w)[k] = W[w[k]]
    BY <1>7 DEF Weights
  <2> QED BY <2>1, <2>2 DEF MovedBy
<1>9. OnTile(W, w) = SumOver(Weights(W, w), 1..m)
  <2>1. DOMAIN Weights(W, w) = 1..m
    BY <1>7 DEF Weights
  <2> QED BY <2>1, SumFunctionIs DEF OnTile
<1>10. Numbers(Weights(W, s), S)
  BY <1>1, <1>2 DEF Numbers
<1>11. SumOver(Weights(W, w), 1..m) = SumOver(Weights(W, s), S)
  BY <1>3, <1>8, <1>10, SumMoved
<1>12. PartOf(w, s)
  BY <1>1, <1>7 DEF PartOf
<1> QED
  BY <1>9, <1>11, <1>12 DEF S, w

LEMMA OnTileWithoutOne ==
  ASSUME NEW W \in [Item -> Nat], NEW s \in Seq(Item), NEW at \in 1..Len(s)
  PROVE  OnTile(W, Without(s, {at})) = OnTile(W, s) - W[s[at]]
<1>1. /\ IsFiniteSet(1..Len(s)) /\ Numbers(Weights(W, s), 1..Len(s))
      /\ Weights(W, s)[at] = W[s[at]] /\ W[s[at]] \in Nat
      /\ OnTile(W, s) = SumOver(Weights(W, s), 1..Len(s)) /\ OnTile(W, s) \in Int
  BY OnTileIs
<1>2. SumOver(Weights(W, s), 1..Len(s))
        = Weights(W, s)[at] + SumOver(Weights(W, s), (1..Len(s)) \ {at})
  BY <1>1, SumOverAdds
<1>3. OnTile(W, Without(s, {at})) = SumOver(Weights(W, s), (1..Len(s)) \ {at})
  BY OnTileWithout
<1>4. OnTile(W, Without(s, {at})) \in Int
  <2>1. Without(s, {at}) \in Seq(Item)
    BY WithoutIs
  <2> QED BY <2>1, OnTileIs
<1> QED
  BY <1>1, <1>2, <1>3, <1>4

LEMMA OnTileLess ==
  ASSUME NEW W \in [Item -> Nat], NEW s \in Seq(Item), NEW places
  PROVE  /\ OnTile(W, Without(s, places)) <= OnTile(W, s)
         /\ places = {} => OnTile(W, Without(s, places)) = OnTile(W, s)
<1> DEFINE F == Weights(W, s)
           S == 1..Len(s)
<1>1. IsFiniteSet(S) /\ OnTile(W, s) = SumOver(F, S) /\ \A k \in S : F[k] \in Nat
  BY OnTileIs
<1>2. OnTile(W, Without(s, places)) = SumOver(F, S \ places)
  BY OnTileWithout
<1> HIDE DEF F, S
<1>3. SumOver(F, S \ places) <= SumOver(F, S)
  <2>1. S \ places \subseteq S
    OBVIOUS
  <2> QED BY <1>1, <2>1, SumOverPart
<1>4. S \ {} = S
  OBVIOUS
<1> QED
  BY <1>1, <1>2, <1>3, <1>4

(* All players, all tiles. *)
Held(x, gs) == SumFunction([p \in Players |-> gs[p][x]])
Lying(W, g) == SumFunction([t \in Tiles |-> OnTile(W, g[t])])

Weight(x) == [item \in Item |-> Share(x, item)]
CorpseCount == [item \in Item |-> IF item.thing = Corpse THEN 1 ELSE 0]

LEMMA WeightIs ==
  ASSUME NEW x \in Things
  PROVE  /\ Weight(x) \in [Item -> Nat]
         /\ \A item \in Item :
               Weight(x)[item] = (IF item.thing = x THEN item.count ELSE 0)
                                 + (IF x = Loot THEN item.inside ELSE 0)
<1>1. ASSUME NEW item \in Item PROVE Share(x, item) \in Nat
  BY ItemFields DEF Share
<1> QED
  BY <1>1 DEF Weight, Share

LEMMA CorpseCountIs ==
  /\ CorpseCount \in [Item -> Nat]
  /\ \A item \in Item : CorpseCount[item] = IF item.thing = Corpse THEN 1 ELSE 0
BY DEF CorpseCount

LEMMA HeldType ==
  ASSUME NEW x \in Carried, NEW gs \in [Players -> [Carried -> Int]]
  PROVE  Held(x, gs) = SumOver([p \in Players |-> gs[p][x]], Players) /\ Held(x, gs) \in Int
<1> DEFINE F == [p \in Players |-> gs[p][x]]
<1>1. DOMAIN F = Players /\ Numbers(F, Players)
  BY DEF Numbers
<1> HIDE DEF F
<1>2. SumFunction(F) = SumOver(F, Players)
  BY <1>1, SumFunctionIs
<1>3. SumOver(F, Players) \in Int
  BY <1>1, SumOverType, GroundAssumption
<1> QED
  BY <1>2, <1>3 DEF F, Held

Gets(gs, hs, p, y, v) == hs = [gs EXCEPT ![p][y] = v]
ByGetting(gs, p, x, y, v) == IF x = y THEN v - gs[p][y] ELSE 0

Carrying(gs) == gs \in [Players -> [Carried -> Int]]

LEMMA HeldChanged ==
  ASSUME NEW x \in Carried, NEW gs, Carrying(gs),
         NEW p \in Players, NEW y \in Carried, NEW v \in Int,
         NEW hs, Gets(gs, hs, p, y, v)
  PROVE  Held(x, hs) = Held(x, gs) + ByGetting(gs, p, x, y, v)
<1> DEFINE F == [q \in Players |-> gs[q][x]]
           G == [q \in Players |-> hs[q][x]]
<1>0. gs \in [Players -> [Carried -> Int]]
  BY DEF Carrying
<1>1. hs \in [Players -> [Carried -> Int]]
  BY <1>0 DEF Gets
<1>2. hs[p][x] = (IF x = y THEN v ELSE gs[p][x]) /\ \A q \in Players : q # p => hs[q] = gs[q]
  BY <1>0 DEF Gets
<1>3. Numbers(F, Players) /\ Numbers(G, Players)
  BY <1>0, <1>1 DEF Numbers
<1>4. AlikeBut(F, G, Players, p)
  BY <1>2 DEF AlikeBut
<1>5. F[p] = gs[p][x] /\ G[p] = hs[p][x] /\ F[p] \in Int
  BY <1>0
<1>6. Held(x, gs) = SumOver(F, Players) /\ Held(x, hs) = SumOver(G, Players)
      /\ Held(x, gs) \in Int
  BY <1>0, <1>1, HeldType
<1> HIDE DEF F, G
<1>7. SumOver(G, Players) = SumOver(F, Players) + (G[p] - F[p])
  BY <1>3, <1>4, SumOverDiffers, GroundAssumption
<1>8. G[p] - F[p] = ByGetting(gs, p, x, y, v)
  BY <1>2, <1>5 DEF ByGetting
<1> QED
  BY <1>6, <1>7, <1>8

LEMMA LyingType ==
  ASSUME NEW W \in [Item -> Nat], NEW g \in [Tiles -> Seq(Item)]
  PROVE  /\ Lying(W, g) = SumOver([t \in Tiles |-> OnTile(W, g[t])], Tiles)
         /\ Lying(W, g) \in Int
         /\ Numbers([t \in Tiles |-> OnTile(W, g[t])], Tiles)
<1> DEFINE F == [t \in Tiles |-> OnTile(W, g[t])]
<1>1. \A t \in Tiles : OnTile(W, g[t]) \in Int
  BY OnTileIs
<1>2. DOMAIN F = Tiles /\ Numbers(F, Tiles)
  BY <1>1 DEF Numbers
<1> HIDE DEF F
<1>3. SumFunction(F) = SumOver(F, Tiles)
  BY <1>2, SumFunctionIs
<1>4. SumOver(F, Tiles) \in Int
  BY <1>2, SumOverType, GroundAssumption
<1> QED
  BY <1>2, <1>3, <1>4 DEF F, Lying

LEMMA LyingChanged ==
  ASSUME NEW W \in [Item -> Nat], NEW g \in [Tiles -> Seq(Item)], NEW t \in Tiles,
         NEW now \in Seq(Item)
  PROVE  Lying(W, [g EXCEPT ![t] = now]) = Lying(W, g) + (OnTile(W, now) - OnTile(W, g[t]))
<1> DEFINE h == [g EXCEPT ![t] = now]
           F == [u \in Tiles |-> OnTile(W, g[u])]
           G == [u \in Tiles |-> OnTile(W, h[u])]
<1>1. h \in [Tiles -> Seq(Item)] /\ h[t] = now /\ \A u \in Tiles : u # t => h[u] = g[u]
  OBVIOUS
<1> HIDE DEF h
<1>2. /\ Numbers(F, Tiles) /\ Numbers(G, Tiles)
      /\ Lying(W, g) = SumOver(F, Tiles) /\ Lying(W, h) = SumOver(G, Tiles)
  BY <1>1, LyingType
<1>3. AlikeBut(F, G, Tiles, t)
  BY <1>1 DEF AlikeBut
<1>4. F[t] = OnTile(W, g[t]) /\ G[t] = OnTile(W, now)
  BY <1>1
<1> HIDE DEF F, G
<1>5. SumOver(G, Tiles) = SumOver(F, Tiles) + (G[t] - F[t])
  BY <1>2, <1>3, SumOverDiffers, GroundAssumption
<1> QED
  BY <1>2, <1>4, <1>5 DEF h

LEMMA LyingLess ==
  ASSUME NEW W \in [Item -> Nat], NEW g \in [Tiles -> Seq(Item)],
         NEW h \in [Tiles -> Seq(Item)],
         \A t \in Tiles : OnTile(W, h[t]) <= OnTile(W, g[t])
  PROVE  Lying(W, h) <= Lying(W, g)
<1> DEFINE F == [t \in Tiles |-> OnTile(W, g[t])]
           G == [t \in Tiles |-> OnTile(W, h[t])]
<1>1. /\ Numbers(F, Tiles) /\ Numbers(G, Tiles)
      /\ Lying(W, g) = SumOver(F, Tiles) /\ Lying(W, h) = SumOver(G, Tiles)
  BY LyingType
<1>2. AtMost(G, F, Tiles)
  BY DEF AtMost
<1> HIDE DEF F, G
<1> QED
  BY <1>1, <1>2, SumOverAtMost, GroundAssumption

(* The counts of the property are these sums. *)
Placed == goods \in [Players -> [Carried -> Nat]] /\ ground \in [Tiles -> Seq(Item)]

CountsAre ==
    /\ \A x \in Things : /\ Units(x) = Held(x, goods) + Lying(Weight(x), ground)
                         /\ Held(x, goods) \in Int /\ Lying(Weight(x), ground) \in Int
    /\ Corpses = Lying(CorpseCount, ground) /\ Corpses \in Int

LEMMA Counted == Placed => CountsAre
<1> SUFFICES ASSUME Placed PROVE CountsAre
  OBVIOUS
<1>1. goods \in [Players -> [Carried -> Int]] /\ ground \in [Tiles -> Seq(Item)]
  BY DEF Placed
<1>2. ASSUME NEW t \in Tiles, NEW k \in DOMAIN ground[t] PROVE ground[t][k] \in Item
  <2>1. ground[t] \in Seq(Item)
    BY <1>1
  <2> QED BY <2>1, ElementOfSeq, LenProperties
<1>3. ASSUME NEW x \in Things
      PROVE  /\ Units(x) = Held(x, goods) + Lying(Weight(x), ground)
             /\ Held(x, goods) \in Int /\ Lying(Weight(x), ground) \in Int
  <2>1. \A t \in Tiles : \A k \in DOMAIN ground[t] :
            Share(x, ground[t][k]) = Weight(x)[ground[t][k]]
    BY <1>2 DEF Weight
  <2>2. \A t \in Tiles : [k \in DOMAIN ground[t] |-> Share(x, ground[t][k])]
                           = Weights(Weight(x), ground[t])
    BY <2>1 DEF Weights
  <2>3. \A t \in Tiles : SumFunction([k \in DOMAIN ground[t] |-> Share(x, ground[t][k])])
                           = OnTile(Weight(x), ground[t])
    BY <2>2, Zenon DEF OnTile
  <2>4. [t \in Tiles |-> SumFunction([k \in DOMAIN ground[t] |-> Share(x, ground[t][k])])]
          = [t \in Tiles |-> OnTile(Weight(x), ground[t])]
    BY <2>3, Zenon
  <2>5. Units(x) = Held(x, goods) + Lying(Weight(x), ground)
    BY <2>4, Zenon DEF Units, Held, Lying
  <2>6. Held(x, goods) \in Int
    BY <1>1, HeldType DEF Carried
  <2>7. Lying(Weight(x), ground) \in Int
    BY <1>1, WeightIs, LyingType
  <2> QED BY <2>5, <2>6, <2>7
<1>4. Corpses = Lying(CorpseCount, ground)
  <2>1. \A t \in Tiles : \A k \in DOMAIN ground[t] :
            (IF ground[t][k].thing = Corpse THEN 1 ELSE 0) = CorpseCount[ground[t][k]]
    BY <1>2, CorpseCountIs
  <2>2. \A t \in Tiles :
            [k \in DOMAIN ground[t] |-> IF ground[t][k].thing = Corpse THEN 1 ELSE 0]
              = Weights(CorpseCount, ground[t])
    BY <2>1 DEF Weights
  <2>3. \A t \in Tiles :
            SumFunction([k \in DOMAIN ground[t] |-> IF ground[t][k].thing = Corpse THEN 1 ELSE 0])
              = OnTile(CorpseCount, ground[t])
    BY <2>2, Zenon DEF OnTile
  <2> QED BY <2>3, Zenon DEF Corpses, Lying
<1>5. Lying(CorpseCount, ground) \in Int
  BY <1>1, CorpseCountIs, LyingType
<1> QED
  BY <1>3, <1>4, <1>5 DEF CountsAre

LEMMA CountedNext == Placed' => CountsAre'
BY Counted, PTL

(* A step that changes one tile and what one player carries of one thing. *)
Moves(p, y, v, t, now) ==
    /\ goods' = [goods EXCEPT ![p][y] = v]
    /\ ground' = [ground EXCEPT ![t] = now]

LEMMA CountsNext ==
  ASSUME Placed, Placed'
  PROVE  /\ \A x \in Things : /\ Units(x) = Held(x, goods) + Lying(Weight(x), ground)
                              /\ Units(x)' = Held(x, goods') + Lying(Weight(x), ground')
                              /\ Held(x, goods) \in Int /\ Lying(Weight(x), ground) \in Int
                              /\ Held(x, goods') \in Int /\ Lying(Weight(x), ground') \in Int
                              /\ Units(x) \in Int
         /\ Corpses = Lying(CorpseCount, ground) /\ Corpses \in Int
         /\ Corpses' = Lying(CorpseCount, ground') /\ Corpses' \in Int
<1>1. CountsAre /\ CountsAre'
  BY Counted, CountedNext
<1>2. \A x \in Things : /\ Units(x) = Held(x, goods) + Lying(Weight(x), ground)
                        /\ Held(x, goods) \in Int /\ Lying(Weight(x), ground) \in Int
  BY <1>1 DEF CountsAre
<1>3. \A x \in Things : /\ Units(x)' = Held(x, goods') + Lying(Weight(x), ground')
                        /\ Held(x, goods') \in Int /\ Lying(Weight(x), ground') \in Int
  BY <1>1 DEF CountsAre
<1>4. Corpses = Lying(CorpseCount, ground) /\ Corpses \in Int
      /\ Corpses' = Lying(CorpseCount, ground') /\ Corpses' \in Int
  BY <1>1 DEF CountsAre
<1>5. \A x \in Things : Units(x) \in Int
  BY <1>2
<1> QED
  BY <1>2, <1>3, <1>4, <1>5

LEMMA UnitsMoved ==
  ASSUME Placed, Placed', NEW p \in Players, NEW y \in Carried, NEW v \in Int, NEW t \in Tiles,
         NEW now \in Seq(Item), Moves(p, y, v, t, now), NEW x \in Things
  PROVE  /\ Units(x)' = Units(x) + ByGetting(goods, p, x, y, v)
                        + (OnTile(Weight(x), now) - OnTile(Weight(x), ground[t]))
         /\ Units(x) \in Int
         /\ OnTile(Weight(x), now) \in Int /\ OnTile(Weight(x), ground[t]) \in Int
<1> DEFINE W == Weight(x)
<1>1. /\ Units(x) = Held(x, goods) + Lying(W, ground)
      /\ Units(x)' = Held(x, goods') + Lying(W, ground')
      /\ Held(x, goods) \in Int /\ Lying(W, ground) \in Int /\ Units(x) \in Int
  BY CountsNext, Zenon
<1>2. /\ goods \in [Players -> [Carried -> Int]] /\ ground \in [Tiles -> Seq(Item)]
      /\ x \in Carried /\ W \in [Item -> Nat] /\ ground[t] \in Seq(Item)
  <2>1. goods \in [Players -> [Carried -> Nat]] /\ ground \in [Tiles -> Seq(Item)]
    BY DEF Placed
  <2>2. W \in [Item -> Nat] /\ x \in Carried
    BY WeightIs DEF Carried
  <2> HIDE DEF W
  <2> QED BY <2>1, <2>2
<1> HIDE DEF W
<1>3. Held(x, goods') = Held(x, goods) + ByGetting(goods, p, x, y, v)
  <2>1. Gets(goods, goods', p, y, v)
    BY DEF Moves, Gets
  <2>2. Carrying(goods)
    BY <1>2 DEF Carrying
  <2> QED BY <1>2, <2>1, <2>2, HeldChanged
<1>4. Lying(W, ground') = Lying(W, ground) + (OnTile(W, now) - OnTile(W, ground[t]))
  BY <1>2, LyingChanged DEF Moves
<1>5. OnTile(W, now) \in Int /\ OnTile(W, ground[t]) \in Int
  BY <1>2, OnTileIs
<1>6. ByGetting(goods, p, x, y, v) \in Int
  <2>1. goods[p][y] \in Int
    BY <1>2
  <2> QED BY <2>1 DEF ByGetting
<1> QED
  BY <1>1, <1>3, <1>4, <1>5, <1>6 DEF W

LEMMA CorpsesMoved ==
  ASSUME Placed, Placed', NEW t \in Tiles, NEW now \in Seq(Item),
         ground' = [ground EXCEPT ![t] = now]
  PROVE  /\ Corpses' = Corpses + (OnTile(CorpseCount, now) - OnTile(CorpseCount, ground[t]))
         /\ Corpses \in Int
         /\ OnTile(CorpseCount, now) \in Int /\ OnTile(CorpseCount, ground[t]) \in Int
<1>1. /\ Corpses = Lying(CorpseCount, ground) /\ Corpses \in Int
      /\ Corpses' = Lying(CorpseCount, ground')
  BY CountsNext
<1>2. ground \in [Tiles -> Seq(Item)] /\ ground[t] \in Seq(Item) /\ CorpseCount \in [Item -> Nat]
  BY CorpseCountIs DEF Placed
<1>3. Lying(CorpseCount, ground')
        = Lying(CorpseCount, ground) + (OnTile(CorpseCount, now) - OnTile(CorpseCount, ground[t]))
  BY <1>2, LyingChanged
<1>4. OnTile(CorpseCount, now) \in Int /\ OnTile(CorpseCount, ground[t]) \in Int
  BY <1>2, OnTileIs
<1> QED
  BY <1>1, <1>3, <1>4

----------------------------------------------------------------------------
(* Loot lies in corpses, and what an action does to the counts *)

(* Loot lies in corpses only. *)
Loaded(item) == item.inside # 0 => item.thing = Corpse
LootHeld(s) == \A k \in DOMAIN s : Loaded(s[k])
HoldsLoot == \A t \in Tiles : LootHeld(ground[t])

LEMMA LootAtFirst ==
  ASSUME Init
  PROVE  HoldsLoot
<1>1. MapInv /\ disk.registry = {}
  <2>1. disk.registry = {}
    BY EmptyIs DEF Init
  <2> QED BY <2>1, GroundStarts DEF GroundInv
<1>2. ASSUME NEW t \in Tiles, NEW k \in DOMAIN ground[t]
      PROVE  ground[t][k].inside = 0
  <2>1. Journaled(disk) /\ Laid(ground[t], origin[t], disk, t) /\ Count(disk.registry, t) = 0
    BY <1>1, NoRecords DEF MapInv
  <2>2. Len(ground[t]) = Len(origin[t]) + 0
    BY <2>1 DEF Laid
  <2>3. /\ Len(origin[t]) \in Nat /\ DOMAIN ground[t] = 1..Len(ground[t])
        /\ DOMAIN origin[t] = 1..Len(origin[t])
    BY <2>1, LaidFields
  <2>4. k \in DOMAIN origin[t]
    BY <2>2, <2>3
  <2> QED BY <1>1, <2>4, SourceFound
<1> QED
  BY <1>2 DEF HoldsLoot, LootHeld, Loaded

LEMMA LootAppended ==
  ASSUME NEW s \in Seq(Item), NEW item, LootHeld(s), Loaded(item)
  PROVE  LootHeld(Append(s, item))
<1>1. /\ Len(s) \in Nat /\ Len(Append(s, item)) = Len(s) + 1
      /\ Append(s, item)[Len(s) + 1] = item /\ \A k \in 1..Len(s) : Append(s, item)[k] = s[k]
  OBVIOUS
<1>2. DOMAIN Append(s, item) = 1..(Len(s) + 1) /\ DOMAIN s = 1..Len(s)
  OBVIOUS
<1>3. \A k \in 1..(Len(s) + 1) : k \in 1..Len(s) \/ k = Len(s) + 1
  BY <1>1
<1>4. \A k \in 1..Len(s) : Loaded(s[k])
  BY <1>2 DEF LootHeld
<1> DEFINE w == Append(s, item)
<1> HIDE DEF w
<1>5. ASSUME NEW k \in DOMAIN w PROVE Loaded(w[k])
  <2>1. CASE k \in 1..Len(s)
    <3>1. w[k] = s[k]
      BY <1>1, <2>1 DEF w
    <3> QED BY <1>4, <2>1, <3>1
  <2>2. CASE k = Len(s) + 1
    <3>1. w[k] = item
      BY <1>1, <2>2 DEF w
    <3> QED BY <3>1
  <2> QED BY <1>2, <1>3, <2>1, <2>2 DEF w
<1> QED
  BY <1>5 DEF w, LootHeld

LEMMA LootChanged ==
  ASSUME NEW s \in Seq(Item), NEW at, NEW item, LootHeld(s), Loaded(item)
  PROVE  LootHeld([s EXCEPT ![at] = item])
<1> DEFINE w == [s EXCEPT ![at] = item]
<1>1. DOMAIN w = DOMAIN s /\ \A k \in DOMAIN s : w[k] = IF k = at THEN item ELSE s[k]
  OBVIOUS
<1> HIDE DEF w
<1>2. \A k \in DOMAIN w : Loaded(w[k])
  BY <1>1 DEF LootHeld
<1> QED
  BY <1>2 DEF w, LootHeld

LEMMA LootWithout ==
  ASSUME NEW s \in Seq(Item), NEW places, LootHeld(s)
  PROVE  LootHeld(Without(s, places))
<1>1. PartOf(Without(s, places), s)
  <2>1. CorpseCount \in [Item -> Nat]
    BY CorpseCountIs
  <2> QED BY <2>1, OnTileWithout, Zenon
<1> QED
  BY <1>1 DEF LootHeld, PartOf

LEMMA LootMoved ==
  ASSUME HoldsLoot, Placed, NEW t \in Tiles, NEW now, LootHeld(now),
         ground' = [ground EXCEPT ![t] = now]
  PROVE  HoldsLoot'
<1>1. \A u \in Tiles : ground'[u] = now \/ ground'[u] = ground[u]
  BY DEF Placed
<1>2. \A u \in Tiles : LootHeld(ground'[u])
  BY <1>1 DEF HoldsLoot
<1> QED
  BY <1>2 DEF HoldsLoot

(* What a step may do to the units of the things that players have. *)
UnitStep ==
    \A x \in Things :
        /\ Units(x)' > Units(x) => x = Loot /\ Corpses' > Corpses
        /\ Units(x)' < Units(x) =>
              \/ beat = "decay" /\ registry' # registry
              \/ x = Loot /\ Corpses' < Corpses

LEMMA SameUnits ==
  ASSUME Placed, Placed', \A x \in Things : Units(x)' = Units(x)
  PROVE  UnitStep
<1>1. \A x \in Things : Units(x) \in Int
  BY CountsNext
<1> QED
  BY <1>1 DEF UnitStep

LEMMA NothingMoved ==
  ASSUME Placed, Placed', goods' = goods, ground' = ground
  PROVE  UnitStep /\ (HoldsLoot => HoldsLoot')
<1>1. \A x \in Things : Units(x)' = Units(x)
  <2>1. \A x \in Things : /\ Units(x) = Held(x, goods) + Lying(Weight(x), ground)
                          /\ Units(x)' = Held(x, goods') + Lying(Weight(x), ground')
    BY CountsNext
  <2> QED BY <2>1
<1>2. HoldsLoot => HoldsLoot'
  BY DEF HoldsLoot
<1> QED
  BY <1>1, <1>2, SameUnits

LEMMA UnitsLaid ==
  ASSUME Placed, Placed', NEW t \in Tiles, NEW now \in Seq(Item),
         ground' = [ground EXCEPT ![t] = now], goods' = goods, NEW x \in Things
  PROVE  /\ Units(x)' = Units(x) + (OnTile(Weight(x), now) - OnTile(Weight(x), ground[t]))
         /\ Units(x) \in Int
         /\ OnTile(Weight(x), now) \in Int /\ OnTile(Weight(x), ground[t]) \in Int
<1> DEFINE W == Weight(x)
<1>1. /\ Units(x) = Held(x, goods) + Lying(W, ground)
      /\ Units(x)' = Held(x, goods') + Lying(W, ground')
      /\ Held(x, goods) \in Int /\ Lying(W, ground) \in Int /\ Units(x) \in Int
  BY CountsNext, Zenon
<1>2. ground \in [Tiles -> Seq(Item)] /\ W \in [Item -> Nat] /\ ground[t] \in Seq(Item)
  BY WeightIs DEF Placed
<1> HIDE DEF W
<1>3. Lying(W, ground') = Lying(W, ground) + (OnTile(W, now) - OnTile(W, ground[t]))
  BY <1>2, LyingChanged
<1>4. OnTile(W, now) \in Int /\ OnTile(W, ground[t]) \in Int
  BY <1>2, OnTileIs
<1> QED
  BY <1>1, <1>3, <1>4 DEF W

LEMMA DropStackUnits ==
  ASSUME GroundInv, GroundInv', HoldsLoot, NEW p \in Players, NEW t \in Tiles,
         NEW x \in Carried, NEW n, DropStack(p, t, x, n)
  PROVE  UnitStep /\ HoldsLoot'
<1> DEFINE item == Plain(x, n)
           now == Append(ground[t], item)
           v == goods[p][x] - n
<1>1. Placed /\ Placed' /\ ground[t] \in Seq(Item) /\ goods[p][x] \in Nat
  BY DEF GroundInv, MapInv, Placed
<1>2. /\ n \in 1..goods[p][x]
      /\ goods' = [goods EXCEPT ![p][x] = v]
      /\ ground' = [ground EXCEPT ![t] = now]
  BY DEF DropStack, Appends
<1>3. n \in Nat \ {0} /\ v \in Int
  BY <1>1, <1>2
<1>4. item \in Item /\ item.thing = x /\ item.count = n /\ item.inside = 0
  BY <1>3 DEF Plain, Item
<1> HIDE DEF item
<1>5. now \in Seq(Item)
  BY <1>1, <1>4
<1>6. Moves(p, x, v, t, now)
  BY <1>2 DEF Moves
<1>7. ASSUME NEW y \in Things PROVE Units(y)' = Units(y)
  <2>1. /\ Units(y)' = Units(y) + ByGetting(goods, p, y, x, v)
                       + (OnTile(Weight(y), now) - OnTile(Weight(y), ground[t]))
        /\ Units(y) \in Int
        /\ OnTile(Weight(y), now) \in Int /\ OnTile(Weight(y), ground[t]) \in Int
    <3> HIDE DEF v, now
    <3> QED BY <1>1, <1>3, <1>5, <1>6, UnitsMoved
  <2>2. OnTile(Weight(y), now) = OnTile(Weight(y), ground[t]) + Weight(y)[item]
    BY <1>1, <1>4, WeightIs, OnTileAppended
  <2>3. Weight(y)[item] = IF x = y THEN n ELSE 0
    BY <1>3, <1>4, WeightIs
  <2>4. ByGetting(goods, p, y, x, v) = IF y = x THEN 0 - n ELSE 0
    BY <1>1, <1>3 DEF ByGetting
  <2> HIDE DEF now, v
  <2> QED BY <1>3, <2>1, <2>2, <2>3, <2>4
<1>8. UnitStep
  BY <1>1, <1>7, SameUnits
<1>9. LootHeld(now)
  <2>1. LootHeld(ground[t]) /\ Loaded(item)
    BY <1>4 DEF HoldsLoot, Loaded
  <2> QED BY <1>1, <2>1, LootAppended
<1> HIDE DEF now
<1>10. HoldsLoot'
  BY <1>1, <1>2, <1>9, LootMoved
<1> QED
  BY <1>8, <1>10

LEMMA PlaceCorpseUnits ==
  ASSUME GroundInv, GroundInv', HoldsLoot, NEW t \in Tiles, NEW n \in 0..MaxLoot,
         PlaceCorpse(t, n)
  PROVE  UnitStep /\ HoldsLoot'
<1> DEFINE item == [thing |-> Corpse, count |-> 1, inside |-> n]
           now == Append(ground[t], item)
<1>1. Placed /\ Placed' /\ ground[t] \in Seq(Item)
  BY DEF GroundInv, MapInv, Placed
<1>2. goods' = goods /\ ground' = [ground EXCEPT ![t] = now]
  BY DEF PlaceCorpse, Appends
<1>3. n \in Nat
  BY GroundAssumption
<1>4. item \in Item /\ item.thing = Corpse /\ item.inside = n
  BY <1>3 DEF Item, Carried
<1> HIDE DEF item
<1>5. now \in Seq(Item)
  BY <1>1, <1>4
<1>6. Corpses' > Corpses
  <2>1. /\ Corpses' = Corpses + (OnTile(CorpseCount, now) - OnTile(CorpseCount, ground[t]))
        /\ Corpses \in Int
        /\ OnTile(CorpseCount, now) \in Int /\ OnTile(CorpseCount, ground[t]) \in Int
    <3> HIDE DEF now
    <3> QED BY <1>1, <1>2, <1>5, CorpsesMoved
  <2>2. OnTile(CorpseCount, now) = OnTile(CorpseCount, ground[t]) + CorpseCount[item]
    BY <1>1, <1>4, CorpseCountIs, OnTileAppended
  <2>3. CorpseCount[item] = 1
    BY <1>4, CorpseCountIs
  <2> HIDE DEF now
  <2> QED BY <2>1, <2>2, <2>3
<1>7. ASSUME NEW y \in Things
      PROVE  /\ Units(y) \in Int /\ Units(y)' \in Int /\ Units(y)' >= Units(y)
             /\ Units(y)' > Units(y) => y = Loot
  <2>1. /\ Units(y)' = Units(y) + (OnTile(Weight(y), now) - OnTile(Weight(y), ground[t]))
        /\ Units(y) \in Int
        /\ OnTile(Weight(y), now) \in Int /\ OnTile(Weight(y), ground[t]) \in Int
    <3> HIDE DEF now
    <3> QED BY <1>1, <1>2, <1>5, UnitsLaid
  <2>2. OnTile(Weight(y), now) = OnTile(Weight(y), ground[t]) + Weight(y)[item]
    BY <1>1, <1>4, WeightIs, OnTileAppended
  <2>3. Weight(y)[item] = IF y = Loot THEN n ELSE 0
    <3>1. Corpse # y
      BY GroundAssumption
    <3> QED BY <1>3, <1>4, <3>1, WeightIs
  <2> HIDE DEF now
  <2> QED BY <1>3, <2>1, <2>2, <2>3
<1>8. UnitStep
  BY <1>6, <1>7 DEF UnitStep
<1>9. LootHeld(now)
  <2>1. LootHeld(ground[t]) /\ Loaded(item)
    BY <1>4 DEF HoldsLoot, Loaded
  <2> QED BY <1>1, <2>1, LootAppended
<1> HIDE DEF now
<1>10. HoldsLoot'
  BY <1>1, <1>2, <1>9, LootMoved
<1> QED
  BY <1>8, <1>10

(* An item is carried away whole: what lies inside is gone with a corpse. *)
LEMMA WholeUnits ==
  ASSUME Placed, Placed', HoldsLoot, NEW p \in Players, NEW t \in Tiles,
         NEW at \in 1..Len(ground[t]), Gains(p, ground[t][at].thing, ground[t][at].count),
         ground' = [ground EXCEPT ![t] = Without(@, {at})]
  PROVE  UnitStep /\ HoldsLoot'
<1> DEFINE here == ground[t][at]
           now == Without(ground[t], {at})
           v == goods[p][here.thing] + here.count
<1>1. ground[t] \in Seq(Item) /\ goods \in [Players -> [Carried -> Nat]]
      /\ ground \in [Tiles -> Seq(Item)]
  BY DEF Placed
<1>2. here \in Item
  BY <1>1, ElementOfSeq
<1>3. now \in Seq(Item)
  BY <1>1, WithoutIs
<1>4. ground' = [ground EXCEPT ![t] = now] /\ goods' = [goods EXCEPT ![p][here.thing] = v]
  BY DEF Gains
<1>5. at \in DOMAIN ground[t]
  BY <1>1, OnTileIs, CorpseCountIs
<1>6. LootHeld(ground[t]) /\ Loaded(here)
  BY <1>5 DEF HoldsLoot, LootHeld
<1>7. LootHeld(now)
  BY <1>1, <1>6, LootWithout
<1> HIDE DEF here, now
<1>8. here.thing \in Carried /\ here.count \in Nat /\ here.inside \in Nat
  BY <1>2, ItemFields
<1>9. v \in Int /\ goods[p][here.thing] \in Nat
  BY <1>1, <1>8
<1>10. Moves(p, here.thing, v, t, now)
  BY <1>4 DEF Moves
<1>11. HoldsLoot'
  BY <1>4, <1>7, LootMoved
<1>12. ASSUME NEW x \in Things
       PROVE  /\ Units(x) \in Int
              /\ Units(x)' = Units(x) - (IF x = Loot THEN here.inside ELSE 0)
  <2>1. /\ Units(x)' = Units(x) + ByGetting(goods, p, x, here.thing, v)
                       + (OnTile(Weight(x), now) - OnTile(Weight(x), ground[t]))
        /\ Units(x) \in Int
        /\ OnTile(Weight(x), now) \in Int /\ OnTile(Weight(x), ground[t]) \in Int
    <3> HIDE DEF v
    <3> QED BY <1>3, <1>8, <1>9, <1>10, UnitsMoved
  <2>2. OnTile(Weight(x), now) = OnTile(Weight(x), ground[t]) - Weight(x)[here]
    BY <1>1, WeightIs, OnTileWithoutOne DEF here, now
  <2>3. Weight(x)[here] = (IF here.thing = x THEN here.count ELSE 0)
                          + (IF x = Loot THEN here.inside ELSE 0)
    BY <1>2, WeightIs
  <2>4. ByGetting(goods, p, x, here.thing, v) = IF here.thing = x THEN here.count ELSE 0
    BY <1>8, <1>9 DEF ByGetting
  <2> DEFINE c == IF here.thing = x THEN here.count ELSE 0
             i == IF x = Loot THEN here.inside ELSE 0
  <2>5. c \in Nat /\ i \in Nat
    BY <1>8
  <2> HIDE DEF c, i, v
  <2> QED BY <2>1, <2>2, <2>3, <2>4, <2>5 DEF c, i
<1>13. ASSUME here.inside # 0 PROVE Corpses' < Corpses
  <2>1. here.thing = Corpse
    BY <1>6, <1>13 DEF Loaded
  <2>2. /\ Corpses' = Corpses + (OnTile(CorpseCount, now) - OnTile(CorpseCount, ground[t]))
        /\ Corpses \in Int
        /\ OnTile(CorpseCount, now) \in Int /\ OnTile(CorpseCount, ground[t]) \in Int
    BY <1>3, <1>4, CorpsesMoved
  <2>3. OnTile(CorpseCount, now) = OnTile(CorpseCount, ground[t]) - CorpseCount[here]
    BY <1>1, CorpseCountIs, OnTileWithoutOne DEF here, now
  <2>4. CorpseCount[here] = 1
    BY <1>2, <2>1, CorpseCountIs
  <2> QED BY <2>2, <2>3, <2>4
<1>14. UnitStep
  <2>1. ASSUME NEW x \in Things
        PROVE  /\ ~ (Units(x)' > Units(x))
               /\ Units(x)' < Units(x) => x = Loot /\ here.inside # 0
    BY <1>8, <1>12
  <2> QED BY <1>13, <2>1 DEF UnitStep
<1> QED
  BY <1>11, <1>14

(* Part of a stack is carried away, or part of what lies inside. *)
LEMMA PartUnits ==
  ASSUME Placed, Placed', HoldsLoot, NEW p \in Players, NEW t \in Tiles,
         NEW at \in 1..Len(ground[t]), NEW n \in Nat, NEW rest \in Nat \ {0},
         n + rest = ground[t][at].count, Gains(p, ground[t][at].thing, n),
         ground' = [ground EXCEPT ![t] =
                      [ground[t] EXCEPT ![at] = [ground[t][at] EXCEPT !.count = rest]]]
  PROVE  UnitStep /\ HoldsLoot'
<1> DEFINE here == ground[t][at]
           item == [here EXCEPT !.count = rest]
           now == [ground[t] EXCEPT ![at] = item]
           v == goods[p][here.thing] + n
<1>1. ground[t] \in Seq(Item) /\ goods \in [Players -> [Carried -> Nat]]
      /\ ground \in [Tiles -> Seq(Item)]
  BY DEF Placed
<1>2. here \in Item
  BY <1>1, ElementOfSeq
<1>4. ground' = [ground EXCEPT ![t] = now] /\ goods' = [goods EXCEPT ![p][here.thing] = v]
  BY DEF Gains
<1>5. at \in DOMAIN ground[t] /\ n + rest = here.count
  BY <1>1, OnTileIs, CorpseCountIs
<1>6. LootHeld(ground[t]) /\ Loaded(here)
  BY <1>5 DEF HoldsLoot, LootHeld
<1>h. here = ground[t][at]
  OBVIOUS
<1> HIDE DEF here
<1>7. item \in Item /\ item.thing = here.thing /\ item.count = rest /\ item.inside = here.inside
  BY <1>2 DEF Item
<1> HIDE DEF item
<1>3. now \in Seq(Item)
  BY <1>1, <1>7, OnTileChanged, CorpseCountIs
<1>8. here.thing \in Carried /\ here.count \in Nat /\ here.inside \in Nat
  BY <1>2, ItemFields
<1>9. v \in Int /\ goods[p][here.thing] \in Nat
  BY <1>1, <1>8
<1>10. Moves(p, here.thing, v, t, now)
  BY <1>4 DEF Moves
<1>11. HoldsLoot'
  <2>1. Loaded(item)
    BY <1>6, <1>7 DEF Loaded
  <2>2. LootHeld(now)
    BY <1>1, <1>6, <2>1, LootChanged
  <2> HIDE DEF now
  <2> QED BY <1>4, <2>2, LootMoved
<1>12. ASSUME NEW x \in Things
       PROVE  Units(x)' = Units(x)
  <2>1. /\ Units(x)' = Units(x) + ByGetting(goods, p, x, here.thing, v)
                       + (OnTile(Weight(x), now) - OnTile(Weight(x), ground[t]))
        /\ Units(x) \in Int
        /\ OnTile(Weight(x), now) \in Int /\ OnTile(Weight(x), ground[t]) \in Int
    <3> HIDE DEF v, now
    <3> QED BY <1>3, <1>8, <1>9, <1>10, UnitsMoved
  <2>2. OnTile(Weight(x), now) = OnTile(Weight(x), ground[t]) + (Weight(x)[item] - Weight(x)[here])
    <3>1. Weight(x) \in [Item -> Nat]
      BY WeightIs
    <3>2. OnTile(Weight(x), now)
            = OnTile(Weight(x), ground[t]) + (Weight(x)[item] - Weight(x)[ground[t][at]])
      BY <1>1, <1>7, <3>1, OnTileChanged
    <3> QED BY <1>h, <3>2, Zenon
  <2> DEFINE i == IF x = Loot THEN here.inside ELSE 0
  <2>3. /\ Weight(x)[here] = (IF here.thing = x THEN here.count ELSE 0) + i
        /\ Weight(x)[item] = (IF here.thing = x THEN rest ELSE 0) + i
    BY <1>2, <1>7, WeightIs
  <2>4. ByGetting(goods, p, x, here.thing, v) = IF here.thing = x THEN n ELSE 0
    BY <1>8, <1>9 DEF ByGetting
  <2>5. i \in Nat
    BY <1>8
  <2> DEFINE c == here.count
             wh == Weight(x)[here]
             wi == Weight(x)[item]
  <2>6. c \in Nat /\ n + rest = c
    BY <1>5, <1>8
  <2>7. /\ here.thing = x => wh = c + i /\ wi = rest + i
        /\ here.thing # x => wh = 0 + i /\ wi = 0 + i
    BY <2>3
  <2> HIDE DEF c, wh, wi, i, v, now
  <2>8. wi - wh = 0 - ByGetting(goods, p, x, here.thing, v) /\ wh \in Nat /\ wi \in Nat
    <3>1. CASE here.thing = x
      BY <2>4, <2>5, <2>6, <2>7, <3>1
    <3>2. CASE here.thing # x
      BY <2>4, <2>5, <2>6, <2>7, <3>2
    <3> QED BY <3>1, <3>2
  <2>9. ByGetting(goods, p, x, here.thing, v) \in Nat
    BY <2>4
  <2>10. OnTile(Weight(x), now) = OnTile(Weight(x), ground[t]) + (wi - wh)
    BY <2>2, Zenon DEF wi, wh
  <2> QED BY <2>1, <2>8, <2>9, <2>10
<1> QED
  BY <1>11, <1>12, SameUnits

LEMMA LootUnits ==
  ASSUME Placed, Placed', HoldsLoot, NEW p \in Players, NEW t \in Tiles,
         NEW at \in 1..Len(ground[t]), NEW n \in Nat, NEW rest \in Nat,
         n + rest = ground[t][at].inside, n # 0, Gains(p, Loot, n),
         ground' = [ground EXCEPT ![t] =
                      [ground[t] EXCEPT ![at] = [ground[t][at] EXCEPT !.inside = rest]]]
  PROVE  UnitStep /\ HoldsLoot'
<1> DEFINE here == ground[t][at]
           item == [here EXCEPT !.inside = rest]
           now == [ground[t] EXCEPT ![at] = item]
           v == goods[p][Loot] + n
<1>1. ground[t] \in Seq(Item) /\ goods \in [Players -> [Carried -> Nat]]
      /\ ground \in [Tiles -> Seq(Item)]
  BY DEF Placed
<1>2. here \in Item
  BY <1>1, ElementOfSeq
<1>4. ground' = [ground EXCEPT ![t] = now] /\ goods' = [goods EXCEPT ![p][Loot] = v]
  BY DEF Gains
<1>5. at \in DOMAIN ground[t] /\ n + rest = here.inside
  BY <1>1, OnTileIs, CorpseCountIs
<1>6. LootHeld(ground[t]) /\ Loaded(here)
  BY <1>5 DEF HoldsLoot, LootHeld
<1>h. here = ground[t][at]
  OBVIOUS
<1> HIDE DEF here
<1>7. item \in Item /\ item.thing = here.thing /\ item.count = here.count /\ item.inside = rest
  BY <1>2 DEF Item
<1> HIDE DEF item
<1>3. now \in Seq(Item)
  BY <1>1, <1>7, OnTileChanged, CorpseCountIs
<1>8. here.count \in Nat /\ here.inside \in Nat
  BY <1>2, ItemFields
<1>9. v \in Int /\ goods[p][Loot] \in Nat /\ Loot \in Carried
  <2>1. Loot \in Carried
    BY GroundAssumption DEF Carried
  <2> QED BY <1>1, <2>1
<1>10. Moves(p, Loot, v, t, now)
  BY <1>4 DEF Moves
<1>11. HoldsLoot'
  <2>1. Loaded(item)
    <3>1. here.inside # 0
      BY <1>5
    <3> QED BY <1>6, <1>7, <3>1 DEF Loaded
  <2>2. LootHeld(now)
    BY <1>1, <1>6, <2>1, LootChanged
  <2> HIDE DEF now
  <2> QED BY <1>4, <2>2, LootMoved
<1>12. ASSUME NEW x \in Things
       PROVE  Units(x)' = Units(x)
  <2>1. /\ Units(x)' = Units(x) + ByGetting(goods, p, x, Loot, v)
                       + (OnTile(Weight(x), now) - OnTile(Weight(x), ground[t]))
        /\ Units(x) \in Int
        /\ OnTile(Weight(x), now) \in Int /\ OnTile(Weight(x), ground[t]) \in Int
    <3> HIDE DEF v, now
    <3> QED BY <1>3, <1>9, <1>10, UnitsMoved
  <2>2. OnTile(Weight(x), now) = OnTile(Weight(x), ground[t]) + (Weight(x)[item] - Weight(x)[here])
    <3>1. Weight(x) \in [Item -> Nat]
      BY WeightIs
    <3>2. OnTile(Weight(x), now)
            = OnTile(Weight(x), ground[t]) + (Weight(x)[item] - Weight(x)[ground[t][at]])
      BY <1>1, <1>7, <3>1, OnTileChanged
    <3> QED BY <1>h, <3>2, Zenon
  <2> DEFINE c == IF here.thing = x THEN here.count ELSE 0
             i == here.inside
             wh == Weight(x)[here]
             wi == Weight(x)[item]
  <2>3. wh = c + (IF x = Loot THEN i ELSE 0)
    BY <1>2, WeightIs
  <2>4. wi = c + (IF x = Loot THEN rest ELSE 0)
    BY <1>7, WeightIs
  <2>5. ByGetting(goods, p, x, Loot, v) = IF x = Loot THEN n ELSE 0
    BY <1>9 DEF ByGetting
  <2>6. c \in Nat /\ i \in Nat /\ n + rest = i
    BY <1>5, <1>8
  <2> HIDE DEF c, i, wh, wi, v, now
  <2>7. wi - wh = 0 - ByGetting(goods, p, x, Loot, v) /\ wh \in Nat /\ wi \in Nat
    <3>1. CASE x = Loot
      BY <2>3, <2>4, <2>5, <2>6, <3>1
    <3>2. CASE x # Loot
      BY <2>3, <2>4, <2>5, <2>6, <3>2
    <3> QED BY <3>1, <3>2
  <2>8. ByGetting(goods, p, x, Loot, v) \in Nat
    BY <2>5
  <2>9. OnTile(Weight(x), now) = OnTile(Weight(x), ground[t]) + (wi - wh)
    BY <2>2, Zenon DEF wi, wh
  <2> QED BY <2>1, <2>7, <2>8, <2>9
<1> QED
  BY <1>11, <1>12, SameUnits

LEMMA TakeWholeUnits ==
  ASSUME GroundInv, GroundInv', HoldsLoot, NEW p \in Players, TakeWhole(p)
  PROVE  UnitStep /\ HoldsLoot'
<1> DEFINE t == aim[p].tile
           at == aim[p].at
<1>1. MapInv /\ Others /\ Placed /\ Placed'
  BY DEF GroundInv, MapInv, Placed
<1>2. PICK r \in registry :
         /\ Found(t, at, r)
         /\ Gains(p, ground[t][at].thing, ground[t][at].count)
         /\ ground' = [ground EXCEPT ![t] = Without(@, {at})]
  BY DEF TakeWhole
<1>3. Aimed(p, "runtime")
  BY DEF TakeWhole
<1>4. t \in Tiles
  BY <1>1, <1>3, AimIs
<1> HIDE DEF t, at
<1>5. at \in 1..Len(ground[t])
  BY <1>1, <1>2, <1>4, FoundIs
<1> QED
  BY <1>1, <1>2, <1>4, <1>5, WholeUnits

LEMMA TakeSomeUnits ==
  ASSUME GroundInv, GroundInv', HoldsLoot, NEW p \in Players, NEW n, TakeSome(p, n)
  PROVE  UnitStep /\ HoldsLoot'
<1> DEFINE t == aim[p].tile
           at == aim[p].at
           here == ground[t][at]
           rest == here.count - n
<1>1. MapInv /\ Others /\ Placed /\ Placed' /\ ground \in [Tiles -> Seq(Item)]
  BY DEF GroundInv, MapInv, Placed
<1>2. PICK r \in registry :
         /\ Found(t, at, r)
         /\ n \in 1..(here.count - 1)
         /\ Gains(p, here.thing, n)
         /\ ground' = [ground EXCEPT ![t][at].count = @ - n]
  BY DEF TakeSome
<1>3. Aimed(p, "runtime")
  BY DEF TakeSome
<1>4. t \in Tiles
  BY <1>1, <1>3, AimIs
<1>5. at \in 1..Len(ground[t]) /\ here \in Item /\ ground[t] \in Seq(Item)
  <2> HIDE DEF t, at
  <2> QED BY <1>1, <1>2, <1>4, FoundIs
<1>6. n \in Nat /\ rest \in Nat \ {0} /\ n + rest = here.count
  <2>1. here.count \in Nat
    <3> HIDE DEF here
    <3> QED BY <1>5, ItemFields
  <2> DEFINE c == here.count
  <2>2. rest = c - n
    OBVIOUS
  <2>3. n \in 1..(c - 1) /\ c \in Nat
    BY <1>2, <2>1
  <2> HIDE DEF c, here, rest
  <2>4. n \in Nat /\ rest \in Nat \ {0} /\ n + rest = c
    BY <2>2, <2>3
  <2> QED BY <2>4 DEF c
<1>7. ground' = [ground EXCEPT ![t] = [ground[t] EXCEPT ![at] = [ground[t][at] EXCEPT !.count = rest]]]
  BY <1>1, <1>2, <1>4, <1>5
<1> HIDE DEF t, at, rest
<1> QED
  BY <1>1, <1>2, <1>4, <1>5, <1>6, <1>7, PartUnits

LEMMA TakeInsideUnits ==
  ASSUME GroundInv, GroundInv', HoldsLoot, NEW p \in Players, NEW n, TakeInside(p, n)
  PROVE  UnitStep /\ HoldsLoot'
<1> DEFINE t == aim[p].tile
           at == aim[p].at
           here == ground[t][at]
           rest == here.inside - n
<1>1. MapInv /\ Others /\ Placed /\ Placed' /\ ground \in [Tiles -> Seq(Item)]
  BY DEF GroundInv, MapInv, Placed
<1>2. PICK r \in registry :
         /\ Found(t, at, r)
         /\ n \in 1..here.inside
         /\ ground' = [ground EXCEPT ![t][at].inside = @ - n]
  BY DEF TakeInside
<1>3. Aimed(p, "window") /\ Gains(p, Loot, n)
  BY DEF TakeInside
<1>4. t \in Tiles
  BY <1>1, <1>3, AimIs
<1>5. at \in 1..Len(ground[t]) /\ here \in Item /\ ground[t] \in Seq(Item)
  <2> HIDE DEF t, at
  <2> QED BY <1>1, <1>2, <1>4, FoundIs
<1>6. n \in Nat /\ n # 0 /\ rest \in Nat /\ n + rest = here.inside
  <2>1. here.inside \in Nat
    <3> HIDE DEF here
    <3> QED BY <1>5, ItemFields
  <2> DEFINE c == here.inside
  <2>2. rest = c - n
    OBVIOUS
  <2>3. n \in 1..c /\ c \in Nat
    BY <1>2, <2>1
  <2> HIDE DEF c, here, rest
  <2>4. n \in Nat /\ n # 0 /\ rest \in Nat /\ n + rest = c
    BY <2>2, <2>3
  <2> QED BY <2>4 DEF c
<1>7. ground' = [ground EXCEPT ![t] = [ground[t] EXCEPT ![at] = [ground[t][at] EXCEPT !.inside = rest]]]
  BY <1>1, <1>2, <1>4, <1>5
<1> HIDE DEF t, at, rest
<1> QED
  BY <1>1, <1>2, <1>3, <1>4, <1>5, <1>6, <1>7, LootUnits

LEMMA TakeSourceUnits ==
  ASSUME GroundInv, GroundInv', HoldsLoot, NEW p \in Players, NEW n, TakeSource(p, n)
  PROVE  UnitStep /\ HoldsLoot'
<1> DEFINE t == aim[p].tile
           at == aim[p].at
           here == ground[t][at]
           rest == here.count - n
<1>1. MapInv /\ Others /\ Placed /\ Placed' /\ ground \in [Tiles -> Seq(Item)]
  BY DEF GroundInv, MapInv, Placed
<1>2. Aimed(p, "source") /\ at \in DOMAIN origin[t] /\ n \in 1..here.count /\ Gains(p, here.thing, n)
  BY DEF TakeSource
<1>3. \/ rest = 0 /\ ground' = [ground EXCEPT ![t] = Without(@, {at})]
      \/ rest > 0 /\ ground' = [ground EXCEPT ![t][at].count = rest]
  BY DEF TakeSource
<1>4. t \in Tiles
  BY <1>1, <1>2, AimIs
<1>5. at \in 1..Len(ground[t]) /\ here \in Item /\ ground[t] \in Seq(Item)
  <2> HIDE DEF t, at
  <2> QED BY <1>1, <1>2, <1>4, SourceFound
<1>6. n \in Nat /\ rest \in Nat /\ n + rest = here.count /\ (rest = 0 => n = here.count)
  <2>1. here.count \in Nat
    <3> HIDE DEF here
    <3> QED BY <1>5, ItemFields
  <2> DEFINE c == here.count
  <2>2. rest = c - n
    OBVIOUS
  <2>3. n \in 1..c /\ c \in Nat
    BY <1>2, <2>1
  <2> HIDE DEF c, here, rest
  <2>4. n \in Nat /\ rest \in Nat /\ n + rest = c /\ (rest = 0 => n = c)
    BY <2>2, <2>3
  <2> QED BY <2>4 DEF c
<1>7. rest > 0 => rest \in Nat \ {0} /\ rest # 0
  <2> HIDE DEF rest
  <2> QED BY <1>6
<1>8. CASE rest = 0 /\ ground' = [ground EXCEPT ![t] = Without(@, {at})]
  <2>1. Gains(p, here.thing, here.count)
    <3> HIDE DEF rest, here
    <3> QED BY <1>2, <1>6, <1>8
  <2> HIDE DEF t, at, rest
  <2> QED BY <1>1, <1>4, <1>5, <1>8, <2>1, WholeUnits
<1>9. CASE rest > 0 /\ ground' = [ground EXCEPT ![t][at].count = rest]
  <2>1. ground' = [ground EXCEPT ![t] =
                     [ground[t] EXCEPT ![at] = [ground[t][at] EXCEPT !.count = rest]]]
    <3> HIDE DEF rest, t, at
    <3> QED BY <1>1, <1>4, <1>9
  <2> HIDE DEF t, at, rest
  <2> QED BY <1>1, <1>2, <1>4, <1>5, <1>6, <1>7, <1>9, <2>1, PartUnits
<1> QED
  BY <1>3, <1>8, <1>9

(* What decays takes what it holds along; nothing else changes. *)
LEMMA DecayUnits ==
  ASSUME GroundInv, GroundInv', HoldsLoot, Decay
  PROVE  UnitStep /\ HoldsLoot'
<1> DEFINE places(t) == {Place(r) : r \in Records(Expired, t)}
<1>1. /\ Placed /\ Placed' /\ ground \in [Tiles -> Seq(Item)] /\ ground' \in [Tiles -> Seq(Item)]
      /\ goods' = goods /\ beat = "decay" /\ registry' = registry \ Expired
      /\ \A t \in Tiles : ground'[t] = Without(ground[t], places(t))
  BY DEF GroundInv, MapInv, Placed, Decay, Survivors
<1>2. Expired \subseteq registry
  BY DEF Expired
<1>3. ASSUME registry' = registry, NEW t \in Tiles PROVE places(t) = {}
  <2>1. Expired = {}
    BY <1>1, <1>2, <1>3
  <2> QED BY <2>1 DEF Records
<1> HIDE DEF places
<1>4. ASSUME NEW W \in [Item -> Nat]
      PROVE  /\ Lying(W, ground') <= Lying(W, ground)
             /\ registry' = registry => Lying(W, ground') = Lying(W, ground)
  <2>1. ASSUME NEW t \in Tiles
        PROVE  /\ OnTile(W, ground'[t]) <= OnTile(W, ground[t])
               /\ registry' = registry => OnTile(W, ground'[t]) = OnTile(W, ground[t])
    <3>1. ground[t] \in Seq(Item)
      BY <1>1
    <3>2. /\ OnTile(W, Without(ground[t], places(t))) <= OnTile(W, ground[t])
          /\ places(t) = {} => OnTile(W, Without(ground[t], places(t))) = OnTile(W, ground[t])
      BY <3>1, OnTileLess
    <3> QED BY <1>1, <1>3, <3>2
  <2>2. Lying(W, ground') <= Lying(W, ground)
    BY <1>1, <2>1, LyingLess
  <2>3. registry' = registry => Lying(W, ground') = Lying(W, ground)
    <3>1. ASSUME registry' = registry
          PROVE  [t \in Tiles |-> OnTile(W, ground'[t])] = [t \in Tiles |-> OnTile(W, ground[t])]
      BY <2>1, <3>1
    <3> QED BY <3>1 DEF Lying
  <2> QED BY <2>2, <2>3
<1>5. ASSUME NEW x \in Things
      PROVE  /\ Units(x) \in Int /\ Units(x)' \in Int /\ Units(x)' <= Units(x)
             /\ registry' = registry => Units(x)' = Units(x)
  <2>1. /\ Units(x) = Held(x, goods) + Lying(Weight(x), ground)
        /\ Units(x)' = Held(x, goods') + Lying(Weight(x), ground')
        /\ Held(x, goods) \in Int /\ Lying(Weight(x), ground) \in Int
        /\ Lying(Weight(x), ground') \in Int
    BY <1>1, CountsNext
  <2>2. /\ Lying(Weight(x), ground') <= Lying(Weight(x), ground)
        /\ registry' = registry => Lying(Weight(x), ground') = Lying(Weight(x), ground)
    BY <1>4, WeightIs
  <2>3. Held(x, goods') = Held(x, goods)
    BY <1>1
  <2> QED BY <2>1, <2>2, <2>3
<1>6. UnitStep
  <2>1. \A x \in Things : ~ (Units(x)' > Units(x))
    BY <1>5
  <2>2. \A x \in Things : Units(x)' < Units(x) => registry' # registry
    BY <1>5
  <2> QED BY <1>1, <2>1, <2>2 DEF UnitStep
<1>7. HoldsLoot'
  <2>1. ASSUME NEW t \in Tiles PROVE LootHeld(ground'[t])
    <3>1. ground[t] \in Seq(Item) /\ LootHeld(ground[t])
      BY <1>1 DEF HoldsLoot
    <3> QED BY <1>1, <3>1, LootWithout
  <2> QED BY <2>1 DEF HoldsLoot
<1> QED
  BY <1>6, <1>7

(* A start that is not refused finds the world as it was left. *)
LEMMA RestartUnits ==
  ASSUME GroundInv, GroundInv', HoldsLoot, Restart
  PROVE  UnitStep /\ HoldsLoot'
<1>1. /\ disk = Stored /\ Journaled(disk) /\ \A t \in Tiles : Laid(ground[t], origin[t], disk, t)
      /\ ground \in [Tiles -> Seq(Item)] /\ Placed /\ Placed'
  BY DEF GroundInv, MapInv, Placed
<1>2. \A t \in Tiles : Gapless(disk.registry, t)
  BY DEF Restart, Recoverable
<1>3. \A t \in Tiles : RecoveredTile(disk, t) = ground[t]
  BY <1>1, <1>2, LaidRecovers
<1>4. ground' = ground
  BY <1>1, <1>3 DEF Restart
<1>5. goods' = goods
  BY <1>1, StoredFields DEF Restart
<1> QED
  BY <1>1, <1>4, <1>5, NothingMoved

LEMMA UnitSteps ==
  ASSUME GroundInv, GroundInv', HoldsLoot, [Next]_vars
  PROVE  UnitStep /\ HoldsLoot'
<1>0. Placed /\ Placed'
  BY DEF GroundInv, MapInv, Placed
<1>1. ASSUME UNCHANGED memory PROVE UnitStep /\ HoldsLoot'
  BY <1>0, <1>1, NothingMoved DEF memory
<1>2. ASSUME NEW p \in Players, SessionStep(p)
      PROVE  UnitStep /\ HoldsLoot'
  <2>1. CASE \E t \in Tiles, at \in 1..Limit : LookAt(p, t, at)
    BY <1>1, <2>1 DEF LookAt
  <2>2. CASE LookAway(p)
    BY <1>1, <2>2 DEF LookAway
  <2>3. CASE \E t \in Tiles, x \in Carried, n \in 1..Most : DropStack(p, t, x, n)
    BY <2>3, DropStackUnits
  <2>4. CASE TakeWhole(p)
    BY <2>4, TakeWholeUnits
  <2>5. CASE \E n \in 1..Most : TakeSome(p, n)
    BY <2>5, TakeSomeUnits
  <2>6. CASE \E n \in 1..Most : TakeInside(p, n)
    BY <2>6, TakeInsideUnits
  <2>7. CASE \E n \in 1..Most : TakeSource(p, n)
    BY <2>7, TakeSourceUnits
  <2> QED BY <1>2, <2>1, <2>2, <2>3, <2>4, <2>5, <2>6, <2>7 DEF SessionStep
<1>3. CASE \E p \in Players : SessionStep(p)
  BY <1>2, <1>3
<1>4. CASE \E t \in Tiles, n \in 0..MaxLoot : PlaceCorpse(t, n)
  BY <1>4, PlaceCorpseUnits
<1>5. CASE Tick
  BY <1>1, <1>5 DEF Tick
<1>6. CASE Decay
  BY <1>6, DecayUnits
<1>7. CASE DecayFails
  BY <1>1, <1>7 DEF DecayFails
<1>8. CASE Restart
  BY <1>8, RestartUnits
<1>9. CASE StartRefused
  BY <1>1, <1>9 DEF StartRefused
<1>10. CASE UNCHANGED vars
  BY <1>1, <1>10 DEF vars
<1> QED
  BY <1>3, <1>4, <1>5, <1>6, <1>7, <1>8, <1>9, <1>10 DEF Next

----------------------------------------------------------------------------
(* Theorems *)

LEMMA GroundInvariant == Spec => []GroundInv
<1>1. Init => GroundInv
  BY GroundStarts
<1>2. GroundInv /\ [Next]_vars => GroundInv'
  BY GroundSteps
<1> QED
  BY <1>1, <1>2, PTL DEF Spec

(* No pickup, reduction or decay leaves an empty stack on a tile, an override  *)
(* of nothing in the journal or a record without a tile, in memory or on disk; *)
(* no tile holds more than MAX_WORLD_MAP_ITEMS_PER_TILE, no registry more than *)
(* MAX_RUNTIME_MAP_ITEMS, and an inventory never holds less than nothing       *)
(* (map_transfers.rs, shared_native_map.rs).                                   *)
THEOREM GroundTyped == Spec => []TypeOK
<1>1. GroundInv => TypeOK
  BY InvTypes
<1> QED
  BY <1>1, GroundInvariant, PTL

(* recover_complete_map_item_state rebuilds, from what the transactions of    *)
(* drops, corpses, pickups and decay stored, every tile whose ordinals have   *)
(* no gap just as it lies there, and refuses nothing but gaps.                *)
THEOREM DiskAlwaysRestoresTheGround == Spec => []DiskRestoresTheGround
<1>1. GroundInv => DiskRestoresTheGround
  BY InvRestores
<1> QED
  BY <1>1, GroundInvariant, PTL

(* No order of drops, corpses, pickups by old places and restarts leaves a    *)
(* gap in the ordinals of a tile; remove_expired_runtime_items does, when a   *)
(* record decays below one that stays.                                        *)
THEOREM GapsComeFromDecayAlone == Spec => OnlyDecayLeavesGaps
<1>1. GroundInv /\ [Next]_vars => [GapStep]_vars
  BY GroundSteps
<1>2. [][GapStep]_vars => OnlyDecayLeavesGaps
  BY PTL DEF GapStep, OnlyDecayLeavesGaps
<1> QED
  BY <1>1, <1>2, GroundInvariant, PTL DEF Spec

(* Whatever players do with items named by places that have changed, what     *)
(* they and the tiles have together is what it was, but for the loot of new   *)
(* corpses and for what decays or is carried away inside a corpse             *)
(* (map_transfers.rs, remove_expired_runtime_items).                          *)
THEOREM NothingIsEverMadeOrLost == Spec => NothingIsMadeOrLost
<1>1. Init => GroundInv /\ HoldsLoot
  BY GroundStarts, LootAtFirst
<1>2. GroundInv /\ GroundInv' /\ HoldsLoot /\ [Next]_vars => HoldsLoot' /\ [UnitStep]_vars
  BY UnitSteps
<1>3. [][UnitStep]_vars => NothingIsMadeOrLost
  BY PTL DEF UnitStep, NothingIsMadeOrLost
<1> QED
  BY <1>1, <1>2, <1>3, GroundInvariant, PTL DEF Spec

=============================================================================

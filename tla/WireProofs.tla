----------------------------- MODULE WireProofs -----------------------------
(***************************************************************************)
(* Theorems about frames as data.  Whatever the generated code writes, it  *)
(* reads back; and what it writes as a Oneshot, Begin, Process or End it   *)
(* also reads as the Header of that frame.  compute_size is a sum, so that *)
(* it can be bounded for every length of a message.                        *)
(***************************************************************************)
EXTENDS Wire, FiniteSetTheorems, WellFoundedInduction, TLAPS

(* Induction by least counterexamples: the facts below that need one say that *)
(* the set of their counterexamples has no least element.                     *)
LEMMA LeastNatural ==
  ASSUME NEW T \in SUBSET Nat, T # {}
  PROVE  \E n \in T : \A k \in T : n <= k
<1> DEFINE R == OpToRel(<, Nat)
<1>1. \A x, y \in Nat : x < y => <<x, y>> \in R
  BY DEF OpToRel
<1>2. IsWellFoundedOn(R, Nat)
  BY NatLessThanWellFounded
<1> HIDE DEF R
<1>3. PICK n \in T : \A k \in T : ~(<<k, n>> \in R)
  BY <1>2, WFMin
<1>4. ASSUME NEW k \in T PROVE n <= k
  <2>1. ~(k < n)
    BY <1>1, <1>3
  <2>2. k \in Nat /\ n \in Nat
    BY <1>3
  <2> QED BY <2>1, <2>2
<1> QED BY <1>3, <1>4

(* A set of finite sets has a smallest one. *)
LEMMA LeastSet ==
  ASSUME NEW F, F # {}, \A s \in F : IsFiniteSet(s)
  PROVE  \E s \in F : \A t \in F : Cardinality(s) <= Cardinality(t)
<1> DEFINE T == {n \in Nat : \E s \in F : Cardinality(s) = n}
<1>1. \A s \in F : Cardinality(s) \in T
  BY FS_CardinalityType
<1>2. PICK n \in T : \A k \in T : n <= k
  BY <1>1, LeastNatural
<1> QED BY <1>1, <1>2

LEMMA Removed ==
  ASSUME NEW S, IsFiniteSet(S), NEW x \in S
  PROVE  /\ IsFiniteSet(S \ {x})
         /\ Cardinality(S \ {x}) < Cardinality(S)
         /\ ~(Cardinality(S) <= Cardinality(S \ {x}))
<1>1. Cardinality(S) \in Nat /\ Cardinality(S \ {x}) = Cardinality(S) - 1 /\ IsFiniteSet(S \ {x})
  BY FS_RemoveElement, FS_CardinalityType
<1> QED BY <1>1

-----------------------------------------------------------------------------
(* Sums over finite sets.  it[s] is the sum of the weights of s, for every    *)
(* subset s of S, as MapThenSumSet computes it.                               *)
First(s) == CHOOSE x \in s : TRUE

Summing(w, S, it) ==
  it = [s \in SUBSET S |-> IF s = {} THEN 0 ELSE w[First(s)] + it[s \ {First(s)}]]

Total(w, S) == (CHOOSE it : Summing(w, S, it))[S]

LEMMA FirstOf == \A s : s # {} => First(s) \in s
BY DEF First

LEMMA SummingStep ==
  ASSUME NEW w, NEW S, NEW it, Summing(w, S, it), NEW s \in SUBSET S
  PROVE  it[s] = IF s = {} THEN 0 ELSE w[First(s)] + it[s \ {First(s)}]
BY DEF Summing

LEMMA SummingAgree ==
  ASSUME NEW v, NEW w, NEW S, NEW T, NEW f, NEW g,
         IsFiniteSet(S), Summing(v, S, f), Summing(w, T, g),
         NEW r \in SUBSET (S \cap T), \A x \in r : v[x] = w[x]
  PROVE  f[r] = g[r]
<1> DEFINE Bad == {s \in SUBSET r : f[s] # g[s]}
<1> SUFFICES ASSUME Bad # {} PROVE FALSE
  OBVIOUS
<1>1. \A s \in Bad : IsFiniteSet(s)
  BY FS_Subset
<1>2. PICK s \in Bad : \A t \in Bad : Cardinality(s) <= Cardinality(t)
  <2> HIDE DEF Bad
  <2> QED BY <1>1, LeastSet
<1>3. s \in SUBSET S /\ s \in SUBSET T
  OBVIOUS
<1>4. /\ f[s] = IF s = {} THEN 0 ELSE v[First(s)] + f[s \ {First(s)}]
      /\ g[s] = IF s = {} THEN 0 ELSE w[First(s)] + g[s \ {First(s)}]
  BY <1>3, SummingStep
<1>5. s # {} /\ First(s) \in s
  BY <1>4, FirstOf
<1>6. s \ {First(s)} \notin Bad
  BY <1>1, <1>2, <1>5, Removed
<1>7. f[s \ {First(s)}] = g[s \ {First(s)}]
  BY <1>6
<1> QED BY <1>4, <1>5, <1>7

LEMMA SummingExists ==
  ASSUME NEW w, NEW S, IsFiniteSet(S)
  PROVE  \E it : Summing(w, S, it)
<1> DEFINE Bad == {s \in SUBSET S : ~\E it : Summing(w, s, it)}
<1> SUFFICES ASSUME Bad # {} PROVE FALSE
  OBVIOUS
<1>1. \A s \in SUBSET S : IsFiniteSet(s)
  BY FS_Subset
<1>2. PICK s \in Bad : \A t \in Bad : Cardinality(s) <= Cardinality(t)
  <2>1. \A t \in Bad : IsFiniteSet(t)
    BY <1>1
  <2> HIDE DEF Bad
  <2> QED BY <2>1, LeastSet
<1> DEFINE Of(t) == CHOOSE it : Summing(w, t, it)
           it == [t \in SUBSET s |->
                    IF t = {} THEN 0 ELSE w[First(t)] + Total(w, t \ {First(t)})]
<1>3. ASSUME NEW t \in SUBSET s, t # {} PROVE Summing(w, t \ {First(t)}, Of(t \ {First(t)}))
  <2>1. First(t) \in t /\ IsFiniteSet(t)
    BY <1>1, <1>3, FirstOf
  <2>2. Cardinality(t \ {First(t)}) < Cardinality(t) /\ t \ {First(t)} \in SUBSET S
    BY <2>1, Removed
  <2>3. Cardinality(t) <= Cardinality(s) /\ Cardinality(t) \in Nat /\ Cardinality(s) \in Nat
        /\ Cardinality(t \ {First(t)}) \in Nat
    BY <1>1, <2>1, <2>2, FS_Subset, FS_CardinalityType
  <2>4. t \ {First(t)} \notin Bad
    BY <1>2, <2>2, <2>3
  <2>5. \E i : Summing(w, t \ {First(t)}, i)
    BY <2>2, <2>4
  <2> QED BY <2>5
<1>4. ASSUME NEW t \in SUBSET s, t # {}
      PROVE  it[t \ {First(t)}] = Total(w, t \ {First(t)})
  <2> DEFINE r == t \ {First(t)}
  <2>1. Summing(w, r, Of(r)) /\ r \in SUBSET s
    BY <1>3, <1>4
  <2>2. Total(w, r) = IF r = {} THEN 0 ELSE w[First(r)] + Of(r)[r \ {First(r)}]
    <3>1. Of(r)[r] = IF r = {} THEN 0 ELSE w[First(r)] + Of(r)[r \ {First(r)}]
      <4> HIDE DEF r, Of
      <4> QED BY <2>1, SummingStep
    <3> QED BY <3>1 DEF Total
  <2>3. r # {} => Of(r)[r \ {First(r)}] = Total(w, r \ {First(r)})
    <3> SUFFICES ASSUME r # {} PROVE Of(r)[r \ {First(r)}] = Total(w, r \ {First(r)})
      OBVIOUS
    <3>1. Summing(w, r \ {First(r)}, Of(r \ {First(r)})) /\ IsFiniteSet(r)
      BY <1>1, <1>3, <2>1
    <3>2. Of(r)[r \ {First(r)}] = Of(r \ {First(r)})[r \ {First(r)}]
      <4> HIDE DEF r, Of
      <4> QED BY <2>1, <3>1, SummingAgree
    <3> QED BY <3>2 DEF Total
  <2> QED BY <2>1, <2>2, <2>3
<1>5. Summing(w, s, it)
  BY <1>4 DEF Summing
<1> QED BY <1>2, <1>5

LEMMA SummingTotal ==
  ASSUME NEW w, NEW S, IsFiniteSet(S), NEW it, Summing(w, S, it)
  PROVE  \A s \in SUBSET S : it[s] = Total(w, s)
<1> SUFFICES ASSUME NEW s \in SUBSET S PROVE it[s] = Total(w, s)
  OBVIOUS
<1> DEFINE g == CHOOSE i : Summing(w, s, i)
<1>1. IsFiniteSet(s)
  BY FS_Subset
<1>2. Summing(w, s, g)
  BY <1>1, SummingExists
<1>3. s \in SUBSET (S \cap s)
  OBVIOUS
<1>4. it[s] = g[s]
  <2> HIDE DEF g
  <2> QED BY <1>2, <1>3, SummingAgree
<1> QED BY <1>4 DEF Total

LEMMA TotalStep ==
  ASSUME NEW w, NEW S, IsFiniteSet(S)
  PROVE  Total(w, S) = IF S = {} THEN 0 ELSE w[First(S)] + Total(w, S \ {First(S)})
<1>1. PICK it : Summing(w, S, it)
  BY SummingExists
<1>2. it[S] = IF S = {} THEN 0 ELSE w[First(S)] + it[S \ {First(S)}]
  BY <1>1, SummingStep
<1>3. S \in SUBSET S /\ S \ {First(S)} \in SUBSET S
  OBVIOUS
<1>4. it[S] = Total(w, S) /\ it[S \ {First(S)}] = Total(w, S \ {First(S)})
  BY <1>1, <1>3, SummingTotal
<1> QED BY <1>2, <1>4

LEMMA TotalSame ==
  ASSUME NEW v, NEW w, NEW S, IsFiniteSet(S), \A x \in S : v[x] = w[x]
  PROVE  Total(v, S) = Total(w, S)
<1>1. PICK f : Summing(v, S, f)
  BY SummingExists
<1>2. PICK g : Summing(w, S, g)
  BY SummingExists
<1>3. f[S] = g[S]
  BY <1>1, <1>2, SummingAgree
<1> QED BY <1>1, <1>2, <1>3, SummingTotal

LEMMA TotalNat ==
  ASSUME NEW w, NEW S, IsFiniteSet(S), \A x \in S : w[x] \in Nat
  PROVE  Total(w, S) \in Nat
<1> DEFINE Bad == {s \in SUBSET S : Total(w, s) \notin Nat}
<1> SUFFICES ASSUME Bad # {} PROVE FALSE
  OBVIOUS
<1>1. \A s \in Bad : IsFiniteSet(s)
  BY FS_Subset
<1>2. PICK s \in Bad : \A t \in Bad : Cardinality(s) <= Cardinality(t)
  <2> HIDE DEF Bad
  <2> QED BY <1>1, LeastSet
<1>3. Total(w, s) = IF s = {} THEN 0 ELSE w[First(s)] + Total(w, s \ {First(s)})
  BY <1>1, TotalStep
<1>4. s # {} /\ First(s) \in s
  BY <1>3, FirstOf
<1>5. s \ {First(s)} \notin Bad
  BY <1>1, <1>2, <1>4, Removed
<1> QED BY <1>3, <1>4, <1>5

(* Any element may be counted last. *)
LEMMA TotalRemove ==
  ASSUME NEW w, NEW S, IsFiniteSet(S), \A x \in S : w[x] \in Nat, NEW x \in S
  PROVE  Total(w, S) = w[x] + Total(w, S \ {x})
<1> DEFINE Bad == {s \in SUBSET S : \E y \in s : Total(w, s) # w[y] + Total(w, s \ {y})}
<1> SUFFICES ASSUME Bad # {} PROVE FALSE
  OBVIOUS
<1>1. \A s \in SUBSET S : IsFiniteSet(s) /\ Total(w, s) \in Nat
  BY FS_Subset, TotalNat
<1>2. PICK s \in Bad : \A t \in Bad : Cardinality(s) <= Cardinality(t)
  <2>1. \A t \in Bad : IsFiniteSet(t)
    BY <1>1
  <2> HIDE DEF Bad
  <2> QED BY <2>1, LeastSet
<1>3. PICK y \in s : Total(w, s) # w[y] + Total(w, s \ {y})
  OBVIOUS
<1> DEFINE c == First(s)
<1>4. c \in s /\ Total(w, s) = w[c] + Total(w, s \ {c})
  BY <1>1, <1>3, FirstOf, TotalStep
<1>5. y # c
  BY <1>3, <1>4
<1>6. s \ {c} \notin Bad /\ s \ {y} \notin Bad
  <2>1. s \in SUBSET S
    OBVIOUS
  <2>2. IsFiniteSet(s)
    BY <1>1, <2>1
  <2> HIDE DEF Bad, c
  <2>3. ~(Cardinality(s) <= Cardinality(s \ {c})) /\ ~(Cardinality(s) <= Cardinality(s \ {y}))
    BY <1>3, <1>4, <2>2, Removed
  <2> QED BY <1>2, <2>3
<1> HIDE DEF c
<1>7. /\ Total(w, s \ {c}) = w[y] + Total(w, (s \ {c}) \ {y})
      /\ Total(w, s \ {y}) = w[c] + Total(w, (s \ {y}) \ {c})
  BY <1>3, <1>4, <1>5, <1>6
<1>8. (s \ {c}) \ {y} = (s \ {y}) \ {c}
  OBVIOUS
<1>9. w[c] \in Nat /\ w[y] \in Nat /\ Total(w, (s \ {y}) \ {c}) \in Nat
  BY <1>1, <1>3, <1>4
<1> QED BY <1>3, <1>4, <1>7, <1>8, <1>9

LEMMA TotalAdd ==
  ASSUME NEW w, NEW S, IsFiniteSet(S), NEW x, x \notin S,
         \A y \in S \cup {x} : w[y] \in Nat
  PROVE  Total(w, S \cup {x}) = w[x] + Total(w, S)
<1>1. IsFiniteSet(S \cup {x}) /\ (S \cup {x}) \ {x} = S
  BY FS_AddElement
<1> QED BY <1>1, TotalRemove

-----------------------------------------------------------------------------
(* compute_size of a number. *)
VarintOn(n, g) == g = [k \in 0..n |-> IF k < 128 THEN 1 ELSE 1 + g[k \div 128]]

LEMMA Shorter ==
  \A n \in Nat : n >= 128 => n \div 128 \in Nat /\ n \div 128 < n
OBVIOUS

LEMMA VarintAgree ==
  ASSUME NEW m \in Nat, NEW n \in Nat, NEW f, NEW g, VarintOn(m, f), VarintOn(n, g)
  PROVE  \A k \in Nat : k <= m /\ k <= n => f[k] = g[k]
<1> DEFINE Bad == {k \in Nat : k <= m /\ k <= n /\ f[k] # g[k]}
<1> SUFFICES ASSUME Bad # {} PROVE FALSE
  OBVIOUS
<1>1. PICK k \in Bad : \A j \in Bad : k <= j
  <2> HIDE DEF Bad
  <2>1. Bad \in SUBSET Nat
    BY DEF Bad
  <2> QED BY <2>1, LeastNatural
<1>2. k \in 0..m /\ k \in 0..n
  OBVIOUS
<1>3. /\ f[k] = IF k < 128 THEN 1 ELSE 1 + f[k \div 128]
      /\ g[k] = IF k < 128 THEN 1 ELSE 1 + g[k \div 128]
  BY <1>2 DEF VarintOn
<1>4. k >= 128 => k \div 128 \in Nat /\ k \div 128 < k
  BY Shorter
<1>5. k >= 128 => k \div 128 \notin Bad
  BY <1>1, <1>4
<1> QED BY <1>3, <1>4, <1>5

LEMMA VarintExists ==
  ASSUME NEW n \in Nat
  PROVE  \E g : VarintOn(n, g)
<1> DEFINE Bad == {k \in Nat : ~\E g : VarintOn(k, g)}
<1> SUFFICES ASSUME Bad # {} PROVE FALSE
  OBVIOUS
<1>1. PICK k \in Bad : \A j \in Bad : k <= j
  <2> HIDE DEF Bad
  <2>1. Bad \in SUBSET Nat
    BY DEF Bad
  <2> QED BY <2>1, LeastNatural
<1>2. \A j \in Nat : j < k => \E g : VarintOn(j, g)
  BY <1>1
<1> DEFINE Of(j) == CHOOSE g : VarintOn(j, g)
           g == [j \in 0..k |-> IF j < 128 THEN 1 ELSE 1 + Of(j \div 128)[j \div 128]]
<1>3. \A j \in Nat : j < k => VarintOn(j, Of(j))
  BY <1>2
<1>4. ASSUME NEW j \in 0..k, j >= 128 PROVE g[j \div 128] = Of(j \div 128)[j \div 128]
  <2> DEFINE i == j \div 128
  <2>1. i \in Nat /\ i < j /\ j \in Nat /\ i < k /\ i \in 0..k
    BY <1>4, Shorter
  <2>2. VarintOn(i, Of(i))
    BY <1>3, <2>1
  <2>3. Of(i)[i] = IF i < 128 THEN 1 ELSE 1 + Of(i)[i \div 128]
    <3> HIDE DEF Of, i
    <3> QED BY <2>1, <2>2 DEF VarintOn
  <2>4. i >= 128 => Of(i)[i \div 128] = Of(i \div 128)[i \div 128]
    <3> SUFFICES ASSUME i >= 128 PROVE Of(i)[i \div 128] = Of(i \div 128)[i \div 128]
      OBVIOUS
    <3>1. i \div 128 \in Nat /\ i \div 128 < i
      BY <2>1, Shorter
    <3>2. VarintOn(i \div 128, Of(i \div 128))
      BY <1>3, <2>1, <3>1
    <3> HIDE DEF Of, i
    <3> QED BY <2>1, <2>2, <3>1, <3>2, VarintAgree
  <2> HIDE DEF Of, i
  <2>5. g[i] = IF i < 128 THEN 1 ELSE 1 + Of(i \div 128)[i \div 128]
    BY <2>1
  <2> QED BY <2>1, <2>3, <2>4, <2>5 DEF i
<1>5. VarintOn(k, g)
  <2> HIDE DEF Of
  <2>1. ASSUME NEW j \in 0..k PROVE g[j] = IF j < 128 THEN 1 ELSE 1 + g[j \div 128]
    <3>1. g[j] = IF j < 128 THEN 1 ELSE 1 + Of(j \div 128)[j \div 128]
      OBVIOUS
    <3> HIDE DEF g
    <3>2. ~(j < 128) => j >= 128
      OBVIOUS
    <3>3. j >= 128 => g[j \div 128] = Of(j \div 128)[j \div 128]
      BY <1>4
    <3> QED BY <3>1, <3>2, <3>3
  <2>2. g = [j \in 0..k |-> g[j]]
    OBVIOUS
  <2> HIDE DEF g
  <2> QED BY <2>1, <2>2 DEF VarintOn
<1> QED BY <1>1, <1>5

LEMMA VarintStep ==
  \A n \in Nat : varint[n] = IF n < 128 THEN 1 ELSE 1 + varint[n \div 128]
<1> DEFINE Of(j) == CHOOSE g : VarintOn(j, g)
           V(v) == v = [n \in Nat |-> IF n < 128 THEN 1 ELSE 1 + v[n \div 128]]
           v0 == [n \in Nat |-> Of(n)[n]]
<1>1. \A n \in Nat : VarintOn(n, Of(n))
  BY VarintExists
<1>2. ASSUME NEW n \in Nat
      PROVE  v0[n] = IF n < 128 THEN 1 ELSE 1 + v0[n \div 128]
  <2> HIDE DEF Of
  <2>1. Of(n)[n] = IF n < 128 THEN 1 ELSE 1 + Of(n)[n \div 128]
    BY <1>1 DEF VarintOn
  <2>2. ASSUME n >= 128 PROVE Of(n)[n \div 128] = v0[n \div 128]
    <3>1. n \div 128 \in Nat /\ n \div 128 < n
      BY <2>2, Shorter
    <3>2. VarintOn(n, Of(n)) /\ VarintOn(n \div 128, Of(n \div 128))
      BY <1>1, <3>1
    <3> QED BY <3>1, <3>2, VarintAgree
  <2> QED BY <2>1, <2>2
<1>3. V(v0)
  <2> HIDE DEF Of
  <2> QED BY <1>2
<1>4. varint = CHOOSE v : V(v)
  BY DEF varint
<1>5. V(varint)
  <2> HIDE DEF V, v0
  <2> QED BY <1>3, <1>4
<1> QED BY <1>5

LEMMA VarintNat == \A n \in Nat : varint[n] \in Nat \ {0}
<1> DEFINE Bad == {n \in Nat : varint[n] \notin Nat \ {0}}
<1> SUFFICES ASSUME Bad # {} PROVE FALSE
  OBVIOUS
<1>1. PICK n \in Bad : \A k \in Bad : n <= k
  <2> HIDE DEF Bad
  <2>1. Bad \in SUBSET Nat
    BY DEF Bad
  <2> QED BY <2>1, LeastNatural
<1>2. varint[n] = IF n < 128 THEN 1 ELSE 1 + varint[n \div 128]
  BY VarintStep
<1>3. n >= 128 => n \div 128 \in Nat /\ n \div 128 < n
  BY Shorter
<1>4. n >= 128 => n \div 128 \notin Bad
  BY <1>1, <1>3
<1> QED BY <1>2, <1>3, <1>4

(* A larger number is not shorter. *)
LEMMA VarintMonotone ==
  ASSUME NEW a \in Nat, NEW b \in Nat, a <= b
  PROVE  varint[a] <= varint[b]
<1> DEFINE Bad == {n \in Nat : \E k \in Nat : k <= n /\ ~(varint[k] <= varint[n])}
<1> SUFFICES ASSUME Bad # {} PROVE FALSE
  OBVIOUS
<1>1. PICK n \in Bad : \A k \in Bad : n <= k
  <2> HIDE DEF Bad
  <2>1. Bad \in SUBSET Nat
    BY DEF Bad
  <2> QED BY <2>1, LeastNatural
<1>2. PICK k \in Nat : k <= n /\ ~(varint[k] <= varint[n])
  BY <1>1
<1>3. /\ varint[n] = IF n < 128 THEN 1 ELSE 1 + varint[n \div 128]
      /\ varint[k] = IF k < 128 THEN 1 ELSE 1 + varint[k \div 128]
      /\ varint[n] \in Nat \ {0}
  BY VarintStep, VarintNat
<1>4. n >= 128 /\ k >= 128
  BY <1>2, <1>3
<1>5. /\ n \div 128 \in Nat /\ n \div 128 < n /\ k \div 128 \in Nat
      /\ k \div 128 <= n \div 128
  BY <1>2, <1>4, Shorter
<1>6. n \div 128 \notin Bad
  BY <1>1, <1>5
<1>7. varint[k \div 128] <= varint[n \div 128]
  BY <1>5, <1>6
<1>8. varint[k \div 128] \in Nat /\ varint[n \div 128] \in Nat
  BY <1>5, VarintNat
<1> QED BY <1>2, <1>3, <1>4, <1>7, <1>8

(* n times as many bytes take at most n - 1 more to write their number. *)
LEMMA VarintTimes ==
  ASSUME NEW a \in Nat, NEW b \in Nat \ {0}
  PROVE  varint[a * b] + 1 <= varint[a] + b
<1> DEFINE Bad == {n \in Nat \ {0} : ~(varint[a * n] + 1 <= varint[a] + n)}
<1> SUFFICES ASSUME Bad # {} PROVE FALSE
  OBVIOUS
<1>1. PICK n \in Bad : \A k \in Bad : n <= k
  <2> HIDE DEF Bad
  <2>1. Bad \in SUBSET Nat
    BY DEF Bad
  <2> QED BY <2>1, LeastNatural
<1>2. n # 1
  BY VarintNat
<1>3. n - 1 \in Nat \ {0} /\ n - 1 \notin Bad
  BY <1>1, <1>2
<1> DEFINE p == a * (n - 1)
<1>4. p \in Nat /\ a * n = p + a /\ a <= p /\ varint[p] + 1 <= varint[a] + (n - 1)
  <2>1. varint[p] + 1 <= varint[a] + (n - 1)
    BY <1>3
  <2>2. p \in Nat /\ a * n = p + a
    BY <1>3
  <2>3. a <= p
    <3>1. PICK j \in Nat : n - 1 = j + 1
      <4>1. n - 2 \in Nat
        BY <1>3
      <4> WITNESS n - 2 \in Nat
      <4> QED BY <1>3
    <3>2. a * (j + 1) = a * j + a /\ a * j \in Nat
      OBVIOUS
    <3> QED BY <3>1, <3>2
  <2> QED BY <2>1, <2>2, <2>3
<1> HIDE DEF p
<1>5. varint[p + a] <= 1 + varint[p]
  <2>1. varint[p + a] = IF p + a < 128 THEN 1 ELSE 1 + varint[(p + a) \div 128]
    BY <1>4, VarintStep
  <2>2. (p + a) \div 128 \in Nat /\ (p + a) \div 128 <= p
    BY <1>4
  <2>3. varint[(p + a) \div 128] <= varint[p] /\ varint[p] \in Nat /\ varint[(p + a) \div 128] \in Nat
    BY <1>4, <2>2, VarintMonotone, VarintNat
  <2> QED BY <2>1, <2>3
<1>6. varint[p + a] \in Nat /\ varint[p] \in Nat /\ varint[a] \in Nat
  BY <1>4, VarintNat
<1>7. varint[a * n] + 1 <= varint[a] + n
  BY <1>3, <1>4, <1>5, <1>6
<1> QED BY <1>7

-----------------------------------------------------------------------------
(* A finite set has an element of greatest weight. *)
LEMMA Heaviest ==
  ASSUME NEW S, IsFiniteSet(S), S # {}, NEW w, \A x \in S : w[x] \in Nat
  PROVE  \E x \in S : \A y \in S : w[y] <= w[x]
<1> DEFINE Bad == {s \in SUBSET S : s # {} /\ ~\E x \in s : \A y \in s : w[y] <= w[x]}
<1> SUFFICES ASSUME Bad # {} PROVE FALSE
  OBVIOUS
<1>1. \A s \in Bad : IsFiniteSet(s)
  BY FS_Subset
<1>2. PICK s \in Bad : \A t \in Bad : Cardinality(s) <= Cardinality(t)
  <2> HIDE DEF Bad
  <2> QED BY <1>1, LeastSet
<1>3. PICK x \in s : TRUE
  OBVIOUS
<1>4. s \ {x} \notin Bad
  <2> HIDE DEF Bad
  <2> QED BY <1>1, <1>2, <1>3, Removed
<1>5. s \ {x} # {}
  BY <1>3
<1>6. PICK z \in s \ {x} : \A y \in s \ {x} : w[y] <= w[z]
  BY <1>4, <1>5
<1>7. \E m \in s : \A y \in s : w[y] <= w[m]
  <2>1. CASE w[x] <= w[z]
    BY <1>6, <2>1
  <2>2. CASE ~(w[x] <= w[z])
    <3>1. w[x] \in Nat /\ w[z] \in Nat /\ \A y \in s : w[y] \in Nat
      BY <1>3, <1>6
    <3>2. \A y \in s : w[y] <= w[x]
      BY <1>6, <2>2, <3>1
    <3> QED BY <1>3, <3>2
  <2> QED BY <2>1, <2>2
<1> QED BY <1>7

LEMMA MaxOf ==
  ASSUME NEW S \in SUBSET Nat, IsFiniteSet(S), S # {}
  PROVE  Max(S) \in S /\ \A y \in S : y <= Max(S)
<1> DEFINE w == [x \in S |-> x]
<1>1. \E x \in S : \A y \in S : w[y] <= w[x]
  <2>1. \A x \in S : w[x] \in Nat
    OBVIOUS
  <2> HIDE DEF w
  <2> QED BY <2>1, Heaviest
<1>2. \E x \in S : \A y \in S : x >= y
  BY <1>1
<1> QED BY <1>2 DEF Max

-----------------------------------------------------------------------------
(* The size of a frame is the sum of the sizes of its fields. *)
Weight(frame) == [f \in frame |-> FieldSize(f)]

LEMMA FrameSizeIsTotal ==
  ASSUME NEW frame, IsFiniteSet(frame)
  PROVE  FrameSize(frame) = Total(Weight(frame), frame)
<1> DEFINE E(it) == it = [s \in SUBSET frame |->
             IF s = {} THEN 0
             ELSE FieldSize(First(s)) + it[s \ {First(s)}]]
           i == CHOOSE it : E(it)
<1>1. FrameSize(frame) = i[frame]
  BY DEF FrameSize, MapThenSumSet, MapThenFoldSet, First
<1>2. ASSUME NEW it PROVE E(it) <=> Summing(Weight(frame), frame, it)
  <2>1. \A s \in SUBSET frame : s # {} => Weight(frame)[First(s)] = FieldSize(First(s))
    BY FirstOf DEF Weight
  <2> QED BY <2>1 DEF Summing
<1>3. \E it : E(it)
  <2> HIDE DEF E
  <2> QED BY <1>2, SummingExists
<1>4. E(i)
  <2> HIDE DEF E
  <2> QED BY <1>3
<1>5. Summing(Weight(frame), frame, i)
  BY <1>2, <1>4
<1>6. frame \in SUBSET frame
  OBVIOUS
<1> HIDE DEF E, i
<1> QED BY <1>1, <1>5, <1>6, SummingTotal

Sized(frame) == IsFiniteSet(frame) /\ \A f \in frame : FieldSize(f) \in Nat

LEMMA FrameSizeNat ==
  ASSUME NEW frame, Sized(frame)
  PROVE  FrameSize(frame) \in Nat
BY FrameSizeIsTotal, TotalNat DEF Sized, Weight

LEMMA FrameSizeEmpty == Sized({}) /\ FrameSize({}) = 0
<1>1. IsFiniteSet({})
  BY FS_EmptySet
<1>2. Total(Weight({}), {}) = 0
  BY <1>1, TotalStep
<1> QED BY <1>1, <1>2, FrameSizeIsTotal DEF Sized

LEMMA FrameSizeAdd ==
  ASSUME NEW frame, Sized(frame), NEW f, f \notin frame, FieldSize(f) \in Nat
  PROVE  /\ Sized(frame \cup {f})
         /\ FrameSize(frame \cup {f}) = FieldSize(f) + FrameSize(frame)
<1> DEFINE all == frame \cup {f}
<1>1. IsFiniteSet(frame) /\ IsFiniteSet(all) /\ \A g \in all : FieldSize(g) \in Nat
  BY FS_AddElement DEF Sized
<1>2. \A g \in all : Weight(all)[g] = FieldSize(g)
  BY DEF Weight
<1>3. Total(Weight(all), all) = Weight(all)[f] + Total(Weight(all), frame)
  <2> HIDE DEF all
  <2>1. \A g \in frame \cup {f} : Weight(all)[g] \in Nat
    BY <1>1, <1>2 DEF all
  <2>2. Total(Weight(all), frame \cup {f}) = Weight(all)[f] + Total(Weight(all), frame)
    BY <1>1, <2>1, TotalAdd
  <2> QED BY <2>2 DEF all
<1>4. Total(Weight(all), frame) = Total(Weight(frame), frame)
  <2>1. \A g \in frame : Weight(all)[g] = Weight(frame)[g]
    BY DEF Weight
  <2> HIDE DEF all
  <2> QED BY <1>1, <2>1, TotalSame
<1>5. FrameSize(all) = Total(Weight(all), all) /\ FrameSize(frame) = Total(Weight(frame), frame)
  <2> HIDE DEF all
  <2> QED BY <1>1, FrameSizeIsTotal
<1> QED BY <1>1, <1>2, <1>3, <1>4, <1>5 DEF Sized

(* No field is larger than its frame. *)
LEMMA FrameSizeAtLeast ==
  ASSUME NEW frame, Sized(frame), NEW f \in frame
  PROVE  FieldSize(f) <= FrameSize(frame)
<1> DEFINE rest == frame \ {f}
<1>1. Sized(rest) /\ FieldSize(f) \in Nat
  BY FS_RemoveElement DEF Sized
<1>2. frame = rest \cup {f} /\ f \notin rest
  OBVIOUS
<1>3. FrameSize(frame) = FieldSize(f) + FrameSize(rest) /\ FrameSize(rest) \in Nat
  <2> HIDE DEF rest
  <2> QED BY <1>1, <1>2, FrameSizeAdd, FrameSizeNat
<1> QED BY <1>1, <1>3

-----------------------------------------------------------------------------
Kinds == {"Type", "Compression", "uint64", "bytes"}

(* Field numbers are unique in a schema. *)
WellFormed(schema) ==
  /\ \A n \in DOMAIN schema : schema[n].num \in Nat /\ schema[n].kind \in Kinds
  /\ \A n, k \in DOMAIN schema : schema[n].num = schema[k].num => n = k

(* Every field of one schema is in the other, with its number and kind. *)
Within(sub, schema) ==
  /\ DOMAIN sub \subseteq DOMAIN schema
  /\ \A n \in DOMAIN sub : sub[n] = schema[n]

FieldOf(schema, message, n) ==
  [at |-> schema[n].num, num |-> schema[n].num,
   wire |-> WireType(schema[n].kind), val |-> message[n]]

Written(schema, message) ==
  {n \in DOMAIN schema : message[n] # Default(schema[n].kind)}

LEMMA EncodedFields ==
  ASSUME NEW schema, NEW message
  PROVE  Encode(schema, message) =
           {FieldOf(schema, message, n) : n \in Written(schema, message)}
  BY DEF Encode, FieldOf, Written

(* A reader that knows some of the writer's fields accepts the frame. *)
LEMMA EncodedIsWellFormed ==
  ASSUME NEW schema, WellFormed(schema), NEW sub, Within(sub, schema), NEW message
  PROVE  ~Malformed(sub, Encode(schema, message))
<1>1. ASSUME NEW n \in Written(schema, message)
      PROVE  /\ FieldOf(schema, message, n).wire # "cut"
             /\ \A k \in DOMAIN sub :
                  FieldOf(schema, message, n).num = sub[k].num
                    => FieldOf(schema, message, n).wire = WireType(sub[k].kind)
  <2>1. FieldOf(schema, message, n).wire \in {"len", "varint"}
    BY DEF FieldOf, WireType
  <2>2. ASSUME NEW k \in DOMAIN sub, schema[n].num = sub[k].num
        PROVE  WireType(schema[n].kind) = WireType(sub[k].kind)
    <3>1. n \in DOMAIN schema /\ k \in DOMAIN schema /\ sub[k] = schema[k]
      BY DEF Written, Within
    <3>2. n = k
      BY <2>2, <3>1 DEF WellFormed
    <3> QED BY <3>1, <3>2
  <2> QED BY <2>1, <2>2 DEF FieldOf
<1> QED BY <1>1, EncodedFields DEF Malformed

(* What the code writes as an enum is read as what it was. *)
LEMMA CastSame ==
  ASSUME NEW kind \in Kinds, NEW v \in Values(kind)
  PROVE  Cast(kind, v) = v
<1>1. CASE kind \in {"Type", "Compression"}
  <2>1. v \in 0..3 /\ Word \in Nat /\ Word > 3
    BY <1>1, WordAssumption DEF Values
  <2>2. v % Word = v
    BY <2>1
  <2> QED BY <1>1, <2>2 DEF Cast
<1>2. CASE kind \notin {"Type", "Compression"}
  BY <1>2 DEF Cast
<1> QED BY <1>1, <1>2

(* It finds each of them once, or not at all where it has its default. *)
LEMMA EncodedSettings ==
  ASSUME NEW schema, WellFormed(schema), NEW sub, Within(sub, schema),
         NEW message \in Messages(schema), NEW n \in DOMAIN sub
  PROVE  Settings(sub, Encode(schema, message), n) =
           IF n \in Written(schema, message) THEN {FieldOf(schema, message, n)} ELSE {}
<1>1. n \in DOMAIN schema /\ sub[n] = schema[n]
  BY DEF Within
<1>2. message[n] \in Values(schema[n].kind)
  BY <1>1 DEF Messages
<1>3. ASSUME NEW k \in Written(schema, message),
             FieldOf(schema, message, k).num = sub[n].num
      PROVE  k = n
  BY <1>1, <1>3 DEF FieldOf, Written, WellFormed
<1>4. FieldOf(schema, message, n).num = sub[n].num
      /\ FieldOf(schema, message, n).val = message[n]
  BY <1>1 DEF FieldOf
<1>5. Settings(sub, Encode(schema, message), n) =
        {f \in {FieldOf(schema, message, k) : k \in Written(schema, message)} :
           f.num = sub[n].num /\ Cast(sub[n].kind, f.val) \in Values(sub[n].kind)}
  BY EncodedFields DEF Settings
<1>6. Cast(sub[n].kind, message[n]) = message[n]
  BY <1>1, <1>2, CastSame DEF WellFormed
<1> QED BY <1>1, <1>2, <1>3, <1>4, <1>5, <1>6

LEMMA EncodedRead ==
  ASSUME NEW schema, WellFormed(schema), NEW sub, Within(sub, schema),
         NEW message \in Messages(schema), NEW n \in DOMAIN sub
  PROVE  Read(sub, Encode(schema, message), n) = message[n]
<1>1. n \in DOMAIN schema /\ sub[n] = schema[n]
  BY DEF Within
<1>2. CASE n \in Written(schema, message)
  <2>1. Settings(sub, Encode(schema, message), n) = {FieldOf(schema, message, n)}
    BY <1>2, EncodedSettings
  <2>2. LastOf({FieldOf(schema, message, n)}) \in {FieldOf(schema, message, n)}
    <3>1. FieldOf(schema, message, n).at \in Nat
      BY <1>1 DEF FieldOf, WellFormed
    <3>2. FieldOf(schema, message, n).at <= FieldOf(schema, message, n).at
      BY <3>1
    <3> QED BY <3>2 DEF LastOf
  <2>3. LastOf({FieldOf(schema, message, n)}).val = message[n]
    BY <2>2 DEF FieldOf
  <2>4. Cast(sub[n].kind, message[n]) = message[n]
    BY <1>1, CastSame DEF WellFormed, Messages
  <2> QED BY <2>1, <2>3, <2>4 DEF Read
<1>3. CASE n \notin Written(schema, message)
  <2>1. Settings(sub, Encode(schema, message), n) = {}
    BY <1>3, EncodedSettings
  <2>2. message[n] = Default(sub[n].kind)
    BY <1>1, <1>3 DEF Written
  <2> QED BY <2>1, <2>2 DEF Read
<1> QED BY <1>2, <1>3

(* parse_from_bytes of a part of the schema gives that part of the message.  *)
THEOREM EncodedParse ==
  ASSUME NEW schema, WellFormed(schema), NEW sub, Within(sub, schema),
         NEW message \in Messages(schema)
  PROVE  /\ ~Malformed(sub, Encode(schema, message))
         /\ Parse(sub, Encode(schema, message)) = [n \in DOMAIN sub |-> message[n]]
BY EncodedIsWellFormed, EncodedRead DEF Parse

-----------------------------------------------------------------------------
LEMMA SchemasAreWellFormed ==
  \A schema \in Schemas : WellFormed(schema) /\ Within(HeaderFields, schema)
BY DEF Schemas, HeaderFields, OneshotFields, BeginFields, ProcessFields, EndFields,
       Field, WellFormed, Within, Kinds

(* For all byte vectors, lengths and chunk numbers: the receiver reads back   *)
(* the very message send_bytes and send_large_bytes wrote, though fields with *)
(* their default are not written; and the Header that message_dispatch! reads *)
(* first from the same frame has its type and its uuid.                       *)
THEOREM FramesReadBack ==
  ASSUME NEW schema \in Schemas, NEW message \in Messages(schema)
  PROVE  LET frame == Encode(schema, message) IN
           /\ ~Malformed(schema, frame)
           /\ Parse(schema, frame) = message
           /\ ~Malformed(HeaderFields, frame)
           /\ Parse(HeaderFields, frame) = [type |-> message.type, uuid |-> message.uuid]
<1>1. WellFormed(schema) /\ Within(HeaderFields, schema) /\ Within(schema, schema)
  BY SchemasAreWellFormed DEF Within
<1>2. message = [n \in DOMAIN schema |-> message[n]]
  BY DEF Messages
<1>3. [n \in DOMAIN HeaderFields |-> message[n]] = [type |-> message.type, uuid |-> message.uuid]
  BY DEF HeaderFields
<1> QED BY <1>1, <1>2, <1>3, EncodedParse

-----------------------------------------------------------------------------
(* The fields of a message, one after the other. *)
Part(schema, message, names) ==
  {FieldOf(schema, message, n) : n \in names \cap Written(schema, message)}

LEMMA FieldSizeNat ==
  ASSUME NEW schema, NEW message \in Messages(schema), NEW n \in DOMAIN schema,
         schema[n].kind \in Kinds
  PROVE  FieldSize(FieldOf(schema, message, n)) \in Nat
<1>1. message[n] \in Values(schema[n].kind)
  BY DEF Messages
<1>2. CASE schema[n].kind = "bytes"
  <2>1. message[n] \in Bytes /\ FieldOf(schema, message, n).wire = "len"
        /\ FieldOf(schema, message, n).val = message[n]
    BY <1>1, <1>2 DEF Values, FieldOf, WireType
  <2>2. ByteLen[message[n]] \in Nat /\ varint[ByteLen[message[n]]] \in Nat
    BY <2>1, BytesAssumption, VarintNat
  <2> QED BY <2>1, <2>2 DEF FieldSize
<1>3. CASE schema[n].kind # "bytes"
  <2>1. message[n] \in Nat /\ FieldOf(schema, message, n).wire = "varint"
        /\ FieldOf(schema, message, n).val = message[n]
    BY <1>1, <1>3 DEF Values, FieldOf, WireType, Kinds
  <2>2. varint[message[n]] \in Nat
    BY <2>1, VarintNat
  <2> QED BY <2>1, <2>2 DEF FieldSize
<1> QED BY <1>2, <1>3

LEMMA PartSize ==
  ASSUME NEW schema, NEW message \in Messages(schema), WellFormed(schema),
         NEW names, Sized(Part(schema, message, names)), NEW n \in DOMAIN schema
  PROVE  /\ Sized(Part(schema, message, names \cup {n}))
         /\ FrameSize(Part(schema, message, names \cup {n}))
              <= FrameSize(Part(schema, message, names)) + FieldSize(FieldOf(schema, message, n))
<1> DEFINE f == FieldOf(schema, message, n)
           p == Part(schema, message, names)
           q == Part(schema, message, names \cup {n})
<1>1. q = p \/ q = p \cup {f}
  BY DEF Part
<1>2. FieldSize(f) \in Nat /\ FrameSize(p) \in Nat
  BY FieldSizeNat, FrameSizeNat DEF WellFormed
<1> HIDE DEF f, p, q
<1>3. CASE q = p
  BY <1>2, <1>3 DEF f, p, q
<1>4. CASE q = p \cup {f} /\ q # p
  <2>1. f \notin p
    BY <1>4
  <2>2. Sized(q) /\ FrameSize(q) = FieldSize(f) + FrameSize(p)
    BY <1>2, <1>4, <2>1, FrameSizeAdd DEF p
  <2> QED BY <1>2, <2>2 DEF f, p, q
<1> QED BY <1>1, <1>3, <1>4

(* What is written of up to four fields is no longer than all of them.        *)
LEMMA EncodedSize ==
  ASSUME NEW schema, NEW message \in Messages(schema), WellFormed(schema),
         NEW a \in DOMAIN schema, NEW b \in DOMAIN schema,
         NEW c \in DOMAIN schema, NEW d \in DOMAIN schema
  PROVE  LET size(n) == FieldSize(FieldOf(schema, message, n)) IN
         /\ DOMAIN schema = {a, b} =>
              Sized(Encode(schema, message)) /\ FrameSize(Encode(schema, message)) <= size(a) + size(b)
         /\ DOMAIN schema = {a, b, c} =>
              Sized(Encode(schema, message))
                /\ FrameSize(Encode(schema, message)) <= size(a) + size(b) + size(c)
         /\ DOMAIN schema = {a, b, c, d} =>
              Sized(Encode(schema, message))
                /\ FrameSize(Encode(schema, message)) <= size(a) + size(b) + size(c) + size(d)
<1> DEFINE size(n) == FieldSize(FieldOf(schema, message, n))
           P(names) == Part(schema, message, names)
<1>1. Sized(P({})) /\ FrameSize(P({})) = 0
  <2>1. P({}) = {}
    BY DEF Part
  <2> QED BY <2>1, FrameSizeEmpty
<1>2. /\ size(a) \in Nat /\ size(b) \in Nat /\ size(c) \in Nat /\ size(d) \in Nat
  BY FieldSizeNat DEF WellFormed
<1>3. Encode(schema, message) = P(DOMAIN schema)
  <2>1. DOMAIN schema \cap Written(schema, message) = Written(schema, message)
    BY DEF Written
  <2> QED BY <2>1, EncodedFields DEF Part
<1>4. \A names : Sized(P(names)) => FrameSize(P(names)) \in Nat
  BY FrameSizeNat
<1>5. \A names : Sized(P(names)) =>
        \A n \in {a, b, c, d} :
           /\ Sized(P(names \cup {n}))
           /\ FrameSize(P(names \cup {n})) <= FrameSize(P(names)) + size(n)
  BY PartSize
<1> HIDE DEF size, P
<1>6. Sized(P({} \cup {a})) /\ FrameSize(P({} \cup {a})) <= size(a)
  <2>1. Sized(P({} \cup {a})) /\ FrameSize(P({} \cup {a})) <= FrameSize(P({})) + size(a)
    BY <1>1, <1>5, Zenon
  <2> QED BY <1>1, <1>2, <2>1
<1>7. {} \cup {a} = {a} /\ {a} \cup {b} = {a, b} /\ {a, b} \cup {c} = {a, b, c}
      /\ {a, b, c} \cup {d} = {a, b, c, d}
  OBVIOUS
<1>8. Sized(P({a})) /\ FrameSize(P({a})) <= size(a) /\ FrameSize(P({a})) \in Nat
  BY <1>4, <1>6, <1>7
<1>9. /\ Sized(P({a, b})) /\ FrameSize(P({a, b})) \in Nat
      /\ FrameSize(P({a, b})) <= FrameSize(P({a})) + size(b)
  BY <1>4, <1>5, <1>7, <1>8
<1>10. /\ Sized(P({a, b, c})) /\ FrameSize(P({a, b, c})) \in Nat
       /\ FrameSize(P({a, b, c})) <= FrameSize(P({a, b})) + size(c)
  BY <1>4, <1>5, <1>7, <1>9
<1>11. /\ Sized(P({a, b, c, d})) /\ FrameSize(P({a, b, c, d})) \in Nat
       /\ FrameSize(P({a, b, c, d})) <= FrameSize(P({a, b, c})) + size(d)
  BY <1>4, <1>5, <1>7, <1>10
<1>12. DOMAIN schema = {a, b} =>
         Sized(Encode(schema, message)) /\ FrameSize(Encode(schema, message)) <= size(a) + size(b)
  BY <1>2, <1>3, <1>8, <1>9
<1>13. DOMAIN schema = {a, b, c} =>
         Sized(Encode(schema, message))
           /\ FrameSize(Encode(schema, message)) <= size(a) + size(b) + size(c)
  BY <1>2, <1>3, <1>8, <1>9, <1>10
<1>14. DOMAIN schema = {a, b, c, d} =>
         Sized(Encode(schema, message))
           /\ FrameSize(Encode(schema, message)) <= size(a) + size(b) + size(c) + size(d)
  BY <1>2, <1>3, <1>8, <1>9, <1>10, <1>11
<1> QED BY <1>12, <1>13, <1>14 DEF size

-----------------------------------------------------------------------------
(* What merge_from reads from any finite frame has the type of its field, and *)
(* its uuid is the one the Header has.                                        *)
LEMMA ReadType ==
  ASSUME NEW schema, WellFormed(schema), NEW n \in DOMAIN schema,
         NEW frame \in SUBSET WireField, IsFiniteSet(frame)
  PROVE  Read(schema, frame, n) \in Values(schema[n].kind)
<1> DEFINE fields == Settings(schema, frame, n)
<1>1. schema[n].kind \in Kinds
  BY DEF WellFormed
<1>2. CASE fields = {}
  BY <1>1, <1>2, BytesAssumption DEF Read, Default, Values, Kinds
<1>3. CASE fields # {}
  <2>1. /\ fields \in SUBSET frame
        /\ \A f \in fields : Cast(schema[n].kind, f.val) \in Values(schema[n].kind)
    BY DEF Settings
  <2>2. IsFiniteSet(fields)
    BY <2>1, FS_Subset
  <2>3. \A f \in fields : f.at \in Nat
    BY <2>1 DEF WireField
  <2> DEFINE w == [f \in fields |-> f.at]
  <2> HIDE DEF fields
  <2>4. \E f \in fields : \A g \in fields : g.at <= f.at
    <3>1. \A f \in fields : w[f] \in Nat /\ w[f] = f.at
      BY <2>3
    <3>2. \E f \in fields : \A g \in fields : w[g] <= w[f]
      <4> HIDE DEF w
      <4> QED BY <1>3, <2>2, <3>1, Heaviest
    <3> QED BY <3>1, <3>2
  <2>5. LastOf(fields) \in fields
    BY <2>4 DEF LastOf
  <2> QED BY <1>3, <2>1, <2>5 DEF Read, fields
<1> QED BY <1>2, <1>3

LEMMA ReadAlike ==
  ASSUME NEW schema, NEW sub, Within(sub, schema), NEW frame, NEW n \in DOMAIN sub
  PROVE  Read(sub, frame, n) = Read(schema, frame, n)
BY DEF Within, Read, Settings

=============================================================================

-------------------------------- MODULE Sums --------------------------------
(***************************************************************************)
(* Sums over finite sets: what SumFunctionOnSet of the community modules   *)
(* computes.  It is defined by recursion over the subsets of the index     *)
(* set, with an element chosen at each step; the theorems below say that   *)
(* the choice does not matter.  Induction is by a smallest counterexample: *)
(* a set of subsets of a finite set has an element minimal for inclusion.  *)
(***************************************************************************)
EXTENDS Integers, FiniteSetTheorems, Functions, TLAPS

\* The element that the fold takes next.
First(s) == CHOOSE x \in s : TRUE

\* The recursive function inside SumFunctionOnSet(w, S).
IsSum(g, w, S) ==
    g = [s \in SUBSET S |-> IF s = {} THEN 0 ELSE w[First(s)] + g[s \ {First(s)}]]

LEMMA FirstIn == ASSUME NEW s, s # {} PROVE First(s) \in s
BY DEF First

\* A nonempty set of subsets of a finite set has a minimal element.
LEMMA LeastSubset ==
    ASSUME NEW S, IsFiniteSet(S), NEW T \in SUBSET (SUBSET S), T # {}
    PROVE  \E s \in T : \A t \in T : t \subseteq s => t = s
<1>1. IsWellFoundedOn(StrictSubsetOrdering(S), SUBSET S)
    BY FS_StrictSubsetOrderingWellFounded, FS_FiniteSubsetsOfFinite
<1>2. PICK s \in T : \A t \in T : ~ (<<t, s>> \in StrictSubsetOrdering(S))
    BY <1>1, WFMin
<1>. QED
    BY <1>2 DEF StrictSubsetOrdering

\* Two such functions agree wherever both are defined.
LEMMA SumUnique ==
    ASSUME NEW w, NEW S, IsFiniteSet(S), NEW T \in SUBSET S,
           NEW g, IsSum(g, w, S), NEW h, IsSum(h, w, T)
    PROVE  \A s \in SUBSET T : g[s] = h[s]
<1>. DEFINE Bad == { s \in SUBSET T : g[s] # h[s] }
<1>. SUFFICES ASSUME Bad # {} PROVE FALSE
    OBVIOUS
<1>0. Bad \in SUBSET (SUBSET S) /\ Bad # {}
    OBVIOUS
<1>1. PICK s \in Bad : \A t \in Bad : t \subseteq s => t = s
  <2>. HIDE DEF Bad
  <2>. QED
    BY <1>0, LeastSubset
<1>2. s \in SUBSET T /\ s \in SUBSET S /\ g[s] # h[s]
    OBVIOUS
<1>3. CASE s = {}
    BY <1>2, <1>3 DEF IsSum
<1>4. CASE s # {}
  <2>. DEFINE r == s \ {First(s)}
  <2>1. r \in SUBSET T /\ r \subseteq s /\ r # s
    BY <1>2, <1>4, FirstIn
  <2>2. g[r] = h[r]
    BY <1>1, <2>1
  <2>. HIDE DEF r
  <2>3. g[s] = w[First(s)] + g[r] /\ h[s] = w[First(s)] + h[r]
    BY <1>2, <1>4 DEF IsSum, r
  <2>. QED
    BY <1>2, <2>2, <2>3
<1>. QED
    BY <1>3, <1>4

\* There is such a function: at a smallest set without one, it is put together
\* from those of the proper subsets.
LEMMA SumExists ==
    ASSUME NEW w, NEW S, IsFiniteSet(S)
    PROVE  \E g : IsSum(g, w, S)
<1>. DEFINE Bad == { s \in SUBSET S : ~ \E g : IsSum(g, w, s) }
<1>. SUFFICES ASSUME Bad # {} PROVE FALSE
    OBVIOUS
<1>0. Bad \in SUBSET (SUBSET S) /\ Bad # {}
    OBVIOUS
<1>1. PICK s \in Bad : \A t \in Bad : t \subseteq s => t = s
  <2>. HIDE DEF Bad
  <2>. QED
    BY <1>0, LeastSubset
<1>. DEFINE it(u) == CHOOSE g : IsSum(g, w, u)
            val(u) == it(u)[u]
            new == [t \in SUBSET s |-> IF t = {} THEN 0 ELSE w[First(t)] + val(t \ {First(t)})]
<1>2. ASSUME NEW u \in SUBSET s, u # s
      PROVE  IsSum(it(u), w, u)
  <2>1. \E g : IsSum(g, w, u)
    BY <1>1, <1>2
  <2>. QED
    BY <2>1
<1>3. ASSUME NEW u \in SUBSET s, u # s
      PROVE  val(u) = IF u = {} THEN 0 ELSE w[First(u)] + val(u \ {First(u)})
  <2>1. IsSum(it(u), w, u)
    BY <1>2, <1>3
  <2>2. CASE u = {}
    BY <2>1, <2>2 DEF IsSum
  <2>3. CASE u # {}
    <3>. DEFINE r == u \ {First(u)}
    <3>1. r \in SUBSET s /\ r \in SUBSET u /\ r # s
        BY <1>3, <2>3, FirstIn
    <3>2. IsSum(it(r), w, r) /\ IsFiniteSet(u)
        BY <1>2, <3>1, FS_Subset
    <3>3. it(u)[r] = it(r)[r]
      <4>. HIDE DEF it, r
      <4>1. \A t \in SUBSET r : it(u)[t] = it(r)[t]
        BY <2>1, <3>1, <3>2, SumUnique
      <4>. QED
        BY <4>1
    <3>4. it(u)[u] = w[First(u)] + it(u)[r]
        BY <2>1, <2>3 DEF IsSum
    <3>. QED
        BY <2>3, <3>3, <3>4
  <2>. QED
    BY <2>2, <2>3
<1>. HIDE DEF val
<1>4. ASSUME NEW t \in SUBSET s
      PROVE  new[t] = IF t = {} THEN 0 ELSE w[First(t)] + new[t \ {First(t)}]
  <2>1. CASE t = {}
    BY <2>1
  <2>2. CASE t # {}
    <3>. DEFINE r == t \ {First(t)}
    <3>1. r \in SUBSET s /\ r # s
        BY <1>4, <2>2, FirstIn
    <3>2. new[r] = val(r)
        BY <1>3, <3>1
    <3>. QED
        BY <2>2, <3>2
  <2>. QED
    BY <2>1, <2>2
<1>5. IsSum(new, w, s)
  <2>1. DEFINE body == [t \in SUBSET s |-> IF t = {} THEN 0 ELSE w[First(t)] + new[t \ {First(t)}]]
  <2>2. new = [t \in SUBSET s |-> new[t]]
    OBVIOUS
  <2>. HIDE DEF new
  <2>3. body = [t \in SUBSET s |-> new[t]]
    BY <1>4
  <2>. QED
    BY <2>2, <2>3 DEF IsSum
<1>. QED
    BY <1>1, <1>5

\* The sum is the value of such a function at the whole set.
LEMMA SumDef ==
    ASSUME NEW w, NEW S, IsFiniteSet(S)
    PROVE  \E g : IsSum(g, w, S) /\ SumFunctionOnSet(w, S) = g[S]
<1>. DEFINE it == CHOOSE g : IsSum(g, w, S)
<1>1. IsSum(it, w, S)
    BY SumExists
<1>2. SumFunctionOnSet(w, S) = it[S]
    BY DEF SumFunctionOnSet, FoldFunctionOnSet, MapThenFoldSet, IsSum, First
<1>. QED
    BY <1>1, <1>2

-----------------------------------------------------------------------------
(* What the sum is.                                                        *)

LEMMA SumEmpty ==
    ASSUME NEW w
    PROVE  SumFunctionOnSet(w, {}) = 0
<1>1. IsFiniteSet({})
    BY FS_EmptySet
<1>2. PICK g : IsSum(g, w, {}) /\ SumFunctionOnSet(w, {}) = g[{}]
    BY <1>1, SumDef
<1>3. g[{}] = 0
    BY <1>2 DEF IsSum
<1>. QED
    BY <1>2, <1>3

LEMMA SumFirst ==
    ASSUME NEW w, NEW S, IsFiniteSet(S), S # {}
    PROVE  SumFunctionOnSet(w, S) = w[First(S)] + SumFunctionOnSet(w, S \ {First(S)})
<1>. DEFINE r == S \ {First(S)}
<1>1. r \in SUBSET S /\ IsFiniteSet(r)
    BY FS_Subset
<1>2. PICK g : IsSum(g, w, S) /\ SumFunctionOnSet(w, S) = g[S]
    BY SumDef
<1>3. PICK h : IsSum(h, w, r) /\ SumFunctionOnSet(w, r) = h[r]
    BY <1>1, SumDef
<1>. HIDE DEF r
<1>4. g[r] = h[r]
    BY <1>1, <1>2, <1>3, SumUnique
<1>5. g[S] = w[First(S)] + g[r]
    BY <1>2 DEF IsSum, r
<1>. QED
    BY <1>2, <1>3, <1>4, <1>5 DEF r

LEMMA SumInt ==
    ASSUME NEW w, NEW S, IsFiniteSet(S), \A x \in S : w[x] \in Int
    PROVE  SumFunctionOnSet(w, S) \in Int
<1>. DEFINE Bad == { s \in SUBSET S : SumFunctionOnSet(w, s) \notin Int }
<1>. SUFFICES ASSUME Bad # {} PROVE FALSE
    OBVIOUS
<1>0. Bad \in SUBSET (SUBSET S) /\ Bad # {}
    OBVIOUS
<1>1. PICK s \in Bad : \A t \in Bad : t \subseteq s => t = s
  <2>. HIDE DEF Bad
  <2>. QED
    BY <1>0, LeastSubset
<1>2. s \in SUBSET S /\ IsFiniteSet(s) /\ SumFunctionOnSet(w, s) \notin Int
    BY FS_Subset
<1>3. s # {}
    BY <1>2, SumEmpty
<1>. DEFINE r == s \ {First(s)}
<1>4. First(s) \in s /\ r \in SUBSET S /\ r \subseteq s /\ r # s
    BY <1>2, <1>3, FirstIn
<1>5. SumFunctionOnSet(w, r) \in Int
    BY <1>1, <1>4
<1>6. SumFunctionOnSet(w, s) = w[First(s)] + SumFunctionOnSet(w, r)
    BY <1>2, <1>3, SumFirst
<1>. QED
    BY <1>2, <1>4, <1>5, <1>6

(***************************************************************************)
(* Any element of the index set may be taken out of a sum first.           *)
(***************************************************************************)
THEOREM SumRemove ==
    ASSUME NEW w, NEW S, IsFiniteSet(S), \A x \in S : w[x] \in Int, NEW x \in S
    PROVE  SumFunctionOnSet(w, S) = w[x] + SumFunctionOnSet(w, S \ {x})
<1>. DEFINE sum(s) == SumFunctionOnSet(w, s)
            Bad == { s \in SUBSET S : \E y \in s : sum(s) # w[y] + sum(s \ {y}) }
<1>. SUFFICES ASSUME Bad # {} PROVE FALSE
    OBVIOUS
<1>0. Bad \in SUBSET (SUBSET S) /\ Bad # {}
    OBVIOUS
<1>1. PICK s \in Bad : \A t \in Bad : t \subseteq s => t = s
  <2>. HIDE DEF Bad
  <2>. QED
    BY <1>0, LeastSubset
<1>2. PICK y \in s : sum(s) # w[y] + sum(s \ {y})
    OBVIOUS
<1>3. s \in SUBSET S /\ s # {}
    BY <1>2
<1>4. \A t \in SUBSET S : IsFiniteSet(t) /\ sum(t) \in Int
    BY FS_Subset, SumInt
<1>. DEFINE c == First(s)
<1>5. c \in s /\ sum(s) = w[c] + sum(s \ {c})
    BY <1>3, <1>4, FirstIn, SumFirst
<1>. HIDE DEF c
<1>6. c # y
    BY <1>2, <1>5
<1>7. sum(s \ {c}) = w[y] + sum((s \ {c}) \ {y})
  <2>1. y \in s \ {c} /\ s \ {c} \in SUBSET S /\ s \ {c} # s /\ s \ {c} \subseteq s
    BY <1>3, <1>5, <1>6
  <2>2. s \ {c} \notin Bad
    BY <1>1, <2>1
  <2>. QED
    BY <2>1, <2>2
<1>8. sum(s \ {y}) = w[c] + sum((s \ {y}) \ {c})
  <2>1. c \in s \ {y} /\ s \ {y} \in SUBSET S /\ s \ {y} # s /\ s \ {y} \subseteq s
    BY <1>2, <1>3, <1>5, <1>6
  <2>2. s \ {y} \notin Bad
    BY <1>1, <2>1
  <2>. QED
    BY <2>1, <2>2
<1>9. (s \ {y}) \ {c} = (s \ {c}) \ {y}
    OBVIOUS
<1>10. w[c] \in Int /\ w[y] \in Int /\ sum((s \ {c}) \ {y}) \in Int
    BY <1>2, <1>3, <1>4, <1>5
<1>. DEFINE rest == sum((s \ {c}) \ {y})
<1>11. /\ sum(s) = w[c] + (w[y] + rest)
       /\ sum(s \ {y}) = w[c] + rest
       /\ w[c] \in Int /\ w[y] \in Int /\ rest \in Int
    BY <1>5, <1>7, <1>8, <1>9, <1>10
<1>12. sum(s) # w[y] + sum(s \ {y})
    BY <1>2
<1>. HIDE DEF sum, rest
<1>. QED
    BY <1>11, <1>12

LEMMA SumAdd ==
    ASSUME NEW w, NEW S, IsFiniteSet(S), NEW x, x \notin S, \A y \in S \cup {x} : w[y] \in Int
    PROVE  SumFunctionOnSet(w, S \cup {x}) = w[x] + SumFunctionOnSet(w, S)
<1>1. IsFiniteSet(S \cup {x}) /\ x \in S \cup {x} /\ (S \cup {x}) \ {x} = S
    BY FS_AddElement
<1>. QED
    BY <1>1, SumRemove

\* Only the values on the index set count.
LEMMA SumAgree ==
    ASSUME NEW v, NEW w, NEW S, IsFiniteSet(S), \A x \in S : v[x] = w[x]
    PROVE  SumFunctionOnSet(v, S) = SumFunctionOnSet(w, S)
<1>1. PICK g : IsSum(g, v, S) /\ SumFunctionOnSet(v, S) = g[S]
    BY SumDef
<1>2. PICK h : IsSum(h, w, S) /\ SumFunctionOnSet(w, S) = h[S]
    BY SumDef
<1>3. ASSUME NEW s \in SUBSET S
      PROVE  g[s] = IF s = {} THEN 0 ELSE w[First(s)] + g[s \ {First(s)}]
  <2>1. s # {} => v[First(s)] = w[First(s)]
    BY FirstIn
  <2>. QED
    BY <1>1, <2>1 DEF IsSum
<1>4. IsSum(g, w, S)
  <2>1. g = [s \in SUBSET S |-> g[s]]
    BY <1>1 DEF IsSum
  <2>2. [s \in SUBSET S |-> g[s]]
          = [s \in SUBSET S |-> IF s = {} THEN 0 ELSE w[First(s)] + g[s \ {First(s)}]]
    BY <1>3
  <2>. QED
    BY <2>1, <2>2 DEF IsSum
<1>5. g[S] = h[S]
    BY <1>2, <1>4, SumUnique
<1>. QED
    BY <1>1, <1>2, <1>5

(***************************************************************************)
(* A sum of sums: what holds element by element holds of the totals.       *)
(***************************************************************************)
THEOREM SumPlus ==
    ASSUME NEW u, NEW v, NEW w, NEW S, IsFiniteSet(S),
           \A x \in S : v[x] \in Int /\ w[x] \in Int /\ u[x] = v[x] + w[x]
    PROVE  SumFunctionOnSet(u, S) = SumFunctionOnSet(v, S) + SumFunctionOnSet(w, S)
<1>. DEFINE Bad == { s \in SUBSET S :
                        SumFunctionOnSet(u, s) # SumFunctionOnSet(v, s) + SumFunctionOnSet(w, s) }
<1>. SUFFICES ASSUME Bad # {} PROVE FALSE
    OBVIOUS
<1>0. Bad \in SUBSET (SUBSET S) /\ Bad # {}
    OBVIOUS
<1>1. PICK s \in Bad : \A t \in Bad : t \subseteq s => t = s
  <2>. HIDE DEF Bad
  <2>. QED
    BY <1>0, LeastSubset
<1>2. s \in SUBSET S /\ IsFiniteSet(s)
    BY FS_Subset
<1>3. s # {}
  <2>1. SumFunctionOnSet(u, s) # SumFunctionOnSet(v, s) + SumFunctionOnSet(w, s)
    OBVIOUS
  <2>2. /\ SumFunctionOnSet(u, {}) = 0
        /\ SumFunctionOnSet(v, {}) = 0
        /\ SumFunctionOnSet(w, {}) = 0
    BY SumEmpty
  <2>3. 0 # 0 + 0 <=> FALSE
    OBVIOUS
  <2>. HIDE DEF Bad
  <2>. QED
    BY <2>1, <2>2, <2>3, Zenon
<1>. DEFINE x == First(s)
            r == s \ {x}
<1>4. x \in s /\ r \in SUBSET S /\ r \subseteq s /\ r # s
    BY <1>2, <1>3, FirstIn
<1>5. SumFunctionOnSet(u, r) = SumFunctionOnSet(v, r) + SumFunctionOnSet(w, r)
    BY <1>1, <1>4
<1>6. /\ SumFunctionOnSet(u, s) = u[x] + SumFunctionOnSet(u, r)
      /\ SumFunctionOnSet(v, s) = v[x] + SumFunctionOnSet(v, r)
      /\ SumFunctionOnSet(w, s) = w[x] + SumFunctionOnSet(w, r)
    BY <1>2, <1>3, SumFirst
<1>7. SumFunctionOnSet(v, r) \in Int /\ SumFunctionOnSet(w, r) \in Int
    BY <1>4, FS_Subset, SumInt
<1>8. v[x] \in Int /\ w[x] \in Int /\ u[x] = v[x] + w[x]
    BY <1>2, <1>4
<1>9. SumFunctionOnSet(u, s) # SumFunctionOnSet(v, s) + SumFunctionOnSet(w, s)
    OBVIOUS
<1>. HIDE DEF Bad, x, r
<1>. QED
    BY <1>5, <1>6, <1>7, <1>8, <1>9

\* A sum of natural numbers is one, and at least each of them.
LEMMA SumNat ==
    ASSUME NEW w, NEW S, IsFiniteSet(S), \A x \in S : w[x] \in Nat
    PROVE  /\ SumFunctionOnSet(w, S) \in Nat
           /\ \A x \in S : w[x] <= SumFunctionOnSet(w, S)
<1>. DEFINE Bad == { s \in SUBSET S : SumFunctionOnSet(w, s) \notin Nat }
<1>1. Bad = {}
  <2>. SUFFICES ASSUME Bad # {} PROVE FALSE
    OBVIOUS
  <2>0. Bad \in SUBSET (SUBSET S) /\ Bad # {}
    OBVIOUS
  <2>1. PICK s \in Bad : \A t \in Bad : t \subseteq s => t = s
    <3>. HIDE DEF Bad
    <3>. QED
        BY <2>0, LeastSubset
  <2>2. s \in SUBSET S /\ IsFiniteSet(s) /\ SumFunctionOnSet(w, s) \notin Nat
    BY FS_Subset
  <2>3. s # {}
    BY <2>2, SumEmpty
  <2>. DEFINE r == s \ {First(s)}
  <2>4. First(s) \in s /\ r \in SUBSET S /\ r \subseteq s /\ r # s
    BY <2>2, <2>3, FirstIn
  <2>5. SumFunctionOnSet(w, r) \in Nat
    BY <2>1, <2>4
  <2>6. SumFunctionOnSet(w, s) = w[First(s)] + SumFunctionOnSet(w, r)
    BY <2>2, <2>3, SumFirst
  <2>. QED
    BY <2>2, <2>4, <2>5, <2>6
<1>2. \A s \in SUBSET S : SumFunctionOnSet(w, s) \in Nat
    BY <1>1
<1>3. ASSUME NEW x \in S PROVE w[x] <= SumFunctionOnSet(w, S)
  <2>1. SumFunctionOnSet(w, S) = w[x] + SumFunctionOnSet(w, S \ {x})
    BY SumRemove
  <2>2. SumFunctionOnSet(w, S \ {x}) \in Nat
    BY <1>2
  <2>. QED
    BY <2>1, <2>2
<1>. QED
    BY <1>2, <1>3

\* A sum in which one value changes changes by as much.
LEMMA SumChange ==
    ASSUME NEW v, NEW w, NEW S, IsFiniteSet(S), \A y \in S : v[y] \in Int /\ w[y] \in Int,
           NEW x \in S, \A y \in S : y # x => v[y] = w[y]
    PROVE  SumFunctionOnSet(w, S) = SumFunctionOnSet(v, S) + w[x] - v[x]
<1>. DEFINE r == S \ {x}
<1>1. IsFiniteSet(r) /\ \A y \in r : v[y] = w[y] /\ v[y] \in Int
    BY FS_Subset
<1>2. /\ SumFunctionOnSet(w, S) = w[x] + SumFunctionOnSet(w, r)
      /\ SumFunctionOnSet(v, S) = v[x] + SumFunctionOnSet(v, r)
    BY SumRemove
<1>. HIDE DEF r
<1>3. SumFunctionOnSet(v, r) = SumFunctionOnSet(w, r) /\ SumFunctionOnSet(v, r) \in Int
    BY <1>1, SumAgree, SumInt
<1>. QED
    BY <1>2, <1>3

LEMMA SumZero ==
    ASSUME NEW w, NEW S, IsFiniteSet(S), \A x \in S : w[x] = 0
    PROVE  SumFunctionOnSet(w, S) = 0
<1>1. PICK u, v : u = w /\ v = w
    OBVIOUS
<1>2. \A x \in S : v[x] \in Int /\ w[x] \in Int /\ u[x] = v[x] + w[x]
    BY <1>1
<1>3. SumFunctionOnSet(u, S) = SumFunctionOnSet(v, S) + SumFunctionOnSet(w, S)
    BY <1>2, SumPlus
<1>4. SumFunctionOnSet(w, S) \in Int
    BY <1>2, SumInt
<1>5. SumFunctionOnSet(u, S) = SumFunctionOnSet(w, S) /\ SumFunctionOnSet(v, S) = SumFunctionOnSet(w, S)
    BY <1>1
<1>6. \A k \in Int : k = k + k => k = 0
    OBVIOUS
<1>. QED
    BY <1>3, <1>4, <1>5, <1>6, Zenon

=============================================================================

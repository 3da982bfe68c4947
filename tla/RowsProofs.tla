----------------------------- MODULE RowsProofs -----------------------------
(***************************************************************************)
(* What the lookups and joins of Reconcile and SpectrumRows return, for    *)
(* any lists, and what a sum or a fold over any finite set comes to.       *)
(***************************************************************************)
EXTENDS SpectrumRows, SequenceTheorems, FiniteSetTheorems, WellFoundedInduction, TLAPS

\* Of some places in a list one is the last.
LEMMA LastPlace ==
  ASSUME NEW n \in Nat, NEW S \in SUBSET (1..n), S # {}
  PROVE  \E i \in S : \A j \in S : j <= i
<1> DEFINE T == {n - i : i \in S}
<1>1. T \subseteq Nat /\ T # {}
  <2>1. \A i \in S : n - i \in Nat
    OBVIOUS
  <2> QED BY <2>1
<1>2. PICK x \in T : \A y \in T : ~(<<y, x>> \in OpToRel(<, Nat))
  <2> HIDE DEF T
  <2> QED BY <1>1, NatLessThanWellFounded, WFMin
<1>3. \A y \in T : ~(y < x)
  BY <1>1, <1>2 DEF OpToRel
<1>4. PICK i \in S : x = n - i
  OBVIOUS
<1>5. \A j \in S : j <= i
  <2> TAKE j \in S
  <2>1. n - j \in T
    OBVIOUS
  <2> QED BY <2>1, <1>3, <1>4
<1> QED BY <1>5

\* An answer to a query is the whole list if it fits, and some of its places if not.
LEMMA PageIsPart ==
  ASSUME NEW list, NEW limit, NEW page \in PagesOf(list, limit)
  PROVE  /\ DOMAIN page \subseteq DOMAIN list /\ \A i \in DOMAIN page : page[i] = list[i]
         /\ Cardinality(DOMAIN list) <= limit => page = list
<1>1. page = list \/ \E some \in SUBSET DOMAIN list : page = Restrict(list, some)
  BY DEF PagesOf
<1>2. Cardinality(DOMAIN list) <= limit => page = list
  BY DEF PagesOf
<1> QED BY <1>1, <1>2 DEF Restrict

\* by_normalized_id: an entry for each identifier, and it is an item of that id.
LEMMA ByIdFinds ==
  ASSUME NEW n \in Nat, NEW items, DOMAIN items \subseteq 1..n
  PROVE  /\ DOMAIN ByNormalizedId(items) = {items[i].id.local : i \in DOMAIN items} \ {Nothing}
         /\ \A key \in DOMAIN ByNormalizedId(items) :
              \E i \in DOMAIN items : items[i].id.local = key /\ ByNormalizedId(items)[key] = items[i]
<1>1. DOMAIN ByNormalizedId(items) = {items[i].id.local : i \in DOMAIN items} \ {Nothing}
  BY DEF ByNormalizedId, Index, NormalizedIdOf, NormalizeId
<1>2. ASSUME NEW key \in DOMAIN ByNormalizedId(items)
      PROVE  \E i \in DOMAIN items : items[i].id.local = key /\ ByNormalizedId(items)[key] = items[i]
  <2> DEFINE S == {i \in DOMAIN items : items[i].id.local = key}
             Last(i) == i \in S /\ \A j \in S : j <= i
  <2>1. \E i : Last(i)
    <3>1. S \in SUBSET (1..n) /\ S # {}
      BY <1>1
    <3> QED BY <3>1, LastPlace
  <2>2. ByNormalizedId(items)[key] =
          items[CHOOSE i \in DOMAIN items :
                  items[i].id.local = key /\ \A j \in DOMAIN items : items[j].id.local = key => j <= i]
    BY <1>1 DEF ByNormalizedId, Index, LastWith, NormalizedIdOf, NormalizeId
  <2>3. PICK i \in DOMAIN items :
          /\ items[i].id.local = key
          /\ i = CHOOSE k \in DOMAIN items :
                   items[k].id.local = key /\ \A j \in DOMAIN items : items[j].id.local = key => j <= k
    BY <2>1
  <2> QED BY <2>2, <2>3
<1> QED BY <1>1, <1>2

\* Subscriptions of STPs, each with an id.
Subscriptions(list) ==
  /\ \E n \in Nat : DOMAIN list \subseteq 1..n
  /\ \A i \in DOMAIN list : list[i].sub # Nothing /\ list[i].id.local # Nothing
\* The subscription shown for an id is one on it, and there is one if any is.
LEMMA SubscriptionOfFinds ==
  ASSUME NEW list, Subscriptions(list), NEW raw
  PROVE  /\ SubscriptionOf(list, raw) # Nothing =>
              \E i \in DOMAIN list : list[i].sub = SubscriptionOf(list, raw) /\ list[i].id.local = raw.local
         /\ (\E i \in DOMAIN list : list[i].id.local = raw.local) => SubscriptionOf(list, raw) # Nothing
<1> DEFINE index == ByNormalizedId(list)
<1>1. PICK n \in Nat : DOMAIN list \subseteq 1..n
  BY DEF Subscriptions
<1>2. /\ DOMAIN index = {list[i].id.local : i \in DOMAIN list} \ {Nothing}
      /\ \A key \in DOMAIN index : \E i \in DOMAIN list : list[i].id.local = key /\ index[key] = list[i]
  <2>1. n \in Nat /\ DOMAIN list \subseteq 1..n
    BY <1>1
  <2> QED BY <2>1, ByIdFinds, Zenon
<1>3. SubscriptionOf(list, raw) = IF raw.local \in DOMAIN index THEN index[raw.local].sub ELSE Nothing
  BY DEF SubscriptionOf, Get, NoItem, NormalizeId
<1> HIDE DEF index
<1> QED BY <1>2, <1>3 DEF Subscriptions

\* The same of the index of SDP subscriptions and of DDS SDPs by their pair: of
\* several subscriptions for one pair it holds the last.
LEMMA ByPairFindsLast ==
  ASSUME NEW n \in Nat, NEW items, DOMAIN items \subseteq 1..n
  PROVE  \A key \in DOMAIN Index(items, PairOfSub, {}) :
           \E i \in DOMAIN items : /\ PairOfSub(items[i]) = key
                                   /\ Index(items, PairOfSub, {})[key] = items[i]
                                   /\ \A j \in DOMAIN items : PairOfSub(items[j]) = key => j <= i
<1> SUFFICES ASSUME NEW key \in DOMAIN Index(items, PairOfSub, {})
             PROVE  \E i \in DOMAIN items : /\ PairOfSub(items[i]) = key
                                            /\ Index(items, PairOfSub, {})[key] = items[i]
                                            /\ \A j \in DOMAIN items : PairOfSub(items[j]) = key => j <= i
  OBVIOUS
<1> DEFINE S == {i \in DOMAIN items : PairOfSub(items[i]) = key}
           Last(i) == i \in S /\ \A j \in S : j <= i
<1>1. DOMAIN Index(items, PairOfSub, {}) = {PairOfSub(items[i]) : i \in DOMAIN items} \ {{}}
  BY DEF Index
<1>2. \E i : Last(i)
  <2>1. S \in SUBSET (1..n) /\ S # {}
    BY <1>1
  <2> QED BY <2>1, LastPlace
<1>3. Index(items, PairOfSub, {})[key] =
        items[CHOOSE i \in DOMAIN items :
                PairOfSub(items[i]) = key /\ \A j \in DOMAIN items : PairOfSub(items[j]) = key => j <= i]
  BY <1>1 DEF Index, LastWith
<1>4. PICK i \in DOMAIN items :
        /\ PairOfSub(items[i]) = key /\ \A j \in DOMAIN items : PairOfSub(items[j]) = key => j <= i
        /\ i = CHOOSE k \in DOMAIN items :
                 PairOfSub(items[k]) = key /\ \A j \in DOMAIN items : PairOfSub(items[j]) = key => j <= k
  BY <1>2
<1> QED BY <1>3, <1>4

\* What is looked up by a pair is of that pair.
LEMMA ByPairFindsSub ==
  ASSUME NEW n \in Nat, NEW items, DOMAIN items \subseteq 1..n
  PROVE  /\ DOMAIN Index(items, PairOfSub, {}) = {PairOfSub(items[i]) : i \in DOMAIN items} \ {{}}
         /\ \A key \in DOMAIN Index(items, PairOfSub, {}) :
              \E i \in DOMAIN items : PairOfSub(items[i]) = key /\ Index(items, PairOfSub, {})[key] = items[i]
<1>1. DOMAIN Index(items, PairOfSub, {}) = {PairOfSub(items[i]) : i \in DOMAIN items} \ {{}}
  BY DEF Index
<1> DEFINE W == Index(items, PairOfSub, {})
<1>2. \A key \in DOMAIN W :
        \E i \in DOMAIN items : /\ PairOfSub(items[i]) = key /\ W[key] = items[i]
                                /\ \A j \in DOMAIN items : PairOfSub(items[j]) = key => j <= i
  BY ByPairFindsLast
<1> HIDE DEF W
<1>3. \A key \in DOMAIN W : \E i \in DOMAIN items : PairOfSub(items[i]) = key /\ W[key] = items[i]
  BY <1>2
<1> QED BY <1>1, <1>3 DEF W

LEMMA ByPairFindsDds ==
  ASSUME NEW n \in Nat, NEW items, DOMAIN items \subseteq 1..n
  PROVE  /\ DOMAIN Index(items, PairOfDds, {}) = {PairOfDds(items[i]) : i \in DOMAIN items} \ {{}}
         /\ \A key \in DOMAIN Index(items, PairOfDds, {}) :
              \E i \in DOMAIN items : PairOfDds(items[i]) = key /\ Index(items, PairOfDds, {})[key] = items[i]
<1>1. DOMAIN Index(items, PairOfDds, {}) = {PairOfDds(items[i]) : i \in DOMAIN items} \ {{}}
  BY DEF Index
<1>2. ASSUME NEW key \in DOMAIN Index(items, PairOfDds, {})
      PROVE  \E i \in DOMAIN items : PairOfDds(items[i]) = key /\ Index(items, PairOfDds, {})[key] = items[i]
  <2> DEFINE S == {i \in DOMAIN items : PairOfDds(items[i]) = key}
             Last(i) == i \in S /\ \A j \in S : j <= i
  <2>1. \E i : Last(i)
    <3>1. S \in SUBSET (1..n) /\ S # {}
      BY <1>1
    <3> QED BY <3>1, LastPlace
  <2>2. Index(items, PairOfDds, {})[key] =
          items[CHOOSE i \in DOMAIN items :
                  PairOfDds(items[i]) = key /\ \A j \in DOMAIN items : PairOfDds(items[j]) = key => j <= i]
    BY <1>1 DEF Index, LastWith
  <2>3. PICK i \in DOMAIN items :
          /\ PairOfDds(items[i]) = key
          /\ i = CHOOSE k \in DOMAIN items :
                   PairOfDds(items[k]) = key /\ \A j \in DOMAIN items : PairOfDds(items[j]) = key => j <= k
    BY <2>1
  <2> QED BY <2>2, <2>3
<1> QED BY <1>1, <1>2

\* A pair of ids is a pair of two.
LEMMA TwoIds ==
  ASSUME NEW a, NEW z
  PROVE  Cardinality({a, z}) = 2 <=> a # z
<1>1. IsFiniteSet({a}) /\ Cardinality({a}) = 1
  BY FS_Singleton
<1>2. Cardinality({a} \cup {z}) = IF z \in {a} THEN 1 ELSE 2
  BY <1>1, FS_AddElement
<1>3. {a, z} = {a} \cup {z}
  OBVIOUS
<1> QED BY <1>2, <1>3

-----------------------------------------------------------------------------
\* Induction, folds and sums.

\* Induction over the numbers of a set.
LEMMA Counting ==
  ASSUME NEW K \in SUBSET Nat, 0 \in K, \A k \in K : k + 1 \in K
  PROVE  K = Nat
<1> SUFFICES ASSUME Nat \ K # {} PROVE FALSE
  OBVIOUS
<1>1. PICK x \in Nat \ K : \A y \in Nat \ K : ~(<<y, x>> \in OpToRel(<, Nat))
  BY NatLessThanWellFounded, WFMin
<1>2. x # 0 /\ x - 1 \in Nat
  OBVIOUS
<1>3. x - 1 \notin K
  BY <1>2
<1>4. <<x - 1, x>> \in OpToRel(<, Nat)
  BY <1>2 DEF OpToRel
<1> QED BY <1>1, <1>2, <1>3, <1>4

\* Induction over the parts of a finite set, taking items out.
LEMMA PartByPart ==
  ASSUME NEW S, IsFiniteSet(S), NEW Good, {} \in Good,
         \A s \in SUBSET S : s # {} /\ (\A x \in s : s \ {x} \in Good) => s \in Good
  PROVE  \A s \in SUBSET S : s \in Good
<1> DEFINE K == {k \in Nat : \A s \in SUBSET S : Cardinality(s) = k => s \in Good}
<1>1. \A s \in SUBSET S : IsFiniteSet(s) /\ Cardinality(s) \in Nat /\ (Cardinality(s) = 0 <=> s = {})
  BY FS_Subset, FS_CardinalityType, FS_EmptySet
<1>2. 0 \in K
  BY <1>1
<1>3. ASSUME NEW k \in K PROVE k + 1 \in K
  <2> SUFFICES ASSUME NEW s \in SUBSET S, Cardinality(s) = k + 1 PROVE s \in Good
    OBVIOUS
  <2>1. \A x \in s : s \ {x} \in SUBSET S /\ Cardinality(s \ {x}) = k
    <3> TAKE x \in s
    <3>1. IsFiniteSet(s) /\ k \in Nat
      BY <1>1
    <3>2. Cardinality(s \ {x}) = Cardinality(s) - 1
      BY <3>1, FS_RemoveElement
    <3> QED BY <3>1, <3>2
  <2>2. \A x \in s : s \ {x} \in Good
    BY <2>1
  <2>3. s # {}
    BY <1>1
  <2> QED BY <2>2, <2>3
<1>4. K = Nat
  <2> HIDE DEF K
  <2>1. K \in SUBSET Nat
    BY DEF K
  <2> QED BY <1>2, <1>3, <2>1, Counting
<1> QED BY <1>1, <1>4

\* A function of the parts of a set that takes items out one by one, in the order
\* of pick, and puts their steps together: what the folds of the library choose.
Picks(pick, S) == \A s \in SUBSET S : s # {} => pick[s] \in s
Combines(step, S, T) == \A x \in S, t \in T : step[x][t] \in T
IsFold(fold, S, T, base, step, pick) ==
  /\ fold \in [SUBSET S -> T]
  /\ \A s \in SUBSET S : fold[s] = IF s = {} THEN base ELSE step[pick[s]][fold[s \ {pick[s]}]]

LEMMA FoldExists ==
  ASSUME NEW S, IsFiniteSet(S), NEW T, NEW base \in T, NEW step, Combines(step, S, T),
         NEW pick, Picks(pick, S)
  PROVE  \E fold : IsFold(fold, S, T, base, step, pick)
<1> DEFINE Upto(k) == {s \in SUBSET S : Cardinality(s) <= k}
           Folds(f, s) == f[s] = IF s = {} THEN base ELSE step[pick[s]][f[s \ {pick[s]}]]
           K == {k \in Nat : \E f \in [Upto(k) -> T] : \A s \in Upto(k) : Folds(f, s)}
<1>1. \A s \in SUBSET S : IsFiniteSet(s) /\ Cardinality(s) \in Nat /\ (Cardinality(s) = 0 <=> s = {})
  BY FS_Subset, FS_CardinalityType, FS_EmptySet
<1>2. \A s \in SUBSET S : s # {} =>
        pick[s] \in s /\ s \ {pick[s]} \in SUBSET S /\ Cardinality(s \ {pick[s]}) = Cardinality(s) - 1
  BY <1>1, FS_RemoveElement DEF Picks
<1>3. 0 \in K
  <2>1. \A s \in Upto(0) : s = {}
    BY <1>1
  <2>2. [s \in Upto(0) |-> base] \in [Upto(0) -> T]
    OBVIOUS
  <2>3. \A s \in Upto(0) : Folds([r \in Upto(0) |-> base], s)
    BY <2>1
  <2> QED BY <2>2, <2>3
<1>4. ASSUME NEW k \in K PROVE k + 1 \in K
  <2>1. PICK f \in [Upto(k) -> T] : \A s \in Upto(k) : Folds(f, s)
    OBVIOUS
  <2> DEFINE g == [s \in Upto(k + 1) |->
                     IF s \in Upto(k) THEN f[s] ELSE step[pick[s]][f[s \ {pick[s]}]]]
  <2>2. \A s \in Upto(k + 1) : s # {} => s \ {pick[s]} \in Upto(k) /\ pick[s] \in S
    BY <1>1, <1>2
  <2>3. \A s \in Upto(k + 1) : s \notin Upto(k) => s # {}
    BY <1>1
  <2>4. g \in [Upto(k + 1) -> T]
    <3>1. ASSUME NEW s \in Upto(k + 1), s \notin Upto(k) PROVE step[pick[s]][f[s \ {pick[s]}]] \in T
      BY <2>2, <2>3, <3>1, <2>1 DEF Combines
    <3> HIDE DEF Upto
    <3> QED BY <3>1, <2>1
  <2>5. \A s \in Upto(k) : g[s] = f[s] /\ s \in Upto(k + 1)
    BY <1>1
  <2>6. ASSUME NEW s \in Upto(k + 1) PROVE Folds(g, s)
    <3>1. CASE s \in Upto(k)
      <4>1. s # {} => g[s \ {pick[s]}] = f[s \ {pick[s]}]
        BY <2>2, <2>5
      <4> QED BY <2>1, <2>5, <3>1, <4>1
    <3>2. CASE s \notin Upto(k)
      <4>1. s # {} /\ g[s \ {pick[s]}] = f[s \ {pick[s]}]
        BY <2>2, <2>3, <2>5, <3>2
      <4> QED BY <3>2, <4>1
    <3> QED BY <3>1, <3>2
  <2>7. \E h \in [Upto(k + 1) -> T] : \A s \in Upto(k + 1) : Folds(h, s)
    <3> HIDE DEF g, Upto, Folds
    <3> QED BY <2>4, <2>6
  <2>8. k + 1 \in Nat
    OBVIOUS
  <2> QED
    <3> HIDE DEF g, Upto, Folds
    <3> QED BY <2>7, <2>8
<1>5. K = Nat
  <2> HIDE DEF K
  <2>1. K \in SUBSET Nat
    BY DEF K
  <2> QED BY <1>3, <1>4, <2>1, Counting
<1>6. Cardinality(S) \in K
  BY <1>5, <1>1
<1>7. Upto(Cardinality(S)) = SUBSET S
  BY FS_Subset, FS_CardinalityType
<1> QED BY <1>6, <1>7 DEF IsFold

\* Sums.  Sums(F, S, val): F is the sum of val over the parts of S, as the fold of
\* the library computes it.
Sums(F, S, val) ==
  F = [s \in SUBSET S |->
         IF s = {} THEN 0 ELSE val[CHOOSE x \in s : TRUE] + F[s \ {CHOOSE x \in s : TRUE}]]

LEMMA SumExists ==
  ASSUME NEW S, IsFiniteSet(S), NEW val \in [S -> Nat]
  PROVE  \E F : Sums(F, S, val)
<1> DEFINE pick == [s \in (SUBSET S) \ {{}} |-> CHOOSE x \in s : TRUE]
           step == [x \in S |-> [n \in Nat |-> val[x] + n]]
<1>1. Combines(step, S, Nat)
  BY DEF Combines
<1>2. Picks(pick, S)
  BY DEF Picks
<1>3. PICK F : IsFold(F, S, Nat, 0, step, pick)
  <2> HIDE DEF pick, step
  <2>1. 0 \in Nat
    OBVIOUS
  <2> QED BY <1>1, <1>2, <2>1, FoldExists
<1>4. \A s \in SUBSET S :
        F[s] = IF s = {} THEN 0 ELSE val[CHOOSE x \in s : TRUE] + F[s \ {CHOOSE x \in s : TRUE}]
  <2> TAKE s \in SUBSET S
  <2>1. s # {} => pick[s] = (CHOOSE x \in s : TRUE) /\ pick[s] \in S /\ F[s \ {pick[s]}] \in Nat
    BY <1>2, <1>3 DEF Picks, IsFold
  <2> QED BY <1>3, <2>1 DEF IsFold
<1>5. F = [s \in SUBSET S |-> F[s]]
  BY <1>3 DEF IsFold
<1>6. Sums(F, S, val)
  BY <1>4, <1>5 DEF Sums
<1> QED BY <1>6

\* Whichever item is taken out, a sum is that of the others and its value.
LEMMA SumOut ==
  ASSUME NEW S, IsFiniteSet(S), NEW val \in [S -> Nat], NEW F, Sums(F, S, val)
  PROVE  \A s \in SUBSET S :
           F[s] \in Nat /\ (s = {} => F[s] = 0) /\ \A x \in s : F[s] = val[x] + F[s \ {x}]
<1> DEFINE some(r) == CHOOSE x \in r : TRUE
<1>1. \A s \in SUBSET S : F[s] = IF s = {} THEN 0 ELSE val[some(s)] + F[s \ {some(s)}]
  BY DEF Sums
<1>2. \A s \in SUBSET S : s # {} => some(s) \in s
  OBVIOUS
<1> HIDE DEF some
<1>3. \A s \in SUBSET S : F[s] \in Nat
  <2> DEFINE Good == {s \in SUBSET S : F[s] \in Nat}
  <2>1. {} \in Good
    <3>1. F[{}] = 0
      BY <1>1
    <3> QED BY <3>1
  <2>2. ASSUME NEW s \in SUBSET S, s # {}, \A x \in s : s \ {x} \in Good
        PROVE  s \in Good
    <3>1. s \ {some(s)} \in Good /\ val[some(s)] \in Nat
      BY <1>2, <2>2
    <3>2. F[s] = val[some(s)] + F[s \ {some(s)}]
      BY <1>1, <2>2
    <3> QED BY <3>1, <3>2
  <2>3. \A s \in SUBSET S : s \in Good
    <3> HIDE DEF Good
    <3> QED BY <2>1, <2>2, PartByPart
  <2> QED BY <2>3
<1>4. \A s \in SUBSET S : \A x \in s : F[s] = val[x] + F[s \ {x}]
  <2> DEFINE Good == {s \in SUBSET S : \A x \in s : F[s] = val[x] + F[s \ {x}]}
  <2>1. {} \in Good
    OBVIOUS
  <2>2. ASSUME NEW s \in SUBSET S, s # {}, \A x \in s : s \ {x} \in Good
        PROVE  s \in Good
    <3> DEFINE c == some(s)
    <3>1. c \in s /\ F[s] = val[c] + F[s \ {c}]
      BY <1>1, <1>2, <2>2
    <3> HIDE DEF c
    <3>2. ASSUME NEW x \in s, x # c PROVE F[s] = val[x] + F[s \ {x}]
      <4>1. F[s \ {c}] = val[x] + F[(s \ {c}) \ {x}] /\ F[s \ {x}] = val[c] + F[(s \ {x}) \ {c}]
        BY <2>2, <3>1, <3>2
      <4>2. (s \ {c}) \ {x} = (s \ {x}) \ {c} /\ F[(s \ {x}) \ {c}] \in Nat /\ val[x] \in Nat /\ val[c] \in Nat
        BY <1>3, <3>1
      <4> QED BY <3>1, <4>1, <4>2
    <3> QED BY <3>1, <3>2
  <2>3. \A s \in SUBSET S : s \in Good
    <3> HIDE DEF Good
    <3> QED BY <2>1, <2>2, PartByPart
  <2> QED BY <2>3
<1> QED BY <1>1, <1>3, <1>4

\* A sum over more is no less.
LEMMA SumGrows ==
  ASSUME NEW S, IsFiniteSet(S), NEW val \in [S -> Nat], NEW F, Sums(F, S, val), NEW part \in SUBSET S
  PROVE  F[part] <= F[S]
<1> DEFINE Good == {s \in SUBSET S : F[s \cap part] <= F[s]}
<1>1. \A s \in SUBSET S :
        F[s] \in Nat /\ (s = {} => F[s] = 0) /\ \A x \in s : F[s] = val[x] + F[s \ {x}]
  BY SumOut
<1>2. {} \in Good
  BY <1>1
<1>3. ASSUME NEW s \in SUBSET S, s # {}, \A x \in s : s \ {x} \in Good
      PROVE  s \in Good
  <2> PICK y \in s : TRUE
    BY <1>3
  <2>1. F[(s \ {y}) \cap part] <= F[s \ {y}] /\ F[(s \ {y}) \cap part] \in Nat
    BY <1>1, <1>3
  <2>2. F[s] = val[y] + F[s \ {y}] /\ val[y] \in Nat /\ F[s \ {y}] \in Nat
    BY <1>1
  <2>3. F[s \cap part] <= F[s]
    <3>1. CASE y \in part
      <4>1. (s \cap part) \ {y} = (s \ {y}) \cap part
        OBVIOUS
      <4>2. F[s \cap part] = val[y] + F[(s \cap part) \ {y}]
        BY <1>1, <3>1
      <4> QED BY <2>1, <2>2, <4>1, <4>2
    <3>2. CASE y \notin part
      <4>1. s \cap part = (s \ {y}) \cap part
        BY <3>2
      <4>2. F[s \cap part] <= F[s \ {y}] /\ F[s \cap part] \in Nat
        BY <2>1, <4>1
      <4> QED BY <2>2, <4>2
    <3> QED BY <3>1, <3>2
  <2> QED BY <2>3
<1>4. S \in Good
  <2> HIDE DEF Good
  <2> QED BY <1>2, <1>3, PartByPart
<1>5. S \cap part = part
  OBVIOUS
<1> QED BY <1>4, <1>5

\* Items that correspond one to one, with the same values, have the same sum.
Carries(h, S, val, R, wgt) ==
  /\ h \in [S -> R]
  /\ \A x, y \in S : h[x] = h[y] => x = y
  /\ \A x \in S : val[x] = wgt[h[x]]
LEMMA SumCarries ==
  ASSUME NEW S, IsFiniteSet(S), NEW val \in [S -> Nat], NEW F, Sums(F, S, val),
         NEW R, IsFiniteSet(R), NEW wgt \in [R -> Nat], NEW G, Sums(G, R, wgt),
         NEW h, Carries(h, S, val, R, wgt)
  PROVE  F[S] = G[{h[x] : x \in S}]
<1>1. h \in [S -> R] /\ (\A x, y \in S : h[x] = h[y] => x = y) /\ \A x \in S : val[x] = wgt[h[x]]
  BY DEF Carries
<1> DEFINE To(s) == {h[x] : x \in s}
           Good == {s \in SUBSET S : F[s] = G[To(s)]}
<1>2. \A s \in SUBSET S :
        F[s] \in Nat /\ (s = {} => F[s] = 0) /\ \A x \in s : F[s] = val[x] + F[s \ {x}]
  BY SumOut
<1>3. \A s \in SUBSET R :
        G[s] \in Nat /\ (s = {} => G[s] = 0) /\ \A x \in s : G[s] = wgt[x] + G[s \ {x}]
  BY SumOut
<1>4. {} \in Good
  <2>1. To({}) = {}
    OBVIOUS
  <2> QED BY <1>2, <1>3, <2>1
<1>5. ASSUME NEW s \in SUBSET S, s # {}, \A x \in s : s \ {x} \in Good
      PROVE  s \in Good
  <2> PICK y \in s : TRUE
    BY <1>5
  <2>1. F[s \ {y}] = G[To(s \ {y})]
    BY <1>5
  <2>2. To(s \ {y}) = To(s) \ {h[y]}
    BY <1>1
  <2>3. h[y] \in To(s) /\ To(s) \in SUBSET R
    BY <1>1
  <2>4. F[s] = val[y] + F[s \ {y}]
    BY <1>2
  <2>5. G[To(s)] = wgt[h[y]] + G[To(s) \ {h[y]}]
    <3> HIDE DEF To
    <3> QED BY <1>3, <2>3
  <2>6. F[s] = G[To(s)]
    BY <1>1, <2>1, <2>2, <2>4, <2>5
  <2> QED BY <2>6
<1>6. S \in Good
  <2> HIDE DEF Good
  <2> QED BY <1>4, <1>5, PartByPart
<1> QED BY <1>6

-----------------------------------------------------------------------------
\* What the join is of.

\* Of some numbers, Min is the least.
LEMMA MinIsLeast ==
  ASSUME NEW S \in SUBSET Nat, S # {}
  PROVE  Min(S) \in S /\ \A y \in S : Min(S) <= y
<1>1. PICK x \in S : \A y \in S : ~(<<y, x>> \in OpToRel(<, Nat))
  BY NatLessThanWellFounded, WFMin
<1>2. \A y \in S : ~(y < x)
  BY <1>1 DEF OpToRel
<1>3. \A y \in S : x <= y
  BY <1>2
<1> QED BY <1>3 DEF Min

\* Of some places in a list, it is the first.
LEMMA MinIsOne ==
  ASSUME NEW n \in Nat, NEW S \in SUBSET (1..n), S # {}
  PROVE  Min(S) \in S /\ \A y \in S : Min(S) <= y
<1>1. S \in SUBSET Nat
  OBVIOUS
<1> QED BY <1>1, MinIsLeast

\* The index of circuits by connection.
LEMMA ByConnectionFinds ==
  ASSUME NEW n \in Nat, NEW items, DOMAIN items \subseteq 1..n
  PROVE  /\ DOMAIN Index(items, ConnectionOf, Nothing) = {items[i].connection : i \in DOMAIN items} \ {Nothing}
         /\ \A key \in DOMAIN Index(items, ConnectionOf, Nothing) :
              \E i \in DOMAIN items : /\ items[i].connection = key
                                      /\ Index(items, ConnectionOf, Nothing)[key] = items[i]
<1>1. DOMAIN Index(items, ConnectionOf, Nothing) = {items[i].connection : i \in DOMAIN items} \ {Nothing}
  BY DEF Index, ConnectionOf
<1>2. ASSUME NEW key \in DOMAIN Index(items, ConnectionOf, Nothing)
      PROVE  \E i \in DOMAIN items : items[i].connection = key /\ Index(items, ConnectionOf, Nothing)[key] = items[i]
  <2> DEFINE S == {i \in DOMAIN items : items[i].connection = key}
             Last(i) == i \in S /\ \A j \in S : j <= i
  <2>1. \E i : Last(i)
    <3>1. S \in SUBSET (1..n) /\ S # {}
      BY <1>1
    <3> QED BY <3>1, LastPlace
  <2>2. Index(items, ConnectionOf, Nothing)[key] =
          items[CHOOSE i \in DOMAIN items :
                  items[i].connection = key /\ \A j \in DOMAIN items : items[j].connection = key => j <= i]
    BY <1>1 DEF Index, LastWith, ConnectionOf
  <2>3. PICK i \in DOMAIN items :
          /\ items[i].connection = key
          /\ i = CHOOSE k \in DOMAIN items :
                   items[k].connection = key /\ \A j \in DOMAIN items : items[j].connection = key => j <= k
    BY <2>1
  <2> QED BY <2>2, <2>3
<1> QED BY <1>1, <1>2

\* The pairs joined: a path of the aggregator with the open circuit of its connection.
Joined(A, C, i, j) == IsOpen(C[j]) /\ A[i].connection = C[j].connection
IsJoin(A, C, p) ==
  \E i \in DOMAIN A, j \in DOMAIN C : Joined(A, C, i, j) /\ p = [agg |-> A[i], wfo |-> C[j]]
\* A pair is joined exactly if both halves are there.
LEMMA BackedRight ==
  ASSUME NEW n \in Nat, NEW A, NEW C, DOMAIN C \subseteq 1..n, NEW p,
         \A i \in DOMAIN A : A[i].connection # Nothing,
         \A i, j \in DOMAIN C : C[i].connection = C[j].connection /\ C[i].connection # Nothing => i = j
  PROVE  p \in WfoBackedPairs(A, C) <=> IsJoin(A, C, p)
<1> DEFINE open == RestrictValues(C, IsOpen)
           index == Index(open, ConnectionOf, Nothing)
<1>2. DOMAIN open = {j \in DOMAIN C : IsOpen(C[j])} /\ \A j \in DOMAIN open : open[j] = C[j]
  BY DEF RestrictValues, Restrict
<1>3. p \in WfoBackedPairs(A, C) <=>
        \E i \in DOMAIN A : /\ A[i].connection \in DOMAIN index
                             /\ p = [agg |-> A[i], wfo |-> index[A[i].connection]]
  BY DEF WfoBackedPairs
<1> HIDE DEF open
<1>4. /\ DOMAIN index = {open[j].connection : j \in DOMAIN open} \ {Nothing}
      /\ \A key \in DOMAIN index : \E j \in DOMAIN open : open[j].connection = key /\ index[key] = open[j]
  <2>1. n \in Nat /\ DOMAIN open \subseteq 1..n
    BY <1>2
  <2> QED BY <2>1, ByConnectionFinds, Zenon
<1> HIDE DEF index
<1>5. ASSUME NEW i \in DOMAIN A, A[i].connection \in DOMAIN index
      PROVE  \E j \in DOMAIN C : Joined(A, C, i, j) /\ index[A[i].connection] = C[j]
  <2>1. PICK j \in DOMAIN open : open[j].connection = A[i].connection /\ index[A[i].connection] = open[j]
    BY <1>4, <1>5
  <2>2. j \in DOMAIN C /\ IsOpen(C[j]) /\ open[j] = C[j]
    BY <1>2
  <2> QED BY <2>1, <2>2 DEF Joined
<1>6. ASSUME NEW i \in DOMAIN A, NEW j \in DOMAIN C, Joined(A, C, i, j)
      PROVE  A[i].connection \in DOMAIN index /\ index[A[i].connection] = C[j]
  <2>1. A[i].connection # Nothing /\ j \in DOMAIN open /\ open[j] = C[j] /\ C[j].connection = A[i].connection
    BY <1>2, <1>6 DEF Joined
  <2>2. A[i].connection \in DOMAIN index
    BY <1>4, <2>1
  <2>3. PICK k \in DOMAIN open : open[k].connection = A[i].connection /\ index[A[i].connection] = open[k]
    BY <1>4, <2>2
  <2>4. k \in DOMAIN C /\ open[k] = C[k]
    BY <1>2
  <2>5. k = j
    BY <2>1, <2>3, <2>4
  <2> QED BY <2>2, <2>3, <2>4, <2>5
<1> QED BY <1>3, <1>5, <1>6 DEF IsJoin

-----------------------------------------------------------------------------
\* What crosses what.

\* The ends of a path in a list are its ends.
LEMMA SegmentEndsAre ==
  ASSUME NEW agg, agg.segments \in Seq(Segment)
  PROVE  {SegmentEnds(agg)[i] : i \in DOMAIN SegmentEnds(agg)}
           = {agg.segments[k].source : k \in DOMAIN agg.segments}
             \cup {agg.segments[k].dest : k \in DOMAIN agg.segments}
<1> DEFINE path == agg.segments
           all == SegmentEnds(agg)
           ends == {path[k].source : k \in DOMAIN path} \cup {path[k].dest : k \in DOMAIN path}
<1>1. Len(path) \in Nat /\ DOMAIN path = 1..Len(path)
  OBVIOUS
<1>2. DOMAIN all = 1..(2 * Len(path))
  BY DEF SegmentEnds
<1>3. ASSUME NEW i \in DOMAIN all PROVE all[i] \in ends
  <2>1. CASE i % 2 = 1
    <3>1. all[i] = path[(i + 1) \div 2].source
      BY <1>2, <2>1 DEF SegmentEnds
    <3>2. (i + 1) \div 2 \in 1..Len(path)
      BY <1>1, <1>2, <2>1
    <3> QED BY <1>1, <3>1, <3>2
  <2>2. CASE i % 2 # 1
    <3>1. all[i] = path[i \div 2].dest
      BY <1>2, <2>2 DEF SegmentEnds
    <3>2. i \div 2 \in 1..Len(path)
      BY <1>1, <1>2, <2>2
    <3> QED BY <1>1, <3>1, <3>2
  <2> QED BY <2>1, <2>2
<1>4. ASSUME NEW k \in DOMAIN path
      PROVE  /\ 2 * k - 1 \in DOMAIN all /\ all[2 * k - 1] = path[k].source
             /\ 2 * k \in DOMAIN all /\ all[2 * k] = path[k].dest
  <2> DEFINE n == Len(path)
  <2>1. k \in 1..n /\ n \in Nat
    BY <1>1
  <2> HIDE DEF n
  <2>2. 2 * k - 1 \in 1..(2 * n) /\ 2 * k \in 1..(2 * n)
    BY <2>1
  <2>3. (2 * k - 1) % 2 = 1 /\ (2 * k) % 2 # 1
    BY <2>1
  <2>4. (2 * k - 1 + 1) \div 2 = k /\ (2 * k) \div 2 = k
    BY <2>1
  <2> QED BY <1>2, <2>2, <2>3, <2>4 DEF SegmentEnds, n
<1> HIDE DEF all
<1>5. ends \subseteq {all[i] : i \in DOMAIN all}
  BY <1>4
<1> QED BY <1>3, <1>5 DEF all

\* Touched is the ends, whatever form they are written in.
LEMMA TouchedRight ==
  ASSUME NEW agg, agg.segments \in Seq(Segment)
  PROVE  Touched(agg) = StpsOn(agg.segments) \ {Nothing}
<1> DEFINE path == agg.segments
           ends == {path[k].source : k \in DOMAIN path} \cup {path[k].dest : k \in DOMAIN path}
<1>1. {SegmentEnds(agg)[i] : i \in DOMAIN SegmentEnds(agg)} = ends
  BY SegmentEndsAre
<1>2. {SegmentEnds(agg)[i].local : i \in DOMAIN SegmentEnds(agg)}
        = {e.local : e \in {SegmentEnds(agg)[i] : i \in DOMAIN SegmentEnds(agg)}}
  OBVIOUS
<1>3. {e.local : e \in ends} = StpsOn(path)
  BY DEF StpsOn
<1> QED BY <1>1, <1>2, <1>3 DEF Touched, NormalizeId

\* A finite set of two, said without counting.
LEMMA CardinalityTwo ==
  ASSUME NEW S, IsFiniteSet(S)
  PROVE  Cardinality(S) = 2 <=> \E a, z \in S : a # z /\ S = {a, z}
<1>1. ASSUME NEW a \in S, NEW z \in S, a # z, S = {a, z} PROVE Cardinality(S) = 2
  BY <1>1, TwoIds
<1>2. ASSUME Cardinality(S) = 2 PROVE \E a, z \in S : a # z /\ S = {a, z}
  <2>1. PICK a : a \in S
    BY <1>2, FS_EmptySet
  <2>2. IsFiniteSet(S \ {a}) /\ Cardinality(S \ {a}) = 1
    BY <1>2, <2>1, FS_RemoveElement
  <2>3. PICK z : z \in S \ {a}
    BY <2>2, FS_EmptySet
  <2>4. IsFiniteSet((S \ {a}) \ {z}) /\ Cardinality((S \ {a}) \ {z}) = 0
    BY <2>2, <2>3, FS_RemoveElement
  <2>5. (S \ {a}) \ {z} = {}
    BY <2>4, FS_EmptySet
  <2> QED BY <2>1, <2>3, <2>5
<1> QED BY <1>1, <1>2

\* An SDP has a key if it has two members, and the key is the two.
LEMMA PairOfLink ==
  ASSUME NEW sdp, sdp.stps \in Seq(StpMember)
  PROVE  PairOfSub(sdp) = IF IsLink(sdp) THEN Members(sdp) ELSE {}
<1>1. \A i \in DOMAIN sdp.stps : sdp.stps[i] \in StpMember
  OBVIOUS
<1>2. \A i \in DOMAIN sdp.stps : sdp.stps[i].id.local # Nothing
  BY <1>1 DEF StpMember
<1>3. {NormalizeId(raw) : raw \in {sdp.stps[i].id : i \in DOMAIN sdp.stps}} \ {Nothing} = Members(sdp)
  BY <1>2 DEF NormalizeId, Members
<1>4. IsFiniteSet(Members(sdp))
  <2> DEFINE f == [i \in 1..Len(sdp.stps) |-> sdp.stps[i].id.local]
  <2>1. Len(sdp.stps) \in Nat /\ DOMAIN sdp.stps = 1..Len(sdp.stps)
    OBVIOUS
  <2>2. IsFiniteSet(1..Len(sdp.stps))
    BY <2>1, FS_Interval
  <2>3. f \in Surjection(1..Len(sdp.stps), Members(sdp))
    BY <2>1 DEF Surjection, Members
  <2> QED BY <2>2, <2>3, FS_Surjection
<1>5. IsLink(sdp) <=> \E a, z \in Members(sdp) : a # z /\ Members(sdp) = {a, z}
  BY <1>4, CardinalityTwo DEF IsLink
<1> QED BY <1>3, <1>5 DEF PairOfSub, SdpPair

\* A link's key is not empty.
LEMMA LinkHasPair ==
  ASSUME NEW sdp, sdp.stps \in Seq(StpMember)
  PROVE  PairOfSub(sdp) # {} <=> IsLink(sdp)
<1>1. ASSUME IsLink(sdp), Members(sdp) = {} PROVE FALSE
  <2>1. Cardinality(Members(sdp)) = 0
    BY <1>1, FS_EmptySet, Zenon
  <2> QED BY <1>1, <2>1 DEF IsLink
<1> QED BY <1>1, PairOfLink

\* The code crosses exactly the links a path is over.
LEMMA CrossesRight ==
  ASSUME NEW p, NEW sdp, p.agg.segments \in Seq(Segment), sdp.stps \in Seq(StpMember), IsLink(sdp)
  PROVE  Crosses(p, sdp) <=> Over(p.agg.segments, sdp)
<1>1. \A i \in DOMAIN sdp.stps : sdp.stps[i] \in StpMember
  OBVIOUS
<1>2. Nothing \notin Members(sdp)
  BY <1>1 DEF StpMember, Members
<1>3. PairOfSub(sdp) = Members(sdp)
  BY PairOfLink
<1>4. Touched(p.agg) = StpsOn(p.agg.segments) \ {Nothing}
  BY TouchedRight
<1> QED BY <1>2, <1>3, <1>4 DEF Crosses, Over

-----------------------------------------------------------------------------
\* The rows of the spectrum.

OnTheSdp(A, C, sdp) == {p \in WfoBackedPairs(A, C) : Crosses(p, sdp)}

\* What the two kinds of row are made of, for the properties.
LEMMA SdpRowFields ==
  ASSUME NEW sdp, NEW members
  PROVE  LET row == SpectrumRow(sdp, members) IN
         /\ row.sub = sdp.sub /\ row.pair = PairOfSub(sdp) /\ row.count = Cardinality(members)
         /\ row.circuits = {CircuitOnSdp(p, PairOfSub(sdp)) : p \in members}
BY DEF SpectrumRow, CircuitsOn

\* The other kind.
LEMMA StrayRowFields ==
  ASSUME NEW members
  PROVE  LET row == UnattributedRow(members) IN
         /\ row.sub = Unattributed /\ row.pair = {} /\ row.count = Cardinality(members)
         /\ row.circuits = {CircuitOnSdp(p, {}) : p \in members}
BY DEF UnattributedRow, CircuitsOn

\* A row is that of an SDP with a key, or the unattributed one.
LEMMA RowsAre ==
  ASSUME NEW S, NEW A, NEW C, NEW row \in BuildSpectrum(S, A, C)
  PROVE  \/ \E k \in DOMAIN S : PairOfSub(S[k]) # {} /\ row = SpectrumRow(S[k], OnTheSdp(A, C, S[k]))
         \/ \E members \in SUBSET WfoBackedPairs(A, C) : row = UnattributedRow(members)
BY DEF BuildSpectrum, OnTheSdp

\* Every link has its row, and no other SDP's.
LEMMA LinkHasRow ==
  ASSUME NEW S, NEW A, NEW C, NEW k \in DOMAIN S, IsLink(S[k]), S[k].stps \in Seq(StpMember),
         S[k].sub # Unattributed, \A i \in DOMAIN S : S[i].sub = S[k].sub => i = k
  PROVE  LET row == SpectrumRow(S[k], OnTheSdp(A, C, S[k]))
             rs == RealSdps(BuildSpectrum(S, A, C))
         IN row \in rs /\ \A other \in rs : other.sub = S[k].sub => other = row
<1> DEFINE row == SpectrumRow(S[k], OnTheSdp(A, C, S[k]))
           rs == RealSdps(BuildSpectrum(S, A, C))
<1>1. PairOfSub(S[k]) # {}
  BY LinkHasPair
<1>2. row \in BuildSpectrum(S, A, C)
  BY <1>1 DEF BuildSpectrum, OnTheSdp
<1>3. row.sub = S[k].sub
  BY SdpRowFields
<1>4. row \in rs
  BY <1>2, <1>3 DEF RealSdps
<1>5. ASSUME NEW other \in rs, other.sub = S[k].sub PROVE other = row
  <2>1. other \in BuildSpectrum(S, A, C) /\ other.sub # Unattributed
    BY DEF RealSdps
  <2>2. PICK i \in DOMAIN S : other = SpectrumRow(S[i], OnTheSdp(A, C, S[i]))
    BY <2>1, RowsAre, StrayRowFields
  <2>3. i = k
    BY <1>5, <2>2, SdpRowFields
  <2> QED BY <2>2, <2>3
<1> QED BY <1>4, <1>5

\* A circuit is on a row if it is half of a pair that is.
LEMMA CircuitOnRow ==
  ASSUME NEW sdp, NEW A, NEW C, NEW sub
  PROVE  HasCircuit(SpectrumRow(sdp, OnTheSdp(A, C, sdp)), sub)
           <=> \E p \in WfoBackedPairs(A, C) : p.wfo.sub = sub /\ Crosses(p, sdp)
<1> DEFINE row == SpectrumRow(sdp, OnTheSdp(A, C, sdp))
<1>1. row.circuits = {CircuitOnSdp(p, PairOfSub(sdp)) : p \in OnTheSdp(A, C, sdp)}
  BY SdpRowFields
<1>2. \A p : CircuitOnSdp(p, PairOfSub(sdp)).sub = p.wfo.sub
  BY DEF CircuitOnSdp
<1> HIDE DEF row
<1>3. HasCircuit(row, sub) <=> \E p \in OnTheSdp(A, C, sdp) : p.wfo.sub = sub
  BY <1>1, <1>2 DEF HasCircuit
<1> QED BY <1>3 DEF OnTheSdp, row
=============================================================================

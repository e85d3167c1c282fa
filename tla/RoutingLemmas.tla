---------------------------- MODULE RoutingLemmas ----------------------------
(***************************************************************************)
(* What the routing decision and the order of attempts (Routing) are, for  *)
(* any number of candidates.  min() and sorted() come down to one fact:    *)
(* the members of a finite set, numbered by how many precede them, are its *)
(* enumeration in the order of the key.                                    *)
(***************************************************************************)
EXTENDS Routing, FiniteSetTheorems, SequenceTheorems, FunctionTheorems, NaturalsInduction,
        WellFoundedInduction, TLAPS

\* R orders S: of two members exactly one precedes the other.
Orders(R, S) ==
    /\ \A m \in S : <<m, m>> \notin R
    /\ \A m, n \in S : m = n \/ <<m, n>> \in R \/ <<n, m>> \in R
    /\ \A l, m, n \in S : <<l, m>> \in R /\ <<m, n>> \in R => <<l, n>> \in R

Before(R, S, m) == {n \in S : <<n, m>> \in R}

\* A finite set can be listed in any order of its members.
LEMMA Enumeration ==
    ASSUME NEW S, IsFiniteSet(S), NEW R, Orders(R, S)
    PROVE  \E s \in [1 .. Cardinality(S) -> S] :
              /\ \A i, j \in 1 .. Cardinality(S) : i < j => <<s[i], s[j]>> \in R
              /\ \A m \in S : \E i \in 1 .. Cardinality(S) : s[i] = m
<1> DEFINE N == Cardinality(S)
           f == [m \in S |-> Cardinality(Before(R, S, m)) + 1]
<1>1. N \in Nat
  BY FS_CardinalityType
<1>2. ASSUME NEW m \in S
      PROVE  /\ IsFiniteSet(Before(R, S, m)) /\ Cardinality(Before(R, S, m)) \in Nat
             /\ Cardinality(Before(R, S, m)) < N
  <2>1. Before(R, S, m) \in SUBSET (S \ {m}) /\ Before(R, S, m) \in SUBSET S
    BY DEF Before, Orders
  <2>2. IsFiniteSet(S \ {m}) /\ Cardinality(S \ {m}) = N - 1
    BY FS_RemoveElement
  <2>3. IsFiniteSet(Before(R, S, m)) /\ Cardinality(Before(R, S, m)) <= N - 1
    BY <2>1, <2>2, FS_Subset
  <2>4. Cardinality(Before(R, S, m)) \in Nat
    BY <2>3, FS_CardinalityType
  <2> QED
    BY <1>1, <2>3, <2>4
<1>3. f \in [S -> 1 .. N]
  <2>1. ASSUME NEW m \in S PROVE Cardinality(Before(R, S, m)) + 1 \in 1 .. N
    BY <1>1, <1>2
  <2> QED
    BY <2>1
<1>4. ASSUME NEW m \in S, NEW n \in S, <<m, n>> \in R
      PROVE  f[m] < f[n]
  <2>1. Before(R, S, m) \cup {m} \in SUBSET Before(R, S, n) /\ m \notin Before(R, S, m)
    BY <1>4 DEF Before, Orders
  <2>2. Cardinality(Before(R, S, m) \cup {m}) = Cardinality(Before(R, S, m)) + 1
    BY <1>2, <2>1, FS_AddElement
  <2>3. Cardinality(Before(R, S, m) \cup {m}) <= Cardinality(Before(R, S, n))
    BY <1>2, <2>1, FS_Subset
  <2>4. Cardinality(Before(R, S, m)) \in Nat /\ Cardinality(Before(R, S, n)) \in Nat
    BY <1>2
  <2> QED
    BY <2>2, <2>3, <2>4
<1> HIDE DEF f
<1>5. ASSUME NEW m \in S, NEW n \in S, f[m] = f[n] PROVE m = n
  <2>1. f[m] \in Int /\ f[n] \in Int
    BY <1>1, <1>3
  <2>2. <<m, n>> \notin R /\ <<n, m>> \notin R
    BY <1>4, <1>5, <2>1
  <2> QED
    BY <2>2 DEF Orders
<1>6. f \in Surjection(S, 1 .. N)
  <2>1. f \in Injection(S, 1 .. N)
    BY <1>3, <1>5, Zenon DEF Injection, IsInjective
  <2>2. IsFiniteSet(1 .. N) /\ Cardinality(1 .. N) = N
    BY <1>1, FS_Interval
  <2> QED
    BY <2>1, <2>2, FS_Injection
<1>7. \A i \in 1 .. N : \E m \in S : f[m] = i
  BY <1>6 DEF Surjection
<1> DEFINE s == [i \in 1 .. N |-> CHOOSE m \in S : f[m] = i]
<1>8. \A i \in 1 .. N : s[i] \in S /\ f[s[i]] = i
  BY <1>7
<1>9. s \in [1 .. N -> S]
  BY <1>8
<1> HIDE DEF s
<1>10. ASSUME NEW i \in 1 .. N, NEW j \in 1 .. N, i < j
       PROVE  <<s[i], s[j]>> \in R
  <2>1. s[i] # s[j]
    BY <1>8, <1>10
  <2>2. <<s[j], s[i]>> \notin R
    BY <1>4, <1>8, <1>10
  <2> QED
    BY <1>8, <2>1, <2>2 DEF Orders
<1>11. ASSUME NEW m \in S PROVE \E i \in 1 .. N : s[i] = m
  <2>1. f[m] \in 1 .. N
    BY <1>3
  <2>2. s[f[m]] = m
    BY <1>5, <1>8, <2>1
  <2> QED
    BY <2>1, <2>2
<1> QED
  BY <1>9, <1>10, <1>11

\* A nonempty finite set has a first member in any order of its members.
LEMMA LeastMember ==
    ASSUME NEW S, IsFiniteSet(S), S # {}, NEW R, Orders(R, S)
    PROVE  \E m \in S : \A n \in S : <<n, m>> \notin R
<1>1. PICK s \in [1 .. Cardinality(S) -> S] :
              /\ \A i, j \in 1 .. Cardinality(S) : i < j => <<s[i], s[j]>> \in R
              /\ \A m \in S : \E i \in 1 .. Cardinality(S) : s[i] = m
  BY Enumeration
<1>2. Cardinality(S) \in Nat /\ Cardinality(S) # 0
  BY FS_CardinalityType, FS_EmptySet
<1>3. s[1] \in S
  BY <1>1, <1>2
<1>4. ASSUME NEW n \in S PROVE <<n, s[1]>> \notin R
  <2>1. PICK i \in 1 .. Cardinality(S) : s[i] = n
    BY <1>1
  <2>2. i = 1 \/ <<s[1], n>> \in R
    BY <1>1, <1>2, <2>1
  <2> QED
    BY <1>3, <2>1, <2>2 DEF Orders
<1> QED
  BY <1>3, <1>4

\* Min of a set of places in a list is one of them, and the first.
LEMMA MinPlace ==
    ASSUME NEW n \in Nat, NEW I, I \subseteq 1 .. n, I # {}
    PROVE  Min(I) \in I
<1> DEFINE R == {p \in (1 .. n) \X (1 .. n) : p[1] < p[2]}
<1>1. IsFiniteSet(I)
  <2>1. IsFiniteSet(1 .. n)
    BY FS_Interval
  <2> QED
    BY <2>1, FS_Subset
<1>2. \A i, j \in 1 .. n : <<i, j>> \in R <=> i < j
  OBVIOUS
<1> HIDE DEF R
<1>3. Orders(R, I)
  BY <1>2 DEF Orders
<1>4. PICK i \in I : \A j \in I : <<j, i>> \notin R
  BY <1>1, <1>3, LeastMember
<1>5. ASSUME NEW j \in I PROVE i <= j
  <2>1. i \in 1 .. n /\ j \in 1 .. n /\ ~(j < i)
    BY <1>2, <1>4
  <2> QED
    BY <2>1
<1> QED
  BY <1>5 DEF Min

-----------------------------------------------------------------------------
\* The models a decision is about: identifiers are numbers, so are costs and
\* acceptabilities.
Priced(S, cost) == S \subseteq Int /\ \A m \in S : cost[m] \in Int

CheaperPairs(S, cost) == {p \in S \X S : Cheaper(cost, p[1], p[2])}
BetterPairs(S, acc, cost) == {p \in S \X S : Better(acc, cost, p[1], p[2])}

\* The keys of policy.py order the candidates: identifiers break every tie.
LEMMA KeysOrder ==
    ASSUME NEW S, NEW cost, NEW acc, Priced(S, cost)
    PROVE  /\ \A m, n \in S : <<m, n>> \in CheaperPairs(S, cost) <=> Cheaper(cost, m, n)
           /\ Orders(CheaperPairs(S, cost), S)
           /\ Priced(S, acc) =>
                 /\ \A m, n \in S :
                       <<m, n>> \in BetterPairs(S, acc, cost) <=> Better(acc, cost, m, n)
                 /\ Orders(BetterPairs(S, acc, cost), S)
<1>1. \A m, n \in S : <<m, n>> \in CheaperPairs(S, cost) <=> Cheaper(cost, m, n)
  BY DEF CheaperPairs
<1>2. Orders(CheaperPairs(S, cost), S)
  BY <1>1 DEF Orders, Cheaper, Priced
<1>3. \A m, n \in S : <<m, n>> \in BetterPairs(S, acc, cost) <=> Better(acc, cost, m, n)
  BY DEF BetterPairs
<1>4. ASSUME Priced(S, acc) PROVE Orders(BetterPairs(S, acc, cost), S)
  BY <1>3, <1>4 DEF Orders, Better, Cheaper, Priced
<1> QED
  BY <1>1, <1>2, <1>3, <1>4

\* The two uses of min().
CheapestOf(list, some, cost) == First(list, some, LAMBDA m, n : Cheaper(cost, m, n))
BestOf(list, some, acc, cost) == First(list, some, LAMBDA m, n : Better(acc, cost, m, n))

\* min(qualifying, key = (cost, id)): one of them, and none is cheaper.
LEMMA CheapestFirst ==
    ASSUME NEW Models, NEW list \in Seq(Models), NEW some, some \subseteq ToSet(list),
           some # {}, IsFiniteSet(some), NEW cost, Priced(some, cost)
    PROVE  LET m == CheapestOf(list, some, cost)
           IN  m \in some /\ \A n \in some : ~Cheaper(cost, n, m)
<1> DEFINE I == {i \in DOMAIN list : list[i] \in some /\ \A n \in some : ~Cheaper(cost, n, list[i])}
<1>0. /\ \A m, n \in some : <<m, n>> \in CheaperPairs(some, cost) <=> Cheaper(cost, m, n)
      /\ Orders(CheaperPairs(some, cost), some)
  BY KeysOrder
<1>1. PICK m \in some : \A n \in some : ~Cheaper(cost, n, m)
  <2>1. \E m \in some : \A n \in some : <<n, m>> \notin CheaperPairs(some, cost)
    BY <1>0, LeastMember
  <2> QED
    BY <1>0, <2>1
<1>2. PICK i \in DOMAIN list : list[i] = m
  BY DEF ToSet
<1>3. I \subseteq 1 .. Len(list) /\ Len(list) \in Nat /\ i \in I
  BY <1>1, <1>2, LenProperties
<1>4. Min(I) \in I
  BY <1>3, MinPlace
<1>5. CheapestOf(list, some, cost) = list[Min(I)]
  BY DEF CheapestOf, First
<1> QED
  BY <1>4, <1>5

\* min(candidates, key = (-acceptability, cost, id)): one of them, and none is
\* better.
LEMMA BestFirst ==
    ASSUME NEW Models, NEW list \in Seq(Models), NEW some, some \subseteq ToSet(list),
           some # {}, IsFiniteSet(some), NEW cost, NEW acc, Priced(some, cost), Priced(some, acc)
    PROVE  LET m == BestOf(list, some, acc, cost)
           IN  m \in some /\ \A n \in some : ~Better(acc, cost, n, m)
<1> DEFINE I == {i \in DOMAIN list :
                   list[i] \in some /\ \A n \in some : ~Better(acc, cost, n, list[i])}
<1>0. /\ \A m, n \in some :
            <<m, n>> \in BetterPairs(some, acc, cost) <=> Better(acc, cost, m, n)
      /\ Orders(BetterPairs(some, acc, cost), some)
  BY KeysOrder
<1>1. PICK m \in some : \A n \in some : ~Better(acc, cost, n, m)
  <2>1. \E m \in some : \A n \in some : <<n, m>> \notin BetterPairs(some, acc, cost)
    BY <1>0, LeastMember
  <2> QED
    BY <1>0, <2>1
<1>2. PICK i \in DOMAIN list : list[i] = m
  BY DEF ToSet
<1>3. I \subseteq 1 .. Len(list) /\ Len(list) \in Nat /\ i \in I
  BY <1>1, <1>2, LenProperties
<1>4. Min(I) \in I
  BY <1>3, MinPlace
<1>5. BestOf(list, some, acc, cost) = list[Min(I)]
  BY DEF BestOf, First
<1> QED
  BY <1>4, <1>5

\* The members of a list are finitely many.
LEMMA ListIsFinite ==
    ASSUME NEW Models, NEW list \in Seq(Models)
    PROVE  IsFiniteSet(ToSet(list)) /\ ToSet(list) \subseteq Models
<1>1. Len(list) \in Nat /\ DOMAIN list = 1 .. Len(list) /\ list \in [1 .. Len(list) -> Models]
  BY LenProperties
<1>2. IsFiniteSet(1 .. Len(list))
  BY <1>1, FS_Interval
<1>3. list \in Surjection(1 .. Len(list), ToSet(list))
  BY <1>1 DEF Surjection, ToSet
<1>4. IsFiniteSet(ToSet(list))
  BY <1>2, <1>3, FS_Surjection
<1> QED
  BY <1>1, <1>4 DEF ToSet

\* A question the policy can answer.
Answerable(Models, list, acc, cost, threshold) ==
    /\ Models \subseteq Int /\ list \in Seq(Models) /\ list # <<>>
    /\ \A m \in Models : acc[m] \in Int /\ cost[m] \in Int
    /\ threshold \in Int

\* CostAwareRoutingPolicy.route: the cheapest candidate that meets the threshold
\* or, when none does, the most acceptable one.
LEMMA DecisionFacts ==
    ASSUME NEW Models, NEW list, NEW acc, NEW cost, NEW threshold,
           Answerable(Models, list, acc, cost, threshold)
    PROVE  LET d == Decision(list, acc, cost, threshold)
               met == {m \in ToSet(list) : acc[m] >= threshold}
           IN  /\ d.error = "none" /\ d.qualifies = met /\ d.fallback = (met = {})
               /\ d.selected \in ToSet(list)
               /\ met # {} => d.selected \in met /\ \A n \in met : ~Cheaper(cost, n, d.selected)
               /\ met = {} => \A n \in ToSet(list) : ~Better(acc, cost, n, d.selected)
<1> DEFINE d == Decision(list, acc, cost, threshold)
           met == {m \in ToSet(list) : acc[m] >= threshold}
           cheapest == CheapestOf(list, met, cost)
           best == BestOf(list, ToSet(list), acc, cost)
<1>1. IsFiniteSet(ToSet(list)) /\ ToSet(list) \subseteq Models /\ ToSet(list) # {}
  <2>0. list \in Seq(Models) /\ list # <<>>
    BY DEF Answerable
  <2>1. 1 \in DOMAIN list
    BY <2>0, EmptySeq, LenProperties
  <2>2. list[1] \in ToSet(list)
    BY <2>1 DEF ToSet
  <2>3. IsFiniteSet(ToSet(list)) /\ ToSet(list) \subseteq Models
    BY <2>0, ListIsFinite
  <2> QED
    BY <2>2, <2>3
<1>2. /\ d.error = "none" /\ d.qualifies = met /\ d.fallback = (met = {})
      /\ d.selected = IF met # {} THEN cheapest ELSE best
  BY DEF Decision, Qualifies, CheapestOf, BestOf
<1>3. met \subseteq ToSet(list) /\ IsFiniteSet(met)
  BY <1>1, FS_Subset
<1>4. Priced(ToSet(list), cost) /\ Priced(ToSet(list), acc) /\ Priced(met, cost)
  BY <1>1, <1>3 DEF Priced, Answerable
<1>5. met # {} => cheapest \in met /\ \A n \in met : ~Cheaper(cost, n, cheapest)
  BY <1>3, <1>4, CheapestFirst DEF Answerable
<1>6. best \in ToSet(list) /\ \A n \in ToSet(list) : ~Better(acc, cost, n, best)
  BY <1>1, <1>4, BestFirst DEF Answerable
<1> HIDE DEF d, met, cheapest, best
<1> QED
  BY <1>2, <1>3, <1>5, <1>6 DEF d, met

-----------------------------------------------------------------------------
\* sorted(others, key = (cost, id)): every one of them, from the cheapest up.
LEMMA SortedFacts ==
    ASSUME NEW S, IsFiniteSet(S), NEW cost, Priced(S, cost)
    PROVE  LET s == Sorted(S, cost)
           IN  /\ Cardinality(S) \in Nat
               /\ s \in Seq(S) /\ Len(s) = Cardinality(S)
               /\ \A i, j \in 1 .. Len(s) : i < j => Cheaper(cost, s[i], s[j])
               /\ \A m \in S : \E i \in 1 .. Len(s) : s[i] = m
<1> DEFINE N == Cardinality(S)
           s == Sorted(S, cost)
<1>1. N \in Nat
  BY FS_CardinalityType
<1>2. /\ \A m, n \in S : <<m, n>> \in CheaperPairs(S, cost) <=> Cheaper(cost, m, n)
      /\ Orders(CheaperPairs(S, cost), S)
  BY KeysOrder
<1>3. \E t \in [1 .. N -> S] : \A i, j \in DOMAIN t : i < j => Cheaper(cost, t[i], t[j])
  <2>1. PICK t \in [1 .. N -> S] :
                \A i, j \in 1 .. N : i < j => <<t[i], t[j]>> \in CheaperPairs(S, cost)
    BY <1>2, Enumeration
  <2>2. ASSUME NEW i \in DOMAIN t, NEW j \in DOMAIN t, i < j PROVE Cheaper(cost, t[i], t[j])
    BY <1>2, <2>1, <2>2
  <2> QED
    BY <2>1, <2>2
<1>4. s \in [1 .. N -> S] /\ \A i, j \in DOMAIN s : i < j => Cheaper(cost, s[i], s[j])
  BY <1>3 DEF Sorted
<1> HIDE DEF s, N
<1>5. s \in Seq(S) /\ Len(s) = N
  BY <1>1, <1>4
<1>6. s \in Injection(1 .. N, S)
  <2>1. ASSUME NEW i \in 1 .. N, NEW j \in 1 .. N, i < j PROVE s[i] # s[j]
    <3>1. Cheaper(cost, s[i], s[j]) /\ s[i] \in S /\ s[i] \in Int /\ cost[s[i]] \in Int
      BY <1>4, <2>1 DEF Priced
    <3> QED
      BY <3>1 DEF Cheaper
  <2>2. ASSUME NEW i \in 1 .. N, NEW j \in 1 .. N, s[i] = s[j] PROVE i = j
    <3>1. ~(i < j) /\ ~(j < i)
      BY <2>1, <2>2
    <3> QED
      BY <1>1, <3>1
  <2> QED
    BY <1>4, <2>2 DEF Injection, IsInjective
<1>7. s \in Surjection(1 .. N, S)
  <2>1. IsFiniteSet(1 .. N) /\ Cardinality(1 .. N) = N
    BY <1>1, FS_Interval
  <2> QED
    BY <1>6, <2>1, FS_Injection DEF N
<1>8. \A m \in S : \E i \in 1 .. N : s[i] = m
  BY <1>7 DEF Surjection
<1> QED
  BY <1>1, <1>4, <1>5, <1>8 DEF s, N

\* model_ids of _generate_validated: at most the maximum, the routed model
\* first, then qualifying ones only, each dearer than those before it, none
\* skipped, and with attempts to spare none left out; a fallback stands alone.
LEMMA OrderFacts ==
    ASSUME NEW Models, NEW list, NEW acc, NEW cost, NEW threshold, NEW max \in Nat \ {0},
           Answerable(Models, list, acc, cost, threshold)
    PROVE  LET d == Decision(list, acc, cost, threshold)
               o == AttemptOrder(d, cost, max)
           IN  /\ o \in Seq(ToSet(list)) /\ Len(o) \in 1 .. max /\ o[1] = d.selected
               /\ \A i \in 1 .. Len(o) : i > 1 => ~d.fallback
               /\ ~d.fallback => \A i \in 1 .. Len(o) : o[i] \in d.qualifies
               /\ \A i, j \in 1 .. Len(o) : i < j => Cheaper(cost, o[i], o[j])
               /\ ~d.fallback =>
                     \A i \in 1 .. Len(o) : \A m \in d.qualifies :
                        Cheaper(cost, m, o[i]) => \E j \in 1 .. Len(o) : j < i /\ o[j] = m
               /\ ~d.fallback /\ Len(o) < max =>
                     \A m \in d.qualifies : \E i \in 1 .. Len(o) : o[i] = m
<1> DEFINE d == Decision(list, acc, cost, threshold)
           o == AttemptOrder(d, cost, max)
           met == {m \in ToSet(list) : acc[m] >= threshold}
           rest == d.qualifies \ {d.selected}
           s == IF d.fallback THEN <<>> ELSE Sorted(rest, cost)
           all == <<d.selected>> \o s
           len == IF Len(all) < max THEN Len(all) ELSE max
<1>1. /\ d.qualifies = met /\ d.fallback = (met = {}) /\ d.selected \in ToSet(list)
      /\ met # {} => d.selected \in met /\ \A n \in met : ~Cheaper(cost, n, d.selected)
  BY DecisionFacts
<1>2. /\ \A m \in ToSet(list) : m \in Int /\ cost[m] \in Int
      /\ IsFiniteSet(ToSet(list))
  BY ListIsFinite DEF Answerable
<1>3. o = SubSeq(all, 1, len)
  BY DEF AttemptOrder
<1> HIDE DEF d, o
<1>4. met \subseteq ToSet(list) /\ rest \subseteq ToSet(list)
  BY <1>1
<1>5. IsFiniteSet(rest) /\ Priced(rest, cost)
  BY <1>2, <1>4, FS_Subset DEF Priced
<1> HIDE DEF met, rest
<1>6. /\ s \in Seq(ToSet(list)) /\ Len(s) \in Nat
      /\ \A i, j \in 1 .. Len(s) : i < j => Cheaper(cost, s[i], s[j])
      /\ \A i \in 1 .. Len(s) : ~d.fallback /\ s[i] \in rest
      /\ ~d.fallback => \A m \in rest : \E i \in 1 .. Len(s) : s[i] = m
  <2>1. CASE d.fallback
    BY <2>1
  <2>2. CASE ~d.fallback
    <3>1. /\ Cardinality(rest) \in Nat
          /\ Sorted(rest, cost) \in Seq(rest) /\ Len(Sorted(rest, cost)) = Cardinality(rest)
          /\ \A i, j \in 1 .. Len(s) : i < j => Cheaper(cost, s[i], s[j])
          /\ \A m \in rest : \E i \in 1 .. Len(s) : s[i] = m
      BY <1>5, <2>2, SortedFacts
    <3> QED
      BY <1>4, <2>2, <3>1
  <2> QED
    BY <2>1, <2>2
<1> HIDE DEF s
<1>7. /\ all \in Seq(ToSet(list)) /\ Len(all) = Len(s) + 1 /\ all[1] = d.selected
      /\ \A i \in 2 .. Len(all) : all[i] = s[i - 1] /\ i - 1 \in 1 .. Len(s)
  <2>1. <<d.selected>> \in Seq(ToSet(list)) /\ Len(<<d.selected>>) = 1
    BY <1>1
  <2> QED
    BY <1>6, <2>1
<1> HIDE DEF all
<1>8. /\ len \in 1 .. Len(all) /\ len \in 1 .. max
      /\ o \in Seq(ToSet(list)) /\ Len(o) = len
      /\ \A i \in 1 .. len : o[i] = all[i]
      /\ len < max => len = Len(all)
  BY <1>3, <1>6, <1>7
<1> HIDE DEF len
<1>9. ASSUME NEW i \in 1 .. Len(o), i > 1
      PROVE  ~d.fallback /\ o[i] \in rest /\ o[i] = s[i - 1] /\ i - 1 \in 1 .. Len(s)
  <2>1. i \in 2 .. Len(all) /\ o[i] = all[i]
    BY <1>6, <1>7, <1>8, <1>9
  <2> QED
    BY <1>6, <1>7, <2>1
<1>10. o[1] = d.selected
  BY <1>6, <1>7, <1>8
<1>11. ~d.fallback => d.selected \in met
  BY <1>1
<1>12. ASSUME ~d.fallback, NEW i \in 1 .. Len(o) PROVE o[i] \in d.qualifies
  <2>1. CASE i = 1
    BY <1>1, <1>10, <1>11, <1>12, <2>1
  <2>2. CASE i > 1
    BY <1>9, <2>2 DEF rest
  <2> QED
    BY <2>1, <2>2, <1>8
<1>13. ASSUME NEW i \in 1 .. Len(o), NEW j \in 1 .. Len(o), i < j
       PROVE  Cheaper(cost, o[i], o[j])
  <2>0. j > 1
    BY <1>8, <1>13
  <2>1. CASE i > 1
    <3>1. o[i] = s[i - 1] /\ i - 1 \in 1 .. Len(s) /\ o[j] = s[j - 1] /\ j - 1 \in 1 .. Len(s)
      BY <1>9, <2>0, <2>1
    <3>2. i - 1 < j - 1
      BY <1>8, <1>13
    <3> QED
      BY <1>6, <3>1, <3>2
  <2>2. CASE i = 1
    <3>1. o[j] \in met /\ o[j] # d.selected /\ met # {}
      BY <1>1, <1>9, <2>0 DEF rest
    <3>2. ~Cheaper(cost, o[j], d.selected)
      BY <1>1, <3>1
    <3>3. o[j] \in Int /\ cost[o[j]] \in Int /\ d.selected \in Int /\ cost[d.selected] \in Int
      BY <1>1, <1>2, <1>4, <3>1
    <3> QED
      BY <1>10, <2>2, <3>1, <3>2, <3>3 DEF Cheaper
  <2> QED
    BY <1>8, <2>1, <2>2
<1>14. ASSUME ~d.fallback, NEW i \in 1 .. Len(o), NEW m \in d.qualifies, Cheaper(cost, m, o[i])
       PROVE  \E j \in 1 .. Len(o) : j < i /\ o[j] = m
  <2>0. met # {} /\ m \in met
    BY <1>1, <1>14
  <2>1. i > 1
    <3>1. i # 1
      BY <1>1, <1>10, <1>14, <2>0
    <3> QED
      BY <1>8, <3>1
  <2>2. CASE m = d.selected
    BY <1>8, <1>10, <2>1, <2>2
  <2>3. CASE m # d.selected
    <3>1. m \in rest
      BY <2>3 DEF rest
    <3>2. PICK k \in 1 .. Len(s) : s[k] = m
      BY <1>6, <1>14, <3>1
    <3>3. o[i] = s[i - 1] /\ i - 1 \in 1 .. Len(s)
      BY <1>9, <2>1
    <3>4. m \in Int /\ cost[m] \in Int /\ o[i] \in Int /\ cost[o[i]] \in Int
      BY <1>1, <1>2, <1>4, <1>9, <2>0, <2>1 DEF rest
    <3>5. k < i - 1
      <4>1. k = i - 1 => FALSE
        BY <1>14, <3>2, <3>3, <3>4 DEF Cheaper
      <4>2. i - 1 < k => FALSE
        <5>1. i - 1 < k => Cheaper(cost, o[i], m)
          BY <1>6, <3>2, <3>3
        <5> QED
          BY <1>14, <3>4, <5>1 DEF Cheaper
      <4> QED
        BY <1>6, <3>3, <4>1, <4>2
    <3>6. k + 1 \in 1 .. Len(o) /\ k + 1 < i /\ k + 1 > 1
      BY <1>6, <1>8, <3>5
    <3>7. o[k + 1] = s[k]
      <4>1. o[k + 1] = s[(k + 1) - 1]
        BY <1>9, <3>6
      <4> QED
        BY <1>6, <4>1
    <3> QED
      BY <3>2, <3>6, <3>7
  <2> QED
    BY <2>2, <2>3
<1>15. ASSUME ~d.fallback, Len(o) < max, NEW m \in d.qualifies
       PROVE  \E i \in 1 .. Len(o) : o[i] = m
  <2>1. Len(o) = Len(s) + 1
    BY <1>7, <1>8, <1>15
  <2>2. CASE m = d.selected
    BY <1>6, <1>10, <2>1, <2>2
  <2>3. CASE m # d.selected
    <3>1. PICK k \in 1 .. Len(s) : s[k] = m
      BY <1>6, <1>15, <2>3 DEF rest
    <3>2. k + 1 \in 1 .. Len(o) /\ k + 1 > 1 /\ (k + 1) - 1 = k
      BY <1>6, <2>1
    <3>3. o[k + 1] = m
      BY <1>9, <3>1, <3>2
    <3> QED
      BY <3>2, <3>3
  <2> QED
    BY <2>2, <2>3
<1> QED
  BY <1>8, <1>9, <1>10, <1>12, <1>13, <1>14, <1>15 DEF d, o

-----------------------------------------------------------------------------
(* Sums are counted unit by unit.                                          *)

\* The units of the members of ts, w[t] of t.
Units(ts, w) == UNION {{t} \X (1 .. w[t]) : t \in ts}

\* A unit is a member and a number up to its amount.
LEMMA UnitsMembers ==
    ASSUME NEW ts, NEW w
    PROVE  \A x : x \in Units(ts, w) <=> \E t \in ts : \E i \in 1 .. w[t] : x = <<t, i>>
<1>1. ASSUME NEW x, NEW t \in ts, NEW i \in 1 .. w[t], x = <<t, i>>
      PROVE  x \in Units(ts, w)
  <2>1. x \in {t} \X (1 .. w[t])
    BY <1>1
  <2> QED
    BY <2>1 DEF Units
<1>2. ASSUME NEW x \in Units(ts, w)
      PROVE  \E t \in ts : \E i \in 1 .. w[t] : x = <<t, i>>
  <2>1. PICK t \in ts : x \in {t} \X (1 .. w[t])
    BY DEF Units
  <2>2. x = <<t, x[2]>> /\ x[2] \in 1 .. w[t]
    BY <2>1
  <2> QED
    BY <2>2
<1> QED
  BY <1>1, <1>2

\* Finitely many members with amounts have finitely many units.
LEMMA UnitsAreFinite ==
    ASSUME NEW ts, IsFiniteSet(ts), NEW w, \A t \in ts : w[t] \in Nat
    PROVE  IsFiniteSet(Units(ts, w)) /\ Cardinality(Units(ts, w)) \in Nat
<1> DEFINE of == [t \in ts |-> {t} \X (1 .. w[t])]
           all == {{t} \X (1 .. w[t]) : t \in ts}
<1>1. of \in Surjection(ts, all)
  BY DEF Surjection
<1>2. IsFiniteSet(all)
  BY <1>1, FS_Surjection
<1>3. ASSUME NEW S \in all PROVE IsFiniteSet(S)
  <2>1. PICK t \in ts : S = {t} \X (1 .. w[t])
    OBVIOUS
  <2>2. IsFiniteSet({t})
    BY FS_Singleton
  <2>3. 1 \in Int /\ w[t] \in Int
    OBVIOUS
  <2>4. IsFiniteSet(1 .. w[t])
    BY <2>3, FS_Interval
  <2> QED
    BY <2>1, <2>2, <2>4, FS_Product
<1>4. IsFiniteSet(UNION all)
  BY <1>2, <1>3, FS_UNION
<1> QED
  BY <1>4, FS_CardinalityType DEF Units

\* More members with larger amounts have more units.
LEMMA UnitsGrow ==
    ASSUME NEW ts, NEW us, ts \subseteq us, IsFiniteSet(us), NEW v, NEW w,
           \A t \in us : w[t] \in Nat, \A t \in ts : v[t] \in Nat /\ v[t] <= w[t]
    PROVE  Cardinality(Units(ts, v)) <= Cardinality(Units(us, w))
<1>1. \A t \in ts : \A i \in 1 .. v[t] : i \in 1 .. w[t]
  OBVIOUS
<1>2. Units(ts, v) \subseteq Units(us, w)
  BY <1>1, UnitsMembers
<1>3. IsFiniteSet(Units(us, w))
  BY UnitsAreFinite
<1> QED
  BY <1>2, <1>3, FS_Subset

\* The units of two sets that share no member add up.
LEMMA UnitsAdd ==
    ASSUME NEW ts, NEW us, IsFiniteSet(ts), IsFiniteSet(us), ts \cap us = {}, NEW w,
           \A t \in ts \cup us : w[t] \in Nat
    PROVE  Cardinality(Units(ts \cup us, w)) = Cardinality(Units(ts, w)) + Cardinality(Units(us, w))
<1>1. /\ IsFiniteSet(Units(ts, w)) /\ Cardinality(Units(ts, w)) \in Nat
      /\ IsFiniteSet(Units(us, w)) /\ Cardinality(Units(us, w)) \in Nat
  BY UnitsAreFinite
<1>2. Units(ts \cup us, w) = Units(ts, w) \cup Units(us, w)
  BY DEF Units
<1>3. Units(ts, w) \cap Units(us, w) = {}
  <2>1. ASSUME NEW x, x \in Units(ts, w), x \in Units(us, w) PROVE FALSE
    <3>1. PICK t \in ts : \E i \in 1 .. w[t] : x = <<t, i>>
      BY <2>1, UnitsMembers
    <3>2. PICK u \in us : \E i \in 1 .. w[u] : x = <<u, i>>
      BY <2>1, UnitsMembers
    <3>3. t = u
      BY <3>1, <3>2
    <3> QED
      BY <3>3
  <2> QED
    BY <2>1
<1>4. Cardinality(Units(ts, w) \cup Units(us, w)) =
        Cardinality(Units(ts, w)) + Cardinality(Units(us, w))
         - Cardinality(Units(ts, w) \cap Units(us, w))
  BY <1>1, FS_Union
<1>5. Cardinality(Units(ts, w) \cap Units(us, w)) = 0
  BY <1>3, FS_EmptySet
<1>6. \A a, b \in Nat : a + b - 0 = a + b
  OBVIOUS
<1> QED
  BY <1>1, <1>2, <1>4, <1>5, <1>6, Zenon

\* A nonempty set of natural numbers has a least one.
LEMMA LeastNumber ==
    ASSUME NEW T, T \subseteq Nat, T # {}
    PROVE  \E x \in T : \A y \in T : x <= y
<1> DEFINE R == OpToRel(<, Nat)
<1>1. IsWellFoundedOn(R, Nat)
  BY NatLessThanWellFounded
<1>2. \A x, y \in Nat : y < x => <<y, x>> \in R
  BY DEF OpToRel
<1> HIDE DEF R
<1>3. PICK x \in T : \A y \in T : <<y, x>> \notin R
  BY <1>1, WFMin
<1>4. \A y \in T : ~(y < x)
  BY <1>2, <1>3, Zenon
<1> QED
  BY <1>4

-----------------------------------------------------------------------------
(* Shelves of equal size.                                                  *)

\* Those of S that g puts on shelf f.
Shelf(S, g, f) == {t \in S : g[t] = f}

\* h counts from 1 on every shelf.
Numbered(S, F, g, h) ==
    /\ h \in [S -> Nat]
    /\ \A t \in S : h[t] \in 1 .. Cardinality(Shelf(S, g, g[t]))
    /\ \A t, u \in S : g[t] = g[u] /\ h[t] = h[u] => t = u
    /\ \A f \in F : \A k \in 1 .. Cardinality(Shelf(S, g, f)) :
          \E t \in S : g[t] = f /\ h[t] = k

\* What lies on the shelves can be numbered shelf by shelf.
LEMMA Numbering ==
    ASSUME NEW S, IsFiniteSet(S), NEW F, NEW g \in [S -> F]
    PROVE  \E h : Numbered(S, F, g, h)
<1> DEFINE size == [f \in F |-> Cardinality(Shelf(S, g, f))]
           num == [f \in F |-> CHOOSE b : b \in Bijection(Shelf(S, g, f), 1 .. size[f])]
           h == [t \in S |-> num[g[t]][t]]
<1>1. ASSUME NEW f \in F
      PROVE  size[f] \in Nat /\ num[f] \in Bijection(Shelf(S, g, f), 1 .. size[f])
  <2>1. IsFiniteSet(Shelf(S, g, f))
    <3>1. Shelf(S, g, f) \in SUBSET S
      BY DEF Shelf
    <3> QED
      BY <3>1, FS_Subset
  <2>2. size[f] \in Nat /\ ExistsBijection(1 .. size[f], Shelf(S, g, f))
    BY <2>1, FS_CardinalityType
  <2>3. ExistsBijection(Shelf(S, g, f), 1 .. size[f])
    BY <2>2, Fun_ExistsBijSymmetric
  <2>4. \E b : b \in Bijection(Shelf(S, g, f), 1 .. size[f])
    BY <2>3 DEF ExistsBijection
  <2> QED
    BY <2>2, <2>4
<1> HIDE DEF num
<1>2. ASSUME NEW f \in F
      PROVE  /\ num[f] \in [Shelf(S, g, f) -> 1 .. size[f]]
             /\ \A t, u \in Shelf(S, g, f) : num[f][t] = num[f][u] => t = u
             /\ \A k \in 1 .. size[f] : \E t \in Shelf(S, g, f) : num[f][t] = k
  BY <1>1, Zenon DEF Bijection, Injection, IsInjective, Surjection
<1>3. ASSUME NEW t \in S PROVE g[t] \in F /\ t \in Shelf(S, g, g[t]) /\ h[t] = num[g[t]][t]
  BY DEF Shelf
<1>4. ASSUME NEW t \in S PROVE h[t] \in 1 .. size[g[t]]
  BY <1>2, <1>3
<1>5. h = [t \in S |-> h[t]] /\ \A f \in F : size[f] = Cardinality(Shelf(S, g, f))
  OBVIOUS
<1> HIDE DEF h, size
<1>6. h \in [S -> Nat]
  <2>1. ASSUME NEW t \in S PROVE h[t] \in Nat
    <3>1. size[g[t]] \in Nat /\ h[t] \in 1 .. size[g[t]]
      BY <1>1, <1>3, <1>4
    <3> QED
      BY <3>1
  <2> QED
    BY <1>5, <2>1
<1>7. ASSUME NEW t \in S PROVE h[t] \in 1 .. Cardinality(Shelf(S, g, g[t]))
  BY <1>3, <1>4, <1>5
<1>8. ASSUME NEW t \in S, NEW u \in S, g[t] = g[u], h[t] = h[u] PROVE t = u
  <2>1. num[g[t]][t] = num[g[t]][u] /\ t \in Shelf(S, g, g[t]) /\ u \in Shelf(S, g, g[t])
    BY <1>3, <1>8
  <2> QED
    BY <1>2, <1>3, <2>1
<1>9. ASSUME NEW f \in F, NEW k \in 1 .. Cardinality(Shelf(S, g, f))
      PROVE  \E t \in S : g[t] = f /\ h[t] = k
  <2>1. PICK t \in Shelf(S, g, f) : num[f][t] = k
    BY <1>2, <1>5
  <2>2. t \in S /\ g[t] = f
    BY DEF Shelf
  <2> QED
    BY <1>3, <2>1, <2>2
<1> QED
  BY <1>6, <1>7, <1>8, <1>9 DEF Numbered

\* N shelves that hold at most P each and N * P together are full.
LEMMA FullShelves ==
    ASSUME NEW N \in Nat, NEW P \in Nat \ {0}, NEW S, IsFiniteSet(S), Cardinality(S) = P * N,
           NEW g \in [S -> 1 .. N], \A f \in 1 .. N : Cardinality(Shelf(S, g, f)) <= P
    PROVE  \A f \in 1 .. N : Cardinality(Shelf(S, g, f)) = P
<1>0. PICK h : Numbered(S, 1 .. N, g, h)
  BY Numbering
<1>1. /\ \A t \in S : h[t] \in 1 .. Cardinality(Shelf(S, g, g[t]))
      /\ \A t, u \in S : g[t] = g[u] /\ h[t] = h[u] => t = u
  BY <1>0 DEF Numbered
<1> DEFINE places == (1 .. P) \X (1 .. N)
           at == [t \in S |-> <<h[t], g[t]>>]
<1>2. IsFiniteSet(places) /\ Cardinality(places) = P * N
  <2>1. IsFiniteSet(1 .. P) /\ Cardinality(1 .. P) = P
    BY FS_Interval
  <2>2. IsFiniteSet(1 .. N) /\ Cardinality(1 .. N) = N
    BY FS_Interval
  <2>3. /\ IsFiniteSet(places)
        /\ Cardinality(places) = Cardinality(1 .. P) * Cardinality(1 .. N)
    BY <2>1, <2>2, FS_Product
  <2> QED
    BY <2>1, <2>2, <2>3, Zenon
<1>3. \A f \in 1 .. N : Cardinality(Shelf(S, g, f)) \in Nat
  <2>1. \A f \in 1 .. N : Shelf(S, g, f) \in SUBSET S
    BY DEF Shelf
  <2> QED
    BY <2>1, FS_Subset, FS_CardinalityType
<1>4. \A t \in S : h[t] \in 1 .. P /\ g[t] \in 1 .. N
  BY <1>1, <1>3
<1>5. at \in Injection(S, places)
  <2>1. at \in [S -> places]
    BY <1>4
  <2>2. ASSUME NEW t \in S, NEW u \in S, at[t] = at[u] PROVE t = u
    <3>1. <<h[t], g[t]>> = <<h[u], g[u]>>
      BY <2>2
    <3> QED
      BY <1>1, <3>1
  <2> QED
    BY <2>1, <2>2, Zenon DEF Injection, IsInjective
<1>6. at \in Surjection(S, places)
  BY <1>2, <1>5, FS_Injection
<1>7. ASSUME NEW f \in 1 .. N PROVE Cardinality(Shelf(S, g, f)) = P
  <2>1. <<P, f>> \in places
    OBVIOUS
  <2>2. PICK t \in S : at[t] = <<P, f>>
    BY <1>6, <2>1, Zenon DEF Surjection
  <2>3. h[t] = P /\ g[t] = f
    BY <2>2
  <2>4. P \in 1 .. Cardinality(Shelf(S, g, f))
    BY <1>1, <2>3
  <2> QED
    BY <1>3, <2>4
<1> QED
  BY <1>7

\* N shelves hold P each, of those of S that g puts on one.
Filled(N, P, S, T, g) ==
    /\ T \subseteq S /\ g \in [T -> 1 .. N]
    /\ \A f \in 1 .. N : Cardinality(Shelf(T, g, f)) = P

\* Once N shelves hold P each, they hold all of N * P.
LEMMA NothingLeft ==
    ASSUME NEW N \in Nat, NEW P \in Nat \ {0}, NEW S, IsFiniteSet(S), Cardinality(S) = P * N,
           NEW T, NEW g, Filled(N, P, S, T, g)
    PROVE  T = S
<1> USE DEF Filled
<1>1. IsFiniteSet(T) /\ Cardinality(T) <= Cardinality(S) /\ Cardinality(T) \in Nat
      /\ (Cardinality(S) = Cardinality(T) => S = T)
  BY FS_Subset, FS_CardinalityType
<1>0. PICK h : Numbered(T, 1 .. N, g, h)
  BY <1>1, Numbering
<1>2. /\ \A t \in T : h[t] \in 1 .. Cardinality(Shelf(T, g, g[t]))
      /\ \A f \in 1 .. N : \A k \in 1 .. Cardinality(Shelf(T, g, f)) :
            \E t \in T : g[t] = f /\ h[t] = k
  BY <1>0 DEF Numbered
<1> DEFINE places == (1 .. P) \X (1 .. N)
           at == [t \in T |-> <<h[t], g[t]>>]
<1>3. Cardinality(places) = P * N
  <2>1. IsFiniteSet(1 .. P) /\ Cardinality(1 .. P) = P
    BY FS_Interval
  <2>2. IsFiniteSet(1 .. N) /\ Cardinality(1 .. N) = N
    BY FS_Interval
  <2>3. /\ IsFiniteSet(places)
        /\ Cardinality(places) = Cardinality(1 .. P) * Cardinality(1 .. N)
    BY <2>1, <2>2, FS_Product
  <2> QED
    BY <2>1, <2>2, <2>3, Zenon
<1>4. at \in [T -> places]
  <2>1. \A t \in T : h[t] \in 1 .. P /\ g[t] \in 1 .. N
    BY <1>2
  <2> QED
    BY <2>1
<1>5. ASSUME NEW x \in places PROVE \E t \in T : at[t] = x
  <2>1. x[1] \in 1 .. P /\ x[2] \in 1 .. N /\ x = <<x[1], x[2]>>
    OBVIOUS
  <2>2. PICK t \in T : g[t] = x[2] /\ h[t] = x[1]
    BY <1>2, <2>1
  <2> QED
    BY <2>1, <2>2
<1>6. at \in Surjection(T, places)
  BY <1>4, <1>5, Zenon DEF Surjection
<1>7. Cardinality(places) <= Cardinality(T)
  BY <1>1, <1>6, FS_Surjection
<1>8. P * N \in Nat
  OBVIOUS
<1> QED
  BY <1>1, <1>3, <1>7, <1>8
=============================================================================

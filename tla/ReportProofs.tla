---------------------------- MODULE ReportProofs ----------------------------
(***************************************************************************)
(* Proofs about Report, for any pulses, categories, limits and caps.  A    *)
(* sort is defined by what it guarantees, so the first part shows, by      *)
(* induction on the size of the set, that such an enumeration exists; the  *)
(* properties then follow from the order it has and from counting sets.    *)
(***************************************************************************)
EXTENDS Report, SequenceTheorems, FiniteSetTheorems, WellFoundedInduction, NaturalsInduction, TLAPS

----------------------------------------------------------------------------
\* Sorting.

\* R puts any two members of S in an order, and a chain of them too.
Orders(R, S) ==
    /\ \A x \in S : <<x, x>> \notin R
    /\ \A x, y \in S : x # y => <<x, y>> \in R \/ <<y, x>> \in R
    /\ \A x, y, z \in S : <<x, y>> \in R /\ <<y, z>> \in R => <<x, z>> \in R

Enumerates(f, S, R) ==
    /\ f \in [1..Cardinality(S) -> S]
    /\ \A i, j \in 1..Cardinality(S) : i < j => <<f[i], f[j]>> \in R

\* Induction over the numbers of a set: a number that is not in it would have a
\* least one among its like.
LEMMA NatSetInduction ==
    ASSUME NEW P \in SUBSET Nat, 0 \in P, \A m \in P : m + 1 \in P
    PROVE  P = Nat
<1> SUFFICES ASSUME Nat \ P # {} PROVE FALSE
  OBVIOUS
<1>1. PICK m \in Nat \ P : \A k \in Nat \ P : <<k, m>> \notin OpToRel(<, Nat)
  BY WFMin, NatLessThanWellFounded, Zenon
<1>2. \A k \in Nat \ P : ~(k < m)
  BY <1>1, Zenon DEF OpToRel
<1>3. m # 0 /\ m - 1 \in P
  BY <1>2
<1> QED BY <1>3

\* A set with one member more is another one and that member.
LEMMA OneLess ==
    ASSUME NEW T, IsFiniteSet(T), NEW k \in Nat, Cardinality(T) = k + 1, NEW x \in T
    PROVE  IsFiniteSet(T \ {x}) /\ Cardinality(T \ {x}) = k
BY FS_RemoveElement

LEMMA LastExists ==
    ASSUME NEW S, NEW R, Orders(R, S), IsFiniteSet(S), S # {}
    PROVE  \E last \in S : \A x \in S \ {last} : <<x, last>> \in R
<1> DEFINE HasLast(T) == \E last \in T : \A x \in T \ {last} : <<x, last>> \in R
           P == {m \in Nat : \A T \in SUBSET S :
                    IsFiniteSet(T) /\ Cardinality(T) = m + 1 => HasLast(T)}
<1>1. 0 \in P
  <2> SUFFICES ASSUME NEW T \in SUBSET S, IsFiniteSet(T), Cardinality(T) = 1 PROVE HasLast(T)
    OBVIOUS
  <2>1. PICK x : T = {x}
    BY FS_Singleton
  <2> QED BY <2>1
<1>2. ASSUME NEW m \in P PROVE m + 1 \in P
  <2> SUFFICES ASSUME NEW T \in SUBSET S, IsFiniteSet(T), Cardinality(T) = (m + 1) + 1
               PROVE  HasLast(T)
    OBVIOUS
  <2>1. PICK x \in T : TRUE
    BY FS_EmptySet
  <2>2. IsFiniteSet(T \ {x}) /\ Cardinality(T \ {x}) = m + 1
    BY OneLess
  <2>3. PICK last \in T \ {x} : \A y \in (T \ {x}) \ {last} : <<y, last>> \in R
    BY <2>2
  <2>4. CASE <<x, last>> \in R
    BY <2>3, <2>4
  <2>5. CASE <<last, x>> \in R
    <3>1. \A y \in T \ {x} : <<y, x>> \in R
      BY <2>3, <2>5 DEF Orders
    <3> QED BY <3>1
  <2> QED BY <2>4, <2>5 DEF Orders
<1>3. P = Nat
  <2> HIDE DEF P
  <2>1. P \in SUBSET Nat
    BY DEF P
  <2> QED BY <1>1, <1>2, <2>1, NatSetInduction
<1>4. Cardinality(S) \in Nat /\ Cardinality(S) # 0
  BY FS_CardinalityType, FS_EmptySet
<1>5. Cardinality(S) - 1 \in P /\ Cardinality(S) = (Cardinality(S) - 1) + 1
  BY <1>3, <1>4
<1> QED BY <1>5

LEMMA EnumerationExists ==
    ASSUME NEW S, NEW R, Orders(R, S), IsFiniteSet(S)
    PROVE  \E f : Enumerates(f, S, R)
<1> DEFINE P == {m \in Nat : \A T \in SUBSET S :
                    IsFiniteSet(T) /\ Cardinality(T) = m => \E f : Enumerates(f, T, R)}
<1>1. 0 \in P
  <2> SUFFICES ASSUME NEW T \in SUBSET S, IsFiniteSet(T), Cardinality(T) = 0
               PROVE  \E f : Enumerates(f, T, R)
    OBVIOUS
  <2>1. Enumerates([i \in 1..0 |-> i], T, R)
    BY DEF Enumerates
  <2> QED BY <2>1
<1>2. ASSUME NEW m \in P PROVE m + 1 \in P
  <2> SUFFICES ASSUME NEW T \in SUBSET S, IsFiniteSet(T), Cardinality(T) = m + 1
               PROVE  \E f : Enumerates(f, T, R)
    OBVIOUS
  <2>1. T # {} /\ Orders(R, T)
    BY FS_EmptySet DEF Orders
  <2>2. PICK last \in T : \A x \in T \ {last} : <<x, last>> \in R
    BY <2>1, LastExists
  <2>3. IsFiniteSet(T \ {last}) /\ Cardinality(T \ {last}) = m
    BY OneLess
  <2>4. PICK f : Enumerates(f, T \ {last}, R)
    BY <2>3
  <2> DEFINE g == [i \in 1..(m + 1) |-> IF i = m + 1 THEN last ELSE f[i]]
  <2>5. \A i \in 1..m : f[i] \in T \ {last}
    BY <2>3, <2>4 DEF Enumerates
  <2>6. g \in [1..(m + 1) -> T]
    BY <2>5
  <2>7. ASSUME NEW i \in 1..(m + 1), NEW j \in 1..(m + 1), i < j PROVE <<g[i], g[j]>> \in R
    <3>1. g[i] = f[i] /\ i \in 1..m
      BY <2>7
    <3>2. CASE j = m + 1
      BY <2>2, <2>5, <3>1, <3>2
    <3>3. CASE j # m + 1
      <4>1. g[j] = f[j] /\ j \in 1..m
        BY <3>3
      <4>2. <<f[i], f[j]>> \in R
        BY <2>3, <2>4, <2>7, <3>1, <4>1 DEF Enumerates
      <4> QED BY <3>1, <4>1, <4>2
    <3> QED BY <3>2, <3>3
  <2>8. Enumerates(g, T, R)
    BY <2>6, <2>7 DEF Enumerates
  <2> QED BY <2>8
<1>3. P = Nat
  <2> HIDE DEF P
  <2>1. P \in SUBSET Nat
    BY DEF P
  <2> QED BY <1>1, <1>2, <2>1, NatSetInduction
<1>4. Cardinality(S) \in P
  BY <1>3, FS_CardinalityType
<1> QED BY <1>4

\* A sorted list has every member once.
LEMMA EnumeratesEach ==
    ASSUME NEW S, NEW R, Orders(R, S), IsFiniteSet(S), NEW f, Enumerates(f, S, R)
    PROVE  /\ Cardinality(S) \in Nat
           /\ \A i, j \in 1..Cardinality(S) : f[i] = f[j] => i = j
           /\ \A x \in S : \E i \in 1..Cardinality(S) : f[i] = x
<1>1. Cardinality(S) \in Nat
  BY FS_CardinalityType
<1>2. ASSUME NEW i \in 1..Cardinality(S), NEW j \in 1..Cardinality(S), f[i] = f[j], i # j
      PROVE  FALSE
  <2>1. f[i] \in S
    BY DEF Enumerates
  <2>2. i < j \/ j < i
    BY <1>1, <1>2
  <2>3. <<f[i], f[i]>> \in R
    BY <1>2, <2>2 DEF Enumerates
  <2> QED BY <2>1, <2>3 DEF Orders
<1>3. f \in Surjection(1..Cardinality(S), S)
  <2>1. f \in Injection(1..Cardinality(S), S)
    BY <1>2 DEF Enumerates, Injection, IsInjective
  <2>2. Cardinality(1..Cardinality(S)) = Cardinality(S)
    BY <1>1, FS_Interval
  <2> QED BY <2>1, <2>2, FS_Injection
<1> QED BY <1>1, <1>2, <1>3 DEF Surjection

LEMMA EnumerationIs ==
    ASSUME NEW S, NEW R, Orders(R, S), IsFiniteSet(S)
    PROVE  Enumerates(Enumeration(S, R), S, R)
BY EnumerationExists DEF Enumerates, Enumeration

\* There is only one: two lists that agree up to a place agree there too, since each
\* would put its member of that place before the other's.
LEMMA EnumerationUnique ==
    ASSUME NEW S, NEW R, Orders(R, S), IsFiniteSet(S),
           NEW f, Enumerates(f, S, R), NEW g, Enumerates(g, S, R)
    PROVE  f = g
<1> DEFINE size == Cardinality(S)
           P == {m \in Nat : \A i \in 1..size : i <= m => f[i] = g[i]}
<1>1. /\ size \in Nat
      /\ \A i, j \in 1..size : f[i] = f[j] => i = j
      /\ \A i, j \in 1..size : g[i] = g[j] => i = j
      /\ \A x \in S : \E i \in 1..size : f[i] = x
      /\ \A x \in S : \E i \in 1..size : g[i] = x
  BY EnumeratesEach
<1>2. /\ f \in [1..size -> S] /\ g \in [1..size -> S]
      /\ \A i, j \in 1..size : i < j => <<f[i], f[j]>> \in R /\ <<g[i], g[j]>> \in R
  BY DEF Enumerates
<1> HIDE DEF size
<1>3. 0 \in P
  OBVIOUS
<1>4. ASSUME NEW m \in P PROVE m + 1 \in P
  <2> SUFFICES ASSUME m + 1 \in 1..size, f[m + 1] # g[m + 1] PROVE FALSE
    BY <1>1
  <2> DEFINE x == f[m + 1]
             y == g[m + 1]
  <2>1. x \in S /\ y \in S
    BY <1>2
  <2>2. PICK j \in 1..size : g[j] = x
    BY <1>1, <2>1
  <2>3. PICK k \in 1..size : f[k] = y
    BY <1>1, <2>1
  <2>4. j > m + 1
    BY <1>1, <2>2
  <2>5. k > m + 1
    BY <1>1, <2>3
  <2>6. <<y, x>> \in R /\ <<x, y>> \in R
    BY <1>2, <2>2, <2>3, <2>4, <2>5
  <2> HIDE DEF x, y
  <2>7. <<x, x>> \in R
    BY <2>1, <2>6 DEF Orders
  <2> QED BY <2>1, <2>7 DEF Orders
<1>5. P = Nat
  <2> HIDE DEF P
  <2>1. P \in SUBSET Nat
    BY DEF P
  <2> QED BY <1>3, <1>4, <2>1, NatSetInduction
<1>6. \A i \in 1..size : f[i] = g[i]
  <2>1. size \in P
    BY <1>1, <1>5
  <2> QED BY <2>1
<1>7. f = [i \in 1..size |-> f[i]] /\ g = [i \in 1..size |-> g[i]]
  BY <1>2
<1> QED BY <1>6, <1>7, Zenon

----------------------------------------------------------------------------
\* What fill's sort does.

\* t has what s has, in another order.
Rearranges(t, s) ==
    /\ DOMAIN t = DOMAIN s
    /\ \E order \in Bijection(DOMAIN s, DOMAIN s) : \A k \in DOMAIN s : t[k] = s[order[k]]

InOrder(s) == \A i, j \in 1..Len(s) : i < j => ~Before(s[j], s[i])

LEMMA AheadOrders ==
    ASSUME NEW s \in Seq(Pool)
    PROVE  Orders(Ahead(s), DOMAIN s)
<1>1. \A i \in DOMAIN s : i \in Nat /\ s[i].modified \in Nat /\ s[i].name \in Nat
  BY PoolAssumption
<1>2. \A i, j \in DOMAIN s :
         <<i, j>> \in Ahead(s) <=> \/ Before(s[i], s[j])
                                   \/ ~Before(s[j], s[i]) /\ i < j
  BY DEF Ahead
<1>3. ASSUME NEW i \in DOMAIN s, NEW j \in DOMAIN s
      PROVE  <<i, j>> \in Ahead(s) <=>
                \/ s[i].modified > s[j].modified
                \/ s[i].modified = s[j].modified /\ s[i].name < s[j].name
                \/ s[i].modified = s[j].modified /\ s[i].name = s[j].name /\ i < j
  <2>1. {s[i].modified, s[j].modified, s[i].name, s[j].name} \subseteq Nat
    BY <1>1
  <2> QED BY <1>2, <2>1 DEF Before
<1>4. \A i \in DOMAIN s : <<i, i>> \notin Ahead(s)
  BY <1>1, <1>3
<1>5. \A i, j \in DOMAIN s : i # j => <<i, j>> \in Ahead(s) \/ <<j, i>> \in Ahead(s)
  <2> SUFFICES ASSUME NEW i \in DOMAIN s, NEW j \in DOMAIN s, i # j
               PROVE  <<i, j>> \in Ahead(s) \/ <<j, i>> \in Ahead(s)
    OBVIOUS
  <2>1. {i, j, s[i].modified, s[j].modified, s[i].name, s[j].name} \subseteq Nat
    BY <1>1
  <2> QED BY <1>3, <2>1, SMTT(30)
<1>6. ASSUME NEW i \in DOMAIN s, NEW j \in DOMAIN s, NEW k \in DOMAIN s,
             <<i, j>> \in Ahead(s), <<j, k>> \in Ahead(s)
      PROVE  <<i, k>> \in Ahead(s)
  <2>1. /\ {i, j, k} \subseteq Nat
        /\ {s[i].modified, s[j].modified, s[k].modified} \subseteq Nat
        /\ {s[i].name, s[j].name, s[k].name} \subseteq Nat
    BY <1>1
  <2>2. \/ s[i].modified > s[j].modified
        \/ s[i].modified = s[j].modified /\ s[i].name < s[j].name
        \/ s[i].modified = s[j].modified /\ s[i].name = s[j].name /\ i < j
    BY <1>3, <1>6
  <2>3. \/ s[j].modified > s[k].modified
        \/ s[j].modified = s[k].modified /\ s[j].name < s[k].name
        \/ s[j].modified = s[k].modified /\ s[j].name = s[k].name /\ j < k
    BY <1>3, <1>6
  <2>4. \/ s[i].modified > s[k].modified
        \/ s[i].modified = s[k].modified /\ s[i].name < s[k].name
        \/ s[i].modified = s[k].modified /\ s[i].name = s[k].name /\ i < k
    BY <2>1, <2>2, <2>3, SMTT(30)
  <2> QED BY <1>3, <2>4
<1> QED BY <1>4, <1>5, <1>6 DEF Orders

LEMMA SortedIs ==
    ASSUME NEW s \in Seq(Pool)
    PROVE  /\ Sorted(s) \in Seq(Pool) /\ Len(Sorted(s)) = Len(s)
           /\ Rearranges(Sorted(s), s)
           /\ InOrder(Sorted(s))
<1> DEFINE order == Enumeration(DOMAIN s, Ahead(s))
           t == Sorted(s)
<1>1. DOMAIN s = 1..Len(s) /\ Len(s) \in Nat
  OBVIOUS
<1>2. IsFiniteSet(DOMAIN s) /\ Cardinality(DOMAIN s) = Len(s)
  BY <1>1, FS_Interval
<1>3. /\ Enumerates(order, DOMAIN s, Ahead(s))
      /\ \A i, j \in 1..Len(s) : order[i] = order[j] => i = j
      /\ \A x \in DOMAIN s : \E i \in 1..Len(s) : order[i] = x
  BY <1>2, AheadOrders, EnumerationIs, EnumeratesEach
<1>4. order \in [1..Len(s) -> 1..Len(s)]
  BY <1>1, <1>2, <1>3 DEF Enumerates
<1>5. \A i, j \in 1..Len(s) : i < j => <<order[i], order[j]>> \in Ahead(s)
  BY <1>2, <1>3 DEF Enumerates
<1>6. t = [k \in 1..Len(s) |-> s[order[k]]]
  BY <1>1, Zenon DEF Sorted
<1> HIDE DEF order, t
<1>7. t \in [1..Len(s) -> Pool]
  BY <1>1, <1>4, <1>6
<1>8. t \in Seq(Pool) /\ Len(t) = Len(s)
  BY <1>1, <1>7, SeqDef
<1>9. Rearranges(t, s)
  <2>1. order \in Bijection(DOMAIN s, DOMAIN s)
    BY <1>1, <1>3, <1>4 DEF Bijection, Injection, Surjection, IsInjective
  <2> QED BY <1>1, <1>6, <2>1 DEF Rearranges
<1>10. InOrder(t)
  <2> SUFFICES ASSUME NEW i \in 1..Len(s), NEW j \in 1..Len(s), i < j
               PROVE  ~Before(t[j], t[i])
    BY <1>8 DEF InOrder
  <2> DEFINE p == s[order[i]]
             q == s[order[j]]
  <2>1. order[i] \in DOMAIN s /\ order[j] \in DOMAIN s
    BY <1>1, <1>4
  <2>2. Before(p, q) \/ ~Before(q, p)
    BY <1>5, <2>1 DEF Ahead
  <2>3. {p.modified, q.modified, p.name, q.name} \subseteq Nat
    BY <2>1, PoolAssumption
  <2>4. ~Before(q, p)
    BY <2>2, <2>3 DEF Before
  <2> QED BY <1>6, <2>4
<1> QED BY <1>8, <1>9, <1>10 DEF t

----------------------------------------------------------------------------
\* The invariant: the pulses are sorted before they are counted or listed.
Inv ==
    /\ TypeOK
    /\ stage = "answered" => n = 0
    /\ stage # "answered" => InOrder(pulses)
    /\ VotesAreReports /\ ListedAreNewest /\ TrimIsHonest

LEMMA InitInv == Init => Inv
<1> SUFFICES ASSUME Init PROVE Inv
  OBVIOUS
<1>1. PICK m \in Nat : pulses \in [1..m -> Pool]
  BY NumbersAssumption DEF Init
<1>2. pulses \in Seq(Pool) /\ Len(pulses) = m
  BY <1>1, SeqDef
<1>3. held \in Nat
  BY NumbersAssumption DEF Init
<1>4. TypeOK
  <2>1. votes \in [Categories -> [Values -> Nat]] /\ window \in [first : Nat, last : Nat]
    BY DEF Init
  <2>2. payload \in [context : [Categories -> Seq(Values)], omitted : [Categories -> Nat],
                     refs : Nat, refsOmitted : Nat]
    BY EmptySeq DEF Init
  <2>3. n \in 0..Len(pulses) /\ shown \in 0..Len(pulses)
    BY <1>2 DEF Init
  <2> QED BY <1>2, <1>3, <2>1, <2>2, <2>3 DEF Init, TypeOK
<1>5. VotesAreReports
  <2>1. ASSUME NEW c \in Categories, NEW v \in Values
        PROVE  votes[c][v] = Cardinality({i \in 1..n : v \in Named(pulses[i], c)})
    <3>1. {i \in 1..n : v \in Named(pulses[i], c)} = {}
      BY DEF Init
    <3> QED BY <3>1, FS_EmptySet DEF Init
  <2>2. 1..n = {}
    BY DEF Init
  <2> QED BY <2>1, <2>2 DEF VotesAreReports
<1> QED BY <1>3, <1>4, <1>5 DEF Init, Inv, ListedAreNewest, TrimIsHonest

LEMMA SortKeeps ==
    ASSUME Inv, Sort
    PROVE  Inv'
<1>1. PICK s \in Seq(Pool) : s = pulses
  BY DEF Inv, TypeOK
<1>2. pulses' = Sorted(s) /\ Sorted(s) \in Seq(Pool) /\ Len(Sorted(s)) = Len(s) /\ InOrder(Sorted(s))
  BY <1>1, SortedIs DEF Sort
<1>3. TypeOK'
  BY <1>1, <1>2 DEF Inv, TypeOK, Sort
<1>4. n = 0 /\ n' = 0
  BY DEF Inv, Sort
<1>5. VotesAreReports'
  <2>1. ASSUME NEW c \in Categories, NEW v \in Values
        PROVE  votes'[c][v] = Cardinality({i \in 1..n' : v \in Named(pulses'[i], c)})
    <3>1. /\ {i \in 1..n : v \in Named(pulses[i], c)} = {}
          /\ {i \in 1..n' : v \in Named(pulses'[i], c)} = {}
      BY <1>4
    <3>2. votes'[c][v] = votes[c][v]
      BY DEF Sort
    <3>3. votes[c][v] = Cardinality({i \in 1..n : v \in Named(pulses[i], c)})
      BY DEF Inv, VotesAreReports
    <3> QED BY <3>1, <3>2, <3>3
  <2>2. 1..n' = {}
    BY <1>4
  <2> QED BY <2>1, <2>2 DEF VotesAreReports, Named
<1> QED BY <1>2, <1>3, <1>4, <1>5 DEF Inv, Sort, ListedAreNewest, TrimIsHonest
\* One pulse more: its votes join those counted, and the window takes in its dates.
LEMMA CountKeeps ==
    ASSUME Inv, Count
    PROVE  Inv'
<1>1. PICK s \in Seq(Pool), k \in Nat : s = pulses /\ k = n
  BY DEF Inv, TypeOK
<1>2. /\ pulses' = s /\ n' = k + 1 /\ k + 1 \in 1..Len(s) /\ stage = "counting"
      /\ UNCHANGED <<held, refs, args, stage, shown, capped, payload>>
  BY <1>1 DEF Count, Inv, TypeOK
<1>3. PICK p \in Pool : p = s[k + 1] /\ {p.created, p.modified} \subseteq Nat
  BY <1>2, PoolAssumption
<1>4. \A c \in Categories, v \in Values :
         votes'[c][v] = votes[c][v] + IF v \in Named(p, c) THEN 1 ELSE 0
  BY <1>1, <1>3 DEF Count, VotesFrom
<1>5. /\ window'.first = IF p.created > 0 /\ (window.first = 0 \/ p.created < window.first)
                         THEN p.created ELSE window.first
      /\ window'.last = IF p.modified > window.last THEN p.modified ELSE window.last
      /\ window' \in [first : Nat, last : Nat]
  BY <1>1, <1>3 DEF Count, Inv, TypeOK
<1>6. votes' \in [Categories -> [Values -> Nat]]
  BY <1>1, <1>3 DEF Count, VotesFrom, Inv, TypeOK
<1>7. TypeOK'
  BY <1>1, <1>2, <1>5, <1>6 DEF Inv, TypeOK
<1>8. ASSUME NEW c \in Categories, NEW v \in Values
      PROVE  votes'[c][v] = Cardinality({i \in 1..(k + 1) : v \in Named(s[i], c)})
  <2> DEFINE D(m) == {i \in 1..m : v \in Named(s[i], c)}
  <2>1. votes[c][v] = Cardinality(D(k))
    BY <1>1 DEF Inv, VotesAreReports
  <2>2. IsFiniteSet(D(k)) /\ Cardinality(D(k)) \in Nat
    <3>1. IsFiniteSet(1..k)
      BY FS_Interval
    <3>2. D(k) \in SUBSET (1..k)
      OBVIOUS
    <3> QED BY <3>1, <3>2, FS_Subset, FS_CardinalityType
  <2>3. /\ k + 1 \notin D(k)
        /\ v \in Named(p, c) => D(k + 1) = D(k) \cup {k + 1}
        /\ v \notin Named(p, c) => D(k + 1) = D(k)
    BY <1>3
  <2> HIDE DEF D
  <2>4. Cardinality(D(k) \cup {k + 1}) = Cardinality(D(k)) + 1
    BY <2>2, <2>3, FS_AddElement
  <2>5. votes'[c][v] = votes[c][v] + IF v \in Named(p, c) THEN 1 ELSE 0
    BY <1>4
  <2>6. votes'[c][v] = Cardinality(D(k + 1))
    <3>1. CASE v \in Named(p, c)
      <4>1. Cardinality(D(k + 1)) = Cardinality(D(k)) + 1
        BY <2>3, <2>4, <3>1
      <4> QED BY <2>1, <2>5, <3>1, <4>1
    <3>2. CASE v \notin Named(p, c)
      <4>1. D(k + 1) = D(k)
        BY <2>3, <3>2
      <4> QED BY <2>1, <2>2, <2>5, <3>2, <4>1
    <3> QED BY <3>1, <3>2
  <2> QED BY <2>6 DEF D
<1>9. ASSUME NEW i \in 1..(k + 1)
      PROVE  /\ s[i].created > 0 => window'.first \in 1..s[i].created
             /\ s[i].modified <= window'.last
  <2>1. /\ window.first \in Nat /\ window.last \in Nat
        /\ s[i].created \in Nat /\ s[i].modified \in Nat
    BY <1>2, PoolAssumption DEF Inv, TypeOK
  <2>2. CASE i = k + 1
    BY <1>3, <1>5, <2>1, <2>2
  <2>3. CASE i # k + 1
    <3>1. /\ s[i].created > 0 => window.first \in 1..s[i].created
          /\ s[i].modified <= window.last
      BY <1>1, <2>3 DEF Inv, VotesAreReports
    <3> QED BY <1>3, <1>5, <2>1, <3>1
  <2> QED BY <2>2, <2>3
<1>10. VotesAreReports'
  BY <1>2, <1>8, <1>9 DEF VotesAreReports, Named
<1> QED BY <1>1, <1>2, <1>7, <1>10 DEF Inv, ListedAreNewest, TrimIsHonest

LEMMA CountedKeeps ==
    ASSUME Inv, Counted
    PROVE  Inv'
<1>1. UNCHANGED <<pulses, held, refs, args, n, votes, window, shown, capped, payload>>
  BY DEF Counted
<1>2. stage = "counting" /\ stage' = "counted"
  BY DEF Counted
<1>3. TypeOK'
  BY <1>1, <1>2 DEF Inv, TypeOK
<1>4. VotesAreReports'
  BY <1>1 DEF Inv, VotesAreReports, Named
<1> QED BY <1>1, <1>2, <1>3, <1>4 DEF Inv, ListedAreNewest, TrimIsHonest

\* The pulses are in order, so the first of them are the newest.
LEMMA ListKeeps ==
    ASSUME Inv, List
    PROVE  Inv'
<1> DEFINE limit == IF args.limit <= 0 THEN DefaultLimit ELSE args.limit
<1>1. UNCHANGED <<pulses, held, refs, args, n, votes, window, payload>>
  BY DEF List
<1>2. PICK s \in Seq(Pool), l \in Nat \ {0} : s = pulses /\ l = limit
  <2>1. args.limit \in Int /\ DefaultLimit \in Nat \ {0}
    BY NumbersAssumption DEF Inv, TypeOK
  <2>2. limit \in Nat \ {0}
    BY <2>1
  <2> QED BY <2>2 DEF Inv, TypeOK
<1>3. /\ stage = "counted" /\ stage' = "listed"
      /\ shown' = IF Len(s) > l THEN l ELSE Len(s)
      /\ capped' = (Len(s) > l \/ held > Len(s))
  BY <1>2 DEF List
<1>4. shown' \in 0..Len(s)
  BY <1>2, <1>3
<1>5. TypeOK'
  BY <1>1, <1>2, <1>3, <1>4 DEF Inv, TypeOK
<1>6. VotesAreReports'
  BY <1>1 DEF Inv, VotesAreReports, Named
<1>7. ListedAreNewest'
  <2>0. PICK h \in 0..Len(s) : h = shown'
    BY <1>4
  <2>1. ASSUME NEW i \in 1..h, NEW j \in (h + 1)..Len(s)
        PROVE  s[i].modified >= s[j].modified
    <3>1. i \in 1..Len(s) /\ j \in 1..Len(s) /\ i < j
      BY <2>1
    <3>2. ~Before(s[j], s[i])
      BY <1>2, <1>3, <3>1 DEF Inv, InOrder
    <3>3. s[i].modified \in Nat /\ s[j].modified \in Nat
      BY <3>1, PoolAssumption
    <3> QED BY <3>2, <3>3 DEF Before
  <2>2. capped' <=> shown' < Len(s) \/ shown' < held
    <3>1. Len(s) \in Nat /\ held \in Nat
      BY <1>2 DEF Inv, TypeOK
    <3>2. (Len(s) > l \/ held > Len(s)) <=> (shown' < Len(s) \/ shown' < held)
      BY <1>2, <1>3, <3>1
    <3>3. capped' <=> Len(s) > l \/ held > Len(s)
      BY <1>3, Zenon
    <3> QED BY <3>2, <3>3, Zenon
  <2> QED BY <1>1, <1>2, <2>0, <2>1, <2>2 DEF ListedAreNewest
<1> QED BY <1>1, <1>3, <1>5, <1>6, <1>7 DEF Inv, TrimIsHonest

----------------------------------------------------------------------------
\* The values of a category are finitely many, and one outranks another.
LEMMA OutranksOrders ==
    ASSUME TypeOK, NEW c \in Categories
    PROVE  IsFiniteSet(Counts(c)) /\ Orders(Outranks(c), Counts(c))
<1>1. IsFiniteSet(Counts(c))
  <2>1. IsFiniteSet(Values)
    BY NumbersAssumption, FS_Interval DEF Values
  <2> QED BY <2>1, FS_Subset DEF Counts
<1>2. \A v \in Values : v \in Int /\ votes[c][v] \in Nat
  <2>1. votes[c] \in [Values -> Nat]
    BY DEF TypeOK
  <2>2. Values \in SUBSET Int
    BY NumbersAssumption DEF Values
  <2> QED BY <2>1, <2>2
<1>3. \A v, w \in Values :
         <<v, w>> \in Outranks(c) <=> \/ votes[c][v] > votes[c][w]
                                      \/ votes[c][v] = votes[c][w] /\ v < w
  BY DEF Outranks
<1>4. Orders(Outranks(c), Counts(c))
  BY <1>2, <1>3 DEF Orders, Counts
<1> QED BY <1>1, <1>4

\* The ranking has every value once, those with more votes before those with fewer.
LEMMA RankedIs ==
    ASSUME TypeOK, NEW c \in Categories
    PROVE  /\ IsFiniteSet(Counts(c)) /\ Ranked(c) \in Seq(Counts(c))
           /\ Len(Ranked(c)) = Cardinality(Counts(c))
           /\ \A i, j \in 1..Len(Ranked(c)) : Ranked(c)[i] = Ranked(c)[j] => i = j
           /\ \A v \in Counts(c) : \E i \in 1..Len(Ranked(c)) : Ranked(c)[i] = v
           /\ \A i, j \in 1..Len(Ranked(c)) :
                 i < j => votes[c][Ranked(c)[i]] >= votes[c][Ranked(c)[j]]
<1> DEFINE r == Ranked(c)
           size == Cardinality(Counts(c))
<1>1. IsFiniteSet(Counts(c)) /\ Orders(Outranks(c), Counts(c))
  BY OutranksOrders
<1>2. Enumerates(r, Counts(c), Outranks(c))
  BY <1>1, EnumerationIs DEF Ranked
<1>3. /\ size \in Nat
      /\ \A i, j \in 1..size : r[i] = r[j] => i = j
      /\ \A v \in Counts(c) : \E i \in 1..size : r[i] = v
  <2> HIDE DEF r
  <2> QED BY <1>1, <1>2, EnumeratesEach
<1> HIDE DEF r, size
<1>4. r \in [1..size -> Counts(c)]
  BY <1>2 DEF Enumerates, size
<1>5. r \in Seq(Counts(c)) /\ Len(r) = size
  BY <1>3, <1>4, SeqDef
<1>6. ASSUME NEW i \in 1..size, NEW j \in 1..size, i < j PROVE votes[c][r[i]] >= votes[c][r[j]]
  <2>1. <<r[i], r[j]>> \in Outranks(c)
    BY <1>2, <1>6 DEF Enumerates, size
  <2>2. r[i] \in Values /\ r[j] \in Values
    BY <1>4 DEF Counts
  <2>3. votes[c][r[i]] \in Nat /\ votes[c][r[j]] \in Nat
    BY <2>2 DEF TypeOK
  <2> QED BY <2>1, <2>3 DEF Outranks
<1> QED BY <1>1, <1>3, <1>5, <1>6 DEF r, size

\* The first m of a list without repetitions are m values.
LEMMA FrontCounts ==
    ASSUME NEW S, NEW r \in Seq(S), NEW m \in 0..Len(r),
           \A i, j \in 1..Len(r) : r[i] = r[j] => i = j
    PROVE  /\ SubSeq(r, 1, m) \in Seq(S) /\ Len(SubSeq(r, 1, m)) = m
           /\ Range(SubSeq(r, 1, m)) = {r[i] : i \in 1..m}
           /\ Cardinality(Range(SubSeq(r, 1, m))) = m
<1> DEFINE t == SubSeq(r, 1, m)
<1>1. t \in Seq(S) /\ Len(t) = m /\ \A i \in 1..m : t[i] = r[i]
  BY SubSeqProperties
<1> HIDE DEF t
<1>2. DOMAIN t = 1..m
  BY <1>1
<1>3. Range(t) = {r[i] : i \in 1..m}
  BY <1>1, <1>2 DEF Range
<1>4. t \in Surjection(1..m, Range(t))
  BY <1>1, <1>2 DEF Surjection, Range
<1>5. t \in Injection(1..m, Range(t))
  BY <1>1, <1>2, <1>4 DEF Surjection, Injection, IsInjective
<1>6. IsFiniteSet(1..m) /\ Cardinality(1..m) = m
  BY FS_Interval
<1>7. Cardinality(Range(t)) = m
  BY <1>4, <1>5, <1>6, FS_Surjection
<1> QED BY <1>1, <1>3, <1>7 DEF t
\* What is kept of a category: its first m values, which no other outranks.
LEMMA KeptIs ==
    ASSUME TypeOK, NEW c \in Categories, NEW m \in 0..Len(Ranked(c)),
           NEW t, t = SubSeq(Ranked(c), 1, m)
    PROVE  /\ t \in Seq(Values) /\ Len(t) = m
           /\ Range(t) \subseteq Counts(c) /\ Cardinality(Range(t)) = m
           /\ \A v \in Range(t), w \in Counts(c) \ Range(t) : votes[c][v] >= votes[c][w]
<1> DEFINE r == Ranked(c)
<1>1. /\ r \in Seq(Counts(c))
      /\ \A i, j \in 1..Len(r) : r[i] = r[j] => i = j
      /\ \A v \in Counts(c) : \E i \in 1..Len(r) : r[i] = v
      /\ \A i, j \in 1..Len(r) : i < j => votes[c][r[i]] >= votes[c][r[j]]
  BY RankedIs
<1> HIDE DEF r
<1>2. m \in 0..Len(r) /\ t = SubSeq(r, 1, m)
  BY DEF r
<1>3. /\ t \in Seq(Counts(c)) /\ Len(t) = m
      /\ Range(t) = {r[i] : i \in 1..m} /\ Cardinality(Range(t)) = m
  <2> DEFINE f == SubSeq(r, 1, m)
  <2>1. /\ f \in Seq(Counts(c)) /\ Len(f) = m
        /\ Range(f) = {r[i] : i \in 1..m} /\ Cardinality(Range(f)) = m
    BY <1>1, <1>2, FrontCounts
  <2> QED BY <1>2, <2>1
<1>4. Counts(c) \subseteq Values
  BY DEF Counts
<1>5. t \in Seq(Values)
  BY <1>3, <1>4, SeqMonotonic
<1>6. ASSUME NEW v \in Range(t) PROVE v \in Counts(c)
  <2>1. PICK i \in 1..m : v = r[i]
    BY <1>3
  <2>2. i \in 1..Len(r)
    BY <1>2
  <2> QED BY <1>1, <2>1, <2>2, ElementOfSeq
<1>7. ASSUME NEW v \in Range(t), NEW w \in Counts(c) \ Range(t)
      PROVE  votes[c][v] >= votes[c][w]
  <2>1. PICK i \in 1..m : r[i] = v
    BY <1>3
  <2>2. PICK j \in 1..Len(r) : r[j] = w
    BY <1>1
  <2>3. j \notin 1..m
    BY <1>3, <2>2
  <2>4. i \in 1..Len(r) /\ i < j
    BY <1>2, <2>1, <2>2, <2>3
  <2> QED BY <1>1, <2>1, <2>2, <2>4
<1> QED BY <1>3, <1>5, <1>6, <1>7

\* What is kept and what is said to be omitted make up the whole.
LEMMA CutAddsUp ==
    ASSUME NEW size \in Nat, NEW top \in Int
    PROVE  /\ CutTo(size, top) \in 0..size
           /\ (IF top < 0 \/ size <= top THEN 0 ELSE size - top) = size - CutTo(size, top)
  BY DEF CutTo

LEMMA TrimKeeps ==
    ASSUME Inv, Trim
    PROVE  Inv'
<1> DEFINE keep(c) == CutTo(Len(Ranked(c)), Top(args.contextTop))
<1>1. UNCHANGED <<pulses, held, refs, args, n, votes, window, shown, capped>>
  BY DEF Trim
<1>2. stage = "listed" /\ stage' = "trimmed"
  BY DEF Trim
<1>3. TypeOK
  BY DEF Inv
<1>4. Top(args.contextTop) \in Int /\ Top(args.referencesTop) \in Int /\ refs \in Nat
  <2>1. args.contextTop \in Tops /\ args.referencesTop \in Tops /\ refs \in 0..MaxReferences
    BY <1>3 DEF TypeOK
  <2>2. Tops \subseteq Int /\ MaxReferences \in Nat /\ DefaultTop \in Nat
    BY NumbersAssumption
  <2>3. \A given \in Tops : Top(given) \in Int
    BY <2>2 DEF Top
  <2>4. refs \in Nat
    BY <2>1, <2>2
  <2> QED BY <2>1, <2>3, <2>4
<1>5. \A c \in Categories : Len(Ranked(c)) \in Nat /\ Len(Ranked(c)) = Cardinality(Counts(c))
  BY <1>3, RankedIs, LenProperties
<1>6. ASSUME NEW c \in Categories
      PROVE  /\ keep(c) \in 0..Len(Ranked(c))
             /\ payload'.context[c] = SubSeq(Ranked(c), 1, keep(c))
             /\ payload'.omitted[c] = Len(Ranked(c)) - keep(c)
  BY <1>4, <1>5, CutAddsUp DEF Trim
<1> HIDE DEF keep
<1>7. ASSUME NEW c \in Categories
      PROVE  /\ payload'.context[c] \in Seq(Values) /\ payload'.omitted[c] \in Nat
             /\ Cardinality(Counts(c)) = Len(payload'.context[c]) + payload'.omitted[c]
             /\ Range(payload'.context[c]) \subseteq Counts(c)
             /\ Cardinality(Range(payload'.context[c])) = Len(payload'.context[c])
             /\ \A v \in Range(payload'.context[c]), w \in Counts(c) \ Range(payload'.context[c]) :
                   votes[c][v] >= votes[c][w]
  <2>0. PICK m \in 0..Len(Ranked(c)) : m = keep(c)
    BY <1>6
  <2>1. PICK t : t = SubSeq(Ranked(c), 1, m)
    OBVIOUS
  <2>2. payload'.context[c] = t /\ payload'.omitted[c] = Len(Ranked(c)) - m
    BY <1>6, <2>0, <2>1
  <2>3. /\ t \in Seq(Values) /\ Len(t) = m
        /\ Range(t) \subseteq Counts(c) /\ Cardinality(Range(t)) = m
        /\ \A v \in Range(t), w \in Counts(c) \ Range(t) : votes[c][v] >= votes[c][w]
    BY <1>3, <2>1, KeptIs
  <2> QED BY <1>5, <2>1, <2>2, <2>3
<1>8. /\ payload'.refs \in Nat /\ payload'.refsOmitted \in Nat
      /\ payload'.refs + payload'.refsOmitted = refs
  <2>1. PICK top \in Int : top = Top(args.referencesTop)
    BY <1>4
  <2>2. /\ payload'.refs = CutTo(refs, top)
        /\ payload'.refsOmitted = IF top < 0 \/ refs <= top THEN 0 ELSE refs - top
    BY <2>1 DEF Trim
  <2>3. CutTo(refs, top) \in 0..refs /\ payload'.refsOmitted = refs - CutTo(refs, top)
    BY <1>4, <2>2, CutAddsUp
  <2> QED BY <1>4, <2>2, <2>3
<1>9. TypeOK'
  <2>1. payload' \in [context : [Categories -> Seq(Values)], omitted : [Categories -> Nat],
                      refs : Nat, refsOmitted : Nat]
    <3>1. payload' = [context |-> [c \in Categories |-> payload'.context[c]],
                      omitted |-> [c \in Categories |-> payload'.omitted[c]],
                      refs |-> payload'.refs, refsOmitted |-> payload'.refsOmitted]
      BY DEF Trim
    <3> QED BY <1>7, <1>8, <3>1
  <2> QED BY <1>1, <1>2, <1>3, <2>1 DEF TypeOK
<1>10. TrimIsHonest'
  BY <1>1, <1>7, <1>8 DEF TrimIsHonest, Counts
<1>11. VotesAreReports'
  BY <1>1 DEF Inv, VotesAreReports, Named
<1> QED BY <1>1, <1>2, <1>9, <1>10, <1>11 DEF Inv, ListedAreNewest

LEMMA NextInv == Inv /\ [Next]_vars => Inv'
<1> SUFFICES ASSUME Inv, [Next]_vars PROVE Inv'
  OBVIOUS
<1>1. CASE UNCHANGED vars
  <2>1. TypeOK'
    BY <1>1 DEF vars, Inv, TypeOK
  <2>2. VotesAreReports'
    BY <1>1 DEF vars, Inv, VotesAreReports, Named
  <2>3. ListedAreNewest' /\ TrimIsHonest'
    BY <1>1 DEF vars, Inv, ListedAreNewest, TrimIsHonest, Counts
  <2> QED BY <1>1, <2>1, <2>2, <2>3 DEF vars, Inv
<1> QED BY <1>1, SortKeeps, CountKeeps, CountedKeeps, ListKeeps, TrimKeeps DEF Next

LEMMA SpecInv == Spec => []Inv
  BY InitInv, NextInv, PTL DEF Spec

----------------------------------------------------------------------------
\* The result keeps its types, whatever the answer holds (engine.go, Result).
THEOREM TypeCorrect == Spec => []TypeOK
<1>1. Inv => TypeOK
  BY DEF Inv
<1> QED BY SpecInv, <1>1, PTL

\* A value's count is the number of the pulses that name it, and the window takes
\* in all their dates (engine.go, aggregate).
THEOREM VotesHold == Spec => []VotesAreReports
<1>1. Inv => VotesAreReports
  BY DEF Inv
<1> QED BY SpecInv, <1>1, PTL

\* What is listed is the newest of the answer, and it says whether it is all that the
\* answer lists or states; upstream may have more than it states (engine.go, fill).
THEOREM ListHolds == Spec => []ListedAreNewest
<1>1. Inv => ListedAreNewest
  BY DEF Inv
<1> QED BY SpecInv, <1>1, PTL

\* What the tool cuts is counted, and was named by no more pulses than what it keeps
\* (tools.go, trimLookup).
THEOREM TrimHolds == Spec => []TrimIsHonest
<1>1. Inv => TrimIsHonest
  BY DEF Inv
<1> QED BY SpecInv, <1>1, PTL

\* The order of a category's values does not depend on the order in which the map
\* gave them out, nor on the sort's treatment of ties (engine.go, rank).
THEOREM RankingHolds == Spec => []RankingIsStable
<1>1. Inv => RankingIsStable
  <2> SUFFICES ASSUME Inv, NEW c \in Categories,
                      NEW f \in [1..Cardinality(Counts(c)) -> Counts(c)],
                      \A i, j \in DOMAIN f : i < j => <<f[i], f[j]>> \in Outranks(c)
               PROVE  f = Ranked(c)
    BY DEF RankingIsStable
  <2>1. IsFiniteSet(Counts(c)) /\ Orders(Outranks(c), Counts(c))
    BY OutranksOrders DEF Inv
  <2>2. Enumerates(f, Counts(c), Outranks(c))
    BY DEF Enumerates
  <2>3. Enumerates(Ranked(c), Counts(c), Outranks(c))
    BY <2>1, EnumerationIs DEF Ranked
  <2> QED BY <2>1, <2>2, <2>3, EnumerationUnique
<1> QED BY SpecInv, <1>1, PTL

\* The pulses that are counted and listed are those of the answer, each once: the
\* sort is the only step that touches them, and it loses none and repeats none
\* (engine.go, fill).
THEOREM SortLosesNothing == Spec => [][Sort /\ Rearranges(pulses', pulses)]_pulses
<1>1. Inv /\ [Next]_vars => [Sort /\ Rearranges(pulses', pulses)]_pulses
  <2> SUFFICES ASSUME Inv, Next, pulses' # pulses
               PROVE  Sort /\ Rearranges(pulses', pulses)
    BY DEF vars
  <2>1. Sort
    BY DEF Next, Count, Counted, List, Trim
  <2>2. pulses' = Sorted(pulses) /\ pulses \in Seq(Pool)
    BY <2>1 DEF Sort, Inv, TypeOK
  <2>3. Rearranges(Sorted(pulses), pulses)
    BY <2>2, SortedIs
  <2> QED BY <2>1, <2>2, <2>3
<1> QED BY SpecInv, <1>1, PTL DEF Spec
=============================================================================

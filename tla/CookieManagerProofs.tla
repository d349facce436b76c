------------------------- MODULE CookieManagerProofs -------------------------
(***************************************************************************)
(* Theorems about CookieManager, for any servers, domains, ages, limits    *)
(* and failures of the file.                                               *)
(***************************************************************************)
EXTENDS CookieManager, FiniteSetTheorems, WellFoundedInduction, TLAPS

-----------------------------------------------------------------------------
(* Numbers *)

LEMMA Constants ==
  /\ Visited \subseteq Seq(STRING) /\ Domains \subseteq Seq(STRING) /\ Path \subseteq Seq(STRING)
  /\ Host \subseteq Visited
  /\ Cuts \subseteq Seq(STRING) \X Seq(STRING)
  /\ Ages \subseteq Nat /\ Never \in Nat /\ \A age \in Ages : MaxTime + age < Never
  /\ Counts \subseteq Nat /\ DefaultCount \in Nat \ {0} /\ MaxFileSize \in Nat
  /\ MaxTime \in Nat /\ MaxSets \in Nat /\ MaxUses \in Nat /\ MaxRuns \in Nat \ {0} /\ MaxFaults \in Nat
  BY CookieAssumption

LEMMA Least ==
  ASSUME NEW T \in SUBSET Nat, T # {}
  PROVE  \E n \in T : \A m \in T : n <= m
<1>1. PICK n \in T : \A m \in T : ~(<<m, n>> \in OpToRel(<, Nat))
  BY NatLessThanWellFounded, WFMin, Zenon
<1>2. \A m \in T : ~(m < n)
  BY <1>1 DEF OpToRel
<1>3. \A m \in T : n <= m
  BY <1>2
<1> QED BY <1>3

LEMMA MinIsLeast ==
  ASSUME NEW T \in SUBSET Nat, T # {}
  PROVE  /\ Min(T) \in T
         /\ \A m \in T : Min(T) <= m
<1>1. PICK n \in T : \A m \in T : n <= m
  BY Least
<1> QED BY <1>1 DEF Min

LEMMA MinOfTwo ==
  ASSUME NEW m \in Nat, NEW n \in Nat
  PROVE  /\ Min({m, n}) \in Nat
         /\ Min({m, n}) <= m /\ Min({m, n}) <= n
<1>1. /\ Min({m, n}) \in {m, n}
      /\ \A k \in {m, n} : Min({m, n}) <= k
  BY MinIsLeast
<1> QED BY <1>1

\* The numbers of a finite set have the ranks from 1 to its cardinality.
LEMMA RankIsBijective ==
  ASSUME NEW S \in SUBSET Nat, IsFiniteSet(S)
  PROVE  \A n \in 1..Cardinality(S) : \E i \in S : Rank(i, S) = n
<1> DEFINE size == Cardinality(S)
           rank == [i \in S |-> Rank(i, S)]
           upto(i) == {j \in S : j <= i}
<1>1. size \in Nat
  BY FS_CardinalityType
<1>2. ASSUME NEW i \in S
      PROVE  Rank(i, S) \in 1..size
  <2>1. upto(i) \in SUBSET S /\ i \in upto(i)
    OBVIOUS
  <2>2. IsFiniteSet(upto(i)) /\ Cardinality(upto(i)) <= size
    BY <2>1, FS_Subset
  <2>3. Cardinality(upto(i)) \in Nat
    BY <2>2, FS_CardinalityType
  <2>4. Cardinality(upto(i)) # 0
    BY <2>1, <2>2, FS_EmptySet
  <2>5. Rank(i, S) = Cardinality(upto(i))
    BY DEF Rank
  <2> HIDE DEF upto, size
  <2> QED BY <2>2, <2>3, <2>4, <2>5, <1>1
<1>3. ASSUME NEW i \in S, NEW j \in S, i < j
      PROVE  Rank(i, S) # Rank(j, S)
  <2>1. upto(i) \in SUBSET upto(j) /\ j \in upto(j) /\ j \notin upto(i)
    <3>1. \A k, m, n \in Nat : (k <= m /\ m < n => k <= n) /\ (m < n => ~(n <= m)) /\ n <= n
      OBVIOUS
    <3> QED BY <1>3, <3>1
  <2>2. IsFiniteSet(upto(j))
    BY FS_Subset
  <2>3. Cardinality(upto(i)) # Cardinality(upto(j))
    BY <2>1, <2>2, FS_Subset
  <2> QED BY <2>3 DEF Rank
<1>4. rank \in [S -> 1..size]
  BY <1>2
<1>5. \A i, j \in S : i # j => rank[i] # rank[j]
  <2>1. \A i, j \in S : i # j => i < j \/ j < i
    OBVIOUS
  <2> QED BY <2>1, <1>3
<1>6. rank \in Injection(S, 1..size)
  BY <1>4, <1>5 DEF Injection, IsInjective
<1>7. IsFiniteSet(1..size) /\ Cardinality(1..size) = size
  BY <1>1, FS_Interval
<1>8. rank \in Surjection(S, 1..size)
  <2> HIDE DEF rank
  <2> QED BY <1>6, <1>7, FS_Injection
<1> QED BY <1>8 DEF Surjection

LEMMA RankIsMonotonic ==
  ASSUME NEW S \in SUBSET Nat, IsFiniteSet(S), NEW i \in S, NEW j \in S, i <= j
  PROVE  Rank(i, S) \in Nat /\ Rank(j, S) \in Nat /\ Rank(i, S) <= Rank(j, S)
<1> DEFINE upto(k) == {m \in S : m <= k}
<1>1. upto(i) \in SUBSET upto(j) /\ upto(j) \in SUBSET S
  <2>1. \A k, m, n \in Nat : k <= m /\ m <= n => k <= n
    OBVIOUS
  <2> QED BY <2>1
<1> HIDE DEF upto
<1>2. IsFiniteSet(upto(j))
  BY <1>1, FS_Subset
<1>3. IsFiniteSet(upto(i)) /\ Cardinality(upto(i)) <= Cardinality(upto(j))
  BY <1>1, <1>2, FS_Subset
<1>4. Cardinality(upto(i)) \in Nat /\ Cardinality(upto(j)) \in Nat
  BY <1>2, <1>3, FS_CardinalityType
<1> QED BY <1>3, <1>4 DEF Rank, upto

-----------------------------------------------------------------------------
(* Sequences *)

\* The elements of part are different elements of whole, in their order.
IsPart(part, whole) ==
  \E at \in [DOMAIN part -> DOMAIN whole] :
    /\ \A j, k \in DOMAIN part : j < k => at[j] < at[k]
    /\ \A k \in DOMAIN part : part[k] = whole[at[k]]

LEMMA FirstOfSequence ==
  ASSUME NEW C, NEW s \in Seq(C), NEW n \in Nat
  PROVE  /\ FirstOf(n, s) \in Seq(C)
         /\ Len(FirstOf(n, s)) <= n /\ Len(FirstOf(n, s)) <= Len(s)
         /\ \A k \in DOMAIN FirstOf(n, s) : k \in DOMAIN s /\ FirstOf(n, s)[k] = s[k]
<1> DEFINE m == Min({Len(s), n})
<1>1. Len(s) \in Nat
  OBVIOUS
<1>2. m \in Nat /\ m <= Len(s) /\ m <= n
  BY <1>1, MinOfTwo
<1> HIDE DEF m
<1>3. \A k \in 1..m : k \in 1..Len(s) /\ s[k] \in C
  BY <1>1, <1>2
<1>4. SubSeq(s, 1, m) \in Seq(C) /\ Len(SubSeq(s, 1, m)) = m
      /\ \A k \in 1..m : SubSeq(s, 1, m)[k] = s[k]
  BY <1>1, <1>2, <1>3
<1>5. FirstOf(n, s) = SubSeq(s, 1, m)
  BY DEF FirstOf, m
<1>6. DOMAIN SubSeq(s, 1, m) = 1..m /\ DOMAIN s = 1..Len(s)
  BY <1>4
<1> QED BY <1>2, <1>3, <1>4, <1>5, <1>6

LEMMA PickedSequence ==
  ASSUME NEW C, NEW s \in Seq(C), NEW S \in SUBSET (DOMAIN s)
  PROVE  /\ Picked(s, S) \in Seq(C)
         /\ Len(Picked(s, S)) <= Len(s)
         /\ \A n \in DOMAIN Picked(s, S) : \E i \in S : Rank(i, S) = n /\ Picked(s, S)[n] = s[i]
<1> DEFINE at(n) == CHOOSE i \in S : Rank(i, S) = n
<1>1. Len(s) \in Nat /\ DOMAIN s = 1..Len(s)
  OBVIOUS
<1>2. IsFiniteSet(1..Len(s)) /\ Cardinality(1..Len(s)) = Len(s)
  <2>1. \A n \in Nat : IsFiniteSet(1..n) /\ Cardinality(1..n) = n
    BY FS_Interval
  <2> QED BY <1>1, <2>1
<1>3. IsFiniteSet(S) /\ Cardinality(S) <= Len(s)
  BY <1>1, <1>2, FS_Subset
<1>4. Cardinality(S) \in Nat
  BY <1>3, FS_CardinalityType
<1>5. S \in SUBSET Nat
  BY <1>1
<1>6. \A n \in 1..Cardinality(S) : at(n) \in S /\ Rank(at(n), S) = n
  BY <1>3, <1>5, RankIsBijective
<1>7. Picked(s, S) = [n \in 1..Cardinality(S) |-> s[at(n)]]
  BY DEF Picked
<1> HIDE DEF at
<1>8. \A n \in 1..Cardinality(S) : s[at(n)] \in C
  BY <1>6, <1>1
<1>9. Picked(s, S) \in [1..Cardinality(S) -> C]
  BY <1>7, <1>8
<1>10. Picked(s, S) \in Seq(C) /\ Len(Picked(s, S)) = Cardinality(S) /\ DOMAIN Picked(s, S) = 1..Cardinality(S)
  BY <1>4, <1>9
<1> QED BY <1>3, <1>6, <1>7, <1>10

LEMMA FirstOfIsPart ==
  ASSUME NEW C, NEW s \in Seq(C), NEW n \in Nat
  PROVE  IsPart(FirstOf(n, s), s)
<1> DEFINE at == [k \in DOMAIN FirstOf(n, s) |-> k]
<1>1. \A k \in DOMAIN FirstOf(n, s) : k \in DOMAIN s /\ FirstOf(n, s)[k] = s[k]
  BY FirstOfSequence
<1>2. at \in [DOMAIN FirstOf(n, s) -> DOMAIN s]
  BY <1>1
<1>3. \A k \in DOMAIN FirstOf(n, s) : at[k] = k
  OBVIOUS
<1> HIDE DEF at
<1> QED BY <1>1, <1>2, <1>3 DEF IsPart

LEMMA PickedIsPart ==
  ASSUME NEW C, NEW s \in Seq(C), NEW S \in SUBSET (DOMAIN s)
  PROVE  IsPart(Picked(s, S), s)
<1> DEFINE at == [n \in DOMAIN Picked(s, S) |-> CHOOSE i \in S : Rank(i, S) = n /\ Picked(s, S)[n] = s[i]]
<1>1. \A n \in DOMAIN Picked(s, S) : \E i \in S : Rank(i, S) = n /\ Picked(s, S)[n] = s[i]
  BY PickedSequence
<1>2. \A n \in DOMAIN Picked(s, S) : at[n] \in S /\ Rank(at[n], S) = n /\ Picked(s, S)[n] = s[at[n]]
  BY <1>1
<1>3. at = [n \in DOMAIN Picked(s, S) |-> at[n]]
  OBVIOUS
<1> HIDE DEF at
<1>4. at \in [DOMAIN Picked(s, S) -> DOMAIN s]
  BY <1>2, <1>3
<1>5. S \in SUBSET Nat /\ IsFiniteSet(S)
  <2>1. \A n \in Nat : IsFiniteSet(1..n)
    BY FS_Interval
  <2>2. Len(s) \in Nat /\ DOMAIN s = 1..Len(s)
    OBVIOUS
  <2>3. IsFiniteSet(DOMAIN s)
    BY <2>1, <2>2
  <2> QED BY <2>2, <2>3, FS_Subset
<1>6. ASSUME NEW j \in DOMAIN Picked(s, S), NEW k \in DOMAIN Picked(s, S), j < k
      PROVE  at[j] < at[k]
  <2>1. at[j] \in S /\ at[k] \in S /\ Rank(at[j], S) = j /\ Rank(at[k], S) = k
    BY <1>2
  <2>2. CASE at[k] <= at[j]
    <3>1. j \in Nat /\ k \in Nat /\ k <= j
      BY <2>1, <2>2, <1>5, RankIsMonotonic
    <3> QED BY <3>1, <1>6
  <2>3. at[j] \in Nat /\ at[k] \in Nat
    BY <2>1, <1>5
  <2> QED BY <2>2, <2>3
<1> QED BY <1>2, <1>4, <1>6 DEF IsPart

LEMMA PartOfPart ==
  ASSUME NEW r, NEW s, NEW t, IsPart(r, s), IsPart(s, t)
  PROVE  IsPart(r, t)
<1>1. PICK f \in [DOMAIN r -> DOMAIN s] :
        /\ \A j, k \in DOMAIN r : j < k => f[j] < f[k]
        /\ \A k \in DOMAIN r : r[k] = s[f[k]]
  BY DEF IsPart
<1>2. PICK g \in [DOMAIN s -> DOMAIN t] :
        /\ \A j, k \in DOMAIN s : j < k => g[j] < g[k]
        /\ \A k \in DOMAIN s : s[k] = t[g[k]]
  BY DEF IsPart
<1> DEFINE h == [k \in DOMAIN r |-> g[f[k]]]
<1>3. h \in [DOMAIN r -> DOMAIN t] /\ \A k \in DOMAIN r : h[k] = g[f[k]]
  BY <1>1, <1>2
<1> HIDE DEF h
<1>4. \A j, k \in DOMAIN r : j < k => h[j] < h[k]
  BY <1>1, <1>2, <1>3
<1>5. \A k \in DOMAIN r : r[k] = t[h[k]]
  BY <1>1, <1>2, <1>3
<1> QED BY <1>3, <1>4, <1>5 DEF IsPart

-----------------------------------------------------------------------------
(* Names of hosts *)

\* t ends with s.
Ends(s, t) ==
  /\ Len(s) <= Len(t)
  /\ \A i \in 1..Len(s) : s[i] = t[Len(t) - Len(s) + i]

LEMMA SuffixEnds ==
  ASSUME NEW S, NEW s \in Seq(S), NEW t \in Seq(S)
  PROVE  IsSuffix(s, t) <=> Ends(s, t)
<1> DEFINE m == Len(s)
           n == Len(t)
           a == Reverse(s)
           b == Reverse(t)
<1>1. m \in Nat /\ n \in Nat
  OBVIOUS
<1>2. a = [i \in 1..m |-> s[m - i + 1]] /\ b = [i \in 1..n |-> t[n - i + 1]]
  BY DEF Reverse
<1>3. /\ \A i \in 1..m : s[m - i + 1] \in S
      /\ \A i \in 1..n : t[n - i + 1] \in S
  <2>1. \A i \in 1..m : m - i + 1 \in 1..m
    BY <1>1
  <2>2. \A i \in 1..n : n - i + 1 \in 1..n
    BY <1>1
  <2> QED BY <2>1, <2>2
<1>4. a \in Seq(S) /\ Len(a) = m /\ b \in Seq(S) /\ Len(b) = n
  <2>1. a \in [1..m -> S] /\ b \in [1..n -> S]
    BY <1>2, <1>3
  <2>2. \A k \in Nat : \A f \in [1..k -> S] : f \in Seq(S) /\ Len(f) = k
    OBVIOUS
  <2> HIDE DEF a, b, m, n
  <2> QED BY <2>1, <2>2, <1>1
<1>5. \A i \in 1..m : a[i] = s[m - i + 1]
  BY <1>2
<1>6. \A i \in 1..n : b[i] = t[n - i + 1]
  BY <1>2
<1>7. IsSuffix(s, t) <=> m <= n /\ SubSeq(a, 1, m) = SubSeq(b, 1, m)
  BY <1>4 DEF IsSuffix, IsPrefix
<1> HIDE DEF a, b
<1>8. ASSUME m <= n
      PROVE  SubSeq(a, 1, m) = SubSeq(b, 1, m) <=> \A i \in 1..m : a[i] = b[i]
  <2>1. SubSeq(a, 1, m) = [i \in 1..m |-> a[i]] /\ SubSeq(b, 1, m) = [i \in 1..m |-> b[i]]
    BY <1>1, <1>4, <1>8
  <2> QED BY <2>1
<1>9. ASSUME m <= n
      PROVE  (\A i \in 1..m : a[i] = b[i]) <=> \A i \in 1..m : s[i] = t[n - m + i]
  <2> HIDE DEF m, n
  <2>1. \A i \in 1..m : /\ m - i + 1 \in 1..m /\ m - (m - i + 1) + 1 = i
                        /\ i \in 1..n /\ n - m + (m - i + 1) = n - i + 1
                        /\ n - (m - i + 1) + 1 = n - m + i
    BY <1>1, <1>9
  <2>2. ASSUME \A i \in 1..m : a[i] = b[i], NEW i \in 1..m
        PROVE  s[i] = t[n - m + i]
    <3>1. m - i + 1 \in 1..m /\ a[m - i + 1] = b[m - i + 1] /\ m - i + 1 \in 1..n
      BY <2>1, <2>2
    <3>2. a[m - i + 1] = s[m - (m - i + 1) + 1] /\ b[m - i + 1] = t[n - (m - i + 1) + 1]
      BY <3>1, <1>5, <1>6
    <3> QED BY <3>1, <3>2, <2>1
  <2>3. ASSUME \A i \in 1..m : s[i] = t[n - m + i], NEW i \in 1..m
        PROVE  a[i] = b[i]
    <3>1. s[m - i + 1] = t[n - m + (m - i + 1)]
      BY <2>1, <2>3
    <3>2. a[i] = s[m - i + 1] /\ b[i] = t[n - i + 1]
      BY <2>1, <1>5, <1>6
    <3> QED BY <3>1, <3>2, <2>1
  <2> QED BY <2>2, <2>3
<1> QED BY <1>7, <1>8, <1>9 DEF Ends

LEMMA EndsTransitive ==
  ASSUME NEW S, NEW r \in Seq(S), NEW s \in Seq(S), NEW t \in Seq(S), Ends(r, s), Ends(s, t)
  PROVE  Ends(r, t)
<1> DEFINE k == Len(r)
           m == Len(s)
           n == Len(t)
<1>1. k \in Nat /\ m \in Nat /\ n \in Nat /\ k <= m /\ m <= n
  BY DEF Ends
<1>2. ASSUME NEW i \in 1..k
      PROVE  r[i] = t[n - k + i]
  <2>1. r[i] = s[m - k + i]
    BY DEF Ends
  <2>2. \A j \in 1..m : s[j] = t[n - m + j]
    BY DEF Ends
  <2> HIDE DEF k, m, n
  <2>3. m - k + i \in 1..m /\ n - m + (m - k + i) = n - k + i
    BY <1>1
  <2> QED BY <2>1, <2>2, <2>3
<1>3. k <= n
  <2> HIDE DEF k, m, n
  <2> QED BY <1>1
<1> QED BY <1>2, <1>3 DEF Ends

LEMMA SiteEnds ==
  ASSUME NEW host \in Seq(STRING)
  PROVE  /\ Site(host) \in Seq(STRING)
         /\ Len(Site(host)) = IF Len(host) > 1 THEN 2 ELSE Len(host)
         /\ Ends(Site(host), host)
<1> DEFINE n == Len(host)
<1>1. n \in Nat
  OBVIOUS
<1>2. CASE n > 1
  <2>1. Max({1, n - 1}) = n - 1
    <3>1. n - 1 \in {1, n - 1} /\ \A k \in {1, n - 1} : n - 1 >= k
      BY <1>1, <1>2
    <3>2. \A k \in {1, n - 1} : (\A j \in {1, n - 1} : k >= j) => k = n - 1
      BY <1>1, <1>2
    <3> HIDE DEF n
    <3> QED BY <3>1, <3>2 DEF Max
  <2>2. Site(host) = SubSeq(host, n - 1, n)
    BY <2>1 DEF Site
  <2>3. /\ SubSeq(host, n - 1, n) \in Seq(STRING) /\ Len(SubSeq(host, n - 1, n)) = 2
        /\ SubSeq(host, n - 1, n)[1] = host[n - 1] /\ SubSeq(host, n - 1, n)[2] = host[n]
    BY <1>1, <1>2
  <2>4. ASSUME NEW i \in 1..2
        PROVE  SubSeq(host, n - 1, n)[i] = host[n - 2 + i]
    <3>1. i = 1 \/ i = 2
      OBVIOUS
    <3>2. n - 2 + 1 = n - 1 /\ n - 2 + 2 = n
      BY <1>1
    <3> QED BY <3>1, <3>2, <2>3
  <2> QED BY <2>2, <2>3, <2>4, <1>1, <1>2 DEF Ends
<1>3. CASE ~(n > 1)
  <2>1. Max({1, n - 1}) = 1
    <3>1. 1 \in {1, n - 1} /\ \A k \in {1, n - 1} : 1 >= k
      BY <1>1, <1>3
    <3>2. \A k \in {1, n - 1} : (\A j \in {1, n - 1} : k >= j) => k = 1
      BY <1>1, <1>3
    <3> HIDE DEF n
    <3> QED BY <3>1, <3>2 DEF Max
  <2>2. Site(host) = SubSeq(host, 1, n)
    BY <2>1 DEF Site
  <2>3. SubSeq(host, 1, n) = host
    OBVIOUS
  <2>4. Ends(host, host)
    <3>1. \A i \in 1..n : n - n + i = i
      BY <1>1
    <3> QED BY <3>1, <1>1 DEF Ends
  <2> QED BY <2>2, <2>3, <2>4, <1>3
<1> QED BY <1>2, <1>3

\* A cookie's domain ends with the site of who has set it.
InSite(c) ==
  /\ c.domain.labels \in Seq(STRING)
  /\ Ends(Site(c.by), c.domain.labels)

LEMMA LongSuffix ==
  ASSUME NEW host \in Seq(STRING), NEW labels \in Seq(STRING), Ends(labels, host),
         Len(labels) > 1
  PROVE  Ends(Site(host), labels)
<1> DEFINE m == Len(labels)
           n == Len(host)
           site == Site(host)
<1>1. m \in Nat /\ n \in Nat /\ m > 1 /\ m <= n
  BY DEF Ends
<1>2. /\ Len(site) = 2
      /\ \A i \in 1..2 : site[i] = host[n - 2 + i]
  <2>1. Len(site) = 2 /\ Ends(site, host)
    BY <1>1, SiteEnds
  <2> HIDE DEF site
  <2> QED BY <2>1 DEF Ends
<1>3. \A i \in 1..m : labels[i] = host[n - m + i]
  BY DEF Ends
<1>4. ASSUME NEW i \in 1..2
      PROVE  site[i] = labels[m - 2 + i]
  <2> HIDE DEF m, n
  <2>1. m - 2 + i \in 1..m /\ n - m + (m - 2 + i) = n - 2 + i
    BY <1>1
  <2> QED BY <2>1, <1>2, <1>3
<1> HIDE DEF site
<1>5. Ends(site, labels)
  BY <1>1, <1>2, <1>4 DEF Ends
<1> QED BY <1>5 DEF site

LEMMA TailEnds ==
  ASSUME NEW host \in Seq(STRING), Len(host) > 2
  PROVE  Tail(host) \in Seq(STRING) /\ Ends(Tail(host), host) /\ Len(Tail(host)) > 1
<1> DEFINE n == Len(host)
<1>1. n \in Nat /\ n > 2
  OBVIOUS
<1>2. Tail(host) \in Seq(STRING) /\ Len(Tail(host)) = n - 1
  OBVIOUS
<1>3. ASSUME NEW i \in 1..n - 1
      PROVE  Tail(host)[i] = host[n - (n - 1) + i]
  <2>1. Tail(host)[i] = host[i + 1]
    OBVIOUS
  <2>2. n - (n - 1) + i = i + 1
    BY <1>1
  <2> QED BY <2>1, <2>2
<1> QED BY <1>1, <1>2, <1>3 DEF Ends

\* ValidateCookie accepts no domain outside of the server's site.
LEMMA AcceptedInSite ==
  ASSUME NEW host \in Host, NEW domain,
         \/ ValidDomain(host, domain) /\ domain.labels \in Host \cup Domains
         \/ domain = DefaultDomain(host)
  PROVE  domain.labels \in Seq(STRING) /\ Ends(Site(host), domain.labels)
<1>1. host \in Seq(STRING) /\ Host \cup Domains \subseteq Seq(STRING)
  BY Constants
<1>2. CASE ValidDomain(host, domain) /\ domain.labels \in Host \cup Domains
  <2>1. domain.labels \in Seq(STRING)
    BY <1>1, <1>2
  <2>2. CASE Len(domain.labels) > 1 /\ EndsWithDomain(host, domain)
    <3>1. Ends(domain.labels, host)
      BY <1>1, <2>1, <2>2, SuffixEnds DEF EndsWithDomain
    <3> QED BY <1>1, <2>1, <2>2, <3>1, LongSuffix
  <2>3. CASE ~domain.dot /\ domain.labels = host
    BY <1>1, <2>1, <2>3, SiteEnds
  <2> QED BY <1>2, <2>2, <2>3 DEF ValidDomain
<1>3. CASE domain = DefaultDomain(host)
  <2>1. CASE Len(host) > 2
    <3>1. domain.labels = Tail(host)
      BY <1>3, <2>1 DEF DefaultDomain
    <3>2. Tail(host) \in Seq(STRING) /\ Ends(Tail(host), host) /\ Len(Tail(host)) > 1
      BY <1>1, <2>1, TailEnds
    <3>3. Ends(Site(host), Tail(host))
      BY <1>1, <3>2, LongSuffix
    <3> QED BY <3>1, <3>2, <3>3
  <2>2. CASE ~(Len(host) > 2)
    <3>1. domain.labels = host
      BY <1>3, <2>2 DEF DefaultDomain
    <3> QED BY <1>1, <3>1, SiteEnds
  <2> QED BY <2>1, <2>2
<1> QED BY <1>2, <1>3

-----------------------------------------------------------------------------
(* Jars *)

KeyOf(c) == <<c.name, c.domain, c.path>>

LEMMA SameKeys == \A c, d : Same(c, d) <=> KeyOf(c) = KeyOf(d)
  BY DEF Same, KeyOf

\* A cookie that comes second of its kind was read from a torn line.
Unique(s) == \A i, j \in DOMAIN s : i < j /\ Same(s[i], s[j]) => ~s[j].whole

LEMMA PartUnique ==
  ASSUME NEW part, NEW whole, IsPart(part, whole), Unique(whole)
  PROVE  Unique(part)
<1>1. PICK f \in [DOMAIN part -> DOMAIN whole] :
        /\ \A j, k \in DOMAIN part : j < k => f[j] < f[k]
        /\ \A k \in DOMAIN part : part[k] = whole[f[k]]
  BY DEF IsPart
<1>2. ASSUME NEW j \in DOMAIN part, NEW k \in DOMAIN part, j < k, Same(part[j], part[k])
      PROVE  ~part[k].whole
  <2>1. /\ Same(whole[f[j]], whole[f[k]]) /\ f[j] \in DOMAIN whole /\ f[k] \in DOMAIN whole
        /\ f[j] < f[k] /\ part[k] = whole[f[k]]
    BY <1>1, <1>2
  <2> QED BY <2>1 DEF Unique
<1> QED BY <1>2 DEF Unique

\* What Processed makes of s with the cookie c: no other whole cookie has its
\* key.
ProcessedOK(p, s, max, c) ==
  /\ p \in Seq(Cookie)
  /\ \A k \in DOMAIN p : \/ p[k] = c /\ ~Removes(c)
                         \/ \E i \in DOMAIN s : p[k] = s[i] /\ (~Same(s[i], c) \/ ~s[i].whole)
  /\ Unique(p)
  /\ Len(p) <= Len(s) \/ Len(p) <= max

LEMMA AppendedOK ==
  ASSUME NEW s \in Seq(Cookie), Unique(s), NEW c \in Cookie, NEW max \in Nat,
         \A i \in DOMAIN s : ~Same(s[i], c), ~Removes(c)
  PROVE  ProcessedOK(Added(s, max, c), s, max, c)
<1> DEFINE more == Append(s, c)
           n    == Len(s)
<1>1. n \in Nat /\ DOMAIN s = 1..n
  OBVIOUS
<1>2. /\ more \in Seq(Cookie) /\ Len(more) = n + 1 /\ DOMAIN more = 1..n + 1
      /\ more[n + 1] = c /\ \A i \in 1..n : more[i] = s[i]
  OBVIOUS
<1>3. \A k \in 1..n + 1 : k \in 1..n \/ k = n + 1
  BY <1>1
<1> HIDE DEF more, n
<1>5. Unique(more)
  <2>1. ASSUME NEW i \in 1..n + 1, NEW j \in 1..n + 1, i < j, Same(more[i], more[j])
        PROVE  ~more[j].whole
    <3>1. i \in 1..n
      BY <2>1, <1>1
    <3>2. CASE j \in 1..n
      BY <2>1, <3>1, <3>2, <1>1, <1>2 DEF Unique
    <3>3. CASE j = n + 1
      BY <2>1, <3>1, <3>3, <1>1, <1>2
    <3> QED BY <1>3, <3>2, <3>3
  <2> QED BY <2>1, <1>2 DEF Unique
<1>6. \A k \in 1..n + 1 : more[k] = c \/ \E i \in DOMAIN s : more[k] = s[i]
  BY <1>1, <1>2, <1>3
<1>7. CASE n + 1 > max
  <2> DEFINE rest == Tail(more)
  <2>1. Added(s, max, c) = rest
    BY <1>2, <1>7 DEF Added, more
  <2>2. /\ rest \in Seq(Cookie) /\ Len(rest) = n /\ DOMAIN rest = 1..n
        /\ \A k \in 1..n : rest[k] = more[k + 1]
    BY <1>1, <1>2
  <2>3. \A k \in 1..n : k + 1 \in 1..n + 1
    BY <1>1
  <2> HIDE DEF rest
  <2>4. Unique(rest)
    <3>1. ASSUME NEW i \in 1..n, NEW j \in 1..n, i < j, Same(rest[i], rest[j])
          PROVE  ~rest[j].whole
      <4>1. i + 1 \in 1..n + 1 /\ j + 1 \in 1..n + 1 /\ i + 1 < j + 1
        BY <3>1, <1>1
      <4>2. Same(more[i + 1], more[j + 1]) /\ rest[j] = more[j + 1]
        BY <3>1, <2>2
      <4> QED BY <4>1, <4>2, <1>2, <1>5 DEF Unique
    <3> QED BY <3>1, <2>2 DEF Unique
  <2>5. \A k \in 1..n : rest[k] = c \/ \E i \in DOMAIN s : rest[k] = s[i]
    BY <2>2, <2>3, <1>6
  <2>6. Len(rest) <= Len(s)
    BY <2>2, <1>1 DEF n
  <2> QED BY <2>1, <2>2, <2>4, <2>5, <2>6 DEF ProcessedOK
<1>8. CASE ~(n + 1 > max)
  <2>1. Added(s, max, c) = more
    BY <1>2, <1>8 DEF Added, more
  <2>2. Len(more) <= max
    BY <1>1, <1>2, <1>8
  <2> QED BY <2>1, <2>2, <1>2, <1>5, <1>6 DEF ProcessedOK
<1> QED BY <1>7, <1>8

LEMMA Joined ==
  ASSUME NEW S, NEW a \in Seq(S), NEW b \in Seq(S)
  PROVE  /\ a \o b \in Seq(S) /\ Len(a \o b) = Len(a) + Len(b)
         /\ \A k \in 1..Len(a) : (a \o b)[k] = a[k]
         /\ \A k \in Len(a) + 1..Len(a) + Len(b) : (a \o b)[k] = b[k - Len(a)]
<1>1. a \o b \in Seq(S)
  OBVIOUS
<1>2. Len(a) \in Nat /\ Len(b) \in Nat
  OBVIOUS
<1>3. Len(a \o b) = Len(a) + Len(b)
  OBVIOUS
<1>4. \A k \in 1..Len(a) : (a \o b)[k] = a[k]
  OBVIOUS
<1>5. \A k \in Len(a) + 1..Len(a) + Len(b) : (a \o b)[k] = b[k - Len(a)]
  OBVIOUS
<1> QED BY <1>1, <1>3, <1>4, <1>5

LEMMA RemoveAtElements ==
  ASSUME NEW S, NEW s \in Seq(S), NEW i \in 1..Len(s)
  PROVE  /\ RemoveAt(s, i) \in Seq(S) /\ Len(RemoveAt(s, i)) = Len(s) - 1
         /\ \A k \in 1..Len(s) - 1 :
              RemoveAt(s, i)[k] = s[IF k < i THEN k ELSE k + 1]
<1> DEFINE n == Len(s)
           a == SubSeq(s, 1, i - 1)
           b == SubSeq(s, i + 1, n)
<1>1. n \in Nat /\ i \in Nat /\ 1 <= i /\ i <= n
  OBVIOUS
<1>2. \A k \in 1..n : s[k] \in S
  OBVIOUS
<1>3. /\ a \in Seq(S) /\ Len(a) = i - 1 /\ \A k \in 1..i - 1 : a[k] = s[k]
  <2>1. \A k \in 1..i - 1 : k \in 1..n
    BY <1>1
  <2>2. a = [k \in 1..i - 1 |-> s[k]] /\ i - 1 \in Nat
    BY <1>1
  <2>3. \A m \in Nat : \A f \in [1..m -> S] : f \in Seq(S) /\ Len(f) = m
    OBVIOUS
  <2>4. a \in [1..i - 1 -> S]
    BY <2>1, <2>2, <1>2
  <2> HIDE DEF a
  <2> QED BY <2>2, <2>3, <2>4
<1>4. /\ b \in Seq(S) /\ Len(b) = n - i /\ \A k \in 1..n - i : b[k] = s[k + i]
  <2>1. \A k \in 1..n - i : k + i \in 1..n
    BY <1>1
  <2>2. b = [k \in 1..n - i |-> s[k + i]] /\ n - i \in Nat
    BY <1>1
  <2>3. \A m \in Nat : \A f \in [1..m -> S] : f \in Seq(S) /\ Len(f) = m
    OBVIOUS
  <2>4. b \in [1..n - i -> S]
    BY <2>1, <2>2, <1>2
  <2> HIDE DEF b
  <2> QED BY <2>2, <2>3, <2>4
<1>5. RemoveAt(s, i) = a \o b
  BY DEF RemoveAt
<1> HIDE DEF a, b, n
<1>6. /\ a \o b \in Seq(S) /\ Len(a \o b) = n - 1
      /\ \A k \in 1..i - 1 : (a \o b)[k] = a[k]
      /\ \A k \in i..n - 1 : (a \o b)[k] = b[k - (i - 1)]
  <2>1. /\ a \o b \in Seq(S) /\ Len(a \o b) = Len(a) + Len(b)
        /\ \A k \in 1..Len(a) : (a \o b)[k] = a[k]
        /\ \A k \in Len(a) + 1..Len(a) + Len(b) : (a \o b)[k] = b[k - Len(a)]
    BY <1>3, <1>4, Joined
  <2>2. Len(a) + Len(b) = n - 1 /\ Len(a) + 1 = i
    BY <1>1, <1>3, <1>4
  <2> QED BY <2>1, <2>2, <1>3
<1>7. ASSUME NEW k \in 1..n - 1
      PROVE  (a \o b)[k] = s[IF k < i THEN k ELSE k + 1]
  <2>1. CASE k < i
    <3>1. k \in 1..i - 1
      BY <2>1, <1>1
    <3> QED BY <3>1, <2>1, <1>3, <1>6
  <2>2. CASE ~(k < i)
    <3>1. k \in i..n - 1 /\ k - (i - 1) \in 1..n - i /\ k - (i - 1) + i = k + 1
      BY <2>2, <1>1
    <3> QED BY <3>1, <2>2, <1>4, <1>6
  <2> QED BY <2>1, <2>2
<1> QED BY <1>5, <1>6, <1>7 DEF n

LEMMA RemovedOK ==
  ASSUME NEW s \in Seq(Cookie), Unique(s), NEW c \in Cookie, NEW max \in Nat,
         NEW i \in DOMAIN s, Same(s[i], c), \A k \in DOMAIN s : k < i => ~Same(s[k], c)
  PROVE  ProcessedOK(RemoveAt(s, i), s, max, c)
<1> DEFINE n == Len(s)
           p == RemoveAt(s, i)
           from(k) == IF k < i THEN k ELSE k + 1
<1>1. n \in Nat /\ DOMAIN s = 1..n /\ i \in 1..n
  <2> HIDE DEF p, from
  <2>1. n \in Nat /\ DOMAIN s = 1..n
    OBVIOUS
  <2> QED BY <2>1
<1>2. /\ p \in Seq(Cookie) /\ Len(p) = n - 1
      /\ \A k \in 1..n - 1 : p[k] = s[from(k)]
  BY <1>1, RemoveAtElements
<1>3. DOMAIN p = 1..n - 1
  BY <1>2
<1> HIDE DEF p, n
<1>4. \A k \in 1..n - 1 : from(k) \in 1..n /\ from(k) # i
  BY <1>1
<1>5. \A j, k \in 1..n - 1 : j < k => from(j) < from(k)
  BY <1>1
<1> HIDE DEF from
<1>6. Unique(p)
  <2>1. ASSUME NEW j \in 1..n - 1, NEW k \in 1..n - 1, j < k, Same(p[j], p[k])
        PROVE  ~p[k].whole
    <3>1. from(j) \in DOMAIN s /\ from(k) \in DOMAIN s /\ from(j) < from(k)
      BY <2>1, <1>1, <1>4, <1>5
    <3>2. Same(s[from(j)], s[from(k)]) /\ p[k] = s[from(k)]
      BY <2>1, <1>2
    <3> QED BY <3>1, <3>2 DEF Unique
  <2> QED BY <2>1, <1>3 DEF Unique
<1>7. ASSUME NEW k \in 1..n - 1
      PROVE  \E j \in DOMAIN s : p[k] = s[j] /\ (~Same(s[j], c) \/ ~s[j].whole)
  <2>1. from(k) \in DOMAIN s /\ from(k) # i /\ p[k] = s[from(k)] /\ from(k) \in Nat /\ i \in Nat
    BY <1>1, <1>2, <1>4
  <2>2. CASE from(k) < i
    BY <2>1, <2>2
  <2>3. CASE i < from(k)
    <3>1. Same(s[i], s[from(k)]) => ~s[from(k)].whole
      BY <2>1, <2>3 DEF Unique
    <3>2. Same(s[from(k)], c) => Same(s[i], s[from(k)])
      BY SameKeys
    <3> QED BY <2>1, <3>1, <3>2
  <2> QED BY <2>1, <2>2, <2>3
<1>8. Len(p) <= Len(s)
  BY <1>1, <1>2 DEF n
<1> QED BY <1>2, <1>3, <1>6, <1>7, <1>8 DEF ProcessedOK, p

LEMMA ReplacedOK ==
  ASSUME NEW s \in Seq(Cookie), Unique(s), NEW c \in Cookie, NEW max \in Nat,
         NEW i \in DOMAIN s, Same(s[i], c), ~Removes(c),
         \A k \in DOMAIN s : k < i => ~Same(s[k], c)
  PROVE  ProcessedOK([s EXCEPT ![i] = c], s, max, c)
<1> DEFINE p == [s EXCEPT ![i] = c]
           n == Len(s)
<1>1. n \in Nat /\ DOMAIN s = 1..n /\ i \in 1..n
  OBVIOUS
<1>2. p \in Seq(Cookie) /\ Len(p) = n /\ DOMAIN p = DOMAIN s
      /\ p[i] = c /\ \A k \in DOMAIN s \ {i} : p[k] = s[k]
  <2> DEFINE C == Cookie
  <2>1. c \in C /\ s \in Seq(C)
    OBVIOUS
  <2> HIDE DEF C
  <2>2. s \in [1..n -> C]
    BY <2>1
  <2>3. p \in [1..n -> C]
    BY <2>1, <2>2
  <2>4. \A m \in Nat : \A f \in [1..m -> C] : f \in Seq(C) /\ Len(f) = m
    OBVIOUS
  <2>5. p \in Seq(C) /\ Len(p) = n
    BY <2>3, <2>4, <1>1
  <2> QED BY <2>5, <1>1 DEF C
<1> HIDE DEF p
<1>3. ASSUME NEW k \in DOMAIN s \ {i}
      PROVE  /\ ~Same(s[k], c) \/ ~s[k].whole
             /\ i < k /\ Same(c, s[k]) => ~s[k].whole
  <2>1. k \in Nat /\ i \in Nat /\ k # i
    BY <1>1
  <2>2. CASE k < i
    BY <2>1, <2>2
  <2>3. CASE i < k
    <3>1. Same(s[i], s[k]) => ~s[k].whole
      BY <2>3 DEF Unique
    <3>2. (Same(s[k], c) => Same(s[i], s[k])) /\ (Same(c, s[k]) => Same(s[i], s[k]))
      BY SameKeys
    <3> QED BY <3>1, <3>2
  <2> QED BY <2>1, <2>2, <2>3
<1>4. Unique(p)
  <2>1. ASSUME NEW j \in DOMAIN s, NEW k \in DOMAIN s, j < k, Same(p[j], p[k])
        PROVE  ~p[k].whole
    <3>1. CASE j # i /\ k # i
      BY <2>1, <3>1, <1>2 DEF Unique
    <3>2. CASE j # i /\ k = i
      BY <2>1, <3>2, <1>2
    <3>3. CASE j = i /\ k # i
      BY <2>1, <3>3, <1>2, <1>3
    <3>4. ~(j = i /\ k = i)
      BY <2>1, <1>1
    <3> QED BY <3>1, <3>2, <3>3, <3>4
  <2> QED BY <2>1, <1>2 DEF Unique
<1>5. \A k \in DOMAIN p : \/ p[k] = c /\ ~Removes(c)
                          \/ \E j \in DOMAIN s : p[k] = s[j] /\ (~Same(s[j], c) \/ ~s[j].whole)
  BY <1>2, <1>3
<1>6. Len(p) <= Len(s)
  BY <1>1, <1>2
<1> QED BY <1>2, <1>4, <1>5, <1>6 DEF ProcessedOK, p

LEMMA ProcessedIsOK ==
  ASSUME NEW s \in Seq(Cookie), Unique(s), NEW c \in Cookie, NEW max \in Nat
  PROVE  ProcessedOK(Processed(s, max, c), s, max, c)
<1> DEFINE old == {i \in DOMAIN s : Same(s[i], c)}
<1>1. CASE old = {}
  <2>1. \A i \in DOMAIN s : ~Same(s[i], c)
    BY <1>1
  <2>2. CASE Removes(c)
    <3>1. Processed(s, max, c) = s
      BY <1>1, <2>2 DEF Processed
    <3> QED BY <3>1, <2>1 DEF ProcessedOK
  <2>3. CASE ~Removes(c)
    <3>1. Processed(s, max, c) = Added(s, max, c)
      BY <1>1, <2>3 DEF Processed
    <3> QED BY <3>1, <2>1, <2>3, AppendedOK
  <2> QED BY <2>2, <2>3
<1>2. CASE old # {}
  <2>1. /\ Min(old) \in DOMAIN s /\ Same(s[Min(old)], c)
        /\ \A k \in DOMAIN s : k < Min(old) => ~Same(s[k], c)
    <3>1. old \in SUBSET Nat /\ DOMAIN s \subseteq Nat
      OBVIOUS
    <3>2. Min(old) \in old /\ \A k \in old : Min(old) <= k
      BY <3>1, <1>2, MinIsLeast
    <3>3. \A k, m \in Nat : k < m => ~(m <= k)
      OBVIOUS
    <3> QED BY <3>1, <3>2, <3>3
  <2>2. CASE Removes(c)
    <3>1. Processed(s, max, c) = RemoveAt(s, Min(old))
      BY <1>2, <2>2 DEF Processed
    <3> QED BY <3>1, <2>1, RemovedOK
  <2>3. CASE ~Removes(c)
    <3>1. Processed(s, max, c) = [s EXCEPT ![Min(old)] = c]
      BY <1>2, <2>3 DEF Processed
    <3> QED BY <3>1, <2>1, <2>3, ReplacedOK
  <2> QED BY <2>2, <2>3
<1> QED BY <1>1, <1>2

-----------------------------------------------------------------------------
(* The inductive invariant *)

\* The jar s of the run r: a cookie that is not of this run is a lasting one,
\* and one whose line was not torn is of the site of who has set it.
JarOK(s, r) ==
  /\ s \in Seq(Cookie) /\ WithinLimits(s) /\ Unique(s)
  /\ \A i \in DOMAIN s : /\ s[i].whole => InSite(s[i])
                         /\ s[i].session \/ s[i].lasting
                         /\ s[i].lasting \/ s[i].run = r

FileOK(s) ==
  /\ s \in Seq(Cookie) /\ WithinLimits(s) /\ Unique(s)
  /\ \A i \in DOMAIN s : s[i].lasting /\ (s[i].whole => InSite(s[i]))

\* The cookies of s are what servers last made of them, by l; none was torn.
Known(s, l) ==
  \A i \in DOMAIN s : s[i].whole /\ KeyOf(s[i]) \in DOMAIN l /\ l[KeyOf(s[i])] = s[i].value

Counters ==
  /\ params \in [max : Counts \cup {DefaultCount}, saved : BOOLEAN]
  /\ initialized \in BOOLEAN /\ disabled \in BOOLEAN
  /\ now \in 0..MaxTime
  /\ \A k \in DOMAIN latest : latest[k] \in 0..sets
  /\ sets \in 0..MaxSets /\ uses \in 0..MaxUses /\ runs \in 1..MaxRuns
  /\ faults \in 0..MaxFaults

IInv ==
  /\ Counters
  /\ JarOK(jar, runs) /\ FileOK(file)
  /\ ~initialized => jar = << >>
  /\ faults = 0 => Known(jar, latest)
  /\ faults = 0 /\ ~initialized => Known(file, latest)

LEMMA Limits ==
  /\ WithinLimits(<< >>)
  /\ \A s, t : WithinLimits(s) /\ Len(t) \in Nat /\ Len(s) \in Nat /\ Len(t) <= Len(s) => WithinLimits(t)
  /\ \A max \in Counts \cup {DefaultCount} : \A s : Len(s) <= max => WithinLimits(s)
<1>1. WithinLimits(<< >>)
  <2>1. Len(<< >>) <= DefaultCount
    BY Constants
  <2> QED BY <2>1 DEF WithinLimits
<1>2. ASSUME NEW s, NEW t, WithinLimits(s), Len(t) \in Nat, Len(s) \in Nat, Len(t) <= Len(s)
      PROVE  WithinLimits(t)
  <2>1. PICK max \in Counts \cup {DefaultCount} : Len(s) <= max
    BY <1>2 DEF WithinLimits
  <2>2. max \in Nat
    BY Constants
  <2>3. \A k, m, n \in Nat : k <= m /\ m <= n => k <= n
    OBVIOUS
  <2>4. Len(t) <= max
    BY <1>2, <2>1, <2>2, <2>3
  <2> QED BY <2>4 DEF WithinLimits
<1>3. \A max \in Counts \cup {DefaultCount} : \A s : Len(s) <= max => WithinLimits(s)
  BY DEF WithinLimits
<1> QED BY <1>1, <1>2, <1>3

LEMMA EmptyOK ==
  /\ \A r : JarOK(<< >>, r)
  /\ FileOK(<< >>)
  /\ \A l : Known(<< >>, l)
<1>1. << >> \in Seq(Cookie) /\ DOMAIN << >> = {} /\ Len(<< >>) = 0
  OBVIOUS
<1>2. Unique(<< >>)
  BY <1>1 DEF Unique
<1> QED BY <1>1, <1>2, Limits DEF JarOK, FileOK, Known

\* What is left of a jar or a file
LEMMA PartJar ==
  ASSUME NEW s, NEW r, JarOK(s, r), NEW p \in Seq(Cookie), IsPart(p, s), Len(p) <= Len(s)
  PROVE  JarOK(p, r) /\ \A l : Known(s, l) => Known(p, l)
<1>1. \A k \in DOMAIN p : \E i \in DOMAIN s : p[k] = s[i]
  BY DEF IsPart
<1>2. Unique(p)
  BY PartUnique DEF JarOK
<1>3. WithinLimits(p)
  BY Limits DEF JarOK
<1>4. \A k \in DOMAIN p : /\ p[k].whole => InSite(p[k])
                          /\ p[k].session \/ p[k].lasting
                          /\ p[k].lasting \/ p[k].run = r
  BY <1>1 DEF JarOK
<1>5. \A l : Known(s, l) => Known(p, l)
  BY <1>1 DEF Known
<1> QED BY <1>2, <1>3, <1>4, <1>5 DEF JarOK

LEMMA PartFile ==
  ASSUME NEW s, FileOK(s), NEW p \in Seq(Cookie), IsPart(p, s), Len(p) <= Len(s)
  PROVE  FileOK(p) /\ \A l : Known(s, l) => Known(p, l)
<1>1. \A k \in DOMAIN p : \E i \in DOMAIN s : p[k] = s[i]
  BY DEF IsPart
<1>2. Unique(p)
  BY PartUnique DEF FileOK
<1>3. WithinLimits(p)
  BY Limits DEF FileOK
<1>4. \A k \in DOMAIN p : p[k].lasting /\ (p[k].whole => InSite(p[k]))
  BY <1>1 DEF FileOK
<1>5. \A l : Known(s, l) => Known(p, l)
  BY <1>1 DEF Known
<1> QED BY <1>2, <1>3, <1>4, <1>5 DEF FileOK

-----------------------------------------------------------------------------
(* The file *)

LEMMA TextCookie ==
  ASSUME NEW c \in Cookie
  PROVE  /\ Text(c) \in Cookie
         /\ KeyOf(Text(c)) = KeyOf(c)
         /\ Text(c).value = c.value
         /\ Text(c).lasting = c.lasting
         /\ Text(c).whole = c.whole
         /\ InSite(c) => InSite(Text(c))
<1>1. Text(c) \in Cookie
  BY DEF Cookie, Text
<1>2. /\ Text(c).value = c.value
      /\ Text(c).lasting = c.lasting
      /\ Text(c).whole = c.whole
      /\ Text(c).name = c.name
      /\ Text(c).domain = c.domain
      /\ Text(c).path = c.path
      /\ Text(c).by = c.by
  BY DEF Cookie, Text
<1> QED BY <1>1, <1>2 DEF KeyOf, InSite

LEMMA TextsOK ==
  ASSUME NEW s, FileOK(s)
  PROVE  FileOK(Texts(s)) /\ \A l : Known(s, l) => Known(Texts(s), l)
<1> DEFINE p == Texts(s)
           n == Len(s)
           Of(c) == Text(c)
<1>1. s \in Seq(Cookie) /\ n \in Nat /\ DOMAIN s = 1..n /\ \A i \in 1..n : s[i] \in Cookie
  BY DEF FileOK
<1>2. p = [i \in 1..n |-> Of(s[i])]
  BY <1>1 DEF Texts
<1>3. \A i \in 1..n : p[i] = Of(s[i])
  BY <1>2
<1>4. \A i \in 1..n : /\ Of(s[i]) \in Cookie /\ KeyOf(Of(s[i])) = KeyOf(s[i])
                      /\ Of(s[i]).value = s[i].value /\ Of(s[i]).lasting = s[i].lasting
                      /\ Of(s[i]).whole = s[i].whole
                      /\ InSite(s[i]) => InSite(Of(s[i]))
  BY <1>1, TextCookie
<1> HIDE DEF Of, p
<1>5. p \in [1..n -> Cookie]
  BY <1>2, <1>4
<1>6. p \in Seq(Cookie) /\ Len(p) = n /\ DOMAIN p = 1..n
  <2> DEFINE C == Cookie
  <2>1. \A m \in Nat : \A f \in [1..m -> C] : f \in Seq(C) /\ Len(f) = m
    OBVIOUS
  <2>2. p \in [1..n -> C]
    BY <1>5
  <2> HIDE DEF C, n
  <2>3. p \in Seq(C) /\ Len(p) = n /\ DOMAIN p = 1..n
    BY <2>1, <2>2, <1>1
  <2> QED BY <2>3 DEF C
<1>7. \A i \in 1..n : KeyOf(p[i]) = KeyOf(s[i])
  BY <1>3, <1>4
<1>12. \A i \in 1..n : p[i].whole = s[i].whole
  BY <1>3, <1>4
<1>8. Unique(p)
  BY <1>1, <1>6, <1>7, <1>12, SameKeys DEF FileOK, Unique
<1>9. WithinLimits(p)
  BY <1>1, <1>6, Limits DEF FileOK
<1>10. \A i \in 1..n : p[i].lasting /\ (p[i].whole => InSite(p[i]))
  BY <1>1, <1>3, <1>4 DEF FileOK
<1>11. \A l : Known(s, l) => Known(p, l)
  BY <1>1, <1>3, <1>4, <1>6, <1>7, <1>12 DEF Known
<1> QED BY <1>6, <1>8, <1>9, <1>10, <1>11 DEF FileOK, p

LEMMA FittingLines ==
  ASSUME NEW lines \in Seq(Cookie)
  PROVE  \E n \in Nat : Fitting(lines) = FirstOf(n, lines)
<1> DEFINE S == {i \in DOMAIN lines : TotalSize(SubSeq(lines, 1, i - 1)) < MaxFileSize}
<1>1. \A n \in Nat : IsFiniteSet(1..n)
  BY FS_Interval
<1>2. Len(lines) \in Nat /\ DOMAIN lines = 1..Len(lines)
  OBVIOUS
<1>3. S \in SUBSET (1..Len(lines))
  BY <1>2
<1>4. Fitting(lines) = FirstOf(Cardinality(S), lines)
  BY DEF Fitting
<1> HIDE DEF S
<1>5. Cardinality(S) \in Nat
  BY <1>1, <1>2, <1>3, FS_Subset, FS_CardinalityType
<1> QED BY <1>4, <1>5

LEMMA WrittenOK ==
  ASSUME NEW s, NEW r, JarOK(s, r)
  PROVE  FileOK(Written(s)) /\ \A l : Known(s, l) => Known(Written(s), l)
<1> DEFINE picked == Picked(s, Lasting(s))
           lines  == Texts(picked)
<1>1. s \in Seq(Cookie) /\ Lasting(s) \in SUBSET (DOMAIN s)
  BY DEF JarOK, Lasting, Unexpired
<1>2. /\ picked \in Seq(Cookie) /\ Len(picked) <= Len(s)
      /\ \A n \in DOMAIN picked : \E i \in Lasting(s) : picked[n] = s[i]
      /\ IsPart(picked, s)
  BY <1>1, PickedSequence, PickedIsPart
<1>3. Written(s) = Fitting(lines)
  BY DEF Written
<1> HIDE DEF picked
<1>4. JarOK(picked, r) /\ \A l : Known(s, l) => Known(picked, l)
  BY <1>2, PartJar
<1>5. \A n \in DOMAIN picked : picked[n].lasting
  <2>1. \A i \in Lasting(s) : s[i].lasting
    BY DEF JarOK, Lasting, Unexpired
  <2> QED BY <2>1, <1>2
<1>6. FileOK(picked)
  BY <1>4, <1>5 DEF JarOK, FileOK
<1>7. FileOK(lines) /\ \A l : Known(picked, l) => Known(lines, l)
  BY <1>6, TextsOK
<1> HIDE DEF lines
<1>8. lines \in Seq(Cookie)
  BY <1>7 DEF FileOK
<1>9. PICK n \in Nat : Fitting(lines) = FirstOf(n, lines)
  BY <1>8, FittingLines
<1>10. /\ FirstOf(n, lines) \in Seq(Cookie) /\ Len(FirstOf(n, lines)) <= Len(lines)
       /\ IsPart(FirstOf(n, lines), lines)
  BY <1>8, FirstOfSequence, FirstOfIsPart
<1>11. /\ FileOK(FirstOf(n, lines))
       /\ \A l : Known(lines, l) => Known(FirstOf(n, lines), l)
  BY <1>7, <1>10, PartFile
<1> QED BY <1>3, <1>4, <1>7, <1>9, <1>11

\* Only some lines are written.
LEMMA PartlyWritten ==
  ASSUME NEW w, FileOK(w), NEW n \in 0..Len(w)
  PROVE  FileOK(SubSeq(w, 1, n))
<1>1. w \in Seq(Cookie) /\ Len(w) \in Nat /\ n \in Nat /\ n <= Len(w)
  BY DEF FileOK
<1>2. Min({Len(w), n}) = n
  <2> DEFINE m == Len(w)
  <2>1. m \in Nat /\ n <= m
    BY <1>1
  <2> HIDE DEF m
  <2>2. n \in {m, n} /\ \A k \in {m, n} : n <= k
    BY <2>1, <1>1
  <2>3. \A k \in {m, n} : (\A j \in {m, n} : k <= j) => k = n
    BY <2>1, <1>1
  <2>4. Min({m, n}) = n
    BY <2>2, <2>3 DEF Min
  <2> QED BY <2>4 DEF m
<1>3. FirstOf(n, w) = SubSeq(w, 1, n)
  BY <1>2 DEF FirstOf
<1>4. /\ FirstOf(n, w) \in Seq(Cookie) /\ Len(FirstOf(n, w)) <= Len(w)
      /\ IsPart(FirstOf(n, w), w)
  BY <1>1, FirstOfSequence, FirstOfIsPart
<1> QED BY <1>3, <1>4, PartFile

\* What a torn line reads as
LEMMA TornCookie ==
  ASSUME NEW c \in Cookie, NEW t \in Torn(c)
  PROVE  t \in Cookie /\ ~t.whole /\ t.lasting = c.lasting
<1>1. CutDomains(c.domain) \subseteq Domain
  <2>1. c.domain \in Domain
    BY DEF Cookie
  <2>2. NoDomain \in Domain
    <3>1. << >> \in Seq(STRING)
      OBVIOUS
    <3> QED BY <3>1 DEF NoDomain, Domain
  <2>3. ASSUME NEW pair \in Cuts
        PROVE  [c.domain EXCEPT !.labels = pair[2]] \in Domain
    <3>1. pair[2] \in Seq(STRING)
      BY Constants
    <3> QED BY <3>1, <2>1 DEF Domain
  <2> QED BY <2>1, <2>2, <2>3 DEF CutDomains
<1>2. 0 \in 0..Never /\ Never \in 0..Never /\ c.expires \in 0..Never
  BY Constants DEF Cookie
<1>3. CASE \E d \in CutDomains(c.domain) :
        t = [c EXCEPT !.whole = FALSE, !.domain = d, !.session = TRUE, !.expires = Never]
  <2>1. PICK d \in Domain :
          t = [c EXCEPT !.whole = FALSE, !.domain = d, !.session = TRUE, !.expires = Never]
    BY <1>1, <1>3
  <2> QED BY <2>1, <1>2 DEF Cookie
<1>4. CASE \E time \in {0, c.expires, Never} : t = [c EXCEPT !.whole = FALSE, !.expires = time]
  <2>1. PICK time \in 0..Never : t = [c EXCEPT !.whole = FALSE, !.expires = time]
    BY <1>2, <1>4
  <2> QED BY <2>1 DEF Cookie
<1> QED BY <1>3, <1>4 DEF Torn

LEMMA TornFile ==
  ASSUME NEW w, FileOK(w), NEW n \in DOMAIN w, NEW t \in Cookie, ~t.whole, t.lasting
  PROVE  FileOK(Append(SubSeq(w, 1, n - 1), t))
<1> DEFINE p == SubSeq(w, 1, n - 1)
           q == Append(p, t)
<1>1. w \in Seq(Cookie) /\ Len(w) \in Nat /\ n \in 1..Len(w) /\ n - 1 \in 0..Len(w)
  BY DEF FileOK
<1>2. FileOK(p)
  BY <1>1, PartlyWritten
<1>3. p \in Seq(Cookie) /\ Len(p) = n - 1
  BY <1>1, <1>2 DEF FileOK
<1> HIDE DEF p
<1>4. /\ q \in Seq(Cookie) /\ Len(q) = n /\ DOMAIN q = 1..n
      /\ q[n] = t /\ \A k \in 1..n - 1 : k \in DOMAIN p /\ q[k] = p[k]
  BY <1>1, <1>3
<1>5. \A k \in 1..n : k \in 1..n - 1 \/ k = n
  BY <1>1
<1> HIDE DEF q
<1>6. Unique(q)
  <2>1. ASSUME NEW i \in 1..n, NEW k \in 1..n, i < k, Same(q[i], q[k])
        PROVE  ~q[k].whole
    <3>1. CASE k = n
      BY <3>1, <1>4
    <3>2. CASE k \in 1..n - 1
      <4>1. i \in 1..n - 1
        BY <2>1, <3>2, <1>1
      <4>2. Same(p[i], p[k]) /\ i \in DOMAIN p /\ k \in DOMAIN p /\ q[k] = p[k]
        BY <2>1, <3>2, <4>1, <1>4
      <4> QED BY <2>1, <4>2, <1>2 DEF FileOK, Unique
    <3> QED BY <3>1, <3>2, <1>5
  <2> QED BY <2>1, <1>4 DEF Unique
<1>7. \A k \in 1..n : q[k].lasting /\ (q[k].whole => InSite(q[k]))
  <2>1. \A k \in DOMAIN p : p[k].lasting /\ (p[k].whole => InSite(p[k]))
    BY <1>2 DEF FileOK
  <2> QED BY <2>1, <1>4, <1>5
<1>8. WithinLimits(q)
  <2>1. WithinLimits(w) /\ Len(q) \in Nat /\ Len(q) <= Len(w)
    BY <1>1, <1>4 DEF FileOK
  <2> QED BY <2>1, <1>1, Limits
<1>9. FileOK(q)
  BY <1>4, <1>6, <1>7, <1>8 DEF FileOK
<1> QED BY <1>9 DEF q, p

LEMMA CutShortOK ==
  ASSUME NEW w, FileOK(w), NEW f \in CutShort(w)
  PROVE  FileOK(f)
<1>1. CASE \E n \in 0..Len(w) : f = SubSeq(w, 1, n)
  BY <1>1, PartlyWritten
<1>2. CASE \E n \in DOMAIN w : \E t \in Torn(w[n]) : f = Append(SubSeq(w, 1, n - 1), t)
  <2>1. PICK n \in DOMAIN w : \E t \in Torn(w[n]) : f = Append(SubSeq(w, 1, n - 1), t)
    BY <1>2
  <2>2. PICK t \in Torn(w[n]) : f = Append(SubSeq(w, 1, n - 1), t)
    BY <2>1
  <2>3. w[n] \in Cookie /\ w[n].lasting
    BY DEF FileOK
  <2>4. t \in Cookie /\ ~t.whole /\ t.lasting
    BY <2>3, TornCookie
  <2> QED BY <2>2, <2>4, TornFile
<1>3. \/ \E n \in 0..Len(w) : f = SubSeq(w, 1, n)
      \/ \E n \in DOMAIN w : \E t \in Torn(w[n]) : f = Append(SubSeq(w, 1, n - 1), t)
  BY DEF CutShort
<1> QED BY <1>1, <1>2, <1>3

\* What Shutdown leaves in the file, and what it leaves when nothing fails
LEMMA SavedOK ==
  ASSUME NEW s, NEW r, JarOK(s, r), FileOK(file), NEW p, p.saved \in BOOLEAN,
         NEW writes \in BOOLEAN, NEW f \in Saved(s, p, writes)
  PROVE  /\ FileOK(f)
         /\ p.saved /\ writes => \A l : Known(s, l) => Known(f, l)
<1>1. FileOK(Written(s)) /\ \A l : Known(s, l) => Known(Written(s), l)
  BY WrittenOK
<1>2. CASE ~p.saved
  <2>1. Saved(s, p, writes) = {file}
    BY <1>2 DEF Saved
  <2> QED BY <1>2, <2>1
<1>3. CASE p.saved /\ writes
  <2>1. Saved(s, p, writes) = {Written(s)}
    BY <1>3 DEF Saved
  <2> QED BY <1>1, <2>1
<1>4. CASE p.saved /\ ~writes
  <2>1. Saved(s, p, writes) = {file} \cup CutShort(Written(s))
    BY <1>4 DEF Saved
  <2> QED BY <1>1, <1>4, <2>1, CutShortOK
<1> QED BY <1>2, <1>3, <1>4

LEMMA FewerOK ==
  ASSUME NEW s, NEW r, JarOK(s, r), NEW max \in Nat
  PROVE  JarOK(FirstOf(max, s), r) /\ \A l : Known(s, l) => Known(FirstOf(max, s), l)
<1>1. /\ FirstOf(max, s) \in Seq(Cookie) /\ Len(FirstOf(max, s)) <= Len(s)
      /\ IsPart(FirstOf(max, s), s)
  BY FirstOfSequence, FirstOfIsPart DEF JarOK
<1> QED BY <1>1, PartJar

LEMMA LoadedOK ==
  ASSUME NEW s, FileOK(s), NEW r, NEW p, NEW reads
  PROVE  /\ JarOK(Loaded(s, p, reads), r)
         /\ \A l : Known(s, l) => Known(Loaded(s, p, reads), l)
<1>1. JarOK(s, r)
  BY DEF FileOK, JarOK
<1> QED BY <1>1, EmptyOK DEF Loaded

-----------------------------------------------------------------------------
(* Every call keeps the invariant *)

LEMMA FaultsCounted ==
  ASSUME Counters, Fault \/ NoFault
  PROVE  /\ faults' \in 0..MaxFaults
         /\ faults' = 0 => faults = 0 /\ NoFault
<1>1. faults \in Nat /\ faults <= MaxFaults
  BY Constants DEF Counters
<1>2. CASE NoFault
  BY <1>1, <1>2, Constants DEF NoFault
<1>3. CASE Fault
  BY <1>1, <1>3, Constants DEF Fault
<1> QED BY <1>2, <1>3

LEMMA InitIInv == Init => IInv
<1> SUFFICES ASSUME Init PROVE IInv
  OBVIOUS
<1>1. NoParams \in [max : Counts \cup {DefaultCount}, saved : BOOLEAN]
  BY DEF NoParams
<1>2. Counters
  <2>1. 0 \in 0..MaxTime /\ 0 \in 0..MaxSets /\ 0 \in 0..MaxUses /\ 0 \in 0..MaxFaults
    BY Constants
  <2>2. runs \in 1..MaxRuns
    BY Constants DEF Init
  <2>3. DOMAIN latest = {}
    BY DEF Init
  <2> QED BY <1>1, <2>1, <2>2, <2>3 DEF Init, Counters
<1> QED BY <1>2, EmptyOK DEF Init, IInv

LEMMA UsageKeepsIInv ==
  ASSUME IInv, NEW p \in [max : Counts, saved : BOOLEAN], NEW writes \in BOOLEAN, NEW reads \in BOOLEAN,
         SetCookieUsage(p, writes, reads)
  PROVE  IInv'
<1> DEFINE fewer == FirstOf(p.max, jar)
<1>1. /\ params' = p /\ initialized' = TRUE /\ disabled' = FALSE
      /\ uses < MaxUses /\ uses' = uses + 1
      /\ file' \in IF initialized THEN Saved(fewer, p, writes) ELSE {file}
      /\ jar' = Loaded(file', p, reads)
      /\ IF writes /\ reads THEN NoFault ELSE Fault
      /\ now' = now /\ latest' = latest /\ sets' = sets /\ runs' = runs
  BY DEF SetCookieUsage
<1>2. JarOK(jar, runs) /\ FileOK(file) /\ Counters
  BY DEF IInv
<1>3. p.max \in Nat /\ p.saved \in BOOLEAN
  BY Constants
<1>4. JarOK(fewer, runs) /\ \A l : Known(jar, l) => Known(fewer, l)
  BY <1>2, <1>3, FewerOK
<1> HIDE DEF fewer
<1>5. ASSUME initialized
      PROVE  /\ FileOK(file')
             /\ p.saved /\ writes => \A l : Known(fewer, l) => Known(file', l)
  <2>1. file' \in Saved(fewer, p, writes)
    BY <1>1, <1>5
  <2> QED BY <2>1, <1>2, <1>3, <1>4, SavedOK
<1>6. FileOK(file')
  <2>1. CASE initialized
    BY <1>5, <2>1
  <2>2. CASE ~initialized
    BY <1>1, <1>2, <2>2
  <2> QED BY <2>1, <2>2
<1>7. /\ JarOK(jar', runs)
      /\ \A l : Known(file', l) => Known(jar', l)
  BY <1>1, <1>6, LoadedOK
<1>8. JarOK(jar', runs')
  BY <1>1, <1>7
<1>9. /\ faults' \in 0..MaxFaults
      /\ faults' = 0 => faults = 0 /\ NoFault
  BY <1>1, <1>2, FaultsCounted
<1>10. ASSUME faults' = 0
       PROVE  Known(jar', latest')
  <2>1. faults = 0 /\ writes
    <3>1. faults = 0 /\ NoFault
      BY <1>9, <1>10
    <3>2. ~Fault
      BY <3>1, <1>10 DEF Fault
    <3> QED BY <3>1, <3>2, <1>1
  <2>2. Known(jar, latest) /\ (~initialized => Known(file, latest))
    BY <2>1 DEF IInv
  <2>3. CASE p.saved /\ reads
    <3>1. CASE initialized
      <4>1. \A l : Known(fewer, l) => Known(file', l)
        BY <1>5, <2>1, <2>3, <3>1
      <4>2. Known(fewer, latest)
        BY <2>2, <1>4
      <4>3. Known(file', latest)
        BY <4>1, <4>2
      <4> QED BY <4>3, <1>1, <1>7
    <3>2. CASE ~initialized
      BY <3>2, <2>2, <1>1, <1>7
    <3> QED BY <3>1, <3>2
  <2>4. CASE ~(p.saved /\ reads)
    BY <2>4, <1>1, EmptyOK DEF Loaded
  <2> QED BY <2>3, <2>4
<1>11. Counters'
  <2>1. params' \in [max : Counts \cup {DefaultCount}, saved : BOOLEAN]
    BY <1>1
  <2>2. uses' \in 0..MaxUses
    BY <1>1, <1>2, Constants DEF Counters
  <2> QED BY <2>1, <2>2, <1>1, <1>2, <1>9 DEF Counters
<1> QED BY <1>1, <1>6, <1>8, <1>10, <1>11 DEF IInv

LEMMA ClearedKeepsIInv ==
  ASSUME IInv, NEW removes \in BOOLEAN, Cleared(removes),
         uses < MaxUses, uses' = uses + 1, disabled' \in BOOLEAN,
         params' = params, initialized' = initialized, now' = now, latest' = latest,
         sets' = sets, runs' = runs
  PROVE  IInv'
<1>1. /\ jar' = << >> /\ file' = IF params.saved /\ removes THEN << >> ELSE file
      /\ Fault \/ NoFault
  BY DEF Cleared
<1>6. faults' \in 0..MaxFaults /\ (faults' = 0 => faults = 0)
  BY <1>1, FaultsCounted DEF IInv
<1>2. JarOK(jar', runs') /\ FileOK(file')
  BY <1>1, EmptyOK DEF IInv
<1>3. uses' \in 0..MaxUses
  BY Constants DEF IInv, Counters
<1>4. Counters'
  BY <1>3, <1>6 DEF IInv, Counters
<1>5. faults' = 0 /\ ~initialized' => Known(file', latest')
  BY <1>1, <1>6, EmptyOK DEF IInv
<1> QED BY <1>1, <1>2, <1>4, <1>5, EmptyOK DEF IInv

LEMMA DisableKeepsIInv == ASSUME IInv, NEW removes \in BOOLEAN, DisableCookies(removes) PROVE IInv'
  BY ClearedKeepsIInv DEF DisableCookies

LEMMA RemoveKeepsIInv == ASSUME IInv, NEW removes \in BOOLEAN, RemoveCookies(removes) PROVE IInv'
<1>1. disabled' \in BOOLEAN
  BY DEF RemoveCookies, IInv, Counters
<1> QED BY <1>1, ClearedKeepsIInv DEF RemoveCookies

\* The parameters that an answer of a server is received under
ParamsInUse == IF initialized THEN params ELSE NoParams

LEMMA HeadersKeepIInv ==
  ASSUME IInv, NEW host \in Host, NEW path, NEW c \in Cookie,
         OnHeadersRead(host, path, c),
         c.value = sets + 1, c.session \/ c.lasting, c.run = runs, c.by = host, c.whole,
         c.domain.labels \in Host \cup Domains \/ c.domain = DefaultDomain(host)
  PROVE  IInv'
<1> DEFINE p == ParamsInUse
<1>1. /\ sets < MaxSets /\ sets' = sets + 1
      /\ params' = p /\ initialized' = TRUE
      /\ file' = file /\ now' = now /\ uses' = uses /\ runs' = runs
      /\ faults' = faults /\ disabled' = disabled
  BY DEF OnHeadersRead, ParamsInUse
<1>2. JarOK(jar, runs) /\ FileOK(file) /\ Counters
  BY DEF IInv
<1>3. p \in [max : Counts \cup {DefaultCount}, saved : BOOLEAN]
  BY <1>2 DEF Counters, ParamsInUse, NoParams
<1>4. p.max \in Counts \cup {DefaultCount} /\ p.max \in Nat
  BY <1>3, Constants
<1> HIDE DEF p
<1>5. sets \in Nat /\ sets' \in 0..MaxSets /\ 0..sets \subseteq 0..sets'
  BY <1>1, <1>2, Constants DEF Counters
<1>6. CASE ValidDomain(host, c.domain) \/ c.domain = DefaultDomain(host)
  <2> DEFINE key == KeyOf(c)
  <2>1. /\ jar' = Processed(jar, p.max, c)
        /\ latest' = [k \in DOMAIN latest \cup {key} |->
                        IF k # key THEN latest[k] ELSE IF Removes(c) THEN 0 ELSE c.value]
    BY <1>6 DEF OnHeadersRead, KeyOf, p, ParamsInUse
  <2>2. ProcessedOK(jar', jar, p.max, c)
    BY <2>1, <1>2, <1>4, ProcessedIsOK DEF JarOK
  <2>3. InSite(c)
    BY <1>6, AcceptedInSite DEF InSite
  <2>4. \A k \in DOMAIN jar' : /\ jar'[k].whole => InSite(jar'[k])
                               /\ jar'[k].session \/ jar'[k].lasting
                               /\ jar'[k].lasting \/ jar'[k].run = runs'
    BY <2>2, <2>3, <1>1, <1>2 DEF ProcessedOK, JarOK
  <2>5. WithinLimits(jar')
    <3>1. Len(jar') \in Nat /\ Len(jar) \in Nat
      BY <2>2, <1>2 DEF ProcessedOK, JarOK
    <3>2. Len(jar') <= Len(jar) \/ Len(jar') <= p.max
      BY <2>2 DEF ProcessedOK
    <3>3. WithinLimits(jar)
      BY <1>2 DEF JarOK
    <3> QED BY <3>1, <3>2, <3>3, <1>4, Limits
  <2>6. JarOK(jar', runs')
    BY <2>2, <2>4, <2>5 DEF JarOK, ProcessedOK
  <2> HIDE DEF key
  <2>7. \A k \in DOMAIN latest' : latest'[k] \in 0..sets'
    <3>1. \A k \in DOMAIN latest : latest[k] \in 0..sets'
      BY <1>2, <1>5 DEF Counters
    <3>2. 0 \in 0..sets' /\ c.value \in 0..sets'
      BY <1>1, <1>5
    <3> QED BY <2>1, <3>1, <3>2
  <2>8. ASSUME Known(jar, latest)
        PROVE  Known(jar', latest')
    <3>1. ASSUME NEW k \in DOMAIN jar'
          PROVE  /\ jar'[k].whole
                 /\ KeyOf(jar'[k]) \in DOMAIN latest' /\ latest'[KeyOf(jar'[k])] = jar'[k].value
      <4>1. CASE jar'[k] = c /\ ~Removes(c)
        BY <4>1, <2>1 DEF key
      <4>2. CASE \E i \in DOMAIN jar : jar'[k] = jar[i] /\ (~Same(jar[i], c) \/ ~jar[i].whole)
        <5>0. PICK i \in DOMAIN jar : jar'[k] = jar[i] /\ (~Same(jar[i], c) \/ ~jar[i].whole)
          BY <4>2
        <5>1. jar'[k] = jar[i] /\ jar[i].whole /\ ~Same(jar[i], c)
          BY <5>0, <2>8 DEF Known
        <5>2. KeyOf(jar[i]) # key
          BY <5>1, SameKeys DEF key
        <5>3. KeyOf(jar[i]) \in DOMAIN latest /\ latest[KeyOf(jar[i])] = jar[i].value
          BY <2>8 DEF Known
        <5> QED BY <5>1, <5>2, <5>3, <2>1
      <4> QED BY <4>1, <4>2, <2>2 DEF ProcessedOK
    <3> QED BY <3>1 DEF Known
  <2>9. Counters'
    BY <1>1, <1>2, <1>3, <1>5, <2>7 DEF Counters
  <2> QED BY <1>1, <1>2, <2>6, <2>8, <2>9 DEF IInv
<1>7. CASE ~(ValidDomain(host, c.domain) \/ c.domain = DefaultDomain(host))
  <2>1. jar' = jar /\ latest' = latest
    BY <1>7 DEF OnHeadersRead
  <2>2. \A k \in DOMAIN latest' : latest'[k] \in 0..sets'
    BY <2>1, <1>2, <1>5 DEF Counters
  <2>3. Counters'
    BY <1>1, <1>2, <1>3, <1>5, <2>2 DEF Counters
  <2> QED BY <1>1, <1>2, <2>1, <2>3 DEF IInv
<1> QED BY <1>6, <1>7

LEMMA ReceivedCookie ==
  ASSUME IInv, sets < MaxSets, NEW host \in Host, NEW name \in Name, NEW path,
         NEW age \in Ages \cup {-1}, NEW prefix \in Path,
         NEW domain \in {DefaultDomain(host)} \cup [dot : BOOLEAN, labels : Domains]
  PROVE  LET c == Received(host, path, name, domain, prefix, age)
         IN  /\ c \in Cookie
             /\ c.value = sets + 1 /\ (c.session \/ c.lasting) /\ c.run = runs /\ c.by = host
             /\ c.whole
             /\ c.domain.labels \in Host \cup Domains \/ c.domain = DefaultDomain(host)
<1> DEFINE c == Received(host, path, name, domain, prefix, age)
<1>1. domain \in Domain
  <2>1. DefaultDomain(host) \in Domain
    <3>1. host \in Seq(STRING)
      BY Constants
    <3>2. CASE Len(host) > 2
      BY <3>1, <3>2, TailEnds DEF DefaultDomain, Domain
    <3>3. CASE ~(Len(host) > 2)
      BY <3>1, <3>3 DEF DefaultDomain, Domain
    <3> QED BY <3>2, <3>3
  <2>2. [dot : BOOLEAN, labels : Domains] \subseteq Domain
    BY Constants DEF Domain
  <2> QED BY <2>1, <2>2
<1>2. domain.labels \in Host \cup Domains \/ domain = DefaultDomain(host)
  OBVIOUS
<1>3. sets + 1 \in 1..MaxSets /\ runs \in 1..MaxRuns
  BY Constants DEF IInv, Counters
<1>4. (IF age < 0 THEN Never ELSE now + age) \in 0..Never
  <2>1. now \in 0..MaxTime /\ Never \in Nat
    BY Constants DEF IInv, Counters
  <2>2. CASE age \in Ages
    <3>1. age \in Nat /\ MaxTime + age < Never
      BY <2>2, Constants
    <3> QED BY <3>1, <2>1, Constants
  <2>3. CASE age = -1
    BY <2>3, <2>1
  <2> QED BY <2>2, <2>3
<1>5. (age < 0) \in BOOLEAN /\ (age >= 0) \in BOOLEAN /\ (age < 0 \/ age >= 0)
  <2>1. age \in Int
    BY Constants
  <2> QED BY <2>1
<1>6. c = [name |-> name, domain |-> domain, path |-> prefix, value |-> sets + 1,
           by |-> host, run |-> runs, session |-> age < 0, lasting |-> age >= 0,
           whole |-> TRUE, expires |-> IF age < 0 THEN Never ELSE now + age]
  BY DEF Received
<1>7. /\ c.value = sets + 1 /\ c.run = runs /\ c.by = host /\ c.domain = domain /\ c.whole
      /\ c.session = (age < 0) /\ c.lasting = (age >= 0)
  BY <1>6
<1>8. c \in Cookie
  <2> DEFINE expires == IF age < 0 THEN Never ELSE now + age
  <2>1. PICK s \in BOOLEAN : s = (age < 0)
    BY <1>5
  <2>2. PICK l \in BOOLEAN : l = (age >= 0)
    BY <1>5
  <2>3. expires \in 0..Never
    BY <1>4
  <2> HIDE DEF expires
  <2>4. [name |-> name, domain |-> domain, path |-> prefix, value |-> sets + 1,
         by |-> host, run |-> runs, session |-> s, lasting |-> l, whole |-> TRUE, expires |-> expires]
           \in Cookie
    BY <2>3, <1>1, <1>3 DEF Cookie
  <2> QED BY <2>1, <2>2, <2>4, <1>6 DEF expires
<1> HIDE DEF c
<1>9. c.session \/ c.lasting
  BY <1>5, <1>7
<1> QED BY <1>2, <1>7, <1>8, <1>9 DEF c

LEMMA SetCookieKeepsIInv == ASSUME IInv, SetCookie PROVE IInv'
<1>1. PICK host \in Host, path \in Path, name \in Name, age \in Ages \cup {-1} :
        \E domain \in {DefaultDomain(host)} \cup [dot : BOOLEAN, labels : Domains],
           prefix \in {p \in Path : IsPrefix(p, path)} :
          OnHeadersRead(host, path, Received(host, path, name, domain, prefix, age))
  BY DEF SetCookie
<1>2. PICK domain \in {DefaultDomain(host)} \cup [dot : BOOLEAN, labels : Domains], prefix \in Path :
        OnHeadersRead(host, path, Received(host, path, name, domain, prefix, age))
  BY <1>1
<1> DEFINE c == Received(host, path, name, domain, prefix, age)
<1>3. sets < MaxSets
  BY <1>2 DEF OnHeadersRead
<1>4. /\ c \in Cookie
      /\ c.value = sets + 1 /\ (c.session \/ c.lasting) /\ c.run = runs /\ c.by = host /\ c.whole
      /\ c.domain.labels \in Host \cup Domains \/ c.domain = DefaultDomain(host)
  BY <1>3, ReceivedCookie
<1>5. OnHeadersRead(host, path, c)
  BY <1>2
<1> HIDE DEF c
<1> QED BY <1>4, <1>5, HeadersKeepIInv

LEMMA SendKeepsIInv == ASSUME IInv, OnHeadersSend PROVE IInv'
<1>1. /\ ~initialized /\ initialized' = TRUE /\ params' = NoParams
      /\ jar' = jar /\ file' = file /\ now' = now /\ latest' = latest /\ sets' = sets
      /\ uses' = uses /\ runs' = runs /\ faults' = faults /\ disabled' = disabled
  BY DEF OnHeadersSend
<1>2. NoParams \in [max : Counts \cup {DefaultCount}, saved : BOOLEAN]
  BY DEF NoParams
<1>3. Counters'
  BY <1>1, <1>2 DEF IInv, Counters
<1> QED BY <1>1, <1>3 DEF IInv

\* The next start, after which the file holds what the program left there
LEMMA StartKeepsIInv ==
  ASSUME IInv, Start, FileOK(file'), Fault \/ NoFault,
         faults' = 0 => Known(file', latest)
  PROVE  IInv'
<1>1. /\ runs < MaxRuns /\ runs' = runs + 1
      /\ jar' = << >> /\ params' = NoParams /\ initialized' = FALSE /\ disabled' = FALSE
      /\ now' = now /\ latest' = latest /\ sets' = sets /\ uses' = uses
  BY DEF Start
<1>2. NoParams \in [max : Counts \cup {DefaultCount}, saved : BOOLEAN]
  BY DEF NoParams
<1>3. runs' \in 1..MaxRuns
  BY <1>1, Constants DEF IInv, Counters
<1>4. faults' \in 0..MaxFaults
  BY FaultsCounted DEF IInv
<1>5. Counters'
  BY <1>1, <1>2, <1>3, <1>4 DEF IInv, Counters
<1> QED BY <1>1, <1>5, EmptyOK DEF IInv

LEMMA ShutdownKeepsIInv ==
  ASSUME IInv, NEW writes \in BOOLEAN, Shutdown(writes)
  PROVE  IInv'
<1>1. /\ Start
      /\ file' \in IF initialized THEN Saved(jar, params, writes) ELSE {file}
      /\ IF writes /\ params.saved THEN NoFault ELSE Fault
  BY DEF Shutdown
<1>2. JarOK(jar, runs) /\ FileOK(file) /\ Counters /\ params.saved \in BOOLEAN
  BY DEF IInv, Counters
<1>3. CASE initialized
  <2>1. file' \in Saved(jar, params, writes)
    BY <1>1, <1>3
  <2>2. /\ FileOK(file')
        /\ params.saved /\ writes => \A l : Known(jar, l) => Known(file', l)
    BY <2>1, <1>2, SavedOK
  <2>3. ASSUME faults' = 0
        PROVE  Known(file', latest)
    <3>1. faults = 0 /\ NoFault
      BY <1>1, <1>2, <2>3, FaultsCounted
    <3>2. ~Fault
      BY <3>1, <2>3 DEF Fault
    <3>3. writes /\ params.saved
      BY <1>1, <3>2
    <3>4. Known(jar, latest)
      BY <3>1 DEF IInv
    <3> QED BY <2>2, <3>3, <3>4
  <2> QED BY <1>1, <2>2, <2>3, StartKeepsIInv
<1>4. CASE ~initialized
  <2>1. file' = file
    BY <1>1, <1>4
  <2>2. faults' = 0 => Known(file', latest)
    <3>1. faults' = 0 => faults = 0
      BY <1>1, <1>2, FaultsCounted
    <3> QED BY <2>1, <3>1, <1>4 DEF IInv
  <2> QED BY <1>1, <1>2, <2>1, <2>2, StartKeepsIInv
<1> QED BY <1>3, <1>4

LEMMA CrashKeepsIInv == ASSUME IInv, Crash PROVE IInv'
<1>1. Fault /\ Start /\ file' = file
  BY DEF Crash
<1>2. FileOK(file')
  BY <1>1 DEF IInv
<1>3. faults' # 0
  BY <1>1, Constants DEF Fault, IInv, Counters
<1> QED BY <1>1, <1>2, <1>3, StartKeepsIInv

LEMMA ClockKeepsIInv == ASSUME IInv, Clock PROVE IInv'
<1>1. /\ now' \in 0..MaxTime
      /\ jar' = jar /\ params' = params /\ initialized' = initialized /\ file' = file
      /\ latest' = latest /\ sets' = sets /\ uses' = uses /\ runs' = runs
      /\ faults' = faults /\ disabled' = disabled
  BY Constants DEF Clock, IInv, Counters
<1>2. Counters'
  BY <1>1 DEF IInv, Counters
<1> QED BY <1>1, <1>2 DEF IInv

LEMMA NextKeepsIInv == ASSUME IInv, [Next]_vars PROVE IInv'
<1>1. ASSUME NEW max \in Counts, NEW saved \in BOOLEAN, NEW writes \in BOOLEAN, NEW reads \in BOOLEAN,
             SetCookieUsage([max |-> max, saved |-> saved], writes, reads)
      PROVE  IInv'
  <2> DEFINE p == [max |-> max, saved |-> saved]
  <2>1. p \in [max : Counts, saved : BOOLEAN]
    OBVIOUS
  <2>2. SetCookieUsage(p, writes, reads)
    BY <1>1
  <2> HIDE DEF p
  <2> QED BY <2>1, <2>2, UsageKeepsIInv
<1>2. ASSUME NEW writes \in BOOLEAN, Shutdown(writes) PROVE IInv'
  BY <1>2, ShutdownKeepsIInv
<1>5. ASSUME NEW removes \in BOOLEAN, DisableCookies(removes) \/ RemoveCookies(removes) PROVE IInv'
  BY <1>5, DisableKeepsIInv, RemoveKeepsIInv
<1>3. CASE SetCookie \/ OnHeadersSend \/ Crash \/ Clock
  BY <1>3, SetCookieKeepsIInv, SendKeepsIInv, CrashKeepsIInv, ClockKeepsIInv
<1>4. CASE vars' = vars
  <2>1. /\ jar' = jar /\ params' = params /\ initialized' = initialized /\ file' = file
        /\ now' = now /\ latest' = latest /\ sets' = sets /\ uses' = uses /\ runs' = runs
        /\ faults' = faults /\ disabled' = disabled
    BY <1>4 DEF vars
  <2>2. Counters'
    BY <2>1 DEF IInv, Counters
  <2> QED BY <2>1, <2>2 DEF IInv
<1> QED BY <1>1, <1>2, <1>3, <1>4, <1>5 DEF Next

-----------------------------------------------------------------------------
(* Theorems *)

\* What ties the jar and the file to each other and to the servers' answers is
\* an invariant: what is in the file is lasting and, unless its line was torn,
\* of its site and of one kind, and before the file is read it holds what
\* servers last made of its cookies.
THEOREM Invariance == Spec => []IInv
<1>1. Init => IInv
  BY InitIInv
<1>2. IInv /\ [Next]_vars => IInv'
  BY NextKeepsIInv
<1> QED BY <1>1, <1>2, PTL DEF Spec

\* The jar and the file hold cookies, as many as a limit in use allows, through
\* all calls, restarts, failures and torn lines.
THEOREM TypeCorrect == Spec => []TypeOK
<1>1. IInv => TypeOK
  BY DEF IInv, Counters, JarOK, FileOK, TypeOK
<1> QED BY <1>1, Invariance, PTL

\* ProcessCookieHeader: a name, domain and path never have two cookies, also
\* after the jar was cut, written, lost in part and read again, unless the
\* second one is what is left of a torn line.
THEOREM KeysAreUnique == Spec => []OneCookiePerKey
<1>1. IInv => OneCookiePerKey
  BY DEF IInv, JarOK, Unique, OneCookiePerKey
<1> QED BY <1>1, Invariance, PTL

\* ValidateCookie, EndsWithDomain: whatever domains servers name and however
\* often the file is written and read, a cookie of which no line was torn goes
\* to no host outside of the site of the one that has set it.
THEOREM CookiesStayInSite == Spec => []StaysInSite
<1>1. ASSUME IInv, NEW host \in Visited, NEW path \in Path, NEW c \in Sent(host, path),
             c.whole
      PROVE  IsSuffix(Site(c.by), host)
  <2>1. PICK i \in DOMAIN jar : c = jar[i]
    BY DEF Sent, Range
  <2>2. InSite(c) /\ c \in Cookie
    <3>1. jar \in Seq(Cookie) /\ InSite(jar[i])
      BY <1>1, <2>1 DEF IInv, JarOK
    <3>2. jar[i] \in Cookie
      BY <3>1
    <3> QED BY <2>1, <3>1, <3>2
  <2>3. host \in Seq(STRING) /\ c.by \in Seq(STRING)
    <3>1. c.by \in Host
      BY <2>2 DEF Cookie
    <3> QED BY <3>1, Constants
  <2>4. EndsWithDomain(host, c.domain)
    BY DEF Sent
  <2>5. c.domain.labels \in Seq(STRING) /\ Ends(Site(c.by), c.domain.labels)
    BY <2>2 DEF InSite
  <2>6. Ends(c.domain.labels, host)
    BY <2>3, <2>4, <2>5, SuffixEnds DEF EndsWithDomain
  <2>7. Site(c.by) \in Seq(STRING)
    BY <2>3, SiteEnds
  <2>8. Ends(Site(c.by), host)
    BY <2>3, <2>5, <2>6, <2>7, EndsTransitive
  <2> QED BY <2>3, <2>7, <2>8, SuffixEnds
<1>2. IInv => StaysInSite
  BY <1>1 DEF StaysInSite
<1> QED BY <1>2, Invariance, PTL

\* GetCookieTextForURL: as long as nothing fails, no request carries a value
\* that a server has replaced or removed, over any number of restarts.
THEOREM LatestIsSent == Spec => []SentIsLatest
<1>1. ASSUME IInv, faults = 0, NEW host \in Visited, NEW path \in Path, NEW c \in Sent(host, path)
      PROVE  latest[<<c.name, c.domain, c.path>>] = c.value
  <2>1. PICK i \in DOMAIN jar : c = jar[i]
    BY DEF Sent, Range
  <2>2. Known(jar, latest)
    BY <1>1 DEF IInv
  <2>3. latest[KeyOf(c)] = c.value
    BY <2>1, <2>2 DEF Known
  <2> QED BY <2>3 DEF KeyOf
<1>2. IInv => SentIsLatest
  BY <1>1 DEF SentIsLatest
<1> QED BY <1>2, Invariance, PTL

\* WriteCookiesToFile: no session cookie is there in a later run, whether the
\* program was shut down or died and whatever the file held before.
THEOREM SessionsDoEnd == Spec => []SessionsEnd
<1>1. IInv => SessionsEnd
  BY DEF IInv, JarOK, SessionsEnd, Range
<1> QED BY <1>1, Invariance, PTL

LEMMA MaxOfTwo ==
  ASSUME NEW m \in Nat, NEW n \in Nat
  PROVE  Max({m, n}) \in Nat /\ m <= Max({m, n}) /\ n <= Max({m, n})
<1>1. CASE m <= n
  <2>1. n \in {m, n} /\ \A k \in {m, n} : n >= k
    BY <1>1
  <2>2. \A k \in {m, n} : (\A j \in {m, n} : k >= j) => k = n
    BY <1>1
  <2>3. Max({m, n}) = n
    BY <2>1, <2>2 DEF Max
  <2> QED BY <2>3, <1>1
<1>2. CASE ~(m <= n)
  <2>1. m \in {m, n} /\ \A k \in {m, n} : m >= k
    BY <1>2
  <2>2. \A k \in {m, n} : (\A j \in {m, n} : k >= j) => k = m
    BY <1>2
  <2>3. Max({m, n}) = m
    BY <2>1, <2>2 DEF Max
  <2> QED BY <2>3, <1>2
<1> QED BY <1>1, <1>2

\* ProcessCookieHeader: no answer of a server makes the jar larger than the
\* limit, or than the file or an earlier limit had made it.
THEOREM LimitIsKept == Spec => LimitHolds
<1>1. ASSUME IInv, [Next]_vars, sets' # sets
      PROVE  Len(jar') <= Max({Len(jar), params'.max})
  <2>1. SetCookie
    BY <1>1 DEF Next, SetCookieUsage, DisableCookies, RemoveCookies, OnHeadersSend, Shutdown, Crash,
                Start, Clock, vars
  <2>2. PICK host \in Host, path \in Path, name \in Name, age \in Ages \cup {-1} :
          \E domain \in {DefaultDomain(host)} \cup [dot : BOOLEAN, labels : Domains],
             prefix \in {p \in Path : IsPrefix(p, path)} :
            OnHeadersRead(host, path, Received(host, path, name, domain, prefix, age))
    BY <2>1 DEF SetCookie
  <2>3. PICK domain \in {DefaultDomain(host)} \cup [dot : BOOLEAN, labels : Domains], prefix \in Path :
          OnHeadersRead(host, path, Received(host, path, name, domain, prefix, age))
    BY <2>2
  <2> DEFINE c == Received(host, path, name, domain, prefix, age)
  <2>4. sets < MaxSets /\ OnHeadersRead(host, path, c)
    BY <2>3 DEF OnHeadersRead
  <2>5. c \in Cookie
    BY <1>1, <2>4, ReceivedCookie
  <2> HIDE DEF c
  <2>6. params' = ParamsInUse /\ (jar' = Processed(jar, params'.max, c) \/ jar' = jar)
    BY <2>4 DEF OnHeadersRead, ParamsInUse
  <2>7. params'.max \in Nat
    <3>1. ParamsInUse \in [max : Counts \cup {DefaultCount}, saved : BOOLEAN]
      BY <1>1 DEF ParamsInUse, NoParams, IInv, Counters
    <3>2. ParamsInUse.max \in Counts \cup {DefaultCount}
      BY <3>1
    <3> QED BY <2>6, <3>2, Constants
  <2>8. jar \in Seq(Cookie) /\ Unique(jar)
    BY <1>1 DEF IInv, JarOK
  <2>9. jar' \in Seq(Cookie) /\ (Len(jar') <= Len(jar) \/ Len(jar') <= params'.max)
    <3>1. CASE jar' = jar
      BY <2>8, <3>1
    <3>2. CASE jar' = Processed(jar, params'.max, c)
      <4>1. ProcessedOK(jar', jar, params'.max, c)
        BY <2>5, <2>7, <2>8, <3>2, ProcessedIsOK
      <4> QED BY <4>1 DEF ProcessedOK
    <3> QED BY <2>6, <3>1, <3>2
  <2>10. Len(jar) \in Nat /\ Len(jar') \in Nat
    BY <2>8, <2>9
  <2>11. \A k, m, n \in Nat : k <= m \/ k <= n => k <= Max({m, n})
    <3>1. ASSUME NEW k \in Nat, NEW m \in Nat, NEW n \in Nat, k <= m \/ k <= n
          PROVE  k <= Max({m, n})
      <4>1. m <= Max({m, n}) /\ n <= Max({m, n}) /\ Max({m, n}) \in Nat
        BY MaxOfTwo
      <4> QED BY <3>1, <4>1
    <3> QED BY <3>1
  <2> QED BY <2>7, <2>9, <2>10, <2>11
<1>2. IInv /\ [Next]_vars => [sets' # sets => Len(jar') <= Max({Len(jar), params'.max})]_vars
  BY <1>1
<1> QED BY <1>2, Invariance, PTL DEF Spec, LimitHolds
=============================================================================

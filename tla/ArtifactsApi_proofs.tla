------------------------- MODULE ArtifactsApi_proofs -------------------------
(***************************************************************************)
(* Proofs about ArtifactsApi.                                              *)
(***************************************************************************)
EXTENDS ArtifactsApi, DataLemmas

-----------------------------------------------------------------------------
(* The order of the keys.                                                  *)

(* No key is before itself.                                                *)
LEMMA BeforeIrreflexive ==
    ASSUME NEW k \in Seq(Nat)
    PROVE  ~Before(k, k)
  BY DEF Before

(* A key before one that is before a third is before the third.            *)
LEMMA BeforeTransitive ==
    ASSUME NEW k \in Seq(Nat), NEW l \in Seq(Nat), NEW m \in Seq(Nat),
           Before(k, l), Before(l, m)
    PROVE  Before(k, m)
<1>1. PICK i \in DOMAIN l :
        /\ i \in DOMAIN k => k[i] < l[i]
        /\ \A h \in 1 .. i - 1 : h \in DOMAIN k /\ k[h] = l[h]
  BY DEF Before
<1>2. PICK j \in DOMAIN m :
        /\ j \in DOMAIN l => l[j] < m[j]
        /\ \A h \in 1 .. j - 1 : h \in DOMAIN l /\ l[h] = m[h]
  BY DEF Before
<1>3. CASE i <= j
  <2>1. i \in DOMAIN m
    BY <1>3
  <2>2. i \in DOMAIN k => k[i] < m[i]
    <3>1. CASE i = j
      BY <1>1, <1>2, <3>1
    <3>2. CASE i < j
      <4>1. i \in 1 .. j - 1
        BY <3>2
      <4> QED
        BY <1>1, <1>2, <4>1
    <3> QED
      BY <1>3, <3>1, <3>2
  <2>3. \A h \in 1 .. i - 1 : h \in DOMAIN k /\ k[h] = m[h]
    BY <1>1, <1>2, <1>3
  <2> QED
    BY <2>1, <2>2, <2>3 DEF Before
<1>4. CASE j < i
  <2>1. j \in DOMAIN l /\ j \in DOMAIN k /\ k[j] = l[j]
    <3>1. j \in 1 .. i - 1
      BY <1>4
    <3> QED
      BY <1>1, <3>1, SMTT(30)
  <2>2. \A h \in 1 .. j - 1 : h \in DOMAIN k /\ k[h] = m[h]
    BY <1>1, <1>2, <1>4, SMTT(30)
  <2> QED
    BY <1>2, <2>1, <2>2 DEF Before
<1> QED
  BY <1>3, <1>4

(* Of two different keys one is before the other.                          *)
LEMMA BeforeTotal ==
    ASSUME NEW k \in Seq(Nat), NEW l \in Seq(Nat), k # l
    PROVE  Before(k, l) \/ Before(l, k)
<1> DEFINE Same(i) == i \in DOMAIN k /\ i \in DOMAIN l /\ k[i] = l[i]
           T == {i \in DOMAIN k \cup DOMAIN l : ~Same(i)}
<1>1. T # {}
  <2> SUFFICES ASSUME \A i \in DOMAIN k \cup DOMAIN l : Same(i)
               PROVE  FALSE
    OBVIOUS
  <2>1. Len(k) = Len(l)
    OBVIOUS
  <2>2. \A i \in 1 .. Len(k) : k[i] = l[i]
    BY <2>1
  <2> QED
    BY <2>1, <2>2
<1>2. T \subseteq Nat
  OBVIOUS
<1>3. PICK i \in T : \A h \in T : i <= h
  <2> HIDE DEF T
  <2> QED
    BY <1>1, <1>2, SmallestOf
<1>4. \A h \in 1 .. i - 1 : h \notin T /\ h \in DOMAIN k \cup DOMAIN l
  <2> TAKE h \in 1 .. i - 1
  <2>1. i \in Nat /\ ~(i <= h)
    BY <1>2
  <2> QED
    BY <1>3, <2>1
<1>5. \A h \in 1 .. i - 1 : Same(h)
  BY <1>4
<1>6. i \in DOMAIN k /\ i \in DOMAIN l => k[i] < l[i] \/ l[i] < k[i]
  OBVIOUS
<1> QED
  BY <1>5, <1>6 DEF Before

(* Sets of keys are ordered by Before.                                     *)
KeyOrder(S) == {e \in S \X S : Before(e[1], e[2])}

(* On any set of keys this is a strict order that compares all of them.    *)
LEMMA KeysAreOrdered ==
    ASSUME NEW S, S \subseteq Keys
    PROVE  IsStrictOrder(KeyOrder(S), S)
<1>1. \A k \in S : k \in Seq(Nat)
  BY ArtifactsAssumption
<1>2. \A k, l \in S : <<k, l>> \in KeyOrder(S) <=> Before(k, l)
  BY DEF KeyOrder
<1>3. \A k \in S : ~Before(k, k)
  BY <1>1, BeforeIrreflexive
<1>4. \A k, l, m \in S : Before(k, l) /\ Before(l, m) => Before(k, m)
  BY <1>1, BeforeTransitive
<1>5. \A k, l \in S : k = l \/ Before(k, l) \/ Before(l, k)
  BY <1>1, BeforeTotal
<1> QED
  BY <1>2, <1>3, <1>4, <1>5 DEF IsStrictOrder

-----------------------------------------------------------------------------
(* What the sorting gives.                                                 *)

Increasing(s) == \A i, j \in DOMAIN s : i < j => Before(s[i], s[j])

(* A sorted set is a list of the set, each key once and in order.          *)
LEMMA SortedKeys ==
    ASSUME NEW S, S \subseteq Keys, IsFiniteSet(S)
    PROVE  /\ Sorted(S) \in Seq(S) /\ Len(Sorted(S)) = Cardinality(S)
           /\ Range(Sorted(S)) = S
           /\ Increasing(Sorted(S))
<1> DEFINE R == KeyOrder(S)
           N == Cardinality(S)
           place(k) == Cardinality(Under(R, S, k))
           under(k) == {l \in S : Before(l, k)}
           s == [n \in 1 .. N |-> CHOOSE k \in S : place(k) = n - 1]
<1>1. N \in Nat
  BY FS_CardinalityType
<1>2. \A k \in S : under(k) = Under(R, S, k)
  BY DEF KeyOrder, Under
<1>3. Sorted(S) = s
  BY <1>2 DEF Sorted
<1>4. IsStrictOrder(R, S)
  BY KeysAreOrdered
<1>5. /\ \A k \in S : place(k) \in 0 .. N - 1
      /\ \A k, l \in S : <<k, l>> \in R <=> place(k) < place(l)
      /\ \A n \in 0 .. N - 1 : \E k \in S : place(k) = n
  <2> HIDE DEF R
  <2> QED
    BY <1>4, Places
<1> HIDE DEF R, N, place
<1>6. \A n \in 1 .. N : s[n] \in S /\ place(s[n]) = n - 1
  <2> TAKE n \in 1 .. N
  <2>1. n - 1 \in 0 .. N - 1
    BY <1>1
  <2> QED
    BY <1>5, <2>1
<1>7. s \in [1 .. N -> S] /\ DOMAIN s = 1 .. N
  BY <1>6
<1>8. s \in Seq(S) /\ Len(s) = N
  BY <1>1, <1>7
<1>9. \A k \in S : \E n \in 1 .. N : s[n] = k
  <2> TAKE k \in S
  <2>1. place(k) + 1 \in 1 .. N /\ place(k) \in Int
    BY <1>1, <1>5
  <2>2. place(s[place(k) + 1]) = place(k) /\ s[place(k) + 1] \in S
    BY <1>6, <2>1
  <2>3. ~(place(k) < place(k))
    BY <2>1
  <2>4. s[place(k) + 1] = k
    BY <1>4, <1>5, <2>2, <2>3, ZenonT(30) DEF IsStrictOrder
  <2> QED
    BY <2>1, <2>4
<1>10. Range(s) = S
  BY <1>6, <1>7, <1>9 DEF Range
<1>11. Increasing(s)
  <2> SUFFICES ASSUME NEW i \in 1 .. N, NEW j \in 1 .. N, i < j
               PROVE  Before(s[i], s[j])
    BY <1>7 DEF Increasing
  <2>1. place(s[i]) < place(s[j])
    BY <1>6
  <2>2. <<s[i], s[j]>> \in R
    BY <1>5, <1>6, <2>1
  <2> QED
    BY <2>2 DEF R, KeyOrder
<1> QED
  BY <1>3, <1>8, <1>10, <1>11 DEF N

(* What list.sort makes of a list has its items and its length, and is in  *)
(* order if no item is there twice.                                        *)
LEMMA ListInOrder ==
    ASSUME NEW s \in Seq(Keys)
    PROVE  /\ InOrder(s) \in Seq(Keys)
           /\ Range(InOrder(s)) = Range(s)
           /\ IsInjective(s) => Increasing(InOrder(s))
<1> DEFINE S == DOMAIN s
           R == {e \in S \X S : GoesFirst(s, e[1], e[2])}
           place(i) == Cardinality(Under(R, S, i))
           at(n) == CHOOSE i \in S : place(i) = n - 1
           t == [n \in S |-> s[at(n)]]
<1>1. S = 1 .. Len(s) /\ Len(s) \in Nat
  OBVIOUS
<1>2. IsFiniteSet(S) /\ Cardinality(S) = Len(s)
  <2>1. /\ IsFiniteSet(1 .. Len(s))
        /\ Cardinality(1 .. Len(s)) = IF 1 > Len(s) THEN 0 ELSE Len(s) - 1 + 1
    BY <1>1, FS_Interval
  <2> QED
    BY <1>1, <2>1
<1>3. \A i \in S : s[i] \in Seq(Nat) /\ s[i] \in Keys
  BY ArtifactsAssumption
<1>4. IsStrictOrder(R, S)
  <2>1. \A i, j \in S : <<i, j>> \in R <=> Before(s[i], s[j]) \/ (s[i] = s[j] /\ i < j)
    BY DEF GoesFirst
  <2>2. \A i \in S : <<i, i>> \notin R
    BY <1>1, <1>3, <2>1, BeforeIrreflexive
  <2>3. ASSUME NEW i \in S, NEW j \in S, NEW k \in S, <<i, j>> \in R, <<j, k>> \in R
        PROVE  <<i, k>> \in R
    <3>1. CASE Before(s[i], s[j]) /\ Before(s[j], s[k])
      BY <1>3, <2>1, <3>1, BeforeTransitive
    <3>2. CASE s[i] = s[j] \/ s[j] = s[k]
      BY <1>1, <1>3, <2>1, <2>3, <3>2, BeforeIrreflexive
    <3> QED
      BY <2>1, <2>3, <3>1, <3>2
  <2>4. ASSUME NEW i \in S, NEW j \in S
        PROVE  i = j \/ <<i, j>> \in R \/ <<j, i>> \in R
    <3>1. s[i] = s[j] \/ Before(s[i], s[j]) \/ Before(s[j], s[i])
      BY <1>3, BeforeTotal
    <3>2. i = j \/ i < j \/ j < i
      BY <1>1
    <3> QED
      BY <2>1, <3>1, <3>2
  <2> HIDE DEF R, S
  <2> QED
    BY <2>2, <2>3, <2>4 DEF IsStrictOrder
<1>5. InOrder(s) = t
  <2>1. \A i \in S : {j \in S : GoesFirst(s, j, i)} = Under(R, S, i)
    BY DEF Under
  <2> HIDE DEF R
  <2>2. \A n \in S : s[CHOOSE i \in S : Cardinality({j \in S : GoesFirst(s, j, i)}) = n - 1]
                        = s[at(n)]
    BY <2>1
  <2> QED
    BY <2>2 DEF InOrder
<1>6. /\ \A i \in S : place(i) \in 0 .. Len(s) - 1
      /\ \A i, j \in S : <<i, j>> \in R <=> place(i) < place(j)
      /\ \A n \in 0 .. Len(s) - 1 : \E i \in S : place(i) = n
  <2> HIDE DEF R, S
  <2> QED
    BY <1>2, <1>4, Places
<1>7. \A i, j \in S : <<i, j>> \in R => Before(s[i], s[j]) \/ s[i] = s[j]
  BY DEF GoesFirst
<1>8. \A n \in S : n - 1 \in 0 .. Len(s) - 1
  BY <1>1
<1> HIDE DEF R, place, S
<1>9. \A n \in S : at(n) \in S /\ place(at(n)) = n - 1
  BY <1>6, <1>8
<1>10. \A i \in S : place(i) + 1 \in S /\ at(place(i) + 1) = i
  <2> TAKE i \in S
  <2>1. place(i) + 1 \in S /\ (place(i) + 1) - 1 = place(i) /\ place(i) \in Int
    BY <1>1, <1>6
  <2>2. at(place(i) + 1) \in S /\ place(at(place(i) + 1)) = place(i)
    BY <1>9, <2>1
  <2>3. ~(place(i) < place(i))
    BY <2>1
  <2> HIDE DEF at
  <2> QED
    BY <1>4, <1>6, <2>1, <2>2, <2>3 DEF IsStrictOrder
<1> HIDE DEF at
<1>11. t \in Seq(Keys)
  BY <1>1, <1>3, <1>9
<1>12. Range(t) = Range(s)
  <2>1. DOMAIN t = S /\ DOMAIN s = S
    BY DEF S
  <2>2. \A n \in S : t[n] = s[at(n)]
    OBVIOUS
  <2>3. \A i \in S : t[place(i) + 1] = s[i]
    BY <1>10
  <2> HIDE DEF t
  <2> QED
    BY <1>9, <1>10, <2>1, <2>2, <2>3 DEF Range
<1>13. ASSUME IsInjective(s) PROVE Increasing(t)
  <2> SUFFICES ASSUME NEW m \in S, NEW n \in S, m < n
               PROVE  Before(t[m], t[n])
    BY DEF Increasing
  <2>1. place(at(m)) < place(at(n)) /\ at(m) # at(n)
    <3>1. place(at(m)) = m - 1 /\ place(at(n)) = n - 1 /\ m \in Int /\ n \in Int
      BY <1>1, <1>9
    <3> QED
      BY <3>1
  <2>2. <<at(m), at(n)>> \in R
    BY <1>6, <1>9, <2>1
  <2>3. s[at(m)] # s[at(n)]
    BY <1>9, <1>13, <2>1 DEF IsInjective, S
  <2> QED
    BY <1>7, <1>9, <2>2, <2>3
<1> QED
  BY <1>5, <1>11, <1>12, <1>13

(* There is one way to list a set in order.                                *)
LEMMA IncreasingUnique ==
    ASSUME NEW s \in Seq(Keys), NEW t \in Seq(Keys),
           Increasing(s), Increasing(t), Range(s) = Range(t)
    PROVE  s = t
<1>1. ASSUME NEW u \in Seq(Keys), NEW v \in Seq(Keys),
             Increasing(u), Increasing(v), Range(u) = Range(v)
      PROVE  \A i \in DOMAIN u : i \in DOMAIN v /\ u[i] = v[i]
  <2> DEFINE T == {i \in DOMAIN u : ~(i \in DOMAIN v /\ u[i] = v[i])}
  <2> SUFFICES ASSUME T # {} PROVE FALSE
    OBVIOUS
  <2>1. T \subseteq Nat
    OBVIOUS
  <2>2. PICK i \in T : \A h \in T : i <= h
    <3> HIDE DEF T
    <3> QED
      BY <2>1, SmallestOf
  <2>3. \A h \in DOMAIN u : h < i => h \in DOMAIN v /\ u[h] = v[h]
    BY <2>2
  <2>4. /\ \A k \in DOMAIN u : u[k] \in Seq(Nat)
        /\ \A k \in DOMAIN v : v[k] \in Seq(Nat)
    <3>1. \A k \in DOMAIN u : u[k] \in Keys
      OBVIOUS
    <3>2. \A k \in DOMAIN v : v[k] \in Keys
      OBVIOUS
    <3> QED
      BY <3>1, <3>2, ArtifactsAssumption
  <2>5. \A j, k \in DOMAIN u : u[j] = u[k] => ~(j < k)
    BY <1>1, <2>4, BeforeIrreflexive DEF Increasing
  <2>6. \A j, k \in DOMAIN v : v[j] = v[k] => ~(j < k)
    BY <1>1, <2>4, BeforeIrreflexive DEF Increasing
  <2>7. PICK j \in DOMAIN v : v[j] = u[i]
    BY <1>1 DEF Range
  <2>8. i < j
    <3>1. CASE j < i
      <4>1. j \in DOMAIN u /\ u[j] = u[i]
        BY <2>3, <2>7, <3>1
      <4> QED
        BY <2>5, <3>1, <4>1
    <3> QED
      BY <2>7, <3>1
  <2>9. i \in DOMAIN v /\ Before(v[i], u[i])
    BY <1>1, <2>7, <2>8 DEF Increasing
  <2>10. PICK k \in DOMAIN u : u[k] = v[i]
    BY <1>1, <2>9 DEF Range
  <2>11. i < k
    <3>1. CASE k < i
      <4>1. k \in DOMAIN v /\ v[k] = v[i]
        BY <2>3, <2>10, <3>1
      <4> QED
        BY <2>6, <2>9, <3>1, <4>1
    <3> QED
      BY <2>9, <2>10, <3>1
  <2>12. Before(u[i], v[i])
    BY <1>1, <2>10, <2>11 DEF Increasing
  <2>13. Before(v[i], v[i])
    BY <2>4, <2>9, <2>12, BeforeTransitive
  <2> QED
    BY <2>4, <2>9, <2>13, BeforeIrreflexive
<1>2. \A i \in DOMAIN s : i \in DOMAIN t /\ s[i] = t[i]
  BY <1>1
<1>3. \A i \in DOMAIN t : i \in DOMAIN s
  BY <1>1
<1>4. Len(s) = Len(t)
  BY <1>2, <1>3
<1> QED
  BY <1>2, <1>4

-----------------------------------------------------------------------------
(* The inductive invariant.                                                *)

(* S3 loses no object, and what there is is finite, so it can be listed.   *)
StorageInv ==
    /\ IsFiniteSet(bucket)
    /\ backend = "s3" => removed = {}

(* Where a request stands goes with what it asks for, and only an answered *)
(* one has a status or a failure.                                          *)
PhaseInv(r) ==
    /\ phase[r] # "answered" => status[r] = "none" /\ failed[r] = "none"
    /\ phase[r] = "lookup" => kind[r] # "link"
    /\ phase[r] \in {"idle", "lookup", "page", "walk", "stat"} =>
            phase[r] \in {"idle", "lookup"} \/ kind[r] = "list"
    /\ phase[r] \in {"resolve", "serve"} => kind[r] # "list"
    /\ phase[r] = "serve" => path[r] \in bucket \cup removed
    /\ phase[r] = "page" => backend = "s3"
    /\ phase[r] \in {"idle", "lookup", "walk"} => items[r] = <<>>
    /\ phase[r] \in {"idle", "lookup"} => token[r] = <<>>
    /\ atStart[r] \subseteq bucket \cup removed

(* Between two pages: the items are in order and none is after the token,  *)
(* and of what was there at the start only keys after it are missing.      *)
PagingInv(r) ==
    phase[r] = "page" =>
        /\ Increasing(items[r])
        /\ Range(items[r]) \subseteq bucket
        /\ \A k \in Range(items[r]) :
                token[r] # <<>> /\ (k = token[r] \/ Before(k, token[r]))
        /\ \A k \in atStart[r] :
                k \in Range(items[r]) \/ token[r] = <<>> \/ Before(token[r], k)

(* Between two looks at files: none was looked at twice, and those of the  *)
(* start are listed, still to be looked at, or removed.                    *)
LookingInv(r) ==
    phase[r] = "stat" =>
        /\ IsInjective(items[r])
        /\ Range(items[r]) \subseteq (bucket \cup removed) \ found[r]
        /\ atStart[r] \ removed \subseteq Range(items[r]) \cup found[r]

(* ListingIsComplete of one request, with the order spelled out.           *)
ListedInv(r) ==
    kind[r] = "list" /\ status[r] = "200" =>
        /\ Increasing(items[r])
        /\ Range(items[r]) \subseteq bucket \cup removed
        /\ atStart[r] \ removed \subseteq Range(items[r])

(* RedirectIsExact of one request.                                         *)
RedirectInv(r) ==
    /\ status[r] \in {"307", "url"} => backend = "s3" /\ path[r] \in bucket
    /\ status[r] = "200" /\ kind[r] = "download" => path[r] \in bucket \cup removed
    /\ status[r] = "404" /\ kind[r] = "download" /\ record
         => path[r] \notin atStart[r] \ removed
    /\ status[r] = "null" /\ failed[r] = "none" /\ backend = "s3"
         => path[r] \notin atStart[r] \ removed

(* A failure is answered as one.                                           *)
ToldInv(r) == failed[r] # "none" => status[r] \in {"500", "502", "null", "raised"}

RequestInv(r) ==
    /\ PhaseInv(r) /\ PagingInv(r) /\ LookingInv(r)
    /\ ListedInv(r) /\ RedirectInv(r) /\ ToldInv(r)

ArtifactsInv ==
    /\ ArtifactsTypeOK
    /\ StorageInv
    /\ \A r \in Requests : RequestInv(r)

-----------------------------------------------------------------------------
(* A request that takes no step keeps its invariant, whatever the others,  *)
(* the workers and the removals do to the storage.                         *)

Unmoved(r) ==
    /\ phase'[r] = phase[r] /\ kind'[r] = kind[r] /\ path'[r] = path[r]
    /\ token'[r] = token[r] /\ found'[r] = found[r] /\ items'[r] = items[r]
    /\ atStart'[r] = atStart[r] /\ failed'[r] = failed[r] /\ status'[r] = status[r]

StorageStep ==
    /\ backend' = backend
    /\ record' => record
    /\ removed \subseteq removed'
    /\ bucket \cup removed \subseteq bucket' \cup removed'
    /\ backend = "s3" => bucket \subseteq bucket'

(* What the others do to the storage does not disturb it.                  *)
LEMMA UnmovedKeepsInv ==
    ASSUME StorageStep, NEW r \in Requests, RequestInv(r), Unmoved(r)
    PROVE  RequestInv(r)'
<1>1. PhaseInv(r)'
  BY DEF RequestInv, PhaseInv, Unmoved, StorageStep
<1>2. PagingInv(r)'
  BY DEF RequestInv, PhaseInv, PagingInv, Unmoved, StorageStep
<1>3. LookingInv(r)'
  BY DEF RequestInv, LookingInv, Unmoved, StorageStep
<1>4. ListedInv(r)'
  BY DEF RequestInv, ListedInv, Unmoved, StorageStep
<1>5. RedirectInv(r)'
  BY DEF RequestInv, RedirectInv, Unmoved, StorageStep
<1>6. ToldInv(r)'
  BY DEF RequestInv, ToldInv, Unmoved
<1> QED
  BY <1>1, <1>2, <1>3, <1>4, <1>5, <1>6 DEF RequestInv

-----------------------------------------------------------------------------
(* What S3 answers.                                                        *)

Asked(prefix, after) ==
    {k \in bucket : IsPrefix(prefix, k) /\ (after = <<>> \/ Before(after, k))}

Begins(s, n, all) == Len(s) = n /\ \A i \in 1 .. n : s[i] = all[i]

(* The first items of a list in order: those that are left out are after   *)
(* the last that is in.                                                    *)
LEMMA FirstItems ==
    ASSUME NEW all \in Seq(Keys), Increasing(all), NEW limit \in Nat \ {0},
           NEW n \in Nat, n <= Len(all), n <= limit, n = Len(all) \/ n = limit,
           NEW s \in Seq(Keys), Begins(s, n, all)
    PROVE  /\ s \in Seq(Keys) /\ Increasing(s) /\ Range(s) \subseteq Range(all)
           /\ Len(all) <= limit => Range(s) = Range(all)
           /\ Len(all) > limit => s # <<>>
           /\ s = <<>> => Range(all) = {}
           /\ \A k \in Range(all) : k \in Range(s) \/ Before(Last(s), k)
<1>1. Len(all) \in Nat /\ limit \in Nat /\ limit > 0
  OBVIOUS
<1>2. Len(s) = n /\ \A i \in 1 .. n : s[i] = all[i]
  BY DEF Begins
<1>3. Increasing(s)
  <2> SUFFICES ASSUME NEW i \in 1 .. n, NEW j \in 1 .. n, i < j
               PROVE  Before(s[i], s[j])
    BY <1>2 DEF Increasing
  <2>1. i \in DOMAIN all /\ j \in DOMAIN all
    BY <1>1
  <2> QED
    BY <1>2, <2>1 DEF Increasing
<1>4. Range(s) \subseteq Range(all)
  BY <1>1, <1>2 DEF Range
<1>5. Len(all) <= limit => Range(s) = Range(all)
  <2>1. Len(all) <= limit => n = Len(all)
    BY <1>1, <1>2
  <2> QED
    BY <1>1, <1>2, <2>1 DEF Range
<1>6. ASSUME NEW k \in Range(all)
      PROVE  k \in Range(s) \/ Before(Last(s), k)
  <2>1. PICK i \in 1 .. Len(all) : all[i] = k
    BY <1>1 DEF Range
  <2>2. CASE i <= n
    BY <1>2, <2>1, <2>2 DEF Range
  <2>3. CASE n < i
    <3>1. n \in 1 .. Len(all) /\ n = limit
      BY <1>1, <1>2, <2>1, <2>3
    <3>2. Last(s) = all[n] /\ Before(all[n], k)
      BY <1>1, <1>2, <2>1, <2>3, <3>1 DEF Last, Increasing
    <3> QED
      BY <3>2
  <2> QED
    BY <1>1, <1>2, <2>1, <2>2, <2>3
<1>7. s = <<>> => Len(all) = 0
  BY <1>1, <1>2
<1>8. Len(all) = 0 => Range(all) = {}
  BY <1>1 DEF Range
<1> QED
  BY <1>1, <1>3, <1>4, <1>5, <1>6, <1>7, <1>8

(* A page lists keys that were asked for, in order, and leaves out only    *)
(* keys after its last one, none of them if it is not truncated.           *)
IsPageOf(page, S, limit) ==
    /\ page.keys \in Seq(Keys) /\ Increasing(page.keys) /\ Len(page.keys) <= limit
    /\ Range(page.keys) \subseteq S
    /\ page.truncated \in BOOLEAN
    /\ page.truncated => page.keys # <<>>
    /\ ~page.truncated => Range(page.keys) = S
    /\ page.keys = <<>> => S = {}
    /\ \A k \in S : k \in Range(page.keys) \/ Before(Last(page.keys), k)

(* What one page has, and what it leaves for later.                        *)
LEMMA PageOfKeys ==
    ASSUME bucket \subseteq Keys, IsFiniteSet(bucket), NEW limit \in Nat \ {0},
           NEW prefix, NEW after
    PROVE  IsPageOf(Page(prefix, after, limit), Asked(prefix, after), limit)
<1> DEFINE page == Page(prefix, after, limit)
           S == Asked(prefix, after)
           all == Sorted(S)
<1>1. S \subseteq Keys /\ IsFiniteSet(S)
  BY FS_Subset DEF Asked
<1>2. all \in Seq(S) /\ Range(all) = S /\ Increasing(all)
  BY <1>1, SortedKeys
<1>3. /\ page.keys = SubSeq(all, 1, Min({limit, Len(all)}))
      /\ page.truncated \in BOOLEAN /\ (page.truncated <=> Len(all) > limit)
  <2>1. page = [keys |-> SubSeq(all, 1, Min({limit, Len(all)})), truncated |-> Len(all) > limit]
    BY DEF Page, Listed, Asked
  <2> HIDE DEF page, all
  <2>2. (Len(all) > limit) \in BOOLEAN
    OBVIOUS
  <2> QED
    BY <2>1, <2>2
<1>4. all \in Seq(Keys) /\ Len(all) \in Nat /\ limit \in Nat
  BY <1>1, <1>2
<1> HIDE DEF page, S, all
<1> DEFINE n == Min({limit, Len(all)})
<1>5. n \in Nat /\ n <= Len(all) /\ n <= limit /\ (n = Len(all) \/ n = limit)
  <2>1. \E m \in {limit, Len(all)} : \A k \in {limit, Len(all)} : m <= k
    BY <1>4
  <2>2. n \in {limit, Len(all)} /\ \A k \in {limit, Len(all)} : n <= k
    BY <2>1 DEF Min
  <2> HIDE DEF n
  <2> QED
    BY <1>4, <2>2
<1>6. page.keys = SubSeq(all, 1, n)
  BY <1>3
<1> HIDE DEF n
<1>7. page.keys \in Seq(Keys) /\ Begins(page.keys, n, all)
  BY <1>4, <1>5, <1>6 DEF Begins
<1>8. /\ Increasing(page.keys) /\ Range(page.keys) \subseteq Range(all)
      /\ Len(all) <= limit => Range(page.keys) = Range(all)
      /\ Len(all) > limit => page.keys # <<>>
      /\ page.keys = <<>> => Range(all) = {}
      /\ \A k \in Range(all) : k \in Range(page.keys) \/ Before(Last(page.keys), k)
  BY <1>2, <1>4, <1>5, <1>7, FirstItems
<1>9. ~(Len(all) > limit) => Len(all) <= limit
  BY <1>4
<1>10. IsPageOf(page, S, limit)
  <2>1. page.truncated \in BOOLEAN /\ (page.truncated <=> Len(all) > limit)
    BY <1>3
  <2>2. page.keys \in Seq(Keys) /\ Len(page.keys) <= limit
    BY <1>5, <1>7 DEF Begins
  <2> QED
    BY <1>2, <1>8, <1>9, <2>1, <2>2 DEF IsPageOf
<1> QED
  BY <1>10 DEF page, S

(* A key that begins with another one is not before it.                    *)
LEMMA PrefixNotAfter ==
    ASSUME NEW p \in Seq(Nat), NEW k \in Seq(Nat), IsPrefix(p, k)
    PROVE  ~Before(k, p)
  BY PrefixByItems DEF Before

(* S3 is asked for one key only, and tells of the object at a path exactly *)
(* when it is there: the path is the first of the keys that begin with it. *)
LEMMA ObjectExistsIsExact ==
    ASSUME bucket \subseteq Keys, IsFiniteSet(bucket), NEW p \in Keys
    PROVE  ObjectExists(p) <=> p \in bucket
<1> DEFINE page == Page(p, <<>>, 1)
           S == Asked(p, <<>>)
<1>1. IsPageOf(page, S, 1)
  BY PageOfKeys
<1>2. \A k \in S : k \in bucket /\ IsPrefix(p, k)
  BY DEF Asked
<1>3. p \in Seq(Nat) /\ p # <<>> /\ \A k \in bucket : k \in Seq(Nat)
  BY ArtifactsAssumption
<1>4. p \in bucket => p \in S
  <2>1. IsPrefix(p, p)
    BY <1>3, PrefixByItems
  <2> QED
    BY <2>1 DEF Asked
<1>5. ObjectExists(p) <=> page.keys = <<p>>
  BY DEF ObjectExists
<1> HIDE DEF page, S
<1>6. page.keys \in Seq(Keys) /\ Len(page.keys) <= 1 /\ Range(page.keys) \subseteq S
  BY <1>1 DEF IsPageOf
<1>7. ASSUME page.keys = <<p>> PROVE p \in bucket
  <2>1. p \in Range(page.keys)
    BY <1>7 DEF Range
  <2> QED
    BY <1>2, <1>6, <2>1
<1>8. ASSUME p \in bucket PROVE page.keys = <<p>>
  <2>1. p \in S /\ page.keys # <<>>
    BY <1>1, <1>4, <1>8 DEF IsPageOf
  <2>2. Len(page.keys) = 1 /\ Last(page.keys) = page.keys[1]
    <3>1. Len(page.keys) \in Nat /\ Len(page.keys) # 0
      BY <1>6, <2>1
    <3>2. Len(page.keys) <= 1
      BY <1>6
    <3>3. Len(page.keys) = 1
      <4>1. \A m \in Nat : m # 0 /\ m <= 1 => m = 1
        OBVIOUS
      <4> QED
        BY <3>1, <3>2, <4>1
    <3> QED
      BY <3>3 DEF Last
  <2>3. Range(page.keys) = {page.keys[1]}
    BY <1>6, <2>2 DEF Range
  <2>4. ~Before(page.keys[1], p)
    BY <1>2, <1>3, <1>6, <2>3, PrefixNotAfter
  <2>5. p = page.keys[1]
    BY <1>1, <2>1, <2>2, <2>3, <2>4 DEF IsPageOf
  <2> QED
    BY <1>6, <2>2, <2>5
<1> QED
  BY <1>5, <1>7, <1>8

-----------------------------------------------------------------------------
(* The steps of the requests.                                              *)

(* Nobody has asked yet.                                                   *)
LEMMA InvHoldsInitially == ArtifactsInit => ArtifactsInv
<1> SUFFICES ASSUME ArtifactsInit PROVE ArtifactsInv
  OBVIOUS
<1>1. ArtifactsTypeOK
  BY DEF ArtifactsInit, ArtifactsTypeOK, Kinds, Phases, Statuses
<1>2. StorageInv
  BY FS_EmptySet DEF ArtifactsInit, StorageInv
<1>3. ASSUME NEW r \in Requests PROVE RequestInv(r)
  BY DEF ArtifactsInit, RequestInv, PhaseInv, PagingInv, LookingInv, ListedInv,
         RedirectInv, ToldInv
<1> QED
  BY <1>1, <1>2, <1>3 DEF ArtifactsInv

(* What any step of a request leaves alone.                                *)
OthersUnmoved(r) == \A q \in Requests \ {r} : Unmoved(q)

(* A step of one request has to be looked at for this request only.        *)
LEMMA RequestKeepsInv ==
    ASSUME ArtifactsInv, NEW r \in Requests, UNCHANGED storageVars, OthersUnmoved(r),
           ArtifactsTypeOK', RequestInv(r)'
    PROVE  ArtifactsInv'
<1>1. StorageStep
  BY DEF storageVars, StorageStep
<1>2. StorageInv'
  BY DEF ArtifactsInv, StorageInv, storageVars
<1>3. \A q \in Requests : RequestInv(q)'
  <2> TAKE q \in Requests
  <2>1. CASE q = r
    BY <2>1
  <2>2. CASE q # r
    BY <1>1, <2>2, UnmovedKeepsInv DEF ArtifactsInv, OthersUnmoved
  <2> QED
    BY <2>1, <2>2
<1> QED
  BY <1>2, <1>3 DEF ArtifactsInv

(* A failure is answered as one.                                           *)
LEMMA FailsKeepsInv ==
    ASSUME ArtifactsInv, NEW r \in Requests, phase[r] # "answered",
           NEW failure \in Failures \cup {"gone"}, Fails(r, failure)
    PROVE  ArtifactsInv'
<1> DEFINE s == OnFailure(r, failure)
<1>1. s \in {"500", "502", "null", "raised"} /\ failure # "none" /\ s \in Statuses
  BY ArtifactsAssumption DEF OnFailure, AllFailures, Statuses
<1>2. /\ failed' = [failed EXCEPT ![r] = failure]
      /\ phase' = [phase EXCEPT ![r] = "answered"]
      /\ status' = [status EXCEPT ![r] = s]
      /\ UNCHANGED <<storageVars, requestVars, token, found, items>>
  BY DEF Fails, Answer
<1> HIDE DEF s
<1>3. ArtifactsTypeOK'
  BY <1>1, <1>2 DEF ArtifactsInv, ArtifactsTypeOK, storageVars, requestVars, Phases
<1>4. OthersUnmoved(r)
  BY <1>2 DEF ArtifactsInv, ArtifactsTypeOK, OthersUnmoved, Unmoved, requestVars
<1>5. /\ phase'[r] = "answered" /\ status'[r] = s /\ failed'[r] = failure
      /\ atStart'[r] = atStart[r] /\ bucket' = bucket /\ removed' = removed
  BY <1>2 DEF ArtifactsInv, ArtifactsTypeOK, storageVars, requestVars
<1>6. RequestInv(r)'
  BY <1>1, <1>5 DEF ArtifactsInv, RequestInv, PhaseInv, PagingInv, LookingInv, ListedInv,
                    RedirectInv, ToldInv
<1> QED
  BY <1>2, <1>3, <1>4, <1>6, RequestKeepsInv

(* A list of nothing is in order.                                          *)
LEMMA EmptyItems == Range(<<>>) = {} /\ Increasing(<<>>) /\ IsInjective(<<>>)
  BY DEF Range, Increasing, IsInjective

(* A request is made: what there is at this moment is its atStart.         *)
LEMMA RequestKeeps ==
    ASSUME ArtifactsInv, NEW r \in Requests, NEW k \in Kinds, NEW p \in Keys \cup {BadPath},
           Request(r, k, p)
    PROVE  ArtifactsInv'
<1> DEFINE start == IF k = "link" THEN "resolve" ELSE "lookup"
<1>1. /\ phase[r] = "idle"
      /\ kind' = [kind EXCEPT ![r] = k] /\ path' = [path EXCEPT ![r] = p]
      /\ phase' = [phase EXCEPT ![r] = start] /\ atStart' = [atStart EXCEPT ![r] = bucket]
      /\ UNCHANGED <<storageVars, token, found, items, failed, status>>
  BY DEF Request
<1>2. start \in Phases /\ (start = "resolve" => k # "list") /\ (start = "lookup" => k # "link")
      /\ start \in {"resolve", "lookup"}
  BY DEF Phases, Kinds
<1> HIDE DEF start
<1>3. ArtifactsTypeOK'
  BY <1>1, <1>2 DEF ArtifactsInv, ArtifactsTypeOK, storageVars
<1>4. OthersUnmoved(r)
  BY <1>1 DEF ArtifactsInv, ArtifactsTypeOK, OthersUnmoved, Unmoved
<1>5. /\ phase'[r] = start /\ kind'[r] = k /\ path'[r] = p /\ atStart'[r] = bucket
      /\ status'[r] = status[r] /\ failed'[r] = failed[r] /\ items'[r] = items[r]
      /\ token'[r] = token[r] /\ bucket' = bucket /\ removed' = removed
  BY <1>1 DEF ArtifactsInv, ArtifactsTypeOK, storageVars
<1>6. PhaseInv(r)
  BY DEF ArtifactsInv, RequestInv
<1>7. status'[r] = "none" /\ failed'[r] = "none"
  BY <1>1, <1>5, <1>6 DEF PhaseInv
<1>8. RequestInv(r)'
  BY <1>1, <1>2, <1>5, <1>6, <1>7
  DEF RequestInv, PhaseInv, PagingInv, LookingInv, ListedInv, RedirectInv, ToldInv
<1> QED
  BY <1>1, <1>3, <1>4, <1>8, RequestKeepsInv

(* The record is looked up, which may answer 404.                          *)
LEMMA LookupKeeps ==
    ASSUME ArtifactsInv, NEW r \in Requests, Lookup(r)
    PROVE  ArtifactsInv'
<1>1. /\ phase[r] = "lookup"
      /\ UNCHANGED <<storageVars, requestVars, token, found, items, failed>>
  BY DEF Lookup
<1>2. PhaseInv(r) /\ kind[r] \in Kinds
  BY DEF ArtifactsInv, RequestInv, ArtifactsTypeOK
<1>3. CASE ~record /\ Answer(r, "404")
  <2>1. ArtifactsTypeOK'
    BY <1>1, <1>3 DEF ArtifactsInv, ArtifactsTypeOK, storageVars, requestVars, Answer, Phases, Statuses
  <2>2. OthersUnmoved(r)
    BY <1>1, <1>3 DEF ArtifactsInv, ArtifactsTypeOK, OthersUnmoved, Unmoved, requestVars, Answer
  <2>3. /\ phase'[r] = "answered" /\ status'[r] = "404" /\ ~record'
        /\ atStart'[r] = atStart[r] /\ bucket' = bucket /\ removed' = removed
        /\ failed'[r] = failed[r]
    BY <1>1, <1>3 DEF ArtifactsInv, ArtifactsTypeOK, storageVars, requestVars, Answer
  <2>4. RequestInv(r)'
    BY <1>1, <1>2, <2>3
    DEF RequestInv, PhaseInv, PagingInv, LookingInv, ListedInv, RedirectInv, ToldInv
  <2> QED
    BY <1>1, <2>1, <2>2, <2>4, RequestKeepsInv
<1>4. CASE record /\ Asks(r) /\ UNCHANGED status
  <2> DEFINE next == IF kind[r] = "download" THEN "resolve"
                     ELSE IF backend = "s3" THEN "page" ELSE "walk"
  <2>1. phase' = [phase EXCEPT ![r] = next]
    BY <1>4 DEF Asks
  <2>2. /\ next \in {"resolve", "page", "walk"}
        /\ next = "resolve" => kind[r] = "download"
        /\ next \in {"page", "walk"} => kind[r] = "list"
        /\ next = "page" => backend = "s3"
    BY <1>1, <1>2 DEF PhaseInv, Kinds
  <2> HIDE DEF next
  <2>3. ArtifactsTypeOK'
    BY <1>1, <1>4, <2>1, <2>2 DEF ArtifactsInv, ArtifactsTypeOK, storageVars, requestVars, Phases
  <2>4. OthersUnmoved(r)
    BY <1>1, <1>4, <2>1 DEF ArtifactsInv, ArtifactsTypeOK, OthersUnmoved, Unmoved, requestVars
  <2>5. /\ phase'[r] = next /\ status'[r] = status[r] /\ backend' = backend
        /\ atStart'[r] = atStart[r] /\ bucket' = bucket /\ removed' = removed
        /\ failed'[r] = failed[r] /\ items'[r] = items[r] /\ token'[r] = token[r]
        /\ kind'[r] = kind[r] /\ path'[r] = path[r]
    BY <1>1, <1>4, <2>1 DEF ArtifactsInv, ArtifactsTypeOK, storageVars, requestVars
  <2>6. items'[r] = <<>> /\ token'[r] = <<>> /\ status'[r] = "none" /\ failed'[r] = "none"
    BY <1>1, <1>2, <2>5 DEF PhaseInv
  <2>7. RequestInv(r)'
    BY <1>1, <1>2, <2>2, <2>5, <2>6, EmptyItems
    DEF RequestInv, PhaseInv, PagingInv, LookingInv, ListedInv, RedirectInv, ToldInv
  <2> QED
    BY <1>1, <2>3, <2>4, <2>7, RequestKeepsInv
<1> QED
  BY <1>3, <1>4 DEF Lookup

(* The walk finds the files that are there.                                *)
LEMMA WalkKeeps ==
    ASSUME ArtifactsInv, NEW r \in Requests, Walk(r)
    PROVE  ArtifactsInv'
<1>1. /\ phase[r] = "walk"
      /\ found' = [found EXCEPT ![r] = bucket] /\ phase' = [phase EXCEPT ![r] = "stat"]
      /\ UNCHANGED <<storageVars, requestVars, token, items, failed, status>>
  BY DEF Walk
<1>2. PhaseInv(r)
  BY DEF ArtifactsInv, RequestInv
<1>3. ArtifactsTypeOK'
  BY <1>1 DEF ArtifactsInv, ArtifactsTypeOK, storageVars, requestVars, Phases
<1>4. OthersUnmoved(r)
  BY <1>1 DEF ArtifactsInv, ArtifactsTypeOK, OthersUnmoved, Unmoved, requestVars
<1>5. /\ phase'[r] = "stat" /\ status'[r] = status[r] /\ found'[r] = bucket
      /\ atStart'[r] = atStart[r] /\ bucket' = bucket /\ removed' = removed
      /\ failed'[r] = failed[r] /\ items'[r] = items[r] /\ kind'[r] = kind[r]
  BY <1>1 DEF ArtifactsInv, ArtifactsTypeOK, storageVars, requestVars
<1>6. items'[r] = <<>> /\ status'[r] = "none" /\ failed'[r] = "none"
  BY <1>1, <1>2, <1>5 DEF PhaseInv
<1>7. RequestInv(r)'
  BY <1>1, <1>2, <1>5, <1>6, EmptyItems
  DEF RequestInv, PhaseInv, PagingInv, LookingInv, ListedInv, RedirectInv, ToldInv
<1> QED
  BY <1>1, <1>3, <1>4, <1>7, RequestKeepsInv

(* A file that is looked at for the first time is listed once.             *)
LEMMA AppendedItem ==
    ASSUME NEW s \in Seq(Keys), NEW k \in Keys
    PROVE  /\ Append(s, k) \in Seq(Keys)
           /\ Range(Append(s, k)) = Range(s) \cup {k}
           /\ IsInjective(s) /\ k \notin Range(s) => IsInjective(Append(s, k))
<1>1. /\ Append(s, k) \in Seq(Keys) /\ Len(Append(s, k)) = Len(s) + 1
      /\ \A i \in 1 .. Len(s) : Append(s, k)[i] = s[i]
      /\ Append(s, k)[Len(s) + 1] = k
  OBVIOUS
<1> DEFINE t == Append(s, k)
<1> HIDE DEF t
<1>2. \A i \in 1 .. Len(t) : i \in 1 .. Len(s) \/ i = Len(s) + 1
  BY <1>1 DEF t
<1>3. \A i \in 1 .. Len(s) : i \in 1 .. Len(t) /\ t[i] = s[i]
  BY <1>1 DEF t
<1>4. Len(s) + 1 \in 1 .. Len(t) /\ t[Len(s) + 1] = k
  BY <1>1 DEF t
<1>5. t \in Seq(Keys)
  BY <1>1 DEF t
<1>6. Range(t) = Range(s) \cup {k}
  BY <1>2, <1>3, <1>4, <1>5 DEF Range
<1>7. ASSUME IsInjective(s), k \notin Range(s) PROVE IsInjective(t)
  BY <1>2, <1>3, <1>4, <1>5, <1>7 DEF IsInjective, Range
<1> QED
  BY <1>5, <1>6, <1>7 DEF t

(* A look at one file, or the end of the list and its sort.                *)
LEMMA StatKeeps ==
    ASSUME ArtifactsInv, NEW r \in Requests, Stat(r)
    PROVE  ArtifactsInv'
<1>1. phase[r] = "stat"
  BY DEF Stat
<1>2. PhaseInv(r) /\ LookingInv(r) /\ items[r] \in Seq(Keys) /\ ToldInv(r)
  BY DEF ArtifactsInv, RequestInv, ArtifactsTypeOK
<1>3. CASE /\ found[r] = {}
           /\ items' = [items EXCEPT ![r] = InOrder(@)]
           /\ Answer(r, "200")
           /\ UNCHANGED <<storageVars, requestVars, token, found, failed>>
  <2>1. /\ InOrder(items[r]) \in Seq(Keys) /\ Range(InOrder(items[r])) = Range(items[r])
        /\ Increasing(InOrder(items[r]))
    BY <1>1, <1>2, ListInOrder DEF LookingInv
  <2>2. ArtifactsTypeOK'
    BY <1>3, <2>1
    DEF ArtifactsInv, ArtifactsTypeOK, storageVars, requestVars, Answer, Phases, Statuses
  <2>3. OthersUnmoved(r)
    BY <1>3 DEF ArtifactsInv, ArtifactsTypeOK, OthersUnmoved, Unmoved, requestVars, Answer
  <2>4. /\ phase'[r] = "answered" /\ status'[r] = "200" /\ failed'[r] = failed[r]
        /\ items'[r] = InOrder(items[r]) /\ kind'[r] = kind[r]
        /\ atStart'[r] = atStart[r] /\ bucket' = bucket /\ removed' = removed
    BY <1>3 DEF ArtifactsInv, ArtifactsTypeOK, storageVars, requestVars, Answer
  <2>5. RequestInv(r)'
    BY <1>1, <1>2, <1>3, <2>1, <2>4
    DEF RequestInv, PhaseInv, PagingInv, LookingInv, ListedInv, RedirectInv, ToldInv
  <2> QED
    BY <1>3, <2>2, <2>3, <2>5, RequestKeepsInv
<1>4. ASSUME NEW k \in found[r], k \in bucket,
             found' = [found EXCEPT ![r] = @ \ {k}],
             items' = [items EXCEPT ![r] = Append(@, k)],
             UNCHANGED <<storageVars, requestVars, phase, token, failed, status>>
      PROVE  ArtifactsInv'
  <2>1. k \in Keys /\ k \notin Range(items[r])
    BY <1>1, <1>2, <1>4 DEF ArtifactsInv, ArtifactsTypeOK, LookingInv
  <2>2. /\ Append(items[r], k) \in Seq(Keys)
        /\ Range(Append(items[r], k)) = Range(items[r]) \cup {k}
        /\ IsInjective(Append(items[r], k))
    BY <1>1, <1>2, <2>1, AppendedItem DEF LookingInv
  <2>3. ArtifactsTypeOK'
    BY <1>4, <2>2 DEF ArtifactsInv, ArtifactsTypeOK, storageVars, requestVars
  <2>4. OthersUnmoved(r)
    BY <1>4 DEF ArtifactsInv, ArtifactsTypeOK, OthersUnmoved, Unmoved, requestVars
  <2>5. /\ phase'[r] = "stat" /\ status'[r] = status[r] /\ failed'[r] = failed[r]
        /\ items'[r] = Append(items[r], k) /\ kind'[r] = kind[r] /\ found'[r] = found[r] \ {k}
        /\ atStart'[r] = atStart[r] /\ bucket' = bucket /\ removed' = removed
    BY <1>1, <1>4 DEF ArtifactsInv, ArtifactsTypeOK, storageVars, requestVars
  <2>6. LookingInv(r)'
    BY <1>1, <1>2, <1>4, <2>2, <2>5 DEF LookingInv
  <2>7. RequestInv(r)'
    BY <1>1, <1>2, <2>5, <2>6
    DEF RequestInv, PhaseInv, PagingInv, ListedInv, RedirectInv, ToldInv
  <2> QED
    BY <1>4, <2>3, <2>4, <2>7, RequestKeepsInv
<1> QED
  BY <1>1, <1>3, <1>4, FailsKeepsInv DEF Stat

(* The file is opened, unless it is gone.                                  *)
LEMMA ServeKeeps ==
    ASSUME ArtifactsInv, NEW r \in Requests, Serve(r)
    PROVE  ArtifactsInv'
<1>1. phase[r] = "serve"
  BY DEF Serve
<1>2. PhaseInv(r)
  BY DEF ArtifactsInv, RequestInv
<1>3. CASE /\ path[r] \in bucket
           /\ Answer(r, "200")
           /\ UNCHANGED <<storageVars, requestVars, token, found, items, failed>>
  <2>1. ArtifactsTypeOK'
    BY <1>3 DEF ArtifactsInv, ArtifactsTypeOK, storageVars, requestVars, Answer, Phases, Statuses
  <2>2. OthersUnmoved(r)
    BY <1>3 DEF ArtifactsInv, ArtifactsTypeOK, OthersUnmoved, Unmoved, requestVars, Answer
  <2>3. /\ phase'[r] = "answered" /\ status'[r] = "200" /\ failed'[r] = failed[r]
        /\ path'[r] = path[r] /\ kind'[r] = kind[r]
        /\ atStart'[r] = atStart[r] /\ bucket' = bucket /\ removed' = removed
    BY <1>3 DEF ArtifactsInv, ArtifactsTypeOK, storageVars, requestVars, Answer
  <2>4. RequestInv(r)'
    BY <1>1, <1>2, <1>3, <2>3
    DEF RequestInv, PhaseInv, PagingInv, LookingInv, ListedInv, RedirectInv, ToldInv
  <2> QED
    BY <1>3, <2>1, <2>2, <2>4, RequestKeepsInv
<1> QED
  BY <1>1, <1>3, FailsKeepsInv DEF Serve

(* A download or a link is resolved; S3 is asked for its very key.         *)
LEMMA ResolveKeeps ==
    ASSUME ArtifactsInv, NEW r \in Requests, Resolve(r)
    PROVE  ArtifactsInv'
<1>1. phase[r] = "resolve"
  BY DEF Resolve
<1>2. PhaseInv(r) /\ kind[r] \in {"download", "link"} /\ path[r] \in Keys \cup {BadPath}
  BY <1>1 DEF ArtifactsInv, ArtifactsTypeOK, RequestInv, PhaseInv, Kinds
<1>3. path[r] # BadPath => (ObjectExists(path[r]) <=> path[r] \in bucket)
  BY <1>2, ObjectExistsIsExact DEF ArtifactsInv, ArtifactsTypeOK, StorageInv
<1>4. ASSUME NEW s \in Statuses, Answer(r, s),
             UNCHANGED <<storageVars, requestVars, token, found, items, failed>>,
             \/ s = "400"
             \/ path[r] # BadPath /\ s = Resolved(r)
                /\ ~(backend = "local" /\ kind[r] = "download" /\ path[r] \in bucket)
      PROVE  ArtifactsInv'
  <2>1. ArtifactsTypeOK'
    BY <1>4 DEF ArtifactsInv, ArtifactsTypeOK, storageVars, requestVars, Answer, Phases
  <2>2. OthersUnmoved(r)
    BY <1>4 DEF ArtifactsInv, ArtifactsTypeOK, OthersUnmoved, Unmoved, requestVars, Answer
  <2>3. /\ phase'[r] = "answered" /\ status'[r] = s /\ failed'[r] = failed[r]
        /\ path'[r] = path[r] /\ kind'[r] = kind[r] /\ backend' = backend
        /\ atStart'[r] = atStart[r] /\ bucket' = bucket /\ removed' = removed
    BY <1>4 DEF ArtifactsInv, ArtifactsTypeOK, storageVars, requestVars, Answer
  <2>4. failed[r] = "none" /\ backend \in {"s3", "local"}
    BY <1>1, <1>2 DEF PhaseInv, ArtifactsInv, ArtifactsTypeOK
  <2>5. RequestInv(r)'
    <3>1. CASE s = "400"
      BY <1>2, <2>3, <2>4, <3>1
      DEF RequestInv, PhaseInv, PagingInv, LookingInv, ListedInv, RedirectInv, ToldInv
    <3>2. CASE s # "400"
      <4>1. /\ s \in {"307", "url"} => backend = "s3" /\ path[r] \in bucket
            /\ s \in {"307", "url", "404", "null"}
            /\ s \in {"404", "null"} /\ (kind[r] = "link" => backend = "s3")
                 => path[r] \notin bucket
        BY <1>2, <1>3, <1>4, <2>4, <3>2 DEF Resolved
      <4>2. atStart[r] \subseteq bucket \cup removed
        BY <1>2 DEF PhaseInv
      <4>3. RedirectInv(r)'
        BY <2>3, <4>1, <4>2 DEF RedirectInv
      <4>4. /\ PhaseInv(r)' /\ PagingInv(r)' /\ LookingInv(r)'
            /\ ListedInv(r)' /\ ToldInv(r)'
        BY <1>2, <2>3, <2>4, <4>1 DEF PhaseInv, PagingInv, LookingInv, ListedInv, ToldInv
      <4> QED
        BY <4>3, <4>4 DEF RequestInv
    <3> QED
      BY <3>1, <3>2
  <2> QED
    BY <1>4, <2>1, <2>2, <2>5, RequestKeepsInv
<1>5. ASSUME path[r] \in bucket, kind[r] = "download",
             phase' = [phase EXCEPT ![r] = "serve"],
             UNCHANGED <<storageVars, requestVars, token, found, items, failed, status>>
      PROVE  ArtifactsInv'
  <2>1. ArtifactsTypeOK'
    BY <1>5 DEF ArtifactsInv, ArtifactsTypeOK, storageVars, requestVars, Phases
  <2>2. OthersUnmoved(r)
    BY <1>5 DEF ArtifactsInv, ArtifactsTypeOK, OthersUnmoved, Unmoved, requestVars
  <2>3. /\ phase'[r] = "serve" /\ status'[r] = status[r] /\ failed'[r] = failed[r]
        /\ path'[r] = path[r] /\ kind'[r] = kind[r]
        /\ atStart'[r] = atStart[r] /\ bucket' = bucket /\ removed' = removed
    BY <1>5 DEF ArtifactsInv, ArtifactsTypeOK, storageVars, requestVars
  <2>4. RequestInv(r)'
    BY <1>1, <1>2, <1>5, <2>3
    DEF RequestInv, PhaseInv, PagingInv, LookingInv, ListedInv, RedirectInv, ToldInv
  <2> QED
    BY <1>5, <2>1, <2>2, <2>4, RequestKeepsInv
<1>6. Resolved(r) \in Statuses /\ "400" \in Statuses
  BY DEF Resolved, Statuses
<1>7. CASE /\ path[r] = BadPath
           /\ Answer(r, "400")
           /\ UNCHANGED <<storageVars, requestVars, token, found, items, failed>>
  BY <1>4, <1>6, <1>7
<1>8. CASE /\ path[r] # BadPath
           /\ IF backend = "local" /\ kind[r] = "download" /\ path[r] \in bucket
              THEN phase' = [phase EXCEPT ![r] = "serve"] /\ UNCHANGED status
              ELSE Answer(r, Resolved(r))
           /\ UNCHANGED <<storageVars, requestVars, token, found, items, failed>>
  <2>1. CASE backend = "local" /\ kind[r] = "download" /\ path[r] \in bucket
    BY <1>5, <1>8, <2>1
  <2>2. CASE ~(backend = "local" /\ kind[r] = "download" /\ path[r] \in bucket)
    BY <1>4, <1>6, <1>8, <2>2
  <2> QED
    BY <2>1, <2>2
<1>9. CASE \E failure \in Failures : Fails(r, failure)
  BY <1>1, <1>9, FailsKeepsInv
<1> QED
  BY <1>7, <1>8, <1>9 DEF Resolve

(* No key is before itself, and the order is transitive, among Keys.       *)
LEMMA KeysBefore ==
    /\ \A k \in Keys : ~Before(k, k)
    /\ \A k, l, m \in Keys : Before(k, l) /\ Before(l, m) => Before(k, m)
<1>1. \A k \in Keys : k \in Seq(Nat)
  BY ArtifactsAssumption
<1> QED
  BY <1>1, BeforeIrreflexive, BeforeTransitive

(* A list in order followed by later keys in order is in order.            *)
LEMMA FollowingItems ==
    ASSUME NEW s \in Seq(Keys), NEW t \in Seq(Keys), Increasing(s), Increasing(t),
           \A k \in Range(s), l \in Range(t) : Before(k, l)
    PROVE  /\ s \o t \in Seq(Keys) /\ Range(s \o t) = Range(s) \cup Range(t)
           /\ Increasing(s \o t) /\ IsInjective(s \o t)
<1> DEFINE u == s \o t
           m == Len(s)
           n == Len(t)
<1>1. /\ u \in Seq(Keys) /\ m \in Nat /\ n \in Nat /\ Len(u) = m + n
      /\ \A i \in 1 .. m : u[i] = s[i] /\ i \in DOMAIN s
      /\ \A i \in 1 .. n : u[m + i] = t[i] /\ i \in DOMAIN t
  OBVIOUS
<1>2. DOMAIN s = 1 .. m /\ DOMAIN t = 1 .. n /\ DOMAIN u = 1 .. m + n
  BY <1>1
<1> HIDE DEF u, m, n
<1>3. ASSUME NEW i \in 1 .. m + n
      PROVE  i \in 1 .. m \/ \E j \in 1 .. n : i = m + j
  <2>1. CASE i <= m
    BY <1>1, <2>1
  <2>2. CASE m < i
    <3>1. i - m \in 1 .. n /\ i = m + (i - m)
      BY <1>1, <2>2
    <3> QED
      BY <3>1
  <2> QED
    BY <1>1, <2>1, <2>2
<1>4. \A i \in 1 .. m : i \in 1 .. m + n
  BY <1>1
<1>5. \A i \in 1 .. n : m + i \in 1 .. m + n
  BY <1>1
<1>6. Range(u) = Range(s) \cup Range(t)
  <2>1. ASSUME NEW k \in Range(u) PROVE k \in Range(s) \cup Range(t)
    <3>1. PICK i \in 1 .. m + n : k = u[i]
      BY <1>2 DEF Range
    <3>2. CASE i \in 1 .. m
      BY <1>1, <3>1, <3>2 DEF Range
    <3>3. CASE \E j \in 1 .. n : i = m + j
      BY <1>1, <3>1, <3>3 DEF Range
    <3> QED
      BY <1>3, <3>2, <3>3
  <2>2. Range(s) \subseteq Range(u) /\ Range(t) \subseteq Range(u)
    BY <1>1, <1>2, <1>4, <1>5, Zenon DEF Range
  <2> QED
    BY <2>1, <2>2
<1>7. ASSUME NEW i \in 1 .. m + n, NEW j \in 1 .. m + n, i < j
      PROVE  Before(u[i], u[j])
  <2>1. CASE i \in 1 .. m /\ j \in 1 .. m
    BY <1>1, <1>7, <2>1 DEF Increasing
  <2>2. CASE i \in 1 .. m /\ \E l \in 1 .. n : j = m + l
    <3>1. PICK l \in 1 .. n : j = m + l
      BY <2>2
    <3>2. s[i] \in Range(s) /\ t[l] \in Range(t)
      BY <1>1, <2>2 DEF Range
    <3> QED
      BY <1>1, <2>2, <3>1, <3>2
  <2>3. CASE \E k, l \in 1 .. n : i = m + k /\ j = m + l
    <3>1. PICK k \in 1 .. n, l \in 1 .. n : i = m + k /\ j = m + l
      BY <2>3
    <3>2. k < l
      BY <1>1, <1>7, <3>1
    <3> QED
      BY <1>1, <3>1, <3>2 DEF Increasing
  <2>4. ~(j \in 1 .. m /\ \E k \in 1 .. n : i = m + k)
    BY <1>1, <1>7
  <2> QED
    BY <1>3, <2>1, <2>2, <2>3, <2>4
<1>8. Increasing(u)
  BY <1>2, <1>7 DEF Increasing
<1>9. IsInjective(u)
  <2>1. \A i, j \in 1 .. m + n : i < j => u[i] # u[j]
    <3>1. \A i \in 1 .. m + n : u[i] \in Keys
      BY <1>1
    <3> QED
      BY <1>7, <3>1, KeysBefore
  <2>2. \A i, j \in 1 .. m + n : i = j \/ i < j \/ j < i
    BY <1>1
  <2> QED
    BY <1>2, <2>1, <2>2 DEF IsInjective
<1> QED
  BY <1>1, <1>6, <1>8, <1>9 DEF u

(* In a list in order every item is the last one or before it.             *)
LEMMA LastItem ==
    ASSUME NEW s \in Seq(Keys), Increasing(s), s # <<>>
    PROVE  /\ Last(s) \in Range(s)
           /\ \A k \in Range(s) : k = Last(s) \/ Before(k, Last(s))
<1>1. Len(s) \in Nat /\ Len(s) # 0
  OBVIOUS
<1>2. Len(s) \in DOMAIN s
  BY <1>1
<1>3. ASSUME NEW i \in DOMAIN s PROVE i = Len(s) \/ i < Len(s)
  BY <1>1
<1> QED
  BY <1>2, <1>3 DEF Last, Range, Increasing

(* One page: its keys follow the items so far, and what the pages have not *)
(* shown is after the token.                                               *)
LEMMA ListPageKeeps ==
    ASSUME ArtifactsInv, NEW r \in Requests, ListPage(r)
    PROVE  ArtifactsInv'
<1> DEFINE page == Page(<<>>, token[r], MaxKeys)
           all == items[r] \o page.keys
           S == Asked(<<>>, token[r])
<1>1. phase[r] = "page"
  BY DEF ListPage
<1>2. /\ PhaseInv(r) /\ PagingInv(r) /\ items[r] \in Seq(Keys) /\ token[r] \in Keys \cup {<<>>}
      /\ bucket \subseteq Keys /\ IsFiniteSet(bucket) /\ backend = "s3" /\ removed = {}
      /\ atStart[r] \subseteq bucket /\ kind[r] = "list"
  BY <1>1 DEF ArtifactsInv, RequestInv, ArtifactsTypeOK, StorageInv, PhaseInv
<1>3. IsPageOf(page, S, MaxKeys)
  BY <1>2, PageOfKeys, ArtifactsAssumption
<1>4. \A k \in bucket : k \in S <=> token[r] = <<>> \/ Before(token[r], k)
  <2>1. \A k \in bucket : k \in Seq(Nat)
    BY <1>2, ArtifactsAssumption
  <2>2. \A k \in Seq(Nat) : IsPrefix(<<>>, k)
    <3>1. <<>> \in Seq(Nat) /\ Len(<<>>) = 0
      OBVIOUS
    <3>2. \A k \in Seq(Nat) : Len(<<>>) <= Len(k) /\ \A i \in 1 .. Len(<<>>) : <<>>[i] = k[i]
      BY <3>1
    <3> QED
      BY <3>1, <3>2, PrefixByItems
  <2> QED
    BY <2>1, <2>2 DEF Asked
<1>5. S \subseteq bucket
  BY DEF Asked
<1> HIDE DEF page, S
<1>6. /\ Increasing(items[r]) /\ Range(items[r]) \subseteq bucket
      /\ \A k \in Range(items[r]) : token[r] # <<>> /\ (k = token[r] \/ Before(k, token[r]))
      /\ \A k \in atStart[r] : k \in Range(items[r]) \/ token[r] = <<>> \/ Before(token[r], k)
  BY <1>1, <1>2 DEF PagingInv
<1>7. /\ page.keys \in Seq(Keys) /\ Increasing(page.keys) /\ Range(page.keys) \subseteq S
  BY <1>3 DEF IsPageOf
<1>8. /\ all \in Seq(Keys) /\ Range(all) = Range(items[r]) \cup Range(page.keys)
      /\ Increasing(all) /\ IsInjective(all)
  <2>1. \A k \in Range(items[r]), l \in Range(page.keys) : Before(k, l)
    BY <1>2, <1>4, <1>5, <1>6, <1>7, KeysBefore
  <2> QED
    BY <1>2, <1>6, <1>7, <2>1, FollowingItems
<1> HIDE DEF all
<1>9. CASE /\ page.truncated
           /\ items' = [items EXCEPT ![r] = all]
           /\ token' = [token EXCEPT ![r] = Last(page.keys)]
           /\ UNCHANGED <<phase, status>>
           /\ UNCHANGED <<storageVars, requestVars, found, failed>>
  <2> DEFINE last == Last(page.keys)
  <2>1. /\ last \in Range(page.keys) /\ last \in Keys /\ last \in S
        /\ \A k \in Range(page.keys) : k = last \/ Before(k, last)
    <3>1. page.keys # <<>>
      BY <1>3, <1>9 DEF IsPageOf
    <3>2. /\ last \in Range(page.keys)
          /\ \A k \in Range(page.keys) : k = last \/ Before(k, last)
      BY <1>7, <3>1, LastItem
    <3> QED
      BY <1>2, <1>5, <1>7, <3>2
  <2>2. last # <<>>
    BY <2>1, ArtifactsAssumption
  <2>3. \A k \in S : k \in Range(page.keys) \/ Before(last, k)
    BY <1>3 DEF IsPageOf
  <2> HIDE DEF last
  <2>4. ArtifactsTypeOK'
    BY <1>8, <1>9, <2>1 DEF last, ArtifactsInv, ArtifactsTypeOK, storageVars, requestVars
  <2>5. OthersUnmoved(r)
    BY <1>9 DEF ArtifactsInv, ArtifactsTypeOK, OthersUnmoved, Unmoved, requestVars
  <2>6. /\ phase'[r] = "page" /\ status'[r] = status[r] /\ failed'[r] = failed[r]
        /\ items'[r] = all /\ token'[r] = last /\ kind'[r] = kind[r] /\ backend' = backend
        /\ atStart'[r] = atStart[r] /\ bucket' = bucket /\ removed' = removed
    BY <1>1, <1>9 DEF last, ArtifactsInv, ArtifactsTypeOK, storageVars, requestVars
  <2>7. PagingInv(r)'
    <3>1. \A k \in Range(items[r]) : Before(k, last)
      BY <1>2, <1>4, <1>5, <1>6, <2>1, KeysBefore
    <3>2. \A k \in atStart[r] : k \in Range(all) \/ Before(last, k)
      BY <1>2, <1>4, <1>6, <1>8, <2>3
    <3>3. \A k \in Range(all) : k = last \/ Before(k, last)
      BY <1>8, <2>1, <3>1
    <3>4. Range(all) \subseteq bucket
      BY <1>5, <1>6, <1>7, <1>8
    <3> QED
      BY <1>8, <2>2, <2>6, <3>2, <3>3, <3>4 DEF PagingInv
  <2>8. RequestInv(r)'
    BY <1>1, <1>2, <2>6, <2>7
    DEF RequestInv, PhaseInv, LookingInv, ListedInv, RedirectInv, ToldInv
  <2> QED
    BY <1>9, <2>4, <2>5, <2>8, RequestKeepsInv
<1>10. CASE /\ ~page.truncated
            /\ items' = [items EXCEPT ![r] = InOrder(all)]
            /\ Answer(r, "200")
            /\ UNCHANGED token
            /\ UNCHANGED <<storageVars, requestVars, found, failed>>
  <2>1. /\ InOrder(all) \in Seq(Keys) /\ Range(InOrder(all)) = Range(all)
        /\ Increasing(InOrder(all))
    BY <1>8, ListInOrder
  <2>2. ArtifactsTypeOK'
    BY <1>10, <2>1
    DEF ArtifactsInv, ArtifactsTypeOK, storageVars, requestVars, Answer, Phases, Statuses
  <2>3. OthersUnmoved(r)
    BY <1>10 DEF ArtifactsInv, ArtifactsTypeOK, OthersUnmoved, Unmoved, requestVars, Answer
  <2>4. /\ phase'[r] = "answered" /\ status'[r] = "200" /\ failed'[r] = failed[r]
        /\ items'[r] = InOrder(all) /\ kind'[r] = kind[r]
        /\ atStart'[r] = atStart[r] /\ bucket' = bucket /\ removed' = removed
    BY <1>10 DEF ArtifactsInv, ArtifactsTypeOK, storageVars, requestVars, Answer
  <2>5. Range(page.keys) = S
    BY <1>3, <1>10 DEF IsPageOf
  <2>6. atStart[r] \subseteq Range(all) /\ Range(all) \subseteq bucket
    BY <1>2, <1>4, <1>5, <1>6, <1>8, <2>5
  <2>7. RequestInv(r)'
    BY <1>1, <1>2, <2>1, <2>4, <2>6
    DEF RequestInv, PhaseInv, PagingInv, LookingInv, ListedInv, RedirectInv, ToldInv
  <2> QED
    BY <1>10, <2>2, <2>3, <2>7, RequestKeepsInv
<1>11. CASE \E failure \in Failures : Fails(r, failure)
  BY <1>1, <1>11, FailsKeepsInv
<1> QED
  BY <1>9, <1>10, <1>11 DEF ListPage, page, all

-----------------------------------------------------------------------------
(* The steps of others.                                                    *)

(* Steps of nobody's request.                                              *)
LEMMA StorageKeepsInv ==
    ASSUME ArtifactsInv, StorageStep, StorageInv',
           UNCHANGED <<requestVars, phase, token, found, items, failed, status>>,
           bucket' \subseteq Keys, removed' \subseteq Keys \ bucket', record' \in BOOLEAN
    PROVE  ArtifactsInv'
<1>1. ArtifactsTypeOK'
  BY DEF ArtifactsInv, ArtifactsTypeOK, requestVars, StorageStep
<1>2. \A r \in Requests : Unmoved(r)
  BY DEF Unmoved, requestVars
<1>3. \A r \in Requests : RequestInv(r)'
  BY <1>2, UnmovedKeepsInv DEF ArtifactsInv
<1> QED
  BY <1>1, <1>3 DEF ArtifactsInv

(* Objects are put, files removed, the record expires.                     *)
LEMMA OthersKeep ==
    ASSUME ArtifactsInv, (\E k \in Keys : PutObject(k) \/ RemoveFile(k)) \/ RecordExpires
    PROVE  ArtifactsInv'
<1>1. /\ ArtifactsTypeOK /\ StorageInv
  BY DEF ArtifactsInv
<1>2. ASSUME NEW k \in Keys, PutObject(k) PROVE ArtifactsInv'
  <2>1. StorageInv'
    BY <1>1, <1>2, FS_AddElement DEF StorageInv, PutObject
  <2> QED
    BY <1>1, <1>2, <2>1, StorageKeepsInv DEF PutObject, StorageStep, ArtifactsTypeOK
<1>3. ASSUME NEW k \in Keys, RemoveFile(k) PROVE ArtifactsInv'
  <2>1. StorageInv'
    BY <1>1, <1>3, FS_RemoveElement DEF StorageInv, RemoveFile
  <2> QED
    BY <1>1, <1>3, <2>1, StorageKeepsInv DEF RemoveFile, StorageStep, ArtifactsTypeOK
<1>4. ASSUME RecordExpires PROVE ArtifactsInv'
  <2>1. StorageInv'
    BY <1>1, <1>4 DEF StorageInv, RecordExpires
  <2> QED
    BY <1>1, <1>4, <2>1, StorageKeepsInv DEF RecordExpires, StorageStep, ArtifactsTypeOK
<1> QED
  BY <1>2, <1>3, <1>4

(* Nothing happens.                                                        *)
LEMMA InvStutters ==
    ASSUME ArtifactsInv, UNCHANGED artifactVars
    PROVE  ArtifactsInv'
  BY StorageKeepsInv
  DEF artifactVars, storageVars, StorageStep, ArtifactsInv, ArtifactsTypeOK, StorageInv

(* Every step keeps the invariant.                                         *)
LEMMA InvIsKept == ArtifactsInv /\ [ArtifactsNext]_artifactVars => ArtifactsInv'
<1> SUFFICES ASSUME ArtifactsInv, [ArtifactsNext]_artifactVars
             PROVE  ArtifactsInv'
  OBVIOUS
<1>1. ASSUME NEW r \in Requests, Step(r) PROVE ArtifactsInv'
  BY <1>1, LookupKeeps, ListPageKeeps, WalkKeeps, StatKeeps, ResolveKeeps, ServeKeeps
  DEF Step
<1>2. ASSUME NEW r \in Requests,
             \/ Request(r, "list", BadPath) \/ Request(r, "link", Archive)
             \/ \E p \in Keys \cup {BadPath} : Request(r, "download", p)
      PROVE  ArtifactsInv'
  <2>1. {"list", "link", "download"} \subseteq Kinds /\ Archive \in Keys
    BY ArtifactsAssumption DEF Kinds, Archive
  <2> QED
    BY <1>2, <2>1, RequestKeeps
<1>3. CASE UNCHANGED artifactVars
  BY <1>3, InvStutters
<1> QED
  BY <1>1, <1>2, <1>3, OthersKeep DEF ArtifactsNext

(* So it holds in every reachable state.                                   *)
LEMMA InvAlways == ArtifactsSpec => []ArtifactsInv
  BY InvHoldsInitially, InvIsKept, PTL DEF ArtifactsSpec

-----------------------------------------------------------------------------
(* The theorems.                                                           *)

(* Every variable keeps its type, however many requests and keys there are.*)
THEOREM ArtifactsTypeCorrect == ArtifactsSpec => []ArtifactsTypeOK
<1>1. ArtifactsInv => ArtifactsTypeOK
  BY DEF ArtifactsInv
<1> QED
  BY <1>1, InvAlways, PTL

(* A listing names all that was there when it began and stayed, nothing    *)
(* that never was, each once and in order: for every set of keys, size of  *)
(* a page and number of puts and removals meanwhile.                       *)
THEOREM ListingsAreComplete == ArtifactsSpec => []ListingIsComplete
<1>1. ArtifactsInv => ListingIsComplete
  <2> SUFFICES ASSUME ArtifactsInv, NEW r \in Requests, kind[r] = "list", status[r] = "200"
               PROVE  /\ atStart[r] \ removed \subseteq Range(items[r])
                      /\ Range(items[r]) \subseteq bucket \cup removed
                      /\ items[r] = Sorted(Range(items[r]))
    BY DEF ListingIsComplete
  <2>1. ListedInv(r) /\ items[r] \in Seq(Keys)
    BY DEF ArtifactsInv, RequestInv, ArtifactsTypeOK
  <2>2. Range(items[r]) \subseteq Keys /\ IsFiniteSet(Range(items[r]))
    <3>1. Range(items[r]) \subseteq Keys
      BY <2>1 DEF Range
    <3>2. IsFiniteSet(1 .. Len(items[r])) /\ DOMAIN items[r] = 1 .. Len(items[r])
      BY <2>1, FS_Interval
    <3>3. items[r] \in Surjection(DOMAIN items[r], Range(items[r]))
      BY <2>1 DEF Surjection, Range
    <3> QED
      BY <3>1, <3>2, <3>3, FS_Surjection
  <2>3. /\ Sorted(Range(items[r])) \in Seq(Keys)
        /\ Range(Sorted(Range(items[r]))) = Range(items[r])
        /\ Increasing(Sorted(Range(items[r])))
    BY <2>2, SortedKeys
  <2>4. items[r] = Sorted(Range(items[r]))
    BY <2>1, <2>3, IncreasingUnique DEF ListedInv
  <2> QED
    BY <2>1, <2>4 DEF ListedInv
<1> QED
  BY <1>1, InvAlways, PTL

(* No caller is sent elsewhere than asked, or told that nothing is there   *)
(* when it was, whatever other keys begin with the path.                   *)
THEOREM RedirectsAreExact == ArtifactsSpec => []RedirectIsExact
<1>1. ArtifactsInv => RedirectIsExact
  BY DEF ArtifactsInv, RequestInv, RedirectInv, RedirectIsExact
<1> QED
  BY <1>1, InvAlways, PTL

(* The last key of a page that is truncated is after the token.            *)
LEMMA TokenMovesOn ==
    ASSUME ArtifactsInv, NEW r \in Requests, phase[r] = "page",
           Page(<<>>, token[r], MaxKeys).truncated
    PROVE  LET last == Last(Page(<<>>, token[r], MaxKeys).keys)
           IN  last # <<>> /\ (token[r] = <<>> \/ Before(token[r], last))
<1> DEFINE page == Page(<<>>, token[r], MaxKeys)
           S == Asked(<<>>, token[r])
           last == Last(page.keys)
<1>1. bucket \subseteq Keys /\ IsFiniteSet(bucket)
  BY DEF ArtifactsInv, ArtifactsTypeOK, StorageInv
<1>2. IsPageOf(page, S, MaxKeys)
  BY <1>1, PageOfKeys, ArtifactsAssumption
<1>3. S \subseteq bucket /\ \A k \in S : token[r] = <<>> \/ Before(token[r], k)
  BY DEF Asked
<1>4. page.truncated
  OBVIOUS
<1> HIDE DEF page, S
<1>5. last \in S
  <2>1. page.keys \in Seq(Keys) /\ Increasing(page.keys) /\ page.keys # <<>>
    BY <1>2, <1>4 DEF IsPageOf
  <2>2. Range(page.keys) \subseteq S
    BY <1>2 DEF IsPageOf
  <2> QED
    BY <2>1, <2>2, LastItem
<1>6. last # <<>>
  BY <1>1, <1>3, <1>5, ArtifactsAssumption
<1> QED
  BY <1>3, <1>5, <1>6 DEF page

(* Every page that adds to a list is the last or moves the token on, so no *)
(* page is fetched twice, for every size of a page and all keys.           *)
THEOREM ListingsMoveOn == ArtifactsSpec => ListingMovesOn
<1> DEFINE MovesOn(r) ==
        phase[r] = "page" /\ items'[r] # items[r] =>
            \/ phase'[r] = "answered"
            \/ /\ token'[r] # <<>>
               /\ token[r] = <<>> \/ Before(token[r], token'[r])
<1>1. ASSUME ArtifactsInv, ArtifactsNext, NEW r \in Requests,
             phase[r] = "page", items'[r] # items[r]
      PROVE  \/ phase'[r] = "answered"
             \/ /\ token'[r] # <<>>
                /\ token[r] = <<>> \/ Before(token[r], token'[r])
  <2>1. /\ items \in [Requests -> Seq(Keys)] /\ phase \in [Requests -> Phases]
        /\ token \in [Requests -> Keys \cup {<<>>}]
    BY <1>1 DEF ArtifactsInv, ArtifactsTypeOK
  <2>2. items' # items
    BY <1>1
  <2>3. PICK q \in Requests : ListPage(q) \/ Stat(q)
    BY <1>1, <2>2 DEF ArtifactsNext, Step, Request, Lookup, Walk, Resolve, Serve, Fails,
                      PutObject, RemoveFile, RecordExpires
  <2>4. CASE Stat(q)
    <3>1. phase[q] = "stat" /\ q # r
      BY <1>1, <2>4 DEF Stat
    <3>2. items'[r] = items[r]
      BY <2>1, <2>4, <3>1 DEF Stat, Fails
    <3> QED
      BY <1>1, <3>2
  <2>5. CASE ListPage(q)
    <3> DEFINE page == Page(<<>>, token[q], MaxKeys)
    <3>1. CASE /\ page.truncated
               /\ items' = [items EXCEPT ![q] = @ \o page.keys]
               /\ token' = [token EXCEPT ![q] = Last(page.keys)]
      <4>1. q = r
        BY <1>1, <2>1, <3>1
      <4>2. token'[r] = Last(Page(<<>>, token[r], MaxKeys).keys)
        BY <2>1, <3>1, <4>1
      <4> QED
        BY <1>1, <3>1, <4>1, <4>2, TokenMovesOn
    <3>2. CASE /\ items' = [items EXCEPT ![q] = InOrder(@ \o page.keys)]
               /\ Answer(q, "200")
      <4>1. q = r
        BY <1>1, <2>1, <3>2
      <4> QED
        BY <2>1, <3>2, <4>1 DEF Answer
    <3>3. CASE \E failure \in Failures : Fails(q, failure)
      BY <2>2, <3>3 DEF Fails
    <3> QED
      BY <2>5, <3>1, <3>2, <3>3 DEF ListPage
  <2> QED
    BY <2>3, <2>4, <2>5
<1>2. ArtifactsInv /\ [ArtifactsNext]_artifactVars
        => [\A r \in Requests : MovesOn(r)]_artifactVars
  BY <1>1
<1> QED
  BY <1>2, InvAlways, PTL DEF ArtifactsSpec, ListingMovesOn
=============================================================================

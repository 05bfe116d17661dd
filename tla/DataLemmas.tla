----------------------------- MODULE DataLemmas -----------------------------
(***************************************************************************)
(* Facts about numbers, orders and sequences that the proofs about several *)
(* components rest on.  Induction is stated for sets of numbers: the set   *)
(* of those of which a claim holds has 0, and n + 1 with every n.          *)
(***************************************************************************)
EXTENDS Lists, SequencesExt, FiniteSetTheorems, TLAPS

(* Every set of numbers that is not empty has a smallest one.              *)
LEMMA SmallestOf ==
    ASSUME NEW T, T \subseteq Nat, T # {}
    PROVE  \E m \in T : \A k \in T : m <= k
<1> DEFINE R == {e \in Nat \X Nat : e[1] < e[2]}
<1>1. IsWellFoundedOn(R, Nat)
  BY NatLessThanWellFounded, Zenon DEF OpToRel, R
<1>2. \A j, k \in Nat : j < k => <<j, k>> \in R
  OBVIOUS
<1> HIDE DEF R
<1>3. PICK m \in T : \A k \in T : ~(<<k, m>> \in R)
  BY <1>1, WFMin
<1>4. \A k \in T : ~(k < m)
  BY <1>2, <1>3
<1> QED
  BY <1>4

(* Induction.                                                              *)
LEMMA NumbersInduction ==
    ASSUME NEW T, 0 \in T, \A n \in Nat : n \in T => n + 1 \in T
    PROVE  Nat \subseteq T
<1> DEFINE U == Nat \ T
<1>1. SUFFICES ASSUME U # {} PROVE FALSE
  OBVIOUS
<1>2. U \subseteq Nat /\ \A n \in Nat : n \in U <=> n \notin T
  OBVIOUS
<1> HIDE DEF U
<1>3. PICK m \in U : \A k \in U : m <= k
  BY <1>1, <1>2, SmallestOf
<1>4. m \in Nat /\ m # 0
  BY <1>2
<1>5. m - 1 \in Nat /\ m - 1 \notin U /\ (m - 1) + 1 = m
  BY <1>3, <1>4
<1> QED
  BY <1>2, <1>5

(* A function defined by recursion on the numbers up to N exists: what it  *)
(* is at 0, and what step makes of its value before.                       *)
IsRecursive(f, N, a, step) ==
    f = [i \in 0 .. N |-> IF i = 0 THEN a ELSE step[<<f[i - 1], i>>]]

(* By induction over N.                                                    *)
LEMMA RecursiveExists ==
    ASSUME NEW X, NEW a \in X, NEW N \in Nat, NEW step \in [X \X (1 .. N) -> X]
    PROVE  \E f \in [0 .. N -> X] : IsRecursive(f, N, a, step)
<1> DEFINE T == {n \in Nat : n <= N => \E f \in [0 .. n -> X] : IsRecursive(f, n, a, step)}
<1>1. 0 \in T
  <2> DEFINE f == [i \in 0 .. 0 |-> a]
  <2>1. f \in [0 .. 0 -> X] /\ IsRecursive(f, 0, a, step)
    BY DEF IsRecursive
  <2> QED
    BY <2>1
<1>2. ASSUME NEW n \in Nat, n \in T PROVE n + 1 \in T
  <2> SUFFICES ASSUME n + 1 <= N
               PROVE  \E f \in [0 .. n + 1 -> X] : IsRecursive(f, n + 1, a, step)
    OBVIOUS
  <2>1. PICK f \in [0 .. n -> X] : IsRecursive(f, n, a, step)
    BY <1>2
  <2> DEFINE g == [i \in 0 .. n + 1 |-> IF i = n + 1 THEN step[<<f[n], i>>] ELSE f[i]]
  <2>2. f[n] \in X /\ n + 1 \in 1 .. N
    BY <2>1
  <2>3. step[<<f[n], n + 1>>] \in X
    BY <2>2
  <2>4. g \in [0 .. n + 1 -> X]
    BY <2>1, <2>3
  <2>5. ASSUME NEW i \in 0 .. n + 1
        PROVE  g[i] = IF i = 0 THEN a ELSE step[<<g[i - 1], i>>]
    <3>1. CASE i = n + 1
      <4>1. g[n + 1] = step[<<f[n], n + 1>>] /\ g[n] = f[n] /\ i # 0 /\ i - 1 = n
        BY <3>1
      <4> QED
        BY <3>1, <4>1
    <3>2. CASE i = 0
      <4>1. g[0] = f[0] /\ f[0] = a
        BY <2>1 DEF IsRecursive
      <4> QED
        BY <3>2, <4>1
    <3>3. CASE i \in 1 .. n
      <4>1. /\ g[i] = f[i] /\ i - 1 \in 0 .. n + 1 /\ i - 1 # n + 1 /\ i # 0
            /\ i \in 0 .. n
        BY <3>3
      <4>2. g[i - 1] = f[i - 1]
        BY <4>1
      <4>3. f[i] = step[<<f[i - 1], i>>]
        BY <2>1, <4>1 DEF IsRecursive
      <4> QED
        BY <4>1, <4>2, <4>3
    <3> QED
      BY <3>1, <3>2, <3>3
  <2>6. IsRecursive(g, n + 1, a, step)
    <3>1. g = [i \in 0 .. n + 1 |-> g[i]]
      OBVIOUS
    <3> HIDE DEF g
    <3> QED
      BY <2>5, <3>1 DEF IsRecursive
  <2> QED
    BY <2>4, <2>6
<1> HIDE DEF T
<1>3. N \in T
  BY <1>1, <1>2, NumbersInduction
<1> QED
  BY <1>3 DEF T

-----------------------------------------------------------------------------
(* Orders are sets of pairs.                                               *)
IsStrictOrder(R, S) ==
    /\ \A x \in S : <<x, x>> \notin R
    /\ \A x, y, z \in S : <<x, y>> \in R /\ <<y, z>> \in R => <<x, z>> \in R
    /\ \A x, y \in S : x = y \/ <<x, y>> \in R \/ <<y, x>> \in R

Under(R, S, x) == {y \in S : <<y, x>> \in R}

(* What a finite set is ordered by gives each element a place of its own:  *)
(* of every number below the size of the set, one element has as many      *)
(* others under it.                                                        *)
LEMMA Places ==
    ASSUME NEW S, IsFiniteSet(S), NEW R, IsStrictOrder(R, S)
    PROVE  /\ \A x \in S : Cardinality(Under(R, S, x)) \in 0 .. Cardinality(S) - 1
           /\ \A x, y \in S :
                <<x, y>> \in R <=> Cardinality(Under(R, S, x)) < Cardinality(Under(R, S, y))
           /\ \A n \in 0 .. Cardinality(S) - 1 :
                \E x \in S : Cardinality(Under(R, S, x)) = n
<1> DEFINE place(x) == Cardinality(Under(R, S, x))
<1>1. Cardinality(S) \in Nat
  BY FS_CardinalityType
<1>2. \A x \in S : IsFiniteSet(Under(R, S, x)) /\ place(x) \in Nat
  BY FS_Subset, FS_CardinalityType DEF Under
<1>3. ASSUME NEW x \in S, NEW y \in S, <<x, y>> \in R
      PROVE  place(x) < place(y)
  <2>1. Under(R, S, x) \subseteq Under(R, S, y)
    BY <1>3 DEF IsStrictOrder, Under
  <2>2. x \in Under(R, S, y) /\ x \notin Under(R, S, x)
    BY <1>3 DEF IsStrictOrder, Under
  <2>3. place(x) <= place(y) /\ place(x) # place(y)
    <3>1. IsFiniteSet(Under(R, S, y))
      BY <1>2
    <3>2. /\ Cardinality(Under(R, S, x)) <= Cardinality(Under(R, S, y))
          /\ Cardinality(Under(R, S, y)) = Cardinality(Under(R, S, x))
                => Under(R, S, y) = Under(R, S, x)
      BY <2>1, <3>1, FS_Subset
    <3> QED
      BY <2>2, <3>2
  <2> QED
    BY <1>2, <2>3
<1>4. \A x, y \in S : <<x, y>> \in R <=> place(x) < place(y)
  <2> HIDE DEF place
  <2> SUFFICES ASSUME NEW x \in S, NEW y \in S, place(x) < place(y)
               PROVE  <<x, y>> \in R
    BY <1>3
  <2>1. place(x) \in Nat /\ place(y) \in Nat
    BY <1>2 DEF place
  <2>2. ~(place(x) < place(x)) /\ ~(place(y) < place(x))
    BY <2>1
  <2> QED
    BY <1>3, <2>2 DEF IsStrictOrder
<1>5. \A x \in S : place(x) \in 0 .. Cardinality(S) - 1
  <2> TAKE x \in S
  <2>1. IsFiniteSet(S \ {x}) /\ Cardinality(S \ {x}) = Cardinality(S) - 1
    BY FS_RemoveElement
  <2>2. Under(R, S, x) \subseteq S \ {x}
    BY DEF IsStrictOrder, Under
  <2>3. place(x) <= Cardinality(S \ {x})
    BY <2>1, <2>2, FS_Subset
  <2> QED
    BY <1>1, <1>2, <2>1, <2>3
<1>6. \A n \in 0 .. Cardinality(S) - 1 : \E x \in S : place(x) = n
  <2> DEFINE f == [x \in S |-> place(x)]
             T == 0 .. Cardinality(S) - 1
  <2>1. IsFiniteSet(T) /\ Cardinality(T) = Cardinality(S)
    <3>1. /\ IsFiniteSet(T)
          /\ Cardinality(T) = IF 0 > Cardinality(S) - 1 THEN 0
                              ELSE (Cardinality(S) - 1) - 0 + 1
      BY <1>1, FS_Interval
    <3> QED
      BY <1>1, <3>1
  <2>2. f \in [S -> T]
    BY <1>5
  <2>3. \A x, y \in S : f[x] = f[y] => x = y
    <3> HIDE DEF place
    <3> SUFFICES ASSUME NEW x \in S, NEW y \in S, place(x) = place(y)
                 PROVE  x = y
      OBVIOUS
    <3>1. place(x) \in Nat /\ place(y) \in Nat
      BY <1>2 DEF place
    <3>2. ~(place(x) < place(y)) /\ ~(place(y) < place(x))
      BY <3>1
    <3> QED
      BY <1>3, <3>2 DEF IsStrictOrder
  <2>4. f \in Injection(S, T)
    BY <2>2, <2>3 DEF Injection, IsInjective
  <2>5. f \in Surjection(S, T)
    BY <2>1, <2>4, FS_Injection
  <2> QED
    BY <2>5 DEF Surjection
<1> QED
  BY <1>4, <1>5, <1>6

-----------------------------------------------------------------------------
(* Sequences.                                                              *)

(* To be a prefix is to agree item by item.                                *)
LEMMA PrefixByItems ==
    ASSUME NEW S, NEW s \in Seq(S), NEW t \in Seq(S)
    PROVE  IsPrefix(s, t) <=> Len(s) <= Len(t) /\ \A i \in 1 .. Len(s) : s[i] = t[i]
<1>1. Len(s) <= Len(t) =>
        /\ SubSeq(t, 1, Len(s)) \in Seq(S) /\ Len(SubSeq(t, 1, Len(s))) = Len(s)
        /\ \A i \in 1 .. Len(s) : SubSeq(t, 1, Len(s))[i] = t[i]
  OBVIOUS
<1>2. SubSeq(s, 1, Len(s)) = s
  OBVIOUS
<1>3. ASSUME Len(s) <= Len(t), \A i \in 1 .. Len(s) : s[i] = t[i]
      PROVE  s = SubSeq(t, 1, Len(s))
  <2> DEFINE u == SubSeq(t, 1, Len(s))
  <2>1. u \in Seq(S) /\ Len(u) = Len(s) /\ \A i \in 1 .. Len(s) : s[i] = u[i]
    BY <1>1, <1>3
  <2> HIDE DEF u
  <2>2. s = u
    BY <2>1
  <2> QED
    BY <2>2 DEF u
<1> QED
  BY <1>1, <1>2, <1>3 DEF IsPrefix

(* Kept, item by item.                                                     *)
KeepsByItems(k, s, S) ==
    /\ k[0] = <<>> /\ Kept(s, S) = k[Len(s)]
    /\ \A i \in 1 .. Len(s) :
         k[i] = IF s[i] \in S THEN Append(k[i - 1], s[i]) ELSE k[i - 1]

(* What Kept computes, item by item.                                       *)
LEMMA KeptByItems ==
    ASSUME NEW X, NEW s \in Seq(X), NEW S
    PROVE  \E k \in [0 .. Len(s) -> Seq(X)] : KeepsByItems(k, s, S)
<1> DEFINE N == Len(s)
           Dom == Seq(X) \X (1 .. N)
           step == [e \in Dom |-> IF s[e[2]] \in S THEN Append(e[1], s[e[2]]) ELSE e[1]]
           K(f) == f = [i \in 0 .. N |->
                          IF i = 0 THEN <<>>
                          ELSE IF s[i] \in S THEN Append(f[i - 1], s[i]) ELSE f[i - 1]]
           k == CHOOSE f : K(f)
<1>1. N \in Nat /\ <<>> \in Seq(X) /\ \A i \in 1 .. N : s[i] \in X
  OBVIOUS
<1>2. \A t \in Seq(X), i \in 1 .. N :
        /\ step[<<t, i>>] = IF s[i] \in S THEN Append(t, s[i]) ELSE t
        /\ step[<<t, i>>] \in Seq(X)
  OBVIOUS
<1>3. step \in [Dom -> Seq(X)]
  <2>1. \A e \in Dom : e[1] \in Seq(X) /\ e[2] \in 1 .. N /\ s[e[2]] \in X
    OBVIOUS
  <2> QED
    BY <2>1
<1> HIDE DEF N, step
<1>4. PICK f \in [0 .. N -> Seq(X)] : IsRecursive(f, N, <<>>, step)
  BY <1>1, <1>3, RecursiveExists
<1>5. \A i \in 1 .. N : f[i - 1] \in Seq(X)
  BY <1>1
<1>6. K(f)
  <2>1. \A i \in 0 .. N : (IF i = 0 THEN <<>> ELSE step[<<f[i - 1], i>>])
            = (IF i = 0 THEN <<>>
               ELSE IF s[i] \in S THEN Append(f[i - 1], s[i]) ELSE f[i - 1])
    <3> TAKE i \in 0 .. N
    <3>1. CASE i = 0
      BY <3>1
    <3>2. CASE i # 0
      <4>1. i \in 1 .. N
        BY <1>1, <3>2
      <4> QED
        BY <1>2, <1>5, <3>2, <4>1
    <3> QED
      BY <3>1, <3>2
  <2> QED
    BY <1>4, <2>1 DEF IsRecursive
<1>7. K(k)
  <2> HIDE DEF K
  <2> QED
    BY <1>6
<1>8. Kept(s, S) = k[N]
  BY DEF Kept, N
<1> HIDE DEF k
<1>9. k \in [0 .. N -> Seq(X)]
  <2> DEFINE T == {n \in Nat : n <= N => k[n] \in Seq(X)}
  <2>1. 0 \in T
    BY <1>1, <1>7
  <2>2. ASSUME NEW n \in Nat, n \in T PROVE n + 1 \in T
    <3> SUFFICES ASSUME n + 1 <= N PROVE k[n + 1] \in Seq(X)
      OBVIOUS
    <3>1. k[n] \in Seq(X) /\ n + 1 \in 1 .. N /\ n + 1 \in 0 .. N /\ (n + 1) - 1 = n /\ n + 1 # 0
      BY <1>1, <2>2
    <3>2. k[n + 1] = IF s[n + 1] \in S THEN Append(k[n], s[n + 1]) ELSE k[n]
      BY <1>7, <3>1
    <3> QED
      BY <1>1, <3>1, <3>2
  <2> HIDE DEF T
  <2>3. Nat \subseteq T
    BY <2>1, <2>2, NumbersInduction
  <2>4. \A n \in 0 .. N : k[n] \in Seq(X)
    BY <1>1, <2>3 DEF T
  <2>5. k = [i \in 0 .. N |-> k[i]]
    BY <1>7
  <2> HIDE DEF K
  <2> QED
    BY <2>4, <2>5
<1>10. k[0] = <<>> /\ \A i \in 1 .. N :
         k[i] = IF s[i] \in S THEN Append(k[i - 1], s[i]) ELSE k[i - 1]
  <2>1. 0 \in 0 .. N /\ \A i \in 1 .. N : i \in 0 .. N /\ i # 0
    BY <1>1
  <2> QED
    BY <1>7, <2>1
<1> QED
  BY <1>8, <1>9, <1>10 DEF N, KeepsByItems

(* What is kept is in the set, and a list of nothing else is kept whole.   *)
LEMMA KeptItems ==
    ASSUME NEW X, NEW s \in Seq(X), NEW S
    PROVE  /\ Kept(s, S) \in Seq(X \cap S)
           /\ s \in Seq(S) => Kept(s, S) = s
<1>0. PICK k \in [0 .. Len(s) -> Seq(X)] : KeepsByItems(k, s, S)
  BY KeptByItems
<1> DEFINE N == Len(s)
<1>1. /\ k \in [0 .. N -> Seq(X)] /\ k[0] = <<>> /\ Kept(s, S) = k[N]
      /\ \A i \in 1 .. N :
             k[i] = IF s[i] \in S THEN Append(k[i - 1], s[i]) ELSE k[i - 1]
  BY <1>0 DEF KeepsByItems
<1>2. N \in Nat /\ \A i \in 1 .. N : s[i] \in X
  OBVIOUS
<1> HIDE DEF N
<1>3. \A n \in Nat : n + 1 <= N => n + 1 \in 1 .. N /\ (n + 1) - 1 = n /\ n <= N
  BY <1>2
<1>4. Kept(s, S) \in Seq(X \cap S)
  <2> DEFINE T == {n \in Nat : n <= N => k[n] \in Seq(X \cap S)}
  <2>1. 0 \in T
    BY <1>1
  <2>2. ASSUME NEW n \in Nat, n \in T PROVE n + 1 \in T
    <3> SUFFICES ASSUME n + 1 <= N PROVE k[n + 1] \in Seq(X \cap S)
      OBVIOUS
    <3>1. k[n] \in Seq(X \cap S) /\ s[n + 1] \in X
      BY <1>2, <1>3, <2>2
    <3>2. k[n + 1] = IF s[n + 1] \in S THEN Append(k[n], s[n + 1]) ELSE k[n]
      BY <1>1, <1>3
    <3> QED
      BY <3>1, <3>2
  <2> HIDE DEF T
  <2>3. Nat \subseteq T
    BY <2>1, <2>2, NumbersInduction
  <2>4. k[N] \in Seq(X \cap S)
    BY <1>2, <2>3 DEF T
  <2> QED
    BY <1>1, <2>4
<1>5. ASSUME s \in Seq(S) PROVE Kept(s, S) = s
  <2>0. \A i \in 1 .. N : s[i] \in S
    BY <1>5 DEF N
  <2> DEFINE T == {n \in Nat : n <= N => k[n] = SubSeq(s, 1, n)}
  <2>1. 0 \in T
    BY <1>1
  <2>2. ASSUME NEW n \in Nat, n \in T PROVE n + 1 \in T
    <3> SUFFICES ASSUME n + 1 <= N PROVE k[n + 1] = SubSeq(s, 1, n + 1)
      OBVIOUS
    <3>1. k[n] = SubSeq(s, 1, n) /\ k[n + 1] = Append(k[n], s[n + 1])
      BY <1>1, <1>3, <2>0, <2>2
    <3>2. SubSeq(s, 1, n + 1) = Append(SubSeq(s, 1, n), s[n + 1])
      BY <1>2 DEF N
    <3> QED
      BY <3>1, <3>2
  <2> HIDE DEF T
  <2>3. Nat \subseteq T
    BY <2>1, <2>2, NumbersInduction
  <2>4. k[N] = SubSeq(s, 1, N)
    BY <1>2, <2>3 DEF T
  <2>5. SubSeq(s, 1, N) = s
    BY DEF N
  <2> QED
    BY <1>1, <2>4, <2>5
<1> QED
  BY <1>4, <1>5

(* One item more.                                                          *)
LEMMA KeptAppend ==
    ASSUME NEW X, NEW s \in Seq(X), NEW x \in X, NEW S
    PROVE  Kept(Append(s, x), S) = IF x \in S THEN Append(Kept(s, S), x) ELSE Kept(s, S)
<1> DEFINE N == Len(s)
           t == Append(s, x)
<1>1. /\ N \in Nat /\ t \in Seq(X) /\ Len(t) = N + 1 /\ t[N + 1] = x
      /\ \A i \in 1 .. N : t[i] = s[i]
  OBVIOUS
<1>2. PICK k \in [0 .. N -> Seq(X)] : KeepsByItems(k, s, S)
  BY KeptByItems
<1>3. PICK m \in [0 .. Len(t) -> Seq(X)] : KeepsByItems(m, t, S)
  BY <1>1, KeptByItems
<1> HIDE DEF t
<1>4. /\ k[0] = <<>> /\ Kept(s, S) = k[N]
      /\ \A i \in 1 .. N : k[i] = IF s[i] \in S THEN Append(k[i - 1], s[i]) ELSE k[i - 1]
  BY <1>2 DEF KeepsByItems
<1> HIDE DEF N
<1>5. /\ m[0] = <<>> /\ Kept(t, S) = m[N + 1]
      /\ \A i \in 1 .. N + 1 :
             m[i] = IF t[i] \in S THEN Append(m[i - 1], t[i]) ELSE m[i - 1]
  BY <1>1, <1>3 DEF KeepsByItems
<1> DEFINE T == {n \in Nat : n <= N => m[n] = k[n]}
<1>6. 0 \in T
  BY <1>4, <1>5
<1>7. ASSUME NEW n \in Nat, n \in T PROVE n + 1 \in T
  <2> SUFFICES ASSUME n + 1 <= N PROVE m[n + 1] = k[n + 1]
    OBVIOUS
  <2>1. n + 1 \in 1 .. N /\ n + 1 \in 1 .. N + 1 /\ (n + 1) - 1 = n /\ m[n] = k[n]
    BY <1>1, <1>7
  <2>2. t[n + 1] = s[n + 1]
    BY <1>1, <2>1
  <2> QED
    BY <1>4, <1>5, <2>1, <2>2
<1> HIDE DEF T
<1>8. Nat \subseteq T
  BY <1>6, <1>7, NumbersInduction
<1>9. m[N] = k[N] /\ N + 1 \in 1 .. N + 1 /\ (N + 1) - 1 = N
  BY <1>1, <1>8 DEF T
<1> QED
  BY <1>1, <1>4, <1>5, <1>9 DEF t

(* FlattenSeq, item by item.                                               *)
FlattensByItems(f, s) ==
    /\ FlattenSeq(s) = f[Len(s)]
    /\ f[1] = s[1]
    /\ \A i \in 2 .. Len(s) : f[i] = f[i - 1] \o s[i]

(* What FlattenSeq computes, list by list.                                 *)
LEMMA FlattenByItems ==
    ASSUME NEW X, NEW s \in Seq(Seq(X)), s # <<>>
    PROVE  \E f \in [1 .. Len(s) -> Seq(X)] : FlattensByItems(f, s)
<1> DEFINE N == Len(s)
           Dom == Seq(X) \X (1 .. N)
           step == [e \in Dom |-> IF e[2] = 1 THEN s[1] ELSE e[1] \o s[e[2]]]
           F(f) == f = [i \in 1 .. N |-> IF i = 1 THEN s[i] ELSE f[i - 1] \o s[i]]
           f == CHOOSE f : F(f)
<1>1. N \in Nat /\ N # 0 /\ <<>> \in Seq(X) /\ \A i \in 1 .. N : s[i] \in Seq(X)
  OBVIOUS
<1>2. \A t \in Seq(X), i \in 1 .. N :
        step[<<t, i>>] = IF i = 1 THEN s[1] ELSE t \o s[i]
  OBVIOUS
<1>3. step \in [Dom -> Seq(X)]
  <2>1. \A e \in Dom : e[1] \in Seq(X) /\ e[2] \in 1 .. N /\ s[e[2]] \in Seq(X) /\ s[1] \in Seq(X)
    BY <1>1
  <2> QED
    BY <2>1
<1>4. FlattenSeq(s) = f[N]
  BY <1>1 DEF FlattenSeq
<1> HIDE DEF N, step
<1>5. PICK g \in [0 .. N -> Seq(X)] : IsRecursive(g, N, <<>>, step)
  BY <1>1, <1>3, RecursiveExists
<1>6. \E h : F(h)
  <2> DEFINE h == [i \in 1 .. N |-> g[i]]
  <2>1. ASSUME NEW i \in 1 .. N
        PROVE  h[i] = IF i = 1 THEN s[i] ELSE h[i - 1] \o s[i]
    <3>1. i \in 0 .. N /\ i # 0 /\ i - 1 \in 0 .. N /\ (i # 1 => i - 1 \in 1 .. N)
      BY <1>1
    <3>2. g[i] = step[<<g[i - 1], i>>] /\ g[i - 1] \in Seq(X)
      BY <1>5, <3>1 DEF IsRecursive
    <3> QED
      BY <1>2, <3>1, <3>2
  <2>2. h = [i \in 1 .. N |-> h[i]]
    OBVIOUS
  <2> HIDE DEF h
  <2>3. h = [i \in 1 .. N |-> IF i = 1 THEN s[i] ELSE h[i - 1] \o s[i]]
    BY <2>1, <2>2
  <2> QED
    BY <2>3
<1>7. F(f)
  <2> HIDE DEF F
  <2> QED
    BY <1>6
<1> HIDE DEF f
<1>8. /\ f = [i \in 1 .. N |-> f[i]]
      /\ \A i \in 1 .. N : f[i] = IF i = 1 THEN s[i] ELSE f[i - 1] \o s[i]
  BY <1>7
<1> HIDE DEF F
<1>9. \A n \in 1 .. N : f[n] \in Seq(X)
  <2> DEFINE T == {n \in Nat : n + 1 <= N => f[n + 1] \in Seq(X)}
  <2>1. 0 \in T
    <3>1. 1 \in 1 .. N /\ 0 + 1 = 1
      BY <1>1
    <3>2. f[1] \in Seq(X)
      BY <1>1, <1>8, <3>1
    <3> QED
      BY <3>1, <3>2
  <2>2. ASSUME NEW n \in Nat, n \in T PROVE n + 1 \in T
    <3> SUFFICES ASSUME (n + 1) + 1 <= N PROVE f[(n + 1) + 1] \in Seq(X)
      OBVIOUS
    <3>1. /\ (n + 1) + 1 \in 1 .. N /\ ((n + 1) + 1) - 1 = n + 1 /\ (n + 1) + 1 # 1
          /\ f[n + 1] \in Seq(X)
      BY <1>1, <2>2
    <3>2. f[(n + 1) + 1] = f[n + 1] \o s[(n + 1) + 1]
      BY <1>8, <3>1
    <3> QED
      BY <1>1, <3>1, <3>2
  <2> HIDE DEF T
  <2>3. Nat \subseteq T
    BY <2>1, <2>2, NumbersInduction
  <2> SUFFICES ASSUME NEW n \in 1 .. N PROVE f[n] \in Seq(X)
    OBVIOUS
  <2>4. n - 1 \in Nat /\ (n - 1) + 1 = n /\ n <= N
    BY <1>1
  <2> QED
    BY <2>3, <2>4 DEF T
<1>10. f \in [1 .. N -> Seq(X)]
  BY <1>8, <1>9
<1>11. f[1] = s[1] /\ \A i \in 2 .. N : f[i] = f[i - 1] \o s[i]
  <2>1. 1 \in 1 .. N /\ \A i \in 2 .. N : i \in 1 .. N /\ i # 1
    BY <1>1
  <2> QED
    BY <1>8, <2>1
<1> QED
  BY <1>4, <1>10, <1>11 DEF N, FlattensByItems

(* One list more.                                                          *)
LEMMA FlattenAppend ==
    ASSUME NEW X, NEW s \in Seq(Seq(X)), NEW x \in Seq(X)
    PROVE  /\ FlattenSeq(s) \in Seq(X)
           /\ FlattenSeq(Append(s, x)) = FlattenSeq(s) \o x
<1>1. ASSUME s = <<>>
      PROVE  FlattenSeq(s) = <<>> /\ FlattenSeq(Append(s, x)) = x
  <2>1. FlattenSeq(<<>>) = <<>>
    BY DEF FlattenSeq
  <2>2. /\ Append(s, x) \in Seq(Seq(X)) /\ Append(s, x) # <<>>
        /\ Len(Append(s, x)) = 1 /\ Append(s, x)[1] = x
    BY <1>1
  <2>3. PICK f : FlattensByItems(f, Append(s, x))
    BY <2>2, FlattenByItems
  <2> QED
    BY <1>1, <2>1, <2>2, <2>3 DEF FlattensByItems
<1>2. CASE s = <<>>
  <2>1. <<>> \in Seq(X) /\ <<>> \o x = x
    OBVIOUS
  <2> QED
    BY <1>1, <1>2, <2>1
<1>3. CASE s # <<>>
  <2> DEFINE N == Len(s)
             t == Append(s, x)
  <2>1. /\ N \in Nat /\ N # 0 /\ t \in Seq(Seq(X)) /\ Len(t) = N + 1 /\ t[N + 1] = x
        /\ t # <<>> /\ \A i \in 1 .. N : t[i] = s[i]
    BY <1>3
  <2>2. PICK f \in [1 .. N -> Seq(X)] : FlattensByItems(f, s)
    BY <1>3, FlattenByItems
  <2>3. PICK g \in [1 .. Len(t) -> Seq(X)] : FlattensByItems(g, t)
    BY <2>1, FlattenByItems
  <2> HIDE DEF t
  <2>4. /\ FlattenSeq(s) = f[N] /\ f[1] = s[1]
        /\ \A i \in 2 .. N : f[i] = f[i - 1] \o s[i]
    BY <2>2 DEF FlattensByItems
  <2> HIDE DEF N
  <2>5. /\ FlattenSeq(t) = g[N + 1] /\ g[1] = s[1]
        /\ \A i \in 2 .. N + 1 : g[i] = g[i - 1] \o t[i]
    <3>1. 1 \in 1 .. N
      BY <2>1
    <3> QED
      BY <2>1, <2>3, <3>1 DEF FlattensByItems
  <2> DEFINE T == {n \in Nat : n + 1 <= N => g[n + 1] = f[n + 1]}
  <2>6. 0 \in T
    BY <2>4, <2>5
  <2>7. ASSUME NEW n \in Nat, n \in T PROVE n + 1 \in T
    <3> SUFFICES ASSUME (n + 1) + 1 <= N PROVE g[(n + 1) + 1] = f[(n + 1) + 1]
      OBVIOUS
    <3>1. /\ (n + 1) + 1 \in 2 .. N /\ (n + 1) + 1 \in 2 .. N + 1 /\ (n + 1) + 1 \in 1 .. N
          /\ ((n + 1) + 1) - 1 = n + 1 /\ g[n + 1] = f[n + 1]
      BY <2>1, <2>7
    <3>2. t[(n + 1) + 1] = s[(n + 1) + 1]
      BY <2>1, <3>1
    <3> QED
      BY <2>4, <2>5, <3>1, <3>2
  <2> HIDE DEF T
  <2>8. Nat \subseteq T
    BY <2>6, <2>7, NumbersInduction
  <2>9. N - 1 \in Nat /\ (N - 1) + 1 = N /\ N + 1 \in 2 .. N + 1 /\ (N + 1) - 1 = N /\ N \in 1 .. N
    BY <2>1
  <2>10. N - 1 \in T
    BY <2>8, <2>9
  <2>11. g[N] = f[N]
    BY <2>9, <2>10 DEF T
  <2>12. FlattenSeq(t) = FlattenSeq(s) \o x
    BY <2>1, <2>4, <2>5, <2>9, <2>11
  <2>13. FlattenSeq(s) \in Seq(X)
    BY <2>2, <2>4, <2>9
  <2> QED
    BY <2>12, <2>13 DEF t
<1> QED
  BY <1>2, <1>3

(* An optional list, or the empty one, is a list.                          *)
LEMMA OrEmptyOfOptional ==
    ASSUME NEW X, NEW optional \in Seq(Seq(X)), Len(optional) <= 1
    PROVE  OrEmpty(optional) \in Seq(X)
<1>1. ASSUME optional # <<>> PROVE optional[1] \in Seq(X)
  <2>1. Len(optional) # 0 /\ Len(optional) \in Nat
    BY <1>1
  <2>2. 1 \in 1 .. Len(optional)
    BY <2>1
  <2> QED
    BY <2>2
<1> QED
  BY <1>1 DEF OrEmpty
=============================================================================

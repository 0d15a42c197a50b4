--------------------------- MODULE ContactsProofs ---------------------------
(***************************************************************************)
(* Theorems about the contact routes of a row, for any rows, companies,    *)
(* search results and limits.                                              *)
(***************************************************************************)
EXTENDS Contacts, FiniteSetTheorems, SequenceTheorems, TLAPS

LEMMA IntervalSize ==
    ASSUME NEW n \in Nat PROVE IsFiniteSet(1 .. n) /\ Cardinality(1 .. n) = n
BY FS_Interval

-----------------------------------------------------------------------------
(* Sorting.                                                                *)

Tickets(T) == IsFiniteSet(T) /\ T \subseteq Nat \X Nat
Ahead(T, t) == {u \in T : Sooner(u, t)}

LEMMA SoonerOrder ==
    ASSUME NEW T, Tickets(T)
    PROVE  \A t, u \in T : /\ ~ Sooner(t, t)
                           /\ t # u => Sooner(t, u) \/ Sooner(u, t)
                           /\ \A v \in T : Sooner(t, u) /\ Sooner(u, v) => Sooner(t, v)
<1> SUFFICES ASSUME NEW t \in T, NEW u \in T, NEW v \in T
             PROVE  /\ ~ Sooner(t, t)
                    /\ t # u => Sooner(t, u) \/ Sooner(u, t)
                    /\ Sooner(t, u) /\ Sooner(u, v) => Sooner(t, v)
  OBVIOUS
<1>1. /\ t = <<t[1], t[2]>> /\ t[1] \in Nat /\ t[2] \in Nat
      /\ u = <<u[1], u[2]>> /\ u[1] \in Nat /\ u[2] \in Nat
      /\ v = <<v[1], v[2]>> /\ v[1] \in Nat /\ v[2] \in Nat
  BY DEF Tickets
<1> QED
  BY <1>1 DEF Sooner

(* Every place of the arranged list is taken by one ticket, and earlier    *)
(* places by sooner tickets.                                               *)
LEMMA Places ==
    ASSUME NEW T, Tickets(T)
    PROVE  LET n == Cardinality(T)
           IN  /\ n \in Nat
               /\ \E o \in [1 .. n -> T] :
                    /\ \A k \in 1 .. n : o[k] = CHOOSE t \in T : Cardinality(Ahead(T, t)) = k - 1
                    /\ \A k, l \in 1 .. n : k < l => Sooner(o[k], o[l])
                    /\ \A t \in T : \E k \in 1 .. n : o[k] = t
<1> DEFINE n == Cardinality(T)
           place == [t \in T |-> Cardinality(Ahead(T, t)) + 1]
<1>1. n \in Nat /\ \A S \in SUBSET T : IsFiniteSet(S) /\ Cardinality(S) \in Nat
  BY FS_Subset, FS_CardinalityType DEF Tickets
<1>2. \A t \in T : Ahead(T, t) \in SUBSET T /\ t \notin Ahead(T, t)
  BY SoonerOrder DEF Ahead
<1>3. ASSUME NEW t \in T, NEW u \in T, Sooner(t, u) PROVE place[t] < place[u]
  <2>1. Ahead(T, t) \cup {t} \in SUBSET Ahead(T, u)
    BY <1>3, SoonerOrder DEF Ahead
  <2>2. Cardinality(Ahead(T, t) \cup {t}) <= Cardinality(Ahead(T, u))
    BY <1>1, <1>2, <2>1, FS_Subset
  <2>3. Cardinality(Ahead(T, t) \cup {t}) = Cardinality(Ahead(T, t)) + 1
    BY <1>1, <1>2, FS_AddElement
  <2> QED
    BY <1>1, <1>2, <2>2, <2>3
<1>4. \A t \in T : place[t] \in 1 .. n
  <2> SUFFICES ASSUME NEW t \in T PROVE place[t] \in 1 .. n
    OBVIOUS
  <2>1. Cardinality(Ahead(T, t) \cup {t}) <= n
    BY <1>1, <1>2, FS_Subset DEF Tickets
  <2>2. Cardinality(Ahead(T, t) \cup {t}) = Cardinality(Ahead(T, t)) + 1
    BY <1>1, <1>2, FS_AddElement
  <2> QED
    BY <1>1, <1>2, <2>1, <2>2
<1>5. \A t, u \in T : place[t] = place[u] => t = u
  <2> SUFFICES ASSUME NEW t \in T, NEW u \in T, t # u PROVE place[t] # place[u]
    OBVIOUS
  <2>1. place[t] \in Nat /\ place[u] \in Nat
    BY <1>1, <1>4
  <2>2. CASE Sooner(t, u)
    BY <1>3, <2>1, <2>2
  <2>3. CASE Sooner(u, t)
    BY <1>3, <2>1, <2>3
  <2> QED
    BY <2>2, <2>3, SoonerOrder
<1>6. place \in Surjection(T, 1 .. n)
  <2>1. place \in [T -> 1 .. n]
    BY <1>4
  <2>2. DOMAIN place = T
    OBVIOUS
  <2> HIDE DEF place
  <2>3. place \in Injection(T, 1 .. n)
    BY <1>5, <2>1, <2>2 DEF Injection, IsInjective
  <2>4. IsFiniteSet(1 .. n) /\ Cardinality(1 .. n) = n
    BY <1>1, FS_Interval
  <2> QED
    BY <2>3, <2>4, FS_Injection
<1> DEFINE o == [k \in 1 .. n |-> CHOOSE t \in T : Cardinality(Ahead(T, t)) = k - 1]
<1>7. ASSUME NEW k \in 1 .. n
      PROVE  o[k] \in T /\ Cardinality(Ahead(T, o[k])) = k - 1 /\ place[o[k]] = k
  <2>1. \E t \in T : place[t] = k
    BY <1>6 DEF Surjection
  <2>2. \E t \in T : Cardinality(Ahead(T, t)) = k - 1
    BY <1>1, <1>2, <2>1
  <2> QED
    BY <1>1, <2>2
<1>8. ASSUME NEW k \in 1 .. n, NEW l \in 1 .. n, k < l PROVE Sooner(o[k], o[l])
  <2> HIDE DEF o, place
  <2>1. o[k] # o[l]
    BY <1>1, <1>7, <1>8
  <2>2. ~ Sooner(o[l], o[k])
    <3>1. SUFFICES ASSUME Sooner(o[l], o[k]) PROVE FALSE
      OBVIOUS
    <3>2. place[o[l]] < place[o[k]]
      BY <1>3, <1>7, <3>1
    <3> QED
      BY <1>1, <1>7, <1>8, <3>2
  <2> QED
    BY <1>7, <2>1, <2>2, SoonerOrder
<1>9. ASSUME NEW t \in T PROVE \E k \in 1 .. n : o[k] = t
  <2> HIDE DEF o, place
  <2>1. place[t] \in 1 .. n
    BY <1>4
  <2>2. o[place[t]] \in T /\ place[o[place[t]]] = place[t]
    BY <1>7, <2>1
  <2> QED
    BY <1>5, <2>1, <2>2
<1>10. o \in [1 .. n -> T]
  BY <1>7
<1> QED
  BY <1>1, <1>8, <1>9, <1>10

(* The elements of the arranged list are those the tickets name, heavier   *)
(* ones never before lighter ones.                                         *)
LEMMA ArrangedList ==
    ASSUME NEW s, NEW T, Tickets(T)
    PROVE  LET n == Cardinality(T)
           IN  /\ n \in Nat /\ DOMAIN Arranged(s, T) = 1 .. n
               /\ Arranged(s, T) = [k \in 1 .. n |-> Arranged(s, T)[k]]
               /\ \E o \in [1 .. n -> T] :
                    /\ \A k \in 1 .. n : Arranged(s, T)[k] = s[o[k][2]]
                    /\ \A k, l \in 1 .. n : k < l => Sooner(o[k], o[l])
                    /\ \A t \in T : \E k \in 1 .. n : o[k] = t
<1> DEFINE n == Cardinality(T)
           A == Arranged(s, T)
<1>1. PICK o \in [1 .. n -> T] :
           /\ \A k \in 1 .. n : o[k] = CHOOSE t \in T : Cardinality(Ahead(T, t)) = k - 1
           /\ \A k, l \in 1 .. n : k < l => Sooner(o[k], o[l])
           /\ \A t \in T : \E k \in 1 .. n : o[k] = t
  BY Places
<1>2. A = [k \in 1 .. n |-> s[(CHOOSE t \in T : Cardinality(Ahead(T, t)) = k - 1)[2]]]
  BY DEF Arranged, Ahead
<1>3. \A k \in 1 .. n : A[k] = s[o[k][2]]
  BY <1>1, <1>2
<1>4. A = [k \in 1 .. n |-> A[k]] /\ DOMAIN A = 1 .. n
  <2> HIDE DEF A
  <2> QED
    BY <1>2
<1> HIDE DEF A
<1>5. n \in Nat
  BY Places
<1> QED
  BY <1>1, <1>3, <1>4, <1>5 DEF A

-----------------------------------------------------------------------------
(* Lists.                                                                  *)

Elements(s) == {s[i] : i \in DOMAIN s}
List(s) == s \in Seq(Elements(s))

LEMMA ListLen ==
    ASSUME NEW s, List(s) PROVE Len(s) \in Nat /\ DOMAIN s = 1 .. Len(s)
BY DEF List

LEMMA ListMade ==
    ASSUME NEW s, NEW n \in Nat, s = [i \in 1 .. n |-> s[i]] PROVE List(s) /\ Len(s) = n
<1>1. s \in [1 .. n -> Elements(s)]
  BY DEF Elements
<1>2. s \in Seq(Elements(s))
  BY <1>1, SMT
<1> QED
  BY <1>1, <1>2, LenProperties DEF List

LEMMA ListJoined ==
    ASSUME NEW s, NEW t, List(s), List(t)
    PROVE  /\ List(s \o t) /\ Len(s \o t) = Len(s) + Len(t)
           /\ \A i \in 1 .. Len(s) : (s \o t)[i] = s[i]
           /\ \A i \in 1 .. Len(t) : (s \o t)[Len(s) + i] = t[i]
           /\ \A i \in 1 .. Len(s \o t) : (s \o t)[i] \in Elements(s) \cup Elements(t)
<1> DEFINE S == Elements(s) \cup Elements(t)
<1>1. s \in Seq(S) /\ t \in Seq(S)
  <2>1. s \in Seq(Elements(s)) /\ t \in Seq(Elements(t))
    BY DEF List
  <2> HIDE DEF S
  <2>2. Elements(s) \subseteq S /\ Elements(t) \subseteq S
    BY DEF S
  <2> QED
    BY <2>1, <2>2, SeqMonotonic
<1> HIDE DEF S
<1>2. /\ s \o t \in Seq(S) /\ Len(s \o t) = Len(s) + Len(t)
      /\ \A i \in 1 .. Len(s) + Len(t) : (s \o t)[i] = IF i <= Len(s) THEN s[i]
                                                       ELSE t[i - Len(s)]
  BY <1>1, ConcatProperties
<1>3. Len(s) \in Nat /\ Len(t) \in Nat /\ DOMAIN (s \o t) = 1 .. Len(s) + Len(t)
  BY <1>1, <1>2, LenProperties
<1>4. \A i \in 1 .. Len(s \o t) : (s \o t)[i] \in S
  BY <1>2, ElementOfSeq
<1>5. s \o t = [i \in 1 .. Len(s) + Len(t) |-> (s \o t)[i]]
  BY <1>2, <1>3, LenProperties
<1>6. List(s \o t)
  <2>1. Len(s) + Len(t) \in Nat
    BY <1>3
  <2> QED
    BY <1>5, <2>1, ListMade
<1> QED
  BY <1>2, <1>3, <1>4, <1>6 DEF S

LEMMA EmptyList == List(<<>>) /\ Len(<<>>) = 0 /\ DOMAIN <<>> = {}
BY DEF List

LEMMA LeastNumber == ASSUME NEW S \in SUBSET Nat, S # {} PROVE \E m \in S : \A n \in S : m <= n
<1>1. PICK m \in S : \A n \in S : <<n, m>> \notin OpToRel(<, Nat)
  BY WFMin, NatLessThanWellFounded, Zenon
<1>2. \A n \in S : ~ (n < m)
  BY <1>1, Zenon DEF OpToRel
<1> QED
  BY <1>2

LEMMA RankIsNatural ==
    /\ \A route : Rank(route) \in Nat
    /\ \A x, y : Key(x) = Key(y) => Rank(x) = Rank(y)
<1>1. ASSUME NEW route PROVE Rank(route) \in Nat
  <2> DEFINE I == {i \in 1 .. Len(Directness) : Directness[i] = route.type}
  <2>1. Rank(route) = IF I # {} THEN Min(I) ELSE 0
    BY DEF Rank, SelectInSeq
  <2>2. I \in SUBSET Nat
    OBVIOUS
  <2>3. CASE I # {}
    <3>1. Rank(route) = CHOOSE i \in I : \A j \in I : i <= j
      BY <2>1, <2>3 DEF Min
    <3> HIDE DEF I
    <3>2. \E i \in I : \A j \in I : i <= j
      BY <2>2, <2>3, LeastNumber
    <3> QED
      BY <2>2, <3>1, <3>2
  <2> QED
    BY <2>1, <2>3
<1>2. ASSUME NEW x, NEW y, Key(x) = Key(y) PROVE Rank(x) = Rank(y)
  BY <1>2 DEF Key, Rank, SelectInSeq
<1> QED
  BY <1>1, <1>2

-----------------------------------------------------------------------------
(* Route lists: the first of each key, sorted, cut.                        *)

LEMMA FirstOfKey ==
    ASSUME NEW s, List(s)
    PROVE  /\ Firsts(s) \subseteq 1 .. Len(s)
           /\ \A j \in DOMAIN s : \E i \in Firsts(s) : Key(s[i]) = Key(s[j])
           /\ \A i, j \in Firsts(s) : Key(s[i]) = Key(s[j]) => i = j
<1>1. Len(s) \in Nat /\ DOMAIN s = 1 .. Len(s)
  BY ListLen
<1>2. Firsts(s) \subseteq 1 .. Len(s)
  BY <1>1 DEF Firsts
<1>3. ASSUME NEW j \in DOMAIN s PROVE \E i \in Firsts(s) : Key(s[i]) = Key(s[j])
  <2> DEFINE same == {i \in 1 .. Len(s) : Key(s[i]) = Key(s[j])}
  <2>1. same \in SUBSET Nat /\ same # {}
    BY <1>1
  <2>2. PICK i \in same : \A k \in same : i <= k
    <3> HIDE DEF same
    <3> QED
      BY <2>1, LeastNumber
  <2>3. i \in DOMAIN s /\ \A k \in 1 .. i - 1 : Key(s[k]) # Key(s[i])
    BY <1>1, <2>2
  <2> QED
    BY <2>2, <2>3 DEF Firsts
<1>4. ASSUME NEW i \in Firsts(s), NEW j \in Firsts(s), i < j PROVE Key(s[i]) # Key(s[j])
  BY <1>1, <1>2, <1>4 DEF Firsts
<1>5. \A i, j \in Firsts(s) : Key(s[i]) = Key(s[j]) => i = j
  <2> SUFFICES ASSUME NEW i \in Firsts(s), NEW j \in Firsts(s), i # j
               PROVE  Key(s[i]) # Key(s[j])
    OBVIOUS
  <2>1. i \in Nat /\ j \in Nat
    BY <1>1, <1>2
  <2> QED
    BY <1>4, <2>1
<1> QED
  BY <1>2, <1>3, <1>5

(* Where the elements of the sorted list stood before: p.                  *)
Sorts(p, s, n) ==
    /\ p \in [1 .. n -> Firsts(s)]
    /\ \A k, l \in 1 .. n : k < l => p[k] # p[l] /\ Rank(s[p[k]]) <= Rank(s[p[l]])
    /\ \A i \in Firsts(s) : \E k \in 1 .. n : p[k] = i

LEMMA RankedList ==
    ASSUME NEW s, List(s)
    PROVE  LET R == Ranked(s, Firsts(s))
           IN  /\ List(R) /\ \A k \in 1 .. Len(R) : R[k] \in Elements(s)
               /\ \E p : Sorts(p, s, Len(R)) /\ \A k \in 1 .. Len(R) : R[k] = s[p[k]]
<1> DEFINE I == Firsts(s)
           T == {<<Rank(s[i]), i>> : i \in I}
           R == Ranked(s, I)
           n == Cardinality(T)
<1>1. Len(s) \in Nat /\ DOMAIN s = 1 .. Len(s) /\ I \subseteq 1 .. Len(s) /\ IsFiniteSet(I)
  <2>1. Len(s) \in Nat /\ DOMAIN s = 1 .. Len(s) /\ I \subseteq 1 .. Len(s)
    BY ListLen, FirstOfKey
  <2>2. IsFiniteSet(1 .. Len(s))
    BY <2>1, FS_Interval
  <2> QED
    BY <2>1, <2>2, FS_Subset
<1>2. \A i \in I : Rank(s[i]) \in Nat /\ i \in Nat
  BY <1>1, RankIsNatural
<1>3. Tickets(T)
  <2>1. IsFiniteSet(T)
    <3> DEFINE g == [i \in I |-> <<Rank(s[i]), i>>]
    <3>1. g \in [I -> T] /\ \A t \in T : \E i \in I : g[i] = t
      OBVIOUS
    <3> HIDE DEF g, T
    <3>2. g \in Surjection(I, T)
      BY <3>1 DEF Surjection
    <3> QED
      BY <1>1, <3>2, FS_Surjection
  <2> QED
    BY <1>2, <2>1 DEF Tickets
<1>4. PICK o \in [1 .. n -> T] :
           /\ \A k \in 1 .. n : R[k] = s[o[k][2]]
           /\ \A k, l \in 1 .. n : k < l => Sooner(o[k], o[l])
           /\ \A t \in T : \E k \in 1 .. n : o[k] = t
  <2>1. R = Arranged(s, T)
    BY DEF Ranked
  <2> HIDE DEF T, I, R
  <2> QED
    BY <1>3, <2>1, ArrangedList
<1>5. n \in Nat /\ R = [k \in 1 .. n |-> R[k]]
  <2> HIDE DEF T, I
  <2> QED
    BY <1>3, ArrangedList DEF Ranked, T
<1>6. List(R) /\ Len(R) = n
  <2> HIDE DEF R, n
  <2> QED
    BY <1>5, ListMade
<1> DEFINE p == [k \in 1 .. n |-> o[k][2]]
<1>7. \A k \in 1 .. n : p[k] \in I /\ o[k] = <<Rank(s[p[k]]), p[k]>>
  <2> SUFFICES ASSUME NEW k \in 1 .. n PROVE p[k] \in I /\ o[k] = <<Rank(s[p[k]]), p[k]>>
    OBVIOUS
  <2>1. PICK i \in I : o[k] = <<Rank(s[i]), i>>
    <3>1. o[k] \in T
      BY <1>4
    <3> QED
      BY <3>1
  <2> QED
    BY <2>1
<1>8. p \in [1 .. n -> I]
  BY <1>7
<1> HIDE DEF I, T, R, n, p
<1>9. ASSUME NEW k \in 1 .. n, NEW l \in 1 .. n, k < l
      PROVE  p[k] # p[l] /\ Rank(s[p[k]]) <= Rank(s[p[l]])
  <2>1. Sooner(<<Rank(s[p[k]]), p[k]>>, <<Rank(s[p[l]]), p[l]>>)
    BY <1>4, <1>7, <1>9
  <2>2. /\ Rank(s[p[k]]) \in Nat /\ p[k] \in Nat
        /\ Rank(s[p[l]]) \in Nat /\ p[l] \in Nat
    BY <1>2, <1>7
  <2>3. p[k] # p[l]
    BY <2>1, <2>2 DEF Sooner
  <2>4. Rank(s[p[k]]) <= Rank(s[p[l]])
    BY <2>1, <2>2 DEF Sooner
  <2> QED
    BY <2>3, <2>4
<1>10. \A i \in I : \E k \in 1 .. n : p[k] = i
  <2> SUFFICES ASSUME NEW i \in I PROVE \E k \in 1 .. n : p[k] = i
    OBVIOUS
  <2>1. <<Rank(s[i]), i>> \in T
    BY DEF T
  <2>2. PICK k \in 1 .. n : o[k] = <<Rank(s[i]), i>>
    BY <1>4, <2>1
  <2>3. p[k] = o[k][2]
    BY DEF p
  <2> QED
    BY <2>2, <2>3
<1>11. \A k \in 1 .. n : R[k] = s[p[k]]
  BY <1>4 DEF p
<1>12. Sorts(p, s, n)
  BY <1>8, <1>9, <1>10 DEF Sorts, I
<1>13. \A k \in 1 .. n : R[k] \in Elements(s)
  BY <1>1, <1>8, <1>11 DEF Elements
<1> QED
  BY <1>6, <1>11, <1>12, <1>13 DEF R, I

LEMMA BestList ==
    ASSUME NEW s, List(s), NEW limit \in Nat \ {0}
    PROVE  LET B == Best(s, limit)
           IN  /\ List(B) /\ Len(B) <= limit
               /\ \A k \in 1 .. Len(B) : B[k] \in Elements(s)
               /\ \E n, p :
                    /\ n \in Nat /\ Sorts(p, s, n)
                    /\ Len(B) = IF n <= limit THEN n ELSE limit
                    /\ \A k \in 1 .. Len(B) : B[k] = s[p[k]]
<1> DEFINE R == Ranked(s, Firsts(s))
           B == Best(s, limit)
           m == IF Len(R) <= limit THEN Len(R) ELSE limit
<1>1. /\ List(R) /\ \A k \in 1 .. Len(R) : R[k] \in Elements(s)
      /\ \E p : Sorts(p, s, Len(R)) /\ \A k \in 1 .. Len(R) : R[k] = s[p[k]]
  BY RankedList
<1> HIDE DEF R
<1>2. Len(R) \in Nat /\ DOMAIN R = 1 .. Len(R)
  BY <1>1, ListLen
<1>3. List(B) /\ Len(B) = m /\ \A k \in 1 .. m : B[k] = R[k]
  <2>1. CASE Len(R) <= limit
    BY <1>1, <2>1 DEF Best, Cut, R
  <2>2. CASE ~ (Len(R) <= limit)
    <3> DEFINE C == SubSeq(R, 1, limit)
    <3>1. B = C
      BY <2>2 DEF Best, Cut, R
    <3>2. \A k \in 1 .. limit : R[k] \in Elements(s)
      BY <1>1, <1>2, <2>2
    <3>3. C \in Seq(Elements(s)) /\ Len(C) = limit /\ \A k \in 1 .. limit : C[k] = R[k]
      <4>1. \A k \in 1 .. limit - 1 + 1 : C[k] = R[1 + k - 1]
        BY <3>2, SubSeqProperties
      <4>2. \A k \in 1 .. limit : C[k] = R[k]
        <5> HIDE DEF C
        <5> QED
          BY <4>1
      <4> QED
        BY <3>2, <4>2, SubSeqProperties
    <3> HIDE DEF C, B
    <3>4. C = [k \in 1 .. limit |-> C[k]]
      BY <3>3, LenProperties
    <3>5. List(C)
      BY <3>4, ListMade
    <3> QED
      BY <2>2, <3>1, <3>3, <3>5
  <2> QED
    BY <2>1, <2>2
<1> HIDE DEF B
<1>4. m \in Nat /\ m <= limit /\ m <= Len(R)
  BY <1>2
<1> HIDE DEF m
<1>5. PICK p : Sorts(p, s, Len(R)) /\ \A k \in 1 .. Len(R) : R[k] = s[p[k]]
  BY <1>1
<1>6. \A k \in 1 .. Len(B) : k \in 1 .. Len(R)
  BY <1>2, <1>3, <1>4
<1>7. \A k \in 1 .. Len(B) : B[k] = s[p[k]] /\ B[k] \in Elements(s)
  BY <1>1, <1>3, <1>5, <1>6
<1>8. Len(B) = IF Len(R) <= limit THEN Len(R) ELSE limit
  BY <1>3 DEF m
<1> QED
  BY <1>2, <1>3, <1>4, <1>5, <1>7, <1>8 DEF B

(* The places of a list that are at least as direct as r.                  *)
Direct(s, r) == {k \in DOMAIN s : Rank(s[k]) <= r}

(* No key twice, and what is dropped was dropped by a full list of routes  *)
(* that are all as direct.                                                 *)
LEMMA BestKeeps ==
    ASSUME NEW s, List(s), NEW limit \in Nat \ {0}
    PROVE  LET B == Best(s, limit)
           IN  /\ \A k, l \in DOMAIN B : Key(B[k]) = Key(B[l]) => k = l
               /\ \A j \in DOMAIN s : Key(s[j]) \notin {Key(B[k]) : k \in DOMAIN B} =>
                    Len(B) = limit /\ Direct(B, Rank(s[j])) = 1 .. limit
<1> DEFINE B == Best(s, limit)
<1>1. List(B)
  BY BestList
<1>2. PICK n, p : /\ n \in Nat /\ Sorts(p, s, n)
                  /\ Len(B) = IF n <= limit THEN n ELSE limit
                  /\ \A k \in 1 .. Len(B) : B[k] = s[p[k]]
  BY BestList
<1> HIDE DEF B
<1>3. /\ n \in Nat /\ Len(B) \in Nat /\ DOMAIN B = 1 .. Len(B)
      /\ Len(B) <= n /\ Len(B) <= limit
  BY <1>1, <1>2, ListLen
<1>4. \A k \in 1 .. Len(B) : k \in 1 .. n
  BY <1>3
<1>5. ASSUME NEW k \in DOMAIN B, NEW l \in DOMAIN B, k < l PROVE Key(B[k]) # Key(B[l])
  <2>1. p[k] # p[l] /\ p[k] \in Firsts(s) /\ p[l] \in Firsts(s)
    BY <1>2, <1>3, <1>4, <1>5 DEF Sorts
  <2> QED
    BY <1>2, <1>3, <2>1, FirstOfKey
<1>6. \A k, l \in DOMAIN B : Key(B[k]) = Key(B[l]) => k = l
  <2> SUFFICES ASSUME NEW k \in DOMAIN B, NEW l \in DOMAIN B, k # l
               PROVE  Key(B[k]) # Key(B[l])
    OBVIOUS
  <2> QED
    BY <1>3, <1>5
<1>7. ASSUME NEW j \in DOMAIN s, Key(s[j]) \notin {Key(B[k]) : k \in DOMAIN B}
      PROVE  Len(B) = limit /\ Direct(B, Rank(s[j])) = 1 .. limit
  <2>1. PICK i \in Firsts(s) : Key(s[i]) = Key(s[j])
    BY FirstOfKey
  <2>2. PICK k \in 1 .. n : p[k] = i
    BY <1>2 DEF Sorts
  <2>3. k \notin 1 .. Len(B)
    BY <1>2, <1>3, <1>7, <2>1, <2>2
  <2>4. k > Len(B) /\ Len(B) = limit
    BY <1>2, <1>3, <2>3
  <2>5. \A l \in 1 .. Len(B) : Rank(s[p[l]]) <= Rank(s[p[k]])
    BY <1>2, <1>3, <1>4, <2>4 DEF Sorts
  <2>6. Rank(s[p[k]]) = Rank(s[j])
    BY <2>1, <2>2, RankIsNatural
  <2> QED
    BY <1>2, <1>3, <2>4, <2>5, <2>6 DEF Direct
<1> QED
  BY <1>6, <1>7 DEF B

(* Routes with different keys that are as direct as r are kept as such, as *)
(* far as the limit goes.                                                  *)
LEMMA BestCounts ==
    ASSUME NEW s, List(s), NEW limit \in Nat \ {0}, NEW r \in Nat,
           NEW J \in SUBSET Direct(s, r), \A i, j \in J : Key(s[i]) = Key(s[j]) => i = j
    PROVE  LET B == Best(s, limit)
           IN  /\ Cardinality(J) \in Nat /\ Cardinality(Direct(B, r)) \in Nat
               /\ Cardinality(Direct(B, r)) >= IF Cardinality(J) <= limit THEN Cardinality(J)
                                               ELSE limit
<1> DEFINE B == Best(s, limit)
<1>1. List(B)
  BY BestList
<1>2. PICK n, p : /\ n \in Nat /\ Sorts(p, s, n)
                  /\ Len(B) = IF n <= limit THEN n ELSE limit
                  /\ \A k \in 1 .. Len(B) : B[k] = s[p[k]]
  BY BestList
<1> HIDE DEF B
<1>3. /\ n \in Nat /\ Len(B) \in Nat /\ DOMAIN B = 1 .. Len(B)
      /\ Len(B) <= n /\ Len(B) <= limit
  BY <1>1, <1>2, ListLen
<1>4. J \subseteq DOMAIN s /\ \A j \in J : Rank(s[j]) <= r
  BY DEF Direct
<1> DEFINE P == {k \in 1 .. n : Rank(s[p[k]]) <= r}
           f == [j \in J |-> CHOOSE k \in P : Key(s[p[k]]) = Key(s[j])]
<1>5. ASSUME NEW j \in J PROVE \E k \in P : Key(s[p[k]]) = Key(s[j])
  <2>1. PICK i \in Firsts(s) : Key(s[i]) = Key(s[j])
    BY <1>4, FirstOfKey
  <2>2. PICK k \in 1 .. n : p[k] = i
    BY <1>2 DEF Sorts
  <2>3. Rank(s[p[k]]) <= r
    BY <1>4, <2>1, <2>2, RankIsNatural
  <2> QED
    BY <2>1, <2>2, <2>3
<1>6. f \in Injection(J, P)
  <2>1. \A j \in J : f[j] \in P /\ Key(s[p[f[j]]]) = Key(s[j])
    BY <1>5
  <2>2. f \in [J -> P] /\ DOMAIN f = J
    BY <2>1
  <2> HIDE DEF f, P
  <2>3. \A i, j \in J : f[i] = f[j] => i = j
    <3> SUFFICES ASSUME NEW i \in J, NEW j \in J, f[i] = f[j] PROVE i = j
      OBVIOUS
    <3>1. Key(s[i]) = Key(s[j])
      BY <2>1
    <3> QED
      BY <3>1
  <2> QED
    BY <2>2, <2>3 DEF Injection, IsInjective
<1>7. /\ IsFiniteSet(P) /\ Cardinality(P) \in Nat
      /\ IsFiniteSet(Direct(B, r)) /\ Cardinality(Direct(B, r)) \in Nat
      /\ Cardinality(1 .. limit) = limit
  <2>1. /\ IsFiniteSet(1 .. n) /\ IsFiniteSet(1 .. Len(B))
        /\ Cardinality(1 .. limit) = limit
    BY <1>3, FS_Interval
  <2>2. P \subseteq 1 .. n /\ Direct(B, r) \subseteq 1 .. Len(B)
    BY <1>3 DEF Direct
  <2> HIDE DEF P
  <2> QED
    BY <2>1, <2>2, FS_Subset, FS_CardinalityType
<1>8. IsFiniteSet(J) /\ Cardinality(J) \in Nat /\ Cardinality(J) <= Cardinality(P)
  <2> HIDE DEF f, P
  <2> QED
    BY <1>6, <1>7, FS_Injection, FS_CardinalityType
<1>9. CASE \A k \in P : k <= Len(B)
  <2>1. P = Direct(B, r)
    BY <1>2, <1>3, <1>9 DEF Direct
  <2> HIDE DEF P
  <2> QED
    BY <1>7, <1>8, <2>1 DEF B
<1>10. ASSUME NEW k \in P, ~ (k <= Len(B))
       PROVE  Direct(B, r) = 1 .. limit
  <2>1. Len(B) = limit /\ \A l \in 1 .. Len(B) : l \in 1 .. n /\ l < k
    BY <1>2, <1>3, <1>10
  <2>2. \A l \in 1 .. Len(B) : Rank(s[p[l]]) <= Rank(s[p[k]])
    BY <1>2, <2>1 DEF Sorts
  <2>3. \A l \in 1 .. Len(B) : Rank(B[l]) <= r
    <3> SUFFICES ASSUME NEW l \in 1 .. Len(B) PROVE Rank(B[l]) <= r
      OBVIOUS
    <3>1. /\ Rank(B[l]) \in Nat /\ Rank(s[p[k]]) \in Nat /\ Rank(s[p[k]]) <= r
          /\ Rank(B[l]) <= Rank(s[p[k]])
      BY <1>2, <2>2, RankIsNatural
    <3> QED
      BY <3>1
  <2> QED
    BY <1>3, <2>1, <2>3 DEF Direct
<1>11. CASE ~ \A k \in P : k <= Len(B)
  <2>1. Cardinality(Direct(B, r)) = limit
    BY <1>7, <1>10, <1>11
  <2> HIDE DEF P
  <2> QED
    BY <1>7, <1>8, <2>1 DEF B
<1> QED
  BY <1>9, <1>11

-----------------------------------------------------------------------------
(* What the searches found.                                                *)

Flattens(f, ss, m) == f = [i \in 1 .. m |-> IF i = 1 THEN ss[i] ELSE f[i - 1] \o ss[i]]

LEMMA FlattenExists ==
    ASSUME NEW n \in Nat, NEW ss PROVE \E f : Flattens(f, ss, n)
<1> DEFINE bad == {m \in Nat : ~ \E f : Flattens(f, ss, m)}
<1>1. SUFFICES bad = {}
  BY <1>1
<1>2. SUFFICES ASSUME bad # {} PROVE FALSE
  OBVIOUS
<1>3. PICK m \in bad : \A k \in bad : m <= k
  <2>1. bad \in SUBSET Nat
    OBVIOUS
  <2> HIDE DEF bad
  <2> QED
    BY <1>2, <2>1, LeastNumber
<1>4. m \in Nat /\ ~ \E f : Flattens(f, ss, m)
  BY <1>3
<1>5. CASE m = 0
  <2> DEFINE e == [i \in 1 .. 0 |-> i]
  <2>1. e = [i \in 1 .. 0 |-> IF i = 1 THEN ss[i] ELSE e[i - 1] \o ss[i]]
    OBVIOUS
  <2> HIDE DEF e
  <2>2. Flattens(e, ss, m)
    BY <1>5, <2>1 DEF Flattens
  <2> QED
    BY <1>4, <2>2
<1>6. CASE m # 0
  <2>1. m - 1 \in Nat /\ m - 1 \notin bad
    BY <1>3, <1>4, <1>6
  <2>2. PICK f : Flattens(f, ss, m - 1)
    BY <2>1
  <2> DEFINE g == [i \in 1 .. m |-> IF i = 1 THEN ss[i] ELSE f[i - 1] \o ss[i]]
  <2>3. f = [i \in 1 .. m - 1 |-> IF i = 1 THEN ss[i] ELSE f[i - 1] \o ss[i]]
    BY <2>2 DEF Flattens
  <2>4. \A i \in 1 .. m - 1 : f[i] = g[i]
    <3> SUFFICES ASSUME NEW i \in 1 .. m - 1 PROVE f[i] = g[i]
      OBVIOUS
    <3>1. f[i] = IF i = 1 THEN ss[i] ELSE f[i - 1] \o ss[i]
      BY <2>3
    <3>2. i \in 1 .. m
      BY <1>4
    <3> QED
      BY <3>1, <3>2
  <2>5. \A i \in 1 .. m : g[i] = IF i = 1 THEN ss[i] ELSE g[i - 1] \o ss[i]
    <3> SUFFICES ASSUME NEW i \in 1 .. m PROVE g[i] = IF i = 1 THEN ss[i] ELSE g[i - 1] \o ss[i]
      OBVIOUS
    <3>1. CASE i = 1
      BY <3>1
    <3>2. CASE i # 1
      <4>1. i - 1 \in 1 .. m - 1
        BY <1>4, <3>2
      <4> QED
        BY <2>4, <3>2, <4>1
    <3> QED
      BY <3>1, <3>2
  <2>6. g = [i \in 1 .. m |-> g[i]]
    OBVIOUS
  <2> HIDE DEF g
  <2>7. g = [i \in 1 .. m |-> IF i = 1 THEN ss[i] ELSE g[i - 1] \o ss[i]]
    BY <2>5, <2>6
  <2> QED
    BY <1>4, <2>7 DEF Flattens
<1> QED
  BY <1>5, <1>6

(* A flattened list of lists is a list of their elements.                  *)
LEMMA FlattenList ==
    ASSUME NEW n \in Nat, NEW ss, ss = [i \in 1 .. n |-> ss[i]],
           \A i \in 1 .. n : List(ss[i])
    PROVE  /\ List(FlattenSeq(ss))
           /\ Elements(FlattenSeq(ss)) \subseteq UNION {Elements(ss[i]) : i \in 1 .. n}
<1>1. List(ss) /\ Len(ss) = n
  BY ListMade
<1>2. CASE n = 0
  <2>1. FlattenSeq(ss) = ss
    BY <1>1, <1>2 DEF FlattenSeq
  <2>2. DOMAIN ss = {}
    BY <1>2
  <2> QED
    BY <1>1, <2>1, <2>2 DEF Elements
<1>3. CASE n # 0
  <2> DEFINE F == CHOOSE f : Flattens(f, ss, n)
             Good(i) == /\ List(F[i])
                        /\ \A k \in DOMAIN F[i] : \E j \in 1 .. n : F[i][k] \in Elements(ss[j])
             bad == {i \in 1 .. n : ~ Good(i)}
  <2>1. FlattenSeq(ss) = F[n]
    BY <1>1, <1>3 DEF FlattenSeq, Flattens
  <2>2. Flattens(F, ss, n)
    BY FlattenExists
  <2> HIDE DEF F
  <2>3. ASSUME NEW i \in 1 .. n PROVE F[i] = IF i = 1 THEN ss[i] ELSE F[i - 1] \o ss[i]
    BY <2>2 DEF Flattens
  <2>4. bad = {}
    <3> SUFFICES ASSUME bad # {} PROVE FALSE
      OBVIOUS
    <3>1. bad \in SUBSET Nat
      OBVIOUS
    <3>2. PICK i \in bad : \A j \in bad : i <= j
      <4> HIDE DEF bad
      <4> QED
        BY <3>1, LeastNumber
    <3>3. i \in 1 .. n /\ ~ Good(i)
      BY <3>2
    <3>4. CASE i = 1
      <4>1. F[i] = ss[i]
        BY <2>3, <3>3, <3>4
      <4> QED
        BY <3>3, <4>1 DEF Elements
    <3>5. CASE i # 1
      <4>1. i - 1 \in 1 .. n /\ i - 1 \notin bad
        BY <3>2, <3>3, <3>5
      <4>2. Good(i - 1)
        BY <4>1
      <4>3. F[i] = F[i - 1] \o ss[i]
        BY <2>3, <3>3, <3>5
      <4>4. /\ List(F[i])
            /\ \A k \in 1 .. Len(F[i]) : F[i][k] \in Elements(F[i - 1]) \cup Elements(ss[i])
        <5>1. List(F[i - 1]) /\ List(ss[i])
          BY <3>3, <4>2
        <5> DEFINE J == F[i - 1] \o ss[i]
        <5>2. /\ List(J)
              /\ \A k \in 1 .. Len(J) : J[k] \in Elements(F[i - 1]) \cup Elements(ss[i])
          <6> HIDE DEF Good, bad
          <6> QED
            BY <5>1, ListJoined
        <5> HIDE DEF J, Good, bad
        <5> QED
          BY <4>3, <5>2 DEF J
      <4>5. DOMAIN F[i] = 1 .. Len(F[i])
        BY <4>4, ListLen
      <4>6. \A x \in Elements(F[i - 1]) : \E j \in 1 .. n : x \in Elements(ss[j])
        BY <4>2 DEF Elements
      <4> QED
        BY <3>3, <4>4, <4>5, <4>6
    <3> QED
      BY <3>4, <3>5
  <2>5. n \in 1 .. n
    BY <1>3
  <2>6. Good(n)
    BY <2>4, <2>5
  <2> QED
    BY <2>1, <2>6 DEF Elements
<1> QED
  BY <1>2, <1>3

LEMMA SelectedList ==
    ASSUME NEW s, NEW I, IsFiniteSet(I), I \subseteq Nat
    PROVE  /\ List(Selected(s, I))
           /\ \A k \in DOMAIN Selected(s, I) : Selected(s, I)[k] \in {s[i] : i \in I}
<1> DEFINE T == {<<0, i>> : i \in I}
           t == Selected(s, I)
           n == Cardinality(T)
<1>1. Tickets(T)
  <2>1. IsFiniteSet(T)
    <3> DEFINE g == [i \in I |-> <<0, i>>]
    <3>1. g \in [I -> T] /\ \A u \in T : \E i \in I : g[i] = u
      OBVIOUS
    <3> HIDE DEF g, T
    <3>2. g \in Surjection(I, T)
      BY <3>1 DEF Surjection
    <3> QED
      BY <3>2, FS_Surjection
  <2>2. \A i \in I : <<0, i>> \in Nat \X Nat
    OBVIOUS
  <2> QED
    BY <2>1, <2>2 DEF Tickets
<1>2. t = Arranged(s, T)
  BY DEF Selected
<1> HIDE DEF t, T
<1>3. n \in Nat /\ t = [k \in 1 .. n |-> t[k]] /\ DOMAIN t = 1 .. n
  BY <1>1, <1>2, ArrangedList
<1>4. PICK o \in [1 .. n -> T] : \A k \in 1 .. n : t[k] = s[o[k][2]]
  BY <1>1, <1>2, ArrangedList
<1>5. \A k \in 1 .. n : o[k][2] \in I
  <2> SUFFICES ASSUME NEW k \in 1 .. n PROVE o[k][2] \in I
    OBVIOUS
  <2>1. o[k] \in T
    BY <1>4
  <2> QED
    BY <2>1 DEF T
<1>6. List(t)
  <2> HIDE DEF n
  <2> QED
    BY <1>3, ListMade
<1> QED
  BY <1>3, <1>4, <1>5, <1>6 DEF t

(* What may be published of a result: never a /in/ page, and a route that  *)
(* reaches one person only from a page that names the person.              *)
Proper(x, r) ==
    /\ x.source \in Pages /\ x.type # "linkedin_profile"
    /\ x.scope = "person" => NamesPerson(x.source, r)

ProperList(s, r) == List(s) /\ \A x \in Elements(s) : Proper(x, r)

LEMMA ProperJoined ==
    ASSUME NEW r, NEW s, NEW t, ProperList(s, r), ProperList(t, r)
    PROVE  ProperList(s \o t, r)
<1>1. List(s) /\ List(t)
  BY DEF ProperList
<1>2. /\ List(s \o t)
      /\ \A i \in 1 .. Len(s \o t) : (s \o t)[i] \in Elements(s) \cup Elements(t)
  BY <1>1, ListJoined
<1>3. DOMAIN (s \o t) = 1 .. Len(s \o t)
  BY <1>2, ListLen
<1> QED
  BY <1>2, <1>3 DEF ProperList, Elements

LEMMA ProperPage ==
    ASSUME NEW p \in Pages, NEW c, NEW r PROVE ProperList(PageRoutes(p, c, r), r)
<1> DEFINE type == ClassifyPage(p, c)
           x == Route(type, Url[p], p)
<1>1. CASE PageRoutes(p, c, r) = <<>>
  BY <1>1, EmptyList DEF ProperList, Elements
<1>2. CASE PageRoutes(p, c, r) # <<>>
  <2>1. /\ PageRoutes(p, c, r) = <<x>> /\ type # "linkedin_profile"
        /\ type \in PersonScoped => NamesPerson(p, r)
    BY <1>2 DEF PageRoutes
  <2> HIDE DEF type
  <2>2. Proper(x, r)
    BY <2>1 DEF Proper, Route
  <2> HIDE DEF x
  <2>3. <<x>> = [i \in 1 .. 1 |-> <<x>>[i]]
    OBVIOUS
  <2>4. List(<<x>>)
    BY <2>3, ListMade
  <2> QED
    BY <2>1, <2>2, <2>4 DEF ProperList, Elements
<1> QED
  BY <1>1, <1>2

LEMMA ProperMails ==
    ASSUME NEW p \in Pages, NEW r PROVE ProperList(MailRoutes(p, r), r)
<1> DEFINE I == {i \in DOMAIN p.mails : MailTaken(p, p.mails[i], r)}
           taken == Selected(p.mails, I)
           routes == [i \in DOMAIN taken |-> Route(ClassifyEmail(taken[i]), taken[i].address, p)]
<1>1. p.mails \in Seq(Mails)
  BY ContactsAssumption DEF ContactsAssumption
<1>2. IsFiniteSet(I) /\ I \subseteq Nat /\ I \subseteq 1 .. Len(p.mails)
  <2>1. Len(p.mails) \in Nat /\ I \subseteq 1 .. Len(p.mails) /\ I \subseteq Nat
    BY <1>1, LenProperties
  <2>2. IsFiniteSet(1 .. Len(p.mails))
    BY <2>1, FS_Interval
  <2> HIDE DEF I
  <2> QED
    BY <2>1, <2>2, FS_Subset
<1>3. MailRoutes(p, r) = routes
  BY DEF MailRoutes
<1>4. List(taken) /\ \A k \in DOMAIN taken : \E i \in I : taken[k] = p.mails[i]
  <2> DEFINE s == p.mails
  <2>1. IsFiniteSet(I) /\ I \subseteq Nat
    BY <1>2
  <2> HIDE DEF I, s, taken
  <2>2. List(Selected(s, I))
    BY <2>1, SelectedList
  <2>3. \A k \in DOMAIN Selected(s, I) : Selected(s, I)[k] \in {s[i] : i \in I}
    BY <2>1, SelectedList
  <2> QED
    BY <2>2, <2>3 DEF s, taken
<1> HIDE DEF taken
<1>5. Len(taken) \in Nat /\ DOMAIN taken = 1 .. Len(taken)
  BY <1>4, ListLen
<1>6. List(routes)
  <2>1. routes = [i \in 1 .. Len(taken) |-> routes[i]]
    BY <1>5
  <2> HIDE DEF routes
  <2> QED
    BY <1>5, <2>1, ListMade
<1>7. ASSUME NEW k \in DOMAIN taken PROVE Proper(routes[k], r)
  <2>1. PICK i \in I : taken[k] = p.mails[i]
    BY <1>4
  <2> DEFINE m == p.mails[i]
  <2>2. m \in Mails /\ MailTaken(p, m, r)
    BY <1>1, <1>2, ElementOfSeq
  <2>3. routes[k] = Route(ClassifyEmail(m), m.address, p)
    BY <2>1
  <2> HIDE DEF m, routes
  <2>4. ClassifyEmail(m) # "linkedin_profile"
    BY <2>2 DEF ClassifyEmail, Mails, Roles
  <2> QED
    BY <2>2, <2>3, <2>4 DEF Proper, Route, MailTaken
<1> QED
  BY <1>3, <1>6, <1>7 DEF ProperList, Elements

LEMMA ProperPhones ==
    ASSUME NEW p \in Pages, NEW c, NEW r PROVE ProperList(PhoneRoutes(p, c), r)
<1> DEFINE I == {i \in DOMAIN p.phones : Publishable(p.phones[i])}
           s == p.phones
           taken == IF c \notin p.site THEN <<>> ELSE Selected(s, I)
           routes == [i \in DOMAIN taken |-> Route("reception", taken[i].number, p)]
<1>1. IsFiniteSet(I) /\ I \subseteq Nat
  <2>1. s \in Seq(Phones)
    BY ContactsAssumption DEF ContactsAssumption
  <2>2. Len(s) \in Nat /\ I \subseteq 1 .. Len(s) /\ I \subseteq Nat
    BY <2>1, LenProperties
  <2>3. IsFiniteSet(1 .. Len(s))
    BY <2>2, FS_Interval
  <2> HIDE DEF I
  <2> QED
    BY <2>2, <2>3, FS_Subset
<1>2. PhoneRoutes(p, c) = routes
  BY DEF PhoneRoutes
<1>3. List(taken)
  <2> HIDE DEF I, s
  <2>1. List(Selected(s, I))
    BY <1>1, SelectedList
  <2> QED
    BY <2>1, EmptyList
<1> HIDE DEF taken
<1>4. Len(taken) \in Nat /\ DOMAIN taken = 1 .. Len(taken)
  BY <1>3, ListLen
<1>5. List(routes)
  <2>1. routes = [i \in 1 .. Len(taken) |-> routes[i]]
    BY <1>4
  <2> HIDE DEF routes
  <2> QED
    BY <1>4, <2>1, ListMade
<1>6. \A k \in DOMAIN taken : Proper(routes[k], r)
  BY DEF Proper, Route, PersonScoped
<1> QED
  BY <1>2, <1>5, <1>6 DEF ProperList, Elements

LEMMA ProperResult ==
    ASSUME NEW p \in Pages, NEW c, NEW r PROVE ProperList(RoutesFromResult(p, c, r), r)
<1>1. CASE p.kind = "aggregator"
  BY <1>1, EmptyList DEF RoutesFromResult, ProperList, Elements
<1>2. CASE p.kind # "aggregator"
  <2>1. ProperList(PageRoutes(p, c, r) \o MailRoutes(p, r), r)
    BY ProperPage, ProperMails, ProperJoined
  <2>2. ProperList(PageRoutes(p, c, r) \o MailRoutes(p, r) \o PhoneRoutes(p, c), r)
    BY <2>1, ProperPhones, ProperJoined
  <2> QED
    BY <1>2, <2>2 DEF RoutesFromResult
<1> QED
  BY <1>1, <1>2

(* Nothing improper is found, in whatever results.                         *)
LEMMA FoundProper ==
    ASSUME NEW results \in Seq(Pages), NEW c, NEW r PROVE ProperList(Found(results, c, r), r)
<1> DEFINE n == Len(results)
           ss == [i \in DOMAIN results |-> RoutesFromResult(results[i], c, r)]
           F == FlattenSeq(ss)
<1>1. n \in Nat /\ DOMAIN results = 1 .. n
  BY LenProperties
<1>2. ASSUME NEW i \in 1 .. n PROVE ProperList(ss[i], r)
  <2>1. results[i] \in Pages
    BY ElementOfSeq
  <2> QED
    BY <1>1, <2>1, ProperResult
<1>3. ss = [i \in 1 .. n |-> ss[i]]
  BY <1>1
<1>4. Found(results, c, r) = F
  BY DEF Found
<1> HIDE DEF ss, n
<1>5. List(F) /\ Elements(F) \subseteq UNION {Elements(ss[i]) : i \in 1 .. n}
  <2>1. \A i \in 1 .. n : List(ss[i])
    BY <1>2 DEF ProperList
  <2> QED
    BY <1>1, <1>3, <2>1, FlattenList
<1> HIDE DEF F
<1>6. \A x \in Elements(F) : Proper(x, r)
  <2> SUFFICES ASSUME NEW x \in Elements(F) PROVE Proper(x, r)
    OBVIOUS
  <2>1. PICK i \in 1 .. n : x \in Elements(ss[i])
    BY <1>5
  <2> QED
    BY <1>2, <2>1 DEF ProperList
<1> QED
  BY <1>4, <1>5, <1>6 DEF ProperList

(* A collected list is proper for the row that was asked about; one        *)
(* collected without a name is proper for every row.                       *)
LEMMA CollectedProper ==
    ASSUME NEW results \in Seq(Pages), NEW c, NEW r, NEW limit \in Nat \ {0}
    PROVE  /\ ProperList(CollectRoutes(results, c, r, limit), r)
           /\ r = NoRow => \A q : ProperList(CollectRoutes(results, c, r, limit), q)
<1> DEFINE F == Found(results, c, r)
           B == CollectRoutes(results, c, r, limit)
<1>1. ProperList(F, r)
  BY FoundProper
<1> HIDE DEF F
<1>2. List(B) /\ \A k \in 1 .. Len(B) : B[k] \in Elements(F)
  BY <1>1, BestList DEF CollectRoutes, F, ProperList
<1> HIDE DEF B
<1>3. DOMAIN B = 1 .. Len(B)
  BY <1>2, ListLen
<1>4. \A x \in Elements(B) : x \in Elements(F)
  BY <1>2, <1>3 DEF Elements
<1>5. ProperList(B, r)
  BY <1>1, <1>2, <1>4 DEF ProperList
<1>6. ASSUME r = NoRow, NEW q PROVE ProperList(B, q)
  <2>1. \A x : Proper(x, NoRow) => Proper(x, q)
    BY ContactsAssumption DEF ContactsAssumption, Proper, NamesPerson
  <2> QED
    BY <1>5, <1>6, <2>1 DEF ProperList
<1> QED
  BY <1>5, <1>6 DEF B

-----------------------------------------------------------------------------
(* The routes of a row are the ones the searches behind them give.         *)

Rounds == Gathered \cup {<<>>}

CompanyRoutes(results, c) == CollectRoutes(results, c, NoRow, CompanyLimit)
OwnRoutes(results, r) == CollectRoutes(results, Company[r], r, RowLimit)

Handed(r, evidence, behind, url) ==
    [row |-> r, evidence |-> evidence, behind |-> behind, url |-> url,
     routes |-> MergeRoutes(Confirmed(url) \o OwnRoutes(evidence, r),
                            CompanyRoutes(behind, Company[r]), RowLimit)]

RoutesInv ==
    /\ searched \in [Companies -> Rounds]
    /\ cache = [c \in Companies |-> cache[c]]
    /\ \A c \in Companies :
         \/ cache[c] = Unsearched
         \/ cache[c] = [conclusive |-> TRUE, routes |-> CompanyRoutes(searched[c], c)]
    /\ \/ made = Nothing
       \/ \E r \in Rows, evidence \in Gathered, behind \in Rounds, url \in Profiles \cup {NoUrl} :
            made = Handed(r, evidence, behind, url)

LEMMA RoundsAreResults == \A results \in Rounds : results \in Seq(Pages)
<1>1. <<>> \in Seq(Pages)
  OBVIOUS
<1> QED
  BY <1>1, ContactsAssumption DEF ContactsAssumption, Rounds

LEMMA NothingFound == \A c : CompanyRoutes(<<>>, c) = <<>>
<1> SUFFICES ASSUME NEW c PROVE CompanyRoutes(<<>>, c) = <<>>
  OBVIOUS
<1> DEFINE F == Found(<<>>, c, NoRow)
           B == CompanyRoutes(<<>>, c)
<1>1. <<>> \in Seq(Pages)
  OBVIOUS
<1>2. List(F)
  BY <1>1, FoundProper DEF ProperList
<1>3. F = <<>>
  BY DEF Found, FlattenSeq
<1>4. List(B) /\ \A k \in 1 .. Len(B) : B[k] \in Elements(F)
  BY <1>2, ContactsAssumption, BestList
     DEF ContactsAssumption, CompanyRoutes, CollectRoutes
<1>5. Elements(F) = {}
  BY <1>3 DEF Elements
<1> HIDE DEF F, B
<1>6. Len(B) \in Nat /\ B \in Seq(Elements(B))
  BY <1>4, ListLen DEF List
<1>7. Len(B) = 0
  <2>1. SUFFICES ASSUME Len(B) # 0 PROVE FALSE
    OBVIOUS
  <2>2. 1 \in 1 .. Len(B)
    BY <1>6, <2>1
  <2> QED
    BY <1>4, <1>5, <2>2
<1>8. B = <<>>
  BY <1>6, <1>7, EmptySeq
<1> QED
  BY <1>8 DEF B

LEMMA RoutesInit == Init => RoutesInv
BY DEF Init, RoutesInv, Rounds

LEMMA RoutesNext == RoutesInv /\ [Next]_vars => RoutesInv'
<1> SUFFICES ASSUME RoutesInv, [Next]_vars PROVE RoutesInv'
  OBVIOUS
<1>1. CASE Persist \/ UNCHANGED vars
  BY <1>1 DEF Persist, vars, RoutesInv
<1> SUFFICES ASSUME NEW r \in Rows, NEW evidence \in Gathered, NEW url \in Profiles \cup {NoUrl},
                    \/ ResolveCached(r, evidence, url)
                    \/ ResolveSearching(r, evidence, url)
                    \/ ResolveInconclusive(r, evidence, url)
             PROVE  RoutesInv'
  BY <1>1 DEF Next
<1>2. Company[r] \in Companies
  BY ContactsAssumption DEF ContactsAssumption
<1>3. ASSUME NEW behind \in Rounds,
             Resolved(r, evidence, url, CompanyRoutes(behind, Company[r]), behind)
      PROVE  made' = Handed(r, evidence, behind, url)
  BY <1>3 DEF Resolved, Handed, OwnRoutes
<1>4. CASE ResolveCached(r, evidence, url)
  <2>1. cache[Company[r]].conclusive /\ searched[Company[r]] \in Rounds
    BY <1>2, <1>4 DEF ResolveCached, RoutesInv
  <2>2. cache[Company[r]].routes = CompanyRoutes(searched[Company[r]], Company[r])
    BY <1>2, <2>1 DEF RoutesInv, Unsearched
  <2>3. made' = Handed(r, evidence, searched[Company[r]], url) /\ UNCHANGED <<cache, searched>>
    BY <1>3, <1>4, <2>1, <2>2 DEF ResolveCached
  <2> QED
    BY <2>1, <2>3 DEF RoutesInv
<1>5. CASE ResolveSearching(r, evidence, url)
  <2>1. PICK results \in Gathered :
               LET found == CollectRoutes(results, Company[r], NoRow, CompanyLimit)
               IN  /\ cache' = [cache EXCEPT ![Company[r]] = [conclusive |-> TRUE, routes |-> found]]
                   /\ searched' = [searched EXCEPT ![Company[r]] = results]
                   /\ Resolved(r, evidence, url, found, results)
    BY <1>5 DEF ResolveSearching
  <2> DEFINE found == CompanyRoutes(results, Company[r])
  <2>2. /\ cache' = [cache EXCEPT ![Company[r]] = [conclusive |-> TRUE, routes |-> found]]
        /\ searched' = [searched EXCEPT ![Company[r]] = results]
        /\ results \in Rounds
        /\ Resolved(r, evidence, url, found, results)
    BY <2>1 DEF CompanyRoutes, Rounds
  <2>3. made' = Handed(r, evidence, results, url)
    BY <1>3, <2>2
  <2>4. searched' \in [Companies -> Rounds] /\ cache' = [c \in Companies |-> cache'[c]]
    BY <2>2 DEF RoutesInv
  <2>5. ASSUME NEW c \in Companies
        PROVE  \/ cache'[c] = Unsearched
               \/ cache'[c] = [conclusive |-> TRUE, routes |-> CompanyRoutes(searched'[c], c)]
    <3> HIDE DEF found
    <3>1. CASE c = Company[r]
      <4>1. cache'[c] = [conclusive |-> TRUE, routes |-> found] /\ searched'[c] = results
        BY <2>2, <3>1 DEF RoutesInv
      <4> QED
        BY <3>1, <4>1 DEF found
    <3>2. CASE c # Company[r]
      BY <2>2, <3>2 DEF RoutesInv
    <3> QED
      BY <3>1, <3>2
  <2> QED
    BY <2>2, <2>3, <2>4, <2>5 DEF RoutesInv
<1>6. CASE ResolveInconclusive(r, evidence, url)
  <2>1. made' = Handed(r, evidence, <<>>, url) /\ UNCHANGED <<cache, searched>>
    BY <1>3, <1>6, NothingFound DEF ResolveInconclusive, Rounds
  <2> QED
    BY <2>1 DEF RoutesInv, Rounds
<1> QED
  BY <1>4, <1>5, <1>6

-----------------------------------------------------------------------------
(* The three lists a row's routes are merged from, and the merged one.     *)
LEMMA HandedLists ==
    ASSUME NEW r \in Rows, NEW evidence \in Gathered, NEW behind \in Rounds, NEW url
    PROVE  /\ List(Confirmed(url))
           /\ \A x \in Elements(Confirmed(url)) : x.type = "linkedin_profile" /\ x.value = url
           /\ ProperList(OwnRoutes(evidence, r), r)
           /\ ProperList(CompanyRoutes(behind, Company[r]), r)
<1>1. /\ evidence \in Seq(Pages) /\ behind \in Seq(Pages)
      /\ RowLimit \in Nat \ {0} /\ CompanyLimit \in Nat \ {0}
  BY RoundsAreResults, ContactsAssumption DEF ContactsAssumption, Rounds
<1>2. ProperList(OwnRoutes(evidence, r), r)
  BY <1>1, CollectedProper DEF OwnRoutes
<1>3. ProperList(CompanyRoutes(behind, Company[r]), r)
  BY <1>1, CollectedProper DEF CompanyRoutes
<1>4. CASE url = NoUrl
  BY <1>2, <1>3, <1>4, EmptyList DEF Confirmed, Elements
<1>5. CASE url # NoUrl
  <2> DEFINE x == Route("linkedin_profile", url, url)
  <2>1. Confirmed(url) = <<x>> /\ x.type = "linkedin_profile" /\ x.value = url
    BY <1>5 DEF Confirmed, Route
  <2> HIDE DEF x
  <2>2. <<x>> = [i \in 1 .. 1 |-> <<x>>[i]]
    OBVIOUS
  <2>3. List(<<x>>)
    BY <2>2, ListMade
  <2> QED
    BY <1>2, <1>3, <2>1, <2>3 DEF Elements
<1> QED
  BY <1>4, <1>5

LEMMA HandedElements ==
    ASSUME NEW r \in Rows, NEW evidence \in Gathered, NEW behind \in Rounds, NEW url
    PROVE  LET own == Confirmed(url) \o OwnRoutes(evidence, r)
               all == own \o CompanyRoutes(behind, Company[r])
               routes == Handed(r, evidence, behind, url).routes
           IN  /\ List(own) /\ List(all) /\ List(routes)
               /\ routes = Best(all, RowLimit)
               /\ \A x \in Elements(routes) :
                    \/ x.type = "linkedin_profile" /\ x.value = url
                    \/ Proper(x, r)
<1> DEFINE con == Confirmed(url)
           mine == OwnRoutes(evidence, r)
           com == CompanyRoutes(behind, Company[r])
           own == con \o mine
           all == own \o com
           routes == Handed(r, evidence, behind, url).routes
           Fits(x) == (x.type = "linkedin_profile" /\ x.value = url) \/ Proper(x, r)
<1>1. /\ List(con) /\ List(mine) /\ List(com)
      /\ \A x \in Elements(con) \cup Elements(mine) \cup Elements(com) : Fits(x)
  BY HandedLists DEF ProperList
<1>2. routes = Best(all, RowLimit)
  BY DEF Handed, MergeRoutes
<1> HIDE DEF con, mine, com, routes, Fits
<1>3. List(own) /\ \A x \in Elements(own) : Fits(x)
  <2>1. List(own) /\ \A i \in 1 .. Len(own) : own[i] \in Elements(con) \cup Elements(mine)
    BY <1>1, ListJoined
  <2> HIDE DEF own
  <2>2. DOMAIN own = 1 .. Len(own)
    BY <2>1, ListLen
  <2> QED
    BY <1>1, <2>1, <2>2 DEF Elements
<1> HIDE DEF own
<1>4. List(all) /\ \A x \in Elements(all) : Fits(x)
  <2>1. List(all) /\ \A i \in 1 .. Len(all) : all[i] \in Elements(own) \cup Elements(com)
    BY <1>1, <1>3, ListJoined
  <2> HIDE DEF all
  <2>2. DOMAIN all = 1 .. Len(all)
    BY <2>1, ListLen
  <2>3. \A i \in 1 .. Len(all) : Fits(all[i])
    BY <1>1, <1>3, <2>1
  <2> QED
    BY <2>1, <2>2, <2>3 DEF Elements
<1> HIDE DEF all
<1>5. List(routes) /\ \A x \in Elements(routes) : Fits(x)
  <2>1. List(routes) /\ \A k \in 1 .. Len(routes) : routes[k] \in Elements(all)
    BY <1>2, <1>4, BestList, ContactsAssumption DEF ContactsAssumption
  <2>2. DOMAIN routes = 1 .. Len(routes)
    BY <2>1, ListLen
  <2> QED
    BY <1>4, <2>1, <2>2 DEF Elements
<1> QED
  BY <1>2, <1>3, <1>4, <1>5 DEF own, all, routes, con, mine, com, Fits

(* Whatever the searches return, and in whichever order rows of a company  *)
(* find, share and overwrite its list, a route that reaches one person     *)
(* comes from a page that names the person of this row                     *)
(* (contacts.py:461-468).                                                  *)
THEOREM ContactsPersonScopeNamed == Spec => []PersonScopeNamed
<1>1. RoutesInv => PersonScopeNamed
  <2> SUFFICES ASSUME RoutesInv PROVE PersonScopeNamed
    OBVIOUS
  <2>1. CASE made = Nothing
    BY <2>1 DEF Nothing, PersonScopeNamed
  <2>2. ASSUME NEW r \in Rows, NEW evidence \in Gathered, NEW behind \in Rounds,
               NEW url \in Profiles \cup {NoUrl}, made = Handed(r, evidence, behind, url)
        PROVE  PersonScopeNamed
    <3>1. made.row = r
      BY <2>2 DEF Handed
    <3>2. \A x \in Elements(made.routes) :
             x.type = "linkedin_profile" \/ (x.scope = "person" => NamesPerson(x.source, r))
      BY <2>2, HandedElements DEF Proper
    <3> QED
      BY <3>1, <3>2 DEF PersonScopeNamed, OnRow, Elements
  <2> QED
    BY <2>1, <2>2 DEF RoutesInv
<1> QED
  BY <1>1, RoutesInit, RoutesNext, PTL DEF Spec

(* However many /in/ pages are found, for the row or for its company, the  *)
(* only profile among a row's routes is the one its match was confirmed    *)
(* for (contacts.py:463-466).                                              *)
THEOREM ContactsProfileVerified == Spec => []ProfileRouteVerified
<1>1. RoutesInv => ProfileRouteVerified
  <2> SUFFICES ASSUME RoutesInv PROVE ProfileRouteVerified
    OBVIOUS
  <2>1. CASE made = Nothing
    BY <2>1 DEF Nothing, ProfileRouteVerified
  <2>2. ASSUME NEW r \in Rows, NEW evidence \in Gathered, NEW behind \in Rounds,
               NEW url \in Profiles \cup {NoUrl}, made = Handed(r, evidence, behind, url)
        PROVE  ProfileRouteVerified
    <3>1. made.url = url
      BY <2>2 DEF Handed
    <3>2. \A x \in Elements(made.routes) : x.type = "linkedin_profile" => x.value = url
      BY <2>2, HandedElements DEF Proper
    <3> QED
      BY <3>1, <3>2 DEF ProfileRouteVerified, OnRow, Elements
  <2> QED
    BY <2>1, <2>2 DEF RoutesInv
<1> QED
  BY <1>1, RoutesInit, RoutesNext, PTL DEF Spec

(* A list cut to its best is merged, among others, into one that is cut    *)
(* again: what both cuts together lose of it was lost to as many routes as *)
(* direct as the smaller limit allows.                                     *)
LEMMA TwiceCut ==
    ASSUME NEW f, List(f), NEW limit \in Nat \ {0}, NEW all, List(all), NEW room \in Nat \ {0},
           NEW o \in Nat, o + Len(Best(f, limit)) <= Len(all),
           \A k \in 1 .. Len(Best(f, limit)) : all[o + k] = Best(f, limit)[k],
           NEW x \in Elements(f),
           Key(x) \notin {Key(Best(all, room)[k]) : k \in DOMAIN Best(all, room)}
    PROVE  Cardinality(Direct(Best(all, room), Rank(x)))
             >= IF limit <= room THEN limit ELSE room
<1> DEFINE B == Best(f, limit)
           M == Best(all, room)
<1>1. List(B) /\ List(M)
  BY BestList
<1>2. /\ Len(B) \in Nat /\ DOMAIN B = 1 .. Len(B)
      /\ Len(all) \in Nat /\ DOMAIN all = 1 .. Len(all)
  BY <1>1, ListLen
<1>3. PICK j \in DOMAIN f : x = f[j]
  BY DEF Elements
<1>4. CASE \E i \in DOMAIN all : Key(all[i]) = Key(x)
  <2>1. PICK i \in DOMAIN all : Key(all[i]) = Key(x)
    BY <1>4
  <2>2. Direct(M, Rank(all[i])) = 1 .. room
    BY <2>1, BestKeeps
  <2>3. Rank(all[i]) = Rank(x)
    BY <2>1, RankIsNatural
  <2>4. Cardinality(1 .. room) = room
    BY IntervalSize
  <2> QED
    BY <2>2, <2>3, <2>4
<1>5. CASE \A i \in DOMAIN all : Key(all[i]) # Key(x)
  <2>1. ASSUME NEW k \in DOMAIN B PROVE o + k \in DOMAIN all /\ all[o + k] = B[k]
    BY <1>2
  <2>2. Key(f[j]) \notin {Key(B[k]) : k \in DOMAIN B}
    BY <1>3, <1>5, <2>1
  <2>3. Len(B) = limit /\ Direct(B, Rank(f[j])) = 1 .. limit
    BY <2>2, BestKeeps
  <2> DEFINE J == o + 1 .. o + limit
  <2>4. ASSUME NEW i \in J PROVE i - o \in DOMAIN B /\ i \in DOMAIN all /\ all[i] = B[i - o]
    <3>1. i - o \in DOMAIN B /\ o + (i - o) = i
      BY <1>2, <2>3
    <3> QED
      BY <2>1, <3>1
  <2>5. J \in SUBSET Direct(all, Rank(x))
    <3> SUFFICES ASSUME NEW i \in J PROVE i \in DOMAIN all /\ Rank(all[i]) <= Rank(x)
      BY DEF Direct
    <3>1. i - o \in Direct(B, Rank(x))
      BY <1>2, <1>3, <2>3, <2>4
    <3> QED
      BY <2>4, <3>1 DEF Direct
  <2>6. \A i, k \in J : Key(all[i]) = Key(all[k]) => i = k
    <3> SUFFICES ASSUME NEW i \in J, NEW k \in J, Key(all[i]) = Key(all[k]) PROVE i = k
      OBVIOUS
    <3>1. Key(B[i - o]) = Key(B[k - o])
      BY <2>4
    <3>2. i - o = k - o
      BY <2>4, <3>1, BestKeeps
    <3> QED
      BY <3>2
  <2>7. Cardinality(J) = limit
    <3>1. o + 1 \in Int /\ o + limit \in Int
      OBVIOUS
    <3>2. Cardinality(J) = IF o + 1 > o + limit THEN 0 ELSE (o + limit) - (o + 1) + 1
      BY <3>1, FS_Interval, Zenon
    <3> QED
      BY <3>2
  <2>8. Rank(x) \in Nat
    BY RankIsNatural
  <2> HIDE DEF J
  <2> QED
    BY <2>5, <2>6, <2>7, <2>8, BestCounts
<1> QED
  BY <1>4, <1>5

LEMMA HandedDirectest ==
    ASSUME NEW r \in Rows, NEW evidence \in Gathered, NEW behind \in Rounds, NEW url,
           NEW x \in Elements(Found(evidence, Company[r], r))
                     \cup Elements(Found(behind, Company[r], NoRow)),
           LET routes == Handed(r, evidence, behind, url).routes
           IN  Key(x) \notin {Key(routes[k]) : k \in DOMAIN routes}
    PROVE  Cardinality(Direct(Handed(r, evidence, behind, url).routes, Rank(x)))
             >= IF CompanyLimit <= RowLimit THEN CompanyLimit ELSE RowLimit
<1> DEFINE con == Confirmed(url)
           f == Found(evidence, Company[r], r)
           g == Found(behind, Company[r], NoRow)
           mine == Best(f, RowLimit)
           com == Best(g, CompanyLimit)
           own == con \o mine
           all == own \o com
           routes == Best(all, RowLimit)
<1>1. RowLimit \in Nat \ {0} /\ CompanyLimit \in Nat \ {0}
  BY ContactsAssumption DEF ContactsAssumption
<1>2. Handed(r, evidence, behind, url).routes = routes
  BY DEF Handed, MergeRoutes, OwnRoutes, CompanyRoutes, CollectRoutes
<1>3. List(f) /\ List(g) /\ List(con)
  <2>1. evidence \in Seq(Pages) /\ behind \in Seq(Pages)
    BY RoundsAreResults DEF Rounds
  <2> QED
    BY <2>1, FoundProper, HandedLists DEF ProperList
<1> HIDE DEF f, g, con
<1>4. List(mine) /\ List(com)
  BY <1>1, <1>3, BestList
<1> HIDE DEF mine, com
<1>5. /\ List(own) /\ Len(own) = Len(con) + Len(mine)
      /\ \A k \in 1 .. Len(con) : own[k] = con[k]
      /\ \A k \in 1 .. Len(mine) : own[Len(con) + k] = mine[k]
  BY <1>3, <1>4, ListJoined
<1> HIDE DEF own
<1>6. /\ List(all) /\ Len(all) = Len(own) + Len(com)
      /\ \A k \in 1 .. Len(own) : all[k] = own[k]
      /\ \A k \in 1 .. Len(com) : all[Len(own) + k] = com[k]
  BY <1>4, <1>5, ListJoined
<1>7. Len(con) \in Nat /\ Len(mine) \in Nat /\ Len(own) \in Nat /\ Len(com) \in Nat
  BY <1>3, <1>4, <1>5, ListLen
<1> HIDE DEF all
<1>8. Key(x) \notin {Key(routes[k]) : k \in DOMAIN routes}
  BY <1>2
<1>9. CASE x \in Elements(f)
  <2>1. ASSUME NEW k \in 1 .. Len(mine) PROVE all[Len(con) + k] = mine[k]
    <3>1. Len(con) + k \in 1 .. Len(own)
      BY <1>5, <1>7
    <3> QED
      BY <1>5, <1>6, <3>1
  <2>2. Len(con) + Len(mine) <= Len(all)
    BY <1>5, <1>6, <1>7
  <2>3. Cardinality(Direct(routes, Rank(x))) >= IF RowLimit <= RowLimit THEN RowLimit ELSE RowLimit
    BY <1>1, <1>3, <1>6, <1>7, <1>8, <1>9, <2>1, <2>2, TwiceCut DEF mine
  <2>4. Cardinality(Direct(routes, Rank(x))) >= RowLimit
    BY <2>3
  <2>5. Cardinality(Direct(routes, Rank(x))) \in Nat
    <3>1. List(routes)
      BY <1>1, <1>6, BestList
    <3>2. Len(routes) \in Nat /\ Direct(routes, Rank(x)) \subseteq 1 .. Len(routes)
      BY <3>1, ListLen DEF Direct
    <3>3. IsFiniteSet(1 .. Len(routes))
      BY <3>2, IntervalSize
    <3> HIDE DEF routes
    <3> QED
      BY <3>2, <3>3, FS_Subset, FS_CardinalityType
  <2> QED
    BY <1>1, <1>2, <2>4, <2>5
<1>10. CASE x \in Elements(g)
  <2>1. Len(own) + Len(com) <= Len(all)
    BY <1>6, <1>7
  <2>2. \A k \in 1 .. Len(com) : all[Len(own) + k] = com[k]
    BY <1>6
  <2>3. Cardinality(Direct(routes, Rank(x)))
          >= IF CompanyLimit <= RowLimit THEN CompanyLimit ELSE RowLimit
    BY <1>1, <1>3, <1>6, <1>7, <1>8, <1>10, <2>1, <2>2, TwiceCut DEF com
  <2> QED
    BY <1>2, <2>3
<1> QED
  BY <1>9, <1>10 DEF f, g

(* Two cuts, one of them of a list made for another row, lose no route     *)
(* while fewer than the smaller limit of those kept are as direct          *)
(* (contacts.py:558-561, company_contact.py:201-208).                      *)
THEOREM ContactsDirectestKept == Spec => []DirectestKept
<1>1. RoutesInv => DirectestKept
  <2> SUFFICES ASSUME RoutesInv PROVE DirectestKept
    OBVIOUS
  <2>1. CASE made = Nothing
    BY <2>1 DEF Nothing, DirectestKept
  <2>2. ASSUME NEW r \in Rows, NEW evidence \in Gathered, NEW behind \in Rounds,
               NEW url \in Profiles \cup {NoUrl}, made = Handed(r, evidence, behind, url)
        PROVE  DirectestKept
    <3> DEFINE f == Found(evidence, Company[r], r)
               g == Found(behind, Company[r], NoRow)
               found == f \o g
               routes == Handed(r, evidence, behind, url).routes
               least == IF CompanyLimit <= RowLimit THEN CompanyLimit ELSE RowLimit
    <3>1. made.row = r /\ made.evidence = evidence /\ made.behind = behind /\ made.routes = routes
      BY <2>2 DEF Handed
    <3>2. List(f) /\ List(g)
      <4>1. evidence \in Seq(Pages) /\ behind \in Seq(Pages)
        BY RoundsAreResults DEF Rounds
      <4> QED
        BY <4>1, FoundProper DEF ProperList
    <3> HIDE DEF f, g, routes, least
    <3>3. ASSUME NEW j \in DOMAIN found, Key(found[j]) \notin {Key(routes[k]) : k \in DOMAIN routes}
          PROVE  Cardinality({i \in DOMAIN routes : Rank(routes[i]) <= Rank(found[j])}) >= least
      <4>1. found[j] \in Elements(f) \cup Elements(g)
        <5>1. /\ List(found)
              /\ \A i \in 1 .. Len(found) : found[i] \in Elements(f) \cup Elements(g)
          BY <3>2, ListJoined
        <5> HIDE DEF found
        <5> QED
          BY <5>1, ListLen
      <4> HIDE DEF found
      <4>2. Cardinality(Direct(routes, Rank(found[j]))) >= least
        BY <3>3, <4>1, HandedDirectest DEF f, g, routes, least
      <4> QED
        BY <4>2 DEF Direct
    <3> QED
      BY <3>1, <3>3 DEF DirectestKept, OnRow, f, g, least
  <2> QED
    BY <2>1, <2>2 DEF RoutesInv
<1> QED
  BY <1>1, RoutesInit, RoutesNext, PTL DEF Spec
=============================================================================

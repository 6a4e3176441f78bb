--------------------------- MODULE LinkedListsProofs ---------------------------
(* What ListFrom returns, and how lists change.  Induction is over a set of  *)
(* natural numbers, which has a least element if it is not empty.            *)
EXTENDS LinkedLists, FiniteSetTheorems, SequenceTheorems, WellFoundedInduction,
        TLAPS

LEMMA LeastNatural ==
    ASSUME NEW T \in SUBSET Nat, T # {}
    PROVE  \E m \in T : \A k \in T : m <= k
  <1>1. PICK m \in T : \A k \in T : <<k, m>> \notin OpToRel(<, Nat)
    BY WFMin, NatLessThanWellFounded, Zenon
  <1>2. \A k \in T : ~ (k < m)
    BY <1>1, Zenon DEF OpToRel
  <1> QED
    BY <1>2

LEMMA SetInduction ==
    ASSUME NEW T \in SUBSET Nat, 0 \in T, \A n \in T : n + 1 \in T
    PROVE  T = Nat
  <1> SUFFICES ASSUME Nat \ T # {} PROVE FALSE
    OBVIOUS
  <1>1. PICK m \in Nat \ T : \A k \in Nat \ T : m <= k
    BY LeastNatural
  <1>2. m - 1 \in T
    BY <1>1
  <1> QED
    BY <1>1, <1>2

-----------------------------------------------------------------------------
(* The recursive function of ListFrom exists.                                *)

Walk(f, link, null, k) ==
    f = [i \in 0 .. k |->
            [n \in DOMAIN link \union {null} |->
                IF i = 0 \/ n = null THEN <<>> ELSE <<n>> \o f[i - 1][link[n]]]]

LEMMA WalkExists ==
    ASSUME NEW link, NEW null
    PROVE  \A k \in Nat : \E f : Walk(f, link, null, k)
  <1> DEFINE T == {k \in Nat : \E f : Walk(f, link, null, k)}
             Words == DOMAIN link \union {null}
  <1>1. 0 \in T
    <2> DEFINE f == [i \in 0 .. 0 |-> [n \in Words |-> <<>>]]
    <2>1. Walk(f, link, null, 0)
      BY DEF Walk
    <2> QED
      BY <2>1
  <1>2. ASSUME NEW k \in T
        PROVE  k + 1 \in T
    <2>1. PICK f : Walk(f, link, null, k)
      OBVIOUS
    <2> DEFINE g == [i \in 0 .. k + 1 |->
                        IF i <= k THEN f[i]
                        ELSE [n \in Words |->
                                IF n = null THEN <<>> ELSE <<n>> \o f[k][link[n]]]]
               h == [i \in 0 .. k + 1 |->
                        [n \in Words |->
                            IF i = 0 \/ n = null THEN <<>>
                            ELSE <<n>> \o g[i - 1][link[n]]]]
    <2>2. \A i \in 0 .. k + 1 : g[i] = h[i]
      <3> TAKE i \in 0 .. k + 1
      <3>1. CASE i = k + 1
        <4>1. g[k] = f[k] /\ g[i - 1] = f[k] /\ i # 0
          BY <3>1
        <4>2. g[i] = [n \in Words |-> IF n = null THEN <<>> ELSE <<n>> \o f[k][link[n]]]
          BY <3>1
        <4> QED
          BY <4>1, <4>2
      <3>2. CASE i <= k
        <4>1. g[i] = f[i]
          BY <3>2
        <4>2. i # 0 => g[i - 1] = f[i - 1]
          BY <3>2
        <4>3. f[i] = [n \in Words |->
                         IF i = 0 \/ n = null THEN <<>>
                         ELSE <<n>> \o f[i - 1][link[n]]]
          <5>1. i \in 0 .. k
            BY <3>2
          <5> HIDE DEF Words
          <5>2. f = [d \in 0 .. k |->
                       [n \in Words |->
                           IF d = 0 \/ n = null THEN <<>>
                           ELSE <<n>> \o f[d - 1][link[n]]]]
            BY <2>1 DEF Walk, Words
          <5> QED
            BY ONLY <5>1, <5>2, Zenon
        <4> QED
          BY <4>1, <4>2, <4>3
      <3> QED
        BY <3>1, <3>2
    <2>3. g = h
      BY <2>2
    <2>4. Walk(g, link, null, k + 1)
      BY <2>3 DEF Walk
    <2> QED
      BY <2>4
  <1> HIDE DEF T
  <1>3. T = Nat
    BY <1>1, <1>2, SetInduction DEF T
  <1> QED
    BY <1>3 DEF T

(* ListFrom is the value of such a function. *)
LEMMA ListFromIsWalk ==
    ASSUME NEW link, NEW null, NEW w, NEW m \in Nat
    PROVE  \E f : Walk(f, link, null, m) /\ ListFrom(link, null, w, m) = f[m][w]
  <1> DEFINE f == CHOOSE g : Walk(g, link, null, m)
  <1>1. Walk(f, link, null, m)
    BY WalkExists
  <1>2. ListFrom(link, null, w, m) = f[m][w]
    BY DEF ListFrom, Walk
  <1> QED
    BY <1>1, <1>2

-----------------------------------------------------------------------------
(* What ListFrom returns                                                     *)

LEMMA ListLength ==
    ASSUME NEW link, NEW null, NEW w, NEW s, IsListFrom(s, link, null, w)
    PROVE  /\ Len(s) \in Nat
           /\ \A i \in 1 .. Len(s) : s[i] \in DOMAIN link
  BY DEF IsListFrom

(* A list without its first node is the list from the second node on.        *)
LEMMA ListTail ==
    ASSUME NEW link, NEW null, NEW w, NEW s, s # <<>>,
           IsListFrom(s, link, null, w)
    PROVE  /\ IsListFrom(Tail(s), link, null, link[w])
           /\ s = <<w>> \o Tail(s)
           /\ w \in DOMAIN link
           /\ Len(Tail(s)) = Len(s) - 1
           /\ w \notin ToSet(Tail(s))
           /\ ToSet(s) = {w} \union ToSet(Tail(s))
  <1> DEFINE N == DOMAIN link
             t == Tail(s)
  <1>1. s \in Seq(N) /\ w = s[1] /\ Len(s) >= 1
    BY DEF IsListFrom
  <1>2. /\ t \in Seq(N) /\ Len(t) = Len(s) - 1
        /\ \A i \in 1 .. Len(t) : t[i] = s[i + 1]
    BY <1>1, HeadTailProperties
  <1>3. w \in N
    BY <1>1
  <1>4. s = <<w>> \o t
    BY <1>1, <1>2
  <1>11. t = <<>> <=> Len(t) = 0
    BY <1>2, EmptySeq
  <1>12. \A i \in 1 .. Len(s) :
             link[s[i]] = IF i = Len(s) THEN null ELSE s[i + 1]
    BY DEF IsListFrom
  <1>13. ToSet(t) = {t[i] : i \in 1 .. Len(t)} /\ ToSet(s) = {s[i] : i \in 1 .. Len(s)}
    <2>1. DOMAIN t = 1 .. Len(t) /\ DOMAIN s = 1 .. Len(s)
      BY <1>1, <1>2, LenProperties
    <2> QED
      BY <2>1 DEF ToSet
  <1> HIDE DEF t, N
  <1>5. \A i, k \in 1 .. Len(s) : s[i] = s[k] => i = k
    BY <1>1 DEF IsListFrom, IsInjective
  <1>6. IsInjective(t)
    <2>1. ASSUME NEW i \in 1 .. Len(t), NEW k \in 1 .. Len(t), t[i] = t[k]
          PROVE  i = k
      BY <2>1, <1>1, <1>2, <1>5
    <2> QED
      BY <2>1, <1>2 DEF IsInjective
  <1>7. link[w] = IF t = <<>> THEN null ELSE t[1]
    <2>3. 1 \in 1 .. Len(s)
      BY <1>1
    <2>1. link[s[1]] = IF 1 = Len(s) THEN null ELSE s[1 + 1]
      BY <2>3, <1>12
    <2>2. t # <<>> => t[1] = s[1 + 1]
      BY <1>1, <1>2, <1>11
    <2> QED
      BY <1>1, <1>2, <1>11, <2>1, <2>2
  <1>8. \A i \in 1 .. Len(t) : link[t[i]] = IF i = Len(t) THEN null ELSE t[i + 1]
    <2> TAKE i \in 1 .. Len(t)
    <2>1. i + 1 \in 1 .. Len(s)
      BY <1>1, <1>2
    <2>2. link[s[i + 1]] = IF i + 1 = Len(s) THEN null ELSE s[(i + 1) + 1]
      BY <2>1, <1>12
    <2>3. i # Len(t) => t[i + 1] = s[(i + 1) + 1]
      BY <1>1, <1>2
    <2> QED
      BY <1>1, <1>2, <2>2, <2>3
  <1>9. w \notin ToSet(t)
    BY <1>1, <1>2, <1>5, <1>13
  <1>10. ToSet(s) = {w} \union ToSet(t)
    <2>1. ToSet(s) \subseteq {w} \union ToSet(t)
      <3> SUFFICES ASSUME NEW i \in 1 .. Len(s), i # 1
                   PROVE  s[i] \in ToSet(t)
        BY <1>1, <1>13
      <3>1. i - 1 \in 1 .. Len(t) /\ t[i - 1] = s[(i - 1) + 1]
        BY <1>1, <1>2
      <3> QED
        BY <3>1, <1>13
    <2>2. ToSet(t) \subseteq ToSet(s)
      BY <1>1, <1>2, <1>13
    <2>3. w \in ToSet(s)
      BY <1>1, <1>13
    <2> QED
      BY <2>1, <2>2, <2>3
  <1> QED
    BY <1>2, <1>3, <1>4, <1>6, <1>7, <1>8, <1>9, <1>10 DEF IsListFrom, t, N

(* Enough steps find the whole list.                                         *)
LEMMA ListFromIs ==
    ASSUME NEW link, NEW null, null \notin DOMAIN link, NEW m \in Nat
    PROVE  \A w, s : IsListFrom(s, link, null, w) /\ Len(s) <= m =>
              ListFrom(link, null, w, m) = s
  <1> DEFINE Words == DOMAIN link \union {null}
  <1>1. PICK f : Walk(f, link, null, m)
    BY WalkExists
  <1>2. \A g : Walk(g, link, null, m) =>
            \A i \in 0 .. m, n \in Words :
                g[i][n] = IF i = 0 \/ n = null THEN <<>>
                          ELSE <<n>> \o g[i - 1][link[n]]
    <2> SUFFICES ASSUME NEW g, Walk(g, link, null, m),
                        NEW i \in 0 .. m, NEW n \in Words
                 PROVE  g[i][n] = IF i = 0 \/ n = null THEN <<>>
                                  ELSE <<n>> \o g[i - 1][link[n]]
      OBVIOUS
    <2> HIDE DEF Words
    <2>1. g = [d \in 0 .. m |->
                 [x \in Words |-> IF d = 0 \/ x = null THEN <<>>
                                  ELSE <<x>> \o g[d - 1][link[x]]]]
      BY DEF Walk, Words
    <2>2. g[i] = [x \in Words |-> IF i = 0 \/ x = null THEN <<>>
                                  ELSE <<x>> \o g[i - 1][link[x]]]
      BY ONLY <2>1, i \in 0 .. m, Zenon
    <2> QED
      BY ONLY <2>2, n \in Words, Zenon
  <1> DEFINE Finds(g, i) ==
                \A w, s : IsListFrom(s, link, null, w) /\ Len(s) <= i => g[i][w] = s
  <1>3. ASSUME NEW g, Walk(g, link, null, m)
        PROVE  \A i \in 0 .. m : Finds(g, i)
    <2> DEFINE T == {i \in Nat : i <= m => Finds(g, i)}
    <2>1. 0 \in T
      <3> SUFFICES ASSUME NEW w, NEW s, IsListFrom(s, link, null, w), Len(s) <= 0
                   PROVE  g[0][w] = s
        OBVIOUS
      <3>1. s = <<>> /\ w = null
        BY DEF IsListFrom
      <3> QED
        BY <3>1, <1>2, <1>3, 0 \in 0 .. m, null \in Words
    <2>2. ASSUME NEW i \in T
          PROVE  i + 1 \in T
      <3> SUFFICES ASSUME i + 1 <= m, NEW w, NEW s,
                          IsListFrom(s, link, null, w), Len(s) <= i + 1
                   PROVE  g[i + 1][w] = s
        BY <2>2
      <3>1. CASE s = <<>>
        <4>1. w = null
          BY <3>1 DEF IsListFrom
        <4> QED
          BY <3>1, <4>1, <1>2, <1>3, i + 1 \in 0 .. m, null \in Words
      <3>2. CASE s # <<>>
        <4>1. /\ IsListFrom(Tail(s), link, null, link[w])
              /\ s = <<w>> \o Tail(s)
              /\ w \in DOMAIN link
              /\ Len(Tail(s)) = Len(s) - 1
          BY <3>2, ListTail
        <4>2. Len(s) \in Nat
          BY ListLength
        <4>3. g[i][link[w]] = Tail(s)
          <5>1. Len(Tail(s)) <= i /\ i <= m
            BY <4>1, <4>2
          <5> QED
            BY <4>1, <5>1
        <4>4. g[i + 1][w] = <<w>> \o g[(i + 1) - 1][link[w]]
          BY <4>1, <1>2, <1>3, i + 1 \in 0 .. m, w \in Words, w # null, i + 1 # 0
        <4> QED
          BY <4>1, <4>3, <4>4, (i + 1) - 1 = i
      <3> QED
        BY <3>1, <3>2
    <2> HIDE DEF T
    <2>3. T = Nat
      BY <2>1, <2>2, SetInduction DEF T
    <2> QED
      BY <2>3 DEF T
  <1> QED
    BY <1>3, ListFromIsWalk

(* A list has no more nodes than there are.                                  *)
LEMMA ListFits ==
    ASSUME NEW link, NEW null, NEW w, NEW s, IsListFrom(s, link, null, w),
           IsFiniteSet(DOMAIN link)
    PROVE  Len(s) <= Cardinality(DOMAIN link)
  <1>1. s \in [1 .. Len(s) -> DOMAIN link] /\ Len(s) \in Nat
    BY LenProperties DEF IsListFrom
  <1>2. s \in Injection(1 .. Len(s), DOMAIN link)
    BY <1>1 DEF IsListFrom, Injection
  <1>3. Cardinality(1 .. Len(s)) <= Cardinality(DOMAIN link)
    BY <1>2, FS_Injection
  <1>4. Cardinality(1 .. Len(s)) = Len(s)
    <2>1. ASSUME NEW n \in Nat
          PROVE  Cardinality(1 .. n) = n
      <3>1. Cardinality(1 .. n) = IF 1 > n THEN 0 ELSE n - 1 + 1
        BY FS_Interval
      <3> QED
        BY <3>1
    <2> QED
      BY <1>1, <2>1
  <1> QED
    BY <1>3, <1>4

(* Wherever a list exists, as many steps as there are nodes find it.         *)
LEMMA ListFound ==
    ASSUME NEW link, NEW null, null \notin DOMAIN link, IsFiniteSet(DOMAIN link),
           NEW m \in Nat, Cardinality(DOMAIN link) <= m,
           NEW w, NEW s, IsListFrom(s, link, null, w)
    PROVE  ListFrom(link, null, w, m) = s
  <1>1. Len(s) <= Cardinality(DOMAIN link) /\ Cardinality(DOMAIN link) \in Nat
    BY ListFits, FS_CardinalityType
  <1>2. Len(s) \in Nat
    BY ListLength
  <1>3. Len(s) <= m
    BY <1>1, <1>2
  <1> QED
    BY <1>3, ListFromIs

LEMMA ListEmpty ==
    ASSUME NEW link, NEW null
    PROVE  IsListFrom(<<>>, link, null, null)
  BY DEF IsListFrom, IsInjective

(* A node that is not in the list is put before it.                          *)
LEMMA ListCons ==
    ASSUME NEW link, NEW null, NEW w, NEW s, IsListFrom(s, link, null, w),
           NEW n \in DOMAIN link, n \notin ToSet(s),
           NEW after, DOMAIN after = DOMAIN link,
           \A x \in DOMAIN link : after[x] = IF x = n THEN w ELSE link[x]
    PROVE  /\ IsListFrom(<<n>> \o s, after, null, n)
           /\ ToSet(<<n>> \o s) = {n} \union ToSet(s)
  <1> DEFINE N == DOMAIN link
             t == <<n>> \o s
  <1>1. s \in Seq(N) /\ Len(s) \in Nat
    BY DEF IsListFrom
  <1>2. /\ t \in Seq(N) /\ Len(t) = Len(s) + 1
        /\ t[1] = n
        /\ \A i \in 1 .. Len(s) : t[i + 1] = s[i]
    BY <1>1
  <1>3. ToSet(s) = {s[i] : i \in 1 .. Len(s)} /\ ToSet(t) = {t[i] : i \in 1 .. Len(t)}
    <2>1. DOMAIN t = 1 .. Len(t) /\ DOMAIN s = 1 .. Len(s)
      BY <1>1, <1>2, LenProperties
    <2> QED
      BY <2>1 DEF ToSet
  <1>4. /\ \A i, k \in 1 .. Len(s) : s[i] = s[k] => i = k
        /\ w = IF s = <<>> THEN null ELSE s[1]
        /\ \A i \in 1 .. Len(s) :
               link[s[i]] = IF i = Len(s) THEN null ELSE s[i + 1]
    BY <1>1 DEF IsListFrom, IsInjective
  <1>5. s = <<>> <=> Len(s) = 0
    BY <1>1, EmptySeq
  <1>6. DOMAIN t = 1 .. Len(t) /\ t # <<>>
    BY <1>1, <1>2, LenProperties
  <1>7. \A x \in N : after[x] = IF x = n THEN w ELSE link[x]
    OBVIOUS
  <1>12. DOMAIN after = N
    OBVIOUS
  <1> HIDE DEF t, N
  <1>8. \A i \in 1 .. Len(t) : i = 1 \/ (i - 1 \in 1 .. Len(s) /\ t[i] = s[i - 1])
    <2> TAKE i \in 1 .. Len(t)
    <2>1. i # 1 => i - 1 \in 1 .. Len(s) /\ t[(i - 1) + 1] = s[i - 1]
      BY <1>1, <1>2
    <2> QED
      BY <2>1, <1>1, <1>2
  <1>13. n \notin ToSet(s)
    OBVIOUS
  <1>14. \A i \in 1 .. Len(t) : i # 1 => t[i] # n
    BY <1>3, <1>8, <1>13
  <1>9. IsInjective(t)
    <2>1. ASSUME NEW i \in 1 .. Len(t), NEW k \in 1 .. Len(t), t[i] = t[k]
          PROVE  i = k
      <3>1. i = 1 <=> k = 1
        BY <2>1, <1>2, <1>14
      <3>2. CASE i # 1
        <4>1. /\ i - 1 \in 1 .. Len(s) /\ t[i] = s[i - 1]
              /\ k - 1 \in 1 .. Len(s) /\ t[k] = s[k - 1]
          BY <3>1, <3>2, <1>8
        <4>2. i - 1 = k - 1
          BY <4>1, <2>1, <1>4
        <4> QED
          BY <4>2
      <3> QED
        BY <3>1, <3>2
    <2> QED
      BY <2>1, <1>6 DEF IsInjective
  <1>10. \A i \in 1 .. Len(t) : after[t[i]] = IF i = Len(t) THEN null ELSE t[i + 1]
    <2> TAKE i \in 1 .. Len(t)
    <2>1. CASE i = 1
      <3>1. n \in N
        BY DEF N
      <3>2. after[t[i]] = w
        BY <2>1, <3>1, <1>2, <1>7
      <3>3. s # <<>> => 1 \in 1 .. Len(s) /\ t[1 + 1] = s[1]
        BY <1>1, <1>2, <1>5
      <3> QED
        BY <2>1, <3>2, <3>3, <1>1, <1>2, <1>4, <1>5
    <2>2. CASE i # 1
      <3>1. i - 1 \in 1 .. Len(s) /\ t[i] = s[i - 1]
        BY <2>2, <1>8
      <3>2. t[i] # n /\ t[i] \in N
        BY <3>1, <1>1, <1>3
      <3>3. after[t[i]] = link[s[i - 1]]
        BY <3>1, <3>2, <1>7
      <3>4. link[s[i - 1]] = IF i - 1 = Len(s) THEN null ELSE s[(i - 1) + 1]
        BY <3>1, <1>4
      <3>5. i - 1 # Len(s) => i \in 1 .. Len(s) /\ t[i + 1] = s[i]
        BY <3>1, <1>1, <1>2
      <3>6. (i - 1) + 1 = i /\ (i = Len(t) <=> i - 1 = Len(s))
        BY <1>1, <1>2
      <3> QED
        BY <3>3, <3>4, <3>5, <3>6
    <2> QED
      BY <2>1, <2>2
  <1>11. ToSet(t) = {n} \union ToSet(s)
    <2>1. \A i \in 1 .. Len(s) : i + 1 \in 1 .. Len(t)
      BY <1>1, <1>2
    <2>2. 1 \in 1 .. Len(t)
      BY <1>1, <1>2
    <2>3. ToSet(s) \subseteq ToSet(t) /\ n \in ToSet(t)
      BY <2>1, <2>2, <1>2, <1>3
    <2>4. ToSet(t) \subseteq {n} \union ToSet(s)
      BY <1>2, <1>3, <1>8
    <2> QED
      BY <2>3, <2>4
  <1>15. IsListFrom(t, after, null, n)
    BY <1>2, <1>6, <1>9, <1>10, <1>12 DEF IsListFrom
  <1> QED
    BY <1>11, <1>15 DEF t

(* A list stays what it is while nobody writes a link of its nodes.          *)
LEMMA ListKept ==
    ASSUME NEW link, NEW null, NEW w, NEW s, IsListFrom(s, link, null, w),
           NEW after, DOMAIN after = DOMAIN link,
           \A n \in ToSet(s) : after[n] = link[n]
    PROVE  IsListFrom(s, after, null, w)
  <1>1. \A i \in 1 .. Len(s) : s[i] \in ToSet(s)
    BY LenProperties DEF IsListFrom, ToSet
  <1> QED
    BY <1>1 DEF IsListFrom

(* The list from a node of a list is a part of it.                           *)
LEMMA ListWithin ==
    ASSUME NEW link, NEW null, NEW w, NEW s, IsListFrom(s, link, null, w),
           NEW x \in ToSet(s) \union {null}, NEW t, IsListFrom(t, link, null, x),
           null \notin DOMAIN link
    PROVE  ToSet(t) \subseteq ToSet(s)
  <1>1. /\ ToSet(s) = {s[i] : i \in 1 .. Len(s)} /\ Len(s) \in Nat
        /\ ToSet(t) = {t[i] : i \in 1 .. Len(t)} /\ Len(t) \in Nat
    BY LenProperties DEF IsListFrom, ToSet
  <1>2. \A i \in 1 .. Len(s) : link[s[i]] = IF i = Len(s) THEN null ELSE s[i + 1]
    BY DEF IsListFrom
  <1>3. /\ \A i \in 1 .. Len(t) : link[t[i]] = IF i = Len(t) THEN null ELSE t[i + 1]
        /\ \A i \in 1 .. Len(t) : t[i] # null
        /\ Len(t) > 0 => t[1] = x
    BY <1>1 DEF IsListFrom
  <1>4. \A y \in ToSet(s) : link[y] = null \/ link[y] \in ToSet(s)
    <2> SUFFICES ASSUME NEW i \in 1 .. Len(s), i # Len(s)
                 PROVE  s[i + 1] \in ToSet(s)
      BY <1>1, <1>2
    <2>1. i + 1 \in 1 .. Len(s)
      BY <1>1
    <2> QED
      BY <2>1, <1>1
  <1> DEFINE T == {i \in Nat : i + 1 <= Len(t) => t[i + 1] \in ToSet(s)}
  <1>5. 0 \in T
    <2>1. 0 + 1 <= Len(t) => 1 \in 1 .. Len(t) /\ t[0 + 1] = x
      BY <1>1, <1>3
    <2> QED
      BY <2>1, <1>3
  <1>6. ASSUME NEW i \in T
        PROVE  i + 1 \in T
    <2> SUFFICES ASSUME (i + 1) + 1 <= Len(t)
                 PROVE  t[(i + 1) + 1] \in ToSet(s)
      OBVIOUS
    <2>1. i + 1 \in 1 .. Len(t) /\ i + 1 # Len(t) /\ (i + 1) + 1 \in 1 .. Len(t)
      BY <1>1
    <2>2. t[i + 1] \in ToSet(s)
      BY <2>1
    <2>3. link[t[i + 1]] = t[(i + 1) + 1]
      BY <2>1, <1>3
    <2> QED
      BY <2>1, <2>2, <2>3, <1>3, <1>4
  <1> HIDE DEF T
  <1>7. T = Nat
    BY <1>5, <1>6, SetInduction DEF T
  <1>8. ASSUME NEW i \in 1 .. Len(t)
        PROVE  t[i] \in ToSet(s)
    <2>1. i - 1 \in T /\ (i - 1) + 1 = i /\ i <= Len(t)
      BY <1>7, <1>1
    <2> QED
      BY <2>1 DEF T
  <1> QED
    BY <1>8, <1>1

-----------------------------------------------------------------------------
(* Sequences without duplicates: what is taken from, put at the end of, and  *)
(* put reversed before such a sequence.                                      *)

LEMMA InjectiveSeq ==
    ASSUME NEW S, NEW s \in Seq(S)
    PROVE  /\ Len(s) \in Nat /\ DOMAIN s = 1 .. Len(s)
           /\ ToSet(s) = {s[i] : i \in 1 .. Len(s)}
           /\ IsInjective(s) <=> \A i, k \in 1 .. Len(s) : s[i] = s[k] => i = k
           /\ ToSet(s) \subseteq S
  <1>1. Len(s) \in Nat /\ DOMAIN s = 1 .. Len(s)
    BY LenProperties
  <1> QED
    BY <1>1 DEF ToSet, IsInjective

LEMMA TakeHead ==
    ASSUME NEW S, NEW s \in Seq(S), s # <<>>
    PROVE  /\ Head(s) \in S /\ Tail(s) \in Seq(S)
           /\ ToSet(s) = {Head(s)} \union ToSet(Tail(s))
           /\ IsInjective(s) => IsInjective(Tail(s)) /\ Head(s) \notin ToSet(Tail(s))
  <1> DEFINE t == Tail(s)
  <1>1. Len(s) \in Nat /\ Len(s) >= 1 /\ Head(s) = s[1] /\ Head(s) \in S /\ t \in Seq(S)
    OBVIOUS
  <1>2. Len(t) = Len(s) - 1 /\ \A i \in 1 .. Len(t) : t[i] = s[i + 1]
    BY <1>1
  <1>3. /\ ToSet(s) = {s[i] : i \in 1 .. Len(s)} /\ ToSet(t) = {t[i] : i \in 1 .. Len(t)}
        /\ IsInjective(s) <=> \A i, k \in 1 .. Len(s) : s[i] = s[k] => i = k
        /\ IsInjective(t) <=> \A i, k \in 1 .. Len(t) : t[i] = t[k] => i = k
    BY <1>1, InjectiveSeq
  <1> HIDE DEF t
  <1>4. \A i \in 1 .. Len(t) : i + 1 \in 1 .. Len(s) /\ i + 1 # 1
    BY <1>1, <1>2
  <1>5. 1 \in 1 .. Len(s) /\ \A i \in 1 .. Len(s) : i = 1 \/ (i - 1 \in 1 .. Len(t) /\ s[i] = t[i - 1])
    <2>1. \A i \in 1 .. Len(s) : i # 1 => i - 1 \in 1 .. Len(t) /\ (i - 1) + 1 = i
      BY <1>1, <1>2
    <2> QED
      BY <2>1, <1>1, <1>2
  <1>6. ToSet(s) = {s[1]} \union ToSet(t)
    <2>1. ToSet(s) \subseteq {s[1]} \union ToSet(t)
      BY <1>3, <1>5
    <2>2. s[1] \in ToSet(s) /\ ToSet(t) \subseteq ToSet(s)
      BY <1>2, <1>3, <1>4, <1>5
    <2> QED
      BY <2>1, <2>2
  <1>7. ASSUME IsInjective(s) PROVE IsInjective(t) /\ s[1] \notin ToSet(t)
    <2>1. \A i, k \in 1 .. Len(s) : s[i] = s[k] => i = k
      BY <1>3, <1>7
    <2>2. s[1] \notin ToSet(t)
      BY <2>1, <1>2, <1>3, <1>4, <1>5
    <2>3. ASSUME NEW i \in 1 .. Len(t), NEW k \in 1 .. Len(t), t[i] = t[k] PROVE i = k
      <3>1. i + 1 \in 1 .. Len(s) /\ k + 1 \in 1 .. Len(s) /\ s[i + 1] = s[k + 1]
        BY <2>3, <1>2, <1>4
      <3>2. i + 1 = k + 1
        BY <3>1, <2>1
      <3> QED
        BY <3>2
    <2> QED
      BY <2>2, <2>3, <1>3
  <1> QED
    BY <1>1, <1>6, <1>7 DEF t

LEMMA PutLast ==
    ASSUME NEW S, NEW s \in Seq(S), NEW n \in S
    PROVE  /\ Append(s, n) \in Seq(S)
           /\ Len(Append(s, n)) = Len(s) + 1
           /\ ToSet(Append(s, n)) = ToSet(s) \union {n}
           /\ IsInjective(s) /\ n \notin ToSet(s) => IsInjective(Append(s, n))
  <1> DEFINE t == Append(s, n)
  <1>1. /\ Len(s) \in Nat /\ t \in Seq(S) /\ Len(t) = Len(s) + 1
        /\ t[Len(s) + 1] = n /\ \A i \in 1 .. Len(s) : t[i] = s[i]
    OBVIOUS
  <1>3. /\ ToSet(s) = {s[i] : i \in 1 .. Len(s)} /\ ToSet(t) = {t[i] : i \in 1 .. Len(t)}
        /\ IsInjective(s) <=> \A i, k \in 1 .. Len(s) : s[i] = s[k] => i = k
        /\ IsInjective(t) <=> \A i, k \in 1 .. Len(t) : t[i] = t[k] => i = k
    BY <1>1, InjectiveSeq
  <1> HIDE DEF t
  <1>4. \A i \in 1 .. Len(t) : i \in 1 .. Len(s) \/ i = Len(s) + 1
    BY <1>1
  <1>5. (\A i \in 1 .. Len(s) : i \in 1 .. Len(t)) /\ Len(s) + 1 \in 1 .. Len(t)
    BY <1>1
  <1>6. ToSet(t) \subseteq ToSet(s) \union {n}
    BY <1>1, <1>3, <1>4
  <1>7. ToSet(s) \union {n} \subseteq ToSet(t)
    BY <1>1, <1>3, <1>5
  <1>8. ASSUME IsInjective(s), n \notin ToSet(s) PROVE IsInjective(t)
    BY <1>1, <1>3, <1>4, <1>8
  <1> QED
    BY <1>1, <1>6, <1>7, <1>8 DEF t

LEMMA PutReversed ==
    ASSUME NEW S, NEW s \in Seq(S), NEW r \in Seq(S)
    PROVE  /\ Reverse(s) \o r \in Seq(S)
           /\ ToSet(Reverse(s) \o r) = ToSet(s) \union ToSet(r)
           /\ IsInjective(s) /\ IsInjective(r) /\ ToSet(s) \intersect ToSet(r) = {} =>
                 IsInjective(Reverse(s) \o r)
  <1> DEFINE v == Reverse(s)
             t == v \o r
  <1>1. /\ Len(s) \in Nat /\ Len(r) \in Nat
        /\ v \in Seq(S) /\ Len(v) = Len(s)
        /\ \A i \in 1 .. Len(s) : v[i] = s[(Len(s) - i) + 1]
    BY DEF Reverse
  <1>2. \A i \in 1 .. Len(s) : (Len(s) - i) + 1 \in 1 .. Len(s) /\ i = (Len(s) - ((Len(s) - i) + 1)) + 1
    BY <1>1
  <1>3. /\ ToSet(s) = {s[i] : i \in 1 .. Len(s)} /\ ToSet(r) = {r[i] : i \in 1 .. Len(r)}
        /\ ToSet(v) = {v[i] : i \in 1 .. Len(v)}
        /\ IsInjective(s) <=> \A i, k \in 1 .. Len(s) : s[i] = s[k] => i = k
        /\ IsInjective(v) <=> \A i, k \in 1 .. Len(v) : v[i] = v[k] => i = k
        /\ IsInjective(r) <=> \A i, k \in 1 .. Len(r) : r[i] = r[k] => i = k
    <2>1. /\ ToSet(s) = {s[i] : i \in 1 .. Len(s)}
          /\ IsInjective(s) <=> \A i, k \in 1 .. Len(s) : s[i] = s[k] => i = k
      BY InjectiveSeq
    <2>2. /\ ToSet(r) = {r[i] : i \in 1 .. Len(r)}
          /\ IsInjective(r) <=> \A i, k \in 1 .. Len(r) : r[i] = r[k] => i = k
      BY InjectiveSeq
    <2>3. /\ ToSet(v) = {v[i] : i \in 1 .. Len(v)}
          /\ IsInjective(v) <=> \A i, k \in 1 .. Len(v) : v[i] = v[k] => i = k
      <3>1. v \in Seq(S)
        BY <1>1
      <3> HIDE DEF v
      <3> QED
        BY <3>1, InjectiveSeq
    <2> QED
      BY <2>1, <2>2, <2>3
  <1> HIDE DEF v
  <1>4. ToSet(v) = ToSet(s)
    <2>1. ToSet(v) \subseteq ToSet(s)
      BY <1>1, <1>2, <1>3
    <2>2. ASSUME NEW i \in 1 .. Len(s) PROVE s[i] \in ToSet(v)
      <3> DEFINE k == (Len(s) - i) + 1
      <3>1. k \in 1 .. Len(s) /\ i = (Len(s) - k) + 1
        BY <1>2
      <3>2. v[k] = s[i] /\ k \in 1 .. Len(v)
        BY <3>1, <1>1
      <3> QED
        BY <3>2, <1>3
    <2>3. ToSet(s) \subseteq ToSet(v)
      <3>1. ToSet(s) = {s[i] : i \in 1 .. Len(s)}
        BY <1>3
      <3> QED
        BY <2>2, <3>1
    <2> QED
      BY <2>1, <2>3
  <1>5. ASSUME IsInjective(s) PROVE IsInjective(v)
    <2>1. ASSUME NEW i \in 1 .. Len(v), NEW k \in 1 .. Len(v), v[i] = v[k] PROVE i = k
      <3>1. s[(Len(s) - i) + 1] = s[(Len(s) - k) + 1]
        BY <2>1, <1>1
      <3>2. (Len(s) - i) + 1 = (Len(s) - k) + 1
        BY <3>1, <1>1, <1>2, <1>3, <1>5
      <3> QED
        BY <3>2, <1>1
    <2> QED
      BY <2>1, <1>3
  <1>6. /\ t \in Seq(S) /\ Len(t) = Len(v) + Len(r)
        /\ \A i \in 1 .. Len(v) : t[i] = v[i]
        /\ \A i \in 1 .. Len(r) : t[Len(v) + i] = r[i]
    <2>1. v \in Seq(S) /\ r \in Seq(S)
      BY <1>1
    <2> QED
      BY <2>1, ConcatProperties
  <1> HIDE DEF t
  <1>7. /\ ToSet(t) = {t[i] : i \in 1 .. Len(t)}
        /\ IsInjective(t) <=> \A i, k \in 1 .. Len(t) : t[i] = t[k] => i = k
    BY <1>6, InjectiveSeq, ZenonT(40)
  <1>8. \A i \in 1 .. Len(t) :
           \/ i \in 1 .. Len(v) /\ t[i] = v[i]
           \/ i - Len(v) \in 1 .. Len(r) /\ t[i] = r[i - Len(v)] /\ i \notin 1 .. Len(v)
    <2> TAKE i \in 1 .. Len(t)
    <2>1. i \notin 1 .. Len(v) => i - Len(v) \in 1 .. Len(r) /\ Len(v) + (i - Len(v)) = i
      BY <1>1, <1>6
    <2> QED
      BY <2>1, <1>6
  <1>9. /\ \A i \in 1 .. Len(v) : i \in 1 .. Len(t)
        /\ \A i \in 1 .. Len(r) : Len(v) + i \in 1 .. Len(t)
    BY <1>1, <1>6
  <1>10. ToSet(t) \subseteq ToSet(v) \union ToSet(r)
    <2>1. ASSUME NEW i \in 1 .. Len(t) PROVE t[i] \in ToSet(v) \union ToSet(r)
      <3>1. CASE i \in 1 .. Len(v) /\ t[i] = v[i]
        BY <3>1, <1>3
      <3>2. CASE i - Len(v) \in 1 .. Len(r) /\ t[i] = r[i - Len(v)]
        BY <3>2, <1>3
      <3> QED
        BY <3>1, <3>2, <1>8
    <2>2. ToSet(t) = {t[i] : i \in 1 .. Len(t)}
      BY <1>7
    <2> QED
      BY <2>1, <2>2
  <1>11. ToSet(v) \union ToSet(r) \subseteq ToSet(t)
    <2>1. ASSUME NEW i \in 1 .. Len(v) PROVE v[i] \in ToSet(t)
      BY <1>6, <1>7, <1>9
    <2>2. ASSUME NEW i \in 1 .. Len(r) PROVE r[i] \in ToSet(t)
      <3>1. Len(v) + i \in 1 .. Len(t) /\ t[Len(v) + i] = r[i]
        BY <1>6, <1>9
      <3> QED
        BY <3>1, <1>7
    <2>3. ToSet(v) = {v[i] : i \in 1 .. Len(v)} /\ ToSet(r) = {r[i] : i \in 1 .. Len(r)}
      BY <1>3
    <2> QED
      BY <2>1, <2>2, <2>3
  <1>12. ASSUME IsInjective(v), IsInjective(r), ToSet(v) \intersect ToSet(r) = {}
         PROVE  IsInjective(t)
    <2>1. ASSUME NEW i \in 1 .. Len(t), NEW k \in 1 .. Len(t), t[i] = t[k] PROVE i = k
      <3>1. CASE i \in 1 .. Len(v) /\ t[i] = v[i]
        <4>1. t[i] \in ToSet(v)
          BY <3>1, <1>3
        <4>2. k \in 1 .. Len(v) /\ t[k] = v[k]
          <5>1. t[k] \notin ToSet(r)
            BY <4>1, <2>1, <1>12
          <5>2. ~(k - Len(v) \in 1 .. Len(r) /\ t[k] = r[k - Len(v)])
            BY <5>1, <1>3
          <5> QED
            BY <5>2, <1>8
        <4> QED
          BY <3>1, <4>2, <2>1, <1>3, <1>12
      <3>2. CASE i - Len(v) \in 1 .. Len(r) /\ t[i] = r[i - Len(v)]
        <4>1. t[i] \in ToSet(r)
          BY <3>2, <1>3
        <4>2. k - Len(v) \in 1 .. Len(r) /\ t[k] = r[k - Len(v)]
          <5>1. t[k] \notin ToSet(v)
            BY <4>1, <2>1, <1>12
          <5>2. ~(k \in 1 .. Len(v) /\ t[k] = v[k])
            BY <5>1, <1>3
          <5> QED
            BY <5>2, <1>8
        <4>3. i - Len(v) = k - Len(v)
          BY <3>2, <4>2, <2>1, <1>3, <1>12
        <4> QED
          BY <4>3, <1>1, <1>6
      <3> QED
        BY <3>1, <3>2, <1>8
    <2> QED
      BY <2>1, <1>7
  <1> QED
    BY <1>4, <1>5, <1>6, <1>10, <1>11, <1>12 DEF t, v

LEMMA PutFirst ==
    ASSUME NEW S, NEW s \in Seq(S), NEW n \in S
    PROVE  /\ <<n>> \o s \in Seq(S)
           /\ ToSet(<<n>> \o s) = {n} \union ToSet(s)
           /\ IsInjective(s) /\ n \notin ToSet(s) => IsInjective(<<n>> \o s)
  <1> DEFINE t == <<n>> \o s
  <1>1. /\ t \in Seq(S) /\ Len(s) \in Nat /\ Len(t) = Len(s) + 1
        /\ t[1] = n /\ \A i \in 1 .. Len(s) : t[i + 1] = s[i]
    OBVIOUS
  <1> HIDE DEF t
  <1>2. /\ ToSet(s) = {s[i] : i \in 1 .. Len(s)} /\ ToSet(t) = {t[i] : i \in 1 .. Len(t)}
        /\ IsInjective(s) <=> \A i, k \in 1 .. Len(s) : s[i] = s[k] => i = k
        /\ IsInjective(t) <=> \A i, k \in 1 .. Len(t) : t[i] = t[k] => i = k
    BY <1>1, InjectiveSeq
  <1>3. \A i \in 1 .. Len(t) : i = 1 \/ (i - 1 \in 1 .. Len(s) /\ t[i] = s[i - 1])
    <2> TAKE i \in 1 .. Len(t)
    <2>1. i # 1 => i - 1 \in 1 .. Len(s) /\ t[(i - 1) + 1] = s[i - 1]
      BY <1>1
    <2> QED
      BY <2>1, <1>1
  <1>4. ToSet(t) = {n} \union ToSet(s)
    <2>1. \A i \in 1 .. Len(s) : i + 1 \in 1 .. Len(t) /\ t[i + 1] = s[i]
      BY <1>1
    <2>2. 1 \in 1 .. Len(t) /\ t[1] = n
      BY <1>1
    <2>3. ASSUME NEW v \in ToSet(t)
          PROVE  v \in {n} \union ToSet(s)
      <3>1. PICK i \in 1 .. Len(t) : v = t[i]
        BY <1>2
      <3> QED
        BY <3>1, <2>2, <1>2, <1>3
    <2>4. ASSUME NEW v \in ToSet(s)
          PROVE  v \in ToSet(t)
      <3>1. PICK i \in 1 .. Len(s) : v = s[i]
        BY <1>2
      <3>2. i + 1 \in 1 .. Len(t) /\ t[i + 1] = v
        BY <3>1, <2>1
      <3>3. PICK k \in 1 .. Len(t) : t[k] = v
        BY <3>2
      <3> QED
        BY <3>3, <1>2
    <2>5. n \in ToSet(t)
      BY <2>2, <1>2
    <2> QED
      BY <2>3, <2>4, <2>5
  <1>5. ASSUME IsInjective(s), n \notin ToSet(s),
               NEW i \in 1 .. Len(t), NEW k \in 1 .. Len(t), t[i] = t[k]
        PROVE  i = k
    <2>1. i = 1 <=> k = 1
      BY <1>1, <1>2, <1>3, <1>5
    <2>2. CASE i # 1
      <3>1. /\ i - 1 \in 1 .. Len(s) /\ t[i] = s[i - 1]
            /\ k - 1 \in 1 .. Len(s) /\ t[k] = s[k - 1]
        BY <2>1, <2>2, <1>3
      <3>2. i - 1 = k - 1
        BY <3>1, <1>2, <1>5
      <3> QED
        BY <3>2
    <2> QED
      BY <2>1, <2>2
  <1> QED
    BY <1>1, <1>2, <1>4, <1>5 DEF t

LEMMA PartOf ==
    ASSUME NEW S, NEW s \in Seq(S), NEW a \in 1 .. Len(s), NEW b \in a .. Len(s)
    PROVE  /\ SubSeq(s, a + 1, b) \in Seq(S)
           /\ Len(SubSeq(s, a + 1, b)) = b - a
           /\ \A x \in 1 .. b - a : a + x \in a + 1 .. b /\ SubSeq(s, a + 1, b)[x] = s[a + x]
           /\ ToSet(SubSeq(s, a + 1, b)) = {s[x] : x \in a + 1 .. b}
  <1>1. /\ Len(s) \in Nat /\ a \in Int /\ b \in Int /\ a >= 1 /\ a <= b /\ b <= Len(s)
        /\ \A x \in 1 .. Len(s) : s[x] \in S
    BY InjectiveSeq
  <1>2. PICK c : c = a + 1
    OBVIOUS
  <1>3. c \in Int /\ c >= 1 /\ c - 1 = a
    BY <1>1, <1>2
  <1>4. PICK u : u = SubSeq(s, c, b)
    OBVIOUS
  <1>5. \A x \in c .. b : s[x] \in S
    <2>1. \A x \in c .. b : x \in 1 .. Len(s)
      BY <1>1, <1>3
    <2> QED
      BY <2>1, <1>1
  <1>6. /\ u \in Seq(S) /\ Len(u) = IF c <= b THEN b - c + 1 ELSE 0
        /\ \A x \in 1 .. b - c + 1 : u[x] = s[c + x - 1]
    BY <1>1, <1>3, <1>4, <1>5, SubSeqProperties
  <1>7. Len(u) = b - a
    BY <1>1, <1>2, <1>6
  <1>8. \A x \in 1 .. b - a : a + x \in c .. b /\ u[x] = s[a + x]
    <2> TAKE x \in 1 .. b - a
    <2>1. x \in 1 .. b - c + 1 /\ c + x - 1 = a + x /\ a + x \in c .. b
      BY <1>1, <1>2
    <2> QED
      BY <2>1, <1>6
  <1>9. ToSet(u) = {u[x] : x \in 1 .. Len(u)}
    BY <1>6, InjectiveSeq
  <1>10. \A y \in c .. b : y - a \in 1 .. b - a /\ a + (y - a) = y
    BY <1>1, <1>2
  <1>11. ToSet(u) = {s[x] : x \in c .. b}
    <2>1. \A y \in ToSet(u) : y \in {s[x] : x \in c .. b}
      <3> TAKE y \in ToSet(u)
      <3>1. PICK x \in 1 .. b - a : y = u[x]
        BY <1>7, <1>9
      <3> QED
        BY <3>1, <1>8
    <2>2. \A y \in {s[x] : x \in c .. b} : y \in ToSet(u)
      <3> TAKE y \in {s[x] : x \in c .. b}
      <3>1. PICK x \in c .. b : y = s[x]
        OBVIOUS
      <3>2. u[x - a] = s[x]
        BY <1>8, <1>10
      <3> QED
        BY <3>1, <3>2, <1>7, <1>9, <1>10
    <2> QED
      BY <2>1, <2>2
  <1> QED
    BY <1>2, <1>4, <1>6, <1>7, <1>8, <1>11

(* A node is put behind the last one of a list.                              *)
LEMMA ListAppended ==
    ASSUME NEW link, NEW null, NEW w, NEW s, IsListFrom(s, link, null, w),
           s # <<>>, NEW n \in DOMAIN link, n \notin ToSet(s),
           NEW after, DOMAIN after = DOMAIN link,
           \A x \in DOMAIN link :
               after[x] = IF x = n THEN null
                          ELSE IF x = s[Len(s)] THEN n ELSE link[x]
    PROVE  IsListFrom(Append(s, n), after, null, w)
  <1> DEFINE N == DOMAIN link
             t == Append(s, n)
  <1>1. /\ s \in Seq(N) /\ Len(s) \in Nat /\ Len(s) > 0
        /\ ToSet(s) = {s[i] : i \in 1 .. Len(s)}
        /\ \A i \in 1 .. Len(s) : s[i] \in N /\ s[i] # n
        /\ \A i, k \in 1 .. Len(s) : s[i] = s[k] => i = k
    <2>1. s \in Seq(N) /\ IsInjective(s)
      BY DEF IsListFrom
    <2>2. Len(s) \in Nat /\ Len(s) # 0
      BY <2>1, EmptySeq
    <2> QED
      BY <2>1, <2>2, InjectiveSeq
  <1>2. /\ t \in Seq(N) /\ Len(t) = Len(s) + 1
        /\ t[Len(s) + 1] = n /\ \A i \in 1 .. Len(s) : t[i] = s[i]
    BY <1>1
  <1>3. IsInjective(t)
    BY <1>1, PutLast DEF IsListFrom
  <1>4. /\ w = s[1] /\ t # <<>> /\ t[1] = s[1]
    <2>1. 1 \in 1 .. Len(s)
      BY <1>1
    <2> QED
      BY <2>1, <1>1, <1>2 DEF IsListFrom
  <1>5. \A i \in 1 .. Len(s) : link[s[i]] = IF i = Len(s) THEN null ELSE s[i + 1]
    BY DEF IsListFrom
  <1>6. /\ DOMAIN after = N
        /\ \A x \in N : after[x] = IF x = n THEN null
                                   ELSE IF x = s[Len(s)] THEN n ELSE link[x]
    OBVIOUS
  <1>7. n \in N
    OBVIOUS
  <1> HIDE DEF t, N
  <1>8. \A i \in 1 .. Len(t) : after[t[i]] = IF i = Len(t) THEN null ELSE t[i + 1]
    <2> TAKE i \in 1 .. Len(t)
    <2>1. CASE i = Len(s) + 1
      BY <2>1, <1>2, <1>6, <1>7
    <2>2. CASE i = Len(s)
      <3>1. i \in 1 .. Len(s)
        BY <2>2, <1>1
      <3>2. t[i] = s[Len(s)] /\ t[i] \in N /\ t[i] # n
        BY <3>1, <2>2, <1>1, <1>2
      <3>3. after[t[i]] = n
        BY <3>2, <1>6
      <3> QED
        BY <3>3, <2>2, <1>1, <1>2
    <2>3. CASE i < Len(s)
      <3>1. i \in 1 .. Len(s) /\ i + 1 \in 1 .. Len(s) /\ Len(s) \in 1 .. Len(s)
        BY <2>3, <1>1
      <3>2. t[i] = s[i] /\ t[i] \in N /\ t[i] # n /\ t[i + 1] = s[i + 1]
        BY <3>1, <1>1, <1>2
      <3>3. s[i] # s[Len(s)]
        BY <3>1, <2>3, <1>1
      <3>4. after[t[i]] = link[s[i]]
        BY <3>2, <3>3, <1>6
      <3> QED
        BY <3>1, <3>2, <3>4, <2>3, <1>1, <1>2, <1>5
    <2> QED
      BY <2>1, <2>2, <2>3, <1>1, <1>2
  <1> QED
    BY <1>2, <1>3, <1>4, <1>6, <1>8 DEF IsListFrom, t

(* The nodes of a list from its i-th to its k-th are a list, once the link   *)
(* of the k-th is cut.                                                       *)
LEMMA ListSegment ==
    ASSUME NEW link, NEW null, NEW w, NEW s, IsListFrom(s, link, null, w),
           NEW i \in 1 .. Len(s), NEW k \in i .. Len(s),
           NEW after, DOMAIN after = DOMAIN link,
           \A x \in DOMAIN link : after[x] = IF x = s[k] THEN null ELSE link[x]
    PROVE  /\ IsListFrom(SubSeq(s, i, k), after, null, s[i])
           /\ Len(SubSeq(s, i, k)) = k - i + 1
           /\ \A x \in 1 .. k - i + 1 : SubSeq(s, i, k)[x] = s[i + x - 1]
           /\ Tail(SubSeq(s, i, k)) = SubSeq(s, i + 1, k)
  <1> DEFINE N == DOMAIN link
             t == SubSeq(s, i, k)
  <1>1. /\ s \in Seq(N) /\ Len(s) \in Nat /\ i \in Nat /\ k \in Nat
        /\ 1 <= i /\ i <= k /\ k <= Len(s)
        /\ \A x \in 1 .. Len(s) : s[x] \in N
        /\ \A x, y \in 1 .. Len(s) : s[x] = s[y] => x = y
    BY InjectiveSeq DEF IsListFrom
  <1>2. /\ t \in Seq(N) /\ Len(t) = k - i + 1
        /\ \A x \in 1 .. k - i + 1 : t[x] = s[i + x - 1]
    <2>1. \A x \in i .. k : s[x] \in N
      BY <1>1
    <2>2. i <= k /\ i \in Int /\ k \in Int
      BY <1>1
    <2>3. PICK j, m : j = i /\ m = k
      OBVIOUS
    <2>4. /\ SubSeq(s, j, m) \in Seq(N)
          /\ Len(SubSeq(s, j, m)) = IF j <= m THEN m - j + 1 ELSE 0
          /\ \A x \in 1 .. m - j + 1 : SubSeq(s, j, m)[x] = s[j + x - 1]
      BY <2>1, <2>2, <2>3, SubSeqProperties
    <2> QED
      BY <2>2, <2>3, <2>4
  <1>3. /\ DOMAIN after = N
        /\ \A x \in N : after[x] = IF x = s[k] THEN null ELSE link[x]
    OBVIOUS
  <1>4. \A x \in 1 .. Len(s) : link[s[x]] = IF x = Len(s) THEN null ELSE s[x + 1]
    BY DEF IsListFrom
  <1>5. Tail(t) = SubSeq(s, i + 1, k)
    <2>1. i \in 1 .. Len(s) /\ k \in i .. Len(s)
      OBVIOUS
    <2> QED
      BY <1>1, <2>1, HeadTailOfSubSeq
  <1> HIDE DEF t, N
  <1>6. IsInjective(t)
    <2>1. ASSUME NEW x \in 1 .. Len(t), NEW y \in 1 .. Len(t), t[x] = t[y]
          PROVE  x = y
      <3>1. /\ i + x - 1 \in 1 .. Len(s) /\ i + y - 1 \in 1 .. Len(s)
            /\ t[x] = s[i + x - 1] /\ t[y] = s[i + y - 1]
        BY <1>1, <1>2
      <3>2. i + x - 1 = i + y - 1
        BY <3>1, <2>1, <1>1, ZenonT(40)
      <3> QED
        BY <3>2, <1>1
    <2> QED
      BY <2>1, <1>2, InjectiveSeq
  <1>7. t # <<>> /\ t[1] = s[i]
    <2>1. Len(t) # 0 /\ 1 \in 1 .. k - i + 1 /\ i + 1 - 1 = i
      BY <1>1, <1>2
    <2>2. t[1] = s[i + 1 - 1]
      BY <2>1, <1>2
    <2> QED
      BY <2>1, <2>2, <1>2, EmptySeq
  <1>8. \A x \in 1 .. Len(t) : after[t[x]] = IF x = Len(t) THEN null ELSE t[x + 1]
    <2> TAKE x \in 1 .. Len(t)
    <2>1. /\ i + x - 1 \in 1 .. Len(s) /\ t[x] = s[i + x - 1] /\ t[x] \in N
          /\ k \in 1 .. Len(s)
      BY <1>1, <1>2
    <2>2. CASE x = Len(t)
      <3>1. i + x - 1 = k
        BY <2>2, <1>1, <1>2
      <3>2. t[x] = s[k]
        BY <3>1, <2>1
      <3> QED
        BY <3>2, <2>1, <2>2, <1>3
    <2>3. CASE x # Len(t)
      <3>1. /\ i + x - 1 # k /\ i + x - 1 # Len(s) /\ x + 1 \in 1 .. k - i + 1
            /\ i + (x + 1) - 1 = (i + x - 1) + 1
        BY <2>1, <2>3, <1>1, <1>2
      <3>2. t[x] # s[k]
        BY <3>1, <2>1, <1>1
      <3>3. after[t[x]] = link[s[i + x - 1]]
        BY <3>2, <2>1, <1>3
      <3>4. link[s[i + x - 1]] = s[(i + x - 1) + 1]
        BY <3>1, <2>1, <1>4
      <3>5. t[x + 1] = s[i + (x + 1) - 1]
        BY <3>1, <1>2
      <3> QED
        BY <3>1, <3>3, <3>4, <3>5, <2>3
    <2> QED
      BY <2>2, <2>3
  <1>9. IsListFrom(t, after, null, s[i])
    BY <1>2, <1>3, <1>6, <1>7, <1>8 DEF IsListFrom
  <1> QED
    BY <1>2, <1>5, <1>9 DEF t

(* What a walk from node s[i] as far as node s[k] passes, where after is     *)
(* the list cut after s[k].                                                  *)
LEMMA ListBetween ==
    ASSUME NEW link, NEW null, null \notin DOMAIN link, IsFiniteSet(DOMAIN link),
           NEW m \in Nat, Cardinality(DOMAIN link) <= m,
           NEW w, NEW s, IsListFrom(s, link, null, w),
           NEW i \in 1 .. Len(s), NEW k \in i .. Len(s),
           NEW after, DOMAIN after = DOMAIN link,
           \A x \in DOMAIN link : after[x] = IF x = s[k] THEN null ELSE link[x]
    PROVE  Tail(ListFrom(after, null, s[i], m)) = SubSeq(s, i + 1, k)
  <1>1. PICK t : t = SubSeq(s, i, k)
    OBVIOUS
  <1>2. IsListFrom(t, after, null, s[i]) /\ Tail(t) = SubSeq(s, i + 1, k)
    BY <1>1, ListSegment
  <1>3. null \notin DOMAIN after /\ IsFiniteSet(DOMAIN after)
        /\ Cardinality(DOMAIN after) <= m
    OBVIOUS
  <1>4. ListFrom(after, null, s[i], m) = t
    BY <1>2, <1>3, ListFound
  <1> QED
    BY <1>2, <1>4

(* A list is put behind another one.                                         *)
LEMMA ListJoined ==
    ASSUME NEW link, NEW null, NEW w, NEW s, IsListFrom(s, link, null, w), s # <<>>,
           NEW x, NEW r, IsListFrom(r, link, null, x), r # <<>>,
           ToSet(s) \intersect ToSet(r) = {},
           NEW after, DOMAIN after = DOMAIN link,
           \A n \in DOMAIN link : after[n] = IF n = s[Len(s)] THEN x ELSE link[n]
    PROVE  /\ IsListFrom(s \o r, after, null, w)
           /\ Len(s \o r) = Len(s) + Len(r)
           /\ \A i \in 1 .. Len(s) : (s \o r)[i] = s[i]
           /\ \A i \in 1 .. Len(r) : (s \o r)[Len(s) + i] = r[i]
  <1> DEFINE N == DOMAIN link
  <1>1. /\ s \in Seq(N) /\ r \in Seq(N)
        /\ w = s[1] /\ x = r[1]
        /\ \A i \in 1 .. Len(s) : link[s[i]] = IF i = Len(s) THEN null ELSE s[i + 1]
        /\ \A i \in 1 .. Len(r) : link[r[i]] = IF i = Len(r) THEN null ELSE r[i + 1]
        /\ IsInjective(s) /\ IsInjective(r)
    BY DEF IsListFrom
  <1> HIDE DEF N
  <1>2. PICK a, b, t : a = Len(s) /\ b = Len(r) /\ t = s \o r
    OBVIOUS
  <1>3. /\ a \in Nat /\ a >= 1 /\ b \in Nat /\ b >= 1
        /\ t \in Seq(N) /\ Len(t) = a + b
        /\ \A i \in 1 .. a : t[i] = s[i]
        /\ \A i \in 1 .. b : t[a + i] = r[i]
    BY <1>1, <1>2
  <1>4. /\ ToSet(s) = {s[i] : i \in 1 .. a} /\ ToSet(r) = {r[i] : i \in 1 .. b}
        /\ \A i, k \in 1 .. a : s[i] = s[k] => i = k
        /\ \A i, k \in 1 .. b : r[i] = r[k] => i = k
        /\ IsInjective(t) <=> \A i, k \in 1 .. Len(t) : t[i] = t[k] => i = k
    <2>1. /\ ToSet(s) = {s[i] : i \in 1 .. Len(s)}
          /\ IsInjective(s) <=> \A i, k \in 1 .. Len(s) : s[i] = s[k] => i = k
      BY <1>1, InjectiveSeq
    <2>2. /\ ToSet(r) = {r[i] : i \in 1 .. Len(r)}
          /\ IsInjective(r) <=> \A i, k \in 1 .. Len(r) : r[i] = r[k] => i = k
      BY <1>1, InjectiveSeq
    <2>3. IsInjective(t) <=> \A i, k \in 1 .. Len(t) : t[i] = t[k] => i = k
      BY <1>3, InjectiveSeq
    <2> QED
      BY <1>1, <1>2, <2>1, <2>2, <2>3
  <1>5. \A i \in 1 .. a, k \in 1 .. b : s[i] # r[k]
    BY <1>4
  <1>6. ASSUME NEW i \in 1 .. a + b
        PROVE  i \in 1 .. a \/ \E k \in 1 .. b : i = a + k
    <2>1. CASE i <= a
      BY <2>1
    <2>2. CASE i > a
      <3>1. i - a \in 1 .. b /\ i = a + (i - a)
        BY <1>3, <2>2
      <3> QED
        BY <3>1
    <2> QED
      BY <1>3, <2>1, <2>2
  <1>7. IsInjective(t)
    <2>1. ASSUME NEW i \in 1 .. a + b, NEW k \in 1 .. a + b, t[i] = t[k]
          PROVE  i = k
      <3>1. CASE i \in 1 .. a /\ k \in 1 .. a
        BY <1>3, <1>4, <2>1, <3>1
      <3>2. CASE i \notin 1 .. a /\ k \notin 1 .. a
        <4>1. PICK p \in 1 .. b, q \in 1 .. b : i = a + p /\ k = a + q
          BY <1>6, <3>2
        <4>2. t[a + p] = r[p] /\ t[a + q] = r[q]
          BY <1>3
        <4>3. p = q
          BY <1>4, <2>1, <4>1, <4>2
        <4> QED
          BY <4>1, <4>3
      <3>3. CASE i \in 1 .. a /\ k \notin 1 .. a
        <4>1. PICK q \in 1 .. b : k = a + q
          BY <1>6, <3>3
        <4>2. t[a + q] = r[q] /\ t[i] = s[i]
          BY <1>3, <3>3
        <4> QED
          BY <1>5, <2>1, <3>3, <4>1, <4>2
      <3>4. CASE i \notin 1 .. a /\ k \in 1 .. a
        <4>1. PICK p \in 1 .. b : i = a + p
          BY <1>6, <3>4
        <4>2. t[a + p] = r[p] /\ t[k] = s[k]
          BY <1>3, <3>4
        <4> QED
          BY <1>5, <2>1, <3>4, <4>1, <4>2
      <3> QED
        BY <3>1, <3>2, <3>3, <3>4
    <2> QED
      BY <1>3, <1>4, <2>1
  <1>8. ASSUME NEW i \in 1 .. a + b
        PROVE  after[t[i]] = IF i = a + b THEN null ELSE t[i + 1]
    <2>1. CASE i \in 1 .. a
      <3>1. t[i] = s[i] /\ s[i] \in N
        BY <1>1, <1>2, <1>3, <2>1
      <3>2. CASE i = a
        <4>1. after[s[a]] = r[1]
          BY <1>1, <1>2, <3>1, <3>2 DEF N
        <4>2. t[a + 1] = r[1] /\ i # a + b
          BY <1>3, <3>2
        <4> QED
          BY <3>1, <3>2, <4>1, <4>2
      <3>3. CASE i # a
        <4>1. s[i] # s[a] /\ i + 1 \in 1 .. a /\ i # a + b
          BY <1>3, <1>4, <2>1, <3>3
        <4>2. after[s[i]] = s[i + 1]
          BY <1>1, <1>2, <2>1, <3>1, <3>3, <4>1 DEF N
        <4> QED
          BY <1>3, <3>1, <4>1, <4>2
      <3> QED
        BY <3>2, <3>3
    <2>2. CASE i \notin 1 .. a
      <3>1. PICK k \in 1 .. b : i = a + k
        BY <1>6, <2>2
      <3>2. t[i] = r[k] /\ r[k] \in N /\ r[k] # s[a]
        BY <1>1, <1>2, <1>3, <1>5, <3>1
      <3>3. after[r[k]] = IF k = b THEN null ELSE r[k + 1]
        BY <1>1, <1>2, <3>2 DEF N
      <3>4. k = b <=> i = a + b
        BY <1>3, <3>1
      <3>5. k # b => r[k + 1] = t[i + 1]
        <4> SUFFICES ASSUME k # b
                     PROVE  r[k + 1] = t[i + 1]
          OBVIOUS
        <4>1. k + 1 \in 1 .. b /\ i + 1 = a + (k + 1)
          BY <1>3, <3>1
        <4> QED
          BY <1>3, <4>1
      <3> QED
        BY <3>2, <3>3, <3>4, <3>5
    <2> QED
      BY <2>1, <2>2
  <1>9. t # <<>> /\ t[1] = w
    BY <1>1, <1>3
  <1> QED
    BY <1>2, <1>3, <1>7, <1>8, <1>9 DEF IsListFrom, N

(* Where the links lead along p, so does the list, wherever it may end.      *)
Along(p, m, link) ==
    /\ \A j \in 1 .. m : p[j] \in DOMAIN link
    /\ \A j \in 1 .. m - 1 : link[p[j]] = p[j + 1]

LEMMA ListLeads ==
    ASSUME NEW link, NEW null, null \notin DOMAIN link,
           \A n \in DOMAIN link : link[n] \in DOMAIN link \union {null},
           NEW M \in Nat, NEW m \in 1 .. M, NEW p, Along(p, m, link)
    PROVE  /\ Len(ListFrom(link, null, p[1], M)) \in Nat
           /\ Len(ListFrom(link, null, p[1], M)) >= m
           /\ \A i \in 1 .. m : ListFrom(link, null, p[1], M)[i] = p[i]
  <1> DEFINE N == DOMAIN link
             Words == N \union {null}
  <1>1. PICK g : Walk(g, link, null, M) /\ ListFrom(link, null, p[1], M) = g[M][p[1]]
    BY ListFromIsWalk
  <1>2. ASSUME NEW i \in 0 .. M, NEW n \in Words
        PROVE  g[i][n] = IF i = 0 \/ n = null THEN <<>>
                         ELSE <<n>> \o g[i - 1][link[n]]
    <2> HIDE DEF Words, N
    <2>1. g = [d \in 0 .. M |->
                 [x \in Words |-> IF d = 0 \/ x = null THEN <<>>
                                  ELSE <<x>> \o g[d - 1][link[x]]]]
      BY <1>1 DEF Walk, Words, N
    <2>2. g[i] = [x \in Words |-> IF i = 0 \/ x = null THEN <<>>
                                  ELSE <<x>> \o g[i - 1][link[x]]]
      BY ONLY <2>1, i \in 0 .. M, Zenon
    <2> QED
      BY ONLY <2>2, n \in Words, Zenon
  <1>3. \A i \in 0 .. M : \A n \in Words : g[i][n] \in Seq(N)
    <2> DEFINE T == {i \in Nat : i <= M => \A n \in Words : g[i][n] \in Seq(N)}
    <2>1. 0 \in T
      <3>1. \A n \in Words : g[0][n] = <<>>
        BY <1>2, 0 \in 0 .. M
      <3>2. \A n \in Words : g[0][n] \in Seq(N)
        <4> HIDE DEF Words, N
        <4>1. <<>> \in Seq(N)
          OBVIOUS
        <4> QED
          BY <3>1, <4>1, Zenon
      <3> QED
        BY <3>2
    <2>2. ASSUME NEW i \in T
          PROVE  i + 1 \in T
      <3>1. i \in Nat /\ (i + 1) - 1 = i
        OBVIOUS
      <3> SUFFICES ASSUME i + 1 <= M, NEW n \in Words
                   PROVE  g[i + 1][n] \in Seq(N)
        BY <3>1
      <3>2. i + 1 \in 0 .. M /\ i <= M
        BY <3>1
      <3>3. CASE n = null
        <4>1. g[i + 1][n] = <<>>
          BY <1>2, <3>2, <3>3
        <4> QED
          BY <4>1
      <3>4. CASE n # null
        <4>1. n \in N /\ link[n] \in Words
          BY <3>4
        <4>2. g[i][link[n]] \in Seq(N)
          BY <3>2, <4>1
        <4>3. g[i + 1][n] = <<n>> \o g[(i + 1) - 1][link[n]]
          <5>1. i + 1 \in 0 .. M /\ i + 1 # 0
            BY <3>1, <3>2
          <5> HIDE DEF Words, N
          <5> QED
            BY <1>2, <3>4, <5>1
        <4> HIDE DEF N
        <4> QED
          BY <3>1, <4>1, <4>2, <4>3
      <3> QED
        BY <3>3, <3>4
    <2> HIDE DEF T
    <2>3. T = Nat
      BY <2>1, <2>2, SetInduction DEF T
    <2> QED
      BY <2>3 DEF T
  <1> DEFINE Leads(d) == \A i \in d .. M :
                 /\ Len(g[i][p[m - d + 1]]) >= d
                 /\ \A x \in 1 .. d : g[i][p[m - d + 1]][x] = p[m - d + x]
  <1>4. \A d \in 1 .. m : Leads(d)
    <2> DEFINE T == {d \in Nat : d + 1 <= m => Leads(d + 1)}
    <2>1. 0 \in T
      <3> SUFFICES ASSUME NEW i \in 1 .. M
                   PROVE  /\ Len(g[i][p[m]]) >= 1
                          /\ g[i][p[m]][1] = p[m]
        <4>1. 0 + 1 = 1 /\ m - 1 + 1 = m /\ \A x \in 1 .. 1 : x = 1 /\ m - 1 + x = m
          OBVIOUS
        <4>2. (\A i \in 1 .. M : /\ Len(g[i][p[m]]) >= 1
                                 /\ g[i][p[m]][1] = p[m]) => Leads(1)
          BY <4>1
        <4> HIDE DEF Leads
        <4> QED
          BY <4>1, <4>2
      <3>1. p[m] \in N /\ p[m] # null /\ link[p[m]] \in Words
        BY DEF Along
      <3>2. g[i][p[m]] = <<p[m]>> \o g[i - 1][link[p[m]]]
        <4>1. i \in 0 .. M /\ i # 0
          OBVIOUS
        <4> QED
          BY <1>2, <3>1, <4>1
      <3>3. g[i - 1][link[p[m]]] \in Seq(N)
        <4>1. i - 1 \in 0 .. M
          OBVIOUS
        <4> QED
          BY <1>3, <3>1, <4>1
      <3> HIDE DEF N
      <3> QED
        BY <3>1, <3>2, <3>3
    <2>2. ASSUME NEW e \in T
          PROVE  e + 1 \in T
      <3>1. e \in Nat
        OBVIOUS
      <3> SUFFICES ASSUME (e + 1) + 1 <= m, NEW i \in (e + 1) + 1 .. M
                   PROVE  /\ Len(g[i][p[m - ((e + 1) + 1) + 1]]) >= (e + 1) + 1
                          /\ \A x \in 1 .. (e + 1) + 1 :
                                g[i][p[m - ((e + 1) + 1) + 1]][x] = p[m - ((e + 1) + 1) + x]
        <4>1. e + 1 \in Nat
          BY <3>1
        <4>2. e + 1 \in T <=> ((e + 1) + 1 <= m => Leads((e + 1) + 1))
          <5> HIDE DEF Leads
          <5> QED
            BY <4>1
        <4> HIDE DEF T
        <4> QED
          BY <4>2
      <3>2. PICK d \in Nat, j \in Int, h \in Int :
               d = e + 1 /\ j = m - d /\ h = i - 1
        BY <3>1
      <3>3. /\ d >= 1 /\ d + 1 <= m /\ j \in 1 .. m - 1 /\ j + 1 = m - d + 1
            /\ j = m - ((e + 1) + 1) + 1 /\ h \in d .. M /\ h + 1 = i
            /\ i \in 0 .. M /\ i # 0 /\ h \in 0 .. M
        BY <3>1, <3>2
      <3>4. p[j] \in N /\ p[j] # null /\ link[p[j]] = p[j + 1] /\ p[j + 1] \in N
        BY <3>3 DEF Along
      <3>5. PICK r : r = g[h][p[j + 1]]
        OBVIOUS
      <3>6. Len(r) >= d /\ \A x \in 1 .. d : r[x] = p[m - d + x]
        <4>1. Leads(d)
          <5>1. e + 1 <= m
            BY <3>1
          <5> HIDE DEF Leads
          <5> QED
            BY <3>2, <5>1
        <4>2. /\ Len(g[h][p[m - d + 1]]) >= d
              /\ \A x \in 1 .. d : g[h][p[m - d + 1]][x] = p[m - d + x]
          BY <3>3, <4>1
        <4> QED
          BY <3>3, <3>5, <4>2
      <3>7. r \in Seq(N)
        BY <1>3, <3>3, <3>4, <3>5
      <3>8. g[i][p[j]] = <<p[j]>> \o r
        <4>1. g[i][p[j]] = <<p[j]>> \o g[i - 1][link[p[j]]]
          <5> HIDE DEF N
          <5> QED
            BY <1>2, <3>3, <3>4
        <4> QED
          BY <3>2, <3>4, <3>5, <4>1
      <3>9. PICK t : t = g[i][p[j]]
        OBVIOUS
      <3>10. Len(t) = Len(r) + 1 /\ t[1] = p[j] /\ \A x \in 1 .. Len(r) : t[x + 1] = r[x]
        <4> HIDE DEF N
        <4> QED
          BY <3>4, <3>7, <3>8, <3>9
      <3>11. Len(r) \in Nat
        BY <3>7, LenProperties
      <3>12. Len(t) >= d + 1
        BY <3>6, <3>10, <3>11
      <3>13. ASSUME NEW x \in 1 .. d + 1
             PROVE  t[x] = p[j - 1 + x]
        <4>1. CASE x = 1
          BY <3>3, <3>10, <4>1
        <4>2. CASE x # 1
          <5>1. PICK y \in 1 .. d : x = y + 1
            <6>1. x - 1 \in 1 .. d /\ x = (x - 1) + 1
              BY <4>2
            <6> QED
              BY <6>1
          <5>2. y \in 1 .. Len(r) /\ j - 1 + x = m - d + y
            BY <3>2, <3>6, <3>11, <5>1
          <5> QED
            BY <3>6, <3>10, <5>1, <5>2
        <4> QED
          BY <4>1, <4>2
      <3>14. \A x \in 1 .. d + 1 : j - 1 + x = m - ((e + 1) + 1) + x
        BY <3>2
      <3>15. d + 1 = (e + 1) + 1
        BY <3>2
      <3> QED
        BY <3>3, <3>9, <3>12, <3>13, <3>14, <3>15
    <2> HIDE DEF T
    <2>3. T = Nat
      BY <2>1, <2>2, SetInduction DEF T
    <2>4. ASSUME NEW d \in 1 .. m
          PROVE  Leads(d)
      <3>1. d - 1 \in Nat /\ (d - 1) + 1 = d /\ d <= m
        OBVIOUS
      <3>2. d - 1 \in T
        BY <2>3, <3>1
      <3>3. (d - 1) + 1 <= m => Leads((d - 1) + 1)
        <4> HIDE DEF Leads
        <4> QED
          BY <3>2 DEF T
      <3> HIDE DEF Leads
      <3> QED
        BY <3>1, <3>3
    <2> QED
      BY <2>4
  <1>5. m - m + 1 = 1 /\ m \in 1 .. m /\ M \in m .. M /\ \A x \in 1 .. m : m - m + x = x
    OBVIOUS
  <1>6. Len(g[M][p[1]]) >= m /\ \A x \in 1 .. m : g[M][p[1]][x] = p[x]
    BY <1>4, <1>5
  <1>7. Len(g[M][p[1]]) \in Nat
    <2>1. p[1] \in Words /\ M \in 0 .. M
      BY DEF Along
    <2>2. g[M][p[1]] \in Seq(N)
      BY <1>3, <2>1
    <2> QED
      BY <2>2, LenProperties
  <1> QED
    BY <1>1, <1>6, <1>7


-----------------------------------------------------------------------------
(* The first m nodes from a node on, whether the list ends or not            *)

IsLinked(link, null) ==
    /\ null \notin DOMAIN link
    /\ \A n \in DOMAIN link : link[n] \in DOMAIN link \union {null}

Found(g, link, null, m) ==
    \A i \in 0 .. m : \A n \in DOMAIN link \union {null} :
        /\ i = 0 \/ n = null => g[i][n] = <<>>
        /\ i # 0 /\ n # null => g[i][n] = <<n>> \o g[i - 1][link[n]]

LEMMA WalkValue ==
    ASSUME NEW link, NEW null, NEW m \in Nat, NEW g, Walk(g, link, null, m)
    PROVE  Found(g, link, null, m)
  <1> DEFINE Words == DOMAIN link \union {null}
  <1>1. g = [d \in 0 .. m |->
               [x \in Words |-> IF d = 0 \/ x = null THEN <<>>
                                ELSE <<x>> \o g[d - 1][link[x]]]]
    BY DEF Walk
  <1> HIDE DEF Words
  <1>2. \A i \in 0 .. m : \A n \in Words :
           g[i][n] = IF i = 0 \/ n = null THEN <<>> ELSE <<n>> \o g[i - 1][link[n]]
    <2> TAKE i \in 0 .. m
    <2>1. g[i] = [x \in Words |-> IF i = 0 \/ x = null THEN <<>>
                                  ELSE <<x>> \o g[i - 1][link[x]]]
      BY ONLY <1>1, i \in 0 .. m, Zenon
    <2> QED
      BY ONLY <2>1, Zenon
  <1> QED
    BY ONLY <1>2, Zenon DEF Words, Found

(* Two walks agree as far as both go.                                        *)
LEMMA WalksAgree ==
    ASSUME NEW link, NEW null, IsLinked(link, null), NEW m \in Nat, NEW j \in 0 .. m,
           NEW f, Walk(f, link, null, m), NEW g, Walk(g, link, null, j)
    PROVE  \A i \in 0 .. j : \A n \in DOMAIN link \union {null} : f[i][n] = g[i][n]
  <1> DEFINE Words == DOMAIN link \union {null}
             T == {i \in Nat : i <= j => \A n \in Words : f[i][n] = g[i][n]}
  <1>a. \A i \in 0 .. m : \A n \in Words :
           /\ i = 0 \/ n = null => f[i][n] = <<>>
           /\ i # 0 /\ n # null => f[i][n] = <<n>> \o f[i - 1][link[n]]
    <2>1. Found(f, link, null, m)
      BY WalkValue
    <2> QED
      BY <2>1 DEF Found
  <1>b. \A i \in 0 .. j : \A n \in Words :
           /\ i = 0 \/ n = null => g[i][n] = <<>>
           /\ i # 0 /\ n # null => g[i][n] = <<n>> \o g[i - 1][link[n]]
    <2>1. j \in Nat
      OBVIOUS
    <2>2. Found(g, link, null, j)
      BY <2>1, WalkValue
    <2> QED
      BY <2>2 DEF Found
  <1>1. 0 \in T
    <2>1. 0 \in 0 .. m /\ 0 \in 0 .. j
      OBVIOUS
    <2> HIDE DEF Words
    <2> QED
      BY <1>a, <1>b, <2>1
  <1>2. ASSUME NEW i \in T
        PROVE  i + 1 \in T
    <2>1. i \in Nat
      OBVIOUS
    <2> SUFFICES ASSUME i + 1 <= j, NEW n \in Words
                 PROVE  f[i + 1][n] = g[i + 1][n]
      BY <2>1
    <2>2. /\ i + 1 \in 0 .. m /\ i + 1 \in 0 .. j /\ i + 1 # 0 /\ (i + 1) - 1 = i
          /\ i <= j /\ j \in Nat
      BY <2>1
    <2>3. CASE n = null
      <3>1. f[i + 1][n] = <<>> /\ g[i + 1][n] = <<>>
        BY <2>2, <2>3, <1>a, <1>b, Zenon
      <3> QED
        BY <3>1
    <2>4. CASE n # null
      <3>1. link[n] \in Words
        BY <2>4 DEF IsLinked
      <3>2. f[i][link[n]] = g[i][link[n]]
        BY <2>2, <3>1
      <3>3. f[i + 1][n] = <<n>> \o f[(i + 1) - 1][link[n]]
        BY <2>2, <2>4, <1>a, Zenon
      <3>4. g[i + 1][n] = <<n>> \o g[(i + 1) - 1][link[n]]
        BY <2>2, <2>4, <1>b, Zenon
      <3> QED
        BY <2>2, <3>2, <3>3, <3>4
    <2> QED
      BY <2>3, <2>4
  <1> HIDE DEF T
  <1>3. T = Nat
    BY <1>1, <1>2, SetInduction DEF T
  <1> QED
    BY <1>3 DEF T

(* A walk of no step, or from null, finds nothing; any other one the node it *)
(* starts from, and what the rest of it finds.                               *)
LEMMA WalkNothing ==
    ASSUME NEW link, NEW null, NEW m \in Nat
    PROVE  /\ ListFrom(link, null, null, m) = <<>>
           /\ \A w \in DOMAIN link \union {null} : ListFrom(link, null, w, 0) = <<>>
  <1>1. ListFrom(link, null, null, m) = <<>>
    <2>1. PICK f : Walk(f, link, null, m) /\ ListFrom(link, null, null, m) = f[m][null]
      BY ListFromIsWalk
    <2>2. Found(f, link, null, m)
      BY <2>1, WalkValue
    <2>3. m \in 0 .. m /\ null \in DOMAIN link \union {null}
      OBVIOUS
    <2>4. f[m][null] = <<>>
      BY <2>2, <2>3, Zenon DEF Found
    <2> QED
      BY <2>1, <2>4
  <1>2. ASSUME NEW w \in DOMAIN link \union {null}
        PROVE  ListFrom(link, null, w, 0) = <<>>
    <2>1. PICK f : Walk(f, link, null, 0) /\ ListFrom(link, null, w, 0) = f[0][w]
      BY ListFromIsWalk
    <2>2. Found(f, link, null, 0)
      BY <2>1, WalkValue
    <2>3. f[0][w] = <<>>
      BY <2>2, 0 \in 0 .. 0, Zenon DEF Found
    <2> QED
      BY <2>1, <2>3
  <1> QED
    BY <1>1, <1>2

LEMMA WalkOn ==
    ASSUME NEW link, NEW null, IsLinked(link, null), NEW m \in Nat,
           NEW n \in DOMAIN link
    PROVE  ListFrom(link, null, n, m + 1) = <<n>> \o ListFrom(link, null, link[n], m)
  <1>1. PICK f : Walk(f, link, null, m + 1) /\ ListFrom(link, null, n, m + 1) = f[m + 1][n]
    BY ListFromIsWalk
  <1>2. PICK g : Walk(g, link, null, m) /\ ListFrom(link, null, link[n], m) = g[m][link[n]]
    BY ListFromIsWalk
  <1>3. m + 1 \in Nat /\ m \in 0 .. m + 1 /\ m \in 0 .. m /\ (m + 1) - 1 = m
        /\ m + 1 \in 0 .. m + 1 /\ m + 1 # 0
    OBVIOUS
  <1>4. n # null /\ link[n] \in DOMAIN link \union {null}
    BY DEF IsLinked
  <1>5. f[m][link[n]] = g[m][link[n]]
    BY <1>1, <1>2, <1>3, <1>4, WalksAgree
  <1>6. f[m + 1][n] = <<n>> \o f[(m + 1) - 1][link[n]]
    <2>1. Found(f, link, null, m + 1)
      BY <1>1, <1>3, WalkValue
    <2> QED
      BY <1>3, <1>4, <2>1, Zenon DEF Found
  <1> QED
    BY <1>1, <1>2, <1>3, <1>5, <1>6

(* What a walk finds is nodes.                                               *)
LEMMA WalkFindsNodes ==
    ASSUME NEW link, NEW null, IsLinked(link, null), NEW m \in Nat,
           NEW w \in DOMAIN link \union {null}
    PROVE  /\ ListFrom(link, null, w, m) \in Seq(DOMAIN link)
           /\ ToSet(ListFrom(link, null, w, m)) \subseteq DOMAIN link
  <1> DEFINE N == DOMAIN link
             Words == N \union {null}
             T == {i \in Nat : \A x \in Words : ListFrom(link, null, x, i) \in Seq(N)}
  <1>1. 0 \in T
    <2>1. <<>> \in Seq(N)
      OBVIOUS
    <2> QED
      BY <2>1, WalkNothing
  <1>2. ASSUME NEW i \in T
        PROVE  i + 1 \in T
    <2>1. i \in Nat
      OBVIOUS
    <2> SUFFICES ASSUME NEW x \in Words
                 PROVE  ListFrom(link, null, x, i + 1) \in Seq(N)
      BY <2>1
    <2>2. CASE x = null
      <3>1. <<>> \in Seq(N)
        OBVIOUS
      <3>2. ListFrom(link, null, null, i + 1) = <<>>
        BY <2>1, i + 1 \in Nat, WalkNothing
      <3> QED
        BY <2>2, <3>1, <3>2, Zenon
    <2>3. CASE x # null
      <3>1. x \in N /\ link[x] \in Words
        BY <2>3 DEF IsLinked
      <3>2. ListFrom(link, null, link[x], i) \in Seq(N)
        BY <3>1
      <3>3. ListFrom(link, null, x, i + 1) = <<x>> \o ListFrom(link, null, link[x], i)
        BY <2>1, <3>1, WalkOn
      <3>4. <<x>> \o ListFrom(link, null, link[x], i) \in Seq(N)
        BY <3>1, <3>2, PutFirst
      <3> QED
        BY <3>3, <3>4, Zenon
    <2> QED
      BY <2>2, <2>3
  <1> HIDE DEF T
  <1>3. T = Nat
    BY <1>1, <1>2, SetInduction DEF T
  <1>4. ListFrom(link, null, w, m) \in Seq(N)
    BY <1>3 DEF T
  <1> QED
    BY <1>4, InjectiveSeq

(* It finds the same as long as no link of the nodes it has found changes.   *)
LEMMA WalkKept ==
    ASSUME NEW link, NEW null, IsLinked(link, null),
           NEW after, DOMAIN after = DOMAIN link, IsLinked(after, null),
           NEW m \in Nat, NEW w \in DOMAIN link \union {null},
           \A n \in ToSet(ListFrom(link, null, w, m)) : after[n] = link[n]
    PROVE  ListFrom(after, null, w, m) = ListFrom(link, null, w, m)
  <1> DEFINE N == DOMAIN link
             Words == N \union {null}
             Same(x, i) == (\A n \in ToSet(ListFrom(link, null, x, i)) : after[n] = link[n])
                              => ListFrom(after, null, x, i) = ListFrom(link, null, x, i)
             T == {i \in Nat : \A x \in Words : Same(x, i)}
  <1>1. 0 \in T
    BY WalkNothing
  <1>2. ASSUME NEW i \in T
        PROVE  i + 1 \in T
    <2>1. i \in Nat
      OBVIOUS
    <2> SUFFICES ASSUME NEW x \in Words,
                        \A n \in ToSet(ListFrom(link, null, x, i + 1)) : after[n] = link[n]
                 PROVE  ListFrom(after, null, x, i + 1) = ListFrom(link, null, x, i + 1)
      BY <2>1
    <2>2. CASE x = null
      BY <2>1, <2>2, WalkNothing, i + 1 \in Nat
    <2>3. CASE x # null
      <3>1. x \in N /\ link[x] \in Words
        BY <2>3 DEF IsLinked
      <3>2. ListFrom(link, null, x, i + 1) = <<x>> \o ListFrom(link, null, link[x], i)
        BY <2>1, <3>1, WalkOn
      <3>3. ListFrom(after, null, x, i + 1) = <<x>> \o ListFrom(after, null, after[x], i)
        <4>1. x \in DOMAIN after
          BY <3>1
        <4> QED
          BY <2>1, <4>1, WalkOn
      <3>4. ListFrom(link, null, link[x], i) \in Seq(N)
        BY <2>1, <3>1, WalkFindsNodes
      <3>5. ToSet(ListFrom(link, null, x, i + 1)) =
               {x} \union ToSet(ListFrom(link, null, link[x], i))
        BY <3>1, <3>2, <3>4, PutFirst
      <3>6. after[x] = link[x]
        BY <3>5
      <3>7. ListFrom(after, null, link[x], i) = ListFrom(link, null, link[x], i)
        BY <3>1, <3>5
      <3> QED
        BY <3>2, <3>3, <3>6, <3>7
    <2> QED
      BY <2>2, <2>3
  <1> HIDE DEF T
  <1>3. T = Nat
    BY <1>1, <1>2, SetInduction DEF T
  <1> QED
    BY <1>3 DEF T

(* A short walk finds the first nodes of a list.                             *)
LEMMA WalkPrefix ==
    ASSUME NEW link, NEW null, IsLinked(link, null),
           NEW w, NEW s, IsListFrom(s, link, null, w), NEW m \in 0 .. Len(s)
    PROVE  /\ ListFrom(link, null, w, m) \in Seq(DOMAIN link)
           /\ Len(ListFrom(link, null, w, m)) = m
           /\ \A x \in 1 .. m : ListFrom(link, null, w, m)[x] = s[x]
  <1> DEFINE N == DOMAIN link
             First(r, x, i) == /\ Len(ListFrom(link, null, x, i)) = i
                               /\ \A k \in 1 .. i : ListFrom(link, null, x, i)[k] = r[k]
             T == {i \in Nat : \A x, r : IsListFrom(r, link, null, x) /\ i <= Len(r)
                                            => First(r, x, i)}
  <1>0. ASSUME NEW x, NEW r, IsListFrom(r, link, null, x)
        PROVE  x \in N \union {null}
    BY <1>0 DEF IsListFrom
  <1>1. 0 \in T
    <2> SUFFICES ASSUME NEW x, NEW r, IsListFrom(r, link, null, x)
                 PROVE  First(r, x, 0)
      OBVIOUS
    <2>1. ListFrom(link, null, x, 0) = <<>>
      BY <1>0, WalkNothing
    <2> QED
      BY <2>1
  <1>2. ASSUME NEW i \in T
        PROVE  i + 1 \in T
    <2>1. i \in Nat
      OBVIOUS
    <2> SUFFICES ASSUME NEW x, NEW r, IsListFrom(r, link, null, x), i + 1 <= Len(r)
                 PROVE  First(r, x, i + 1)
      BY <2>1
    <2>2. Len(r) \in Nat /\ r # <<>>
      BY <2>1, ListLength
    <2>3. /\ IsListFrom(Tail(r), link, null, link[x]) /\ x \in N
          /\ r = <<x>> \o Tail(r) /\ Len(Tail(r)) = Len(r) - 1
      BY <2>2, ListTail
    <2>4. First(Tail(r), link[x], i)
      <3>1. \A y, q : IsListFrom(q, link, null, y) /\ i <= Len(q) => First(q, y, i)
        OBVIOUS
      <3>2. i <= Len(Tail(r))
        BY <2>1, <2>2, <2>3
      <3> HIDE DEF First
      <3> QED
        BY <2>3, <3>1, <3>2, Zenon
    <2>5. ListFrom(link, null, x, i + 1) = <<x>> \o ListFrom(link, null, link[x], i)
      BY <2>1, <2>3, WalkOn
    <2>6. ListFrom(link, null, link[x], i) \in Seq(N)
      BY <2>1, <2>3, <1>0, WalkFindsNodes
    <2>7. r \in Seq(N) /\ Tail(r) \in Seq(N)
      BY <2>3 DEF IsListFrom
    <2>8. r[1] = x /\ \A k \in 2 .. i + 1 : r[k] = Tail(r)[k - 1]
      <3> HIDE DEF N
      <3> QED
        BY <2>1, <2>2, <2>3, <2>7
    <2> DEFINE q == ListFrom(link, null, link[x], i)
    <2>9. /\ Len(<<x>> \o q) = i + 1 /\ (<<x>> \o q)[1] = x
          /\ \A k \in 2 .. i + 1 : (<<x>> \o q)[k] = q[k - 1]
      <3>1. q \in Seq(N) /\ Len(q) = i
        BY <2>4, <2>6
      <3> HIDE DEF q, N
      <3> QED
        BY <2>1, <2>3, <3>1
    <2>10. \A k \in 2 .. i + 1 : k - 1 \in 1 .. i
      BY <2>1
    <2>11. \A k \in 1 .. i : q[k] = Tail(r)[k]
      BY <2>4
    <2>12. \A k \in 1 .. i + 1 : k = 1 \/ k \in 2 .. i + 1
      BY <2>1
    <2> HIDE DEF q, N
    <2>13. \A k \in 1 .. i + 1 : (<<x>> \o q)[k] = r[k]
      BY <2>8, <2>9, <2>10, <2>11, <2>12
    <2> QED
      BY <2>5, <2>9, <2>13 DEF q
  <1> HIDE DEF T
  <1>3. T = Nat
    BY <1>1, <1>2, SetInduction DEF T
  <1>4. First(s, w, m)
    <2>1. m \in T /\ m <= Len(s)
      BY <1>3, ListLength
    <2> QED
      BY <2>1 DEF T
  <1>5. ListFrom(link, null, w, m) \in Seq(N)
    BY <1>0, WalkFindsNodes, ListLength
  <1> QED
    BY <1>4, <1>5

(* The rest of a list is a list.                                             *)
LEMMA ListRest ==
    ASSUME NEW link, NEW null, NEW w, NEW s, IsListFrom(s, link, null, w),
           NEW m \in 0 .. Len(s)
    PROVE  /\ IsListFrom(SubSeq(s, m + 1, Len(s)), link, null,
                         IF m = Len(s) THEN null ELSE s[m + 1])
           /\ ToSet(SubSeq(s, m + 1, Len(s))) = {s[x] : x \in m + 1 .. Len(s)}
  <1> DEFINE N == DOMAIN link
             n == Len(s)
             r == SubSeq(s, m + 1, n)
  <1>1. /\ s \in Seq(N) /\ n \in Nat /\ m \in 0 .. n
        /\ \A x, y \in 1 .. n : s[x] = s[y] => x = y
        /\ \A x \in 1 .. n : link[s[x]] = IF x = n THEN null ELSE s[x + 1]
    <2>1. s \in Seq(N) /\ IsInjective(s)
      BY DEF IsListFrom
    <2>2. \A x, y \in 1 .. n : s[x] = s[y] => x = y
      BY <2>1, InjectiveSeq
    <2> QED
      BY <2>1, <2>2 DEF IsListFrom
  <1> HIDE DEF N, n
  <1>2. /\ r \in Seq(N) /\ Len(r) = n - m
        /\ \A x \in 1 .. n - m : r[x] = s[m + x]
    <2>1. PICK c : c = m + 1
      OBVIOUS
    <2>2. c \in Int /\ n \in Int /\ \A x \in c .. n : s[x] \in N
      <3>1. \A x \in 1 .. n : s[x] \in N
        BY <1>1, InjectiveSeq DEF n
      <3> QED
        BY <1>1, <2>1, <3>1
    <2>3. /\ SubSeq(s, c, n) \in Seq(N)
          /\ Len(SubSeq(s, c, n)) = IF c <= n THEN n - c + 1 ELSE 0
          /\ \A x \in 1 .. n - c + 1 : SubSeq(s, c, n)[x] = s[c + x - 1]
      BY <2>2, SubSeqProperties
    <2>4. r = SubSeq(s, c, n)
      BY <2>1
    <2> HIDE DEF r
    <2>5. r \in Seq(N) /\ Len(r) = n - m
      BY <1>1, <2>1, <2>3, <2>4
    <2>6. ASSUME NEW x \in 1 .. n - m
          PROVE  r[x] = s[m + x]
      <3>1. x \in 1 .. n - c + 1 /\ c + x - 1 = m + x
        BY <1>1, <2>1
      <3> QED
        BY <2>3, <2>4, <3>1
    <2> QED
      BY <2>5, <2>6
  <1> HIDE DEF r
  <1>3. r = <<>> <=> m = n
    BY <1>1, <1>2
  <1>4. IsInjective(r)
    <2>1. \A x, y \in 1 .. Len(r) : r[x] = r[y] => x = y
      <3> SUFFICES ASSUME NEW x \in 1 .. Len(r), NEW y \in 1 .. Len(r), r[x] = r[y]
                   PROVE  x = y
        OBVIOUS
      <3>1. m + x \in 1 .. n /\ m + y \in 1 .. n /\ x \in 1 .. n - m /\ y \in 1 .. n - m
        BY <1>1, <1>2
      <3>2. m + x = m + y
        BY <1>1, <1>2, <3>1
      <3> QED
        BY <1>1, <3>1, <3>2
    <2> QED
      BY <1>2, <2>1, InjectiveSeq
  <1>5. \A x \in 1 .. Len(r) : link[r[x]] = IF x = Len(r) THEN null ELSE r[x + 1]
    <2> TAKE x \in 1 .. Len(r)
    <2>1. m + x \in 1 .. n /\ x \in 1 .. n - m
      BY <1>1, <1>2
    <2>2. link[s[m + x]] = IF m + x = n THEN null ELSE s[(m + x) + 1]
      BY <1>1, <2>1
    <2>3. x # Len(r) => x + 1 \in 1 .. n - m /\ r[x + 1] = s[m + (x + 1)]
      BY <1>1, <1>2, <2>1
    <2>4. m + (x + 1) = (m + x) + 1 /\ (x = Len(r) <=> m + x = n)
      BY <1>1, <1>2, <2>1
    <2> QED
      BY <1>2, <2>1, <2>2, <2>3, <2>4
  <1>6. (IF m = n THEN null ELSE s[m + 1]) = IF r = <<>> THEN null ELSE r[1]
    <2>1. m # n => 1 \in 1 .. n - m
      BY <1>1
    <2> QED
      BY <1>2, <1>3, <2>1
  <1>7. ToSet(r) = {s[x] : x \in m + 1 .. n}
    <2>1. ToSet(r) = {r[x] : x \in 1 .. n - m}
      BY <1>2, InjectiveSeq
    <2>2. \A x \in m + 1 .. n : x - m \in 1 .. n - m /\ m + (x - m) = x
      BY <1>1
    <2>3. \A x \in 1 .. n - m : m + x \in m + 1 .. n
      BY <1>1
    <2> QED
      BY <1>2, <2>1, <2>2, <2>3
  <1>8. IsListFrom(r, link, null, IF m = n THEN null ELSE s[m + 1])
    BY <1>2, <1>4, <1>5, <1>6 DEF IsListFrom, N
  <1> QED
    BY <1>7, <1>8 DEF r, n
=============================================================================

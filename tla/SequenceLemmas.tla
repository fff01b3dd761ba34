--------------------------- MODULE SequenceLemmas ----------------------------
(***************************************************************************)
(* What the proofs need of sequences and of recursion.  Sequences without  *)
(* repetitions: the keys of an LRUCache, oldest first, and the callbacks   *)
(* of the loop; what taking out, adding and moving an element do to them.  *)
(* Induction, with sets for formulas, and functions defined by recursion:  *)
(* the loops over chunks, cells and frames of a stream.                    *)
(***************************************************************************)
EXTENDS Integers, Sequences, SequencesExt, SequenceTheorems, WellFoundedInduction, TLAPS

\* A sequence of elements of S without repetitions.
Unique(s, S) == s \in Seq(S) /\ IsInjective(s)

\* An element is added.
LEMMA AppendUnique ==
    ASSUME NEW S, NEW s, Unique(s, S), NEW e \in S, e \notin ToSet(s)
    PROVE  /\ Unique(Append(s, e), S)
           /\ ToSet(Append(s, e)) = ToSet(s) \cup {e}
           /\ Len(Append(s, e)) = Len(s) + 1 /\ Last(Append(s, e)) = e
BY SMTT(30) DEF Unique, IsInjective, ToSet, Last

\* The elements behind the first one.
LEMMA TailUnique ==
    ASSUME NEW S, NEW s, Unique(s, S), s # <<>>
    PROVE  Unique(Tail(s), S) /\ ToSet(Tail(s)) = ToSet(s) \ {Head(s)}
<1>1. /\ s \in Seq(S) /\ Len(s) \in Nat \ {0} /\ DOMAIN s = 1 .. Len(s) /\ Head(s) = s[1]
      /\ Tail(s) \in Seq(S) /\ DOMAIN Tail(s) = 1 .. Len(s) - 1
      /\ \A i \in 1 .. Len(s) - 1 : Tail(s)[i] = s[i + 1]
  BY DEF Unique
<1>2. IsInjective(Tail(s))
  BY <1>1 DEF Unique, IsInjective
<1>3. ToSet(Tail(s)) = ToSet(s) \ {Head(s)}
  <2>1. ASSUME NEW i \in 1 .. Len(s) - 1 PROVE Tail(s)[i] \in ToSet(s) \ {Head(s)}
    BY <1>1 DEF Unique, IsInjective, ToSet
  <2>2. ASSUME NEW i \in 1 .. Len(s), i # 1 PROVE s[i] \in ToSet(Tail(s))
    <3>1. i - 1 \in 1 .. Len(s) - 1 /\ Tail(s)[i - 1] = s[i]
      BY <1>1, <2>2
    <3>2. QED
      BY <1>1, <3>1 DEF ToSet
  <2>3. QED
    BY <1>1, <2>1, <2>2 DEF ToSet
<1>4. QED
  BY <1>1, <1>2, <1>3 DEF Unique

\* The element at a position is taken out.
LEMMA RemoveAtIs ==
    ASSUME NEW S, NEW s \in Seq(S), NEW i \in 1 .. Len(s)
    PROVE  LET rest == RemoveAt(s, i)
           IN  /\ rest \in Seq(S) /\ Len(rest) = Len(s) - 1
               /\ \A j \in 1 .. Len(rest) : rest[j] = IF j < i THEN s[j] ELSE s[j + 1]
               /\ Len(s) \in Nat /\ DOMAIN s = 1 .. Len(s) /\ DOMAIN rest = 1 .. Len(rest)
<1> DEFINE rest == RemoveAt(s, i)
<1> DEFINE a == SubSeq(s, 1, i - 1)
           b == SubSeq(s, i + 1, Len(s))
<1>1. s \in Seq(S) /\ Len(s) \in Nat /\ DOMAIN s = 1 .. Len(s)
  OBVIOUS
<1>2. a \in Seq(S) /\ Len(a) = i - 1 /\ \A j \in 1 .. i - 1 : a[j] = s[j]
  BY <1>1
<1>3. /\ b \in Seq(S) /\ Len(b) = Len(s) - i
      /\ \A j \in 1 .. Len(s) - i : b[j] = s[i + j]
  <2>1. \A j \in i + 1 .. Len(s) : s[j] \in S
    BY <1>1
  <2>2. i + 1 \in Int /\ Len(s) \in Int
    BY <1>1
  <2>3. /\ b \in Seq(S)
        /\ Len(b) = IF i + 1 <= Len(s) THEN Len(s) - (i + 1) + 1 ELSE 0
        /\ \A j \in 1 .. Len(s) - (i + 1) + 1 : b[j] = s[(i + 1) + j - 1]
    BY <2>1, <2>2, SubSeqProperties
  <2> HIDE DEF b
  <2>4. Len(s) - (i + 1) + 1 = Len(s) - i /\ i \in Int
    BY <1>1
  <2>5. \A j \in 1 .. Len(s) - i : (i + 1) + j - 1 = i + j
    BY <1>1
  <2>6. Len(b) = Len(s) - i
    <3>1. CASE i + 1 <= Len(s)
      BY <2>3, <2>4, <3>1
    <3>2. CASE ~(i + 1 <= Len(s))
      <4>1. i \in Int /\ Len(s) \in Int /\ i <= Len(s)
        BY <1>1
      <4>2. Len(s) - i = 0
        BY <3>2, <4>1
      <4>3. QED
        BY <2>3, <3>2, <4>2
    <3>3. QED
      BY <3>1, <3>2
  <2>7. QED
    BY <2>3, <2>4, <2>5, <2>6
<1>4. rest = a \o b
  BY DEF RemoveAt
<1> HIDE DEF a, b, rest
<1>5. /\ a \o b \in Seq(S) /\ Len(a \o b) = Len(s) - 1
      /\ \A j \in 1 .. Len(s) - 1 :
             (a \o b)[j] = IF j <= Len(a) THEN a[j] ELSE b[j - Len(a)]
  <2>1. /\ a \o b \in Seq(S) /\ Len(a \o b) = Len(a) + Len(b)
        /\ \A j \in 1 .. Len(a) + Len(b) :
               (a \o b)[j] = IF j <= Len(a) THEN a[j] ELSE b[j - Len(a)]
    BY <1>2, <1>3, ConcatProperties
  <2>2. Len(a) + Len(b) = Len(s) - 1
    BY <1>1, <1>2, <1>3
  <2>3. QED
    BY <2>1, <2>2
<1>6. \A j \in 1 .. Len(s) - 1 :
          (a \o b)[j] = IF j < i THEN s[j] ELSE s[j + 1]
  <2> TAKE j \in 1 .. Len(s) - 1
  <2>1. CASE j < i
    BY <1>1, <1>2, <1>5, <2>1
  <2>2. CASE j >= i
    <3>1. j - (i - 1) \in 1 .. Len(s) - i /\ i + (j - (i - 1)) = j + 1
      BY <1>1, <2>2
    <3>2. QED
      BY <1>1, <1>2, <1>3, <1>5, <2>2, <3>1
  <2>3. j < i \/ j >= i
    BY <1>1
  <2>4. QED
    BY <2>1, <2>2, <2>3
<1>7. DOMAIN rest = 1 .. Len(rest)
  BY <1>4, <1>5
<1>8. /\ rest \in Seq(S) /\ Len(rest) = Len(s) - 1
      /\ \A j \in 1 .. Len(rest) : rest[j] = IF j < i THEN s[j] ELSE s[j + 1]
  BY <1>4, <1>5, <1>6
<1>9. QED
  BY <1>1, <1>7, <1>8 DEF rest

LEMMA RemoveAtUnique ==
    ASSUME NEW S, NEW s, Unique(s, S), NEW i \in 1 .. Len(s)
    PROVE  Unique(RemoveAt(s, i), S) /\ ToSet(RemoveAt(s, i)) = ToSet(s) \ {s[i]}
<1> DEFINE rest == RemoveAt(s, i)
<1>1. /\ rest \in Seq(S) /\ Len(rest) = Len(s) - 1
      /\ \A j \in 1 .. Len(rest) : rest[j] = IF j < i THEN s[j] ELSE s[j + 1]
      /\ Len(s) \in Nat /\ DOMAIN s = 1 .. Len(s) /\ DOMAIN rest = 1 .. Len(rest)
  BY RemoveAtIs DEF Unique
<1> HIDE DEF rest
<1>2. Unique(rest, S)
  <2> SUFFICES ASSUME NEW j \in 1 .. Len(rest), NEW k \in 1 .. Len(rest), rest[j] = rest[k]
               PROVE  j = k
    BY <1>1 DEF Unique, IsInjective
  <2> DEFINE m(x) == IF x < i THEN x ELSE x + 1
  <2>1. /\ m(j) \in DOMAIN s /\ rest[j] = s[m(j)]
        /\ m(k) \in DOMAIN s /\ rest[k] = s[m(k)]
    BY <1>1
  <2>2. m(j) = m(k) => j = k
    BY <1>1
  <2> HIDE DEF m
  <2>3. m(j) = m(k)
    BY <2>1 DEF Unique, IsInjective
  <2>4. QED
    BY <2>2, <2>3
<1>3. ToSet(rest) = ToSet(s) \ {s[i]}
  <2>1. \A j \in 1 .. Len(rest) : rest[j] \in ToSet(s) \ {s[i]}
    <3> TAKE j \in 1 .. Len(rest)
    <3> DEFINE m == IF j < i THEN j ELSE j + 1
    <3>1. m \in DOMAIN s /\ m # i /\ rest[j] = s[m]
      BY <1>1
    <3> HIDE DEF m
    <3>2. QED
      BY <1>1, <3>1 DEF ToSet, Unique, IsInjective
  <2>2. \A j \in 1 .. Len(s) : j # i => s[j] \in ToSet(rest)
    <3> TAKE j \in 1 .. Len(s)
    <3>1. CASE j < i
      BY <1>1, <3>1 DEF ToSet
    <3>2. CASE j > i
      <4>1. j - 1 \in 1 .. Len(rest) /\ rest[j - 1] = s[j]
        BY <1>1, <3>2
      <4>2. QED
        BY <1>1, <4>1 DEF ToSet
    <3>3. QED
      BY <3>1, <3>2
  <2>3. QED
    BY <1>1, <2>1, <2>2 DEF ToSet
<1>4. QED
  BY <1>2, <1>3 DEF rest

\* An element that occurs is taken out at its position.
LEMMA RemoveFirstIs ==
    ASSUME NEW S, NEW s, Unique(s, S), NEW i \in 1 .. Len(s)
    PROVE  RemoveFirst(s, s[i]) = RemoveAt(s, i)
<1>1. {j \in 1 .. Len(s) : s[j] = s[i]} = {i}
  BY DEF Unique, IsInjective
<1>2. Min({i}) = i
  BY DEF Min
<1>3. QED
  BY <1>1, <1>2 DEF RemoveFirst, SelectInSeq

LEMMA RemoveFirstUnique ==
    ASSUME NEW S, NEW s, Unique(s, S), NEW e
    PROVE  Unique(RemoveFirst(s, e), S) /\ ToSet(RemoveFirst(s, e)) = ToSet(s) \ {e}
<1>1. CASE ~\E i \in 1 .. Len(s) : s[i] = e
  BY <1>1 DEF RemoveFirst, Unique, ToSet
<1>2. ASSUME NEW i \in 1 .. Len(s), s[i] = e
      PROVE  Unique(RemoveFirst(s, e), S) /\ ToSet(RemoveFirst(s, e)) = ToSet(s) \ {e}
  BY <1>2, RemoveFirstIs, RemoveAtUnique
<1>3. QED
  BY <1>1, <1>2

\* An element is moved to the end.
LEMMA MoveToEnd ==
    ASSUME NEW S, NEW s, Unique(s, S), NEW e \in ToSet(s)
    PROVE  LET t == Append(RemoveFirst(s, e), e)
           IN  Unique(t, S) /\ ToSet(t) = ToSet(s) /\ Len(t) > 0 /\ Last(t) = e
<1> DEFINE r == RemoveFirst(s, e)
<1>1. Unique(r, S) /\ ToSet(r) = ToSet(s) \ {e}
  BY RemoveFirstUnique
<1>2. e \in S /\ Len(r) \in Nat
  BY <1>1 DEF Unique, ToSet
<1> HIDE DEF r
<1>3. /\ Unique(Append(r, e), S) /\ ToSet(Append(r, e)) = ToSet(r) \cup {e}
      /\ Len(Append(r, e)) = Len(r) + 1 /\ Last(Append(r, e)) = e
  BY <1>1, <1>2, AppendUnique
<1>4. QED
  BY <1>1, <1>2, <1>3 DEF r
-----------------------------------------------------------------------------
(* Neighbours.                                                             *)

\* Wherever y is in s, x is right before it.
Before(s, x, y) == \A j \in 1 .. Len(s) : s[j] = y => j > 1 /\ s[j - 1] = x

\* Taking out an element parts no neighbours but its own.
LEMMA RemoveAtBefore ==
    ASSUME NEW S, NEW s \in Seq(S), NEW x, NEW y, Before(s, x, y),
           NEW i \in 1 .. Len(s), s[i] # x
    PROVE  Before(RemoveAt(s, i), x, y)
<1> DEFINE rest == RemoveAt(s, i)
<1>1. /\ Len(rest) = Len(s) - 1 /\ Len(s) \in Nat
      /\ \A j \in 1 .. Len(rest) : rest[j] = IF j < i THEN s[j] ELSE s[j + 1]
  BY RemoveAtIs
<1> HIDE DEF rest
<1>2. SUFFICES ASSUME NEW j \in 1 .. Len(rest), rest[j] = y
               PROVE  j > 1 /\ rest[j - 1] = x
  BY DEF Before, rest
<1>3. CASE j < i
  <2>1. j \in 1 .. Len(s) /\ s[j] = y
    BY <1>1, <1>2, <1>3
  <2>2. j > 1 /\ s[j - 1] = x
    BY <2>1 DEF Before
  <2>3. j - 1 \in 1 .. Len(rest) /\ j - 1 < i
    BY <1>1, <1>3, <2>2
  <2>4. QED
    BY <1>1, <2>2, <2>3
<1>4. CASE ~(j < i)
  <2>1. j + 1 \in 1 .. Len(s) /\ s[j + 1] = y /\ (j + 1) - 1 = j
    BY <1>1, <1>2, <1>4
  <2>2. s[j] = x
    BY <2>1 DEF Before
  <2>3. j # i
    BY <2>2
  <2>4. j - 1 \in 1 .. Len(rest) /\ ~(j - 1 < i) /\ (j - 1) + 1 = j
    BY <1>1, <1>4, <2>3
  <2>5. QED
    BY <1>1, <2>2, <2>4
<1>5. QED
  BY <1>3, <1>4

LEMMA RemoveFirstBefore ==
    ASSUME NEW S, NEW s, Unique(s, S), NEW x, NEW y, Before(s, x, y), NEW e, e # x
    PROVE  Before(RemoveFirst(s, e), x, y)
<1>1. CASE ~\E i \in 1 .. Len(s) : s[i] = e
  BY <1>1 DEF RemoveFirst
<1>2. ASSUME NEW i \in 1 .. Len(s), s[i] = e
      PROVE  Before(RemoveFirst(s, e), x, y)
  BY <1>2, RemoveFirstIs, RemoveAtBefore DEF Unique
<1>3. QED
  BY <1>1, <1>2

\* An element is added, another one than y or y itself behind x.
LEMMA AppendBefore ==
    ASSUME NEW S, NEW s \in Seq(S), NEW x, NEW y, Before(s, x, y), NEW e \in S,
           e = y => Len(s) > 0 /\ s[Len(s)] = x
    PROVE  Before(Append(s, e), x, y)
<1>1. /\ Len(s) \in Nat /\ Len(Append(s, e)) = Len(s) + 1
      /\ \A j \in 1 .. Len(s) : Append(s, e)[j] = s[j]
      /\ Append(s, e)[Len(s) + 1] = e
  OBVIOUS
<1> DEFINE t == Append(s, e)
<1> HIDE DEF t
<1>2. SUFFICES ASSUME NEW j \in 1 .. Len(s) + 1, t[j] = y
               PROVE  j > 1 /\ t[j - 1] = x
  BY <1>1 DEF Before, t
<1>3. CASE j <= Len(s)
  <2>1. j \in 1 .. Len(s) /\ s[j] = y
    BY <1>1, <1>2, <1>3 DEF t
  <2>2. j > 1 /\ s[j - 1] = x
    BY <2>1 DEF Before
  <2>3. j - 1 \in 1 .. Len(s)
    BY <1>1, <1>3, <2>2
  <2>4. QED
    BY <1>1, <2>2, <2>3 DEF t
<1>4. CASE j = Len(s) + 1
  <2>1. e = y
    BY <1>1, <1>2, <1>4 DEF t
  <2>2. Len(s) \in 1 .. Len(s) /\ j - 1 = Len(s) /\ j > 1
    BY <1>1, <1>4, <2>1
  <2>3. QED
    BY <1>1, <2>1, <2>2 DEF t
<1>5. QED
  BY <1>1, <1>3, <1>4

\* A sequence that is added to is the same up to there.
LEMMA AppendIs ==
    ASSUME NEW S, NEW s \in Seq(S), NEW e \in S
    PROVE  /\ Append(s, e) \in Seq(S) /\ Len(s) \in Nat /\ Len(Append(s, e)) = Len(s) + 1
           /\ DOMAIN s = 1 .. Len(s) /\ DOMAIN Append(s, e) = 1 .. Len(s) + 1
           /\ \A j \in 1 .. Len(s) : Append(s, e)[j] = s[j]
           /\ Append(s, e)[Len(s) + 1] = e
OBVIOUS

\* A sequence that is followed by another.
LEMMA ConcatIs ==
    ASSUME NEW S, NEW a \in Seq(S), NEW b \in Seq(S)
    PROVE  /\ a \o b \in Seq(S) /\ Len(a \o b) = Len(a) + Len(b) /\ Len(a) \in Nat /\ Len(b) \in Nat
           /\ \A i \in 1 .. Len(a) : (a \o b)[i] = a[i]
           /\ \A i \in 1 .. Len(b) : (a \o b)[Len(a) + i] = b[i]
OBVIOUS

LEMMA AppendTwo ==
    ASSUME NEW S, NEW s \in Seq(S), NEW d \in S, NEW e \in S
    PROVE  s \o <<d, e>> = Append(Append(s, d), e)
OBVIOUS

LEMMA FunctionSeq ==
    ASSUME NEW S, NEW n \in Nat, NEW f \in [1 .. n -> S]
    PROVE  f \in Seq(S) /\ Len(f) = n
OBVIOUS

\* A sequence is cut after n elements.
LEMMA CutSeq ==
    ASSUME NEW S, NEW b \in Seq(S), NEW n \in 0 .. Len(b)
    PROVE  /\ SubSeq(b, 1, n) \in Seq(S) /\ SubSeq(b, n + 1, Len(b)) \in Seq(S)
           /\ Len(SubSeq(b, 1, n)) = n /\ \A i \in 1 .. n : SubSeq(b, 1, n)[i] = b[i]
           /\ Len(SubSeq(b, n + 1, Len(b))) = Len(b) - n
           /\ \A i \in 1 .. Len(b) - n : SubSeq(b, n + 1, Len(b))[i] = b[n + i]
           /\ SubSeq(b, 1, n) \o SubSeq(b, n + 1, Len(b)) = b
<1>1. Len(b) \in Nat /\ n \in Nat /\ n <= Len(b)
  OBVIOUS
<1>2. /\ SubSeq(b, 1, n) \in Seq(S)
      /\ Len(SubSeq(b, 1, n)) = n /\ \A i \in 1 .. n : SubSeq(b, 1, n)[i] = b[i]
  BY <1>1
<1>3. /\ SubSeq(b, n + 1, Len(b)) \in Seq(S)
      /\ Len(SubSeq(b, n + 1, Len(b))) = Len(b) - n
      /\ \A i \in 1 .. Len(b) - n : SubSeq(b, n + 1, Len(b))[i] = b[n + i]
  <2>1. \A j \in n + 1 .. Len(b) : b[j] \in S
    BY <1>1
  <2>2. QED
    BY <1>1, <2>1
<1>4. SubSeq(b, 1, n) \o SubSeq(b, n + 1, Len(b)) = SubSeq(b, 1, Len(b))
  <2>1. 1 \in 1 .. Len(b) + 1 /\ n \in 1 - 1 .. Len(b) /\ Len(b) \in n .. Len(b)
    BY <1>1
  <2>2. QED
    BY <2>1, ConcatAdjacentSubSeq
<1>5. SubSeq(b, 1, Len(b)) = b
  BY SubSeqFull
<1>6. QED
  BY <1>2, <1>3, <1>4, <1>5

------------------------------------------------------------------------------
(* Induction and recursion.                                                *)

\* A set of naturals that is not empty has a least element.
LEMMA LeastElement ==
    ASSUME NEW T, T \subseteq Nat, T # {}
    PROVE  \E n \in T : \A m \in T : n <= m
<1> DEFINE R == {ss \in Nat \X Nat : ss[1] < ss[2]}
<1>1. IsWellFoundedOn(R, Nat)
  BY NatLessThanWellFounded DEF OpToRel
<1>2. PICK n \in T : \A m \in T : ~(<<m, n>> \in R)
  BY <1>1, WFMin, Zenon
<1>3. ASSUME NEW m \in T PROVE n <= m
  <2>1. m \in Nat /\ n \in Nat
    OBVIOUS
  <2>2. ~(m < n)
    BY <1>2, <2>1
  <2>3. QED
    BY <2>1, <2>2
<1>4. QED
  BY <1>3

\* A bounded one has a greatest.
LEMMA GreatestElement ==
    ASSUME NEW K \in Nat, NEW T, T \subseteq 0 .. K, T # {}
    PROVE  \E n \in T : \A m \in T : m <= n
<1> DEFINE U == {K - n : n \in T}
<1>1. U \subseteq Nat /\ U # {}
  <2>1. \A n \in T : K - n \in Nat
    OBVIOUS
  <2>2. QED
    BY <2>1
<1>2. PICK u \in U : \A v \in U : u <= v
  BY <1>1, LeastElement
<1>3. PICK n \in T : u = K - n
  OBVIOUS
<1>4. ASSUME NEW m \in T PROVE m <= n
  <2>1. K - m \in U
    OBVIOUS
  <2>2. u <= K - m
    BY <1>2, <2>1
  <2>3. m \in Int /\ n \in Int
    OBVIOUS
  <2>4. QED
    BY <1>3, <2>2, <2>3
<1>5. QED
  BY <1>4

\* Induction, for a set in the place of the formula.
LEMMA SetInduction ==
    ASSUME NEW S, 0 \in S, \A n \in Nat : n \in S => n + 1 \in S
    PROVE  Nat \subseteq S
<1>1. SUFFICES ASSUME {n \in Nat : n \notin S} # {} PROVE FALSE
  OBVIOUS
<1> DEFINE T == {n \in Nat : n \notin S}
<1>2. T \subseteq Nat /\ T # {}
  BY <1>1
<1>3. PICK x \in T : \A m \in T : x <= m
  BY <1>2, LeastElement
<1>4. x - 1 \in Nat /\ x - 1 \notin T
  BY <1>3
<1>5. QED
  BY <1>3, <1>4

\* Induction up to a bound.
LEMMA RangeInduction ==
    ASSUME NEW K \in Nat, NEW S, 0 \in S,
           \A n \in 0 .. K - 1 : n \in S => n + 1 \in S
    PROVE  0 .. K \subseteq S
<1> DEFINE T == {n \in Nat : n <= K => n \in S}
<1>1. 0 \in T
  OBVIOUS
<1>2. ASSUME NEW n \in Nat, n \in T PROVE n + 1 \in T
  BY <1>2
<1> HIDE DEF T
<1>3. Nat \subseteq T
  BY <1>1, <1>2, SetInduction
<1>4. QED
  BY <1>3 DEF T

\* f[n] is what n steps h[1], h[2] .. make of x.
Iterates(f, X, K, x, h) ==
    /\ f \in [0 .. K -> X]
    /\ f[0] = x
    /\ \A n \in 1 .. K : f[n] = h[n][f[n - 1]]

\* There is such a function, whatever the steps do.
LEMMA RecursiveFunction ==
    ASSUME NEW X, NEW K, NEW x, NEW h, K \in Nat, x \in X, h \in [1 .. K -> [X -> X]]
    PROVE  \E f : Iterates(f, X, K, x, h)
<1> DEFINE Good(k, f) == f[0] = x /\ \A n \in 1 .. k : f[n] = h[n][f[n - 1]]
           S == {k \in Nat : k <= K => \E f \in [0 .. k -> X] : Good(k, f)}
<1>1. 0 \in S
  <2>1. [n \in 0 .. 0 |-> x] \in [0 .. 0 -> X] /\ Good(0, [n \in 0 .. 0 |-> x])
    OBVIOUS
  <2>2. QED
    BY <2>1
<1>2. ASSUME NEW k \in Nat, k \in S PROVE k + 1 \in S
  <2>1. SUFFICES ASSUME k + 1 <= K PROVE \E f \in [0 .. k + 1 -> X] : Good(k + 1, f)
    OBVIOUS
  <2>2. PICK f \in [0 .. k -> X] : Good(k, f)
    BY <1>2, <2>1
  <2> DEFINE g == [n \in 0 .. k + 1 |-> IF n = k + 1 THEN h[k + 1][f[k]] ELSE f[n]]
  <2>3. f[k] \in X /\ k + 1 \in 1 .. K
    BY <2>1
  <2>4. h[k + 1][f[k]] \in X
    BY <2>3
  <2>5. g \in [0 .. k + 1 -> X]
    BY <2>4
  <2>6. g[0] = x
    BY <2>2
  <2>7. ASSUME NEW n \in 1 .. k + 1 PROVE g[n] = h[n][g[n - 1]]
    <3>1. CASE n = k + 1
      <4>1. n - 1 = k /\ k \in 0 .. k + 1 /\ k # k + 1
        BY <3>1
      <4>2. g[n] = h[k + 1][f[k]] /\ g[k] = f[k]
        BY <3>1, <4>1
      <4>3. QED
        BY <3>1, <4>1, <4>2
    <3>2. CASE n # k + 1
      <4>1. n \in 1 .. k /\ n - 1 \in 0 .. k + 1 /\ n - 1 # k + 1
        BY <3>2
      <4>2. g[n] = f[n] /\ g[n - 1] = f[n - 1]
        BY <4>1, <3>2
      <4>3. QED
        BY <2>2, <4>1, <4>2
    <3>3. QED
      BY <3>1, <3>2
  <2>8. QED
    BY <2>5, <2>6, <2>7
<1> HIDE DEF S
<1>3. Nat \subseteq S
  BY <1>1, <1>2, SetInduction
<1>4. K \in S
  BY <1>3
<1>5. QED
  BY <1>4 DEF S, Iterates
=============================================================================

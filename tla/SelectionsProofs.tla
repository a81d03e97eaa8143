-------------------------- MODULE SelectionsProofs --------------------------
(***************************************************************************)
(* Induction over the natural numbers for a set, and what it says of the   *)
(* function behind Kept.                                                   *)
(***************************************************************************)
EXTENDS Selections, WellFoundedInduction, SequenceTheorems, TLAPS

\* Every set of natural numbers that is not empty has a least element.
LEMMA LeastNatural ==
    ASSUME NEW T, T \subseteq Nat, T # {}
    PROVE  \E x \in T : \A y \in T : x <= y
  <1> DEFINE R == {ss \in Nat \X Nat : ss[1] < ss[2]}
  <1>1. IsWellFoundedOn(R, Nat)
    BY NatLessThanWellFounded DEF OpToRel
  <1>2. \E x \in T : \A y \in T : ~(<<y, x>> \in R)
    BY <1>1, WFMin
  <1>3. ASSUME NEW x \in T, NEW y \in T, ~(<<y, x>> \in R) PROVE x <= y
    <2>1. x \in Nat /\ y \in Nat
      OBVIOUS
    <2>2. <<y, x>> \in Nat \X Nat
      BY <2>1
    <2>3. ~(y < x)
      BY <1>3, <2>1, <2>2
    <2> QED BY <2>1, <2>3
  <1> HIDE DEF R
  <1> QED BY <1>2, <1>3

\* Induction: a set with 0 and with the successor of what it has holds every number.
LEMMA Induction ==
    ASSUME NEW S, 0 \in S, \A n \in Nat : n \in S => n + 1 \in S
    PROVE  \A n \in Nat : n \in S
  <1> DEFINE T == Nat \ S
  <1> SUFFICES ASSUME T # {} PROVE FALSE
    OBVIOUS
  <1>1. PICK x \in T : \A y \in T : x <= y
    BY LeastNatural
  <1>2. x # 0 /\ x - 1 \in Nat /\ x - 1 < x
    BY <1>1
  <1>3. x - 1 \in S
    BY <1>1, <1>2
  <1> QED BY <1>1, <1>2, <1>3

----------------------------------------------------------------------------
(* The function behind Kept: what is kept of the first i elements. *)

IsKept(g, s, T, n) ==
    g = [i \in 0..n |-> IF i = 0 THEN <<>> ELSE IF s[i] \in T THEN Append(g[i - 1], s[i]) ELSE g[i - 1]]

\* There is such a function on every initial part of the sequence.
LEMMA KeptExists ==
    ASSUME NEW s, NEW T
    PROVE  \A n \in Nat : \E g : IsKept(g, s, T, n)
  <1> DEFINE P == {n \in Nat : \E g : IsKept(g, s, T, n)}
  <1>1. 0 \in P
    <2> DEFINE g == [i \in {0} |-> <<>>]
    <2>1. 0..0 = {0}
      OBVIOUS
    <2>2. g = [i \in 0..0 |-> IF i = 0 THEN <<>> ELSE IF s[i] \in T THEN Append(g[i - 1], s[i]) ELSE g[i - 1]]
      BY <2>1
    <2>3. IsKept(g, s, T, 0)
      BY <2>2 DEF IsKept
    <2> QED BY <2>3
  <1>2. ASSUME NEW n \in Nat, n \in P PROVE n + 1 \in P
    <2>1. PICK g : IsKept(g, s, T, n)
      BY <1>2
    <2> DEFINE h == [i \in 0..(n + 1) |-> IF i <= n THEN g[i]
                                          ELSE IF s[n + 1] \in T THEN Append(g[n], s[n + 1]) ELSE g[n]]
    <2> DEFINE k == [i \in 0..(n + 1) |-> IF i = 0 THEN <<>>
                                          ELSE IF s[i] \in T THEN Append(h[i - 1], s[i]) ELSE h[i - 1]]
    <2>2. \A i \in 0..n : h[i] = g[i]
      OBVIOUS
    <2>3. \A i \in 0..n : g[i] = IF i = 0 THEN <<>> ELSE IF s[i] \in T THEN Append(g[i - 1], s[i]) ELSE g[i - 1]
      BY <2>1 DEF IsKept
    <2>4. h[n + 1] = IF s[n + 1] \in T THEN Append(g[n], s[n + 1]) ELSE g[n]
      OBVIOUS
    <2>5. DOMAIN h = 0..(n + 1)
      OBVIOUS
    <2>6. ASSUME NEW i \in 0..(n + 1) PROVE h[i] = k[i]
      <3>1. CASE i = 0
        BY <2>2, <2>3, <3>1
      <3>2. CASE i \in 1..n
        <4>1. h[i] = g[i] /\ h[i - 1] = g[i - 1]
          BY <2>2, <3>2
        <4>2. g[i] = IF s[i] \in T THEN Append(g[i - 1], s[i]) ELSE g[i - 1]
          BY <2>3, <3>2
        <4>3. k[i] = IF s[i] \in T THEN Append(h[i - 1], s[i]) ELSE h[i - 1]
          BY <3>2
        <4> HIDE DEF h, k
        <4> QED BY <4>1, <4>2, <4>3
      <3>3. CASE i = n + 1
        <4>1. h[n] = g[n]
          BY <2>2
        <4>2. k[n + 1] = IF s[n + 1] \in T THEN Append(h[n], s[n + 1]) ELSE h[n]
          OBVIOUS
        <4> HIDE DEF h, k
        <4> QED BY <2>4, <3>3, <4>1, <4>2
      <3> QED BY <3>1, <3>2, <3>3
    <2>7. h = k
      BY <2>5, <2>6
    <2>8. IsKept(h, s, T, n + 1)
      BY <2>7 DEF IsKept
    <2> QED BY <2>8
  <1>3. \A n \in Nat : n \in P
    <2> HIDE DEF P
    <2> QED BY <1>1, <1>2, Induction
  <1> QED BY <1>3

\* There is only one.
LEMMA KeptUnique ==
    ASSUME NEW s, NEW T, NEW n \in Nat, NEW g, NEW h, IsKept(g, s, T, n), IsKept(h, s, T, n)
    PROVE  g = h
  <1> DEFINE P == {m \in Nat : m <= n => g[m] = h[m]}
  <1>0. /\ DOMAIN g = 0..n /\ DOMAIN h = 0..n
        /\ \A i \in 0..n : g[i] = IF i = 0 THEN <<>> ELSE IF s[i] \in T THEN Append(g[i - 1], s[i]) ELSE g[i - 1]
        /\ \A i \in 0..n : h[i] = IF i = 0 THEN <<>> ELSE IF s[i] \in T THEN Append(h[i - 1], s[i]) ELSE h[i - 1]
        /\ g = [i \in 0..n |-> g[i]] /\ h = [i \in 0..n |-> h[i]]
    BY DEF IsKept
  <1>1. 0 \in P
    BY <1>0
  <1>2. ASSUME NEW m \in Nat, m \in P PROVE m + 1 \in P
    <2>1. CASE m + 1 <= n
      <3>1. m + 1 \in 0..n /\ m + 1 # 0 /\ (m + 1) - 1 = m /\ g[m] = h[m]
        BY <1>2, <2>1
      <3>2. /\ g[m + 1] = IF s[m + 1] \in T THEN Append(g[m], s[m + 1]) ELSE g[m]
            /\ h[m + 1] = IF s[m + 1] \in T THEN Append(h[m], s[m + 1]) ELSE h[m]
        BY <1>0, <3>1
      <3> QED BY <3>1, <3>2
    <2>2. CASE ~(m + 1 <= n)
      BY <2>2
    <2> QED BY <2>1, <2>2
  <1>3. \A m \in Nat : m \in P
    <2> HIDE DEF P
    <2> QED BY <1>1, <1>2, Induction
  <1>4. \A i \in 0..n : g[i] = h[i]
    BY <1>3
  <1> QED BY <1>0, <1>4

\* Any function of that kind on the whole sequence ends in what is kept.
LEMMA KeptIs ==
    ASSUME NEW s, Len(s) \in Nat, NEW T, NEW g, IsKept(g, s, T, Len(s))
    PROVE  Kept(s, T) = g[Len(s)]
  <1> DEFINE f == CHOOSE f : IsKept(f, s, T, Len(s))
  <1>1. IsKept(f, s, T, Len(s))
    OBVIOUS
  <1>2. f = g
    BY <1>1, KeptUnique
  <1>3. Kept(s, T) = f[Len(s)]
    BY DEF Kept, IsKept
  <1> QED BY <1>2, <1>3

----------------------------------------------------------------------------
(* What is kept is a part of the sequence, in its order. *)

Part(part, s, T, n) ==
    /\ Len(part) <= n
    /\ \A a \in 1..Len(part) : \E k \in 1..n : part[a] = s[k] /\ s[k] \in T
    /\ \A a, b \in 1..Len(part) : a < b => \E k, l \in 1..n : k < l /\ part[a] = s[k] /\ part[b] = s[l]

LEMMA PartGrows ==
    ASSUME NEW S, NEW s \in Seq(S), NEW T, NEW n \in Nat, n + 1 <= Len(s), NEW part \in Seq(S), Part(part, s, T, n)
    PROVE  /\ Part(part, s, T, n + 1)
           /\ s[n + 1] \in T => Part(Append(part, s[n + 1]), s, T, n + 1)
  <1>1. 1..n \subseteq 1..(n + 1) /\ n + 1 \in 1..(n + 1) /\ \A k \in 1..n : k < n + 1
    OBVIOUS
  <1>2. Part(part, s, T, n + 1)
    <2>1. Len(part) <= n + 1
      BY DEF Part
    <2>2. \A a \in 1..Len(part) : \E k \in 1..(n + 1) : part[a] = s[k] /\ s[k] \in T
      BY <1>1 DEF Part
    <2>3. ASSUME NEW a \in 1..Len(part), NEW b \in 1..Len(part), a < b
          PROVE  \E k, l \in 1..(n + 1) : k < l /\ part[a] = s[k] /\ part[b] = s[l]
      <3>1. PICK k \in 1..n, l \in 1..n : k < l /\ part[a] = s[k] /\ part[b] = s[l]
        BY <2>3 DEF Part
      <3>2. k \in 1..(n + 1) /\ l \in 1..(n + 1)
        BY <1>1
      <3> QED BY <3>1, <3>2
    <2> QED BY <2>1, <2>2, <2>3 DEF Part
  <1>3. ASSUME s[n + 1] \in T PROVE Part(Append(part, s[n + 1]), s, T, n + 1)
    <2> DEFINE m == Len(part)
               new == Append(part, s[n + 1])
    <2>1. /\ s[n + 1] \in S /\ m \in Nat /\ Len(new) = m + 1 /\ new[m + 1] = s[n + 1]
          /\ \A a \in 1..m : new[a] = part[a]
      OBVIOUS
    <2> HIDE DEF new, m
    <2>2. Len(new) <= n + 1
      BY <2>1 DEF Part, m
    <2>3. ASSUME NEW a \in 1..Len(new) PROVE \E k \in 1..(n + 1) : new[a] = s[k] /\ s[k] \in T
      <3>1. CASE a \in 1..m
        <4>1. PICK k \in 1..n : part[a] = s[k] /\ s[k] \in T
          BY <3>1 DEF Part, m
        <4>2. k \in 1..(n + 1) /\ new[a] = s[k]
          BY <1>1, <2>1, <3>1, <4>1
        <4> QED BY <4>1, <4>2
      <3>2. CASE a = m + 1
        BY <1>1, <1>3, <2>1, <3>2
      <3> QED BY <2>1, <3>1, <3>2
    <2>4. ASSUME NEW a \in 1..Len(new), NEW b \in 1..Len(new), a < b
          PROVE  \E k, l \in 1..(n + 1) : k < l /\ new[a] = s[k] /\ new[b] = s[l]
      <3>1. a \in 1..m
        BY <2>1, <2>4
      <3>2. CASE b \in 1..m
        <4>1. PICK k \in 1..n, l \in 1..n : k < l /\ part[a] = s[k] /\ part[b] = s[l]
          BY <2>4, <3>1, <3>2 DEF Part, m
        <4>2. k \in 1..(n + 1) /\ l \in 1..(n + 1) /\ new[a] = s[k] /\ new[b] = s[l]
          BY <1>1, <2>1, <3>1, <3>2, <4>1
        <4> QED BY <4>1, <4>2
      <3>3. CASE b = m + 1
        <4>1. PICK k \in 1..n : part[a] = s[k]
          BY <3>1 DEF Part, m
        <4>2. new[a] = s[k] /\ new[b] = s[n + 1] /\ k < n + 1
          BY <2>1, <3>1, <3>3, <4>1
        <4> QED BY <1>1, <4>2
      <3> QED BY <2>1, <3>2, <3>3
    <2> QED BY <2>2, <2>3, <2>4 DEF Part, new
  <1> QED BY <1>2, <1>3

LEMMA KeptParts ==
    ASSUME NEW S, NEW s \in Seq(S), NEW T, NEW g, IsKept(g, s, T, Len(s))
    PROVE  \A i \in 0..Len(s) : g[i] \in Seq(S) /\ Part(g[i], s, T, i)
  <1> DEFINE P == {i \in Nat : i <= Len(s) => g[i] \in Seq(S) /\ Part(g[i], s, T, i)}
  <1>0. /\ Len(s) \in Nat
        /\ \A i \in 0..Len(s) : g[i] = IF i = 0 THEN <<>> ELSE IF s[i] \in T THEN Append(g[i - 1], s[i]) ELSE g[i - 1]
    <2>1. PICK n : n = Len(s)
      OBVIOUS
    <2>2. IsKept(g, s, T, n)
      BY <2>1
    <2>3. \A i \in 0..n : g[i] = IF i = 0 THEN <<>> ELSE IF s[i] \in T THEN Append(g[i - 1], s[i]) ELSE g[i - 1]
      BY <2>2 DEF IsKept
    <2> QED BY <2>1, <2>3
  <1>1. 0 \in P
    <2>1. g[0] = <<>>
      BY <1>0
    <2>2. <<>> \in Seq(S) /\ Part(<<>>, s, T, 0)
      BY DEF Part
    <2> QED BY <2>1, <2>2
  <1>2. ASSUME NEW i \in Nat, i \in P PROVE i + 1 \in P
    <2> SUFFICES ASSUME i + 1 <= Len(s) PROVE g[i + 1] \in Seq(S) /\ Part(g[i + 1], s, T, i + 1)
      OBVIOUS
    <2>1. g[i] \in Seq(S) /\ Part(g[i], s, T, i)
      BY <1>0, <1>2
    <2>2. i + 1 \in 0..Len(s) /\ i + 1 # 0 /\ (i + 1) - 1 = i /\ i + 1 \in 1..Len(s)
      BY <1>0
    <2>3. g[i + 1] = IF s[i + 1] \in T THEN Append(g[i], s[i + 1]) ELSE g[i]
      BY <1>0, <2>2
    <2>4. s[i + 1] \in S
      BY <2>2
    <2>5. /\ Part(g[i], s, T, i + 1)
          /\ s[i + 1] \in T => Part(Append(g[i], s[i + 1]), s, T, i + 1)
      BY <2>1, PartGrows
    <2>6. Append(g[i], s[i + 1]) \in Seq(S)
      BY <2>1, <2>4
    <2> QED BY <2>1, <2>3, <2>5, <2>6
  <1>3. \A i \in Nat : i \in P
    <2> HIDE DEF P
    <2> QED BY <1>1, <1>2, Induction
  <1> QED BY <1>0, <1>3

\* The elements that are kept are elements of the sequence and of the set, in their order.
LEMMA KeptPart ==
    ASSUME NEW S, NEW s \in Seq(S), NEW T
    PROVE  /\ Kept(s, T) \in Seq(S)
           /\ Part(Kept(s, T), s, T, Len(s))
  <1>1. Len(s) \in Nat /\ Len(s) \in 0..Len(s)
    OBVIOUS
  <1>2. PICK g : IsKept(g, s, T, Len(s))
    BY <1>1, KeptExists
  <1>3. Kept(s, T) = g[Len(s)]
    BY <1>1, <1>2, KeptIs
  <1> QED BY <1>1, <1>2, <1>3, KeptParts

\* One more element is kept or passed by.
LEMMA KeptAppend ==
    ASSUME NEW S, NEW s \in Seq(S), NEW T, NEW x \in S
    PROVE  Kept(Append(s, x), T) = IF x \in T THEN Append(Kept(s, T), x) ELSE Kept(s, T)
  <1> DEFINE n == Len(s)
             sx == Append(s, x)
  <1>1. n \in Nat /\ Len(sx) = n + 1 /\ sx[n + 1] = x /\ \A i \in 1..n : sx[i] = s[i]
    OBVIOUS
  <1> HIDE DEF n, sx
  <1>2. PICK g : IsKept(g, sx, T, n + 1)
    <2>1. n + 1 \in Nat
      BY <1>1
    <2> QED BY <2>1, KeptExists
  <1>3. \A i \in 0..(n + 1) : g[i] = IF i = 0 THEN <<>> ELSE IF sx[i] \in T THEN Append(g[i - 1], sx[i]) ELSE g[i - 1]
    BY <1>2 DEF IsKept
  <1> DEFINE h == [i \in 0..n |-> g[i]]
             k == [i \in 0..n |-> IF i = 0 THEN <<>> ELSE IF s[i] \in T THEN Append(h[i - 1], s[i]) ELSE h[i - 1]]
  <1>4. ASSUME NEW i \in 0..n PROVE h[i] = k[i]
    <2>1. CASE i = 0
      BY <1>1, <1>3, <2>1
    <2>2. CASE i # 0
      <3>1. i \in 1..n /\ i \in 0..(n + 1) /\ i - 1 \in 0..n
        BY <1>1, <2>2
      <3>2. h[i] = g[i] /\ h[i - 1] = g[i - 1] /\ sx[i] = s[i]
        BY <1>1, <3>1
      <3>3. g[i] = IF sx[i] \in T THEN Append(g[i - 1], sx[i]) ELSE g[i - 1]
        BY <1>3, <2>2, <3>1
      <3>4. k[i] = IF s[i] \in T THEN Append(h[i - 1], s[i]) ELSE h[i - 1]
        BY <2>2
      <3> HIDE DEF h, k
      <3> QED BY <3>2, <3>3, <3>4
    <2> QED BY <2>1, <2>2
  <1>5. h = k
    BY <1>4
  <1>6. IsKept(h, s, T, n)
    BY <1>5 DEF IsKept
  <1>7. Kept(s, T) = h[n]
    BY <1>1, <1>6, KeptIs DEF n
  <1>8. h[n] = g[n]
    BY <1>1
  <1>9. Kept(sx, T) = g[n + 1]
    BY <1>1, <1>2, KeptIs
  <1>10. g[n + 1] = IF x \in T THEN Append(g[n], x) ELSE g[n]
    BY <1>1, <1>3
  <1> QED BY <1>7, <1>8, <1>9, <1>10 DEF sx

LEMMA KeptEmpty ==
    ASSUME NEW T
    PROVE  Kept(<<>>, T) = <<>>
  <1>1. Len(<<>>) = 0
    OBVIOUS
  <1>2. PICK g : IsKept(g, <<>>, T, 0)
    BY KeptExists
  <1>3. g[0] = <<>>
    BY <1>2 DEF IsKept
  <1> QED BY <1>1, <1>2, <1>3, KeptIs

\* A list with elements is a shorter one and a last element.
LEMMA LastElement ==
    ASSUME NEW S, NEW c \in Seq(S), NEW n \in Nat, Len(c) = n + 1
    PROVE  \E front \in Seq(S), x \in S : c = Append(front, x) /\ Len(front) = n
  <1> DEFINE front == [i \in 1..n |-> c[i]]
             x == c[n + 1]
  <1>1. \A i \in 1..(n + 1) : c[i] \in S
    OBVIOUS
  <1>2. front \in Seq(S) /\ Len(front) = n /\ x \in S
    BY <1>1
  <1>3. \A i \in 1..n : front[i] = c[i]
    OBVIOUS
  <1> HIDE DEF front
  <1>4. c = Append(front, x)
    BY <1>2, <1>3
  <1> QED BY <1>2, <1>4

\* Two lists in a row.
LEMMA KeptConcat ==
    ASSUME NEW S, NEW a \in Seq(S), NEW b \in Seq(S), NEW T
    PROVE  Kept(a \o b, T) = Kept(a, T) \o Kept(b, T)
  <1> DEFINE P == {n \in Nat : \A c \in Seq(S) : Len(c) = n => Kept(a \o c, T) = Kept(a, T) \o Kept(c, T)}
  <1>0. Kept(a, T) \in Seq(S)
    BY KeptPart
  <1>1. 0 \in P
    <2> SUFFICES ASSUME NEW c \in Seq(S), Len(c) = 0 PROVE Kept(a \o c, T) = Kept(a, T) \o Kept(c, T)
      OBVIOUS
    <2>1. c = <<>> /\ a \o c = a
      OBVIOUS
    <2>2. Kept(a, T) \o <<>> = Kept(a, T)
      BY <1>0
    <2> QED BY <2>1, <2>2, KeptEmpty
  <1>2. ASSUME NEW n \in Nat, n \in P PROVE n + 1 \in P
    <2> SUFFICES ASSUME NEW c \in Seq(S), Len(c) = n + 1 PROVE Kept(a \o c, T) = Kept(a, T) \o Kept(c, T)
      OBVIOUS
    <2>1. PICK front \in Seq(S), x \in S : c = Append(front, x) /\ Len(front) = n
      BY LastElement
    <2>2. Kept(a \o front, T) = Kept(a, T) \o Kept(front, T)
      BY <1>2, <2>1
    <2>3. a \o c = Append(a \o front, x) /\ a \o front \in Seq(S)
      BY <2>1
    <2>4. Kept(a \o c, T) = IF x \in T THEN Append(Kept(a \o front, T), x) ELSE Kept(a \o front, T)
      <3>1. PICK both \in Seq(S) : both = a \o front
        BY <2>3
      <3>2. Kept(Append(both, x), T) = IF x \in T THEN Append(Kept(both, T), x) ELSE Kept(both, T)
        BY KeptAppend
      <3> QED BY <2>3, <3>1, <3>2
    <2>5. Kept(c, T) = IF x \in T THEN Append(Kept(front, T), x) ELSE Kept(front, T)
      BY <2>1, KeptAppend
    <2>6. Kept(front, T) \in Seq(S)
      BY KeptPart
    <2>7. Append(Kept(a, T) \o Kept(front, T), x) = Kept(a, T) \o Append(Kept(front, T), x)
      BY <1>0, <2>6
    <2> QED BY <2>2, <2>4, <2>5, <2>7
  <1>3. \A n \in Nat : n \in P
    <2> HIDE DEF P
    <2> QED BY <1>1, <1>2, Induction
  <1>4. Len(b) \in Nat
    OBVIOUS
  <1> QED BY <1>3, <1>4

LEMMA KeptOfTwo == \A S, T : \A a, b \in Seq(S) : Kept(a \o b, T) = Kept(a, T) \o Kept(b, T)
  BY KeptConcat

\* Everything, and nothing.
LEMMA KeptAll ==
    ASSUME NEW S, NEW s \in Seq(S), NEW T, S \subseteq T
    PROVE  Kept(s, T) = s
  <1> DEFINE P == {n \in Nat : \A c \in Seq(S) : Len(c) = n => Kept(c, T) = c}
  <1>1. 0 \in P
    <2>1. \A c \in Seq(S) : Len(c) = 0 => c = <<>>
      OBVIOUS
    <2> QED BY <2>1, KeptEmpty
  <1>2. ASSUME NEW n \in Nat, n \in P PROVE n + 1 \in P
    <2> SUFFICES ASSUME NEW c \in Seq(S), Len(c) = n + 1 PROVE Kept(c, T) = c
      OBVIOUS
    <2>1. PICK front \in Seq(S), x \in S : c = Append(front, x) /\ Len(front) = n
      BY LastElement
    <2>2. Kept(front, T) = front
      BY <1>2, <2>1
    <2>3. x \in T
      OBVIOUS
    <2> QED BY <2>1, <2>2, <2>3, KeptAppend
  <1>3. \A n \in Nat : n \in P
    <2> HIDE DEF P
    <2> QED BY <1>1, <1>2, Induction
  <1> QED BY <1>3

LEMMA KeptNone ==
    ASSUME NEW S, NEW s \in Seq(S), NEW T, S \cap T = {}
    PROVE  Kept(s, T) = <<>>
  <1>1. Kept(s, T) \in Seq(S) /\ Part(Kept(s, T), s, T, Len(s))
    BY KeptPart
  <1>2. \A k \in 1..Len(s) : s[k] \notin T
    OBVIOUS
  <1>3. 1..Len(Kept(s, T)) = {}
    BY <1>1, <1>2 DEF Part
  <1> QED BY <1>1, <1>3, SMTT(30)

\* Without its first element, a list keeps the same or all but the first.
LEMMA KeptTail ==
    ASSUME NEW S, NEW s \in Seq(S), s # <<>>, NEW T
    PROVE  /\ Kept(Tail(s), T) \in Seq(S)
           /\ \E d \in {0, 1} :
                /\ Len(Kept(s, T)) = Len(Kept(Tail(s), T)) + d
                /\ \A j \in 1..Len(Kept(Tail(s), T)) : Kept(Tail(s), T)[j] = Kept(s, T)[j + d]
  <1>1. PICK h \in S : h = s[1]
    OBVIOUS
  <1>2. PICK t : t = Tail(s) /\ t \in Seq(S)
    <2>1. Tail(s) \in Seq(S)
      BY HeadTailProperties
    <2> QED BY <2>1
  <1>3. PICK one : one = <<h>> /\ one \in Seq(S)
    <2>1. <<h>> \in Seq(S)
      OBVIOUS
    <2> QED BY <2>1
  <1>4. s = one \o t
    BY <1>1, <1>2, <1>3
  <1>5. Kept(s, T) = Kept(one, T) \o Kept(t, T)
    BY <1>4, KeptConcat
  <1>6. Kept(one, T) = IF h \in T THEN <<h>> ELSE <<>>
    <2>1. PICK e : e = <<>> /\ e \in Seq(S) /\ Kept(e, T) = e
      <3>1. <<>> \in Seq(S) /\ Kept(<<>>, T) = <<>>
        BY KeptEmpty
      <3> QED BY <3>1
    <2>2. one = Append(e, h)
      BY <1>3, <2>1
    <2>3. Kept(Append(e, h), T) = IF h \in T THEN Append(Kept(e, T), h) ELSE Kept(e, T)
      <3>1. e \in Seq(S) /\ h \in S
        BY <1>1, <2>1
      <3> QED BY <3>1, KeptAppend
    <2> QED BY <1>3, <2>1, <2>2, <2>3
  <1>7. PICK k : k = Kept(t, T) /\ k \in Seq(S)
    BY <1>2, KeptPart
  <1>8. CASE h \in T
    <2>1. Kept(s, T) = <<h>> \o k
      BY <1>5, <1>6, <1>7, <1>8
    <2>2. Len(<<h>> \o k) = Len(k) + 1 /\ \A j \in 1..Len(k) : (<<h>> \o k)[j + 1] = k[j]
      OBVIOUS
    <2> QED BY <1>2, <1>7, <2>1, <2>2
  <1>9. CASE h \notin T
    <2>1. Kept(s, T) = <<>> \o k
      BY <1>5, <1>6, <1>7, <1>9
    <2>2. <<>> \o k = k
      OBVIOUS
    <2>3. Len(k) = Len(k) + 0 /\ \A j \in 1..Len(k) : k[j + 0] = k[j]
      OBVIOUS
    <2> QED BY <1>2, <1>7, <2>1, <2>2, <2>3
  <1> QED BY <1>8, <1>9
=============================================================================

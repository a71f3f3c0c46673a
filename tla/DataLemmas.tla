----------------------------- MODULE DataLemmas -----------------------------
(* Facts about sequences and about residues that the proofs about queues   *)
(* and streams, and about counters and pages, share.                       *)
EXTENDS Integers, Sequences, SequenceTheorems, WellFoundedInduction, TLAPS

\* Taking the first element of t and putting it behind s.
LEMMA MoveHead ==
    ASSUME NEW S, NEW s \in Seq(S), NEW t \in Seq(S), t # <<>>
    PROVE  Append(s, t[1]) \o SubSeq(t, 2, Len(t)) = s \o t
<1>1. t[1] = Head(t) /\ SubSeq(t, 2, Len(t)) = Tail(t)
  OBVIOUS
<1>2. Append(s, Head(t)) \o Tail(t) = s \o t
  OBVIOUS
<1> QED BY <1>1, <1>2

\* Overwriting the last element of the second of two sequences.
LEMMA ExceptLast ==
    ASSUME NEW S, NEW s \in Seq(S), NEW t \in Seq(S), NEW u \in Seq(S), NEW w \in Seq(S),
           Len(t) > 0, Len(u) = Len(t), Len(w) = Len(s) + Len(t),
           \A i \in 1 .. Len(t) - 1 : u[i] = t[i],
           \A i \in 1 .. Len(w) - 1 : w[i] = (s \o t)[i],
           u[Len(t)] = w[Len(w)]
    PROVE  s \o u = w
<1> DEFINE v == s \o u
           z == s \o t
<1>1. Len(s) \in Nat /\ Len(t) \in Nat OBVIOUS
<1>2. /\ v \in Seq(S) /\ Len(v) = Len(w)
      /\ \A i \in 1 .. Len(w) : v[i] = IF i <= Len(s) THEN s[i] ELSE u[i - Len(s)]
  <2>1. Len(w) = Len(s) + Len(u) OBVIOUS
  <2>2. v \in Seq(S) /\ Len(v) = Len(s) + Len(u) BY ConcatProperties
  <2>3. \A i \in 1 .. Len(s) + Len(u) : v[i] = IF i <= Len(s) THEN s[i] ELSE u[i - Len(s)]
    OBVIOUS
  <2> HIDE DEF v
  <2> QED BY <2>1, <2>2, <2>3
<1>3. \A i \in 1 .. Len(w) : z[i] = IF i <= Len(s) THEN s[i] ELSE t[i - Len(s)]
  OBVIOUS
<1>4. \A i \in 1 .. Len(w) - 1 : w[i] = z[i]
  OBVIOUS
<1> HIDE DEF v, z
<1>5. ASSUME NEW i \in 1 .. Len(w) PROVE v[i] = w[i]
  <2>1. CASE i = Len(w)
    BY <2>1, <1>1, <1>2
  <2>2. CASE i <= Len(w) - 1
    <3>1. i <= Len(s) \/ i - Len(s) \in 1 .. Len(t) - 1
      BY <2>2, <1>1
    <3>2. w[i] = IF i <= Len(s) THEN s[i] ELSE t[i - Len(s)]
      BY <2>2, <1>1, <1>3, <1>4
    <3>3. v[i] = IF i <= Len(s) THEN s[i] ELSE u[i - Len(s)]
      BY <1>2
    <3> QED BY <3>1, <3>2, <3>3
  <2> QED BY <2>1, <2>2
<1>6. v = w
  BY <1>2, <1>5, SeqEqual
<1> QED BY <1>6 DEF v

\* The elements of a concatenation.
LEMMA ConcatElements ==
    ASSUME NEW S, NEW s \in Seq(S), NEW t \in Seq(S)
    PROVE  /\ s \o t \in Seq(S) /\ Len(s \o t) = Len(s) + Len(t)
           /\ \A i \in 1 .. Len(s) + Len(t) : (s \o t)[i] = IF i <= Len(s) THEN s[i] ELSE t[i - Len(s)]
OBVIOUS

\* A sequence is its first n elements and the others.
LEMMA Halves ==
    ASSUME NEW S, NEW t \in Seq(S), NEW n \in 0 .. Len(t)
    PROVE  /\ SubSeq(t, 1, n) \in Seq(S) /\ Len(SubSeq(t, 1, n)) = n
           /\ SubSeq(t, n + 1, Len(t)) \in Seq(S) /\ Len(SubSeq(t, n + 1, Len(t))) = Len(t) - n
           /\ SubSeq(t, 1, n) \o SubSeq(t, n + 1, Len(t)) = t
<1> DEFINE x == SubSeq(t, 1, n)
           y == SubSeq(t, n + 1, Len(t))
           l == Len(t)
<1>0. l \in Nat /\ n \in Nat /\ n <= l OBVIOUS
<1>1. x \in Seq(S) /\ Len(x) = n /\ \A i \in 1 .. n : x[i] = t[i] OBVIOUS
<1>2. y \in Seq(S) /\ Len(y) = l - n OBVIOUS
<1>3. \A i \in 1 .. l - n : y[i] = t[n + i] OBVIOUS
<1> HIDE DEF x, y
<1>4. x \o y \in Seq(S) /\ Len(x \o y) = Len(x) + Len(y) BY <1>1, <1>2
<1>5. \A i \in 1 .. Len(x) + Len(y) : (x \o y)[i] = IF i <= Len(x) THEN x[i] ELSE y[i - Len(x)]
   BY <1>1, <1>2
<1> DEFINE z == x \o y
<1>6. z \in Seq(S) /\ Len(z) = l
   BY <1>0, <1>1, <1>2, <1>4
<1>7. \A i \in 1 .. l : z[i] = IF i <= n THEN x[i] ELSE y[i - n]
   BY <1>0, <1>1, <1>2, <1>5
<1> HIDE DEF z
<1>8. \A i \in 1 .. l : z[i] = t[i]
  <2> HIDE DEF l
  <2> SUFFICES ASSUME NEW i \in 1 .. l PROVE z[i] = t[i] OBVIOUS
  <2>1. CASE i <= n BY <1>0, <1>1, <1>7, <2>1
  <2>2. CASE ~(i <= n)
    <3>1. i - n \in 1 .. l - n /\ n + (i - n) = i BY <1>0, <2>2
    <3>2. y[i - n] = t[i] BY <1>3, <3>1
    <3> QED BY <1>7, <2>2, <3>2
  <2> QED BY <2>1, <2>2
<1>9. z = t BY <1>6, <1>8, SeqEqual
<1> QED BY <1>1, <1>2, <1>9 DEF x, y, z

\* The first n elements of t moved behind s.
LEMMA MoveFront ==
    ASSUME NEW S, NEW s \in Seq(S), NEW t \in Seq(S), NEW n \in 0 .. Len(t)
    PROVE  (s \o SubSeq(t, 1, n)) \o SubSeq(t, n + 1, Len(t)) = s \o t
<1> DEFINE x == SubSeq(t, 1, n)
           y == SubSeq(t, n + 1, Len(t))
<1>1. x \in Seq(S) /\ y \in Seq(S) /\ x \o y = t BY Halves
<1> HIDE DEF x, y
<1>2. (s \o x) \o y = s \o (x \o y)
  <2>1. x \in Seq(S) BY <1>1
  <2>2. y \in Seq(S) BY <1>1
  <2> QED BY ONLY <2>1, <2>2, s \in Seq(S), ConcatAssociative
<1> QED BY <1>1, <1>2 DEF x, y

\* Appending to the second of two sequences.
LEMMA AppendConcat ==
    ASSUME NEW S, NEW s \in Seq(S), NEW t \in Seq(S), NEW e \in S
    PROVE  s \o Append(t, e) = Append(s \o t, e)
OBVIOUS

-----------------------------------------------------------------------------
(* Residues.                                                               *)

LEMMA DivMod ==
    ASSUME NEW a \in Int, NEW n \in Nat \ {0}
    PROVE  /\ a \div n \in Int /\ a % n \in 0 .. n - 1
           /\ a = n * (a \div n) + (a % n)
<1>1. a \div n \in Int OBVIOUS
<1>2. a % n \in 0 .. n - 1 OBVIOUS
<1>3. a = n * (a \div n) + (a % n) OBVIOUS
<1> QED BY <1>1, <1>2, <1>3

LEMMA MulDistr ==
    ASSUME NEW n \in Int, NEW a \in Int, NEW b \in Int
    PROVE  /\ n * (a + b) = n * a + n * b /\ n * (a - b) = n * a - n * b
           /\ n * a \in Int
OBVIOUS

LEMMA NoMultipleBetween ==
    ASSUME NEW n \in Nat \ {0}, NEW k \in Int, n * k < n, -n < n * k
    PROVE  k = 0
<1>1. CASE k >= 1
  <2>1. n * k >= n BY <1>1
  <2> QED BY <2>1
<1>2. CASE k <= -1
  <2>1. n * k <= -n BY <1>2
  <2> QED BY <2>1
<1> QED BY <1>1, <1>2

\* The residue of a number is the only one.
LEMMA ModUnique ==
    ASSUME NEW n \in Nat \ {0}, NEW a \in Int, NEW q \in Int, NEW r \in 0 .. n - 1,
           a = n * q + r
    PROVE  a % n = r /\ a \div n = q
<1> DEFINE d == a \div n
           m == a % n
<1>1. d \in Int /\ m \in 0 .. n - 1 /\ a = n * d + m
  BY DivMod
<1> HIDE DEF d, m
<1>2. n * (q - d) = n * q - n * d /\ n * (q - d) \in Int /\ n * q \in Int /\ n * d \in Int
  BY <1>1, MulDistr
<1>3. n * (q - d) = m - r
  BY <1>1, <1>2
<1>4. q - d = 0
  BY <1>1, <1>3, NoMultipleBetween
<1>5. q = d BY <1>1, <1>4
<1> QED BY <1>1, <1>3, <1>5, <1>2 DEF d, m

\* Numbers that differ by a multiple of n have the same residue.
LEMMA ModShift ==
    ASSUME NEW n \in Nat \ {0}, NEW a \in Int, NEW k \in Int
    PROVE  (a + n * k) % n = a % n
<1> DEFINE d == a \div n
           m == a % n
<1>1. d \in Int /\ m \in 0 .. n - 1 /\ a = n * d + m
  BY DivMod
<1> HIDE DEF d, m
<1>2. n * (d + k) = n * d + n * k /\ n * k \in Int /\ n * d \in Int
  BY <1>1, MulDistr
<1>3. a + n * k = n * (d + k) + m /\ a + n * k \in Int /\ d + k \in Int
  BY <1>1, <1>2
<1>4. (a + n * k) % n = m
  BY <1>1, <1>3, ModUnique
<1> QED BY <1>4 DEF m

\* A residue may stand for its number in a sum.
LEMMA ModSum ==
    ASSUME NEW n \in Nat \ {0}, NEW a \in Int, NEW b \in Int
    PROVE  /\ ((a % n) + b) % n = (a + b) % n
           /\ (b + (a % n)) % n = (a + b) % n
           /\ (b - (a % n)) % n = (b - a) % n
<1> DEFINE d == a \div n
           m == a % n
<1>1. d \in Int /\ m \in 0 .. n - 1 /\ a = n * d + m
  BY DivMod
<1> HIDE DEF d, m
<1>2. n * d \in Int /\ n * (-d) = -(n * d) /\ n * (-d) \in Int
  BY <1>1
<1>3. ((m + b) + n * d) % n = (m + b) % n
  <2>1. m + b \in Int BY <1>1
  <2> QED BY <1>1, <2>1, ModShift
<1>4. (m + b) + n * d = a + b
  BY <1>1, <1>2
<1>5. ((b - m) + n * (-d)) % n = (b - m) % n
  <2>1. b - m \in Int /\ -d \in Int BY <1>1
  <2> QED BY <2>1, ModShift
<1>6. (b - m) + n * (-d) = b - a
  BY <1>1, <1>2
<1>7. b + m = m + b BY <1>1
<1> QED BY <1>3, <1>4, <1>5, <1>6, <1>7 DEF m

\* One step forward, and one back, on the circle.
LEMMA ModStep ==
    ASSUME NEW n \in Nat \ {0}, NEW a \in Int
    PROVE  /\ (a + 1) % n = IF a % n = n - 1 THEN 0 ELSE (a % n) + 1
           /\ (a - 1) % n = IF a % n = 0 THEN n - 1 ELSE (a % n) - 1
<1> DEFINE d == a \div n
           m == a % n
<1>1. d \in Int /\ m \in 0 .. n - 1 /\ a = n * d + m
  BY DivMod
<1> HIDE DEF d, m
<1>2. /\ n * (d + 1) = n * d + n /\ n * (d - 1) = n * d - n
      /\ n * d \in Int /\ n * (d + 1) \in Int /\ n * (d - 1) \in Int
  BY <1>1
<1>5. (a + 1) % n = IF m = n - 1 THEN 0 ELSE m + 1
  <2>1. CASE m = n - 1
    <3>1. a + 1 = n * (d + 1) + 0 /\ a + 1 \in Int /\ d + 1 \in Int /\ 0 \in 0 .. n - 1
      BY <1>1, <1>2, <2>1
    <3>2. (a + 1) % n = 0 BY <3>1, ModUnique
    <3> QED BY <2>1, <3>2
  <2>2. CASE m # n - 1
    <3>1. a + 1 = n * d + (m + 1) /\ m + 1 \in 0 .. n - 1 /\ a + 1 \in Int
      BY <1>1, <1>2, <2>2
    <3>2. (a + 1) % n = m + 1 BY <1>1, <3>1, ModUnique
    <3> QED BY <2>2, <3>2
  <2> QED BY <2>1, <2>2
<1>6. (a - 1) % n = IF m = 0 THEN n - 1 ELSE m - 1
  <2>1. CASE m = 0
    <3>1. a - 1 = n * (d - 1) + (n - 1) /\ a - 1 \in Int /\ d - 1 \in Int /\ n - 1 \in 0 .. n - 1
      BY <1>1, <1>2, <2>1
    <3>2. (a - 1) % n = n - 1 BY <3>1, ModUnique
    <3> QED BY <2>1, <3>2
  <2>2. CASE m # 0
    <3>1. a - 1 = n * d + (m - 1) /\ m - 1 \in 0 .. n - 1 /\ a - 1 \in Int
      BY <1>1, <1>2, <2>2
    <3>2. (a - 1) % n = m - 1 BY <1>1, <3>1, ModUnique
    <3> QED BY <2>2, <3>2
  <2> QED BY <2>1, <2>2
<1> QED BY <1>5, <1>6 DEF m

\* Numbers less than a lap above or below zero.
LEMMA ModSmall ==
    ASSUME NEW n \in Nat \ {0}, NEW a \in Int
    PROVE  /\ a \in 0 .. n - 1 => a % n = a
           /\ a \in -n .. -1 => a % n = a + n
<1>1. ASSUME a \in 0 .. n - 1 PROVE a % n = a
  <2>1. a = n * 0 + a OBVIOUS
  <2> QED BY <1>1, <2>1, ModUnique
<1>2. ASSUME a \in -n .. -1 PROVE a % n = a + n
  <2>1. a = n * (-1) + (a + n) /\ a + n \in 0 .. n - 1 BY <1>2
  <2> QED BY <2>1, ModUnique
<1> QED BY <1>1, <1>2

\* Division rounds down.
LEMMA DivGalois ==
    ASSUME NEW n \in Nat \ {0}, NEW x \in Int, NEW k \in Int
    PROVE  k <= x \div n <=> n * k <= x
<1> DEFINE d == x \div n
           m == x % n
<1>1. d \in Int /\ m \in 0 .. n - 1 BY DivMod
<1>2. x = n * d + m BY DivMod
<1> HIDE DEF d, m
<1>3. n * d \in Int /\ n * k \in Int BY <1>1
<1>4. CASE k <= d
  <2>1. n * k <= n * d BY <1>1, <1>4
  <2> QED BY <1>1, <1>2, <1>3, <1>4, <2>1 DEF d
<1>5. CASE k >= d + 1
  <2>1. n * k >= n * (d + 1) BY <1>1, <1>5
  <2>2. n * (d + 1) = n * d + n BY <1>1
  <2>3. ~(n * k <= x) BY <1>1, <1>2, <1>3, <2>1, <2>2
  <2> QED BY <1>1, <1>5, <2>3 DEF d
<1> QED BY <1>1, <1>4, <1>5

\* A residue is not above its number.
LEMMA ModLe ==
    ASSUME NEW n \in Nat \ {0}, NEW a \in Nat
    PROVE  a % n <= a
<1>1. a \div n \in Int /\ a % n \in 0 .. n - 1 BY DivMod
<1>2. a = n * (a \div n) + (a % n) BY DivMod
<1>3. n * 0 <= a => 0 <= a \div n BY DivGalois
<1>4. 0 <= a \div n BY <1>3
<1>5. n * (a \div n) >= 0 /\ n * (a \div n) \in Int BY <1>1, <1>4
<1> QED BY <1>1, <1>2, <1>5

\* Equal residues.
LEMMA ModEqual ==
    ASSUME NEW n \in Nat \ {0}, NEW a \in Int, NEW b \in Int, a % n = b % n
    PROVE  \E k \in Int : a = b + n * k
<1> DEFINE d == a \div n
           e == b \div n
           m == a % n
<1>1. d \in Int /\ e \in Int /\ m \in Int BY DivMod
<1>2. a = n * d + m BY DivMod
<1>3. b = n * e + m BY DivMod
<1> HIDE DEF d, e, m
<1>4. n * (d - e) = n * d - n * e /\ n * d \in Int /\ n * e \in Int /\ d - e \in Int
  BY <1>1
<1>5. a = b + n * (d - e)
  BY <1>1, <1>2, <1>3, <1>4
<1> QED BY <1>4, <1>5

\* Residues of residues, for a divisor of the modulus.
LEMMA ModMod ==
    ASSUME NEW n \in Nat \ {0}, NEW w \in Nat \ {0}, w % n = 0, NEW a \in Int
    PROVE  (a % w) % n = a % n
<1> DEFINE c == w \div n
           d == a \div w
           m == a % w
<1>1. c \in Int /\ d \in Int /\ m \in Int BY DivMod
<1>2. w = n * c + (w % n) BY DivMod
<1>3. a = w * d + m BY DivMod
<1> HIDE DEF c, d, m
<1>4. w * d = n * (c * d) /\ c * d \in Int /\ n * (c * d) \in Int
  <2>1. w = n * c BY <1>1, <1>2
  <2>2. n * c * d = n * (c * d) BY <1>1
  <2> QED BY <1>1, <2>1, <2>2
<1>5. a = m + n * (c * d)
  BY <1>1, <1>3, <1>4
<1>6. (m + n * (c * d)) % n = m % n
  BY <1>1, <1>4, ModShift
<1> QED BY <1>5, <1>6 DEF m

\* A set of naturals has a least element.
LEMMA LeastNatural ==
  ASSUME NEW S, S \subseteq Nat, S # {}
  PROVE  \E i \in S : \A j \in S : i <= j
<1> DEFINE R == {ss \in Nat \X Nat : ss[1] < ss[2]}
<1>1. IsWellFoundedOn(R, Nat)
  BY NatLessThanWellFounded DEF OpToRel
<1> HIDE DEF R
<1>2. \E i \in S : \A j \in S : ~(<<j, i>> \in R)
  BY <1>1, WFMin
<1>3. \A i \in S, j \in S : ~(<<j, i>> \in R) => i <= j
  BY DEF R
<1> QED BY <1>2, <1>3

=============================================================================

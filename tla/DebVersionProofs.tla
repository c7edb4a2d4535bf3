---------------------------- MODULE DebVersionProofs ----------------------------
(***************************************************************************)
(* The comparison of versions is the order of the policy, for versions of  *)
(* any length.                                                             *)
(*                                                                         *)
(* Three recursions meet: the loop over two strings (VerRevComp), the      *)
(* parts of a string (Parts) and the number a run of digits is (Number).   *)
(* Of each it is shown first that a function obeys it; then that runs of   *)
(* digits compare as their numbers; then, by induction on what is left of  *)
(* both strings, that from every pair of places on the loop agrees with    *)
(* the order of the parts that are left.  All of it rests on the least     *)
(* number of a set (MinIsLeast).                                           *)
(***************************************************************************)
EXTENDS DebVersionProps, SequenceTheorems, WellFoundedInduction, TLAPS

-----------------------------------------------------------------------------
(* The least of a set of numbers is one of them. *)
LEMMA MinIsLeast ==
    ASSUME NEW S, S \subseteq Nat, S # {}
    PROVE  Min(S) \in S /\ \A j \in S : Min(S) <= j
<1>1. PICK i \in S : \A j \in S : <<j, i>> \notin OpToRel(<, Nat)
  BY WFMin, NatLessThanWellFounded, Zenon
<1>2. \A j \in S : ~(j < i)
  BY <1>1, Zenon DEF OpToRel
<1>3. \A j \in S : i <= j
  BY <1>2
<1> QED
  BY <1>3 DEF Min

(* Induction, for a set of numbers. *)
LEMMA NatInduct ==
    ASSUME NEW S \in SUBSET Nat, 0 \in S, \A n \in S : n + 1 \in S
    PROVE  S = Nat
<1> SUFFICES ASSUME Nat \ S # {} PROVE FALSE
  OBVIOUS
<1> DEFINE m == Min(Nat \ S)
<1>1. m \in Nat \ S /\ \A n \in Nat \ S : m <= n
  BY MinIsLeast
<1> HIDE DEF m
<1>2. m # 0 /\ m - 1 \in Nat
  BY <1>1
<1>3. m - 1 \in S
  BY <1>1, <1>2
<1>4. (m - 1) + 1 = m
  BY <1>1
<1> QED
  BY <1>1, <1>3, <1>4

(* Where the loop over the characters in S stops. *)
LEMMA PastStops ==
    ASSUME NEW S, NEW s \in Seq(Nat), NEW i \in 1..(Len(s) + 1)
    PROVE  /\ Past(S, s, i) \in i..(Len(s) + 1)
           /\ Past(S, s, i) <= Len(s) => s[Past(S, s, i)] \notin S
           /\ \A k \in i..(Past(S, s, i) - 1) : s[k] \in S
<1> DEFINE stops == {k \in i..(Len(s) + 1) : k > Len(s) \/ s[k] \notin S}
<1>1. Len(s) \in Nat
  OBVIOUS
<1>2. stops \subseteq Nat /\ Len(s) + 1 \in stops
  BY <1>1
<1>3. Min(stops) \in stops /\ \A k \in stops : Min(stops) <= k
  BY <1>2, MinIsLeast
<1>4. Past(S, s, i) = Min(stops)
  BY DEF Past
<1> HIDE DEF stops
<1>5. Min(stops) \in i..(Len(s) + 1)
      /\ (Min(stops) > Len(s) \/ s[Min(stops)] \notin S)
  BY <1>3 DEF stops
<1>6. ASSUME NEW k \in i..(Min(stops) - 1) PROVE s[k] \in S
  <2>1. k \notin stops
    BY <1>1, <1>3, <1>5
  <2> QED
    BY <1>1, <1>5, <2>1 DEF stops
<1> QED
  BY <1>1, <1>4, <1>5, <1>6

LEMMA PastIn ==
    ASSUME NEW S, NEW s \in Seq(Nat), NEW i \in 1..(Len(s) + 1)
    PROVE  /\ Past(S, s, i) \in 1..(Len(s) + 1)
           /\ i <= Past(S, s, i)
<1>1. Past(S, s, i) \in i..(Len(s) + 1)
  BY PastStops
<1>2. Len(s) \in Nat
  OBVIOUS
<1> HIDE DEF Past
<1> QED
  BY <1>1, <1>2

LEMMA PastIs ==
    ASSUME NEW S, NEW s \in Seq(Nat), NEW i \in 1..(Len(s) + 1),
           NEW x \in i..(Len(s) + 1), x <= Len(s) => s[x] \notin S,
           \A k \in i..(x - 1) : s[k] \in S
    PROVE  Past(S, s, i) = x
<1>1. Len(s) \in Nat
  OBVIOUS
<1>2. ~(Past(S, s, i) < x)
  BY <1>1, PastStops
<1>3. ~(x < Past(S, s, i))
  BY <1>1, PastStops
<1>4. Past(S, s, i) \in i..(Len(s) + 1)
  BY PastStops
<1> HIDE DEF Past
<1> QED
  BY <1>1, <1>2, <1>3, <1>4

-----------------------------------------------------------------------------
Places(a, b) == (1..(Len(a) + 1)) \X (1..(Len(b) + 1))

Step(a, b, g, i, j) ==
    IF i > Len(a) /\ j > Len(b) THEN 0
    ELSE IF \/ i <= Len(a) /\ a[i] \notin Digits
            \/ j <= Len(b) /\ b[j] \notin Digits
    THEN IF OrderAt(a, i) # OrderAt(b, j)
         THEN OrderAt(a, i) - OrderAt(b, j)
         ELSE g[<<i + 1, j + 1>>]
    ELSE IF CompareNumbers(a, b, i, j) # 0 THEN CompareNumbers(a, b, i, j)
         ELSE g[<<Past(Digits, a, i), Past(Digits, b, j)>>]

IsFrom(a, b, g) == g = [ij \in Places(a, b) |-> Step(a, b, g, ij[1], ij[2])]

From(a, b) == CHOOSE g : IsFrom(a, b, g)

LEMMA VerRevCompIsFrom ==
    ASSUME NEW a, NEW b PROVE VerRevComp(a, b) = From(a, b)[<<1, 1>>]
BY Zenon DEF VerRevComp, From, IsFrom, Step, Places

LEMMA OrderOfDigit == ASSUME NEW c, c \in Digits PROVE Order(c) = 0
BY DEF Order, Digits, Letters, Tilde

LEMMA OrderNonzero ==
    ASSUME NEW c \in Nat, c \notin Digits
    PROVE  Order(c) \in Int /\ Order(c) # 0 /\ Order(c) = Weight(c)
<1>1. CASE c \in Letters
  <2>1. Order(c) = c /\ c # 0 /\ Weight(c) = c
    BY <1>1 DEF Order, Weight, Letters, Digits, Tilde
  <2> QED
    BY <2>1
<1>2. CASE c = Tilde
  <2>1. Order(c) = -1 /\ Weight(c) = -1
    BY <1>2 DEF Order, Weight, Letters, Digits, Tilde
  <2> QED
    BY <2>1
<1>3. CASE c \notin Letters /\ c # Tilde
  <2>1. Order(c) = c + 256 /\ Weight(c) = 256 + c
    BY <1>3 DEF Order, Weight
  <2> QED
    BY <2>1
<1> QED
  BY <1>1, <1>2, <1>3

LEMMA OrderAtSays ==
    ASSUME NEW s \in Seq(Nat), NEW i \in 1..(Len(s) + 1)
    PROVE  /\ OrderAt(s, i) \in Int
           /\ OrderAt(s, i) # 0 <=> i <= Len(s) /\ s[i] \notin Digits
           /\ i <= Len(s) /\ s[i] \notin Digits => OrderAt(s, i) = Weight(s[i])
<1>1. Len(s) \in Nat /\ (i <= Len(s) => s[i] \in Nat)
  OBVIOUS
<1>2. CASE i <= Len(s) /\ s[i] \notin Digits
  BY <1>1, <1>2, OrderNonzero DEF OrderAt
<1>3. CASE i <= Len(s) /\ s[i] \in Digits
  <2>1. OrderAt(s, i) = Order(s[i])
    BY <1>3 DEF OrderAt
  <2>2. Order(s[i]) = 0
    BY <1>3, OrderOfDigit
  <2> QED
    BY <1>3, <2>1, <2>2
<1>4. CASE ~(i <= Len(s))
  BY <1>4 DEF OrderAt
<1> QED
  BY <1>1, <1>2, <1>3, <1>4

(* What is left of both strings. *)
Left(a, b, i, j) == Len(a) + Len(b) + 2 - i - j

LEMMA LeftIsNat ==
    ASSUME NEW a \in Seq(Nat), NEW b \in Seq(Nat),
           NEW i \in 1..(Len(a) + 1), NEW j \in 1..(Len(b) + 1)
    PROVE  Left(a, b, i, j) \in Nat
<1>1. Len(a) \in Nat /\ Len(b) \in Nat
  OBVIOUS
<1> QED
  BY <1>1 DEF Left

LEMMA LeftFalls ==
    ASSUME NEW a \in Seq(Nat), NEW b \in Seq(Nat),
           NEW i \in 1..(Len(a) + 1), NEW j \in 1..(Len(b) + 1)
    PROVE  /\ Left(a, b, i, j) \in Nat
           /\ /\ OrderAt(a, i) = OrderAt(b, j)
              /\ \/ i <= Len(a) /\ a[i] \notin Digits
                 \/ j <= Len(b) /\ b[j] \notin Digits
              => /\ i <= Len(a) /\ j <= Len(b)
                 /\ a[i] \notin Digits /\ b[j] \notin Digits
           /\ /\ ~(i > Len(a) /\ j > Len(b))
              /\ i <= Len(a) => a[i] \in Digits
              /\ j <= Len(b) => b[j] \in Digits
              => Left(a, b, Past(Digits, a, i), Past(Digits, b, j)) < Left(a, b, i, j)
<1>1. Len(a) \in Nat /\ Len(b) \in Nat
  OBVIOUS
<1>2. Left(a, b, i, j) \in Nat
  BY <1>1 DEF Left
<1>3. ASSUME \/ i <= Len(a) /\ a[i] \notin Digits
             \/ j <= Len(b) /\ b[j] \notin Digits,
             OrderAt(a, i) = OrderAt(b, j)
      PROVE  /\ i <= Len(a) /\ j <= Len(b)
             /\ a[i] \notin Digits /\ b[j] \notin Digits
  BY <1>3, OrderAtSays
<1>4. ASSUME ~(i > Len(a) /\ j > Len(b)),
             i <= Len(a) => a[i] \in Digits,
             j <= Len(b) => b[j] \in Digits
      PROVE  Left(a, b, Past(Digits, a, i), Past(Digits, b, j)) < Left(a, b, i, j)
  <2>1. Past(Digits, a, i) \in i..(Len(a) + 1) /\ Past(Digits, b, j) \in j..(Len(b) + 1)
    BY PastStops
  <2>2. (i <= Len(a) => Past(Digits, a, i) # i) /\ (j <= Len(b) => Past(Digits, b, j) # j)
    BY <1>4, PastStops
  <2> HIDE DEF Past
  <2> QED
    BY <1>1, <1>4, <2>1, <2>2 DEF Left
<1> QED
  BY <1>2, <1>3, <1>4

-----------------------------------------------------------------------------
(* The recursion over both strings is well-founded: there is a function     *)
(* that obeys it.  Otherwise the least number of characters left for which *)
(* there is none could be had by adding one place to those before. *)
UpTo(a, b, n, g) ==
    \A i \in 1..(Len(a) + 1), j \in 1..(Len(b) + 1) :
        Left(a, b, i, j) < n => g[<<i, j>>] = Step(a, b, g, i, j)

SameUpTo(a, b, n, g, h) ==
    \A i \in 1..(Len(a) + 1), j \in 1..(Len(b) + 1) :
        Left(a, b, i, j) < n => g[<<i, j>>] = h[<<i, j>>]

LEMMA StepUses ==
    ASSUME NEW a \in Seq(Nat), NEW b \in Seq(Nat), NEW n \in Nat, NEW g, NEW h,
           SameUpTo(a, b, n, g, h),
           NEW i \in 1..(Len(a) + 1), NEW j \in 1..(Len(b) + 1), Left(a, b, i, j) <= n
    PROVE  Step(a, b, g, i, j) = Step(a, b, h, i, j)
<1> DEFINE plain == \/ i <= Len(a) /\ a[i] \notin Digits
                    \/ j <= Len(b) /\ b[j] \notin Digits
           k == Past(Digits, a, i)
           l == Past(Digits, b, j)
<1>1. Len(a) \in Nat /\ Len(b) \in Nat
  OBVIOUS
<1>2. CASE i > Len(a) /\ j > Len(b)
  BY <1>2 DEF Step
<1>3. CASE ~(i > Len(a) /\ j > Len(b)) /\ plain
  <2>1. ASSUME OrderAt(a, i) = OrderAt(b, j)
        PROVE  g[<<i + 1, j + 1>>] = h[<<i + 1, j + 1>>]
    <3>1. i <= Len(a) /\ j <= Len(b)
      BY <1>3, <2>1, LeftFalls
    <3>2. i + 1 \in 1..(Len(a) + 1) /\ j + 1 \in 1..(Len(b) + 1)
          /\ Left(a, b, i + 1, j + 1) < n
      BY <1>1, <3>1 DEF Left
    <3> QED
      BY <3>2 DEF SameUpTo
  <2> QED
    BY <1>3, <2>1 DEF Step
<1>4. CASE ~(i > Len(a) /\ j > Len(b)) /\ ~plain
  <2>1. k \in 1..(Len(a) + 1) /\ l \in 1..(Len(b) + 1)
    BY PastIn
  <2>2. Left(a, b, k, l) < Left(a, b, i, j)
    BY <1>4, LeftFalls
  <2> HIDE DEF k, l
  <2>3. Left(a, b, k, l) < n
    BY <1>1, <2>1, <2>2 DEF Left
  <2>4. g[<<k, l>>] = h[<<k, l>>]
    BY <2>1, <2>3 DEF SameUpTo
  <2> QED
    BY <1>4, <2>4 DEF Step, k, l
<1> QED
  BY <1>2, <1>3, <1>4

LEMMA UpToAll ==
    ASSUME NEW a \in Seq(Nat), NEW b \in Seq(Nat), NEW n \in Nat
    PROVE  \E g : UpTo(a, b, n, g)
<1> DEFINE bad == {m \in Nat : ~\E g : UpTo(a, b, m, g)}
<1> SUFFICES ASSUME bad # {} PROVE FALSE
  OBVIOUS
<1>1. Min(bad) \in bad /\ \A m \in bad : Min(bad) <= m
  BY MinIsLeast
<1> DEFINE m == Min(bad)
<1>2. m \in Nat /\ ~(\E g : UpTo(a, b, m, g))
  BY <1>1
<1>8. ASSUME NEW x \in Nat, x < m PROVE \E g : UpTo(a, b, x, g)
  <2>1. x \in bad => m <= x
    BY <1>1
  <2> HIDE DEF m
  <2>2. x \notin bad
    BY <1>2, <1>8, <2>1
  <2> QED
    BY <2>2
<1> HIDE DEF bad, m
<1>3. m # 0
  <2>1. ASSUME m = 0 PROVE UpTo(a, b, m, <<>>)
    BY <2>1, LeftFalls DEF UpTo
  <2> QED
    BY <1>2, <2>1
<1>4. PICK g : UpTo(a, b, m - 1, g)
  BY <1>2, <1>3, <1>8
<1> DEFINE h == [ij \in Places(a, b) |->
                    IF Left(a, b, ij[1], ij[2]) < m - 1 THEN g[ij]
                    ELSE Step(a, b, g, ij[1], ij[2])]
<1>5. \A i \in 1..(Len(a) + 1), j \in 1..(Len(b) + 1) :
         h[<<i, j>>] = IF Left(a, b, i, j) < m - 1 THEN g[<<i, j>>] ELSE Step(a, b, g, i, j)
  BY DEF Places
<1> HIDE DEF h
<1>6. ASSUME NEW i \in 1..(Len(a) + 1), NEW j \in 1..(Len(b) + 1), Left(a, b, i, j) < m
      PROVE  h[<<i, j>>] = Step(a, b, h, i, j)
  <2>1. m - 1 \in Nat /\ Left(a, b, i, j) <= m - 1
    BY <1>2, <1>3, <1>6, LeftFalls
  <2> DEFINE x == m - 1
  <2>4. SameUpTo(a, b, x, g, h)
    BY <1>5 DEF SameUpTo
  <2> HIDE DEF x
  <2>5. x \in Nat /\ Left(a, b, i, j) <= x
    BY <2>1 DEF x
  <2>2. Step(a, b, g, i, j) = Step(a, b, h, i, j)
    BY <2>4, <2>5, StepUses
  <2>3. h[<<i, j>>] = Step(a, b, g, i, j)
    BY <1>4, <1>5 DEF UpTo
  <2> QED
    BY <2>2, <2>3
<1>7. UpTo(a, b, m, h)
  BY <1>6 DEF UpTo
<1> QED
  BY <1>2, <1>7

(* What the loop yields from a place on. *)
LEMMA FromSteps ==
    ASSUME NEW a \in Seq(Nat), NEW b \in Seq(Nat),
           NEW i \in 1..(Len(a) + 1), NEW j \in 1..(Len(b) + 1)
    PROVE  From(a, b)[<<i, j>>] = Step(a, b, From(a, b), i, j)
<1>1. Len(a) + Len(b) + 1 \in Nat
  OBVIOUS
<1>2. PICK g : UpTo(a, b, Len(a) + Len(b) + 1, g)
  BY <1>1, UpToAll
<1> DEFINE h == [ij \in Places(a, b) |-> g[ij]]
<1>3. \A k \in 1..(Len(a) + 1), l \in 1..(Len(b) + 1) :
         h[<<k, l>>] = g[<<k, l>>] /\ Left(a, b, k, l) < Len(a) + Len(b) + 1
  BY DEF Places, Left
<1>4. ASSUME NEW k \in 1..(Len(a) + 1), NEW l \in 1..(Len(b) + 1)
      PROVE  Step(a, b, g, k, l) = Step(a, b, h, k, l)
  <2> DEFINE n == Len(a) + Len(b) + 1
  <2>1. SameUpTo(a, b, n, g, h)
    BY <1>3 DEF SameUpTo
  <2>2. n \in Nat /\ Left(a, b, k, l) <= n
    BY <1>1 DEF Left
  <2> HIDE DEF n, h
  <2> QED
    BY <2>1, <2>2, StepUses
<1>5. \A k \in 1..(Len(a) + 1), l \in 1..(Len(b) + 1) : g[<<k, l>>] = Step(a, b, h, k, l)
  BY <1>2, <1>3, <1>4 DEF UpTo
<1>6. ASSUME NEW kl \in Places(a, b) PROVE g[kl] = Step(a, b, h, kl[1], kl[2])
  <2>1. PICK k \in 1..(Len(a) + 1), l \in 1..(Len(b) + 1) : kl = <<k, l>>
    BY DEF Places
  <2>2. kl[1] = k /\ kl[2] = l
    BY <2>1
  <2> HIDE DEF h
  <2> QED
    BY <1>5, <2>1, <2>2
<1>7. h = [kl \in Places(a, b) |-> Step(a, b, h, kl[1], kl[2])]
  BY <1>6
<1>8. IsFrom(a, b, From(a, b))
  BY <1>7 DEF IsFrom, From
<1>9. <<i, j>> \in Places(a, b)
  BY DEF Places
<1> HIDE DEF h
<1> QED
  BY <1>8, <1>9 DEF IsFrom

-----------------------------------------------------------------------------
(* The number that some digits stand for. *)
IsCount(s, i, f) ==
    f = [k \in i..(Len(s) + 1) |-> IF k = i THEN 0 ELSE 10 * f[k - 1] + s[k - 1] - Zero]

Count(s, i) == CHOOSE f : IsCount(s, i, f)

LEMMA NumberIsCount ==
    ASSUME NEW s, NEW i, NEW j PROVE Number(s, i, j) = Count(s, i)[j]
BY Zenon DEF Number, Count, IsCount

LEMMA CountUpTo ==
    ASSUME NEW s \in Seq(Nat), NEW i \in 1..(Len(s) + 1), NEW n \in Nat
    PROVE  \E f : /\ f \in [i..(Len(s) + 1) -> Int]
                  /\ \A k \in i..(Len(s) + 1) : k <= i + n =>
                        f[k] = IF k = i THEN 0 ELSE 10 * f[k - 1] + s[k - 1] - Zero
<1> DEFINE D == i..(Len(s) + 1)
           Good(m, f) == \A k \in D : k <= i + m =>
                            f[k] = IF k = i THEN 0 ELSE 10 * f[k - 1] + s[k - 1] - Zero
           S == {m \in Nat : \E f \in [D -> Int] : Good(m, f)}
<1>1. Len(s) \in Nat /\ \A k \in 1..Len(s) : s[k] \in Nat
  OBVIOUS
<1>2. 0 \in S
  <2>1. [k \in D |-> 0] \in [D -> Int] /\ Good(0, [k \in D |-> 0])
    BY <1>1
  <2> QED
    BY <2>1
<1>3. ASSUME NEW m \in S PROVE m + 1 \in S
  <2>1. PICK f \in [D -> Int] : Good(m, f)
    OBVIOUS
  <2> DEFINE v == 10 * f[i + m] + s[i + m] - Zero
             h == [k \in D |-> IF k = i + m + 1 THEN v ELSE f[k]]
  <2>2. CASE i + m + 1 \in D
    <3>1. i + m \in D /\ i + m \in 1..Len(s) /\ m \in Nat
      BY <1>1, <2>2
    <3>6. f[i + m] \in Int /\ s[i + m] \in Nat
      BY <1>1, <2>1, <3>1
    <3>2. v \in Int
      BY <3>6 DEF Zero
    <3> HIDE DEF v
    <3>3. h \in [D -> Int]
      BY <3>2
    <3>4. ASSUME NEW k \in D, k <= i + (m + 1)
          PROVE  h[k] = IF k = i THEN 0 ELSE 10 * h[k - 1] + s[k - 1] - Zero
      <4>1. CASE k = i + m + 1
        <5>1. h[k] = v /\ k - 1 = i + m /\ k # i
          BY <3>1, <4>1
        <5>2. h[k - 1] = f[i + m]
          BY <3>1, <5>1
        <5> HIDE DEF h
        <5> QED
          BY <5>1, <5>2 DEF v
      <4>2. CASE k # i + m + 1
        <5>1. k <= i + m /\ h[k] = f[k]
          BY <3>1, <3>4, <4>2
        <5>2. k # i => k - 1 \in D /\ k - 1 # i + m + 1
          BY <1>1, <3>1, <5>1
        <5>3. k # i => h[k - 1] = f[k - 1]
          BY <5>2
        <5> HIDE DEF h
        <5> QED
          BY <2>1, <5>1, <5>3
      <4> QED
        BY <4>1, <4>2
    <3>5. Good(m + 1, h)
      BY <3>4
    <3> HIDE DEF Good, h, D
    <3> QED
      BY <3>1, <3>3, <3>5
  <2>3. CASE i + m + 1 \notin D
    <3>1. m \in Nat
      OBVIOUS
    <3>2. \A k \in D : k <= i + (m + 1) => k <= i + m
      BY <1>1, <2>3, <3>1
    <3>3. Good(m + 1, f)
      BY <2>1, <3>2
    <3> HIDE DEF Good, D
    <3> QED
      BY <2>1, <3>1, <3>3
  <2> QED
    BY <2>2, <2>3
<1>4. S \in SUBSET Nat
  OBVIOUS
<1> HIDE DEF S
<1>5. S = Nat
  BY <1>2, <1>3, <1>4, NatInduct
<1>6. n \in S
  BY <1>5
<1> QED
  BY <1>6 DEF S

LEMMA NumberSteps ==
    ASSUME NEW s \in Seq(Nat), NEW i \in 1..(Len(s) + 1)
    PROVE  /\ \A k \in i..(Len(s) + 1) : Number(s, i, k) \in Int
           /\ Number(s, i, i) = 0
           /\ \A k \in i..Len(s) : Number(s, i, k + 1) = 10 * Number(s, i, k) + s[k] - Zero
<1>1. Len(s) \in Nat
  OBVIOUS
<1> DEFINE D == i..(Len(s) + 1)
<1>2. PICK f : /\ f \in [D -> Int]
               /\ \A k \in D : k <= i + Len(s) =>
                     f[k] = IF k = i THEN 0 ELSE 10 * f[k - 1] + s[k - 1] - Zero
  BY <1>1, CountUpTo
<1>3. \A k \in D : f[k] = IF k = i THEN 0 ELSE 10 * f[k - 1] + s[k - 1] - Zero
  BY <1>1, <1>2
<1>4. f = [k \in D |-> IF k = i THEN 0 ELSE 10 * f[k - 1] + s[k - 1] - Zero]
  BY <1>2, <1>3
<1>5. IsCount(s, i, Count(s, i))
  BY <1>4 DEF IsCount, Count
<1> DEFINE g == Count(s, i)
<1>6. g = [k \in D |-> IF k = i THEN 0 ELSE 10 * g[k - 1] + s[k - 1] - Zero]
  BY <1>5 DEF IsCount
<1> HIDE DEF g
<1>7. \A k \in D : g[k] = IF k = i THEN 0 ELSE 10 * g[k - 1] + s[k - 1] - Zero
  BY <1>6
<1>8. g[i] = 0
  BY <1>1, <1>7
<1>9. \A k \in i..Len(s) : g[k + 1] = 10 * g[k] + s[k] - Zero
  <2> SUFFICES ASSUME NEW k \in i..Len(s) PROVE g[k + 1] = 10 * g[k] + s[k] - Zero
    OBVIOUS
  <2>1. k + 1 \in D /\ k + 1 # i /\ (k + 1) - 1 = k
    BY <1>1
  <2> QED
    BY <1>7, <2>1
<1>10. ASSUME NEW k \in D PROVE g[k] \in Int
  <2> DEFINE S == {m \in Nat : i + m \in D => g[i + m] \in Int}
  <2>1. 0 \in S
    BY <1>8
  <2>2. ASSUME NEW m \in S PROVE m + 1 \in S
    <3>1. m \in Nat /\ (i + m \in D => g[i + m] \in Int)
      OBVIOUS
    <3>2. ASSUME i + (m + 1) \in D PROVE g[i + (m + 1)] \in Int
      <4>1. i + m \in i..Len(s) /\ i + m \in D /\ i + (m + 1) = (i + m) + 1
        BY <1>1, <3>1, <3>2
      <4>2. s[i + m] \in Nat
        BY <1>1, <4>1
      <4>3. g[(i + m) + 1] = 10 * g[i + m] + s[i + m] - Zero /\ g[i + m] \in Int
        BY <1>9, <3>1, <4>1
      <4>4. \A y \in Int, c \in Nat : 10 * y + c - Zero \in Int
        BY DEF Zero
      <4>5. g[(i + m) + 1] \in Int
        BY <4>2, <4>3, <4>4, Zenon
      <4> QED
        BY <4>1, <4>5, Zenon
    <3> QED
      BY <3>1, <3>2
  <2>3. S \in SUBSET Nat
    OBVIOUS
  <2> HIDE DEF S
  <2>4. S = Nat
    BY <2>1, <2>2, <2>3, NatInduct
  <2>5. k - i \in S /\ i + (k - i) = k
    BY <1>1, <2>4
  <2> QED
    BY <2>5 DEF S
<1> QED
  BY <1>8, <1>9, <1>10, NumberIsCount DEF g

-----------------------------------------------------------------------------
(* Runs of digits and their numbers. *)
Run(s, x, m) ==
    /\ x + m <= Len(s) + 1
    /\ \A k \in 0..(m - 1) : s[x + k] \in Digits

LEMMA RunGrows ==
    ASSUME NEW s \in Seq(Nat), NEW x \in 1..(Len(s) + 1), NEW m \in Nat, NEW n \in Nat,
           n < m, Run(s, x, m)
    PROVE  /\ Run(s, x, n) /\ Run(s, x, n + 1)
           /\ Number(s, x, x + n) \in Int /\ Number(s, x, x + (n + 1)) \in Int
           /\ \E d \in 0..9 : /\ s[x + n] = Zero + d
                              /\ Number(s, x, x + (n + 1)) = 10 * Number(s, x, x + n) + d
<1>1. Len(s) \in Nat
  OBVIOUS
<1>9. \A k \in 0..n : k \in 0..(m - 1) /\ s[x + k] \in Digits
  BY DEF Run
<1>10. /\ 0..(n - 1) \subseteq 0..n /\ 0..((n + 1) - 1) = 0..n
       /\ x + n <= Len(s) + 1 /\ x + (n + 1) <= Len(s) + 1
  BY <1>1 DEF Run
<1>11. (\A k \in 0..(n - 1) : s[x + k] \in Digits)
       /\ (\A k \in 0..((n + 1) - 1) : s[x + k] \in Digits)
  BY <1>9, <1>10
<1>2. Run(s, x, n) /\ Run(s, x, n + 1)
  BY <1>10, <1>11 DEF Run
<1>3. x + n \in x..Len(s) /\ x + n \in x..(Len(s) + 1) /\ x + (n + 1) \in x..(Len(s) + 1)
      /\ x + (n + 1) = (x + n) + 1
  BY <1>1 DEF Run
<1>4. s[x + n] \in Digits
  BY DEF Run
<1> DEFINE d == s[x + n] - Zero
<1>5. d \in 0..9 /\ s[x + n] = Zero + d
  BY <1>4 DEF Digits, Zero
<1>6. Number(s, x, x + n) \in Int /\ Number(s, x, x + (n + 1)) \in Int
  BY <1>3, NumberSteps
<1>7. Number(s, x, (x + n) + 1) = 10 * Number(s, x, x + n) + s[x + n] - Zero
  BY <1>3, NumberSteps
<1>8. Number(s, x, x + (n + 1)) = 10 * Number(s, x, x + n) + d
  BY <1>3, <1>5, <1>6, <1>7 DEF Zero
<1> QED
  BY <1>2, <1>5, <1>6, <1>8

(* Arithmetic of one more digit. *)
LEMMA OneMoreDigit ==
    ASSUME NEW p \in Int, NEW q \in Int, NEW d \in 0..9, NEW e \in 0..9
    PROVE  /\ p < q => 10 * p + d < 10 * q + e
           /\ p >= 1 => 10 * p + d >= 1
OBVIOUS

(* Leading zeros do not count. *)
LEMMA ZerosAreZero ==
    ASSUME NEW s \in Seq(Nat), NEW i \in 1..(Len(s) + 1), NEW n \in Nat,
           i + n <= Len(s) + 1, \A k \in i..(i + n - 1) : s[k] = Zero
    PROVE  Number(s, i, i + n) = 0
<1> DEFINE P(k) == k <= n => Number(s, i, i + k) = 0
<1>1. P(0)
  BY NumberSteps
<1>2. ASSUME NEW k \in Nat, P(k) PROVE P(k + 1)
  <2> SUFFICES ASSUME k + 1 <= n PROVE Number(s, i, i + (k + 1)) = 0
    OBVIOUS
  <2>1. i + k \in i..Len(s) /\ i + k \in i..(i + n - 1) /\ i + (k + 1) = (i + k) + 1
    OBVIOUS
  <2>2. Number(s, i, (i + k) + 1) = 10 * Number(s, i, i + k) + s[i + k] - Zero
    BY <2>1, NumberSteps
  <2>3. s[i + k] = Zero /\ Number(s, i, i + k) = 0
    BY <1>2, <2>1
  <2> QED
    BY <2>1, <2>2, <2>3 DEF Zero
<1>3. \A k \in Nat : P(k)
  <2> HIDE DEF P
  <2> DEFINE S == {k \in Nat : P(k)}
  <2>1. 0 \in S /\ S \in SUBSET Nat
    BY <1>1
  <2>2. \A k \in S : k + 1 \in S
    BY <1>2
  <2> HIDE DEF S
  <2>3. S = Nat
    BY <2>1, <2>2, NatInduct
  <2> QED
    BY <2>3 DEF S
<1> QED
  BY <1>3

LEMMA LeadingZeros ==
    ASSUME NEW s \in Seq(Nat), NEW i \in 1..(Len(s) + 1), NEW x \in i..(Len(s) + 1),
           \A k \in i..(x - 1) : s[k] = Zero,
           NEW z \in x..(Len(s) + 1)
    PROVE  Number(s, i, z) = Number(s, x, z)
<1>0. Len(s) \in Nat /\ x \in 1..(Len(s) + 1)
  OBVIOUS
<1> DEFINE P(k) == x + k <= Len(s) + 1 => Number(s, i, x + k) = Number(s, x, x + k)
<1>1. P(0)
  <2> DEFINE n == x - i
  <2>1. n \in Nat /\ i + n = x /\ i + n <= Len(s) + 1 /\ i + n - 1 = x - 1
    BY <1>0
  <2> HIDE DEF n
  <2>2. Number(s, i, i + n) = 0
    BY <2>1, ZerosAreZero
  <2>3. Number(s, x, x) = 0
    BY <1>0, NumberSteps
  <2> QED
    BY <2>1, <2>2, <2>3
<1>2. ASSUME NEW k \in Nat, P(k) PROVE P(k + 1)
  <2> SUFFICES ASSUME x + (k + 1) <= Len(s) + 1
               PROVE  Number(s, i, x + (k + 1)) = Number(s, x, x + (k + 1))
    OBVIOUS
  <2>1. x + k \in i..Len(s) /\ x + k \in x..Len(s) /\ x + (k + 1) = (x + k) + 1
        /\ x + k <= Len(s) + 1
    BY <1>0
  <2>2. Number(s, i, (x + k) + 1) = 10 * Number(s, i, x + k) + s[x + k] - Zero
    BY <2>1, NumberSteps
  <2>3. Number(s, x, (x + k) + 1) = 10 * Number(s, x, x + k) + s[x + k] - Zero
    BY <1>0, <2>1, NumberSteps
  <2> QED
    BY <1>2, <2>1, <2>2, <2>3
<1>3. \A k \in Nat : P(k)
  <2> HIDE DEF P
  <2> DEFINE S == {k \in Nat : P(k)}
  <2>1. 0 \in S /\ S \in SUBSET Nat
    BY <1>1
  <2>2. \A k \in S : k + 1 \in S
    BY <1>2
  <2> HIDE DEF S
  <2>3. S = Nat
    BY <2>1, <2>2, NatInduct
  <2> QED
    BY <2>3 DEF S
<1>4. z - x \in Nat /\ x + (z - x) = z /\ z <= Len(s) + 1
  BY <1>0
<1> QED
  BY <1>3, <1>4

(* Of two numbers the one with more digits is the larger, if it has no     *)
(* leading zero. *)
LEMMA RunPositive ==
    ASSUME NEW s \in Seq(Nat), NEW x \in 1..(Len(s) + 1), NEW m \in Nat,
           m > 0, Run(s, x, m), s[x] # Zero
    PROVE  Number(s, x, x + m) >= 1
<1> DEFINE P(k) == k + 1 <= m => Number(s, x, x + (k + 1)) >= 1
<1>1. P(0)
  <2>1. PICK d \in 0..9 : /\ s[x + 0] = Zero + d
                           /\ Number(s, x, x + (0 + 1)) = 10 * Number(s, x, x + 0) + d
    BY 0 \in Nat /\ 0 < m, RunGrows
  <2>2. s[x + 0] = s[x] /\ Number(s, x, x + 0) = 0
    BY NumberSteps
  <2> QED
    BY <2>1, <2>2 DEF Zero
<1>2. ASSUME NEW k \in Nat, P(k) PROVE P(k + 1)
  <2> SUFFICES ASSUME (k + 1) + 1 <= m PROVE Number(s, x, x + ((k + 1) + 1)) >= 1
    OBVIOUS
  <2>1. k + 1 \in Nat /\ k + 1 < m /\ k + 1 <= m
    OBVIOUS
  <2>2. PICK d \in 0..9 :
            Number(s, x, x + ((k + 1) + 1)) = 10 * Number(s, x, x + (k + 1)) + d
    <3> DEFINE n == k + 1
    <3>1. n \in Nat /\ n < m
      BY <2>1
    <3> HIDE DEF n
    <3>2. \E d \in 0..9 : /\ s[x + n] = Zero + d
                          /\ Number(s, x, x + (n + 1)) = 10 * Number(s, x, x + n) + d
      BY <3>1, RunGrows
    <3> QED
      BY <3>2, Zenon DEF n
  <2>3. Number(s, x, x + (k + 1)) \in Int /\ Number(s, x, x + (k + 1)) >= 1
    BY <1>2, <2>1, RunGrows
  <2> QED
    BY <2>2, <2>3, OneMoreDigit
<1>3. \A k \in Nat : P(k)
  <2> HIDE DEF P
  <2> DEFINE S == {k \in Nat : P(k)}
  <2>1. 0 \in S /\ S \in SUBSET Nat
    BY <1>1
  <2>2. \A k \in S : k + 1 \in S
    BY <1>2
  <2> HIDE DEF S
  <2>3. S = Nat
    BY <2>1, <2>2, NatInduct
  <2> QED
    BY <2>3 DEF S
<1>4. m - 1 \in Nat /\ (m - 1) + 1 = m
  OBVIOUS
<1> QED
  BY <1>3, <1>4

LEMMA LongerIsLarger ==
    ASSUME NEW a \in Seq(Nat), NEW x \in 1..(Len(a) + 1), NEW m \in Nat,
           NEW b \in Seq(Nat), NEW y \in 1..(Len(b) + 1), NEW n \in Nat,
           n < m, Run(a, x, m), Run(b, y, n), a[x] # Zero
    PROVE  Number(b, y, y + n) < Number(a, x, x + m)
<1> DEFINE P(k) == k <= n => Number(b, y, y + k) < Number(a, x, x + (m - n + k))
<1>1. P(0)
  <2> DEFINE l == m - n
  <2>1. l \in Nat /\ l > 0 /\ l <= m /\ l + 0 = l /\ y + 0 = y /\ l - 1 \in Nat
        /\ l - 1 < m /\ (l - 1) + 1 = l
    OBVIOUS
  <2> HIDE DEF l
  <2>2. Run(a, x, l) /\ Number(a, x, x + l) \in Int
    <3> DEFINE h == l - 1
    <3>1. h \in Nat /\ h < m /\ h + 1 = l
      BY <2>1
    <3> HIDE DEF h
    <3>2. Run(a, x, h + 1) /\ Number(a, x, x + (h + 1)) \in Int
      BY <3>1, RunGrows
    <3> QED
      BY <3>1, <3>2
  <2>3. Number(a, x, x + l) >= 1
    BY <2>1, <2>2, RunPositive
  <2>4. Number(b, y, y) = 0
    BY NumberSteps
  <2>5. Number(b, y, y + 0) < Number(a, x, x + (l + 0))
    BY <2>1, <2>2, <2>3, <2>4
  <2> QED
    BY <2>5 DEF l
<1>2. ASSUME NEW k \in Nat, P(k) PROVE P(k + 1)
  <2> SUFFICES ASSUME k + 1 <= n
               PROVE  Number(b, y, y + (k + 1)) < Number(a, x, x + (m - n + (k + 1)))
    OBVIOUS
  <2> DEFINE l == m - n + k
  <2>1. k < n /\ l \in Nat /\ l < m /\ m - n + (k + 1) = l + 1 /\ k <= n
    OBVIOUS
  <2>5. Number(b, y, y + k) < Number(a, x, x + l)
    BY <1>2, <2>1
  <2> HIDE DEF l
  <2>2. PICK d \in 0..9 : Number(b, y, y + (k + 1)) = 10 * Number(b, y, y + k) + d
    BY <2>1, RunGrows
  <2>3. PICK e \in 0..9 : Number(a, x, x + (l + 1)) = 10 * Number(a, x, x + l) + e
    BY <2>1, RunGrows
  <2>4. Number(b, y, y + k) \in Int /\ Number(a, x, x + l) \in Int
    BY <2>1, RunGrows
  <2>6. Number(b, y, y + (k + 1)) < Number(a, x, x + (l + 1))
    BY <2>2, <2>3, <2>4, <2>5, OneMoreDigit
  <2> QED
    BY <2>1, <2>6
<1>3. \A k \in Nat : P(k)
  <2> HIDE DEF P
  <2> DEFINE S == {k \in Nat : P(k)}
  <2>1. 0 \in S /\ S \in SUBSET Nat
    BY <1>1
  <2>2. \A k \in S : k + 1 \in S
    BY <1>2
  <2> HIDE DEF S
  <2>3. S = Nat
    BY <2>1, <2>2, NatInduct
  <2> QED
    BY <2>3 DEF S
<1>4. n <= n /\ m - n + n = m
  OBVIOUS
<1> QED
  BY <1>3, <1>4

(* Of two as long the first difference decides. *)
LEMMA EqualDigits ==
    ASSUME NEW a \in Seq(Nat), NEW x \in 1..(Len(a) + 1), NEW m \in Nat,
           NEW b \in Seq(Nat), NEW y \in 1..(Len(b) + 1),
           Run(a, x, m), Run(b, y, m), \A k \in 0..(m - 1) : a[x + k] = b[y + k]
    PROVE  Number(a, x, x + m) = Number(b, y, y + m)
<1> DEFINE P(k) == k <= m => Number(a, x, x + k) = Number(b, y, y + k)
<1>1. P(0)
  <2>1. x + 0 = x /\ y + 0 = y /\ Number(a, x, x) = 0 /\ Number(b, y, y) = 0
    BY NumberSteps
  <2> QED
    BY <2>1
<1>2. ASSUME NEW k \in Nat, P(k) PROVE P(k + 1)
  <2> SUFFICES ASSUME k + 1 <= m PROVE Number(a, x, x + (k + 1)) = Number(b, y, y + (k + 1))
    OBVIOUS
  <2>1. k < m /\ k <= m /\ k \in 0..(m - 1)
    OBVIOUS
  <2>2. PICK d \in 0..9 : /\ a[x + k] = Zero + d
                           /\ Number(a, x, x + (k + 1)) = 10 * Number(a, x, x + k) + d
    BY <2>1, RunGrows
  <2>3. PICK e \in 0..9 : /\ b[y + k] = Zero + e
                           /\ Number(b, y, y + (k + 1)) = 10 * Number(b, y, y + k) + e
    BY <2>1, RunGrows
  <2>4. Zero + d = Zero + e
    BY <2>1, <2>2, <2>3
  <2>5. d = e
    BY <2>4 DEF Zero
  <2>6. Number(a, x, x + k) = Number(b, y, y + k)
    BY <1>2, <2>1
  <2> QED
    BY <2>2, <2>3, <2>5, <2>6
<1>3. \A k \in Nat : P(k)
  <2> HIDE DEF P
  <2> DEFINE S == {k \in Nat : P(k)}
  <2>1. 0 \in S /\ S \in SUBSET Nat
    BY <1>1
  <2>2. \A k \in S : k + 1 \in S
    BY <1>2
  <2> HIDE DEF S
  <2>3. S = Nat
    BY <2>1, <2>2, NatInduct
  <2> QED
    BY <2>3 DEF S
<1> QED
  BY <1>3

LEMMA FirstDifference ==
    ASSUME NEW a \in Seq(Nat), NEW x \in 1..(Len(a) + 1), NEW m \in Nat,
           NEW b \in Seq(Nat), NEW y \in 1..(Len(b) + 1),
           Run(a, x, m), Run(b, y, m),
           NEW i \in 0..(m - 1), a[x + i] < b[y + i],
           \A k \in 0..(i - 1) : a[x + k] = b[y + k]
    PROVE  Number(a, x, x + m) < Number(b, y, y + m)
<1> DEFINE P(k) == i + 1 + k <= m =>
                      Number(a, x, x + (i + 1 + k)) < Number(b, y, y + (i + 1 + k))
<1>0. i \in Nat /\ i < m
  OBVIOUS
<1>1. P(0)
  <2>1. Run(a, x, i) /\ Run(b, y, i)
    BY <1>0, RunGrows
  <2>2. Number(a, x, x + i) = Number(b, y, y + i)
    BY <1>0, <2>1, EqualDigits
  <2>3. PICK d \in 0..9 : /\ a[x + i] = Zero + d
                           /\ Number(a, x, x + (i + 1)) = 10 * Number(a, x, x + i) + d
    BY <1>0, RunGrows
  <2>4. PICK e \in 0..9 : /\ b[y + i] = Zero + e
                           /\ Number(b, y, y + (i + 1)) = 10 * Number(b, y, y + i) + e
    BY <1>0, RunGrows
  <2>5. d < e
    BY <2>3, <2>4 DEF Zero
  <2>6. Number(a, x, x + i) \in Int
    BY <1>0, RunGrows
  <2>7. Number(a, x, x + (i + 1)) < Number(b, y, y + (i + 1))
    BY <2>2, <2>3, <2>4, <2>5, <2>6
  <2>8. i + 1 + 0 = i + 1
    BY <1>0
  <2> QED
    BY <2>7, <2>8
<1>2. ASSUME NEW k \in Nat, P(k) PROVE P(k + 1)
  <2> SUFFICES ASSUME i + 1 + (k + 1) <= m
               PROVE  Number(a, x, x + (i + 1 + (k + 1)))
                        < Number(b, y, y + (i + 1 + (k + 1)))
    OBVIOUS
  <2> DEFINE l == i + 1 + k
  <2>1. l \in Nat /\ l < m /\ l <= m /\ i + 1 + (k + 1) = l + 1
    BY <1>0
  <2>2. Number(a, x, x + l) < Number(b, y, y + l)
    BY <1>2, <2>1
  <2> HIDE DEF l
  <2>3. PICK d \in 0..9 : Number(a, x, x + (l + 1)) = 10 * Number(a, x, x + l) + d
    BY <2>1, RunGrows
  <2>4. PICK e \in 0..9 : Number(b, y, y + (l + 1)) = 10 * Number(b, y, y + l) + e
    BY <2>1, RunGrows
  <2>5. Number(a, x, x + l) \in Int /\ Number(b, y, y + l) \in Int
    BY <2>1, RunGrows
  <2>6. Number(a, x, x + (l + 1)) < Number(b, y, y + (l + 1))
    BY <2>2, <2>3, <2>4, <2>5, OneMoreDigit
  <2> QED
    BY <2>1, <2>6
<1>3. \A k \in Nat : P(k)
  <2> HIDE DEF P
  <2> DEFINE S == {k \in Nat : P(k)}
  <2>1. 0 \in S /\ S \in SUBSET Nat
    BY <1>1
  <2>2. \A k \in S : k + 1 \in S
    BY <1>2
  <2> HIDE DEF S
  <2>3. S = Nat
    BY <2>1, <2>2, NatInduct
  <2> QED
    BY <2>3 DEF S
<1> DEFINE l == m - (i + 1)
<1>4. l \in Nat /\ i + 1 + l = m /\ m <= m
  BY <1>0
<1> HIDE DEF l
<1> QED
  BY <1>3, <1>4

(* What CompareNumbers looks at: the digits after the leading zeros. *)
LEMMA Significant ==
    ASSUME NEW s \in Seq(Nat), NEW i \in 1..(Len(s) + 1)
    PROVE  LET x == Past({Zero}, s, i)
               m == Past(Digits, s, x) - x
           IN  /\ x \in 1..(Len(s) + 1) /\ m \in Nat /\ Run(s, x, m)
               /\ m > 0 => s[x] # Zero
               /\ Number(s, i, Past(Digits, s, i)) = Number(s, x, x + m)
               /\ Number(s, x, x + m) \in Int
<1> DEFINE x == Past({Zero}, s, i)
           z == Past(Digits, s, x)
           m == z - x
<1>1. Len(s) \in Nat
  OBVIOUS
<1>2. /\ x \in i..(Len(s) + 1) /\ x \in 1..(Len(s) + 1)
      /\ x <= Len(s) => s[x] # Zero
      /\ \A k \in i..(x - 1) : s[k] = Zero
  BY PastStops, PastIn
<1> HIDE DEF x
<1>3. /\ z \in x..(Len(s) + 1)
      /\ z <= Len(s) => s[z] \notin Digits
      /\ \A k \in x..(z - 1) : s[k] \in Digits
  BY <1>2, PastStops
<1> HIDE DEF z
<1>4. \A k \in i..(z - 1) : s[k] \in Digits
  <2>1. Zero \in Digits
    BY DEF Zero, Digits
  <2>2. \A k \in i..(z - 1) : k \in i..(x - 1) \/ k \in x..(z - 1)
    BY <1>1, <1>2, <1>3
  <2> QED
    BY <1>2, <1>3, <2>1, <2>2
<1>5. z \in i..(Len(s) + 1)
  BY <1>1, <1>2, <1>3
<1>6. Past(Digits, s, i) = z
  BY <1>3, <1>4, <1>5, PastIs
<1>7. m \in Nat /\ x + m = z
  BY <1>1, <1>2, <1>3
<1>8. Run(s, x, m)
  <2>1. x + m <= Len(s) + 1
    BY <1>1, <1>3, <1>7
  <2>2. ASSUME NEW k \in 0..(m - 1) PROVE s[x + k] \in Digits
    <3>1. x + k \in x..(z - 1)
      BY <1>1, <1>2, <1>3
    <3> QED
      BY <1>3, <3>1
  <2> QED
    BY <2>1, <2>2 DEF Run
<1>9. m > 0 => s[x] # Zero
  BY <1>1, <1>2, <1>3
<1>10. Number(s, i, z) = Number(s, x, z)
  BY <1>2, <1>3, LeadingZeros
<1>11. Number(s, x, z) \in Int
  BY <1>2, <1>3, NumberSteps
<1> QED
  BY <1>2, <1>6, <1>7, <1>8, <1>9, <1>10, <1>11 DEF x, z

(* The comparison of digits is that of the numbers. *)
LEMMA NumbersCompared ==
    ASSUME NEW a \in Seq(Nat), NEW i \in 1..(Len(a) + 1),
           NEW b \in Seq(Nat), NEW j \in 1..(Len(b) + 1)
    PROVE  LET p == Number(a, i, Past(Digits, a, i))
               q == Number(b, j, Past(Digits, b, j))
           IN  /\ p \in Int /\ q \in Int /\ CompareNumbers(a, b, i, j) \in Int
               /\ CompareNumbers(a, b, i, j) < 0 <=> p < q
               /\ CompareNumbers(a, b, i, j) > 0 <=> q < p
<1> DEFINE x == Past({Zero}, a, i)
           y == Past({Zero}, b, j)
           m == Past(Digits, a, x) - x
           n == Past(Digits, b, y) - y
           differ == {k \in 0..(m - 1) : a[x + k] # b[y + k]}
           c == CompareNumbers(a, b, i, j)
           p == Number(a, i, Past(Digits, a, i))
           q == Number(b, j, Past(Digits, b, j))
<1>1. /\ x \in 1..(Len(a) + 1) /\ m \in Nat /\ Run(a, x, m)
      /\ m > 0 => a[x] # Zero
      /\ p = Number(a, x, x + m) /\ p \in Int
  BY Significant
<1>2. /\ y \in 1..(Len(b) + 1) /\ n \in Nat /\ Run(b, y, n)
      /\ n > 0 => b[y] # Zero
      /\ q = Number(b, y, y + n) /\ q \in Int
  BY Significant
<1>3. c = IF m # n THEN m - n
          ELSE IF differ = {} THEN 0
          ELSE a[x + Min(differ)] - b[y + Min(differ)]
  BY DEF CompareNumbers
<1> SUFFICES /\ c \in Int
             /\ c < 0 <=> p < q
             /\ c > 0 <=> q < p
  BY <1>1, <1>2
<1> HIDE DEF c, p, q, m, n, x, y
<1>4. CASE m < n
  <2>1. p < q
    BY <1>1, <1>2, <1>4, LongerIsLarger
  <2>2. c = m - n
    BY <1>1, <1>2, <1>3, <1>4
  <2>3. c \in Int /\ c < 0
    BY <1>1, <1>2, <1>4, <2>2
  <2> QED
    BY <1>1, <1>2, <2>1, <2>3
<1>5. CASE n < m
  <2>1. q < p
    BY <1>1, <1>2, <1>5, LongerIsLarger
  <2>2. c = m - n
    BY <1>1, <1>2, <1>3, <1>5
  <2>3. c \in Int /\ c > 0
    BY <1>1, <1>2, <1>5, <2>2
  <2> QED
    BY <1>1, <1>2, <2>1, <2>3
<1>6. CASE m = n /\ differ = {}
  <2>1. \A k \in 0..(m - 1) : a[x + k] = b[y + k]
    BY <1>6
  <2>4. Run(b, y, m) /\ q = Number(b, y, y + m)
    BY <1>2, <1>6
  <2>2. p = q
    BY <1>1, <1>2, <2>1, <2>4, EqualDigits
  <2>3. c = 0
    BY <1>3, <1>6
  <2> QED
    BY <1>1, <1>2, <2>2, <2>3
<1>7. CASE m = n /\ differ # {}
  <2> DEFINE d == Min(differ)
  <2>1. d \in differ /\ \A k \in differ : d <= k
    <3>1. differ \subseteq Nat
      OBVIOUS
    <3> QED
      BY <1>7, <3>1, MinIsLeast
  <2>2. c = a[x + d] - b[y + d]
    BY <1>3, <1>7
  <2> HIDE DEF d
  <2>3. d \in 0..(m - 1) /\ a[x + d] # b[y + d]
    BY <2>1
  <2>4. ASSUME NEW k \in 0..(d - 1) PROVE a[x + k] = b[y + k]
    <3>1. k \in 0..(m - 1) /\ ~(d <= k)
      BY <1>1, <2>3
    <3> QED
      BY <2>1, <3>1
  <2>10. Run(b, y, m) /\ q = Number(b, y, y + m)
    BY <1>2, <1>7
  <2>5. x + d \in 1..Len(a) /\ y + d \in 1..Len(b)
    <3>1. x + m <= Len(a) + 1 /\ y + m <= Len(b) + 1
      BY <1>1, <2>10 DEF Run
    <3>2. Len(a) \in Nat /\ Len(b) \in Nat
      OBVIOUS
    <3>3. x \in Nat /\ y \in Nat /\ x >= 1 /\ y >= 1 /\ m \in Nat /\ d \in Nat /\ d < m
      BY <1>1, <1>2, <2>3, <3>2
    <3> QED
      BY <3>1, <3>2, <3>3
  <2>6. a[x + d] \in Nat /\ b[y + d] \in Nat
    BY <2>5
  <2>7. a[x + d] < b[y + d] => p < q
    BY <1>1, <1>2, <2>3, <2>4, <2>10, FirstDifference
  <2>8. b[y + d] < a[x + d] => q < p
    BY <1>1, <1>2, <2>3, <2>4, <2>10, FirstDifference
  <2> DEFINE u == a[x + d]
             v == b[y + d]
  <2>11. c = u - v /\ u \in Nat /\ v \in Nat /\ u # v
    BY <2>2, <2>3, <2>6
  <2>12. (u < v => p < q) /\ (v < u => q < p)
    BY <2>7, <2>8
  <2> HIDE DEF u, v
  <2>9. c \in Int /\ (c < 0 <=> u < v) /\ (c > 0 <=> v < u) /\ (u < v \/ v < u)
    BY <2>11
  <2> QED
    BY <1>1, <1>2, <2>9, <2>12
<1> QED
  BY <1>1, <1>2, <1>4, <1>5, <1>6, <1>7

-----------------------------------------------------------------------------
(* The parts of a string from a place on. *)
Rest(s, f, i) ==
    IF i > Len(s) THEN <<>>
    ELSE IF s[i] \notin Digits THEN <<Weight(s[i])>> \o f[i + 1]
    ELSE <<0, Number(s, i, Past(Digits, s, i))>> \o f[Past(Digits, s, i)]

IsPartsFrom(s, f) == f = [i \in 1..(Len(s) + 1) |-> Rest(s, f, i)]

PartsFrom(s) == CHOOSE f : IsPartsFrom(s, f)

LEMMA PartsIsPartsFrom ==
    ASSUME NEW s PROVE Parts(s) = PartsFrom(s)[1]
BY Zenon DEF Parts, PartsFrom, IsPartsFrom, Rest

LEMMA WeightIsInt == ASSUME NEW c \in Nat PROVE Weight(c) \in Int
BY DEF Weight

LEMMA PastAdvances ==
    ASSUME NEW s \in Seq(Nat), NEW i \in 1..Len(s), s[i] \in Digits
    PROVE  Past(Digits, s, i) \in (i + 1)..(Len(s) + 1)
<1>1. Len(s) \in Nat /\ i \in 1..(Len(s) + 1)
  OBVIOUS
<1>2. Past(Digits, s, i) \in i..(Len(s) + 1) /\ Past(Digits, s, i) # i
  BY <1>1, PastStops
<1> HIDE DEF Past
<1> QED
  BY <1>1, <1>2

LEMMA RestIsSeq ==
    ASSUME NEW s \in Seq(Nat), NEW f \in [1..(Len(s) + 1) -> Seq(Int)],
           NEW i \in 1..(Len(s) + 1)
    PROVE  Rest(s, f, i) \in Seq(Int)
<1>1. Len(s) \in Nat
  OBVIOUS
<1>2. CASE i > Len(s)
  BY <1>2 DEF Rest
<1>3. CASE i <= Len(s) /\ s[i] \notin Digits
  <2>1. i + 1 \in 1..(Len(s) + 1) /\ s[i] \in Nat /\ ~(i > Len(s))
    BY <1>1, <1>3
  <2>2. <<Weight(s[i])>> \in Seq(Int)
    BY <2>1, WeightIsInt
  <2> QED
    BY <1>3, <2>1, <2>2 DEF Rest
<1>4. CASE i <= Len(s) /\ s[i] \in Digits
  <2> DEFINE k == Past(Digits, s, i)
  <2>1. k \in i..(Len(s) + 1) /\ k \in 1..(Len(s) + 1)
    BY PastStops, PastIn
  <2>2. Number(s, i, k) \in Int
    BY <2>1, NumberSteps
  <2> HIDE DEF k
  <2>3. <<0, Number(s, i, k)>> \in Seq(Int)
    BY <2>2
  <2>4. Rest(s, f, i) = <<0, Number(s, i, k)>> \o f[k]
    BY <1>1, <1>4 DEF Rest, k
  <2>5. f[k] \in Seq(Int)
    BY <2>1
  <2> QED
    BY <2>3, <2>4, <2>5, ConcatProperties
<1> QED
  BY <1>1, <1>2, <1>3, <1>4

LEMMA RestUses ==
    ASSUME NEW s \in Seq(Nat), NEW f, NEW g, NEW i \in 1..(Len(s) + 1),
           \A k \in (i + 1)..(Len(s) + 1) : f[k] = g[k]
    PROVE  Rest(s, f, i) = Rest(s, g, i)
<1>1. Len(s) \in Nat
  OBVIOUS
<1>2. CASE i > Len(s)
  BY <1>2 DEF Rest
<1>3. CASE i <= Len(s)
  <2>1. i + 1 \in (i + 1)..(Len(s) + 1) /\ i \in 1..Len(s)
    BY <1>1, <1>3
  <2>2. s[i] \in Digits => Past(Digits, s, i) \in (i + 1)..(Len(s) + 1)
    BY <2>1, PastAdvances
  <2> QED
    BY <2>1, <2>2 DEF Rest
<1> QED
  BY <1>1, <1>2, <1>3

LEMMA PartsUpTo ==
    ASSUME NEW s \in Seq(Nat), NEW n \in Nat
    PROVE  \E f \in [1..(Len(s) + 1) -> Seq(Int)] :
              \A i \in 1..(Len(s) + 1) : Len(s) + 1 < i + n => f[i] = Rest(s, f, i)
<1> DEFINE D == 1..(Len(s) + 1)
           Good(m, f) == \A i \in D : Len(s) + 1 < i + m => f[i] = Rest(s, f, i)
           P(m) == \E f \in [D -> Seq(Int)] : Good(m, f)
<1>0. Len(s) \in Nat
  OBVIOUS
<1>1. P(0)
  <2>1. [i \in D |-> <<>>] \in [D -> Seq(Int)]
    OBVIOUS
  <2>2. Good(0, [i \in D |-> <<>>])
    BY <1>0
  <2> HIDE DEF Good, D
  <2> QED
    BY <2>1, <2>2
<1>2. ASSUME NEW m \in Nat, P(m) PROVE P(m + 1)
  <2>1. PICK f \in [D -> Seq(Int)] : Good(m, f)
    BY <1>2
  <2> DEFINE c == Len(s) + 1 - m
             h == [i \in D |-> IF i = c THEN Rest(s, f, i) ELSE f[i]]
  <2>2. c \in Int
    BY <1>0
  <2>3. h \in [D -> Seq(Int)]
    BY <2>1, RestIsSeq
  <2>4. \A i \in D : h[i] = IF i = c THEN Rest(s, f, i) ELSE f[i]
    OBVIOUS
  <2> HIDE DEF h
  <2>5. ASSUME NEW i \in D, Len(s) + 1 < i + (m + 1) PROVE h[i] = Rest(s, h, i)
    <3>1. i >= c
      BY <1>0, <2>5
    <3>2. \A k \in (i + 1)..(Len(s) + 1) : k \in D /\ k # c
      BY <1>0, <2>2, <3>1
    <3>3. \A k \in (i + 1)..(Len(s) + 1) : f[k] = h[k]
      BY <2>4, <3>2
    <3>4. Rest(s, f, i) = Rest(s, h, i)
      BY <3>3, RestUses
    <3>5. i # c => Len(s) + 1 < i + m
      BY <1>0, <3>1
    <3>6. h[i] = Rest(s, f, i)
      BY <2>1, <2>4, <3>5
    <3> QED
      BY <3>4, <3>6
  <2>6. Good(m + 1, h)
    BY <2>5
  <2> HIDE DEF Good, D
  <2> QED
    BY <2>3, <2>6
<1>3. \A k \in Nat : P(k)
  <2> HIDE DEF P
  <2> DEFINE S == {k \in Nat : P(k)}
  <2>1. 0 \in S /\ S \in SUBSET Nat
    BY <1>1
  <2>2. \A k \in S : k + 1 \in S
    BY <1>2
  <2> HIDE DEF S
  <2>3. S = Nat
    BY <2>1, <2>2, NatInduct
  <2> QED
    BY <2>3 DEF S
<1> QED
  BY <1>3

LEMMA PartsSteps ==
    ASSUME NEW s \in Seq(Nat), NEW i \in 1..(Len(s) + 1)
    PROVE  PartsFrom(s)[i] = Rest(s, PartsFrom(s), i) /\ PartsFrom(s)[i] \in Seq(Int)
<1> DEFINE D == 1..(Len(s) + 1)
<1>0. Len(s) + 1 \in Nat
  OBVIOUS
<1>1. PICK f \in [D -> Seq(Int)] :
          \A k \in D : Len(s) + 1 < k + (Len(s) + 1) => f[k] = Rest(s, f, k)
  BY <1>0, PartsUpTo
<1>2. \A k \in D : f[k] = Rest(s, f, k)
  BY <1>0, <1>1
<1>3. f = [k \in D |-> Rest(s, f, k)]
  BY <1>2
<1>4. IsPartsFrom(s, PartsFrom(s))
  BY <1>3 DEF IsPartsFrom, PartsFrom
<1> DEFINE g == PartsFrom(s)
<1>5. g = [k \in D |-> Rest(s, g, k)]
  BY <1>4 DEF IsPartsFrom
<1> HIDE DEF g
<1>6. \A k \in D : g[k] = Rest(s, g, k)
  BY <1>5
<1> DEFINE P(m) == \A k \in D : Len(s) + 1 < k + m => g[k] \in Seq(Int)
<1>7. P(0)
  BY <1>0
<1>8. ASSUME NEW m \in Nat, P(m) PROVE P(m + 1)
  <2> SUFFICES ASSUME NEW k \in D, Len(s) + 1 < k + (m + 1) PROVE g[k] \in Seq(Int)
    OBVIOUS
  <2> DEFINE h == [l \in D |-> IF l > k THEN g[l] ELSE <<>>]
  <2>1. \A l \in D : l > k => g[l] \in Seq(Int)
    BY <1>0, <1>8
  <2>2. h \in [D -> Seq(Int)]
    BY <2>1
  <2>3. \A l \in (k + 1)..(Len(s) + 1) : g[l] = h[l]
    BY <1>0
  <2> HIDE DEF h
  <2>4. Rest(s, g, k) = Rest(s, h, k)
    BY <2>3, RestUses
  <2> QED
    BY <1>6, <2>2, <2>4, RestIsSeq
<1>9. \A m \in Nat : P(m)
  <2> HIDE DEF P
  <2> DEFINE S == {m \in Nat : P(m)}
  <2>1. 0 \in S /\ S \in SUBSET Nat
    BY <1>7
  <2>2. \A m \in S : m + 1 \in S
    BY <1>8
  <2> HIDE DEF S
  <2>3. S = Nat
    BY <2>1, <2>2, NatInduct
  <2> QED
    BY <2>3 DEF S
<1>10. g[i] \in Seq(Int)
  <2>1. P(Len(s) + 1)
    BY <1>0, <1>9
  <2> QED
    BY <1>0, <2>1
<1> QED
  BY <1>6, <1>10 DEF g

-----------------------------------------------------------------------------
(* The order of the policy, on parts without an end. *)
Positive == Nat \ {0}

Key(p) == [x \in Positive |-> Part(p, x)]

Shift(f) == [x \in Positive |-> f[x + 1]]

Less(f, g) ==
    \E i \in Positive : f[i] < g[i] /\ \A j \in Positive : j < i => f[j] = g[j]

LEMMA KeyType ==
    ASSUME NEW p \in Seq(Int)
    PROVE  /\ Key(p) \in [Positive -> Int]
           /\ \A x \in Positive : Key(p)[x] = IF x <= Len(p) THEN p[x] ELSE 0
<1>1. \A x \in Positive : x <= Len(p) => p[x] \in Int
  BY DEF Positive
<1> QED
  BY <1>1 DEF Key, Part

LEMMA SmallerIsLess ==
    ASSUME NEW p \in Seq(Int), NEW q \in Seq(Int)
    PROVE  Smaller(p, q) <=> Less(Key(p), Key(q))
<1>1. Len(p) \in Nat /\ Len(q) \in Nat
  OBVIOUS
<1>2. \A x \in Positive : Key(p)[x] = Part(p, x) /\ Key(q)[x] = Part(q, x)
  BY DEF Key
<1>3. ASSUME Smaller(p, q) PROVE Less(Key(p), Key(q))
  <2>1. PICK i \in 1..(Len(p) + Len(q)) :
            /\ Part(p, i) < Part(q, i)
            /\ \A j \in 1..(i - 1) : Part(p, j) = Part(q, j)
    BY <1>3 DEF Smaller
  <2>2. i \in Positive /\ \A j \in Positive : j < i => j \in 1..(i - 1)
    BY <1>1 DEF Positive
  <2> QED
    BY <1>2, <2>1, <2>2 DEF Less
<1>4. ASSUME Less(Key(p), Key(q)) PROVE Smaller(p, q)
  <2>1. PICK i \in Positive : /\ Key(p)[i] < Key(q)[i]
                              /\ \A j \in Positive : j < i => Key(p)[j] = Key(q)[j]
    BY <1>4 DEF Less
  <2>2. Part(p, i) < Part(q, i)
    BY <1>2, <2>1
  <2>3. i \in 1..(Len(p) + Len(q))
    <3>1. i <= Len(p) \/ i <= Len(q)
      BY <2>2 DEF Part
    <3> QED
      BY <1>1, <3>1 DEF Positive
  <2>4. \A j \in 1..(i - 1) : j \in Positive /\ j < i
    BY DEF Positive
  <2>5. \A j \in 1..(i - 1) : Part(p, j) = Part(q, j)
    BY <1>2, <2>1, <2>4
  <2> QED
    BY <2>2, <2>3, <2>5 DEF Smaller
<1> QED
  BY <1>3, <1>4

(* The first place decides, or else the rest. *)
LEMMA LessByFirst ==
    ASSUME NEW f \in [Positive -> Int], NEW g \in [Positive -> Int]
    PROVE  /\ Less(f, g) <=> f[1] < g[1] \/ (f[1] = g[1] /\ Less(Shift(f), Shift(g)))
           /\ Shift(f) \in [Positive -> Int]
<1>1. \A x \in Positive : x + 1 \in Positive /\ x >= 1 /\ x \in Nat
  BY DEF Positive
<1>2. 1 \in Positive
  BY DEF Positive
<1>3. \A x \in Positive : Shift(f)[x] = f[x + 1] /\ Shift(g)[x] = g[x + 1]
  BY DEF Shift
<1>4. Shift(f) \in [Positive -> Int]
  BY <1>1 DEF Shift
<1>5. ASSUME f[1] < g[1] PROVE Less(f, g)
  <2>1. \A j \in Positive : ~(j < 1)
    BY <1>1
  <2> QED
    BY <1>2, <1>5, <2>1 DEF Less
<1>6. ASSUME f[1] = g[1], Less(Shift(f), Shift(g)) PROVE Less(f, g)
  <2>1. PICK i \in Positive : /\ Shift(f)[i] < Shift(g)[i]
                              /\ \A j \in Positive : j < i => Shift(f)[j] = Shift(g)[j]
    BY <1>6 DEF Less
  <2>2. i + 1 \in Positive /\ f[i + 1] < g[i + 1]
    BY <1>1, <1>3, <2>1
  <2>3. ASSUME NEW j \in Positive, j < i + 1 PROVE f[j] = g[j]
    <3>1. CASE j = 1
      BY <1>6, <3>1
    <3>2. CASE j # 1
      <4>1. j - 1 \in Positive /\ j - 1 < i /\ (j - 1) + 1 = j
        BY <2>3, <3>2 DEF Positive
      <4>2. Shift(f)[j - 1] = Shift(g)[j - 1]
        BY <2>1, <4>1
      <4> QED
        BY <1>3, <4>1, <4>2
    <3> QED
      BY <3>1, <3>2
  <2> QED
    BY <2>2, <2>3 DEF Less
<1>7. ASSUME Less(f, g), ~(f[1] < g[1])
      PROVE  f[1] = g[1] /\ Less(Shift(f), Shift(g))
  <2>1. PICK i \in Positive : f[i] < g[i] /\ \A j \in Positive : j < i => f[j] = g[j]
    BY <1>7 DEF Less
  <2>2. i # 1
    BY <1>7, <2>1
  <2> DEFINE h == i - 1
  <2>3. h \in Positive /\ h + 1 = i /\ 1 < i
    BY <2>2 DEF Positive
  <2> HIDE DEF h
  <2>4. f[1] = g[1]
    BY <1>2, <2>1, <2>3
  <2>5. Shift(f)[h] < Shift(g)[h]
    BY <1>3, <2>1, <2>3
  <2>6. ASSUME NEW j \in Positive, j < h PROVE Shift(f)[j] = Shift(g)[j]
    <3>1. j + 1 \in Positive /\ j + 1 < i
      BY <1>1, <2>3, <2>6
    <3> QED
      BY <1>3, <2>1, <3>1
  <2> QED
    BY <2>3, <2>4, <2>5, <2>6 DEF Less
<1> QED
  BY <1>4, <1>5, <1>6, <1>7

(* The parts from a place on: a character that is no digit, or else the    *)
(* end of such characters and a number. *)
LEMMA KeyOfCharacter ==
    ASSUME NEW s \in Seq(Nat), NEW i \in 1..Len(s), s[i] \notin Digits
    PROVE  /\ Key(PartsFrom(s)[i])[1] = Weight(s[i])
           /\ Shift(Key(PartsFrom(s)[i])) = Key(PartsFrom(s)[i + 1])
<1> DEFINE p == PartsFrom(s)[i]
           q == PartsFrom(s)[i + 1]
           w == <<Weight(s[i])>>
<1>1. Len(s) \in Nat /\ i \in 1..(Len(s) + 1) /\ i + 1 \in 1..(Len(s) + 1)
      /\ ~(i > Len(s)) /\ s[i] \in Nat
  OBVIOUS
<1>2. p = w \o q
  BY <1>1, PartsSteps DEF Rest
<1>3. p \in Seq(Int) /\ q \in Seq(Int)
  BY <1>1, PartsSteps
<1>4. w \in Seq(Int) /\ Len(w) = 1 /\ w[1] = Weight(s[i])
  BY <1>1, WeightIsInt
<1> HIDE DEF p, q, w
<1>5. Len(p) = 1 + Len(q) /\ Len(q) \in Nat
      /\ \A x \in 1..(1 + Len(q)) : p[x] = IF x <= 1 THEN w[x] ELSE q[x - 1]
  <2>1. Len(w \o q) = Len(w) + Len(q)
        /\ \A x \in 1..(Len(w) + Len(q)) :
              (w \o q)[x] = IF x <= Len(w) THEN w[x] ELSE q[x - Len(w)]
    BY <1>3, <1>4, ConcatProperties
  <2>2. Len(q) \in Nat
    BY <1>3
  <2> QED
    BY <1>2, <1>4, <2>1, <2>2
<1>6. Key(p)[1] = Weight(s[i])
  <2>1. 1 \in Positive /\ 1 <= Len(p) /\ 1 \in 1..(1 + Len(q))
    BY <1>5 DEF Positive
  <2> QED
    BY <1>3, <1>4, <1>5, <2>1, KeyType
<1>7. ASSUME NEW x \in Positive PROVE Key(p)[x + 1] = Key(q)[x]
  <2>1. x \in Nat /\ x >= 1 /\ x + 1 \in Positive /\ (x + 1) - 1 = x
    BY DEF Positive
  <2>2. Key(p)[x + 1] = IF x + 1 <= Len(p) THEN p[x + 1] ELSE 0
    BY <1>3, <2>1, KeyType
  <2>3. Key(q)[x] = IF x <= Len(q) THEN q[x] ELSE 0
    BY <1>3, KeyType
  <2>4. x <= Len(q) => x + 1 <= Len(p) /\ p[x + 1] = q[x]
    BY <1>5, <2>1
  <2>5. ~(x <= Len(q)) => ~(x + 1 <= Len(p))
    BY <1>5, <2>1
  <2> QED
    BY <2>2, <2>3, <2>4, <2>5
<1>8. Shift(Key(p)) = Key(q)
  <2>1. Key(q) = [x \in Positive |-> Key(q)[x]]
    BY DEF Key
  <2> QED
    BY <1>7, <2>1 DEF Shift
<1> QED
  BY <1>6, <1>8 DEF p, q

LEMMA KeyOfNumber ==
    ASSUME NEW s \in Seq(Nat), NEW i \in 1..(Len(s) + 1), i <= Len(s) => s[i] \in Digits
    PROVE  /\ Key(PartsFrom(s)[i])[1] = 0
           /\ Shift(Key(PartsFrom(s)[i]))[1] = Number(s, i, Past(Digits, s, i))
           /\ Shift(Shift(Key(PartsFrom(s)[i]))) = Key(PartsFrom(s)[Past(Digits, s, i)])
<1> DEFINE k == Past(Digits, s, i)
           p == PartsFrom(s)[i]
           q == PartsFrom(s)[k]
           n == Number(s, i, k)
           w == <<0, n>>
<1>1. Len(s) \in Nat /\ k \in i..(Len(s) + 1) /\ k \in 1..(Len(s) + 1)
  BY PastStops, PastIn
<1>2. p \in Seq(Int) /\ q \in Seq(Int) /\ n \in Int
  BY <1>1, PartsSteps, NumberSteps
<1>3. \A x \in Positive : x \in Nat /\ x >= 1 /\ x + 1 \in Positive /\ (x + 1) + 1 \in Positive
                         /\ (x + 1) + 1 = x + 2 /\ (x + 2) - 2 = x
  BY DEF Positive
<1>4. 1 \in Positive /\ 2 \in Positive /\ 1 + 1 = 2
  BY DEF Positive
<1>5. Key(p)[1] = 0 /\ Key(p)[2] = n /\ \A x \in Positive : Key(p)[x + 2] = Key(q)[x]
  <2>1. CASE i > Len(s)
    <3>1. k = i /\ i = Len(s) + 1
      BY <1>1, <2>1
    <3>2. p = <<>> /\ q = <<>>
      BY <2>1, <3>1, PartsSteps DEF Rest
    <3>3. n = 0
      BY <3>1, NumberSteps
    <3>4. \A x \in Positive : Key(<<>>)[x] = 0
      <4>1. <<>> \in Seq(Int) /\ Len(<<>>) = 0
        OBVIOUS
      <4>2. ASSUME NEW x \in Positive PROVE Key(<<>>)[x] = 0
        <5>1. ~(x <= 0)
          BY DEF Positive
        <5>2. Key(<<>>)[x] = IF x <= Len(<<>>) THEN <<>>[x] ELSE 0
          BY <4>1, KeyType
        <5> QED
          BY <4>1, <5>1, <5>2
      <4> QED
        BY <4>2
    <3> HIDE DEF k, p, q, n
    <3> QED
      BY <1>3, <1>4, <3>2, <3>3, <3>4
  <2>2. CASE i <= Len(s)
    <3>0. ~(i > Len(s)) /\ s[i] \in Digits
      BY <1>1, <2>2
    <3>1. p = w \o q
      <4>1. p = Rest(s, PartsFrom(s), i)
        BY PartsSteps
      <4>2. Rest(s, PartsFrom(s), i) = w \o q
        BY <3>0 DEF Rest
      <4> QED
        BY <4>1, <4>2
    <3> HIDE DEF k, p, q, n
    <3>2. w \in Seq(Int) /\ Len(w) = 2 /\ w[1] = 0 /\ w[2] = n
      BY <1>2
    <3> HIDE DEF w
    <3>3. Len(p) = 2 + Len(q) /\ Len(q) \in Nat
          /\ \A x \in 1..(2 + Len(q)) : p[x] = IF x <= 2 THEN w[x] ELSE q[x - 2]
      <4>1. Len(w \o q) = Len(w) + Len(q)
            /\ \A x \in 1..(Len(w) + Len(q)) :
                  (w \o q)[x] = IF x <= Len(w) THEN w[x] ELSE q[x - Len(w)]
        BY <1>2, <3>2, ConcatProperties
      <4>2. Len(q) \in Nat
        BY <1>2
      <4> QED
        BY <3>1, <3>2, <4>1, <4>2
    <3>4. p[1] = 0 /\ p[2] = n /\ 1 <= Len(p) /\ 2 <= Len(p)
      BY <3>2, <3>3
    <3>5. Key(p)[1] = 0 /\ Key(p)[2] = n
      BY <1>2, <1>4, <3>4, KeyType
    <3>6. ASSUME NEW x \in Positive PROVE Key(p)[x + 2] = Key(q)[x]
      <4>1. x \in Nat /\ x >= 1 /\ x + 2 \in Positive /\ (x + 2) - 2 = x
        BY <1>3
      <4>2. Key(p)[x + 2] = IF x + 2 <= Len(p) THEN p[x + 2] ELSE 0
        BY <1>2, <4>1, KeyType
      <4>3. Key(q)[x] = IF x <= Len(q) THEN q[x] ELSE 0
        BY <1>2, KeyType
      <4>4. x <= Len(q) => x + 2 <= Len(p) /\ p[x + 2] = q[x]
        BY <3>3, <4>1
      <4>5. ~(x <= Len(q)) => ~(x + 2 <= Len(p))
        BY <3>3, <4>1
      <4> QED
        BY <4>2, <4>3, <4>4, <4>5
    <3> QED
      BY <3>5, <3>6
  <2> QED
    BY <1>1, <2>1, <2>2
<1> HIDE DEF k, p, q, n
<1>6. Shift(Key(p))[1] = n
  BY <1>4, <1>5 DEF Shift
<1>7. Shift(Shift(Key(p))) = Key(q)
  <2>1. \A x \in Positive : Shift(Shift(Key(p)))[x] = Key(p)[x + 2]
    BY <1>3 DEF Shift
  <2>2. Shift(Shift(Key(p))) = [x \in Positive |-> Key(p)[x + 2]]
    BY <2>1 DEF Shift
  <2>3. Key(q) = [x \in Positive |-> Key(q)[x]]
    BY DEF Key
  <2> QED
    BY <1>5, <2>2, <2>3
<1> QED
  BY <1>5, <1>6, <1>7 DEF k, p, q, n

-----------------------------------------------------------------------------
(* From every pair of places on the loop yields the order of the parts     *)
(* that are left. *)
Agrees(a, b, i, j) ==
    /\ From(a, b)[<<i, j>>] \in Int
    /\ From(a, b)[<<i, j>>] < 0 <=> Less(Key(PartsFrom(a)[i]), Key(PartsFrom(b)[j]))
    /\ From(a, b)[<<i, j>>] > 0 <=> Less(Key(PartsFrom(b)[j]), Key(PartsFrom(a)[i]))

LEMMA NothingLeft ==
    ASSUME NEW a \in Seq(Nat), NEW b \in Seq(Nat),
           NEW i \in 1..(Len(a) + 1), NEW j \in 1..(Len(b) + 1),
           i > Len(a), j > Len(b)
    PROVE  Agrees(a, b, i, j)
<1>1. From(a, b)[<<i, j>>] = 0
  BY FromSteps DEF Step
<1>2. PartsFrom(a)[i] = <<>> /\ PartsFrom(b)[j] = <<>>
  BY PartsSteps DEF Rest
<1>3. <<>> \in Seq(Int)
  OBVIOUS
<1>4. ~Less(Key(<<>>), Key(<<>>))
  <2>1. Key(<<>>) \in [Positive -> Int]
    BY <1>3, KeyType
  <2> QED
    BY <2>1 DEF Less
<1> QED
  BY <1>1, <1>2, <1>4 DEF Agrees

LEMMA CharactersAgree ==
    ASSUME NEW a \in Seq(Nat), NEW b \in Seq(Nat),
           NEW i \in 1..(Len(a) + 1), NEW j \in 1..(Len(b) + 1),
           ~(i > Len(a) /\ j > Len(b)),
           (i <= Len(a) /\ a[i] \notin Digits) \/ (j <= Len(b) /\ b[j] \notin Digits),
           i <= Len(a) /\ j <= Len(b) => Agrees(a, b, i + 1, j + 1)
    PROVE  Agrees(a, b, i, j)
<1> DEFINE f == Key(PartsFrom(a)[i])
           g == Key(PartsFrom(b)[j])
           u == OrderAt(a, i)
           v == OrderAt(b, j)
           r == From(a, b)[<<i, j>>]
<1>1. Len(a) \in Nat /\ Len(b) \in Nat
  OBVIOUS
<1>2. r = IF u # v THEN u - v ELSE From(a, b)[<<i + 1, j + 1>>]
  BY FromSteps DEF Step
<1>3. u \in Int /\ v \in Int
  BY OrderAtSays
<1>4. f \in [Positive -> Int] /\ g \in [Positive -> Int]
  BY PartsSteps, KeyType
<1>5. f[1] = u
  <2>1. CASE i <= Len(a) /\ a[i] \notin Digits
    <3>1. i \in 1..Len(a)
      BY <1>1, <2>1
    <3> QED
      BY <2>1, <3>1, KeyOfCharacter, OrderAtSays
  <2>2. CASE ~(i <= Len(a) /\ a[i] \notin Digits)
    <3>1. u = 0
      BY <2>2, OrderAtSays
    <3>2. f[1] = 0
      BY <2>2, KeyOfNumber
    <3> QED
      BY <3>1, <3>2
  <2> QED
    BY <2>1, <2>2
<1>6. g[1] = v
  <2>1. CASE j <= Len(b) /\ b[j] \notin Digits
    <3>1. j \in 1..Len(b)
      BY <1>1, <2>1
    <3> QED
      BY <2>1, <3>1, KeyOfCharacter, OrderAtSays
  <2>2. CASE ~(j <= Len(b) /\ b[j] \notin Digits)
    <3>1. v = 0
      BY <2>2, OrderAtSays
    <3>2. g[1] = 0
      BY <2>2, KeyOfNumber
    <3> QED
      BY <3>1, <3>2
  <2> QED
    BY <2>1, <2>2
<1>7. CASE u # v
  <2>1. r = u - v
    BY <1>2, <1>7
  <2>2. (Less(f, g) <=> u < v) /\ (Less(g, f) <=> v < u)
    <3> HIDE DEF f, g, u, v
    <3>1. /\ Less(f, g) <=> f[1] < g[1] \/ (f[1] = g[1] /\ Less(Shift(f), Shift(g)))
          /\ Less(g, f) <=> g[1] < f[1] \/ (g[1] = f[1] /\ Less(Shift(g), Shift(f)))
      BY <1>4, LessByFirst
    <3> QED
      BY <1>5, <1>6, <1>7, <3>1
  <2> HIDE DEF f, g, u, v, r
  <2>3. r \in Int /\ (r < 0 <=> u < v) /\ (r > 0 <=> v < u)
    BY <1>3, <2>1
  <2> QED
    BY <2>2, <2>3 DEF Agrees, f, g, r
<1>8. CASE u = v
  <2>1. i <= Len(a) /\ j <= Len(b) /\ a[i] \notin Digits /\ b[j] \notin Digits
    BY <1>8, LeftFalls
  <2>2. i \in 1..Len(a) /\ j \in 1..Len(b)
    BY <1>1, <2>1
  <2>3. /\ Shift(f) = Key(PartsFrom(a)[i + 1])
        /\ Shift(g) = Key(PartsFrom(b)[j + 1])
    BY <2>1, <2>2, KeyOfCharacter
  <2>4. (Less(f, g) <=> Less(Shift(f), Shift(g))) /\ (Less(g, f) <=> Less(Shift(g), Shift(f)))
    <3>1. f[1] = g[1] /\ ~(f[1] < g[1]) /\ ~(g[1] < f[1])
      BY <1>3, <1>5, <1>6, <1>8
    <3> HIDE DEF f, g
    <3> QED
      BY <1>4, <3>1, LessByFirst
  <2>5. r = From(a, b)[<<i + 1, j + 1>>]
    BY <1>2, <1>8
  <2>6. Agrees(a, b, i + 1, j + 1)
    BY <2>1
  <2> QED
    BY <2>3, <2>4, <2>5, <2>6 DEF Agrees
<1> QED
  BY <1>7, <1>8

LEMMA NumbersAgree ==
    ASSUME NEW a \in Seq(Nat), NEW b \in Seq(Nat),
           NEW i \in 1..(Len(a) + 1), NEW j \in 1..(Len(b) + 1),
           ~(i > Len(a) /\ j > Len(b)),
           i <= Len(a) => a[i] \in Digits, j <= Len(b) => b[j] \in Digits,
           Agrees(a, b, Past(Digits, a, i), Past(Digits, b, j))
    PROVE  Agrees(a, b, i, j)
<1> DEFINE k == Past(Digits, a, i)
           l == Past(Digits, b, j)
           f == Key(PartsFrom(a)[i])
           g == Key(PartsFrom(b)[j])
           p == Number(a, i, k)
           q == Number(b, j, l)
           c == CompareNumbers(a, b, i, j)
           r == From(a, b)[<<i, j>>]
<1>1. r = IF c # 0 THEN c ELSE From(a, b)[<<k, l>>]
  <2>1. r = Step(a, b, From(a, b), i, j)
    BY FromSteps
  <2>2. ~(\/ i <= Len(a) /\ a[i] \notin Digits
          \/ j <= Len(b) /\ b[j] \notin Digits)
    OBVIOUS
  <2> QED
    BY <2>1, <2>2, Zenon DEF Step
<1>2. /\ p \in Int /\ q \in Int /\ c \in Int
      /\ c < 0 <=> p < q
      /\ c > 0 <=> q < p
  BY NumbersCompared
<1>3. f \in [Positive -> Int] /\ g \in [Positive -> Int]
  BY PartsSteps, KeyType
<1>4. f[1] = 0 /\ Shift(f)[1] = p /\ Shift(Shift(f)) = Key(PartsFrom(a)[k])
  BY KeyOfNumber
<1>5. g[1] = 0 /\ Shift(g)[1] = q /\ Shift(Shift(g)) = Key(PartsFrom(b)[l])
  BY KeyOfNumber
<1>6. /\ From(a, b)[<<k, l>>] \in Int
      /\ From(a, b)[<<k, l>>] < 0 <=> Less(Shift(Shift(f)), Shift(Shift(g)))
      /\ From(a, b)[<<k, l>>] > 0 <=> Less(Shift(Shift(g)), Shift(Shift(f)))
  BY <1>4, <1>5 DEF Agrees
<1> HIDE DEF k, l, f, g, p, q, c, r
<1>7. Shift(f) \in [Positive -> Int] /\ Shift(g) \in [Positive -> Int]
  BY <1>3, LessByFirst
<1>8. (Less(f, g) <=> Less(Shift(f), Shift(g))) /\ (Less(g, f) <=> Less(Shift(g), Shift(f)))
  <2>1. f[1] = g[1] /\ ~(f[1] < g[1]) /\ ~(g[1] < f[1])
    BY <1>4, <1>5
  <2> QED
    BY <1>3, <2>1, LessByFirst
<1>9. /\ Less(Shift(f), Shift(g)) <=> p < q \/ (p = q /\ Less(Shift(Shift(f)), Shift(Shift(g))))
      /\ Less(Shift(g), Shift(f)) <=> q < p \/ (q = p /\ Less(Shift(Shift(g)), Shift(Shift(f))))
  BY <1>4, <1>5, <1>7, LessByFirst
<1>10. CASE c # 0
  BY <1>1, <1>2, <1>8, <1>9, <1>10 DEF Agrees, f, g, r
<1>11. CASE c = 0
  <2>1. p = q
    BY <1>2, <1>11
  <2>2. ~(p < q) /\ ~(q < p)
    BY <1>2, <2>1
  <2>3. r = From(a, b)[<<k, l>>]
    BY <1>1, <1>11
  <2> QED
    BY <1>6, <1>8, <1>9, <2>1, <2>2, <2>3 DEF Agrees, f, g, r
<1> QED
  BY <1>10, <1>11

LEMMA AllAgree ==
    ASSUME NEW a \in Seq(Nat), NEW b \in Seq(Nat),
           NEW i \in 1..(Len(a) + 1), NEW j \in 1..(Len(b) + 1)
    PROVE  Agrees(a, b, i, j)
<1> DEFINE P(m) == \A x \in 1..(Len(a) + 1), y \in 1..(Len(b) + 1) :
                      Left(a, b, x, y) < m => Agrees(a, b, x, y)
<1>0. Len(a) \in Nat /\ Len(b) \in Nat
  OBVIOUS
<1>1. P(0)
  <2>1. ASSUME NEW x \in 1..(Len(a) + 1), NEW y \in 1..(Len(b) + 1)
        PROVE  ~(Left(a, b, x, y) < 0)
    <3>1. Left(a, b, x, y) \in Nat
      BY LeftIsNat
    <3> QED
      BY <3>1
  <2> QED
    BY <2>1
<1>2. ASSUME NEW m \in Nat, P(m) PROVE P(m + 1)
  <2> SUFFICES ASSUME NEW x \in 1..(Len(a) + 1), NEW y \in 1..(Len(b) + 1),
                      Left(a, b, x, y) < m + 1
               PROVE  Agrees(a, b, x, y)
    OBVIOUS
  <2>0. Left(a, b, x, y) \in Nat
    BY LeftIsNat
  <2>1. Left(a, b, x, y) \in Nat /\ Left(a, b, x, y) <= m
    BY <2>0
  <2>2. CASE x > Len(a) /\ y > Len(b)
    BY <2>2, NothingLeft
  <2>3. CASE /\ ~(x > Len(a) /\ y > Len(b))
             /\ (x <= Len(a) /\ a[x] \notin Digits) \/ (y <= Len(b) /\ b[y] \notin Digits)
    <3>1. ASSUME x <= Len(a), y <= Len(b) PROVE Agrees(a, b, x + 1, y + 1)
      <4>1. x + 1 \in 1..(Len(a) + 1) /\ y + 1 \in 1..(Len(b) + 1)
        BY <1>0, <3>1
      <4>2. Left(a, b, x + 1, y + 1) < m
        BY <1>0, <2>1 DEF Left
      <4> QED
        BY <1>2, <4>1, <4>2
    <3> QED
      BY <2>3, <3>1, CharactersAgree
  <2>4. CASE /\ ~(x > Len(a) /\ y > Len(b))
             /\ x <= Len(a) => a[x] \in Digits
             /\ y <= Len(b) => b[y] \in Digits
    <3>1. Past(Digits, a, x) \in 1..(Len(a) + 1) /\ Past(Digits, b, y) \in 1..(Len(b) + 1)
      BY PastIn
    <3>2. Left(a, b, Past(Digits, a, x), Past(Digits, b, y)) < Left(a, b, x, y)
      BY <2>4, LeftFalls
    <3>3. Left(a, b, Past(Digits, a, x), Past(Digits, b, y)) \in Nat
      BY <3>1, LeftIsNat
    <3>4. Left(a, b, Past(Digits, a, x), Past(Digits, b, y)) < m
      BY <2>1, <3>2, <3>3
    <3>5. Agrees(a, b, Past(Digits, a, x), Past(Digits, b, y))
      BY <1>2, <3>1, <3>4
    <3> QED
      BY <2>4, <3>5, NumbersAgree
  <2> QED
    BY <2>2, <2>3, <2>4
<1>3. \A m \in Nat : P(m)
  <2> HIDE DEF P
  <2> DEFINE S == {m \in Nat : P(m)}
  <2>1. 0 \in S /\ S \in SUBSET Nat
    BY <1>1
  <2>2. \A m \in S : m + 1 \in S
    BY <1>2
  <2> HIDE DEF S
  <2>3. S = Nat
    BY <2>1, <2>2, NatInduct
  <2> QED
    BY <2>3 DEF S
<1>4. Left(a, b, i, j) \in Nat
  BY LeftIsNat
<1>5. P(Left(a, b, i, j) + 1) /\ Left(a, b, i, j) < Left(a, b, i, j) + 1
  BY <1>3, <1>4
<1> QED
  BY <1>5

(* So strings are compared as the policy has it. *)
LEMMA VerRevCompIsBefore ==
    ASSUME NEW a \in Seq(Nat), NEW b \in Seq(Nat)
    PROVE  /\ VerRevComp(a, b) \in Int
           /\ VerRevComp(a, b) < 0 <=> Before(a, b)
           /\ VerRevComp(a, b) > 0 <=> Before(b, a)
<1>1. 1 \in 1..(Len(a) + 1) /\ 1 \in 1..(Len(b) + 1)
  OBVIOUS
<1>2. Agrees(a, b, 1, 1)
  BY <1>1, AllAgree
<1>3. Parts(a) \in Seq(Int) /\ Parts(b) \in Seq(Int)
  BY <1>1, PartsIsPartsFrom, PartsSteps
<1>4. /\ Before(a, b) <=> Less(Key(Parts(a)), Key(Parts(b)))
      /\ Before(b, a) <=> Less(Key(Parts(b)), Key(Parts(a)))
  BY <1>3, SmallerIsLess DEF Before
<1> QED
  BY <1>2, <1>4, PartsIsPartsFrom, VerRevCompIsFrom DEF Agrees

-----------------------------------------------------------------------------
(* The greatest of a set of numbers that has a bound is one of them. *)
LEMMA MaxIsGreatest ==
    ASSUME NEW n \in Nat, NEW S \in SUBSET (0..n), S # {}
    PROVE  Max(S) \in S /\ \A j \in S : j <= Max(S)
<1> DEFINE bounds == {k \in Nat : \A j \in S : j <= k}
           m == Min(bounds)
<1>1. m \in bounds /\ \A k \in bounds : m <= k
  <2>1. bounds \subseteq Nat /\ n \in bounds
    OBVIOUS
  <2> HIDE DEF bounds
  <2> QED
    BY <2>1, MinIsLeast
<1> HIDE DEF m
<1>2. m \in Nat /\ \A j \in S : j \in Nat /\ j <= m
  BY <1>1
<1>3. m \in S
  <2> SUFFICES ASSUME m \notin S PROVE FALSE
    OBVIOUS
  <2>1. \A j \in S : j <= m - 1
    BY <1>2
  <2>2. m - 1 \in Nat
    <3>1. PICK j \in S : TRUE
      OBVIOUS
    <3>2. j \in Nat /\ j <= m - 1
      BY <1>2, <2>1
    <3> QED
      BY <1>2, <3>2
  <2>3. m - 1 \in bounds
    BY <2>1, <2>2
  <2> QED
    BY <1>1, <1>2, <2>3
<1> QED
  BY <1>2, <1>3 DEF Max

(* The parts of a version are strings. *)
LEMMA RevisionInside ==
    ASSUME NEW s \in Seq(Nat) PROVE RevisionAt(s) \in 0..Len(s)
<1> DEFINE dashes == {i \in 1..Len(s) : s[i] = Dash}
<1>1. Len(s) \in Nat /\ dashes \subseteq 0..Len(s)
  OBVIOUS
<1>2. dashes # {} => Max(dashes) \in 0..Len(s)
  <2> HIDE DEF dashes
  <2> QED
    BY <1>1, MaxIsGreatest
<1>3. RevisionAt(s) = 0 \/ (dashes # {} /\ RevisionAt(s) = Max(dashes))
  BY DEF RevisionAt
<1> HIDE DEF dashes
<1> QED
  BY <1>1, <1>2, <1>3

LEMMA PartsOfVersion ==
    ASSUME NEW v \in Version
    PROVE  /\ Epoch(v) \in Nat
           /\ Upstream(v) \in Seq(Nat)
           /\ Revision(v) \in Seq(Nat)
<1> DEFINE s == v.body
           r == RevisionAt(s)
<1>1. s \in Seq(Nat) /\ v.epoch \in Nat \cup {None}
  BY DEF Version
<1>2. r \in 0..Len(s) /\ Len(s) \in Nat
  BY <1>1, RevisionInside
<1>3. Epoch(v) \in Nat
  BY <1>1 DEF Epoch
<1> HIDE DEF s, r
<1>4. \A i \in 1..Len(s) : s[i] \in Nat
  BY <1>1
<1>5. SubSeq(s, 1, r - 1) \in Seq(Nat)
  <2>1. \A i \in 1..(r - 1) : s[i] \in Nat
    BY <1>2, <1>4
  <2>2. 1 \in Int /\ r - 1 \in Int
    BY <1>2
  <2> QED
    BY <2>1, <2>2, SubSeqProperties
<1>6. SubSeq(s, r + 1, Len(s)) \in Seq(Nat)
  <2>1. \A i \in (r + 1)..Len(s) : s[i] \in Nat
    BY <1>2, <1>4
  <2>2. r + 1 \in Int /\ Len(s) \in Int
    BY <1>2
  <2> QED
    BY <2>1, <2>2, SubSeqProperties
<1>7. <<Zero>> \in Seq(Nat)
  BY DEF Zero
<1> QED
  BY <1>1, <1>3, <1>5, <1>6, <1>7 DEF Upstream, Revision, s, r

(* The comparison of any versions is the order the policy has them in:     *)
(* epochs first, then the parts before the debian revision, then these.    *)
THEOREM CompareIsPolicy ==
    ASSUME NEW V \in SUBSET Version
    PROVE  OrderIsPolicy(V)
<1> SUFFICES ASSUME NEW v \in Version, NEW w \in Version
             PROVE  /\ Compare(v, w) < 0 <=> Earlier(v, w)
                    /\ Compare(v, w) > 0 <=> Earlier(w, v)
  BY DEF OrderIsPolicy
<1> DEFINE d == Epoch(v)
           e == Epoch(w)
           x == VerRevComp(Upstream(v), Upstream(w))
           y == VerRevComp(Revision(v), Revision(w))
<1>1. d \in Nat /\ e \in Nat
  BY PartsOfVersion
<1>2. /\ x \in Int
      /\ x < 0 <=> Before(Upstream(v), Upstream(w))
      /\ x > 0 <=> Before(Upstream(w), Upstream(v))
  BY PartsOfVersion, VerRevCompIsBefore
<1>3. /\ y \in Int
      /\ y < 0 <=> Before(Revision(v), Revision(w))
      /\ y > 0 <=> Before(Revision(w), Revision(v))
  BY PartsOfVersion, VerRevCompIsBefore
<1>4. Compare(v, w) = IF d # e THEN d - e ELSE IF x # 0 THEN x ELSE y
  BY DEF Compare
<1>5. Earlier(v, w) <=> \/ d < e
                        \/ d = e /\ x < 0
                        \/ d = e /\ ~(x > 0) /\ y < 0
  BY <1>2, <1>3 DEF Earlier
<1>6. Earlier(w, v) <=> \/ e < d
                        \/ e = d /\ x > 0
                        \/ e = d /\ ~(x < 0) /\ y > 0
  BY <1>2, <1>3 DEF Earlier
<1>7. x \in Int /\ y \in Int
  BY <1>2, <1>3
<1> HIDE DEF d, e, x, y
<1> QED
  BY <1>1, <1>4, <1>5, <1>6, <1>7

-----------------------------------------------------------------------------
(* Sequences of numbers without an end are in a strict total order. *)
LEMMA LessIsOrder ==
    ASSUME NEW f \in [Positive -> Int], NEW g \in [Positive -> Int],
           NEW h \in [Positive -> Int]
    PROVE  /\ ~Less(f, f)
           /\ Less(f, g) /\ Less(g, h) => Less(f, h)
           /\ Less(f, g) \/ Less(g, f) \/ f = g
<1>1. \A x \in Positive : f[x] \in Int /\ g[x] \in Int /\ h[x] \in Int
  OBVIOUS
<1>2. ~Less(f, f)
  BY <1>1 DEF Less
<1>3. ASSUME Less(f, g), Less(g, h) PROVE Less(f, h)
  <2>1. PICK i \in Positive : f[i] < g[i] /\ \A x \in Positive : x < i => f[x] = g[x]
    BY <1>3 DEF Less
  <2>2. PICK j \in Positive : g[j] < h[j] /\ \A x \in Positive : x < j => g[x] = h[x]
    BY <1>3 DEF Less
  <2>3. i \in Int /\ j \in Int /\ \A x \in Positive : x \in Int
    BY DEF Positive
  <2>4. CASE i <= j
    <3>1. f[i] < h[i]
      <4>1. i = j \/ i < j
        BY <2>3, <2>4
      <4> QED
        BY <1>1, <2>1, <2>2, <4>1
    <3>2. \A x \in Positive : x < i => x < j
      BY <2>3, <2>4
    <3>3. \A x \in Positive : x < i => f[x] = h[x]
      BY <2>1, <2>2, <3>2
    <3> QED
      BY <3>1, <3>3 DEF Less
  <2>5. CASE j < i
    <3>1. f[j] < h[j]
      BY <2>1, <2>2, <2>5
    <3>2. \A x \in Positive : x < j => x < i
      BY <2>3, <2>5
    <3>3. \A x \in Positive : x < j => f[x] = h[x]
      BY <2>1, <2>2, <3>2
    <3> QED
      BY <3>1, <3>3 DEF Less
  <2> QED
    BY <2>3, <2>4, <2>5
<1>4. ASSUME f # g PROVE Less(f, g) \/ Less(g, f)
  <2> DEFINE D == {x \in Positive : f[x] # g[x]}
             i == Min(D)
  <2>1. D # {} /\ D \subseteq Nat
    BY <1>4 DEF Positive
  <2>2. i \in D /\ \A x \in D : i <= x
    <3> HIDE DEF D
    <3> QED
      BY <2>1, MinIsLeast
  <2> HIDE DEF i
  <2>3. \A x \in Positive : x < i => x \in Nat /\ i \in Nat /\ ~(i <= x)
    BY <2>2 DEF Positive
  <2>4. \A x \in Positive : x < i => f[x] = g[x] /\ g[x] = f[x]
    BY <2>2, <2>3
  <2>5. f[i] < g[i] \/ g[i] < f[i]
    BY <1>1, <2>2
  <2> QED
    BY <2>2, <2>4, <2>5 DEF Less
<1> QED
  BY <1>2, <1>3, <1>4

(* What the policy compares of a version: its epoch and the parts of its   *)
(* upstream version and of its revision. *)
UpKey(v)  == Key(Parts(Upstream(v)))
RevKey(v) == Key(Parts(Revision(v)))

LEMMA EarlierByKeys ==
    ASSUME NEW v \in Version, NEW w \in Version
    PROVE  /\ Epoch(v) \in Nat
           /\ UpKey(v) \in [Positive -> Int] /\ RevKey(v) \in [Positive -> Int]
           /\ Earlier(v, w) <=>
                 \/ Epoch(v) < Epoch(w)
                 \/ /\ Epoch(v) = Epoch(w)
                    /\ \/ Less(UpKey(v), UpKey(w))
                       \/ UpKey(v) = UpKey(w) /\ Less(RevKey(v), RevKey(w))
<1>1. ASSUME NEW s \in Seq(Nat) PROVE Parts(s) \in Seq(Int)
  <2>1. 1 \in 1..(Len(s) + 1)
    OBVIOUS
  <2> QED
    BY <2>1, PartsSteps, PartsIsPartsFrom
<1>2. /\ Parts(Upstream(v)) \in Seq(Int) /\ Parts(Revision(v)) \in Seq(Int)
      /\ Parts(Upstream(w)) \in Seq(Int) /\ Parts(Revision(w)) \in Seq(Int)
  BY <1>1, PartsOfVersion
<1>3. /\ Before(Upstream(v), Upstream(w)) <=> Less(UpKey(v), UpKey(w))
      /\ Before(Upstream(w), Upstream(v)) <=> Less(UpKey(w), UpKey(v))
      /\ Before(Revision(v), Revision(w)) <=> Less(RevKey(v), RevKey(w))
  BY <1>2, SmallerIsLess DEF Before, UpKey, RevKey
<1>4. /\ UpKey(v) \in [Positive -> Int] /\ UpKey(w) \in [Positive -> Int]
      /\ RevKey(v) \in [Positive -> Int]
  BY <1>2, KeyType DEF UpKey, RevKey
<1>5. /\ Less(UpKey(v), UpKey(w)) \/ Less(UpKey(w), UpKey(v)) \/ UpKey(v) = UpKey(w)
      /\ ~Less(UpKey(v), UpKey(v))
  BY <1>4, LessIsOrder
<1> QED
  BY <1>3, <1>4, <1>5, PartsOfVersion DEF Earlier

(* The order of the policy is a strict weak order of all versions: no      *)
(* version is earlier than itself, and of two versions that are not in     *)
(* order none comes between the other two. *)
LEMMA EarlierIsOrder ==
    ASSUME NEW u \in Version, NEW v \in Version, NEW w \in Version
    PROVE  /\ ~Earlier(v, v)
           /\ Earlier(u, v) /\ Earlier(v, w) => Earlier(u, w)
           /\ Earlier(u, w) => Earlier(u, v) \/ Earlier(v, w)
<1> DEFINE U(x, y) == Less(UpKey(x), UpKey(y))
           R(x, y) == Less(RevKey(x), RevKey(y))
           B(x, y) == U(x, y) \/ (UpKey(x) = UpKey(y) /\ R(x, y))
<1>1. \A x \in {u, v, w} : /\ Epoch(x) \in Nat
                           /\ UpKey(x) \in [Positive -> Int]
                           /\ RevKey(x) \in [Positive -> Int]
  BY EarlierByKeys
<1>2. ASSUME NEW x \in {u, v, w}, NEW y \in {u, v, w}
      PROVE  Earlier(x, y) <=> Epoch(x) < Epoch(y) \/ (Epoch(x) = Epoch(y) /\ B(x, y))
  BY EarlierByKeys
<1>3. \A f, g, h \in [Positive -> Int] :
          /\ ~Less(f, f)
          /\ Less(f, g) /\ Less(g, h) => Less(f, h)
          /\ Less(f, g) \/ Less(g, f) \/ f = g
  BY LessIsOrder
<1>4. ~Earlier(v, v)
  BY <1>1, <1>2, <1>3
<1>5. ASSUME Earlier(u, v), Earlier(v, w) PROVE Earlier(u, w)
  <2>1. CASE Epoch(u) = Epoch(v) /\ Epoch(v) = Epoch(w)
    <3>1. B(u, v) /\ B(v, w)
      <4> HIDE DEF B
      <4> QED
        BY <1>1, <1>2, <1>5, <2>1
    <3>2. B(u, w)
      BY <1>1, <1>3, <3>1
    <3> QED
      BY <1>2, <2>1, <3>2
  <2>2. CASE ~(Epoch(u) = Epoch(v) /\ Epoch(v) = Epoch(w))
    <3> HIDE DEF B
    <3> QED
      BY <1>1, <1>2, <1>5, <2>2
  <2> QED
    BY <2>1, <2>2
<1>6. ASSUME Earlier(u, w), ~Earlier(u, v), ~Earlier(v, w) PROVE FALSE
  <2>1. Epoch(u) = Epoch(v) /\ Epoch(v) = Epoch(w) /\ ~B(u, v) /\ ~B(v, w) /\ B(u, w)
    <3> HIDE DEF B
    <3> QED
      BY <1>1, <1>2, <1>6
  <2>2. /\ ~U(u, v) /\ ~(UpKey(u) = UpKey(v) /\ R(u, v))
        /\ ~U(v, w) /\ ~(UpKey(v) = UpKey(w) /\ R(v, w))
        /\ U(u, w) \/ (UpKey(u) = UpKey(w) /\ R(u, w))
    BY <2>1
  <2>3. (U(v, u) \/ UpKey(v) = UpKey(u)) /\ (U(w, v) \/ UpKey(w) = UpKey(v))
    BY <1>1, <1>3, <2>2
  <2>4. UpKey(u) = UpKey(v) /\ UpKey(v) = UpKey(w)
    BY <1>1, <1>3, <2>2, <2>3
  <2>5. (R(v, u) \/ RevKey(v) = RevKey(u)) /\ (R(w, v) \/ RevKey(w) = RevKey(v))
    BY <1>1, <1>3, <2>2, <2>4
  <2> QED
    BY <1>1, <1>3, <2>2, <2>4, <2>5
<1> QED
  BY <1>4, <1>5, <1>6

(* The comparison of debversion.py is an order of all versions, of any     *)
(* length: it never contradicts itself, whichever of two versions comes    *)
(* first, and whatever versions are between them. *)
THEOREM CompareIsOrder ==
    ASSUME NEW u \in Version, NEW v \in Version, NEW w \in Version
    PROVE  /\ Compare(v, v) = 0
           /\ Compare(u, v) < 0 <=> Compare(v, u) > 0
           /\ Compare(u, v) <= 0 /\ Compare(v, w) <= 0 => Compare(u, w) <= 0
           /\ Compare(u, v) <= 0 /\ Compare(v, w) < 0 => Compare(u, w) < 0
           /\ Compare(u, v) < 0 /\ Compare(v, w) <= 0 => Compare(u, w) < 0
<1>1. ASSUME NEW x \in Version, NEW y \in Version
      PROVE  /\ Compare(x, y) \in Int
             /\ Compare(x, y) < 0 <=> Earlier(x, y)
             /\ Compare(x, y) > 0 <=> Earlier(y, x)
  <2>1. OrderIsPolicy(Version)
    BY CompareIsPolicy
  <2>2. Compare(x, y) \in Int
    <3>1. /\ Epoch(x) \in Nat /\ Epoch(y) \in Nat
          /\ VerRevComp(Upstream(x), Upstream(y)) \in Int
          /\ VerRevComp(Revision(x), Revision(y)) \in Int
      BY PartsOfVersion, VerRevCompIsBefore
    <3> QED
      BY <3>1 DEF Compare
  <2> QED
    BY <2>1, <2>2 DEF OrderIsPolicy
<1>2. /\ ~Earlier(v, v)
      /\ Earlier(w, u) => Earlier(w, v) \/ Earlier(v, u)
      /\ Earlier(v, w) => Earlier(v, u) \/ Earlier(u, w)
      /\ Earlier(u, v) => Earlier(u, w) \/ Earlier(w, v)
  BY EarlierIsOrder
<1>3. /\ Compare(v, v) \in Int /\ Compare(u, v) \in Int /\ Compare(v, u) \in Int
      /\ Compare(v, w) \in Int /\ Compare(u, w) \in Int
  BY <1>1
<1>4. /\ Compare(v, v) < 0 <=> Earlier(v, v)
      /\ Compare(v, v) > 0 <=> Earlier(v, v)
      /\ Compare(u, v) < 0 <=> Earlier(u, v)
      /\ Compare(u, v) > 0 <=> Earlier(v, u)
      /\ Compare(v, u) > 0 <=> Earlier(u, v)
      /\ Compare(v, w) < 0 <=> Earlier(v, w)
      /\ Compare(v, w) > 0 <=> Earlier(w, v)
      /\ Compare(u, w) < 0 <=> Earlier(u, w)
      /\ Compare(u, w) > 0 <=> Earlier(w, u)
  BY <1>1
<1> QED
  BY <1>2, <1>3, <1>4
=============================================================================

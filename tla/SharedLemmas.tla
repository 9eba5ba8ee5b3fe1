---------------------------- MODULE SharedLemmas ----------------------------
(***************************************************************************)
(* Facts about numbers and sequences that the proofs of several components *)
(* share.                                                                  *)
(*                                                                         *)
(* The ring of N slots with one slot always free, as                       *)
(* PersistentMessageQueue computes it: positions that advance by one and   *)
(* wrap, the number of slots from the read to the write position, and the  *)
(* i-th slot from a position.                                              *)
(*                                                                         *)
(* Induction over the naturals, stated with sets in place of predicates,   *)
(* and what follows from it: that a recursion defines a function.          *)
(*                                                                         *)
(* Division, up to the digits of a number; sequences joined and cut.       *)
(***************************************************************************)
EXTENDS Integers, Sequences, WellFoundedInduction, TLAPS

Following(N, x)   == (x + 1) % N
Distance(N, w, r) == IF w >= r THEN w - r ELSE N - r + w
Nth(N, r, i)      == (r + i) % N

(* Positions advance by one and wrap at the capacity. *)
LEMMA FollowingValue ==
  ASSUME NEW N \in Nat \ {0}, NEW x \in 0 .. N - 1
  PROVE  /\ Following(N, x) = IF x + 1 = N THEN 0 ELSE x + 1
         /\ Following(N, x) \in 0 .. N - 1
<1>1. x \in Int /\ x + 1 \in 1 .. N
  OBVIOUS
<1>2. (x + 1) % N = IF x + 1 = N THEN 0 ELSE x + 1
  BY <1>1
<1>. QED
  BY <1>1, <1>2 DEF Following

(* The i-th slot from a position, without the modulo. *)
LEMMA NthValue ==
  ASSUME NEW N \in Nat \ {0}, NEW r \in 0 .. N - 1, NEW i \in 0 .. N - 1
  PROVE  /\ Nth(N, r, i) = IF r + i < N THEN r + i ELSE r + i - N
         /\ Nth(N, r, i) \in 0 .. N - 1
<1>1. r \in Int /\ i \in Int /\ r + i \in 0 .. 2 * N - 1
  OBVIOUS
<1>2. (r + i) % N = IF r + i < N THEN r + i ELSE r + i - N
  BY <1>1, SMTT(30)
<1>. QED
  BY <1>1, <1>2 DEF Nth

(* One slot always stays free: a full ring uses all the others. *)
LEMMA DistanceValue ==
  ASSUME NEW N \in Nat \ {0}, NEW w \in 0 .. N - 1, NEW r \in 0 .. N - 1
  PROVE  /\ Distance(N, w, r) \in 0 .. N - 1
         /\ w = r <=> Distance(N, w, r) = 0
         /\ Following(N, w) = r <=> Distance(N, w, r) = N - 1
BY FollowingValue DEF Distance

(* Storing at the write position adds the last slot and moves no other. *)
LEMMA StoreMoves ==
  ASSUME NEW N \in Nat \ {0}, NEW w \in 0 .. N - 1, NEW r \in 0 .. N - 1,
         Following(N, w) # r
  PROVE  /\ Distance(N, Following(N, w), r) = Distance(N, w, r) + 1
         /\ Nth(N, r, Distance(N, w, r)) = w
         /\ \A i \in 0 .. Distance(N, w, r) - 1 :
              Nth(N, r, i) \in 0 .. N - 1 /\ Nth(N, r, i) # w
<1>1. Distance(N, w, r) \in 0 .. N - 1
  BY DistanceValue
<1>2. Distance(N, Following(N, w), r) = Distance(N, w, r) + 1
  <2>1. Following(N, w) = (IF w + 1 = N THEN 0 ELSE w + 1)
    BY FollowingValue
  <2>. QED
    BY <2>1 DEF Distance
<1>3. Nth(N, r, Distance(N, w, r)) = w
  <2>1. Nth(N, r, Distance(N, w, r)) = IF r + Distance(N, w, r) < N
                                       THEN r + Distance(N, w, r)
                                       ELSE r + Distance(N, w, r) - N
    BY <1>1, NthValue
  <2>. QED
    BY <2>1 DEF Distance
<1>4. ASSUME NEW i \in 0 .. Distance(N, w, r) - 1
      PROVE  Nth(N, r, i) \in 0 .. N - 1 /\ Nth(N, r, i) # w
  <2>1. i \in 0 .. N - 1
    BY <1>1
  <2>2. /\ Nth(N, r, i) = IF r + i < N THEN r + i ELSE r + i - N
        /\ Nth(N, r, i) \in 0 .. N - 1
    BY <2>1, NthValue
  <2>. QED
    BY <2>1, <2>2 DEF Distance
<1>. QED
  BY <1>2, <1>3, <1>4

(* Releasing the front slot shifts the others to the front by one. *)
LEMMA ReleaseMoves ==
  ASSUME NEW N \in Nat \ {0}, NEW w \in 0 .. N - 1, NEW r \in 0 .. N - 1, w # r
  PROVE  /\ Distance(N, w, Following(N, r)) = Distance(N, w, r) - 1
         /\ Nth(N, r, 0) = r
         /\ \A i \in 0 .. Distance(N, w, r) - 2 :
              /\ Nth(N, Following(N, r), i) = Nth(N, r, i + 1)
              /\ Nth(N, r, i + 1) \in 0 .. N - 1 /\ Nth(N, r, i + 1) # r
<1>1. Distance(N, w, r) \in 0 .. N - 1
  BY DistanceValue
<1>2. Distance(N, w, Following(N, r)) = Distance(N, w, r) - 1
  BY FollowingValue DEF Distance
<1>3. Nth(N, r, 0) = r
  BY NthValue
<1>4. ASSUME NEW i \in 0 .. Distance(N, w, r) - 2
      PROVE  /\ Nth(N, Following(N, r), i) = Nth(N, r, i + 1)
             /\ Nth(N, r, i + 1) \in 0 .. N - 1 /\ Nth(N, r, i + 1) # r
  <2>1. i \in 0 .. N - 1 /\ i + 1 \in 0 .. N - 1 /\ Following(N, r) \in 0 .. N - 1
    BY <1>1, FollowingValue
  <2>2. Nth(N, r, i + 1) = IF r + (i + 1) < N THEN r + (i + 1) ELSE r + (i + 1) - N
    BY <2>1, NthValue
  <2>3. Nth(N, Following(N, r), i) = IF Following(N, r) + i < N
                                     THEN Following(N, r) + i ELSE Following(N, r) + i - N
    BY <2>1, NthValue
  <2>. QED
    BY <2>1, <2>2, <2>3, FollowingValue
<1>. QED
  BY <1>2, <1>3, <1>4
-----------------------------------------------------------------------------
(* A relation over the naturals that is known to be well-founded. *)
LEMMA Descending == \E R : IsWellFoundedOn(R, Nat) /\ \A x, y \in Nat : y < x => <<y, x>> \in R
<1>1. \A x, y \in Nat : y < x => <<y, x>> \in OpToRel(<, Nat)
  BY DEF OpToRel
<1>2. IsWellFoundedOn(OpToRel(<, Nat), Nat)
  BY NatLessThanWellFounded
<1>. QED
  BY <1>1, <1>2

(* A set of naturals has a least element. *)
LEMMA Least ==
  ASSUME NEW T, T \subseteq Nat, T # {}
  PROVE  \E x \in T : \A y \in T : x <= y
<1>1. PICK R : IsWellFoundedOn(R, Nat) /\ \A x, y \in Nat : y < x => <<y, x>> \in R
  BY Descending
<1>2. PICK x \in T : \A y \in T : ~(<<y, x>> \in R)
  BY <1>1, WFMin
<1>3. ASSUME NEW y \in T
      PROVE  x <= y
  <2>1. x \in Nat /\ y \in Nat
    OBVIOUS
  <2>2. ~(y < x)
    BY <1>1, <1>2, <2>1
  <2>. QED
    BY <2>1, <2>2
<1>. QED
  BY <1>3

(* A set that holds 0 and with each number the next holds all up to n. *)
LEMMA Induction ==
  ASSUME NEW n \in Nat, NEW S, 0 \in S, \A i \in 0 .. n - 1 : i \in S => i + 1 \in S
  PROVE  \A i \in 0 .. n : i \in S
<1>. DEFINE T == {i \in 0 .. n : i \notin S}
<1>1. SUFFICES ASSUME T # {}
               PROVE  FALSE
  OBVIOUS
<1>2. PICK x \in T : \A y \in T : x <= y
  <2>1. T \subseteq Nat
    OBVIOUS
  <2>. HIDE DEF T
  <2>. QED
    BY <1>1, <2>1, Least
<1>3. x \in 0 .. n /\ x \notin S /\ x # 0
  OBVIOUS
<1>4. x - 1 \in 0 .. n - 1 /\ (x - 1) + 1 = x
  BY <1>3
<1>5. x - 1 \in S
  BY <1>2, <1>4
<1>. QED
  BY <1>3, <1>4, <1>5

(* The function that starts with v at 0 and goes on with step up to n.     *)
RunsUpTo(g, n, V, v, step) ==
  /\ g \in [0 .. n -> V] /\ g[0] = v
  /\ \A i \in 1 .. n : g[i] = step[<<i, g[i - 1]>>]

(* A recursion from 0 to n defines a function. *)
LEMMA Recursion ==
  ASSUME NEW n, NEW V, NEW v, NEW step,
         n \in Nat, v \in V, step \in [(1 .. n) \X V -> V]
  PROVE  \E g : RunsUpTo(g, n, V, v, step)
<1>. DEFINE Good(k, g) == g[0] = v /\ \A i \in 1 .. k : g[i] = step[<<i, g[i - 1]>>]
            S == {k \in 0 .. n : \E g \in [0 .. k -> V] : Good(k, g)}
<1>1. 0 \in S
  <2>. DEFINE g == [i \in 0 .. 0 |-> v]
  <2>1. g \in [0 .. 0 -> V] /\ Good(0, g)
    OBVIOUS
  <2>. HIDE DEF g
  <2>. QED
    BY <2>1
<1>2. ASSUME NEW k \in 0 .. n - 1, k \in S
      PROVE  k + 1 \in S
  <2>1. PICK g \in [0 .. k -> V] : Good(k, g)
    BY <1>2
  <2>. DEFINE h == [i \in 0 .. k + 1 |-> IF i = k + 1 THEN step[<<i, g[k]>>] ELSE g[i]]
  <2>2. g[k] \in V /\ k + 1 \in 1 .. n
    OBVIOUS
  <2>3. step[<<k + 1, g[k]>>] \in V
    BY <2>2
  <2>4. h \in [0 .. k + 1 -> V]
    BY <2>3
  <2>5. Good(k + 1, h)
    <3>1. h[0] = v /\ h[k + 1] = step[<<k + 1, h[k]>>]
      BY <2>1
    <3>2. \A i \in 1 .. k : h[i] = g[i] /\ h[i - 1] = g[i - 1]
      OBVIOUS
    <3>3. \A i \in 1 .. k + 1 : i \in 1 .. k \/ i = k + 1
      OBVIOUS
    <3>4. (k + 1) - 1 = k
      OBVIOUS
    <3>. HIDE DEF h
    <3>. QED
      BY <2>1, <3>1, <3>2, <3>3, <3>4
  <2>. HIDE DEF h
  <2>. QED
    BY <2>2, <2>4, <2>5
<1>3. n \in S
  <2>. HIDE DEF S
  <2>. QED
    BY <1>1, <1>2, Induction
<1>. QED
  BY <1>3 DEF RunsUpTo

(* The function that is base where the recursion stops and goes on along   *)
(* next elsewhere.                                                         *)
RunsAlong(g, D, V, stop, next, base, step) ==
  /\ g \in [D -> V]
  /\ \A d \in D : g[d] = IF d \in stop THEN base[d] ELSE step[<<d, g[next[d]]>>]

(* A recursion along next, which makes len smaller, defines a function. *)
LEMMA TailRecursion ==
  ASSUME NEW D, NEW V, NEW stop, NEW len, NEW next, NEW base, NEW step,
         stop \subseteq D, len \in [D -> Nat], next \in [D -> D],
         base \in [D -> V], step \in [D \X V -> V],
         \A d \in D \ stop : len[next[d]] < len[d]
  PROVE  \E g : RunsAlong(g, D, V, stop, next, base, step)
<1>. DEFINE Eq(g, d) == g[d] = IF d \in stop THEN base[d] ELSE step[<<d, g[next[d]]>>]
            Good(n, g) == \A d \in D : len[d] < n => Eq(g, d)
            Fits(n) == {g \in [D -> V] : Good(n, g)}
<1>1. ASSUME NEW n \in Nat
      PROVE  Fits(n) # {}
  <2>. DEFINE S == {k \in 0 .. n : Fits(k) # {}}
  <2>1. 0 \in S
    <3>1. base \in Fits(0)
      OBVIOUS
    <3>. HIDE DEF Fits
    <3>. QED
      BY <3>1
  <2>2. ASSUME NEW k \in 0 .. n - 1, k \in S
        PROVE  k + 1 \in S
    <3>1. PICK g \in [D -> V] : Good(k, g)
      BY <2>2
    <3>. DEFINE h == [d \in D |-> IF d \in stop THEN base[d] ELSE step[<<d, g[next[d]]>>]]
    <3>2. h \in [D -> V]
      OBVIOUS
    <3>3. ASSUME NEW d \in D, len[d] < k + 1
          PROVE  Eq(h, d)
      <4>1. CASE d \in stop
        BY <4>1
      <4>2. CASE d \notin stop
        <5>1. next[d] \in D /\ len[next[d]] < len[d] /\ len[next[d]] \in Nat /\ len[d] \in Nat
          BY <4>2
        <5>2. len[next[d]] < k
          BY <3>3, <5>1
        <5>3. Eq(g, next[d])
          BY <3>1, <5>1, <5>2
        <5>4. h[next[d]] = g[next[d]]
          BY <5>1, <5>3
        <5>5. h[d] = step[<<d, g[next[d]]>>]
          BY <4>2
        <5>. HIDE DEF h
        <5>. QED
          BY <4>2, <5>4, <5>5
      <4>. QED
        BY <4>1, <4>2
    <3>4. h \in Fits(k + 1)
      BY <3>2, <3>3
    <3>. HIDE DEF Fits, h
    <3>. QED
      BY <3>4
  <2>3. \A k \in 0 .. n : k \in S
    <3>. HIDE DEF S
    <3>. QED
      BY <2>1, <2>2, Induction
  <2>. QED
    BY <2>3
<1>2. ASSUME NEW n \in Nat, NEW m \in Nat, NEW g \in Fits(n), NEW h \in Fits(m),
             NEW e \in D, len[e] < n, len[e] < m
      PROVE  g[e] = h[e]
  <2>. DEFINE T == {k \in Nat : \E d \in D : len[d] = k /\ k < n /\ k < m /\ g[d] # h[d]}
  <2>1. SUFFICES ASSUME T # {}
                 PROVE  FALSE
    BY <1>2
  <2>2. T \subseteq Nat
    OBVIOUS
  <2>3. PICK x \in T : \A y \in T : x <= y
    <3>. HIDE DEF T
    <3>. QED
      BY <2>1, <2>2, Least
  <2>4. PICK d \in D : len[d] = x /\ x < n /\ x < m /\ g[d] # h[d]
    OBVIOUS
  <2>5. Eq(g, d) /\ Eq(h, d)
    BY <2>4
  <2>6. d \notin stop
    BY <2>4, <2>5
  <2>7. next[d] \in D /\ len[next[d]] < x /\ len[next[d]] \in Nat /\ x \in Nat
    BY <2>4, <2>6
  <2>8. len[next[d]] \notin T
    BY <2>3, <2>7
  <2>9. g[next[d]] = h[next[d]]
    BY <2>4, <2>7, <2>8
  <2>. QED
    BY <2>4, <2>5, <2>6, <2>9
<1>. DEFINE pick(n) == CHOOSE g : g \in Fits(n)
            F == [d \in D |-> pick(len[d] + 1)[d]]
<1>3. ASSUME NEW n \in Nat
      PROVE  pick(n) \in Fits(n)
  BY <1>1
<1>4. F \in [D -> V]
  <2>1. ASSUME NEW d \in D
        PROVE  pick(len[d] + 1)[d] \in V
    <3>1. pick(len[d] + 1) \in [D -> V]
      <4>. HIDE DEF pick
      <4>1. len[d] + 1 \in Nat
        OBVIOUS
      <4>2. pick(len[d] + 1) \in Fits(len[d] + 1)
        BY <1>3, <4>1
      <4>. QED
        BY <4>2
    <3>. HIDE DEF pick
    <3>. QED
      BY <3>1
  <2>. HIDE DEF pick
  <2>. QED
    BY <2>1
<1>5. ASSUME NEW d \in D
      PROVE  Eq(F, d)
  <2>. DEFINE g == pick(len[d] + 1)
              k == len[next[d]] + 1
  <2>1. len[d] + 1 \in Nat /\ len[d] \in Nat /\ len[d] < len[d] + 1
    OBVIOUS
  <2>2. g \in Fits(len[d] + 1)
    <3>. HIDE DEF pick
    <3>. QED
      BY <1>3, <2>1
  <2>3. Eq(g, d) /\ F[d] = g[d]
    <3>. HIDE DEF pick
    <3>1. F[d] = g[d]
      OBVIOUS
    <3>. HIDE DEF g
    <3>. QED
      BY <2>1, <2>2, <3>1
  <2>4. CASE d \in stop
    <3>. HIDE DEF F, g
    <3>. QED
      BY <2>3, <2>4
  <2>5. CASE d \notin stop
    <3>1. /\ next[d] \in D /\ k \in Nat /\ len[next[d]] < k
          /\ len[next[d]] < len[d] + 1
      BY <2>5
    <3>2. pick(k) \in Fits(k)
      <4>. HIDE DEF pick, k
      <4>. QED
        BY <1>3, <3>1
    <3>3. F[next[d]] = pick(k)[next[d]]
      <4>. HIDE DEF pick
      <4>. QED
        BY <3>1
    <3>4. g[next[d]] = pick(k)[next[d]]
      <4>. HIDE DEF pick, g, k, Fits
      <4>. QED
        BY <1>2, <2>1, <2>2, <3>1, <3>2
    <3>. HIDE DEF F, g, pick, k
    <3>. QED
      BY <2>3, <2>5, <3>3, <3>4
  <2>. QED
    BY <2>4, <2>5
<1>. HIDE DEF F
<1>. QED
  BY <1>4, <1>5 DEF RunsAlong
-----------------------------------------------------------------------------
(* Quotient and remainder, and that there is one of each. *)
LEMMA Division ==
  ASSUME NEW n \in Nat, NEW d \in Nat \ {0}
  PROVE  /\ n \div d \in Nat /\ n % d \in 0 .. d - 1
         /\ n = d * (n \div d) + (n % d)
OBVIOUS

LEMMA DivisionUnique ==
  ASSUME NEW q \in Nat, NEW d \in Nat \ {0}, NEW r \in 0 .. d - 1
  PROVE  (d * q + r) \div d = q /\ (d * q + r) % d = r
OBVIOUS

LEMMA RemainderSmall ==
  ASSUME NEW n \in Nat, NEW d \in Nat \ {0}
  PROVE  n % d <= n
<1>. DEFINE q == n \div d
            r == n % d
<1>1. q \in Nat /\ r \in 0 .. d - 1 /\ n = d * q + r
  BY Division
<1>. HIDE DEF q, r
<1>2. d * q >= 0
  BY <1>1
<1>. QED
  BY <1>1, <1>2 DEF r

(* What was reduced before an addition or a subtraction is reduced again. *)
LEMMA Reduced ==
  ASSUME NEW x \in Int, NEW y \in Int, NEW d \in Nat \ {0}
  PROVE  ((x % d) + y) % d = (x + y) % d
<1>1. ASSUME NEW q \in Int, NEW r \in 0 .. d - 1
      PROVE  (d * q + r) % d = r
  OBVIOUS
<1>2. ASSUME NEW z \in Int
      PROVE  /\ z \div d \in Int /\ z % d \in 0 .. d - 1
             /\ z = d * (z \div d) + (z % d)
  OBVIOUS
<1>. DEFINE q == x \div d
            r == x % d
            u == (r + y) \div d
            v == (r + y) % d
<1>3. q \in Int /\ r \in 0 .. d - 1 /\ x = d * q + r
  BY <1>2
<1>. HIDE DEF q, r
<1>4. u \in Int /\ v \in 0 .. d - 1 /\ r + y = d * u + v
  BY <1>2, <1>3
<1>. HIDE DEF u, v
<1>5. x + y = d * (q + u) + v
  <2>1. d * (q + u) = d * q + d * u
    BY <1>3, <1>4
  <2>. QED
    BY <1>3, <1>4, <2>1
<1>6. (d * (q + u) + v) % d = v
  <2>1. q + u \in Int
    BY <1>3, <1>4
  <2>. HIDE DEF q, u, v
  <2>. QED
    BY <1>1, <1>4, <2>1
<1>. QED
  BY <1>5, <1>6 DEF v, r

(* One more digit of a number. *)
LEMMA NextDigit ==
  ASSUME NEW n \in Nat, NEW p \in Nat \ {0}, NEW b \in Nat \ {0}
  PROVE  n % (b * p) = ((n \div p) % b) * p + (n % p)
<1>. DEFINE q == n \div p
            r == n % p
            u == q \div b
            v == q % b
<1>1. q \in Nat /\ r \in 0 .. p - 1 /\ n = p * q + r
  BY Division
<1>2. u \in Nat /\ v \in 0 .. b - 1 /\ q = b * u + v
  <2>. HIDE DEF q
  <2>. QED
    BY <1>1, Division
<1>. HIDE DEF q, r, u, v
<1>3. n = (b * p) * u + (v * p + r)
  <2>1. p * (b * u + v) = (b * p) * u + v * p
    BY <1>1, <1>2
  <2>. QED
    BY <1>1, <1>2, <2>1
<1>4. v * p + r \in 0 .. b * p - 1 /\ b * p \in Nat \ {0}
  <2>1. v * p <= (b - 1) * p /\ (b - 1) * p = b * p - p
    BY <1>1, <1>2
  <2>. QED
    BY <1>1, <1>2, <2>1
<1>5. ((b * p) * u + (v * p + r)) % (b * p) = v * p + r
  BY <1>2, <1>4, DivisionUnique
<1>. QED
  BY <1>3, <1>5 DEF q, r, v
-----------------------------------------------------------------------------
(* Sequences joined, and cut. *)

LEMMA Joined ==
  ASSUME NEW S, NEW a \in Seq(S), NEW b \in Seq(S)
  PROVE  /\ a \o b \in Seq(S) /\ Len(a \o b) = Len(a) + Len(b)
         /\ \A i \in 1 .. Len(a) : (a \o b)[i] = a[i]
         /\ \A i \in 1 .. Len(b) : (a \o b)[Len(a) + i] = b[i]
<1>. DEFINE c == a \o b
<1>1. /\ c \in Seq(S) /\ Len(c) = Len(a) + Len(b)
      /\ \A i \in 1 .. Len(a) + Len(b) : c[i] = IF i <= Len(a) THEN a[i] ELSE b[i - Len(a)]
  OBVIOUS
<1>2. Len(a) \in Nat /\ Len(b) \in Nat
  OBVIOUS
<1>. HIDE DEF c
<1>3. ASSUME NEW i \in 1 .. Len(b)
      PROVE  c[Len(a) + i] = b[i]
  <2>1. Len(a) + i \in 1 .. Len(a) + Len(b) /\ ~(Len(a) + i <= Len(a)) /\ (Len(a) + i) - Len(a) = i
    BY <1>2
  <2>. QED
    BY <1>1, <2>1
<1>4. ASSUME NEW i \in 1 .. Len(a)
      PROVE  c[i] = a[i]
  BY <1>1, <1>2
<1>. QED
  BY <1>1, <1>3, <1>4 DEF c

LEMMA Cut ==
  ASSUME NEW S, NEW a \in Seq(S), NEW m \in 1 .. Len(a) + 1, NEW n \in m - 1 .. Len(a)
  PROVE  /\ SubSeq(a, m, n) \in Seq(S) /\ Len(SubSeq(a, m, n)) = (n - m) + 1
         /\ \A i \in 1 .. (n - m) + 1 : SubSeq(a, m, n)[i] = a[(m - 1) + i]
OBVIOUS

LEMMA CutFront ==
  ASSUME NEW S, NEW a \in Seq(S), NEW n \in 0 .. Len(a)
  PROVE  SubSeq(a, 1, n) \in Seq(S) /\ Len(SubSeq(a, 1, n)) = n
OBVIOUS

LEMMA CutBack ==
  ASSUME NEW S, NEW a \in Seq(S), NEW n \in 0 .. Len(a)
  PROVE  SubSeq(a, n + 1, Len(a)) \in Seq(S) /\ Len(SubSeq(a, n + 1, Len(a))) = Len(a) - n
OBVIOUS

LEMMA SameSequence ==
  ASSUME NEW S, NEW a \in Seq(S), NEW b \in Seq(S), Len(a) = Len(b),
         \A i \in 1 .. Len(a) : a[i] = b[i]
  PROVE  a = b
OBVIOUS
=============================================================================

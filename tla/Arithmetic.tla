------------------------------ MODULE Arithmetic ------------------------------
(***************************************************************************)
(* Facts about division and remainder by an unknown positive number, which *)
(* the proofs about page rounding and heap alignment rest on; the least    *)
(* element of a set of numbers; functions defined by recursion on numbers, *)
(* and strings put one after another.                                      *)
(***************************************************************************)
EXTENDS Integers, SequencesExt, WellFoundedInduction, TLAPS

(* Euclidean division. *)
LEMMA DivMod ==
  ASSUME NEW n \in Nat, NEW p \in Nat \ {0}
  PROVE  /\ n \div p \in Nat
         /\ n % p \in 0 .. p - 1
         /\ n = (n \div p) * p + (n % p)
BY SMT

(* A multiple of p leaves no remainder. *)
LEMMA MultipleMod ==
  ASSUME NEW q \in Nat, NEW p \in Nat \ {0}
  PROVE  (q * p) % p = 0 /\ q * p \in Nat
BY SMT

(* The remainder of a number below the modulus is the number. *)
LEMMA SmallMod ==
  ASSUME NEW n \in Nat, NEW p \in Nat, n < p
  PROVE  n % p = n
BY SMT

(* Multiplication by a positive number reflects the order. *)
LEMMA MulReflects ==
  ASSUME NEW a \in Nat, NEW b \in Nat, NEW p \in Nat \ {0}, a * p < b * p + p
  PROVE  a <= b /\ a * p <= b * p
BY SMT

(* The sum of two multiples of p is one. *)
LEMMA SumMod ==
  ASSUME NEW a \in Nat, NEW b \in Nat, NEW p \in Nat \ {0},
         a % p = 0, b % p = 0
  PROVE  (a + b) % p = 0
<1> DEFINE x == a \div p
           y == b \div p
<1>1. a = x * p /\ x \in Nat /\ b = y * p /\ y \in Nat
  BY DivMod
<1>2. x + y \in Nat /\ a + b = (x + y) * p
  BY <1>1
<1>3. ((x + y) * p) % p = 0
  BY <1>2, MultipleMod
<1> QED
  BY <1>2, <1>3

(* Quotient and remainder are what they must be. *)
LEMMA QuotientIs ==
  ASSUME NEW q \in Nat, NEW p \in Nat \ {0}, NEW r \in 0 .. p - 1
  PROVE  (q * p + r) \div p = q /\ q * p + r \in Nat
<1> DEFINE n == q * p + r
           x == n \div p
           y == n % p
<1>1. q * p \in Nat /\ r \in Nat
  BY MultipleMod
<1>2. n \in Nat
  BY ONLY <1>1
<1>3. x \in Nat /\ y \in 0 .. p - 1 /\ n = x * p + y
  BY ONLY <1>2, DivMod, p \in Nat \ {0}
<1>4. x * p + y = q * p + r
  BY ONLY <1>3
<1> HIDE DEF n, x, y
<1>5. x * p \in Nat
  BY <1>3, MultipleMod
<1>6. x * p < q * p + p /\ q * p < x * p + p
  BY ONLY <1>1, <1>3, <1>4, <1>5, p \in Nat \ {0}, r \in 0 .. p - 1
<1>7. x <= q /\ q <= x
  BY ONLY <1>3, <1>6, MulReflects, p \in Nat \ {0}, q \in Nat
<1> QED
  BY ONLY <1>2, <1>3, <1>7, q \in Nat DEF x, n

(* Dividing twice is dividing by the product. *)
LEMMA DivDiv ==
  ASSUME NEW a \in Nat, NEW b \in Nat \ {0}, NEW c \in Nat \ {0}
  PROVE  (a \div b) \div c = a \div (b * c) /\ b * c \in Nat \ {0}
<1> DEFINE q == a \div b
           r == a % b
           s == q \div c
           t == q % c
           d == b * c
           e == t * b + r
<1>1. q \in Nat /\ r \in 0 .. b - 1 /\ a = q * b + r
  BY DivMod
<1>2. s \in Nat /\ t \in 0 .. c - 1 /\ q = s * c + t
  BY ONLY <1>1, DivMod, c \in Nat \ {0}
<1> HIDE DEF q, r, s, t
<1>3. d \in Nat \ {0}
  BY SMT
<1>4. e \in 0 .. d - 1
  <2>1. t \in Nat /\ t <= c - 1 /\ c - 1 \in Nat
    BY ONLY <1>2, c \in Nat \ {0}
  <2>2. t * b \in Nat /\ t * b <= (c - 1) * b
    BY ONLY <2>1, b \in Nat \ {0}, SMT
  <2>3. (c - 1) * b = d - b
    BY ONLY b \in Nat, c \in Nat, SMT
  <2> HIDE DEF d
  <2> DEFINE u == t * b
  <2>4. u \in Nat /\ u <= d - b
    BY ONLY <2>2, <2>3
  <2> HIDE DEF u
  <2>5. u + r \in 0 .. d - 1
    BY ONLY <1>1, <1>3, <2>4, b \in Nat \ {0}
  <2> QED
    BY <2>5 DEF u
<1>5. a = s * d + e
  <2>1. (s * c + t) * b = s * (b * c) + t * b
    BY ONLY <1>2, b \in Nat, c \in Nat, SMT
  <2>2. q * b = s * d + t * b
    BY ONLY <1>2, <2>1
  <2>3. s * d \in Nat /\ t * b \in Nat
    BY ONLY <1>2, <1>3, b \in Nat, c \in Nat \ {0}, SMT
  <2> DEFINE u == s * d
             w == t * b
             x == q * b
  <2>4. u \in Nat /\ w \in Nat /\ r \in Int /\ x = u + w /\ a = x + r /\ e = w + r
    BY ONLY <1>1, <2>2, <2>3
  <2> HIDE DEF u, w, x, e
  <2>5. a = u + e
    BY ONLY <2>4
  <2> QED
    BY <2>5 DEF u
<1> HIDE DEF d, e
<1>6. a \div d = s
  BY ONLY <1>2, <1>3, <1>4, <1>5, QuotientIs
<1> QED
  BY <1>3, <1>6 DEF d, q, s

(* Going once more around leaves the same remainder. *)
LEMMA RoundMod ==
  ASSUME NEW n \in Nat, NEW p \in Nat \ {0}
  PROVE  (n + p) % p = n % p /\ n + p \in Nat
<1> DEFINE q == n \div p
           r == n % p
<1>1. q \in Nat /\ r \in 0 .. p - 1 /\ n = q * p + r
  BY DivMod
<1> HIDE DEF q, r
<1>2. n + p = (q + 1) * p + r
  BY ONLY <1>1, p \in Nat
<1>3. \A k \in Nat : (k * p + r) % p = r
  BY ONLY <1>1, p \in Nat \ {0}, SMT
<1>4. ((q + 1) * p + r) % p = r
  BY ONLY <1>1, <1>3
<1>5. n + p \in Nat
  BY ONLY n \in Nat, p \in Nat
<1> QED
  BY ONLY <1>2, <1>4, <1>5 DEF r

(* A set of numbers has a least element. *)
LEMMA LeastElement ==
  ASSUME NEW T, T \subseteq Nat, T # {}
  PROVE  \E m \in T : \A k \in T : m <= k
<1> DEFINE R == OpToRel(<, Nat)
<1>1. IsWellFoundedOn(R, Nat)
  BY NatLessThanWellFounded
<1>2. \A x, y \in Nat : x < y => <<x, y>> \in R
  BY DEF OpToRel
<1> HIDE DEF R
<1>3. PICK m \in T : \A k \in T : ~ (<<k, m>> \in R)
  BY <1>1, WFMin
<1>4. \A k \in T : ~ (k < m)
  BY <1>2, <1>3
<1>5. \A k \in T : m <= k
  BY <1>3, <1>4
<1> QED
  BY <1>3, <1>5

----------------------------------------------------------------------------
LEMMA LeastIs ==
  ASSUME NEW T, T \subseteq Nat, NEW m \in T, \A k \in T : m <= k
  PROVE  Min(T) = m
<1>1. /\ Min(T) \in T
      /\ \A k \in T : Min(T) <= k
  BY DEF Min
<1>2. Min(T) \in Nat /\ m \in Nat /\ Min(T) <= m /\ m <= Min(T)
  BY <1>1
<1> QED
  BY ONLY <1>2

(* Induction up to n, with a set for the property. *)
LEMMA Climbs ==
  ASSUME NEW n \in Nat, NEW T, 0 \in T, \A i \in 1 .. n : i - 1 \in T => i \in T
  PROVE  \A i \in 0 .. n : i \in T
<1> DEFINE Bad == {i \in 0 .. n : i \notin T}
<1>1. Bad \subseteq Nat
  OBVIOUS
<1>2. Bad = {}
  <2> SUFFICES ASSUME Bad # {} PROVE FALSE
    OBVIOUS
  <2>1. PICK i \in Bad : \A k \in Bad : i <= k
    <3> HIDE DEF Bad
    <3> QED
      BY <1>1, LeastElement
  <2>2. i \in 0 .. n /\ i \notin T
    BY <2>1
  <2>3. i \in 1 .. n /\ i - 1 \in 0 .. n /\ i - 1 < i
    BY <2>2
  <2>4. i - 1 \in T
    BY <2>1, <2>3
  <2> QED
    BY <2>2, <2>3, <2>4
<1> QED
  BY <1>2

LEMMA ListTyped ==
  ASSUME NEW S, NEW n \in Nat, NEW p, \A i \in 1 .. n : p[i] \in S,
         p = [i \in 1 .. n |-> p[i]]
  PROVE  p \in Seq(S) /\ Len(p) = n
<1> DEFINE q == [i \in 1 .. n |-> p[i]]
<1>1. q \in [1 .. n -> S]
  OBVIOUS
<1>2. q \in Seq(S) /\ Len(q) = n
  BY <1>1
<1> QED
  BY <1>2

(* A recursive function on 0 .. n whose value at i is made by step[i] from
   its value at i - 1 exists, and its values stay in S. *)
Steps(step, n, S) == step \in [1 .. n -> [S -> S]]
Iterates(f, step, n, start, S) ==
  /\ f \in [0 .. n -> S]
  /\ f[0] = start
  /\ \A i \in 1 .. n : f[i] = step[i][f[i - 1]]

LEMMA Iteration ==
  ASSUME NEW S, NEW n \in Nat, NEW start \in S, NEW step, Steps(step, n, S)
  PROVE  \E f : Iterates(f, step, n, start, S)
<1> DEFINE Upto(m) == \E f \in [0 .. m -> S] :
                        f[0] = start /\ \A i \in 1 .. m : f[i] = step[i][f[i - 1]]
           Bad == {m \in Nat : m <= n /\ ~ Upto(m)}
<1>0. /\ n \in Nat /\ start \in S
      /\ \A i \in 1 .. n, s \in S : step[i][s] \in S
  BY DEF Steps
<1>1. Bad = {}
  <2> SUFFICES ASSUME Bad # {} PROVE FALSE
    OBVIOUS
  <2>0. Bad \subseteq Nat
    OBVIOUS
  <2>1. PICK m \in Bad : \A k \in Bad : m <= k
    <3> HIDE DEF Bad
    <3> QED
      BY <2>0, LeastElement
  <2>2. m \in Nat /\ m <= n /\ ~ Upto(m)
    BY <2>1
  <2>3. CASE m = 0
    <3> DEFINE f == [i \in 0 .. 0 |-> start]
    <3>1. f \in [0 .. 0 -> S] /\ f[0] = start /\ \A i \in 1 .. 0 : f[i] = step[i][f[i - 1]]
      BY ONLY <1>0
    <3> QED
      BY ONLY <2>2, <2>3, <3>1
  <2>4. CASE m # 0
    <3>1. m - 1 \in Nat /\ m \in 1 .. n /\ m - 1 <= n
      BY ONLY <1>0, <2>2, <2>4
    <3>2. Upto(m - 1)
      <4>1. m - 1 \notin Bad
        <5> HIDE DEF Bad
        <5> QED
          BY ONLY <2>1, <2>2, <3>1
      <4> HIDE DEF Upto
      <4> QED
        BY ONLY <3>1, <4>1
    <3>3. PICK f \in [0 .. m - 1 -> S] :
            f[0] = start /\ \A i \in 1 .. m - 1 : f[i] = step[i][f[i - 1]]
      BY ONLY <3>2
    <3> DEFINE g == [i \in 0 .. m |-> IF i = m THEN step[m][f[m - 1]] ELSE f[i]]
    <3>4. step[m][f[m - 1]] \in S
      BY ONLY <1>0, <3>1, <3>3
    <3>5. g \in [0 .. m -> S]
      BY ONLY <2>2, <3>1, <3>3, <3>4
    <3>6. g[0] = start /\ \A i \in 1 .. m : g[i] = step[i][g[i - 1]]
      BY ONLY <2>2, <2>4, <3>1, <3>3
    <3>7. Upto(m)
      BY ONLY <3>5, <3>6
    <3> QED
      BY ONLY <2>2, <3>7
  <2> QED
    BY <2>3, <2>4
<1>2. Upto(n)
  <2> HIDE DEF Upto
  <2> QED
    BY ONLY <1>0, <1>1
<1> QED
  BY ONLY <1>2 DEF Iterates

Recurses(f, step, n, start, S) ==
  /\ f \in [0 .. n -> S]
  /\ f = [i \in 0 .. n |-> IF i = 0 THEN start ELSE step[i][f[i - 1]]]

LEMMA Recursion ==
  ASSUME NEW S, NEW n \in Nat, NEW start \in S, NEW step, Steps(step, n, S)
  PROVE  \E f : Recurses(f, step, n, start, S)
<1>1. PICK f : Iterates(f, step, n, start, S)
  BY Iteration
<1>2. /\ f \in [0 .. n -> S] /\ f[0] = start
      /\ \A i \in 1 .. n : f[i] = step[i][f[i - 1]]
  BY <1>1 DEF Iterates
<1>3. \A i \in 0 .. n : f[i] = IF i = 0 THEN start ELSE step[i][f[i - 1]]
  BY ONLY <1>2, n \in Nat
<1>4. f = [i \in 0 .. n |-> IF i = 0 THEN start ELSE step[i][f[i - 1]]]
  BY ONLY <1>2, <1>3
<1> QED
  BY ONLY <1>2, <1>4 DEF Recurses

(* FlattenSeq() is the iteration of \o: runs[i] is the first i strings. *)
Runs(ss, runs, n, S) ==
  /\ runs[0] = <<>>
  /\ \A i \in 0 .. n : runs[i] \in Seq(S)
  /\ \A i \in 1 .. n : runs[i] = runs[i - 1] \o ss[i]

LEMMA FlattenRuns ==
  ASSUME NEW S, NEW ss \in Seq(Seq(S))
  PROVE  \E runs : Runs(ss, runs, Len(ss), S) /\ FlattenSeq(ss) = runs[Len(ss)]
<1> DEFINE n == Len(ss)
           step == [i \in 1 .. n |-> [s \in Seq(S) |-> s \o ss[i]]]
<1>1. n \in Nat /\ \A i \in 1 .. n : ss[i] \in Seq(S)
  OBVIOUS
<1>2. \A i \in 1 .. n, s \in Seq(S) : step[i][s] = s \o ss[i] /\ step[i][s] \in Seq(S)
  BY <1>1
<1>3. <<>> \in Seq(S)
  OBVIOUS
<1>4. PICK f \in [0 .. n -> Seq(S)] :
        f[0] = <<>> /\ \A i \in 1 .. n : f[i] = step[i][f[i - 1]]
  <2>1. Steps(step, n, Seq(S))
    BY <1>2 DEF Steps
  <2>2. n \in Nat
    BY <1>1
  <2> HIDE DEF step, n
  <2>3. \E f : Iterates(f, step, n, <<>>, Seq(S))
    BY ONLY <1>3, <2>1, <2>2, Iteration
  <2> QED
    BY ONLY <2>3 DEF Iterates
<1>5. \A i \in 1 .. n : f[i] = f[i - 1] \o ss[i] /\ i - 1 \in 0 .. n
  <2> TAKE i \in 1 .. n
  <2>1. i - 1 \in 0 .. n
    BY <1>1
  <2>2. f[i - 1] \in Seq(S)
    BY <2>1
  <2>3. step[i][f[i - 1]] = f[i - 1] \o ss[i]
    <3> HIDE DEF step, n
    <3> QED
      BY <1>2, <2>2
  <2> HIDE DEF step
  <2> QED
    BY <1>4, <2>1, <2>3
<1>6. Runs(ss, f, Len(ss), S)
  BY <1>4, <1>5 DEF Runs
<1>7. CASE n = 0
  BY <1>4, <1>6, <1>7 DEF FlattenSeq
<1>8. CASE n # 0
  <2> DEFINE Eqn(flatten) == flatten = [i \in 1 .. n |-> IF i = 1 THEN ss[i] ELSE flatten[i - 1] \o ss[i]]
             h == [i \in 1 .. n |-> f[i]]
             flat == CHOOSE flatten : Eqn(flatten)
  <2>1. FlattenSeq(ss) = flat[n]
    BY <1>8 DEF FlattenSeq
  <2>2. Eqn(h)
    <3>1. f[1] = ss[1]
      <4>1. 1 \in 1 .. n /\ n \in Nat
        BY <1>1, <1>8
      <4>2. f[1] = f[1 - 1] \o ss[1] /\ ss[1] \in Seq(S)
        BY <1>1, <1>5, <4>1
      <4>3. f[1 - 1] = <<>>
        BY <1>4
      <4>4. <<>> \o ss[1] = ss[1]
        BY <4>2
      <4> QED
        BY <4>2, <4>3, <4>4
    <3>2. \A i \in 1 .. n : h[i] = IF i = 1 THEN ss[i] ELSE h[i - 1] \o ss[i]
      <4> HIDE DEF step
      <4>0. n \in Nat
        BY <1>1
      <4> TAKE i \in 1 .. n
      <4>1. CASE i = 1
        BY <3>1, <4>1
      <4>2. CASE i # 1
        <5>1. i - 1 \in 1 .. n
          BY <4>0, <4>2
        <5>2. f[i] = f[i - 1] \o ss[i]
          BY <1>5
        <5> HIDE DEF n
        <5> QED
          BY <4>2, <5>1, <5>2
      <4> QED
        BY <4>1, <4>2
    <3> QED
      BY <3>2
  <2>3. Eqn(flat)
    <3> HIDE DEF Eqn
    <3> QED
      BY <2>2
  <2> DEFINE g == [i \in 0 .. n |-> IF i = 0 THEN <<>> ELSE flat[i]]
  <2>4. \A i \in 1 .. n : g[i] = g[i - 1] \o ss[i]
    <3> HIDE DEF flat
    <3> TAKE i \in 1 .. n
    <3>0. flat[i] = IF i = 1 THEN ss[i] ELSE flat[i - 1] \o ss[i]
      BY <2>3
    <3>a. n \in Nat /\ ss[i] \in Seq(S)
      BY <1>1
    <3> HIDE DEF n, step
    <3>1. CASE i = 1
      <4>1. g[i - 1] = <<>> /\ g[i] = flat[i]
        BY <3>1, <3>a
      <4>2. <<>> \o ss[i] = ss[i]
        BY <3>a
      <4> QED
        BY <3>0, <3>1, <4>1, <4>2
    <3>2. CASE i # 1
      <4>1. g[i - 1] = flat[i - 1] /\ g[i] = flat[i]
        BY <3>2, <3>a
      <4> HIDE DEF g
      <4> QED
        BY <3>0, <3>2, <4>1
    <3> QED
      BY <3>1, <3>2
  <2>5. \A i \in 0 .. n : g[i] = f[i]
    <3> HIDE DEF flat, n
    <3> DEFINE Bad == {i \in 0 .. n : f[i] # g[i]}
    <3> SUFFICES ASSUME Bad # {} PROVE FALSE
      OBVIOUS
    <3>1. PICK i \in Bad : \A k \in Bad : i <= k
      <4> HIDE DEF g
      <4>1. Bad \subseteq Nat
        BY <1>1
      <4> HIDE DEF Bad
      <4> QED
        BY <4>1, LeastElement
    <3>2. i # 0
      BY <1>4, <3>1
    <3> HIDE DEF g
    <3>3. i - 1 \in 0 .. n /\ i - 1 \notin Bad /\ i \in 1 .. n
      BY <1>1, <3>1, <3>2
    <3> QED
      BY <1>5, <2>4, <3>1, <3>3
  <2>6. flat[n] = f[n]
    <3>1. n \in Nat /\ n \in 0 .. n
      BY <1>1
    <3> HIDE DEF flat, n
    <3> QED
      BY <1>8, <2>5, <3>1
  <2> QED
    BY <1>6, <2>1, <2>6
<1> QED
  BY <1>7, <1>8

LEMMA FlattenTyped ==
  ASSUME NEW S, NEW ss \in Seq(Seq(S))
  PROVE  FlattenSeq(ss) \in Seq(S)
<1>1. PICK runs : Runs(ss, runs, Len(ss), S) /\ FlattenSeq(ss) = runs[Len(ss)]
  BY FlattenRuns
<1>2. Len(ss) \in 0 .. Len(ss)
  OBVIOUS
<1> QED
  BY <1>1, <1>2 DEF Runs

(* The runs of a sequence are those of each beginning of it. *)
LEMMA RunsUnique ==
  ASSUME NEW S, NEW n \in Nat, NEW f, NEW g, NEW ss,
         Runs(ss, f, n, S), Runs(ss, g, n, S)
  PROVE  f[n] = g[n]
<1> DEFINE Bad == {i \in 0 .. n : f[i] # g[i]}
<1>0. Bad \subseteq Nat
  OBVIOUS
<1>1. Bad = {}
  <2> SUFFICES ASSUME Bad # {} PROVE FALSE
    OBVIOUS
  <2>1. PICK i \in Bad : \A k \in Bad : i <= k
    <3> HIDE DEF Bad
    <3> QED
      BY <1>0, LeastElement
  <2>2. i # 0 /\ i \in 0 .. n
    BY <2>1 DEF Runs
  <2>3. i - 1 \in 0 .. n /\ i \in 1 .. n
    BY <2>2
  <2>4. f[i - 1] = g[i - 1]
    BY <2>1, <2>3
  <2>5. f[i] = f[i - 1] \o ss[i] /\ g[i] = g[i - 1] \o ss[i]
    BY <2>3 DEF Runs
  <2> QED
    BY <2>1, <2>4, <2>5
<1> QED
  BY <1>1

LEMMA FlattenPrefix ==
  ASSUME NEW S, NEW ss \in Seq(Seq(S)), NEW runs, Runs(ss, runs, Len(ss), S),
         NEW n \in 0 .. Len(ss)
  PROVE  FlattenSeq(SubSeq(ss, 1, n)) = runs[n]
<1> DEFINE some == SubSeq(ss, 1, n)
<1>1. /\ n \in Nat /\ some \in Seq(Seq(S)) /\ Len(some) = n
      /\ \A i \in 1 .. n : some[i] = ss[i]
  OBVIOUS
<1> HIDE DEF some
<1>2. PICK g : Runs(some, g, n, S) /\ FlattenSeq(some) = g[n]
  BY <1>1, FlattenRuns
<1>3. Runs(some, runs, n, S)
  <2>1. /\ runs[0] = <<>>
        /\ \A i \in 0 .. Len(ss) : runs[i] \in Seq(S)
        /\ \A i \in 1 .. Len(ss) : runs[i] = runs[i - 1] \o ss[i]
    BY DEF Runs
  <2>2. /\ \A i \in 0 .. n : i \in 0 .. Len(ss)
        /\ \A i \in 1 .. n : i \in 1 .. Len(ss)
    OBVIOUS
  <2>3. \A i \in 1 .. n : runs[i] = runs[i - 1] \o some[i]
    BY <1>1, <2>1, <2>2
  <2> QED
    BY ONLY <2>1, <2>2, <2>3 DEF Runs
<1>4. runs[n] = g[n]
  BY ONLY <1>1, <1>2, <1>3, RunsUnique
<1> QED
  BY <1>2, <1>4 DEF some

(* What has been put together stays as it is. *)
Begins(s, t) ==
  Len(s) <= Len(t) /\ \A k \in 1 .. Len(s) : t[k] = s[k]

LEMMA BeginsAppended ==
  ASSUME NEW S, NEW s \in Seq(S), NEW t \in Seq(S), NEW u \in Seq(S), Begins(s, t)
  PROVE  Begins(s, t \o u)
BY DEF Begins

LEMMA RunsGrow ==
  ASSUME NEW S, NEW ss, NEW n \in Nat, NEW runs, Runs(ss, runs, n, S),
         \A i \in 1 .. n : ss[i] \in Seq(S), NEW i \in 0 .. n
  PROVE  \A j \in i .. n : Begins(runs[i], runs[j])
<1> DEFINE Bad == {j \in i .. n : ~ Begins(runs[i], runs[j])}
<1>0. Bad \subseteq Nat
  OBVIOUS
<1>a. runs[i] \in Seq(S)
  BY DEF Runs
<1>1. Bad = {}
  <2> SUFFICES ASSUME Bad # {} PROVE FALSE
    OBVIOUS
  <2>1. PICK j \in Bad : \A k \in Bad : j <= k
    <3> HIDE DEF Bad
    <3> QED
      BY <1>0, LeastElement
  <2>2. j \in i .. n /\ ~ Begins(runs[i], runs[j])
    BY <2>1
  <2>3. j # i
    BY <1>a, <2>2 DEF Begins
  <2>4. j - 1 \in i .. n /\ j \in 1 .. n /\ j - 1 \in 0 .. n
    BY <2>2, <2>3
  <2>5. Begins(runs[i], runs[j - 1])
    BY <2>1, <2>4
  <2>6. runs[j] = runs[j - 1] \o ss[j]
    BY <2>4 DEF Runs
  <2>7. runs[j - 1] \in Seq(S)
    BY <2>4 DEF Runs
  <2>8. ss[j] \in Seq(S)
    BY <2>4
  <2>9. Begins(runs[i], runs[j])
    BY ONLY <1>a, <2>5, <2>6, <2>7, <2>8, BeginsAppended
  <2> QED
    BY <2>2, <2>9
<1> QED
  BY <1>1

LEMMA AppendedPlace ==
  ASSUME NEW S, NEW s \in Seq(S), NEW t \in Seq(S), NEW k \in 1 .. Len(t)
  PROVE  Len(s) + k \in 1 .. Len(s \o t) /\ (s \o t)[Len(s) + k] = t[k]
OBVIOUS

(* The i-th string stands in the whole after the ones before it. *)
LEMMA FlattenPlaces ==
  ASSUME NEW S, NEW ss \in Seq(Seq(S)), NEW i \in 1 .. Len(ss)
  PROVE  LET flat   == FlattenSeq(ss)
             before == Len(FlattenSeq(SubSeq(ss, 1, i - 1)))
         IN /\ before \in Nat
            /\ Len(FlattenSeq(SubSeq(ss, 1, i))) = before + Len(ss[i])
            /\ before + Len(ss[i]) <= Len(flat)
            /\ \A k \in 1 .. Len(ss[i]) : flat[before + k] = ss[i][k]
<1> DEFINE n == Len(ss)
<1>1. PICK runs : Runs(ss, runs, n, S) /\ FlattenSeq(ss) = runs[n]
  BY FlattenRuns
<1>2. i - 1 \in 0 .. n /\ i \in 0 .. n /\ n \in i .. n /\ n \in 0 .. n /\ n \in Nat
  OBVIOUS
<1>a. \A j \in 1 .. n : ss[j] \in Seq(S)
  OBVIOUS
<1>3. /\ FlattenSeq(SubSeq(ss, 1, i - 1)) = runs[i - 1]
      /\ FlattenSeq(SubSeq(ss, 1, i)) = runs[i]
  BY <1>1, <1>2, FlattenPrefix
<1> HIDE DEF n
<1>4. runs[i] = runs[i - 1] \o ss[i]
  BY <1>1, <1>2 DEF Runs, n
<1>5. Begins(runs[i], runs[n])
  BY ONLY <1>1, <1>2, <1>a, RunsGrow
<1>6. runs[i - 1] \in Seq(S) /\ runs[i] \in Seq(S) /\ runs[n] \in Seq(S)
  BY ONLY <1>1, <1>2 DEF Runs
<1>7. ss[i] \in Seq(S)
  OBVIOUS
<1>8. Len(runs[i - 1]) \in Nat /\ Len(runs[i]) = Len(runs[i - 1]) + Len(ss[i])
  BY ONLY <1>4, <1>6, <1>7
<1>9. \A k \in 1 .. Len(ss[i]) :
        /\ Len(runs[i - 1]) + k \in 1 .. Len(runs[i])
        /\ runs[i][Len(runs[i - 1]) + k] = ss[i][k]
  <2> DEFINE a == runs[i - 1]
             b == ss[i]
  <2>1. a \in Seq(S) /\ b \in Seq(S) /\ runs[i] = a \o b
    BY ONLY <1>4, <1>6, <1>7
  <2> HIDE DEF a, b
  <2>2. \A k \in 1 .. Len(b) : Len(a) + k \in 1 .. Len(a \o b) /\ (a \o b)[Len(a) + k] = b[k]
    BY ONLY <2>1, AppendedPlace
  <2> QED
    BY ONLY <2>1, <2>2 DEF a, b
<1>10. \A k \in 1 .. Len(ss[i]) : runs[n][Len(runs[i - 1]) + k] = ss[i][k]
  <2> TAKE k \in 1 .. Len(ss[i])
  <2> QED
    BY ONLY <1>5, <1>9, k \in 1 .. Len(ss[i]) DEF Begins
<1> QED
  BY ONLY <1>1, <1>3, <1>5, <1>8, <1>10 DEF Begins

(* The length of the first i strings together. *)
LengthTo(ss, i) == Len(FlattenSeq(SubSeq(ss, 1, i)))

LEMMA LengthsTo ==
  ASSUME NEW S, NEW ss \in Seq(Seq(S))
  PROVE  /\ LengthTo(ss, 0) = 0
         /\ LengthTo(ss, Len(ss)) = Len(FlattenSeq(ss))
         /\ \A i \in 0 .. Len(ss) : LengthTo(ss, i) \in Nat
         /\ \A i \in 1 .. Len(ss) : LengthTo(ss, i) = LengthTo(ss, i - 1) + Len(ss[i])
<1>1. LengthTo(ss, 0) = 0
  <2>1. SubSeq(ss, 1, 0) = <<>> /\ <<>> \in Seq(Seq(S)) /\ Len(<<>>) = 0
    OBVIOUS
  <2>2. PICK runs : Runs(<<>>, runs, 0, S) /\ FlattenSeq(<<>>) = runs[0]
    BY <2>1, FlattenRuns
  <2> QED
    BY ONLY <2>1, <2>2 DEF Runs, LengthTo
<1>2. LengthTo(ss, Len(ss)) = Len(FlattenSeq(ss))
  <2>1. SubSeq(ss, 1, Len(ss)) = ss
    OBVIOUS
  <2> QED
    BY <2>1 DEF LengthTo
<1>3. \A i \in 1 .. Len(ss) : LengthTo(ss, i) = LengthTo(ss, i - 1) + Len(ss[i])
  BY FlattenPlaces DEF LengthTo
<1>4. \A i \in 0 .. Len(ss) : LengthTo(ss, i) \in Nat
  <2> TAKE i \in 0 .. Len(ss)
  <2>1. SubSeq(ss, 1, i) \in Seq(Seq(S))
    OBVIOUS
  <2> DEFINE some == SubSeq(ss, 1, i)
  <2> HIDE DEF some
  <2>2. FlattenSeq(some) \in Seq(S)
    BY <2>1, FlattenTyped DEF some
  <2> QED
    BY <2>2 DEF LengthTo, some
<1> QED
  BY <1>1, <1>2, <1>3, <1>4

LEMMA StringPlaced ==
  ASSUME NEW S, NEW ss \in Seq(Seq(S)), NEW i \in 1 .. Len(ss)
  PROVE  /\ LengthTo(ss, i - 1) + Len(ss[i]) <= Len(FlattenSeq(ss))
         /\ \A k \in 1 .. Len(ss[i]) :
              FlattenSeq(ss)[LengthTo(ss, i - 1) + k] = ss[i][k]
BY FlattenPlaces DEF LengthTo

(* Strings each longer by one than those of ss, the first one by first. *)
Longer(tt, ss, first) ==
  /\ Len(tt) = Len(ss)
  /\ \A i \in 1 .. Len(ss) : Len(tt[i]) = Len(ss[i]) + (IF i = 1 THEN first ELSE 1)

LEMMA LongerStrings ==
  ASSUME NEW S, NEW ss \in Seq(Seq(S)), NEW tt \in Seq(Seq(S)), NEW first \in {0, 1},
         Longer(tt, ss, first)
  PROVE  \A i \in 1 .. Len(ss) : LengthTo(tt, i) = LengthTo(ss, i) + i - 1 + first
<1> DEFINE n == Len(ss)
           S1(i) == LengthTo(ss, i)
           T1(i) == LengthTo(tt, i)
           L(i) == Len(ss[i])
           M(i) == Len(tt[i])
           Bad == {i \in 1 .. n : T1(i) # S1(i) + i - 1 + first}
<1>1. /\ S1(0) = 0 /\ n \in Nat
      /\ \A i \in 0 .. n : S1(i) \in Nat
      /\ \A i \in 1 .. n : S1(i) = S1(i - 1) + L(i)
  BY LengthsTo
<1>2. /\ T1(0) = 0 /\ Len(tt) = n
      /\ \A i \in 0 .. n : T1(i) \in Nat
      /\ \A i \in 1 .. n : T1(i) = T1(i - 1) + M(i)
  BY LengthsTo DEF Longer
<1>3. \A i \in 1 .. n : M(i) = L(i) + (IF i = 1 THEN first ELSE 1) /\ L(i) \in Nat
  <2>1. \A i \in 1 .. n : L(i) \in Nat
    OBVIOUS
  <2>2. \A i \in 1 .. n : M(i) = L(i) + (IF i = 1 THEN first ELSE 1)
    BY DEF Longer
  <2> QED
    BY ONLY <2>1, <2>2
<1> HIDE DEF S1, T1, L, M, n
<1>4. Bad \subseteq Nat
  OBVIOUS
<1>5. Bad = {}
  <2> SUFFICES ASSUME Bad # {} PROVE FALSE
    OBVIOUS
  <2>1. PICK i \in Bad : \A j \in Bad : i <= j
    <3> HIDE DEF Bad
    <3> QED
      BY <1>4, LeastElement
  <2>2. i \in 1 .. n /\ T1(i) # S1(i) + i - 1 + first
    BY <2>1
  <2>3. /\ S1(i) = S1(i - 1) + L(i) /\ T1(i) = T1(i - 1) + M(i)
        /\ M(i) = L(i) + (IF i = 1 THEN first ELSE 1) /\ L(i) \in Nat /\ i \in Nat
    BY ONLY <1>1, <1>2, <1>3, <2>2
  <2>4. CASE i = 1
    <3>1. i - 1 = 0
      BY ONLY <2>4
    <3>2. S1(i - 1) = 0 /\ T1(i - 1) = 0
      BY ONLY <1>1, <1>2, <3>1
    <3>3. T1(i) = 0 + (L(i) + first) /\ S1(i) = 0 + L(i)
      BY ONLY <2>3, <2>4, <3>2
    <3> QED
      BY ONLY <2>2, <2>3, <2>4, <3>3, first \in {0, 1}
  <2>5. CASE i # 1
    <3>1. i - 1 \in 1 .. n /\ i - 1 \in 0 .. n
      BY ONLY <1>1, <2>2, <2>5
    <3>2. i - 1 \notin Bad
      <4> HIDE DEF Bad
      <4> QED
        BY ONLY <2>1, <2>3, <3>1
    <3>3. T1(i - 1) = S1(i - 1) + (i - 1) - 1 + first
      BY ONLY <3>1, <3>2
    <3>4. S1(i - 1) \in Nat /\ T1(i - 1) \in Nat
      BY ONLY <1>1, <1>2, <3>1
    <3>5. M(i) = L(i) + 1
      BY ONLY <2>3, <2>5
    <3> DEFINE a == S1(i - 1)
               b == T1(i - 1)
               l == L(i)
    <3>6. /\ a \in Nat /\ b \in Nat /\ l \in Nat /\ i \in Nat
          /\ b = a + (i - 1) - 1 + first
          /\ S1(i) = a + l /\ T1(i) = b + (l + 1)
      BY ONLY <2>3, <3>3, <3>4, <3>5
    <3> HIDE DEF a, b, l
    <3>7. T1(i) = S1(i) + i - 1 + first
      BY ONLY <3>6, first \in {0, 1}
    <3> QED
      BY ONLY <2>2, <3>7
  <2> QED
    BY <2>4, <2>5
<1> QED
  BY <1>5 DEF S1, T1, n
=============================================================================

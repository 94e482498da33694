----------------------------- MODULE FormatProofs -----------------------------
(***************************************************************************)
(* The formatter prints what a format means, for every format whose        *)
(* directives it knows and every argument, as far as its buffer goes.      *)
(***************************************************************************)
EXTENDS Format, Arithmetic, FiniteSetTheorems

----------------------------------------------------------------------------
(* Numerals. *)

LEMMA WordFacts ==
  /\ WORD \in Nat /\ WORD >= 2 /\ WORD % 2 = 0
  /\ BUFCAP \in Nat /\ BUFCAP >= 1 /\ BUFCAP <= WORD
BY FormatAssumption

LEMMA PowerFacts ==
  ASSUME NEW base \in Nat \ {0}
  PROVE  /\ Power(base)[0] = 1
         /\ \A k \in 0 .. WORD : Power(base)[k] \in Nat \ {0}
         /\ \A k \in 1 .. WORD : Power(base)[k] = base * Power(base)[k - 1]
<1> DEFINE P == Nat \ {0}
           step == [i \in 1 .. WORD |-> [p \in P |-> base * p]]
           Eqn(f) == f = [k \in 0 .. WORD |-> IF k = 0 THEN 1 ELSE base * f[k - 1]]
           power == Power(base)
<1>1. WORD \in Nat /\ 1 \in P
  BY WordFacts
<1>2. \A p \in P : base * p \in P
  BY SMT
<1>3. Steps(step, WORD, P)
  BY <1>2 DEF Steps
<1>4. PICK f : Recurses(f, step, WORD, 1, P)
  <2> HIDE DEF step, P
  <2> QED
    BY ONLY <1>1, <1>3, Recursion
<1>5. Eqn(f)
  <2>a. \A i \in 1 .. WORD, x \in P : step[i][x] = base * x
    OBVIOUS
  <2> HIDE DEF step, P
  <2>0. /\ f \in [0 .. WORD -> P]
        /\ f = [i \in 0 .. WORD |-> IF i = 0 THEN 1 ELSE step[i][f[i - 1]]]
    BY ONLY <1>4 DEF Recurses
  <2>1. \A i \in 1 .. WORD : f[i - 1] \in P
    <3>1. f \in [0 .. WORD -> P] /\ \A i \in 1 .. WORD : i - 1 \in 0 .. WORD
      BY <1>1, <2>0
    <3> QED
      BY ONLY <3>1
  <2>b. \A i \in 0 .. WORD : f[i] = IF i = 0 THEN 1 ELSE step[i][f[i - 1]]
    <3> QED
      BY ONLY <2>0
  <2>2. \A i \in 0 .. WORD : f[i] = IF i = 0 THEN 1 ELSE base * f[i - 1]
    <3> TAKE i \in 0 .. WORD
    <3>1. i # 0 => i \in 1 .. WORD
      BY <1>1
    <3> QED
      BY ONLY <2>1, <2>a, <2>b, <3>1, i \in 0 .. WORD
  <2> QED
    BY ONLY <2>0, <2>2
<1>6. Eqn(power)
  <2>1. power = CHOOSE g : Eqn(g)
    BY DEF Power
  <2> HIDE DEF Eqn, power
  <2> QED
    BY <1>5, <2>1
<1> HIDE DEF power
<1>7. /\ power[0] = 1
      /\ \A k \in 1 .. WORD : power[k] = base * power[k - 1]
  <2>1. 0 \in 0 .. WORD /\ \A k \in 1 .. WORD : k \in 0 .. WORD /\ k # 0
    BY <1>1
  <2> QED
    BY ONLY <1>6, <2>1
<1>8. \A k \in 0 .. WORD : power[k] \in P
  <2> DEFINE T == {k \in 0 .. WORD : power[k] \in P}
  <2>1. 0 \in T
    BY <1>1, <1>7
  <2>2. \A i \in 1 .. WORD : i - 1 \in T => i \in T
    BY <1>1, <1>2, <1>7
  <2> HIDE DEF T
  <2>3. \A i \in 0 .. WORD : i \in T
    BY <1>1, <2>1, <2>2, Climbs
  <2> QED
    BY <2>3 DEF T
<1> QED
  BY <1>7, <1>8 DEF power

LEMMA LeftFacts ==
  ASSUME NEW v \in Nat, NEW base \in Nat \ {0}
  PROVE  /\ Left(v, base)[0] = v
         /\ \A k \in 0 .. WORD : Left(v, base)[k] \in Nat
         /\ \A k \in 1 .. WORD : Left(v, base)[k] = Left(v, base)[k - 1] \div base
<1> DEFINE step == [i \in 1 .. WORD |-> [x \in Nat |-> x \div base]]
           Eqn(f) == f = [k \in 0 .. WORD |-> IF k = 0 THEN v ELSE f[k - 1] \div base]
           left == Left(v, base)
<1>1. WORD \in Nat
  BY WordFacts
<1>2. \A x \in Nat : x \div base \in Nat
  BY DivMod
<1>3. Steps(step, WORD, Nat)
  BY <1>2 DEF Steps
<1>4. PICK f : Recurses(f, step, WORD, v, Nat)
  <2> HIDE DEF step
  <2> QED
    BY ONLY <1>1, <1>3, v \in Nat, Recursion
<1>5. Eqn(f)
  <2>a. \A i \in 1 .. WORD, x \in Nat : step[i][x] = x \div base
    OBVIOUS
  <2> HIDE DEF step
  <2>0. /\ f \in [0 .. WORD -> Nat]
        /\ f = [i \in 0 .. WORD |-> IF i = 0 THEN v ELSE step[i][f[i - 1]]]
    BY ONLY <1>4 DEF Recurses
  <2>1. \A i \in 1 .. WORD : f[i - 1] \in Nat
    <3>1. f \in [0 .. WORD -> Nat] /\ \A i \in 1 .. WORD : i - 1 \in 0 .. WORD
      BY <1>1, <2>0
    <3> QED
      BY ONLY <3>1
  <2>b. \A i \in 0 .. WORD : f[i] = IF i = 0 THEN v ELSE step[i][f[i - 1]]
    <3> QED
      BY ONLY <2>0
  <2>2. \A i \in 0 .. WORD : f[i] = IF i = 0 THEN v ELSE f[i - 1] \div base
    <3> TAKE i \in 0 .. WORD
    <3>1. i # 0 => i \in 1 .. WORD
      BY <1>1
    <3> QED
      BY ONLY <2>1, <2>a, <2>b, <3>1, i \in 0 .. WORD
  <2> HIDE DEF step
  <2> QED
    BY ONLY <2>0, <2>2
<1>6. Eqn(left)
  <2>1. left = CHOOSE g : Eqn(g)
    BY DEF Left
  <2> HIDE DEF Eqn, left
  <2> QED
    BY <1>5, <2>1
<1> HIDE DEF left
<1>7. /\ left[0] = v
      /\ \A k \in 1 .. WORD : left[k] = left[k - 1] \div base
  <2>1. 0 \in 0 .. WORD /\ \A k \in 1 .. WORD : k \in 0 .. WORD /\ k # 0
    BY <1>1
  <2> QED
    BY ONLY <1>6, <2>1
<1>8. \A k \in 0 .. WORD : left[k] \in Nat
  <2> DEFINE T == {k \in 0 .. WORD : left[k] \in Nat}
  <2>1. 0 \in T
    BY <1>1, <1>7
  <2>2. \A i \in 1 .. WORD : i - 1 \in T => i \in T
    <3> TAKE i \in 1 .. WORD
    <3> HAVE i - 1 \in T
    <3>1. left[i - 1] \in Nat /\ left[i] = left[i - 1] \div base /\ i \in 0 .. WORD
      BY <1>1, <1>7
    <3>2. left[i] \in Nat
      BY ONLY <1>2, <3>1
    <3> QED
      BY <3>1, <3>2
  <2> HIDE DEF T
  <2>3. \A i \in 0 .. WORD : i \in T
    BY <1>1, <2>1, <2>2, Climbs
  <2> QED
    BY <2>3 DEF T
<1> QED
  BY <1>7, <1>8 DEF left

(* k turns divide by the k-th power. *)
LEMMA LeftIsQuotient ==
  ASSUME NEW v \in Nat, NEW base \in Nat \ {0}
  PROVE  \A k \in 0 .. WORD : Left(v, base)[k] = v \div Power(base)[k]
<1> DEFINE left == Left(v, base)
           power == Power(base)
           T == {k \in 0 .. WORD : left[k] = v \div power[k]}
<1>1. WORD \in Nat
  BY WordFacts
<1>2. /\ left[0] = v
      /\ \A k \in 1 .. WORD : left[k] = left[k - 1] \div base
  BY LeftFacts
<1>3. /\ power[0] = 1
      /\ \A k \in 0 .. WORD : power[k] \in Nat \ {0}
      /\ \A k \in 1 .. WORD : power[k] = base * power[k - 1]
  BY PowerFacts
<1> HIDE DEF left, power
<1>4. 0 \in T
  <2>1. v \div 1 = v
    BY SMT
  <2> QED
    BY <1>1, <1>2, <1>3, <2>1
<1>5. ASSUME NEW i \in 1 .. WORD, i - 1 \in T PROVE i \in T
  <2> DEFINE p == power[i - 1]
  <2>1. p \in Nat \ {0} /\ power[i] = base * p /\ left[i] = left[i - 1] \div base
    BY <1>1, <1>2, <1>3
  <2>2. left[i - 1] = v \div p
    BY <1>5
  <2> HIDE DEF p
  <2>3. (v \div p) \div base = v \div (p * base)
    BY <2>1, DivDiv
  <2>4. p * base = base * p
    BY <2>1
  <2>5. left[i] = v \div power[i]
    BY ONLY <2>1, <2>2, <2>3, <2>4
  <2> QED
    BY <1>1, <2>5
<1> HIDE DEF T
<1>6. \A i \in 0 .. WORD : i \in T
  BY <1>1, <1>4, <1>5, Climbs
<1> QED
  BY <1>6 DEF T, left, power

LEMMA ZeroQuotient ==
  ASSUME NEW v \in Nat, NEW p \in Nat \ {0}
  PROVE  v \div p = 0 <=> v < p
<1> DEFINE q == v \div p
           r == v % p
<1>1. q \in Nat /\ r \in 0 .. p - 1 /\ v = q * p + r
  BY DivMod
<1> HIDE DEF q, r
<1>2. CASE q = 0
  <2>1. q * p = 0
    BY <1>2, SMT
  <2> QED
    BY ONLY <1>1, <1>2, <2>1, p \in Nat \ {0} DEF q
<1>3. CASE q # 0
  <2>1. q * p >= p /\ q * p \in Nat
    BY ONLY <1>1, <1>3, p \in Nat \ {0}, SMT
  <2> QED
    BY ONLY <1>1, <1>3, <2>1, p \in Nat \ {0} DEF q
<1> QED
  BY <1>2, <1>3

LEMMA Shrinks ==
  ASSUME NEW v \in Nat \ {0}, NEW base \in Nat, base >= 2
  PROVE  v \div base < v /\ v \div base \in Nat
<1> DEFINE q == v \div base
           r == v % base
<1>0. base \in Nat \ {0}
  OBVIOUS
<1>1. q \in Nat /\ r \in 0 .. base - 1 /\ v = q * base + r
  BY <1>0, DivMod
<1> HIDE DEF q, r
<1>2. CASE q = 0
  BY <1>1, <1>2 DEF q
<1>3. CASE q # 0
  <2>1. q * base >= q + q /\ q * base \in Nat
    BY ONLY <1>1, base \in Nat, base >= 2, SMT
  <2> QED
    BY ONLY <1>1, <1>3, <2>1 DEF q
<1> QED
  BY <1>2, <1>3

(* Nothing is left after as many turns as a word has values. *)
LEMMA LeftRunsOut ==
  ASSUME NEW v \in 0 .. WORD - 1, NEW base \in Nat, base >= 2
  PROVE  Left(v, base)[WORD] = 0
<1> DEFINE left == Left(v, base)
           T == {k \in 0 .. WORD : left[k] = 0 \/ left[k] + k <= v}
<1>1. WORD \in Nat /\ v \in Nat /\ v < WORD
  BY WordFacts
<1>2. /\ left[0] = v
      /\ \A k \in 0 .. WORD : left[k] \in Nat
      /\ \A k \in 1 .. WORD : left[k] = left[k - 1] \div base
  BY <1>1, LeftFacts
<1> HIDE DEF left
<1>3. 0 \in T
  BY <1>1, <1>2
<1>4. ASSUME NEW i \in 1 .. WORD, i - 1 \in T PROVE i \in T
  <2> DEFINE x == left[i - 1]
  <2>1. x \in Nat /\ left[i] = x \div base /\ (x = 0 \/ x + (i - 1) <= v) /\ left[i] \in Nat
    BY <1>1, <1>2, <1>4
  <2> HIDE DEF x
  <2>2. CASE x = 0
    <3>1. 0 \div base = 0
      BY ZeroQuotient
    <3> QED
      BY <1>1, <2>1, <2>2, <3>1
  <2>3. CASE x # 0
    <3>1. x \div base < x
      BY <2>1, <2>3, Shrinks
    <3>2. left[i] + i <= v
      BY ONLY <1>1, <2>1, <2>3, <3>1, i \in 1 .. WORD
    <3> QED
      BY <1>1, <3>2
  <2> QED
    BY <2>2, <2>3
<1> HIDE DEF T
<1>5. \A i \in 0 .. WORD : i \in T
  BY <1>1, <1>3, <1>4, Climbs
<1>6. WORD \in 0 .. WORD
  BY <1>1
<1>7. left[WORD] = 0 \/ left[WORD] + WORD <= v
  BY <1>5, <1>6 DEF T
<1> QED
  BY <1>1, <1>2, <1>6, <1>7 DEF left

(* The turn after which nothing is left is the last place. *)
Turns(v, base) == Min({k \in 1 .. WORD : Left(v, base)[k] = 0})

LEMMA TurnsFacts ==
  ASSUME NEW v \in 0 .. WORD - 1, NEW base \in Nat, base >= 2
  PROVE  /\ Turns(v, base) \in 1 .. WORD
         /\ Left(v, base)[Turns(v, base)] = 0
         /\ \A k \in 1 .. WORD : Left(v, base)[k] = 0 => Turns(v, base) <= k
<1> DEFINE T == {k \in 1 .. WORD : Left(v, base)[k] = 0}
<1>1. WORD \in 1 .. WORD
  BY WordFacts
<1>2. T \subseteq Nat /\ T # {}
  BY <1>1, LeftRunsOut
<1>3. PICK m \in T : \A k \in T : m <= k
  <2> HIDE DEF T
  <2> QED
    BY <1>2, LeastElement
<1>4. Min(T) = m
  <2> HIDE DEF T
  <2> QED
    BY <1>2, <1>3, LeastIs
<1> QED
  BY <1>3, <1>4 DEF Turns

LEMMA TurnsArePlaces ==
  ASSUME NEW v \in 0 .. WORD - 1, NEW base \in Nat, base >= 2
  PROVE  Places(v, base) = Turns(v, base)
<1> DEFINE left == Left(v, base)
           power == Power(base)
           n == Turns(v, base)
           Right(m) == v < power[m] /\ (m > 1 => v >= power[m - 1])
<1>1. WORD \in Nat /\ v \in Nat /\ base \in Nat \ {0}
  BY WordFacts
<1>2. \A k \in 0 .. WORD : power[k] \in Nat \ {0} /\ (left[k] = 0 <=> v < power[k])
  <2> TAKE k \in 0 .. WORD
  <2> DEFINE p == power[k]
  <2>1. p \in Nat \ {0} /\ left[k] = v \div p
    BY <1>1, PowerFacts, LeftIsQuotient
  <2> HIDE DEF p
  <2>2. v \div p = 0 <=> v < p
    BY <1>1, <2>1, ZeroQuotient
  <2> QED
    BY <2>1, <2>2 DEF p
<1>3. n \in 1 .. WORD /\ left[n] = 0 /\ \A k \in 1 .. WORD : left[k] = 0 => n <= k
  BY TurnsFacts
<1>4. \A k \in 1 .. WORD : left[k] = left[k - 1] \div base
  BY <1>1, LeftFacts
<1>5. \A k \in 0 .. WORD : k >= n => left[k] = 0
  <2> DEFINE T == {k \in 0 .. WORD : k >= n => left[k] = 0}
  <2> HIDE DEF left, n
  <2>1. 0 \in T
    BY <1>1, <1>3
  <2>2. ASSUME NEW i \in 1 .. WORD, i - 1 \in T PROVE i \in T
    <3>1. CASE i > n
      <4>1. left[i - 1] = 0
        BY <1>1, <1>3, <2>2, <3>1
      <4>2. 0 \div base = 0
        BY <1>1, ZeroQuotient
      <4> QED
        BY <1>1, <1>4, <4>1, <4>2
    <3>2. CASE i = n
      BY <1>1, <1>3, <3>2
    <3>3. CASE i < n
      BY <1>1, <1>3, <3>3
    <3> QED
      BY <1>1, <1>3, <3>1, <3>2, <3>3
  <2> HIDE DEF T
  <2>3. \A i \in 0 .. WORD : i \in T
    BY <1>1, <2>1, <2>2, Climbs
  <2> QED
    BY <2>3 DEF T
<1> HIDE DEF left, power, n
<1>6. \A m \in 1 .. WORD : m \in 0 .. WORD /\ m - 1 \in 0 .. WORD
  BY <1>1
<1>7. Right(n)
  <2>1. v < power[n]
    BY <1>2, <1>3, <1>6
  <2>2. n > 1 => v >= power[n - 1]
    <3> SUFFICES ASSUME n > 1 PROVE v >= power[n - 1]
      OBVIOUS
    <3>1. n - 1 \in 1 .. WORD /\ ~ (n <= n - 1)
      BY <1>1, <1>3
    <3>2. left[n - 1] # 0
      BY <1>3, <3>1
    <3>3. power[n - 1] \in Nat /\ ~ (v < power[n - 1])
      BY <1>2, <1>3, <1>6, <3>2
    <3> QED
      BY ONLY <1>1, <3>3
  <2> QED
    BY <2>1, <2>2
<1>8. ASSUME NEW m \in 1 .. WORD, Right(m) PROVE m = n
  <2>1. left[m] = 0
    BY <1>2, <1>6, <1>8
  <2>2. n <= m
    BY <1>3, <2>1
  <2>3. m > 1 => left[m - 1] # 0
    <3> SUFFICES ASSUME m > 1 PROVE left[m - 1] # 0
      OBVIOUS
    <3>1. power[m - 1] \in Nat /\ (left[m - 1] = 0 <=> v < power[m - 1]) /\ v >= power[m - 1]
      BY <1>2, <1>6, <1>8
    <3> QED
      BY ONLY <1>1, <3>1
  <2>4. m > 1 => ~ (m - 1 >= n)
    BY <1>5, <1>6, <2>3
  <2> QED
    BY ONLY <1>3, <2>2, <2>4, m \in 1 .. WORD
<1>9. Places(v, base) = CHOOSE m \in 1 .. WORD : Right(m)
  BY DEF Places, power
<1> HIDE DEF Right
<1> QED
  BY <1>3, <1>7, <1>8, <1>9 DEF n

Decimals == <<"0", "1", "2", "3", "4", "5", "6", "7", "8", "9">>
Small == <<"a", "b", "c", "d", "e", "f">>
Capital == <<"A", "B", "C", "D", "E", "F">>
Digits(upper) == IF upper THEN CapitalDigits ELSE HexDigits

LEMMA JoinPlaces ==
  ASSUME NEW S, NEW s \in Seq(S), NEW t \in Seq(S), NEW m, Len(s) = m, NEW n, Len(t) = n
  PROVE  /\ s \o t \in Seq(S) /\ Len(s \o t) = m + n
         /\ \A i \in 1 .. m : (s \o t)[i] = s[i]
         /\ \A i \in 1 .. n : (s \o t)[m + i] = t[i]
<1>1. /\ s \o t \in Seq(S) /\ Len(s \o t) = Len(s) + Len(t)
      /\ \A i \in 1 .. Len(s) : (s \o t)[i] = s[i]
      /\ \A i \in 1 .. Len(t) : (s \o t)[Len(s) + i] = t[i]
  OBVIOUS
<1> QED
  BY <1>1

LEMMA JoinFacts ==
  ASSUME NEW S, NEW s \in Seq(S), NEW t \in Seq(S), NEW m, Len(s) = m, NEW n, Len(t) = n
  PROVE  /\ \A i \in 1 .. m : s[i] \in S
         /\ \A i \in 1 .. n : t[i] \in S
         /\ \A i \in 1 .. m : (s \o t)[i] = s[i]
         /\ \A i \in 1 .. n : (s \o t)[m + i] = t[i]
         /\ SubSeq(s \o t, 1, m) \in Seq(S)
         /\ Len(SubSeq(s \o t, 1, m)) = m
         /\ \A i \in 1 .. m : SubSeq(s \o t, 1, m)[i] = s[i]
<1> DEFINE all == s \o t
<1>1. all \in Seq(S) /\ Len(all) = m + n /\ m \in Nat /\ n \in Nat
  OBVIOUS
<1>2. /\ \A i \in 1 .. Len(s) : s[i] \in S /\ all[i] = s[i]
      /\ \A i \in 1 .. Len(t) : t[i] \in S /\ all[Len(s) + i] = t[i]
  OBVIOUS
<1> HIDE DEF all
<1>3. /\ SubSeq(all, 1, m) \in Seq(S)
      /\ Len(SubSeq(all, 1, m)) = m
      /\ \A i \in 1 .. m : SubSeq(all, 1, m)[i] = all[i]
  BY <1>1
<1> QED
  BY <1>2, <1>3 DEF all

LEMMA DigitsAre ==
  ASSUME NEW m, m = 10, NEW n, n = 6
  PROVE  /\ \A i \in 1 .. m : Decimals[i] \in DigitChars
         /\ \A i \in 1 .. n : Small[i] \in DigitChars /\ Capital[i] \in DigitChars
         /\ \A i \in 1 .. m : HexDigits[i] = Decimals[i] /\ CapitalDigits[i] = Decimals[i]
         /\ \A i \in 1 .. n : HexDigits[m + i] = Small[i] /\ CapitalDigits[m + i] = Capital[i]
<1> DEFINE C == DigitChars
           Both == Decimals \o Small
           Ten == SubSeq(Both, 1, m)
<1>1. /\ Decimals \in Seq(C) /\ Len(Decimals) = m
      /\ Small \in Seq(C) /\ Len(Small) = n
      /\ Capital \in Seq(C) /\ Len(Capital) = n
  BY DEF Decimals, Small, Capital, DigitChars
<1>2. /\ HexDigits = Both
      /\ CapitalDigits = Ten \o Capital
  BY DEF HexDigits, CapitalDigits, Decimals, Small, Capital
<1> HIDE DEF C
<1>3. /\ \A i \in 1 .. m : Decimals[i] \in C
      /\ \A i \in 1 .. n : Small[i] \in C
      /\ \A i \in 1 .. m : Both[i] = Decimals[i]
      /\ \A i \in 1 .. n : Both[m + i] = Small[i]
      /\ Ten \in Seq(C) /\ Len(Ten) = m
      /\ \A i \in 1 .. m : Ten[i] = Decimals[i]
  BY ONLY <1>1, JoinFacts, SMTT(30)
<1> HIDE DEF Both, Ten
<1>4. /\ \A i \in 1 .. n : Capital[i] \in C
      /\ \A i \in 1 .. m : (Ten \o Capital)[i] = Ten[i]
      /\ \A i \in 1 .. n : (Ten \o Capital)[m + i] = Capital[i]
  BY ONLY <1>1, <1>3, JoinFacts, SMTT(30)
<1>5. C = DigitChars
  BY DEF C
<1> QED
  BY ONLY <1>2, <1>3, <1>4, <1>5

LEMMA DigitFacts ==
  ASSUME NEW d \in 0 .. 15, NEW upper \in BOOLEAN
  PROVE  Digit(d, upper) = Digits(upper)[d + 1] /\ Digit(d, upper) \in DigitChars
<1> DEFINE m == 10
           n == 6
<1>0. m = 10 /\ n = 6
  OBVIOUS
<1> HIDE DEF m, n
<1>1. /\ \A i \in 1 .. m : Decimals[i] \in DigitChars
      /\ \A i \in 1 .. n : Small[i] \in DigitChars /\ Capital[i] \in DigitChars
      /\ \A i \in 1 .. m : HexDigits[i] = Decimals[i] /\ CapitalDigits[i] = Decimals[i]
      /\ \A i \in 1 .. n : HexDigits[m + i] = Small[i] /\ CapitalDigits[m + i] = Capital[i]
  BY ONLY <1>0, DigitsAre
<1>2. CASE d < 10
  <2>1. Digit(d, upper) = Decimals[d + 1]
    BY <1>2 DEF Digit, Decimals
  <2>2. d + 1 \in 1 .. m
    BY <1>0, <1>2
  <2> QED
    BY <1>1, <2>1, <2>2 DEF Digits
<1>3. CASE d >= 10
  <2> DEFINE i == d - 9
  <2>1. i \in 1 .. n /\ d + 1 = m + i /\ i \in {1, 2, 3, 4, 5, 6} /\ d = i + 9
    BY <1>0, <1>3
  <2>2. upper => Digit(d, upper) = Capital[i]
    BY <1>3 DEF Digit, Capital
  <2> HIDE DEF i
  <2>3. ~ upper => Digit(d, upper) = Small[i]
    BY <2>1 DEF Digit, Small
  <2> QED
    BY <1>1, <2>1, <2>2, <2>3 DEF Digits
<1> QED
  BY <1>2, <1>3

LEMMA DigitsRight ==
  ASSUME NEW v \in 0 .. WORD - 1, NEW base \in {10, 16}, NEW upper \in BOOLEAN
  PROVE  /\ out_uint(v, base, upper) = Numeral(v, base, Digits(upper))
         /\ out_uint(v, base, upper) \in Seq(DigitChars)
<1> DEFINE left == Left(v, base)
           n == Turns(v, base)
           Shows(k) == Digit(left[n - k] % base, upper)
           text == out_uint(v, base, upper)
<1>1. /\ WORD \in Nat /\ v \in Nat
      /\ base \in Nat /\ base >= 2 /\ base <= 16 /\ base \in Nat \ {0}
  BY WordFacts
<1>2. n \in 1 .. WORD /\ Places(v, base) = n
  BY <1>1, TurnsFacts, TurnsArePlaces
<1>3. \A k \in 0 .. WORD : left[k] \in Nat /\ left[k] = v \div Power(base)[k]
  BY <1>1, LeftFacts, LeftIsQuotient
<1>4. text = [k \in 1 .. n |-> Shows(k)]
  BY DEF out_uint, Turns
<1>5. \A k \in 1 .. n :
        /\ Shows(k) = Digits(upper)[((v \div Power(base)[n - k]) % base) + 1]
        /\ Shows(k) \in DigitChars
  <2> TAKE k \in 1 .. n
  <2> DEFINE x == left[n - k]
  <2>1. n - k \in 0 .. WORD
    BY <1>1, <1>2
  <2>2. x \in Nat /\ x = v \div Power(base)[n - k]
    BY <1>3, <2>1
  <2> HIDE DEF x
  <2>3. x % base \in 0 .. base - 1
    BY <1>1, <2>2, DivMod
  <2>4. x % base \in 0 .. 15
    BY <1>1, <2>3
  <2> DEFINE d == x % base
  <2> HIDE DEF d
  <2>5. Digit(d, upper) = Digits(upper)[d + 1] /\ Digit(d, upper) \in DigitChars
    BY <2>4, DigitFacts DEF d
  <2> QED
    BY <2>2, <2>5 DEF d, x
<1>6. Numeral(v, base, Digits(upper)) =
        [k \in 1 .. n |-> Digits(upper)[((v \div Power(base)[n - k]) % base) + 1]]
  BY <1>2 DEF Numeral
<1> HIDE DEF text, n, left
<1>7. text \in Seq(DigitChars)
  <2> HIDE DEF Shows
  <2>1. [k \in 1 .. n |-> Shows(k)] \in [1 .. n -> DigitChars]
    BY <1>5
  <2>2. n \in Nat
    BY <1>1, <1>2
  <2> QED
    BY <1>4, <2>1, <2>2
<1>8. text = Numeral(v, base, Digits(upper))
  BY <1>4, <1>5, <1>6
<1> QED
  BY <1>7, <1>8 DEF text

----------------------------------------------------------------------------
(* Conversions. *)

LEMMA WiderText ==
  ASSUME NEW S, NEW C, S \subseteq C, NEW s \in Seq(S)
  PROVE  s \in Seq(C)
<1>1. Len(s) \in Nat /\ s \in [1 .. Len(s) -> C]
  OBVIOUS
<1> QED
  BY <1>1

LEMMA Joined ==
  ASSUME NEW S, NEW s \in Seq(S), NEW t \in Seq(S)
  PROVE  s \o t \in Seq(S)
OBVIOUS

Signed(v) == AsSigned(v, WORD)

LEMMA IntRight ==
  ASSUME NEW v \in 0 .. WORD - 1
  PROVE  /\ out_int(v) = IF Signed(v) < 0 THEN <<"-">> \o Numeral(-Signed(v), 10, HexDigits)
                                          ELSE Numeral(Signed(v), 10, HexDigits)
         /\ out_int(v) \in Seq(DigitChars \union {"-"})
<1> DEFINE D == DigitChars \union {"-"}
<1>1. WORD \in Nat /\ WORD \div 2 \in Nat /\ WORD \div 2 >= 1 /\ WORD \div 2 <= WORD
  BY WordFacts
<1>2. Digits(FALSE) = HexDigits /\ 10 \in {10, 16} /\ FALSE \in BOOLEAN
  BY DEF Digits
<1>3. <<"-">> \in Seq(D)
  OBVIOUS
<1>4. DigitChars \subseteq D
  OBVIOUS
<1> HIDE DEF D
<1>5. CASE v < WORD \div 2
  <2>1. ~ (v >= WORD \div 2) /\ Signed(v) = v /\ ~ (v < 0)
    BY <1>1, <1>5 DEF Signed, AsSigned
  <2>2. /\ out_uint(v, 10, FALSE) = Numeral(v, 10, HexDigits)
        /\ out_uint(v, 10, FALSE) \in Seq(DigitChars)
    BY <1>2, DigitsRight
  <2>3. out_uint(v, 10, FALSE) \in Seq(D)
    BY <1>4, <2>2, WiderText
  <2> QED
    BY <2>1, <2>2, <2>3 DEF out_int, D
<1>6. CASE v >= WORD \div 2
  <2> DEFINE w == WORD - v
  <2>1. /\ w \in 0 .. WORD - 1 /\ Signed(v) = v - WORD /\ Signed(v) < 0 /\ -Signed(v) = w
    BY <1>1, <1>6 DEF Signed, AsSigned
  <2>2. out_int(v) = <<"-">> \o out_uint(w, 10, FALSE)
    BY <1>6 DEF out_int
  <2> HIDE DEF w
  <2>3. /\ out_uint(w, 10, FALSE) = Numeral(w, 10, HexDigits)
        /\ out_uint(w, 10, FALSE) \in Seq(DigitChars)
    BY <1>2, <2>1, DigitsRight
  <2>4. out_uint(w, 10, FALSE) \in Seq(D)
    BY <1>4, <2>3, WiderText
  <2>5. <<"-">> \o out_uint(w, 10, FALSE) \in Seq(D)
    BY ONLY <1>3, <2>4, Joined
  <2> QED
    BY <2>1, <2>2, <2>3, <2>5 DEF D
<1>7. v < WORD \div 2 \/ v >= WORD \div 2
  BY <1>1
<1> QED
  BY <1>5, <1>6, <1>7

(* What a conversion writes is what its argument means. *)
LEMMA ConvertedIsShown ==
  ASSUME NEW C, Alphabet \subseteq C, NEW conversion \in TakesArgument, NEW arg,
         ArgumentFits(conversion, arg, C)
  PROVE  /\ Converted(conversion, arg) = Shown(conversion, arg, WORD)
         /\ Shown(conversion, arg, WORD) \in Seq(C)
<1>1. /\ DigitChars \subseteq C /\ DigitChars \union {"-"} \subseteq C
      /\ {"0", "x", "(", "n", "u", "l", ")"} \subseteq C
  BY DEF Alphabet, SkippedFlags, TakesArgument, DigitChars
<1>2. /\ Digits(FALSE) = HexDigits /\ Digits(TRUE) = CapitalDigits
      /\ 10 \in {10, 16} /\ 16 \in {10, 16} /\ FALSE \in BOOLEAN /\ TRUE \in BOOLEAN
  BY DEF Digits
<1>3. CASE conversion \in {"d", "i"}
  <2>1. arg \in 0 .. WORD - 1
    BY <1>3 DEF ArgumentFits
  <2>2. Converted(conversion, arg) = out_int(arg)
    BY <1>3 DEF Converted
  <2>3. Shown(conversion, arg, WORD) = out_int(arg)
    BY <1>3, <2>1, IntRight DEF Shown, Signed
  <2>4. out_int(arg) \in Seq(C)
    BY <1>1, <2>1, IntRight, WiderText
  <2> QED
    BY <2>2, <2>3, <2>4
<1>4. CASE conversion \in {"u", "x", "X", "p"}
  <2>1. arg \in 0 .. WORD - 1
    BY <1>4 DEF ArgumentFits
  <2>2. /\ out_uint(arg, 10, FALSE) = Numeral(arg, 10, HexDigits)
        /\ out_uint(arg, 16, FALSE) = Numeral(arg, 16, HexDigits)
        /\ out_uint(arg, 16, TRUE) = Numeral(arg, 16, CapitalDigits)
    BY <1>2, <2>1, DigitsRight
  <2>3. /\ out_uint(arg, 10, FALSE) \in Seq(C)
        /\ out_uint(arg, 16, FALSE) \in Seq(C)
        /\ out_uint(arg, 16, TRUE) \in Seq(C)
    <3>1. /\ out_uint(arg, 10, FALSE) \in Seq(DigitChars)
          /\ out_uint(arg, 16, FALSE) \in Seq(DigitChars)
          /\ out_uint(arg, 16, TRUE) \in Seq(DigitChars)
      BY <2>1, DigitsRight
    <3>2. DigitChars \subseteq C
      BY <1>1
    <3> QED
      BY ONLY <3>1, <3>2, WiderText
  <2>4. <<"0", "x">> \o out_uint(arg, 16, FALSE) \in Seq(C)
    <3>1. <<"0", "x">> \in Seq(C)
      BY <1>1
    <3> QED
      BY ONLY <2>3, <3>1, Joined
  <2>5. Converted(conversion, arg) = Shown(conversion, arg, WORD)
    BY <1>4, <2>2 DEF Converted, Shown
  <2>6. Converted(conversion, arg) \in Seq(C)
    BY <1>4, <2>3, <2>4 DEF Converted
  <2> QED
    BY <2>5, <2>6
<1>5. CASE conversion = "c"
  <2>1. <<arg>> \in Seq(C)
    BY <1>5 DEF ArgumentFits
  <2> QED
    BY <1>5, <2>1 DEF Converted, Shown
<1>6. CASE conversion = "s"
  <2> DEFINE text == IF arg = NULL THEN <<"(", "n", "u", "l", "l", ")">> ELSE arg
  <2>1. <<"(", "n", "u", "l", "l", ")">> \in Seq(C)
    BY <1>1
  <2>2. text \in Seq(C)
    BY <1>6, <2>1 DEF ArgumentFits
  <2>3. Converted(conversion, arg) = text
    BY <1>6 DEF Converted
  <2>4. Shown(conversion, arg, WORD) = text
    BY <1>6 DEF Shown
  <2> QED
    BY <2>2, <2>3, <2>4
<1> QED
  BY <1>3, <1>4, <1>5, <1>6 DEF TakesArgument

----------------------------------------------------------------------------
(* Directives. *)

LEMMA SpelledConversion ==
  ASSUME NEW C, Alphabet \subseteq C, NEW item, Proper(item, C), ~ IsPlain(item)
  PROVE  LET text == Spelled(item)
             n    == Len(text)
         IN /\ text \in Seq(C) /\ n \in Nat /\ n >= 2
            /\ text[1] = "%" /\ text[n] = item.conversion
            /\ \A k \in 2 .. n - 1 : text[k] \in SkippedFlags \union {"l"}
            /\ item.flags = <<>> => \A k \in 2 .. n - 1 : text[k] = "l"
            /\ item.longs = 0 => \A k \in 2 .. n - 1 : text[k] \in SkippedFlags
<1> DEFINE flags == item.flags
           m == Len(flags)
           l == item.longs
           ls == [k \in 1 .. l |-> "l"]
           c == item.conversion
           text == <<"%">> \o flags \o ls \o <<c>>
<1>1. /\ flags \in Seq(SkippedFlags) /\ l \in Nat /\ m \in Nat
      /\ flags = <<>> \/ l = 0
      /\ c \in C
  BY DEF Proper, Alphabet
<1>2. /\ flags \in Seq(C) /\ {"%", "l"} \subseteq C
      /\ \A k \in 1 .. m : flags[k] \in SkippedFlags
      /\ flags = <<>> => m = 0
  <2>1. SkippedFlags \subseteq C /\ {"%", "l"} \subseteq C
    BY DEF Alphabet
  <2> HIDE DEF flags
  <2> QED
    BY <1>1, <2>1, WiderText
<1>3. ls \in Seq({"l"}) /\ ls \in Seq(C) /\ Len(ls) = l /\ \A k \in 1 .. l : ls[k] = "l"
  BY <1>1, <1>2
<1>4. Spelled(item) = text
  BY DEF Spelled
<1> HIDE DEF flags, l, ls, c
<1>5. /\ text \in Seq(C) /\ Len(text) = m + l + 2
      /\ text[1] = "%" /\ text[m + l + 2] = c
      /\ \A k \in 1 .. m : text[k + 1] = flags[k]
      /\ \A k \in 1 .. l : text[k + m + 1] = ls[k]
  <2> DEFINE a == <<"%">> \o flags
             b == a \o ls
  <2>1. /\ a \in Seq(C) /\ Len(a) = m + 1 /\ a[1] = "%"
        /\ \A k \in 1 .. m : a[k + 1] = flags[k]
    BY <1>1, <1>2
  <2> HIDE DEF a, m
  <2>2. /\ b \in Seq(C) /\ Len(b) = m + 1 + l
        /\ \A k \in 1 .. m + 1 : b[k] = a[k]
        /\ \A k \in 1 .. l : b[k + m + 1] = ls[k]
    <3> DEFINE M == m + 1
    <3>1. a \in Seq(C) /\ ls \in Seq(C) /\ Len(a) = M /\ Len(ls) = l
      BY <1>3, <2>1
    <3> HIDE DEF M
    <3>2. /\ b \in Seq(C) /\ Len(b) = M + l
          /\ \A k \in 1 .. M : b[k] = a[k]
          /\ \A k \in 1 .. l : b[M + k] = ls[k]
      BY ONLY <3>1, JoinPlaces
    <3> HIDE DEF b
    <3>3. \A k \in 1 .. l : M + k = k + m + 1
      BY <1>1 DEF M
    <3> QED
      BY <1>1, <3>2, <3>3 DEF M
  <2> HIDE DEF b
  <2>3. text = b \o <<c>>
    BY DEF a, b
  <2> HIDE DEF text
  <2>4. /\ text \in Seq(C) /\ Len(text) = m + l + 2 /\ text[m + l + 2] = c
        /\ \A k \in 1 .. m + l + 1 : text[k] = b[k]
    <3> DEFINE M == m + 1 + l
               t == <<c>>
    <3>1. b \in Seq(C) /\ t \in Seq(C) /\ Len(b) = M /\ Len(t) = 1 /\ t[1] = c
      BY <1>1, <2>2
    <3>2. M \in Nat /\ M = m + l + 1 /\ M + 1 = m + l + 2
      BY <1>1
    <3>3. text = b \o t
      BY <2>3
    <3> HIDE DEF M, t
    <3> DEFINE n == 1
    <3>4. n = 1 /\ 1 \in 1 .. n
      OBVIOUS
    <3> HIDE DEF n
    <3>a. b \in Seq(C) /\ t \in Seq(C) /\ Len(b) = M /\ Len(t) = n
      BY <3>1, <3>4
    <3>5. /\ b \o t \in Seq(C) /\ Len(b \o t) = M + n
          /\ \A k \in 1 .. M : (b \o t)[k] = b[k]
          /\ \A k \in 1 .. n : (b \o t)[M + k] = t[k]
      BY ONLY <3>a, JoinPlaces
    <3> QED
      BY ONLY <3>1, <3>2, <3>3, <3>4, <3>5
  <2>5. text[1] = "%"
    BY <1>1, <2>1, <2>2, <2>4
  <2>6. \A k \in 1 .. m : text[k + 1] = flags[k]
    BY <1>1, <2>1, <2>2, <2>4
  <2>7. \A k \in 1 .. l : text[k + m + 1] = ls[k]
    BY <1>1, <2>2, <2>4
  <2> QED
    BY <2>4, <2>5, <2>6, <2>7
<1> HIDE DEF text, m
<1>6. \A k \in 2 .. m + l + 1 :
        \/ k - 1 \in 1 .. m /\ text[k] = flags[k - 1]
        \/ k - m - 1 \in 1 .. l /\ text[k] = ls[k - m - 1]
  <2> TAKE k \in 2 .. m + l + 1
  <2>1. CASE k <= m + 1
    <3>1. k - 1 \in 1 .. m /\ (k - 1) + 1 = k
      BY <1>1, <2>1
    <3> QED
      BY <1>5, <3>1
  <2>2. CASE k > m + 1
    <3>1. k - m - 1 \in 1 .. l /\ (k - m - 1) + m + 1 = k
      BY <1>1, <2>2
    <3> QED
      BY <1>5, <3>1
  <2> QED
    BY <1>1, <2>1, <2>2
<1>7. \A k \in 2 .. m + l + 1 : text[k] \in SkippedFlags \union {"l"}
  BY <1>2, <1>3, <1>6
<1>8. flags = <<>> => \A k \in 2 .. m + l + 1 : text[k] = "l"
  BY <1>2, <1>3, <1>6
<1>9. l = 0 => \A k \in 2 .. m + l + 1 : text[k] \in SkippedFlags
  BY <1>2, <1>6
<1>10. (m + l + 2) - 1 = m + l + 1 /\ m + l + 2 \in Nat /\ m + l + 2 >= 2
  BY <1>1
<1> QED
  BY <1>4, <1>5, <1>7, <1>8, <1>9, <1>10 DEF flags, l, c

LEMMA SkipsTo ==
  ASSUME NEW fmt, Len(fmt) \in Nat, NEW chars, NEW p \in Nat \ {0},
         NEW q \in p .. Len(fmt), \A k \in p .. q - 1 : fmt[k] \in chars,
         fmt[q] \notin chars
  PROVE  SkipOver(fmt, p, chars) = q
<1> DEFINE T == {k \in p .. Len(fmt) : fmt[k] \notin chars}
<1>1. q \in T /\ T \subseteq Nat
  OBVIOUS
<1>2. \A k \in T : q <= k
  OBVIOUS
<1>3. SkipOver(fmt, p, chars) =
        LET first == IF T # {} THEN Min(T) ELSE 0
        IN IF first = 0 THEN Len(fmt) + 1 ELSE first
  BY DEF SkipOver, SelectInSubSeq
<1> HIDE DEF T
<1>4. Min(T) = q
  BY <1>1, <1>2, LeastIs
<1> QED
  BY <1>1, <1>3, <1>4

(* A directive stands at p of the format. *)
StandsAt(item, fmt, p) ==
  /\ p \in Nat \ {0}
  /\ p + Len(Spelled(item)) - 1 <= Len(fmt)
  /\ \A k \in 1 .. Len(Spelled(item)) : fmt[p + k - 1] = Spelled(item)[k]

(* Its conversion is found at its end. *)
LEMMA ConversionFound ==
  ASSUME NEW C, Alphabet \subseteq C, NEW item, Proper(item, C), ~ IsPlain(item),
         NEW fmt, Len(fmt) \in Nat, NEW p, StandsAt(item, fmt, p)
  PROVE  ConversionAt(fmt, p) = p + Len(Spelled(item)) - 1
<1> DEFINE text == Spelled(item)
           n == Len(text)
           q == p + n - 1
<1>1. /\ n \in Nat /\ n >= 2 /\ p \in Nat \ {0} /\ q \in Nat
      /\ q <= Len(fmt) /\ \A k \in 1 .. n : fmt[p + k - 1] = text[k]
  <2>1. n \in Nat /\ n >= 2
    BY SpelledConversion
  <2>2. /\ p \in Nat \ {0} /\ q <= Len(fmt)
        /\ \A k \in 1 .. n : fmt[p + k - 1] = text[k]
    BY DEF StandsAt
  <2> HIDE DEF n, text
  <2> QED
    BY <2>1, <2>2
<1>2. /\ text[n] = item.conversion
      /\ item.flags = <<>> => \A k \in 2 .. n - 1 : text[k] = "l"
      /\ item.longs = 0 => \A k \in 2 .. n - 1 : text[k] \in SkippedFlags
      /\ \A k \in 2 .. n - 1 : text[k] \in SkippedFlags \union {"l"}
  BY SpelledConversion
<1>3. /\ item.flags = <<>> \/ item.longs = 0
      /\ item.conversion \in TakesArgument \union {"%"}
      /\ item.flags = <<>> \/ item.longs = 0
  BY DEF Proper
<1>4. /\ item.conversion \notin SkippedFlags /\ item.conversion \notin {"l"}
      /\ "l" \notin SkippedFlags
  BY <1>3 DEF SkippedFlags, TakesArgument
<1> HIDE DEF text, n
<1>5. \A j \in p + 1 .. q - 1 : j - p + 1 \in 2 .. n - 1 /\ fmt[j] = text[j - p + 1]
  <2> TAKE j \in p + 1 .. q - 1
  <2>1. j - p + 1 \in 2 .. n - 1 /\ j - p + 1 \in 1 .. n /\ p + (j - p + 1) - 1 = j
    BY <1>1
  <2> QED
    BY <1>1, <2>1
<1>6. fmt[q] = item.conversion
  BY <1>1, <1>2
<1>7. p + 1 \in Nat \ {0} /\ q \in p + 1 .. Len(fmt) /\ q \in q .. Len(fmt) /\ q \in Nat \ {0}
  BY <1>1
<1> HIDE DEF q
<1>8. CASE item.flags = <<>>
  <2>1. \A j \in p + 1 .. q - 1 : fmt[j] \in {"l"}
    BY <1>2, <1>5, <1>8
  <2>2. SkipOver(fmt, p + 1, {"l"}) = q
    BY <1>4, <1>6, <1>7, <2>1, SkipsTo
  <2>3. SkipOver(fmt, q, SkippedFlags) = q
    <3>1. \A j \in q .. q - 1 : fmt[j] \in SkippedFlags
      BY <1>7
    <3> QED
      BY <1>4, <1>6, <1>7, <3>1, SkipsTo
  <2> QED
    BY <2>2, <2>3 DEF ConversionAt, q, n, text
<1>9. CASE item.longs = 0
  <2>1. \A j \in p + 1 .. q - 1 : fmt[j] \in SkippedFlags
    BY <1>2, <1>5, <1>9
  <2> DEFINE b == p + 1
  <2>2. b \in Nat \ {0} /\ q \in b .. Len(fmt) /\ b \in b .. Len(fmt)
    BY <1>7
  <2>3. fmt[b] \notin {"l"}
    <3>1. b = q \/ b \in p + 1 .. q - 1
      BY <1>1, <1>7
    <3> QED
      BY <1>4, <1>6, <2>1, <3>1
  <2>a. \A j \in b .. b - 1 : fmt[j] \in {"l"}
    BY <2>2
  <2>b. \A j \in b .. q - 1 : fmt[j] \in SkippedFlags
    BY <2>1
  <2>5. ConversionAt(fmt, p) = SkipOver(fmt, SkipOver(fmt, b, {"l"}), SkippedFlags)
    BY DEF ConversionAt
  <2> HIDE DEF b
  <2>4. SkipOver(fmt, b, {"l"}) = b
    BY <2>2, <2>3, <2>a, SkipsTo
  <2>6. SkipOver(fmt, b, SkippedFlags) = q
    BY <1>4, <1>6, <2>2, <2>b, SkipsTo
  <2> QED
    BY <2>4, <2>5, <2>6 DEF q, n, text
<1> QED
  BY <1>3, <1>8, <1>9

----------------------------------------------------------------------------
(* A format is passed a directive at a turn. *)

LEMMA FlattenStep ==
  ASSUME NEW S, NEW ss \in Seq(Seq(S))
  PROVE  /\ FlattenSeq(SubSeq(ss, 1, 0)) = <<>>
         /\ FlattenSeq(SubSeq(ss, 1, Len(ss))) = FlattenSeq(ss)
         /\ \A i \in 0 .. Len(ss) : FlattenSeq(SubSeq(ss, 1, i)) \in Seq(S)
         /\ \A i \in 1 .. Len(ss) :
              FlattenSeq(SubSeq(ss, 1, i)) = FlattenSeq(SubSeq(ss, 1, i - 1)) \o ss[i]
<1>1. PICK runs : Runs(ss, runs, Len(ss), S) /\ FlattenSeq(ss) = runs[Len(ss)]
  BY FlattenRuns
<1>2. \A i \in 0 .. Len(ss) : FlattenSeq(SubSeq(ss, 1, i)) = runs[i]
  BY <1>1, FlattenPrefix
<1>3. Len(ss) \in Nat /\ 0 \in 0 .. Len(ss) /\ Len(ss) \in 0 .. Len(ss)
      /\ \A i \in 1 .. Len(ss) : i \in 0 .. Len(ss) /\ i - 1 \in 0 .. Len(ss)
  OBVIOUS
<1>4. /\ runs[0] = <<>>
      /\ \A i \in 0 .. Len(ss) : runs[i] \in Seq(S)
      /\ \A i \in 1 .. Len(ss) : runs[i] = runs[i - 1] \o ss[i]
  BY <1>1 DEF Runs
<1> QED
  BY ONLY <1>1, <1>2, <1>3, <1>4

(* How many arguments the first i directives take, of a word each. *)
Nth(items, i) == Cardinality({j \in 1 .. i : Consumes(items[j])})

LEMMA ArgumentIsNth ==
  ASSUME NEW items, NEW n \in Nat, \A i \in 1 .. n : ~ LongLong(items[i])
  PROVE  \A i \in 1 .. n : ArgumentOf(items, i) = Nth(items, i)
<1> TAKE i \in 1 .. n
<1>1. {j \in 1 .. i - 1 : LongLong(items[j])} = {}
  OBVIOUS
<1>2. Cardinality({j \in 1 .. i - 1 : LongLong(items[j])}) = 0
  BY ONLY <1>1, FS_EmptySet
<1>3. Nth(items, i) \in Nat
  <2> DEFINE T == {j \in 1 .. i : Consumes(items[j])}
  <2>1. IsFiniteSet(1 .. i)
    BY FS_Interval
  <2>2. T \in SUBSET (1 .. i)
    OBVIOUS
  <2> HIDE DEF T
  <2>3. Cardinality(T) \in Nat
    BY <2>1, <2>2, FS_Subset, FS_CardinalityType
  <2> QED
    BY <2>3 DEF Nth, T
<1>4. ArgumentOf(items, i) = Nth(items, i) + Cardinality({j \in 1 .. i - 1 : LongLong(items[j])})
  BY DEF ArgumentOf, Nth
<1> QED
  BY ONLY <1>2, <1>3, <1>4

LEMMA ArgumentStep ==
  ASSUME NEW items
  PROVE  /\ Nth(items, 0) = 0
         /\ \A i \in Nat : Nth(items, i) \in Nat
         /\ \A i \in Nat \ {0} :
              Nth(items, i) =
                Nth(items, i - 1) + IF Consumes(items[i]) THEN 1 ELSE 0
<1> DEFINE T(i) == {j \in 1 .. i : Consumes(items[j])}
<1>1. \A i \in Nat : IsFiniteSet(T(i)) /\ Cardinality(T(i)) \in Nat
  <2> TAKE i \in Nat
  <2>1. IsFiniteSet(1 .. i)
    BY FS_Interval
  <2>2. T(i) \in SUBSET (1 .. i)
    OBVIOUS
  <2> HIDE DEF T
  <2>3. IsFiniteSet(T(i))
    BY <2>1, <2>2, FS_Subset
  <2> QED
    BY <2>3, FS_CardinalityType
<1>2. T(0) = {}
  OBVIOUS
<1>3. \A i \in Nat \ {0} :
        T(i) = (IF Consumes(items[i]) THEN T(i - 1) \union {i} ELSE T(i - 1))
        /\ i \notin T(i - 1) /\ i - 1 \in Nat
  OBVIOUS
<1>4. \A i : Nth(items, i) = Cardinality(T(i))
  BY DEF Nth
<1> HIDE DEF T
<1>5. Nth(items, 0) = 0
  BY <1>2, <1>4, FS_EmptySet
<1>6. ASSUME NEW i \in Nat \ {0}
      PROVE  Nth(items, i) =
               Nth(items, i - 1) + IF Consumes(items[i]) THEN 1 ELSE 0
  <2>1. IsFiniteSet(T(i - 1)) /\ Cardinality(T(i - 1)) \in Nat
    BY <1>1, <1>3
  <2>2. Cardinality(T(i - 1) \union {i}) = Cardinality(T(i - 1)) + 1
    BY <1>3, <2>1, FS_AddElement
  <2>3. CASE Consumes(items[i])
    <3>1. T(i) = T(i - 1) \union {i}
      BY <1>3, <2>3
    <3>2. Cardinality(T(i)) = Cardinality(T(i - 1)) + 1
      BY ONLY <2>2, <3>1
    <3> QED
      BY ONLY <1>4, <2>3, <3>2
  <2>4. CASE ~ Consumes(items[i])
    <3>1. T(i) = T(i - 1)
      BY <1>3, <2>4
    <3>2. Cardinality(T(i)) = Cardinality(T(i - 1)) + 0
      BY ONLY <2>1, <3>1
    <3> QED
      BY ONLY <1>4, <2>4, <3>2
  <2> QED
    BY <2>3, <2>4
<1> QED
  BY <1>1, <1>4, <1>5, <1>6

Read(item, arg) ==
  IF IsPlain(item)
    THEN <<item.plain>>
    ELSE Shown(item.conversion, IF Consumes(item) THEN arg ELSE 0, WORD)

LEMMA ReadTyped ==
  ASSUME NEW C, Alphabet \subseteq C, NEW item, Proper(item, C), NEW arg,
         Consumes(item) => ArgumentFits(item.conversion, arg, C)
  PROVE  Read(item, arg) \in Seq(C)
<1>1. CASE IsPlain(item)
  BY <1>1 DEF Read, Proper
<1>2. CASE ~ IsPlain(item) /\ item.conversion \in TakesArgument
  BY <1>2, ConvertedIsShown DEF Read, Consumes
<1>3. CASE ~ IsPlain(item) /\ item.conversion \notin TakesArgument
  <2>1. item.conversion = "%" /\ "%" \in C
    BY <1>3 DEF Proper, Alphabet
  <2>2. Read(item, arg) = <<"%">>
    BY <1>3, <2>1 DEF Read, Consumes, Shown
  <2> QED
    BY <2>1, <2>2
<1> QED
  BY <1>1, <1>2, <1>3

(* The directive comes next, and so does its argument. *)
Comes(item, fmt, p, args, taken, C) ==
  /\ Proper(item, C)
  /\ Len(fmt) \in Nat /\ StandsAt(item, fmt, p)
  /\ Consumes(item) => ArgumentFits(item.conversion, args[taken + 1], C)

Stage(p, taken, out) == [at |-> p, taken |-> taken, out |-> out]
Passed(item, p, args, taken, out) ==
  Stage(p + Len(Spelled(item)),
        IF Consumes(item) THEN taken + 1 ELSE taken,
        out \o Read(item, args[taken + 1]))

LEMMA TurnTakes ==
  ASSUME NEW C, Alphabet \subseteq C, NEW item, NEW fmt, NEW p, NEW args, NEW taken,
         NEW out, Comes(item, fmt, p, args, taken, C)
  PROVE  Turn(fmt, args, Stage(p, taken, out)) = Passed(item, p, args, taken, out)
<1> DEFINE s == [at |-> p, taken |-> taken, out |-> out]
           q == ConversionAt(fmt, p)
           n == Len(Spelled(item))
           arg == args[taken + 1]
           Goes(next, took, text) == [at |-> next, taken |-> took, out |-> s.out \o text]
<1>a. /\ Proper(item, C) /\ Len(fmt) \in Nat /\ StandsAt(item, fmt, p)
      /\ Consumes(item) => ArgumentFits(item.conversion, arg, C)
  BY DEF Comes
<1>0. /\ Turn(fmt, args, s) =
           CASE p > Len(fmt) -> s
             [] p <= Len(fmt) /\ fmt[p] # "%" -> Goes(p + 1, taken, <<fmt[p]>>)
             [] p <= Len(fmt) /\ fmt[p] = "%" ->
                  CASE q > Len(fmt) -> Goes(q, taken, <<>>)
                    [] q <= Len(fmt) /\ fmt[q] \in TakesArgument ->
                         Goes(q + 1, taken + 1, Converted(fmt[q], arg))
                    [] q <= Len(fmt) /\ fmt[q] \notin TakesArgument ->
                         Goes(q + 1, taken, IF fmt[q] = "%" THEN <<"%">> ELSE <<"%", fmt[q]>>)
      /\ \A next, took, text :
           Goes(next, took, text) = [at |-> next, taken |-> took, out |-> out \o text]
  BY DEF Turn
<1> DEFINE Right ==
             Turn(fmt, args, s) =
               [at    |-> p + n,
                taken |-> IF Consumes(item) THEN taken + 1 ELSE taken,
                out   |-> out \o Read(item, arg)]
<1>1. ASSUME IsPlain(item) PROVE Right
  <2>1. /\ item.plain # "%" /\ Spelled(item) = <<item.plain>> /\ n = 1 /\ 1 \in 1 .. n
        /\ Spelled(item)[1] = item.plain /\ ~ Consumes(item)
        /\ Read(item, arg) = <<item.plain>>
    BY <1>1, <1>a DEF Proper, Spelled, Read, Consumes
  <2>2. p \in Nat \ {0} /\ p <= Len(fmt) /\ fmt[p] = item.plain
    BY <1>a, <2>1 DEF StandsAt
  <2> HIDE DEF Goes, n, s, arg, q
  <2>3. Turn(fmt, args, s) = Goes(p + 1, taken, <<fmt[p]>>)
    BY <1>0, <2>1, <2>2
  <2> QED
    BY <1>0, <2>1, <2>2, <2>3 DEF n, s, arg
<1>2. ASSUME ~ IsPlain(item) PROVE Right
  <2>1. /\ n \in Nat /\ n >= 2 /\ Spelled(item)[1] = "%" /\ Spelled(item)[n] = item.conversion
    BY <1>2, <1>a, SpelledConversion
  <2>2. /\ p \in Nat \ {0} /\ p + n - 1 <= Len(fmt)
        /\ \A k \in 1 .. n : fmt[p + k - 1] = Spelled(item)[k]
    BY <1>a DEF StandsAt
  <2>3. q = p + n - 1
    BY <1>2, <1>a, ConversionFound
  <2> HIDE DEF Goes, n, s, arg, q
  <2>4. /\ p <= Len(fmt) /\ fmt[p] = "%" /\ ~ (p > Len(fmt))
        /\ q <= Len(fmt) /\ fmt[q] = item.conversion /\ ~ (q > Len(fmt)) /\ q + 1 = p + n
    <3>1. 1 \in 1 .. n /\ n \in 1 .. n /\ p + 1 - 1 = p
      BY <2>1, <2>2
    <3> QED
      BY <2>1, <2>2, <2>3, <3>1
  <2>5. CASE item.conversion \in TakesArgument
    <3>1. Turn(fmt, args, s) = Goes(q + 1, taken + 1, Converted(item.conversion, arg))
      BY <1>0, <2>4, <2>5
    <3>2. Consumes(item) /\ Read(item, arg) = Shown(item.conversion, arg, WORD)
      BY <1>2, <2>5 DEF Consumes, Read
    <3>3. Converted(item.conversion, arg) = Shown(item.conversion, arg, WORD)
      BY <1>a, <2>5, <3>2, ConvertedIsShown DEF arg
    <3> QED
      BY <1>0, <2>4, <3>1, <3>2, <3>3 DEF n, s, arg
  <2>6. CASE item.conversion \notin TakesArgument
    <3>1. item.conversion = "%"
      BY <1>2, <1>a, <2>6 DEF Proper
    <3>2. Turn(fmt, args, s) = Goes(q + 1, taken, <<"%">>)
      BY <1>0, <2>4, <2>6, <3>1
    <3>3. ~ Consumes(item) /\ Read(item, arg) = <<"%">>
      BY <1>2, <2>6, <3>1 DEF Consumes, Read, Shown
    <3> QED
      BY <1>0, <2>4, <3>2, <3>3 DEF n, s, arg
  <2> QED
    BY <2>5, <2>6
<1>3. Turn(fmt, args, s) =
        [at    |-> p + n,
         taken |-> IF Consumes(item) THEN taken + 1 ELSE taken,
         out   |-> out \o Read(item, arg)]
  BY <1>1, <1>2
<1> QED
  BY <1>3 DEF Stage, Passed

TextsOf(items) == [i \in DOMAIN items |-> Spelled(items[i])]
Parts(items, args) == [i \in DOMAIN items |-> Reads(items, args, i)]

(* Where the loop is after i directives. *)
After(items, args, i) ==
  [at    |-> LengthTo(TextsOf(items), i) + 1,
   taken |-> Nth(items, i),
   out   |-> FlattenSeq(SubSeq(Parts(items, args), 1, i))]

(* A well-written format takes a word at a time. *)
LEMMA WordAtATime ==
  ASSUME NEW C, NEW items, NEW args, WellWritten(items, args, C)
  PROVE  \A i \in 1 .. Len(items) :
           /\ ArgumentOf(items, i) = Nth(items, i)
           /\ Reads(items, args, i) = Read(items[i], args[Nth(items, i)])
<1> DEFINE n == Len(items)
<1>1. n \in Nat /\ DOMAIN items = 1 .. n
  BY DEF WellWritten
<1>2. \A i \in 1 .. n : ~ LongLong(items[i])
  BY <1>1 DEF WellWritten, Proper, LongLong
<1>3. \A i \in 1 .. n : ArgumentOf(items, i) = Nth(items, i)
  BY <1>1, <1>2, ArgumentIsNth
<1> QED
  BY <1>2, <1>3 DEF Reads, Read, Argument, Values

LEMMA WrittenFacts ==
  ASSUME NEW C, Alphabet \subseteq C, NEW items, NEW args, WellWritten(items, args, C)
  PROVE  /\ Len(items) \in Nat /\ DOMAIN items = 1 .. Len(items)
         /\ \A i \in 1 .. Len(items) :
              /\ Proper(items[i], C)
              /\ Consumes(items[i]) =>
                   ArgumentFits(items[i].conversion, args[Nth(items, i)], C)
         /\ TextsOf(items) \in Seq(Seq(C)) /\ Len(TextsOf(items)) = Len(items)
         /\ \A i \in 1 .. Len(items) :
              /\ TextsOf(items)[i] = Spelled(items[i])
              /\ Len(Spelled(items[i])) \in Nat /\ Len(Spelled(items[i])) >= 1
         /\ Parts(items, args) \in Seq(Seq(C)) /\ Len(Parts(items, args)) = Len(items)
         /\ \A i \in 1 .. Len(items) : Parts(items, args)[i] = Reads(items, args, i)
<1> DEFINE n == Len(items)
<1>1. n \in Nat /\ DOMAIN items = 1 .. n
  BY DEF WellWritten
<1>2. \A i \in 1 .. n :
        /\ Proper(items[i], C)
        /\ Consumes(items[i]) =>
             ArgumentFits(items[i].conversion, args[ArgumentOf(items, i)], C)
  BY <1>1 DEF WellWritten
<1>4. \A i \in 1 .. n :
        /\ ArgumentOf(items, i) = Nth(items, i)
        /\ Reads(items, args, i) = Read(items[i], args[Nth(items, i)])
  BY WordAtATime
<1> HIDE DEF n
<1>3. \A i \in 1 .. n :
        /\ Spelled(items[i]) \in Seq(C)
        /\ Len(Spelled(items[i])) \in Nat /\ Len(Spelled(items[i])) >= 1
  <2> TAKE i \in 1 .. n
  <2>1. CASE IsPlain(items[i])
    <3>1. Spelled(items[i]) = <<items[i].plain>> /\ items[i].plain \in C
      BY <1>2, <2>1 DEF Spelled, Proper
    <3> QED
      BY <3>1
  <2>2. CASE ~ IsPlain(items[i])
    <3> DEFINE text == Spelled(items[i])
    <3>1. text \in Seq(C) /\ Len(text) \in Nat /\ Len(text) >= 2
      BY <1>2, <2>2, SpelledConversion
    <3> HIDE DEF text
    <3>2. Len(text) >= 1
      BY <3>1
    <3> QED
      BY <3>1, <3>2 DEF text
  <2> QED
    BY <2>1, <2>2
<1>5. \A i \in 1 .. n : Reads(items, args, i) \in Seq(C)
  BY <1>2, <1>4, ReadTyped
<1>6. /\ TextsOf(items) = [i \in 1 .. n |-> Spelled(items[i])]
      /\ Parts(items, args) = [i \in 1 .. n |-> Reads(items, args, i)]
  BY <1>1 DEF TextsOf, Parts
<1>7. TextsOf(items) \in Seq(Seq(C)) /\ Len(TextsOf(items)) = n
  <2> DEFINE p == TextsOf(items)
  <2>1. (\A i \in 1 .. n : p[i] \in Seq(C)) /\ p = [i \in 1 .. n |-> p[i]]
    BY <1>3, <1>6
  <2> HIDE DEF p
  <2>2. p \in Seq(Seq(C)) /\ Len(p) = n
    BY ONLY <1>1, <2>1, ListTyped
  <2> QED
    BY <2>2 DEF p
<1>8. Parts(items, args) \in Seq(Seq(C)) /\ Len(Parts(items, args)) = n
  <2> DEFINE p == Parts(items, args)
  <2>1. (\A i \in 1 .. n : p[i] \in Seq(C)) /\ p = [i \in 1 .. n |-> p[i]]
    BY <1>5, <1>6
  <2> HIDE DEF p
  <2>2. p \in Seq(Seq(C)) /\ Len(p) = n
    BY ONLY <1>1, <2>1, ListTyped
  <2> QED
    BY <2>2 DEF p
<1> QED
  BY <1>1, <1>2, <1>3, <1>4, <1>6, <1>7, <1>8 DEF n

LEMMA TurnAfter ==
  ASSUME NEW C, Alphabet \subseteq C, NEW items, NEW args, WellWritten(items, args, C),
         NEW i \in 1 .. Len(items)
  PROVE  Turn(Written(items), args, After(items, args, i - 1)) = After(items, args, i)
<1> DEFINE ss == TextsOf(items)
           parts == Parts(items, args)
           fmt == Written(items)
           item == items[i]
           p == LengthTo(ss, i - 1) + 1
           taken == Nth(items, i - 1)
           out == FlattenSeq(SubSeq(parts, 1, i - 1))
<1>1. /\ Len(items) \in Nat /\ Proper(item, C)
      /\ Consumes(item) => ArgumentFits(item.conversion, args[Nth(items, i)], C)
      /\ ss \in Seq(Seq(C)) /\ Len(ss) = Len(items) /\ ss[i] = Spelled(item)
      /\ parts \in Seq(Seq(C)) /\ Len(parts) = Len(items)
      /\ parts[i] = Reads(items, args, i)
  BY WrittenFacts
<1>2. fmt = FlattenSeq(ss)
  BY DEF Written, TextsOf
<1>3. i \in Nat \ {0} /\ i - 1 \in 0 .. Len(items) /\ i \in 1 .. Len(items)
  BY <1>1
<1>4. /\ taken \in Nat
      /\ Nth(items, i) = taken + IF Consumes(item) THEN 1 ELSE 0
  <2>1. i - 1 \in Nat
    BY <1>3
  <2> QED
    BY <1>3, <2>1, ArgumentStep
<1>5. Consumes(item) => ArgumentFits(item.conversion, args[taken + 1], C)
  BY <1>1, <1>4
<1>6. Reads(items, args, i) = Read(item, args[taken + 1])
  <2>1. ~ Consumes(item) => \A x : Read(item, x) = Read(item, args[taken + 1])
    BY DEF Read, Consumes
  <2>2. Reads(items, args, i) = Read(item, args[Nth(items, i)])
    BY WordAtATime
  <2> QED
    BY <1>4, <2>1, <2>2
<1>7. /\ LengthTo(ss, i - 1) \in Nat
      /\ LengthTo(ss, i) = LengthTo(ss, i - 1) + Len(Spelled(item))
      /\ Len(Spelled(item)) \in Nat
  <2> HIDE DEF ss, item
  <2>1. /\ \A j \in 0 .. Len(ss) : LengthTo(ss, j) \in Nat
        /\ \A j \in 1 .. Len(ss) : LengthTo(ss, j) = LengthTo(ss, j - 1) + Len(ss[j])
    BY <1>1, LengthsTo
  <2>2. Len(ss[i]) \in Nat
    BY <1>1, <1>3
  <2> QED
    BY <1>1, <1>3, <2>1, <2>2
<1>8. Len(fmt) \in Nat /\ StandsAt(item, fmt, p)
  <2> HIDE DEF ss, item, fmt
  <2>1. FlattenSeq(ss) \in Seq(C)
    BY <1>1, FlattenTyped
  <2>2. Len(fmt) \in Nat
    BY <1>2, <2>1
  <2>3. /\ LengthTo(ss, i - 1) + Len(ss[i]) <= Len(FlattenSeq(ss))
        /\ \A k \in 1 .. Len(ss[i]) : FlattenSeq(ss)[LengthTo(ss, i - 1) + k] = ss[i][k]
    BY <1>1, <1>3, StringPlaced
  <2>4. \A k \in 1 .. Len(Spelled(item)) : p + k - 1 = LengthTo(ss, i - 1) + k
    BY <1>7
  <2>5. \A k \in 1 .. Len(Spelled(item)) : fmt[p + k - 1] = Spelled(item)[k]
    BY ONLY <1>1, <1>2, <2>3, <2>4
  <2>6. p \in Nat \ {0} /\ p + Len(Spelled(item)) - 1 <= Len(fmt)
    BY <1>1, <1>2, <1>7, <2>3, SMTT(30)
  <2> QED
    BY <2>2, <2>5, <2>6 DEF StandsAt
<1>9. FlattenSeq(SubSeq(parts, 1, i)) = out \o parts[i]
  <2> HIDE DEF parts
  <2> QED
    BY <1>1, <1>3, FlattenStep
<1>10. Turn(fmt, args, Stage(p, taken, out)) = Passed(item, p, args, taken, out)
  <2> HIDE DEF ss, parts, fmt, item, p, taken, out
  <2>1. Comes(item, fmt, p, args, taken, C)
    BY <1>1, <1>5, <1>8 DEF Comes
  <2> QED
    BY <2>1, TurnTakes
<1>11. p + Len(Spelled(item)) = LengthTo(ss, i) + 1
  BY <1>7
<1>12. (IF Consumes(item) THEN taken + 1 ELSE taken) = Nth(items, i)
  BY <1>4
<1>13. out \o Read(item, args[taken + 1]) = FlattenSeq(SubSeq(parts, 1, i))
  BY <1>1, <1>6, <1>9
<1>14. /\ After(items, args, i - 1) = Stage(p, taken, out)
       /\ After(items, args, i) =
            Stage(LengthTo(ss, i) + 1, Nth(items, i), FlattenSeq(SubSeq(parts, 1, i)))
  BY DEF After, Stage
<1> HIDE DEF ss, parts, fmt, item, p, taken, out
<1> QED
  BY ONLY <1>10, <1>11, <1>12, <1>13, <1>14 DEF Passed, fmt

(* The loop ends with all that the directives mean. *)
LEMMA ProducesMeaning ==
  ASSUME NEW C, Alphabet \subseteq C, NEW items, NEW args, WellWritten(items, args, C)
  PROVE  /\ Produced(Written(items), args) = Meaning(items, args)
         /\ Meaning(items, args) \in Seq(C)
<1> DEFINE ss == TextsOf(items)
           parts == Parts(items, args)
           fmt == Written(items)
           m == Len(items)
           L == Len(fmt)
           start == [at |-> 1, taken |-> 0, out |-> <<>>]
           State(i) == After(items, args, i)
           Taken(s) == Turn(fmt, args, s)
           g == [n \in 0 .. L |-> State(Least(n, m))]
           Eqn(f) == f = [n \in 0 .. L |-> IF n = 0 THEN start ELSE Taken(f[n - 1])]
           scan == CHOOSE f : Eqn(f)
<1>1. /\ m \in Nat
      /\ ss \in Seq(Seq(C)) /\ Len(ss) = m
      /\ parts \in Seq(Seq(C)) /\ Len(parts) = m
      /\ \A i \in 1 .. m : Len(ss[i]) \in Nat /\ Len(ss[i]) >= 1
  BY WrittenFacts
<1>2. /\ fmt = FlattenSeq(ss)
      /\ Meaning(items, args) = FlattenSeq(parts)
  BY DEF Written, TextsOf, Meaning, Parts
<1>3. /\ LengthTo(ss, 0) = 0 /\ LengthTo(ss, m) = L
      /\ \A i \in 0 .. m : LengthTo(ss, i) \in Nat
      /\ \A i \in 1 .. m : LengthTo(ss, i) = LengthTo(ss, i - 1) + Len(ss[i])
  <2> HIDE DEF ss, fmt
  <2> QED
    BY <1>1, <1>2, LengthsTo
<1>4. L \in Nat
  <2>1. m \in 0 .. m
    BY <1>1
  <2> QED
    BY <1>3, <2>1
<1>5. State(0) = start
  <2> HIDE DEF parts
  <2>1. FlattenSeq(SubSeq(parts, 1, 0)) = <<>>
    BY <1>1, FlattenStep
  <2> QED
    BY <1>3, <2>1, ArgumentStep DEF After, parts
<1>6. State(m).at = L + 1 /\ State(m).out = Meaning(items, args)
  <2> HIDE DEF parts
  <2>1. FlattenSeq(SubSeq(parts, 1, m)) = FlattenSeq(parts)
    BY <1>1, FlattenStep
  <2> QED
    BY <1>2, <1>3, <2>1 DEF After, parts
<1>7. \A i \in 1 .. m : Taken(State(i - 1)) = State(i)
  BY TurnAfter
<1>8. Taken(State(m)) = State(m)
  <2> DEFINE s == State(m)
  <2>1. s.at = L + 1
    BY <1>6
  <2> HIDE DEF s, L
  <2>2. s.at > L
    BY <1>4, <2>1
  <2>3. ~ (s.at <= L)
    BY <1>4, <2>1
  <2> QED
    BY <2>2, <2>3 DEF Turn, s, L
<1>9. m <= L
  <2> DEFINE T == {i \in 0 .. m : i <= LengthTo(ss, i)}
  <2>1. 0 \in T
    BY <1>1, <1>3
  <2>2. \A i \in 1 .. m : i - 1 \in T => i \in T
    <3> TAKE i \in 1 .. m
    <3> DEFINE a == LengthTo(ss, i - 1)
               b == LengthTo(ss, i)
    <3>1. i \in 0 .. m /\ i - 1 \in 0 .. m /\ i \in Int
      BY <1>1
    <3> HIDE DEF ss
    <3>2. a \in Nat /\ b \in Nat /\ b = a + Len(ss[i]) /\ Len(ss[i]) \in Nat /\ Len(ss[i]) >= 1
      BY <1>1, <1>3, <3>1
    <3>3. i - 1 <= a => i <= b
      <4> HIDE DEF a, b
      <4> QED
        BY <3>1, <3>2
    <3> QED
      BY <3>1, <3>3 DEF ss
  <2> HIDE DEF T
  <2>3. \A i \in 0 .. m : i \in T
    BY <1>1, <2>1, <2>2, Climbs
  <2>4. m \in 0 .. m
    BY <1>1
  <2> QED
    BY <1>3, <2>3, <2>4 DEF T
<1> HIDE DEF fmt, m, L, start, State, Taken
<1>10. \A n \in 0 .. L : g[n] = IF n = 0 THEN start ELSE Taken(g[n - 1])
  <2> TAKE n \in 0 .. L
  <2>1. CASE n = 0
    <3>1. Least(n, m) = 0
      BY <1>1, <2>1 DEF Least
    <3> QED
      BY <1>5, <2>1, <3>1
  <2>2. CASE n # 0 /\ n <= m
    <3>1. /\ n - 1 \in 0 .. L /\ n \in 1 .. m
          /\ Least(n, m) = n /\ Least(n - 1, m) = n - 1
      BY <1>1, <1>4, <2>2 DEF Least
    <3> QED
      BY <1>7, <2>2, <3>1
  <2>3. CASE n # 0 /\ n > m
    <3>1. n - 1 \in 0 .. L /\ Least(n, m) = m /\ Least(n - 1, m) = m
      BY <1>1, <1>4, <2>3 DEF Least
    <3> QED
      BY <1>8, <2>3, <3>1
  <2> QED
    BY <1>1, <1>4, <2>1, <2>2, <2>3
<1>11. Eqn(g)
  BY ONLY <1>10
<1>12. Eqn(scan)
  <2> HIDE DEF Eqn, g
  <2> QED
    BY <1>11
<1>13. scan = g
  <2> DEFINE T == {n \in 0 .. L : scan[n] = g[n]}
  <2> HIDE DEF scan, g
  <2>1. \A n \in 0 .. L : scan[n] = IF n = 0 THEN start ELSE Taken(scan[n - 1])
    BY ONLY <1>12
  <2>2. 0 \in T
    BY <1>4, <1>10, <2>1
  <2>3. \A n \in 1 .. L : n - 1 \in T => n \in T
    <3> TAKE n \in 1 .. L
    <3>1. n \in 0 .. L /\ n - 1 \in 0 .. L /\ n # 0
      BY <1>4
    <3> QED
      BY <1>10, <2>1, <3>1
  <2> HIDE DEF T
  <2>4. \A n \in 0 .. L : n \in T
    BY <1>4, <2>2, <2>3, Climbs
  <2>5. \A n \in 0 .. L : scan[n] = g[n]
    BY <2>4 DEF T
  <2>6. /\ scan = [n \in 0 .. L |-> IF n = 0 THEN start ELSE Taken(scan[n - 1])]
        /\ g = [n \in 0 .. L |-> IF n = 0 THEN start ELSE Taken(g[n - 1])]
    BY ONLY <1>11, <1>12
  <2> QED
    BY ONLY <2>5, <2>6
<1>14. Produced(Written(items), args) = scan[L].out
  BY DEF Produced, scan, L, Taken, start, fmt
<1>15. scan[L] = State(m)
  <2>1. L \in 0 .. L /\ Least(L, m) = m
    BY <1>1, <1>4, <1>9 DEF Least
  <2> HIDE DEF scan
  <2> QED
    BY <1>13, <2>1
<1>16. Meaning(items, args) \in Seq(C)
  <2> HIDE DEF parts
  <2> QED
    BY <1>1, <1>2, FlattenTyped
<1> HIDE DEF scan
<1> QED
  BY <1>6, <1>14, <1>15, <1>16 DEF State

(* What is printed is the meaning, as far as the buffer has room for it. *)
LEMMA PrintedIsMeaning ==
  ASSUME NEW C, Alphabet \subseteq C, NEW items, NEW args, WellWritten(items, args, C)
  PROVE  LET all == Meaning(items, args)
         IN Printed(Written(items), args) = SubSeq(all, 1, Least(Len(all), BUFCAP - 1))
<1> DEFINE all == Meaning(items, args)
           fmt == Written(items)
           buf == Buffer(fmt, args)
           end == Least(Len(all), BUFCAP - 1)
<1>1. Produced(fmt, args) = all /\ all \in Seq(C)
  BY ProducesMeaning
<1> HIDE DEF all, fmt
<1>2. end \in 0 .. Len(all) /\ end \in Nat /\ Len(all) \in Nat
  BY <1>1, WordFacts DEF Least
<1>a. Len(all) < WORD \div 2 /\ WORD \div 2 <= WORD
  BY WordFacts DEF WellWritten, all
<1>b. Len(all) % WORD = Len(all) /\ Returned(Len(all)) = Len(all)
  <2>1. Len(all) % WORD = Len(all)
    BY <1>2, <1>a, WordFacts, SmallMod
  <2> QED
    BY <1>2, <1>a, <2>1 DEF Returned, AsSigned
<1>3. /\ end \in DOMAIN buf
      /\ \A k \in 0 .. end - 1 : k \in DOMAIN buf /\ buf[k] = all[k + 1]
  <2> DEFINE slots == {end} \union {j \in 0 .. BUFCAP - 1 : j < Len(all)}
             last(k) == k + 1 + WORD * ((Len(all) - k - 1) \div WORD)
  <2>1. buf = [k \in slots |-> IF k = end THEN NUL ELSE all[last(k)]]
    BY <1>1, <1>b DEF Buffer
  <2>2. ASSUME NEW k \in 0 .. end - 1
        PROVE  k \in slots /\ k # end /\ last(k) = k + 1
    <3>1. k \in Nat /\ k < Len(all) /\ k \in 0 .. BUFCAP - 1 /\ k # end
      BY <1>2, WordFacts DEF Least
    <3> DEFINE d == Len(all) - k - 1
    <3>2. d \in Nat /\ d < WORD
      BY <1>2, <1>a, <3>1, WordFacts
    <3> HIDE DEF d
    <3>3. d \div WORD = 0
      BY <3>2, WordFacts, ZeroQuotient
    <3>4. WORD * 0 = 0
      BY WordFacts
    <3>5. last(k) = k + 1
      BY <3>1, <3>3, <3>4 DEF d
    <3> QED
      BY <3>1, <3>5
  <2> HIDE DEF last
  <2> QED
    BY <2>1, <2>2
<1>4. Clamped(Len(all)) = end
  BY <1>2, <1>b DEF Clamped
<1> HIDE DEF buf, end
<1>5. Printed(fmt, args) =
        [k \in 1 .. end |-> IF k - 1 \in DOMAIN buf THEN buf[k - 1] ELSE Unstored]
  BY <1>1, <1>4 DEF Printed, buf
<1>6. \A k \in 1 .. end :
        (IF k - 1 \in DOMAIN buf THEN buf[k - 1] ELSE Unstored) = all[k]
  <2> TAKE k \in 1 .. end
  <2>1. k - 1 \in 0 .. end - 1 /\ (k - 1) + 1 = k
    BY <1>2
  <2> QED
    BY <1>3, <2>1
<1>7. Printed(fmt, args) = [k \in 1 .. end |-> all[k]]
  BY <1>5, <1>6
<1>8. SubSeq(all, 1, end) = [k \in 1 .. end |-> all[k]]
  <2>1. /\ SubSeq(all, 1, end) \in Seq(C) /\ Len(SubSeq(all, 1, end)) = end
        /\ \A k \in 1 .. end : SubSeq(all, 1, end)[k] = all[k]
    BY <1>1, <1>2
  <2> DEFINE s == SubSeq(all, 1, end)
  <2>2. s = [k \in 1 .. end |-> s[k]]
    <3>1. s \in Seq(C) /\ Len(s) = end
      BY <2>1
    <3> HIDE DEF s
    <3> QED
      BY <3>1
  <2> QED
    BY <2>1, <2>2
<1> QED
  BY <1>7, <1>8 DEF all, fmt, end
=============================================================================

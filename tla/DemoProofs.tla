----------------------------- MODULE DemoProofs -----------------------------
(***************************************************************************)
(* The demo program of main.cpp: what as_string writes reads back, and the *)
(* balances that are printed tell what was moved.                          *)
(***************************************************************************)
EXTENDS Demo, PoolProofs

(***************************************************************************)
(* What as_string writes, a reader takes for the same amount: TextReads.   *)
(***************************************************************************)
(* Quotient and remainder are the only ones there are.                     *)
LEMMA QuotientIs ==
  ASSUME NEW d \in Nat \ {0}, NEW a \in Nat, NEW e \in Nat, e < d, NEW r, r = d * a + e
  PROVE  r \in Nat /\ r \div d = a
<1>1. d * a \in Nat /\ r \in Nat
  OBVIOUS
<1>2. PICK q, f : q = r \div d /\ f = r % d
  OBVIOUS
<1>3. r = d * q + f /\ q \in Nat /\ f \in Nat /\ f < d
  BY <1>1, <1>2
<1>4. \A x \in Nat : d * x \in Nat /\ d * (x + 1) = d * x + d
  OBVIOUS
<1>5. ~ (q + 1 <= a)
  <2>1. SUFFICES ASSUME q + 1 <= a PROVE FALSE
    OBVIOUS
  <2>2. d * (q + 1) <= d * a
    BY <1>3, <2>1, ProductGrows
  <2>3. d * q + d <= d * a /\ d * q \in Nat
    BY <1>3, <1>4, <2>2
  <2> QED BY <1>1, <1>3, <2>3
<1>6. ~ (a + 1 <= q)
  <2>1. SUFFICES ASSUME a + 1 <= q PROVE FALSE
    OBVIOUS
  <2>2. d * (a + 1) <= d * q
    BY <1>3, <2>1, ProductGrows
  <2>3. d * a + d <= d * q /\ d * q \in Nat
    BY <1>3, <1>4, <2>2
  <2> QED BY <1>1, <1>3, <2>3
<1>7. q = a
  BY <1>3, <1>5, <1>6
<1> QED BY <1>1, <1>2, <1>7

(* The last digit of a quotient, and the quotient by ten times as much.    *)
LEMMA DigitsJoin ==
  ASSUME NEW t \in Nat \ {0}, NEW r \in Nat
  PROVE  10 * (r \div (10 * t)) + ((r \div t) % 10) = r \div t
<1>1. PICK q, s : q = r \div t /\ s = r % t
  OBVIOUS
<1>2. r = t * q + s /\ q \in Nat /\ s \in Nat /\ s < t
  BY <1>1
<1>3. PICK a, b : a = q \div 10 /\ b = q % 10
  OBVIOUS
<1>4. a \in Nat /\ b \in 0 .. 9 /\ q = 10 * a + b
  BY <1>2, <1>3
<1>5. PICK e : e = t * b + s
  OBVIOUS
<1>6. e \in Nat /\ e < 10 * t
  <2>1. t * b \in Nat /\ t * b <= t * 9
    BY <1>4, ProductGrows
  <2> QED BY <1>2, <1>5, <2>1
<1>7. r = (10 * t) * a + e
  <2>1. t * (10 * a + b) = (10 * t) * a + t * b
    BY <1>4
  <2>2. (10 * t) * a \in Nat /\ t * b \in Nat
    BY <1>4
  <2> QED BY <1>2, <1>4, <1>5, <2>1, <2>2
<1>8. 10 * t \in Nat \ {0}
  OBVIOUS
<1>9. r \div (10 * t) = a
  BY <1>4, <1>6, <1>7, <1>8, QuotientIs
<1> QED BY <1>1, <1>3, <1>4, <1>9

LEMMA TensShape ==
  /\ Tens \in [0 .. SATOSHI_DIGITS -> Nat \ {0}]
  /\ Tens[0] = 1
  /\ \A n \in 1 .. SATOSHI_DIGITS : Tens[n] = 10 * Tens[n - 1]
<1> DEFINE N == SATOSHI_DIGITS
           A == Nat \ {0}
           step == [p \in (1 .. N) \X A |-> 10 * p[2]]
           Body(f) == [n \in 0 .. N |-> IF n = 0 THEN 1 ELSE 10 * f[n - 1]]
           tens == CHOOSE f : f = Body(f)
<1>1. N \in Nat /\ 1 \in A
  BY DigitsAssumption
<1>2. Tens = tens
  BY DEF Tens
<1> HIDE DEF N
<1>3. step \in Steps(N, A)
  BY DEF Steps
<1>4. PICK g \in [0 .. N -> A] :
        /\ g[0] = 1
        /\ \A k \in 1 .. N : g[k] = step[<< k, g[k - 1] >>]
  <2> HIDE DEF step, A
  <2>1. PICK g : IsRecursion(g, N, A, 1, step)
    BY <1>1, <1>3, RecursionExists
  <2> QED BY <2>1 DEF IsRecursion
<1>5. \A k \in 1 .. N : g[k] = 10 * g[k - 1]
  <2>1. TAKE k \in 1 .. N
  <2>2. g[k - 1] \in A
    BY <1>1
  <2>3. step[<< k, g[k - 1] >>] = 10 * g[k - 1]
    BY <2>2
  <2> QED BY <1>4, <2>3
<1>6. g = Body(g)
  <2>1. \A k \in 0 .. N : g[k] = Body(g)[k]
    BY <1>1, <1>4, <1>5
  <2>2. g = [k \in 0 .. N |-> g[k]] /\ Body(g) = [k \in 0 .. N |-> Body(g)[k]]
    OBVIOUS
  <2> HIDE DEF Body
  <2> QED BY <2>1, <2>2
<1>7. tens = Body(tens)
  <2> HIDE DEF Body
  <2> QED BY <1>6
<1> HIDE DEF tens, step
<1>8. tens = g
  <2> DEFINE T == { k \in 0 .. N : tens[k] = g[k] }
  <2>1. 0 \in T
    BY <1>1, <1>4, <1>7
  <2>2. ASSUME NEW k \in 1 .. N, k - 1 \in T PROVE k \in T
    BY <1>5, <1>7, <2>2
  <2>3. \A k \in 0 .. N : k \in T
    <3> HIDE DEF T
    <3> QED BY <1>1, <2>1, <2>2, UpTo
  <2>4. tens = [k \in 0 .. N |-> tens[k]]
    BY <1>7
  <2> QED BY <2>3, <2>4
<1> QED BY <1>2, <1>4, <1>5, <1>8 DEF N

(* The recursive function in ReadDigits, for digits.                       *)
LEMMA ReadUnfolds ==
  ASSUME NEW s, IsSeq(s), \A i \in 1 .. Len(s) : s[i] \in Nat
  PROVE  \E read \in [0 .. Len(s) -> Nat] :
           /\ ReadDigits(s) = read[Len(s)]
           /\ read[0] = 0
           /\ \A k \in 1 .. Len(s) : read[k] = 10 * read[k - 1] + s[k]
<1> DEFINE n == Len(s)
           Joined(k, m) == 10 * m + s[k]
           step == [p \in (1 .. n) \X Nat |-> Joined(p[1], p[2])]
           Body(f) == [k \in 0 .. n |-> IF k = 0 THEN 0 ELSE Joined(k, f[k - 1])]
           read == CHOOSE f : f = Body(f)
<1>1. n \in Nat
  BY SeqShape
<1>2. \A k \in 1 .. n : \A m \in Nat : Joined(k, m) \in Nat
  OBVIOUS
<1>3. ReadDigits(s) = read[n]
  BY DEF ReadDigits
<1>4. \A k, m : Joined(k, m) = 10 * m + s[k]
  OBVIOUS
<1> HIDE DEF n, Joined
<1>5. step \in Steps(n, Nat)
  BY <1>2 DEF Steps
<1>6. PICK g \in [0 .. n -> Nat] :
        /\ g[0] = 0
        /\ \A k \in 1 .. n : g[k] = step[<< k, g[k - 1] >>]
  <2> HIDE DEF step
  <2>1. PICK g : IsRecursion(g, n, Nat, 0, step)
    BY <1>1, <1>5, RecursionExists
  <2> QED BY <2>1 DEF IsRecursion
<1>7. \A k \in 1 .. n : g[k] = Joined(k, g[k - 1])
  <2>1. TAKE k \in 1 .. n
  <2>2. g[k - 1] \in Nat
    BY <1>1
  <2>3. step[<< k, g[k - 1] >>] = Joined(k, g[k - 1])
    BY <2>2
  <2> QED BY <1>6, <2>3
<1>8. g = Body(g)
  <2>1. \A k \in 0 .. n : g[k] = Body(g)[k]
    BY <1>1, <1>6, <1>7
  <2>2. g = [k \in 0 .. n |-> g[k]] /\ Body(g) = [k \in 0 .. n |-> Body(g)[k]]
    OBVIOUS
  <2> HIDE DEF Body
  <2> QED BY <2>1, <2>2
<1>9. read = Body(read)
  <2> HIDE DEF Body
  <2> QED BY <1>8
<1> HIDE DEF read, step
<1>10. read = g
  <2> DEFINE T == { k \in 0 .. n : read[k] = g[k] }
  <2>1. 0 \in T
    BY <1>1, <1>6, <1>9
  <2>2. ASSUME NEW k \in 1 .. n, k - 1 \in T PROVE k \in T
    BY <1>7, <1>9, <2>2
  <2>3. \A k \in 0 .. n : k \in T
    <3> HIDE DEF T
    <3> QED BY <1>1, <2>1, <2>2, UpTo
  <2>4. read = [k \in 0 .. n |-> read[k]]
    BY <1>9
  <2> QED BY <2>3, <2>4
<1> QED BY <1>3, <1>4, <1>6, <1>7, <1>10 DEF n

LEMMA TensGrow ==
  ASSUME NEW n \in 0 .. SATOSHI_DIGITS
  PROVE  \A m \in 0 .. n : Tens[m] <= Tens[n]
<1> DEFINE N == SATOSHI_DIGITS
           T == { k \in 0 .. N : \A m \in 0 .. k : Tens[m] <= Tens[k] }
<1>1. N \in Nat
  BY DigitsAssumption
<1>2. 0 \in T
  BY <1>1, TensShape
<1>3. ASSUME NEW k \in 1 .. N, k - 1 \in T PROVE k \in T
  <2>1. Tens[k] = 10 * Tens[k - 1] /\ Tens[k] \in Nat /\ Tens[k - 1] \in Nat
    BY <1>1, TensShape
  <2>2. ASSUME NEW m \in 0 .. k PROVE Tens[m] <= Tens[k]
    <3>1. CASE m = k
      BY <2>1, <3>1
    <3>2. CASE m \in 0 .. k - 1
      <4>1. Tens[m] <= Tens[k - 1] /\ Tens[m] \in Nat
        BY <1>1, <1>3, <3>2, TensShape
      <4> QED BY <2>1, <4>1
    <3> QED BY <1>1, <3>1, <3>2
  <2> QED BY <2>2
<1>4. \A k \in 0 .. N : k \in T
  <2> HIDE DEF T
  <2> QED BY <1>1, <1>2, <1>3, UpTo
<1> QED BY <1>4

(* The digits of a number that is less than a coin, filled with zeros.     *)
LEMMA FilledDigits ==
  ASSUME NEW r \in Nat, r < SATOSHI_PER_COIN, r # 0
  PROVE  LET s == Filled(Shortest(r))
         IN  /\ IsSeq(s) /\ Len(s) = SATOSHI_DIGITS
             /\ \A i \in 1 .. SATOSHI_DIGITS : s[i] = (r \div Tens[SATOSHI_DIGITS - i]) % 10
<1> DEFINE N == SATOSHI_DIGITS
           T == { n \in 1 .. N : r < Tens[n] }
           d == Shortest(r)
           z == [i \in 1 .. N - Len(d) |-> 0]
           s == Filled(d)
<1>1. N \in Nat /\ N > 1 /\ SATOSHI_PER_COIN = Tens[N]
  BY DigitsAssumption
<1>2. PICK n : n = Min(T)
  OBVIOUS
<1>3. n \in 1 .. N /\ r < Tens[n]
  <2>1. N \in T
    BY <1>1
  <2>2. T \subseteq Nat /\ T # {}
    BY <1>1, <2>1
  <2>3. n \in T
    <3> HIDE DEF T
    <3> QED BY <1>2, <2>2, MinProperties
  <2> QED BY <2>3
<1>4. d = [i \in 1 .. n |-> (r \div Tens[n - i]) % 10]
  BY <1>2 DEF Shortest, Digits
<1> HIDE DEF d
<1>5. IsSeq(d) /\ Len(d) = n
  <2>1. n \in Nat /\ DOMAIN d = 1 .. n /\ d = [i \in 1 .. n |-> d[i]]
    BY <1>3, <1>4
  <2> QED BY <2>1, SeqOfFunction
<1>6. IsSeq(z) /\ Len(z) = N - n
  <2>1. N - n \in Nat /\ DOMAIN z = 1 .. N - n /\ z = [i \in 1 .. N - n |-> z[i]]
    BY <1>1, <1>3, <1>5
  <2> HIDE DEF z
  <2> QED BY <2>1, SeqOfFunction
<1>7. \A i \in 1 .. N - n : z[i] = 0
  BY <1>5
<1>8. s = z \o d
  BY DEF Filled
<1> HIDE DEF z, s
<1>9. /\ IsSeq(s) /\ Len(s) = N
      /\ \A i \in 1 .. N : s[i] = IF i <= N - n THEN z[i] ELSE d[i - (N - n)]
  <2>1. (N - n) + n = N
    BY <1>1, <1>3
  <2>2. /\ IsSeq(s) /\ Len(s) = Len(z) + Len(d)
        /\ \A i \in 1 .. Len(z) + Len(d) :
             s[i] = IF i <= Len(z) THEN z[i] ELSE d[i - Len(z)]
    BY <1>5, <1>6, <1>8, ConcatShape
  <2> QED BY <1>5, <1>6, <2>1, <2>2
<1>10. ASSUME NEW i \in 1 .. N PROVE s[i] = (r \div Tens[N - i]) % 10
  <2>1. CASE i <= N - n
    <3>1. s[i] = 0
      BY <1>7, <1>9, <2>1
    <3>2. PICK t : t = Tens[N - i]
      OBVIOUS
    <3>3. N - i \in 0 .. N /\ n \in 0 .. N - i
      BY <1>1, <1>3, <2>1
    <3>4. Tens[n] <= t /\ Tens[n] \in Nat /\ t \in Nat \ {0}
      BY <1>3, <3>2, <3>3, TensGrow, TensShape
    <3>5. r < t
      BY <1>3, <3>4
    <3>6. r \div t = 0
      BY <3>4, <3>5, QuotientIs
    <3> QED BY <3>1, <3>2, <3>6
  <2>2. CASE ~ (i <= N - n)
    <3>1. i - (N - n) \in 1 .. n /\ n - (i - (N - n)) = N - i
      BY <1>1, <1>3, <2>2
    <3>2. s[i] = d[i - (N - n)]
      BY <1>9, <2>2
    <3> QED BY <1>4, <3>1, <3>2
  <2> QED BY <2>1, <2>2
<1> QED BY <1>9, <1>10 DEF s, d

LEMMA ReadFilled ==
  ASSUME NEW r \in Nat, r < SATOSHI_PER_COIN, r # 0
  PROVE  Len(Filled(Shortest(r))) = SATOSHI_DIGITS /\ ReadDigits(Filled(Shortest(r))) = r
<1> DEFINE N == SATOSHI_DIGITS
           s == Filled(Shortest(r))
<1>1. N \in Nat /\ SATOSHI_PER_COIN = Tens[N]
  BY DigitsAssumption
<1>2. /\ IsSeq(s) /\ Len(s) = N
      /\ \A i \in 1 .. N : s[i] = (r \div Tens[N - i]) % 10
  BY FilledDigits
<1> HIDE DEF s
<1>3. ASSUME NEW i \in 0 .. N PROVE Tens[N - i] \in Nat \ {0} /\ r \div Tens[N - i] \in Nat
  <2>1. PICK t : t = Tens[N - i]
    OBVIOUS
  <2>2. t \in Nat \ {0}
    BY <1>1, <2>1, TensShape
  <2> QED BY <2>1, <2>2
<1>4. \A i \in 1 .. N : s[i] \in Nat
  <2>1. TAKE i \in 1 .. N
  <2>2. PICK q : q = r \div Tens[N - i]
    OBVIOUS
  <2>3. q \in Nat /\ s[i] = q % 10
    BY <1>1, <1>2, <1>3, <2>2
  <2> QED BY <2>3
<1>5. PICK read \in [0 .. N -> Nat] :
        /\ ReadDigits(s) = read[N]
        /\ read[0] = 0
        /\ \A k \in 1 .. N : read[k] = 10 * read[k - 1] + s[k]
  BY <1>2, <1>4, ReadUnfolds
<1> DEFINE T == { k \in 0 .. N : read[k] = r \div Tens[N - k] }
<1>6. 0 \in T
  <2>1. Tens[N] \in Nat \ {0} /\ r < Tens[N]
    BY <1>1, TensShape
  <2>2. PICK t : t = Tens[N]
    OBVIOUS
  <2>3. r \div t = 0
    BY <2>1, <2>2, QuotientIs
  <2>4. N - 0 = N
    BY <1>1
  <2> QED BY <1>1, <1>5, <2>2, <2>3, <2>4
<1>7. ASSUME NEW k \in 1 .. N, k - 1 \in T PROVE k \in T
  <2>1. PICK t : t = Tens[N - k]
    OBVIOUS
  <2>2. t \in Nat \ {0}
    BY <1>1, <1>3, <2>1
  <2>3. Tens[N - (k - 1)] = 10 * t
    <3>1. N - (k - 1) \in 1 .. N /\ (N - (k - 1)) - 1 = N - k
      BY <1>1
    <3> QED BY <2>1, <3>1, TensShape
  <2>4. read[k - 1] = r \div (10 * t)
    BY <1>7, <2>3
  <2>5. read[k] = 10 * (r \div (10 * t)) + ((r \div t) % 10)
    BY <1>2, <1>5, <2>1, <2>4
  <2>6. read[k] = r \div t
    BY <2>2, <2>5, DigitsJoin
  <2> QED BY <2>1, <2>6
<1>8. N \in T
  <2> HIDE DEF T
  <2>1. \A k \in 0 .. N : k \in T
    BY <1>1, <1>6, <1>7, UpTo
  <2> QED BY <1>1, <2>1
<1>9. read[N] = r \div 1
  <2>1. N - N = 0
    BY <1>1
  <2> QED BY <1>8, <2>1, TensShape
<1> QED BY <1>2, <1>5, <1>9 DEF s

(* TextReads: an amount whose whole coins fit in an int32 is what a reader *)
(* takes its text for: coin::as_string loses neither a digit nor a zero    *)
(* after the point.                                                        *)
THEOREM TextReads ==
  ASSUME NEW c \in Nat, 2 * Quotient(c) < INT32_MOD
  PROVE  ReadText(AsString(c)) = c
<1> DEFINE S == SATOSHI_PER_COIN
           N == SATOSHI_DIGITS
<1>1. S \in Nat \ {0} /\ N \in Nat /\ N > 1 /\ S = Tens[N]
  BY SatoshiAssumption, DigitsAssumption
<1>2. PICK q, r : q = c \div S /\ r = c % S
  OBVIOUS
<1>3. q \in Nat /\ r \in Nat /\ r < S /\ c = S * q + r
  <2>1. PICK d : d = S
    OBVIOUS
  <2>2. d \in Nat \ {0} /\ q = c \div d /\ r = c % d
    BY <1>1, <1>2, <2>1
  <2> HIDE DEF S
  <2>3. q \in Nat /\ r \in Nat /\ r < d /\ c = d * q + r
    BY <2>2
  <2> QED BY <2>1, <2>3
<1>4. Quotient(c) = q
  BY <1>1, <1>2 DEF Quotient
<1>5. Get(c) = q
  <2>1. PICK M : M = INT32_MOD
    OBVIOUS
  <2>2. M \in Nat \ {0} /\ 2 * q < M
    BY <1>4, <2>1, Int32Assumption
  <2>3. q % M = q
    BY <1>3, <2>2
  <2> QED BY <1>4, <2>1, <2>2, <2>3 DEF Get, Int32
<1>6. GetSatoshi(c) = r
  <2>1. S * q \in Nat
    BY <1>1, <1>3
  <2> QED BY <1>3, <1>4, <2>1 DEF GetSatoshi
<1>7. ReadText(AsString(c)) = q * S + ReadDigits(Fraction(r)) * Tens[N - Len(Fraction(r))]
  BY <1>5, <1>6 DEF ReadText, AsString
<1>8. ReadDigits(Fraction(r)) * Tens[N - Len(Fraction(r))] = r
  <2>1. CASE r = 0
    <3>1. Fraction(r) = << 0, 0 >>
      BY <2>1 DEF Fraction
    <3> DEFINE s == << 0, 0 >>
    <3>2. IsSeq(s) /\ Len(s) = 2 /\ \A i \in 1 .. 2 : s[i] \in Nat /\ s[i] = 0
      BY DEF IsSeq, Range
    <3> HIDE DEF s
    <3>3. \A i \in 1 .. Len(s) : s[i] \in Nat
      BY <3>2
    <3>4. PICK read \in [0 .. Len(s) -> Nat] :
            /\ ReadDigits(s) = read[Len(s)]
            /\ read[0] = 0
            /\ \A k \in 1 .. Len(s) : read[k] = 10 * read[k - 1] + s[k]
      BY <3>2, <3>3, ReadUnfolds
    <3>5. read[1] = 0 /\ read[2] = 0
      BY <3>2, <3>4
    <3>6. ReadDigits(Fraction(r)) = 0 /\ Len(Fraction(r)) = 2
      BY <3>1, <3>2, <3>4, <3>5 DEF s
    <3>7. PICK t : t = Tens[N - 2]
      OBVIOUS
    <3>8. t \in Nat
      BY <1>1, <3>7, TensShape
    <3>9. 0 * t = 0
      BY <3>8
    <3> QED BY <2>1, <3>6, <3>7, <3>9
  <2>2. CASE r # 0
    <3>1. Fraction(r) = Filled(Shortest(r))
      BY <1>3, <2>2 DEF Fraction
    <3>2. Len(Fraction(r)) = N /\ ReadDigits(Fraction(r)) = r
      BY <1>3, <2>2, <3>1, ReadFilled
    <3>3. N - N = 0
      BY <1>1
    <3> QED BY <1>3, <3>2, <3>3, TensShape
  <2> QED BY <2>1, <2>2
<1>9. q * S = S * q
  BY <1>1, <1>3
<1> QED BY <1>3, <1>7, <1>8, <1>9

(***************************************************************************)
(* What an address owns among some outputs, output by output.              *)
(***************************************************************************)
Share(out, address) == IF out.address = address THEN out.amount ELSE 0
PaidIn(s, address) == Total(OutputsAt(s, address))

LEMMA BalanceIsPaid ==
  ASSUME NEW name
  PROVE  Balance(name) = PaidIn(utxouts, AddressOf(name))
BY DEF Balance, PaidIn, Total, OutputsAt, CacheGroupBy

LEMMA PaidAppend ==
  ASSUME NEW S, \A out \in S : out.amount \in Int, NEW s \in Seq(S), NEW out \in S,
         NEW address
  PROVE  /\ PaidIn(s, address) \in Int
         /\ PaidIn(Append(s, out), address) = PaidIn(s, address) + Share(out, address)
<1> DEFINE r == Append(s, out)
           I == { i \in DOMAIN s : s[i].address = address }
           J == { i \in DOMAIN r : r[i].address = address }
<1>1. IsSeq(s)
  BY IsSeqOf
<1>2. /\ IsSeq(r) /\ Len(r) = Len(s) + 1 /\ (\A i \in 1 .. Len(s) : r[i] = s[i])
      /\ r[Len(s) + 1] = out
  BY <1>1, AppendShape
<1> HIDE DEF r
<1>3. Len(s) \in Nat /\ DOMAIN s = 1 .. Len(s) /\ DOMAIN r = 1 .. Len(s) + 1
  BY <1>1, <1>2, SeqShape
<1>4. \A i \in 1 .. Len(s) : i \in I <=> i \in J
  BY <1>2, <1>3
<1>5. Len(s) + 1 \in J <=> out.address = address
  BY <1>2, <1>3
<1>6. OutputsAt(s, address) = Subsequence(s, I) /\ OutputsAt(r, address) = Subsequence(r, J)
  BY DEF OutputsAt
<1> HIDE DEF I, J
<1>7. Subsequence(r, J)
        = IF Len(s) + 1 \in J THEN Append(Subsequence(s, I), out) ELSE Subsequence(s, I)
  BY <1>1, <1>4, SubsequenceAppend DEF r
<1>8. Subsequence(s, I) \in Seq(S)
  BY SubsequenceProperties
<1>9. /\ Total(Subsequence(s, I)) \in Int
      /\ Total(Append(Subsequence(s, I), out)) = Total(Subsequence(s, I)) + out.amount
  BY <1>8, TotalAppend
<1> QED BY <1>5, <1>6, <1>7, <1>9 DEF PaidIn, Share, r

(* The outputs of a vector, added one after the other.                     *)
LEMMA PaidSteps ==
  ASSUME NEW s, IsSeq(s), \A i \in 1 .. Len(s) : s[i].amount \in Int, NEW address
  PROVE  \E paid \in [0 .. Len(s) -> Int] :
           /\ PaidIn(s, address) = paid[Len(s)]
           /\ paid[0] = 0
           /\ \A k \in 1 .. Len(s) : paid[k] = paid[k - 1] + Share(s[k], address)
<1> DEFINE n == Len(s)
           S == Range(s)
           paid == [k \in 0 .. n |-> PaidIn(SubSeq(s, 1, k), address)]
<1>1. n \in Nat /\ s \in Seq(S) /\ DOMAIN s = 1 .. n
  BY SeqShape DEF IsSeq
<1>2. \A out \in S : out.amount \in Int
  BY <1>1 DEF Range
<1>3. ASSUME NEW k \in 0 .. n PROVE SubSeq(s, 1, k) \in Seq(S)
  <2>1. /\ IsSeq(SubSeq(s, 1, k)) /\ Len(SubSeq(s, 1, k)) = k
        /\ \A i \in 1 .. k : SubSeq(s, 1, k)[i] = s[i]
    BY PrefixShape
  <2>2. \A i \in 1 .. k : s[i] \in S
    BY <1>1 DEF Range
  <2> QED BY <2>1, <2>2, SeqShape
<1>4. paid[0] = 0
  <2>1. 0 \in 0 .. n
    BY <1>1
  <2>2. IsSeq(SubSeq(s, 1, 0)) /\ Len(SubSeq(s, 1, 0)) = 0
    BY <2>1, PrefixShape
  <2>3. SubSeq(s, 1, 0) = << >>
    BY <2>2, SeqShape
  <2>4. PaidIn(<< >>, address) = 0
    BY SubsequenceEmpty, TotalEmpty DEF PaidIn, OutputsAt
  <2> QED BY <2>1, <2>3, <2>4
<1>5. ASSUME NEW k \in 1 .. n
      PROVE  paid[k] = paid[k - 1] + Share(s[k], address) /\ paid[k - 1] \in Int
  <2>1. k \in 0 .. n /\ k - 1 \in 0 .. n /\ s[k] \in S
    BY <1>1 DEF Range
  <2>2. PICK p : p = SubSeq(s, 1, k - 1)
    OBVIOUS
  <2>3. p \in Seq(S)
    BY <1>3, <2>1, <2>2
  <2>4. SubSeq(s, 1, k) = Append(p, s[k])
    BY <2>2, PrefixGrows
  <2>5. /\ PaidIn(p, address) \in Int
        /\ PaidIn(Append(p, s[k]), address) = PaidIn(p, address) + Share(s[k], address)
    BY <1>2, <2>1, <2>3, PaidAppend
  <2> QED BY <2>1, <2>2, <2>4, <2>5
<1>6. SubSeq(s, 1, n) = s
  <2>1. n \in 0 .. Len(s)
    BY <1>1
  <2>2. /\ IsSeq(SubSeq(s, 1, n)) /\ Len(SubSeq(s, 1, n)) = n
        /\ \A i \in 1 .. n : SubSeq(s, 1, n)[i] = s[i]
    BY <2>1, PrefixShape
  <2> QED BY <2>2, SameSeq
<1>7. PaidIn(s, address) = paid[n]
  <2>1. n \in 0 .. n
    BY <1>1
  <2> QED BY <1>6, <2>1
<1>8. \A k \in 1 .. n : Share(s[k], address) \in Int
  BY DEF Share
<1> HIDE DEF paid
<1>9. \A k \in 0 .. n : paid[k] \in Int
  <2>1. TAKE k \in 0 .. n
  <2>2. CASE k = 0
    BY <1>4, <2>2
  <2>3. CASE k \in 1 .. n
    BY <1>5, <1>8, <2>3
  <2> QED BY <1>1, <2>2, <2>3
<1>10. paid \in [0 .. n -> Int]
  <2>1. paid = [k \in 0 .. n |-> paid[k]]
    BY DEF paid
  <2> QED BY <1>9, <2>1
<1> QED BY <1>4, <1>5, <1>7, <1>10

LEMMA PaidOfOne ==
  ASSUME NEW s, IsSeq(s), Len(s) = 1, s[1].amount \in Int, NEW address
  PROVE  PaidIn(s, address) = Share(s[1], address)
<1>1. \A i \in 1 .. Len(s) : s[i].amount \in Int
  <2>1. \A i \in 1 .. 1 : i = 1
    OBVIOUS
  <2> QED BY <2>1
<1>2. PICK paid \in [0 .. Len(s) -> Int] :
        /\ PaidIn(s, address) = paid[Len(s)]
        /\ paid[0] = 0
        /\ \A k \in 1 .. Len(s) : paid[k] = paid[k - 1] + Share(s[k], address)
  BY <1>1, PaidSteps
<1>3. paid[1] = paid[1 - 1] + Share(s[1], address)
  BY <1>2
<1> QED BY <1>2, <1>3 DEF Share

LEMMA PaidOfTwo ==
  ASSUME NEW s, IsSeq(s), Len(s) = 2, s[1].amount \in Int, s[2].amount \in Int, NEW address
  PROVE  PaidIn(s, address) = Share(s[1], address) + Share(s[2], address)
<1>1. \A i \in 1 .. Len(s) : s[i].amount \in Int
  <2>1. \A i \in 1 .. 2 : i = 1 \/ i = 2
    OBVIOUS
  <2> QED BY <2>1
<1>2. PICK paid \in [0 .. Len(s) -> Int] :
        /\ PaidIn(s, address) = paid[Len(s)]
        /\ paid[0] = 0
        /\ \A k \in 1 .. Len(s) : paid[k] = paid[k - 1] + Share(s[k], address)
  BY <1>1, PaidSteps
<1>3. /\ paid[1] = paid[1 - 1] + Share(s[1], address)
      /\ paid[2] = paid[2 - 1] + Share(s[2], address)
  BY <1>2
<1> QED BY <1>2, <1>3 DEF Share

LEMMA PaidOfThree ==
  ASSUME NEW s, IsSeq(s), Len(s) = 3, s[1].amount \in Int, s[2].amount \in Int,
         s[3].amount \in Int, NEW address
  PROVE  PaidIn(s, address)
           = Share(s[1], address) + Share(s[2], address) + Share(s[3], address)
<1>1. \A i \in 1 .. Len(s) : s[i].amount \in Int
  <2>1. \A i \in 1 .. 3 : i = 1 \/ i = 2 \/ i = 3
    OBVIOUS
  <2> QED BY <2>1
<1>2. PICK paid \in [0 .. Len(s) -> Int] :
        /\ PaidIn(s, address) = paid[Len(s)]
        /\ paid[0] = 0
        /\ \A k \in 1 .. Len(s) : paid[k] = paid[k - 1] + Share(s[k], address)
  BY <1>1, PaidSteps
<1>3. /\ paid[1] = paid[1 - 1] + Share(s[1], address)
      /\ paid[2] = paid[2 - 1] + Share(s[2], address)
      /\ paid[3] = paid[3 - 1] + Share(s[3], address)
  BY <1>2
<1> QED BY <1>2, <1>3 DEF Share

(***************************************************************************)
(* The outputs the blocks of the demo program leave.                       *)
(***************************************************************************)
LEMMA OutputFields ==
  ASSUME NEW t, IsTransaction(t), NEW i
  PROVE  /\ IsSeq(OutputsOf(t, i)) /\ Len(OutputsOf(t, i)) = Len(t.txouts)
         /\ \A m \in 1 .. Len(t.txouts) :
              /\ OutputsOf(t, i)[m].address = t.txouts[m].address
              /\ OutputsOf(t, i)[m].amount = t.txouts[m].amount
<1>1. PICK o : o = OutputsOf(t, i)
  OBVIOUS
<1>2. /\ IsSeq(o) /\ Len(o) = Len(t.txouts)
      /\ \A m \in 1 .. Len(t.txouts) :
           o[m] = [key     |-> TxoutKey(t.id, i - 1),
                   address |-> t.txouts[m].address,
                   amount  |-> t.txouts[m].amount]
  BY <1>1, OutputsShape
<1>3. ASSUME NEW m \in 1 .. Len(t.txouts)
      PROVE  o[m].address = t.txouts[m].address /\ o[m].amount = t.txouts[m].amount
  <2>1. PICK key, address, amount_ :
          /\ key = TxoutKey(t.id, i - 1) /\ address = t.txouts[m].address
          /\ amount_ = t.txouts[m].amount
    OBVIOUS
  <2>2. o[m] = [key |-> key, address |-> address, amount |-> amount_]
    BY <1>2, <2>1
  <2>3. o[m].address = address /\ o[m].amount = amount_
    BY <2>2
  <2> QED BY <2>1, <2>3
<1> QED BY <1>1, <1>2, <1>3

LEMMA CreatedByOne ==
  ASSUME NEW data, IsSeq(data), Len(data) = 1, IsTransaction(data[1])
  PROVE  NewUnspent(data) = OutputsOf(data[1], 1)
<1> DEFINE outs == [i \in DOMAIN data |-> OutputsOf(data[i], i)]
<1>1. DOMAIN data = 1 .. 1
  BY SeqShape
<1>2. IsSeq(outs) /\ Len(outs) = 1
  <2>1. DOMAIN outs = 1 .. 1 /\ outs = [i \in 1 .. 1 |-> outs[i]]
    BY <1>1
  <2> HIDE DEF outs
  <2> QED BY <2>1, SeqOfFunction
<1>3. outs[1] = OutputsOf(data[1], 1)
  BY <1>1
<1>4. IsSeq(OutputsOf(data[1], 1))
  BY OutputsShape
<1>5. NewUnspent(data) = FlattenSeq(outs)
  BY DEF NewUnspent
<1> HIDE DEF outs
<1> QED BY <1>2, <1>3, <1>4, <1>5, FlattenSingle

LEMMA CreatedByTwo ==
  ASSUME NEW data, IsSeq(data), Len(data) = 2, IsTransaction(data[1]), IsTransaction(data[2])
  PROVE  NewUnspent(data) = OutputsOf(data[1], 1) \o OutputsOf(data[2], 2)
<1> DEFINE outs == [i \in DOMAIN data |-> OutputsOf(data[i], i)]
<1>1. PICK a, b : a = OutputsOf(data[1], 1) /\ b = OutputsOf(data[2], 2)
  OBVIOUS
<1>2. DOMAIN data = 1 .. 2
  BY SeqShape
<1>3. IsSeq(a) /\ IsSeq(b)
  BY <1>1, OutputsShape
<1> DEFINE S == Range(a) \cup Range(b)
<1>4. a \in Seq(S) /\ b \in Seq(S)
  BY <1>3, SeqMonotonic DEF IsSeq
<1>5. outs[1] = a /\ outs[2] = b
  BY <1>1, <1>2
<1>6. IsSeq(outs) /\ Len(outs) = 2
  <2>1. DOMAIN outs = 1 .. 2 /\ outs = [i \in 1 .. 2 |-> outs[i]]
    BY <1>2
  <2> HIDE DEF outs
  <2> QED BY <2>1, SeqOfFunction
<1>7. NewUnspent(data) = FlattenSeq(outs)
  BY DEF NewUnspent
<1> HIDE DEF outs, S
<1>8. outs \in Seq(Seq(S))
  <2>1. \A i \in 1 .. 2 : i = 1 \/ i = 2
    OBVIOUS
  <2>2. \A i \in 1 .. Len(outs) : outs[i] \in Seq(S)
    BY <1>4, <1>5, <1>6, <2>1
  <2> QED BY <1>6, <2>2, SeqShape
<1>9. PICK g \in [0 .. Len(outs) -> Seq(S)] :
        /\ FlattenSeq(outs) = g[Len(outs)]
        /\ g[0] = << >>
        /\ \A k \in 1 .. Len(outs) : g[k] = g[k - 1] \o outs[k]
  BY <1>8, FlattenSteps
<1>10. g[1] = g[0] \o a /\ g[2] = g[1] \o b
  <2>1. 1 - 1 = 0 /\ 2 - 1 = 1 /\ 1 \in 1 .. Len(outs) /\ 2 \in 1 .. Len(outs)
    BY <1>6
  <2>2. g[1] = g[1 - 1] \o outs[1] /\ g[2] = g[2 - 1] \o outs[2]
    BY <1>9, <2>1
  <2> QED BY <1>5, <2>1, <2>2
<1>11. g[1] = a
  <2>1. << >> \o a = a
    BY <1>4, ConcatEmptySeq
  <2> QED BY <1>9, <1>10, <2>1
<1> QED BY <1>1, <1>6, <1>7, <1>9, <1>10, <1>11

LEMMA CoinbaseOutputs ==
  ASSUME NEW address, NEW block_index
  PROVE  LET c == GenerateCoinbase(address, block_index)
         IN  /\ Len(c.txouts) = 1
             /\ c.txouts[1].address = address /\ c.txouts[1].amount = GetCoinbase
<1> DEFINE ins == << Txin(TxoutKey(NoHash, block_index)) >>
           out == Txout(address, GetCoinbase)
           outs == << out >>
           c == GenerateCoinbase(address, block_index)
<1>1. c.txouts = outs
  <2> HIDE DEF outs, ins
  <2>1. Build(ins, outs).txouts = outs
    BY BuildShape
  <2> QED BY <2>1 DEF GenerateCoinbase, ins, outs
<1>2. out.address = address /\ out.amount = GetCoinbase
  BY DEF Txout
<1> HIDE DEF c, out
<1>3. Len(outs) = 1 /\ outs[1] = out
  OBVIOUS
<1> HIDE DEF outs
<1> QED BY <1>1, <1>2, <1>3 DEF c

(* One output, of a coinbase for the genesis key: the state before the     *)
(* block of the demo program.                                              *)
Unmined ==
  /\ Len(blocks) = 1
  /\ IsSeq(utxouts) /\ Len(utxouts) = 1
  /\ utxouts[1].address = GetAddress(GenesisKey)
  /\ utxouts[1].amount = GetCoinbase

LEMMA UnminedInit == Init => Unmined
<1> SUFFICES ASSUME NEW ts \in Timestamps, ChainInit(ts) PROVE Unmined
  BY DEF Init
<1> DEFINE data == blocks[1].data
           t == data[1]
<1>1. /\ IsSeq(data) /\ Len(data) = 1 /\ IsTransaction(t) /\ Len(blocks) = 1
      /\ utxouts = UpdateUnspentTxout(data, << >>)
  BY GenesisShape, GenesisUnspent
<1>2. t = GenerateCoinbase(GetAddress(GenesisKey), 0)
  <2>1. blocks[1] = GenesisBlock(ts)
    BY DEF ChainInit
  <2> QED BY <2>1 DEF GenesisBlock, GetGenesis
<1>3. /\ Len(t.txouts) = 1
      /\ t.txouts[1].address = GetAddress(GenesisKey) /\ t.txouts[1].amount = GetCoinbase
  <2> HIDE DEF t
  <2> QED BY <1>2, CoinbaseOutputs
<1> DEFINE new == OutputsOf(t, 1)
<1>4. NewUnspent(data) = new
  <2> HIDE DEF data
  <2> QED BY <1>1, CreatedByOne
<1> HIDE DEF t
<1>5. IsSeq(new) /\ Len(new) = 1 /\ new[1].address = t.txouts[1].address
      /\ new[1].amount = t.txouts[1].amount
  <2>1. /\ IsSeq(new) /\ Len(new) = Len(t.txouts)
        /\ \A m \in 1 .. Len(t.txouts) : /\ new[m].address = t.txouts[m].address
                                         /\ new[m].amount = t.txouts[m].amount
    BY <1>1, OutputFields
  <2> HIDE DEF new
  <2> QED BY <1>3, <2>1
<1> HIDE DEF new, data
<1>6. utxouts = new
  <2>1. utxouts = NewUnspent(data) \o << >>
    BY <1>1, SubsequenceEmpty DEF UpdateUnspentTxout
  <2>2. new \o << >> = new
    BY <1>5, ConcatEmptySeq DEF IsSeq
  <2> QED BY <1>4, <2>1, <2>2
<1> QED BY <1>1, <1>3, <1>5, <1>6 DEF Unmined

(***************************************************************************)
(* The transfer of the demo program.                                       *)
(***************************************************************************)
LEMMA TotalOfOne ==
  ASSUME NEW s, IsSeq(s), Len(s) = 1, s[1].amount \in Int
  PROVE  Total(s) = s[1].amount
<1>1. \A i \in 1 .. Len(s) : s[i].amount \in Int
  <2>1. \A i \in 1 .. 1 : i = 1
    OBVIOUS
  <2> QED BY <2>1
<1>2. /\ Totals(s)[0] = 0
      /\ \A k \in 1 .. Len(s) : Totals(s)[k] = Totals(s)[k - 1] + s[k].amount
  BY <1>1, TotalsShape
<1>3. Totals(s)[1] = Totals(s)[0] + s[1].amount
  <2>1. 1 - 1 = 0 /\ 1 \in 1 .. Len(s)
    OBVIOUS
  <2>2. Totals(s)[1] = Totals(s)[1 - 1] + s[1].amount
    BY <1>2, <2>1
  <2> QED BY <2>1, <2>2
<1> QED BY <1>2, <1>3 DEF Total

LEMMA CoinbaseIsNat == GetCoinbase \in Nat /\ GetCoinbase > 0
<1>1. PICK c, s : c = COINBASE /\ s = SATOSHI_PER_COIN
  OBVIOUS
<1>2. c \in Nat \ {0} /\ s \in Nat \ {0}
  BY <1>1, CoinbaseAssumption, SatoshiAssumption
<1>3. c * s \in Nat /\ c * s > 0
  BY <1>2
<1> QED BY <1>1, <1>3 DEF GetCoinbase

(* There is one output, the genesis wallet owns it, and nothing waits: any *)
(* amount selects that output.                                             *)
LEMMA SelectedIsAll ==
  ASSUME Unmined, pool = << >>, wallets["genesis"] = GenesisKey, NEW asks
  PROVE  Selected("genesis", asks) = utxouts /\ Total(utxouts) = GetCoinbase
<1> DEFINE address == AddressOf("genesis")
           I == { i \in DOMAIN utxouts : utxouts[i].address = address }
           mine == CacheGroupBy(address)
           used == { i \in DOMAIN mine : FoundIn(SpentKeys(pool), mine[i].key) }
<1>1. IsSeq(utxouts) /\ Len(utxouts) = 1 /\ DOMAIN utxouts = 1 .. 1
  BY SeqShape DEF Unmined
<1>2. I = DOMAIN utxouts
  <2>1. \A i \in DOMAIN utxouts : i = 1
    BY <1>1
  <2>2. utxouts[1].address = address
    BY DEF Unmined, AddressOf
  <2> HIDE DEF address
  <2> QED BY <2>1, <2>2
<1>3. mine = utxouts
  <2>1. mine = Subsequence(utxouts, I)
    BY DEF CacheGroupBy
  <2> HIDE DEF mine, I
  <2> QED BY <1>1, <1>2, <2>1, SubsequenceAll
<1>4. used = {}
  <2>1. DOMAIN pool = {}
    BY EmptyShape
  <2>2. SpentKeys(pool) = {}
    BY <2>1 DEF SpentKeys, InputPlaces
  <2> QED BY <2>2 DEF FoundIn
<1>5. SenderCache(address) = utxouts
  <2>1. SenderCache(address) = RemoveIf(mine, used)
    BY DEF SenderCache
  <2> HIDE DEF mine, used
  <2> QED BY <1>1, <1>3, <1>4, <2>1, RemoveAllOrNone
<1> DEFINE enough == { k \in 1 .. Len(utxouts) : Greater(Totals(utxouts)[k], asks) }
<1>6. UseCount(utxouts, asks) = 1
  <2>1. UseCount(utxouts, asks) = IF enough = {} THEN 1 ELSE Min(enough)
    BY <1>1 DEF UseCount
  <2>2. enough \subseteq Nat /\ enough \subseteq 1 .. 1
    BY <1>1
  <2> HIDE DEF enough
  <2>3. enough # {} => Min(enough) \in enough
    BY <2>2, MinProperties
  <2>4. \A i \in 1 .. 1 : i = 1
    OBVIOUS
  <2> QED BY <2>1, <2>2, <2>3, <2>4
<1>7. SubSeq(utxouts, 1, 1) = utxouts
  <2>1. 1 \in 0 .. Len(utxouts)
    BY <1>1
  <2>2. /\ IsSeq(SubSeq(utxouts, 1, 1)) /\ Len(SubSeq(utxouts, 1, 1)) = 1
        /\ \A i \in 1 .. 1 : SubSeq(utxouts, 1, 1)[i] = utxouts[i]
    BY <1>1, <2>1, PrefixShape
  <2> QED BY <1>1, <2>2, SameSeq
<1>8. Selected("genesis", asks) = utxouts
  <2> HIDE DEF address
  <2> QED BY <1>5, <1>6, <1>7 DEF Selected, address
<1>9. Total(utxouts) = GetCoinbase
  <2>1. utxouts[1].amount = GetCoinbase /\ GetCoinbase \in Int
    BY CoinbaseIsNat DEF Unmined
  <2> QED BY <1>1, <2>1, TotalOfOne
<1> QED BY <1>8, <1>9

(* Whom a transfer pays.                                                   *)
LEMMA TransferReceivers ==
  ASSUME NEW use, NEW sender, NEW receiver, NEW asks, NEW key
  PROVE  LET t == Signed(Transfer(sender, use, receiver, asks), key)
         IN  t.txouts[1].address = receiver /\ t.txouts[2].address = AddressOf(sender)
<1> DEFINE ins == [i \in DOMAIN use |-> Txin(use[i].key)]
           first == Txout(receiver, asks)
           second == Txout(AddressOf(sender), Total(use) - asks)
           outs == << first, second >>
           tran == Transfer(sender, use, receiver, asks)
           signed == [i \in DOMAIN tran.txins |->
                        [tran.txins[i] EXCEPT !.signature = Sign(key, tran.id)]]
           t == Signed(tran, key)
<1>1. tran = [txins |-> tran.txins, txouts |-> outs, id |-> tran.id]
  <2>1. tran = Build(ins, outs)
    BY DEF Transfer
  <2> HIDE DEF tran, ins, outs
  <2>2. tran.txins = ins /\ tran = [txins |-> ins, txouts |-> outs, id |-> tran.id]
    BY <2>1, BuildShape
  <2> QED BY <2>2
<1>2. t.txouts = outs
  <2>1. t = [tran EXCEPT !.txins = signed]
    BY DEF Signed
  <2> HIDE DEF t, tran, signed, outs
  <2> QED BY <1>1, <2>1
<1>3. first.address = receiver /\ second.address = AddressOf(sender)
  BY DEF Txout
<1> HIDE DEF t, first, second
<1>4. outs[1] = first /\ outs[2] = second
  OBVIOUS
<1> HIDE DEF outs
<1> QED BY <1>2, <1>3, <1>4 DEF t

(* What waits for the block of the demo program, if the transfer was not   *)
(* refused.                                                                *)
IsMove(t, out) ==
  /\ Len(t.txins) = 1
  /\ t.txins[1].key = out.key
  /\ t.txins[1].signature = Sign(GenesisKey, t.id)
  /\ Len(t.txouts) = 2
  /\ t.txouts[1].address = AddressOf(W1)
  /\ t.txouts[1].amount = amount
  /\ t.txouts[2].address = GetAddress(GenesisKey)
  /\ t.txouts[2].amount = GetCoinbase - amount

LEMMA TransferMoves ==
  ASSUME Linked, Unmined, pool = << >>, amount \in Int,
         wallets["genesis"] = GenesisKey, AddressOf(W1) \in Addresses
  PROVE  LET t == Signed(Transfer("genesis", Selected("genesis", amount), AddressOf(W1), amount),
                         wallets["genesis"])
         IN  IsTransaction(t) /\ IsMove(t, utxouts[1])
<1> DEFINE to == AddressOf(W1)
           t == Signed(Transfer("genesis", utxouts, to, amount), GenesisKey)
<1>1. Selected("genesis", amount) = utxouts /\ Total(utxouts) = GetCoinbase
  BY SelectedIsAll
<1>2. IsSeq(utxouts) /\ Len(utxouts) = 1 /\ DOMAIN utxouts = 1 .. 1
  BY SeqShape DEF Unmined
<1>3. \A i \in 1 .. Len(utxouts) : utxouts[i].key.txout_index \in Nat /\ utxouts[i].amount \in Int
  BY <1>2 DEF Linked, TypeOK, UtxosTyped
<1>4. AddressOf("genesis") = GetAddress(GenesisKey) /\ AddressOf("genesis") \in Addresses
  BY KeysAssumption DEF AddressOf, Addresses
<1>5. to \in Addresses /\ GetCoinbase \in Int
  BY CoinbaseIsNat
<1> HIDE DEF to
<1>6. /\ IsTransaction(t) /\ Len(t.txins) = Len(utxouts)
      /\ \A i \in 1 .. Len(utxouts) : t.txins[i].key = utxouts[i].key
  BY <1>2, <1>3, <1>4, <1>5, TransferShape
<1>7. Len(t.txouts) = 2 /\ t.txouts[1].amount = amount /\ t.txouts[2].amount = GetCoinbase - amount
  BY <1>1, <1>5, TransferOutputs
<1>8. t.txouts[1].address = to /\ t.txouts[2].address = AddressOf("genesis")
  BY TransferReceivers
<1>9. SignedWith(t, GenesisKey)
  <2> DEFINE W == { to, AddressOf("genesis") }
  <2>1. to \in W /\ AddressOf("genesis") \in W
    OBVIOUS
  <2> HIDE DEF W
  <2> QED BY <2>1, TransferPays
<1> HIDE DEF t
<1>10. DOMAIN t.txins = 1 .. 1
  <2>1. IsSeq(t.txins)
    BY <1>6 DEF IsTransaction
  <2> QED BY <1>2, <1>6, <2>1, SeqShape
<1>11. t.txins[1].key = utxouts[1].key /\ t.txins[1].signature = Sign(GenesisKey, t.id)
  <2>1. 1 \in DOMAIN t.txins /\ 1 \in 1 .. Len(utxouts)
    BY <1>2, <1>10
  <2> QED BY <1>6, <1>9, <2>1 DEF SignedWith
<1>12. IsMove(t, utxouts[1])
  BY <1>2, <1>4, <1>6, <1>7, <1>8, <1>11 DEF IsMove, to
<1> QED BY <1>1, <1>6, <1>12 DEF t, to

(***************************************************************************)
(* The block of the demo program: add() takes it, and what it leaves.      *)
(***************************************************************************)
LEMMA EmptyPoolIsMinable ==
  ASSUME pool = << >>
  PROVE  StaleIn(pool) = {} /\ ~ Jammed
<1>1. DOMAIN pool = {}
  BY EmptyShape
<1>2. ~ Clash(pool, utxouts) /\ ~ Rejected(pool, utxouts)
  BY <1>1 DEF Clash, Rejected
<1> QED BY <1>1, <1>2, JammedMeans DEF StaleIn

LEMMA MoveIsMinable ==
  ASSUME Linked, Unmined, IsSeq(pool), Len(pool) = 1, IsMove(pool[1], utxouts[1])
  PROVE  StaleIn(pool) = {} /\ ~ Jammed
<1> DEFINE t == pool[1]
           out == utxouts[1]
<1>1. DOMAIN pool = 1 .. 1 /\ DOMAIN utxouts = 1 .. 1
  BY SeqShape DEF Unmined
<1>2. IsTransaction(t)
  BY <1>1 DEF Linked, TypeOK, PoolTyped
<1>3. IsMove(t, out)
  OBVIOUS
<1>4. out.address = GetAddress(GenesisKey)
  BY DEF Unmined
<1> HIDE DEF t
<1>5. DOMAIN t.txins = 1 .. 1
  BY <1>2, <1>3, SeqShape DEF IsTransaction, IsMove
<1>6. \A i \in 1 .. 1 : i = 1
  OBVIOUS
<1>7. Has(utxouts, t.txins[1].key)
  BY <1>1, <1>3 DEF Has, IsMove
<1>8. GetTxout(utxouts, t.txins[1].key) = out
  <2> DEFINE T == { i \in DOMAIN utxouts : utxouts[i].key = t.txins[1].key }
  <2>1. 1 \in T /\ T \subseteq Nat /\ T \subseteq 1 .. 1
    BY <1>1, <1>3 DEF IsMove
  <2>2. GetTxout(utxouts, t.txins[1].key) = utxouts[Min(T)]
    BY <1>7 DEF GetTxout
  <2> HIDE DEF T
  <2>3. Min(T) \in T
    BY <2>1, MinProperties
  <2> QED BY <1>6, <2>1, <2>2, <2>3
<1> HIDE DEF out
<1>9. FreshFor(t, utxouts)
  BY <1>5, <1>6, <1>7 DEF FreshFor
<1>10. Validate(t, utxouts)
  <2>1. ~ NotEqual(GenerateHash(t), t.id)
    BY <1>2 DEF IsTransaction, NotEqual
  <2>2. PICK tx : tx = t.txins[1]
    OBVIOUS
  <2>3. tx.signature = Sign(GenesisKey, t.id) /\ Has(utxouts, tx.key)
        /\ GetTxout(utxouts, tx.key).address = GetAddress(GenesisKey)
    BY <1>3, <1>4, <1>7, <1>8, <2>2 DEF IsMove
  <2>4. Verify(GetAddress(GenesisKey), t.id, Sign(GenesisKey, t.id))
    BY DEF Verify, GetAddress, Sign
  <2>5. TxinValidate(t, tx, utxouts)
    BY <2>3, <2>4 DEF TxinValidate
  <2> QED BY <1>5, <1>6, <2>1, <2>2, <2>5 DEF Validate
<1>11. ~ Rejected(pool, utxouts)
  BY <1>1, <1>6, <1>10 DEF Rejected, t
<1>12. ~ Clash(pool, utxouts)
  <2>1. \A m \in DOMAIN pool : m = 1
    BY <1>1, <1>6
  <2>2. \A i \in DOMAIN pool[1].txins : i = 1
    BY <1>5, <1>6 DEF t
  <2> QED BY <2>1, <2>2 DEF Clash
<1>13. StaleIn(pool) = {}
  <2>1. ~ IsStale(t)
    BY <1>9 DEF IsStale, FreshFor
  <2> QED BY <1>1, <1>6, <2>1 DEF StaleIn, t
<1> QED BY <1>11, <1>12, <1>13, JammedMeans

(* The coinbase of a block, and what it spends.                            *)
LEMMA CommitCoinbase ==
  ASSUME Linked, NEW ts \in Timestamps, CommitBlock(ts)
  PROVE  /\ Len(blocks') = Len(blocks) + 1
         /\ utxouts' = UpdateUnspentTxout(NewTrans, utxouts)
         /\ IsSeq(NewTrans) /\ Len(NewTrans) = Len(pool) + 1
         /\ \A i \in 1 .. Len(NewTrans) : IsTransaction(NewTrans[i])
         /\ \A i \in 2 .. Len(NewTrans) : NewTrans[i] = pool[i - 1]
         /\ Len(NewTrans[1].txins) = 1
         /\ NewTrans[1].txins[1].key = TxoutKey(NoHash, Len(blocks))
         /\ LET o == OutputsOf(NewTrans[1], 1)
            IN  /\ IsSeq(o) /\ Len(o) = 1
                /\ o[1].address = AddressOf("genesis") /\ o[1].amount = GetCoinbase
<1>1. PICK v : v = NewTrans
  OBVIOUS
<1>2. /\ Len(blocks') = Len(blocks) + 1
      /\ utxouts' = UpdateUnspentTxout(v, utxouts)
      /\ IsSeq(v) /\ Len(v) = Len(pool) + 1 /\ Len(pool) \in Nat
      /\ \A i \in 1 .. Len(v) : IsTransaction(v[i])
      /\ \A i \in 2 .. Len(v) : v[i] = pool[i - 1]
      /\ Len(v[1].txins) = 1
      /\ v[1].txins[1].key = TxoutKey(NoHash, Len(blocks))
  BY <1>1, CommitShape
<1>3. v[1] = GenerateCoinbase(AddressOf("genesis"), Len(blocks))
  BY <1>1, NewTransShape DEF Linked
<1>4. PICK c : c = v[1]
  OBVIOUS
<1>5. IsTransaction(c)
  BY <1>2, <1>4
<1>6. /\ Len(c.txouts) = 1
      /\ c.txouts[1].address = AddressOf("genesis") /\ c.txouts[1].amount = GetCoinbase
  BY <1>3, <1>4, CoinbaseOutputs
<1>7. PICK o : o = OutputsOf(c, 1)
  OBVIOUS
<1>8. /\ IsSeq(o) /\ Len(o) = Len(c.txouts)
      /\ \A m \in 1 .. Len(c.txouts) : /\ o[m].address = c.txouts[m].address
                                       /\ o[m].amount = c.txouts[m].amount
  BY <1>5, <1>7, OutputFields
<1>9. /\ IsSeq(o) /\ Len(o) = 1
      /\ o[1].address = AddressOf("genesis") /\ o[1].amount = GetCoinbase
  BY <1>6, <1>8
<1> QED BY <1>1, <1>2, <1>4, <1>7, <1>9

(* Nothing waits: a second coinbase comes before the first.                *)
LEMMA CommitAlone ==
  ASSUME Linked, Digested, Unmined, pool = << >>, NEW ts \in Timestamps, CommitBlock(ts)
  PROVE  /\ IsSeq(utxouts') /\ Len(utxouts') = 2
         /\ utxouts'[1].address = AddressOf("genesis") /\ utxouts'[1].amount = GetCoinbase
         /\ utxouts'[2] = utxouts[1]
<1>1. PICK v, o : v = NewTrans /\ o = OutputsOf(NewTrans[1], 1)
  OBVIOUS
<1>2. /\ utxouts' = UpdateUnspentTxout(v, utxouts)
      /\ IsSeq(v) /\ Len(v) = Len(pool) + 1
      /\ \A i \in 1 .. Len(v) : IsTransaction(v[i])
      /\ Len(v[1].txins) = 1 /\ v[1].txins[1].key = TxoutKey(NoHash, Len(blocks))
      /\ IsSeq(o) /\ Len(o) = 1
      /\ o[1].address = AddressOf("genesis") /\ o[1].amount = GetCoinbase
  BY <1>1, CommitCoinbase
<1>3. IsSeq(utxouts) /\ Len(utxouts) = 1 /\ DOMAIN utxouts = 1 .. 1
  BY SeqShape DEF Unmined
<1>4. Len(v) = 1 /\ IsTransaction(v[1]) /\ DOMAIN v = 1 .. 1
  <2>1. Len(v) = 1
    BY <1>2, EmptyShape
  <2> QED BY <1>2, <2>1, SeqShape
<1>5. NewUnspent(v) = o
  BY <1>1, <1>2, <1>4, CreatedByOne
<1>6. utxouts[1].key \notin SpentKeys(v)
  <2>1. utxouts[1].key.tx_id # NoHash
    BY <1>3 DEF Digested
  <2>2. DOMAIN v[1].txins = 1 .. 1
    BY <1>2, <1>4, SeqShape DEF IsTransaction
  <2>3. ASSUME NEW p \in InputPlaces(v) PROVE KeyAt(v, p).tx_id = NoHash
    <3>1. PICK n \in DOMAIN v : \E i \in DOMAIN v[n].txins : p = << n, i >>
      BY InputPlace
    <3>2. PICK i \in DOMAIN v[n].txins : p = << n, i >>
      BY <3>1
    <3>3. n = 1 /\ i = 1
      BY <1>4, <2>2
    <3>4. KeyAt(v, p) = TxoutKey(NoHash, Len(blocks))
      BY <1>2, <3>2, <3>3 DEF KeyAt
    <3> QED BY <3>4 DEF TxoutKey
  <2> QED BY <2>1, <2>3 DEF SpentKeys
<1> DEFINE I == { i \in DOMAIN utxouts : utxouts[i].key \notin SpentKeys(v) }
<1>7. I = DOMAIN utxouts
  <2>1. \A i \in 1 .. 1 : i = 1
    OBVIOUS
  <2> QED BY <1>3, <1>6, <2>1
<1>8. utxouts' = o \o utxouts
  <2>1. utxouts' = NewUnspent(v) \o Subsequence(utxouts, I)
    BY <1>2 DEF UpdateUnspentTxout
  <2> HIDE DEF I
  <2> QED BY <1>3, <1>5, <1>7, <2>1, SubsequenceAll
<1>9. /\ IsSeq(o \o utxouts) /\ Len(o \o utxouts) = Len(o) + Len(utxouts)
      /\ \A i \in 1 .. Len(o) + Len(utxouts) :
           (o \o utxouts)[i] = IF i <= Len(o) THEN o[i] ELSE utxouts[i - Len(o)]
  BY <1>2, <1>3, ConcatShape
<1>10. PICK r : r = o \o utxouts
  OBVIOUS
<1>11. IsSeq(r) /\ Len(r) = 2 /\ r[1] = o[1] /\ r[2] = utxouts[1]
  BY <1>2, <1>3, <1>9, <1>10
<1> QED BY <1>2, <1>8, <1>10, <1>11

(* The transfer waits: its outputs come after the coinbase, and the output *)
(* it takes is gone.                                                       *)
LEMMA CommitMove ==
  ASSUME Linked, Unmined, IsSeq(pool), Len(pool) = 1, IsMove(pool[1], utxouts[1]),
         NEW ts \in Timestamps, CommitBlock(ts)
  PROVE  /\ IsSeq(utxouts') /\ Len(utxouts') = 3
         /\ utxouts'[1].address = AddressOf("genesis") /\ utxouts'[1].amount = GetCoinbase
         /\ utxouts'[2].address = AddressOf(W1) /\ utxouts'[2].amount = amount
         /\ utxouts'[3].address = GetAddress(GenesisKey)
         /\ utxouts'[3].amount = GetCoinbase - amount
<1>1. PICK v, o, t, q : /\ v = NewTrans /\ o = OutputsOf(NewTrans[1], 1)
                        /\ t = pool[1] /\ q = OutputsOf(t, 2)
  OBVIOUS
<1>2. /\ utxouts' = UpdateUnspentTxout(v, utxouts)
      /\ IsSeq(v) /\ Len(v) = Len(pool) + 1
      /\ \A i \in 1 .. Len(v) : IsTransaction(v[i])
      /\ \A i \in 2 .. Len(v) : v[i] = pool[i - 1]
      /\ IsSeq(o) /\ Len(o) = 1
      /\ o[1].address = AddressOf("genesis") /\ o[1].amount = GetCoinbase
  BY <1>1, CommitCoinbase
<1>3. IsSeq(utxouts) /\ Len(utxouts) = 1 /\ DOMAIN utxouts = 1 .. 1
  BY SeqShape DEF Unmined
<1>4. Len(v) = 2 /\ DOMAIN v = 1 .. 2 /\ IsTransaction(v[1]) /\ IsTransaction(v[2]) /\ v[2] = t
  <2>1. Len(v) = 2
    BY <1>2
  <2>2. v[2] = pool[2 - 1] /\ 2 - 1 = 1
    BY <1>2, <2>1
  <2> QED BY <1>1, <1>2, <2>1, <2>2, SeqShape
<1>5. IsMove(t, utxouts[1])
  BY <1>1
<1>6. NewUnspent(v) = o \o q
  BY <1>1, <1>2, <1>4, CreatedByTwo
<1>7. /\ IsSeq(q) /\ Len(q) = 2
      /\ q[1].address = AddressOf(W1) /\ q[1].amount = amount
      /\ q[2].address = GetAddress(GenesisKey) /\ q[2].amount = GetCoinbase - amount
  <2>1. /\ IsSeq(q) /\ Len(q) = Len(t.txouts)
        /\ \A m \in 1 .. Len(t.txouts) : /\ q[m].address = t.txouts[m].address
                                         /\ q[m].amount = t.txouts[m].amount
    BY <1>1, <1>4, OutputFields
  <2> QED BY <1>5, <2>1 DEF IsMove
<1>8. utxouts[1].key \in SpentKeys(v)
  <2>1. DOMAIN t.txins = 1 .. 1
    BY <1>4, <1>5, SeqShape DEF IsTransaction, IsMove
  <2>2. << 2, 1 >> \in InputPlaces(v)
    BY <1>4, <2>1 DEF InputPlaces
  <2>3. KeyAt(v, << 2, 1 >>) = utxouts[1].key
    BY <1>4, <1>5 DEF KeyAt, IsMove
  <2> QED BY <2>2, <2>3 DEF SpentKeys
<1> DEFINE I == { i \in DOMAIN utxouts : utxouts[i].key \notin SpentKeys(v) }
<1>9. I = {}
  <2>1. \A i \in 1 .. 1 : i = 1
    OBVIOUS
  <2> QED BY <1>3, <1>8, <2>1
<1>10. /\ IsSeq(o \o q) /\ Len(o \o q) = Len(o) + Len(q)
       /\ \A i \in 1 .. Len(o) + Len(q) :
            (o \o q)[i] = IF i <= Len(o) THEN o[i] ELSE q[i - Len(o)]
  BY <1>2, <1>7, ConcatShape
<1>11. PICK r : r = o \o q
  OBVIOUS
<1>12. IsSeq(r) /\ Len(r) = 3 /\ r[1] = o[1] /\ r[2] = q[1] /\ r[3] = q[2]
  BY <1>2, <1>7, <1>10, <1>11
<1>13. utxouts' = r
  <2>1. utxouts' = NewUnspent(v) \o Subsequence(utxouts, I)
    BY <1>2 DEF UpdateUnspentTxout
  <2> HIDE DEF I
  <2>2. Subsequence(utxouts, I) = << >>
    BY <1>3, <1>9, SubsequenceNone
  <2>3. r \o << >> = r
    BY <1>12, ConcatEmptySeq DEF IsSeq
  <2> QED BY <1>6, <1>11, <2>1, <2>2, <2>3
<1> QED BY <1>2, <1>7, <1>12, <1>13

(***************************************************************************)
(* The inductive invariant of the demo program, by the calls it has made.  *)
(***************************************************************************)
Preparing == { "create_wallet", "amount", "create_transaction" }
Printing == { "print genesis", "print w1", "done" }

(* The wallet of w1 has a key of its own.                                  *)
WalletsMade ==
  /\ pc \in Preparing \cup { "commit_block" } \cup Printing
  /\ wallets["genesis"] = GenesisKey
  /\ pc = "create_wallet" => DOMAIN wallets = { "genesis", "node" }
  /\ pc # "create_wallet" => W1 \in DOMAIN wallets /\ wallets[W1] # GenesisKey

AmountMade ==
  /\ asked.whole \in Wholes /\ asked.fraction \in Fractions /\ amount \in Int
  /\ pc \notin { "create_wallet", "amount" } /\ Fits =>
       amount = asked.whole * SATOSHI_PER_COIN + asked.fraction

(* A transfer that was not refused waits, from then on.                    *)
TransferMade ==
  /\ pc \in Preparing => pool = << >>
  /\ pool # << >> => ~ Greater(amount, GetCoinbase)

MoveWaits == IsSeq(pool) /\ Len(pool) = 1 /\ IsMove(pool[1], utxouts[1])
NotMined == pc \notin Printing => Unmined /\ (pool = << >> \/ MoveWaits)

(* What the block moved from the genesis wallet to w1.                     *)
Shifted == IF pool = << >> \/ Len(blocks) = 1 THEN 0 ELSE amount
Mined ==
  pc \in Printing =>
    /\ Len(blocks) \in 1 .. 2
    /\ ZerosCounted => Len(blocks) = 2
    /\ Balance("genesis") = Len(blocks) * GetCoinbase - Shifted
    /\ Balance(W1) = Shifted

Printed ==
  /\ pc \in Preparing \cup { "commit_block", "print genesis" } => printed = << >>
  /\ pc = "print w1" => printed = << AsString(Balance("genesis")) >>
  /\ pc = "done" => printed = << AsString(Balance("genesis")), AsString(Balance(W1)) >>

DemoInv ==
  /\ Linked /\ Digested
  /\ WalletsMade /\ AmountMade /\ TransferMade
  /\ NotMined /\ Mined /\ Printed

LEMMA DemoInvInit == DemoInit => DemoInv
<1> SUFFICES ASSUME DemoInit PROVE DemoInv
  OBVIOUS
<1>1. /\ Init /\ pc = "create_wallet" /\ amount = 0 /\ printed = << >>
      /\ asked \in [whole : Wholes, fraction : Fractions]
  BY DEF DemoInit
<1>2. Linked /\ Digested /\ Unmined
  BY <1>1, LinkedInit, DigestedInit, UnminedInit
<1>3. /\ wallets["genesis"] = GenesisKey /\ DOMAIN wallets = { "genesis", "node" }
      /\ pool = << >>
  BY <1>1 DEF Init
<1>4. WalletsMade
  BY <1>1, <1>3 DEF WalletsMade, Preparing
<1>5. AmountMade
  BY <1>1 DEF AmountMade
<1>6. TransferMade /\ NotMined
  <2>1. TransferMade
    BY <1>3, Zenon DEF TransferMade
  <2>2. NotMined
    BY <1>2, <1>3, Zenon DEF NotMined
  <2> QED BY <2>1, <2>2
<1>7. Mined /\ Printed
  BY <1>1 DEF Mined, Printed, Printing
<1> QED BY <1>2, <1>4, <1>5, <1>6, <1>7 DEF DemoInv

LEMMA BalanceSame ==
  ASSUME utxouts' = utxouts, wallets' = wallets
  PROVE  \A name : Balance(name)' = Balance(name)
BY DEF Balance, CacheGroupBy, AddressOf

(* The key of w1 is one no wallet had: never that of the genesis wallet.   *)
LEMMA MakeWalletStep == DemoInv /\ MakeWallet => DemoInv'
<1> SUFFICES ASSUME DemoInv, MakeWallet PROVE DemoInv'
  OBVIOUS
<1>1. /\ pc = "create_wallet" /\ pc' = "amount" /\ CreateWallet(W1)
      /\ UNCHANGED << asked, amount, printed >> /\ UNCHANGED << blocks, utxouts, pool >>
  BY DEF MakeWallet, CreateWallet
<1>2. Linked' /\ Digested'
  <2>1. Next
    BY <1>1, DemoAssumption DEF Next, W1
  <2> QED BY <2>1, LinkedStep, DigestedStep DEF DemoInv
<1>3. PICK key \in Keys \ Range(wallets) :
        wallets' = [n \in DOMAIN wallets \cup { W1 } |->
                      IF n \in DOMAIN wallets THEN wallets[n] ELSE key]
  BY <1>1 DEF CreateWallet, Emplace
<1>4. wallets["genesis"] = GenesisKey /\ DOMAIN wallets = { "genesis", "node" }
  BY <1>1 DEF DemoInv, WalletsMade
<1>5. key # GenesisKey
  BY <1>3, <1>4 DEF Range
<1>6. WalletsMade'
  BY <1>1, <1>3, <1>4, <1>5 DEF WalletsMade, Preparing, W1
<1>7. AmountMade'
  BY <1>1 DEF DemoInv, AmountMade, Fits
<1>8. pool = << >> /\ Unmined
  BY <1>1 DEF DemoInv, TransferMade, NotMined, Preparing, Printing
<1>9. TransferMade' /\ NotMined'
  <2>1. pool' = << >> /\ Unmined'
    BY <1>1, <1>8 DEF Unmined
  <2>2. TransferMade'
    BY <2>1, Zenon DEF TransferMade
  <2>3. NotMined'
    BY <2>1, Zenon DEF NotMined
  <2> QED BY <2>2, <2>3
<1>10. Mined' /\ Printed'
  BY <1>1 DEF DemoInv, Mined, Printed, Printing, Preparing
<1> QED BY <1>2, <1>6, <1>7, <1>9, <1>10 DEF DemoInv

LEMMA Int32IsInt ==
  ASSUME NEW n \in Int
  PROVE  Int32(n) \in Int
<1>1. PICK m : m = INT32_MOD
  OBVIOUS
<1>2. m \in Nat \ {0}
  BY <1>1, Int32Assumption
<1>3. n % m \in Int
  BY <1>2
<1> QED BY <1>1, <1>2, <1>3 DEF Int32

(* What coin(int32) gives when the product fits, plus the satoshi.         *)
LEMMA MakeAmountStep == DemoInv /\ MakeAmount => DemoInv'
<1> SUFFICES ASSUME DemoInv, MakeAmount PROVE DemoInv'
  OBVIOUS
<1>1. /\ pc = "amount" /\ pc' = "create_transaction" /\ UNCHANGED vars
      /\ UNCHANGED << asked, printed >>
  BY DEF MakeAmount, vars
<1>2. Linked' /\ Digested'
  BY <1>1, LinkedStep, DigestedStep DEF DemoInv
<1>3. PICK coins \in CoinsOf(asked.whole) : amount' = coins + asked.fraction
  BY DEF MakeAmount
<1>4. PICK product : product = asked.whole * SATOSHI_PER_COIN
  OBVIOUS
<1>5. /\ product \in Int /\ asked.fraction \in Int
      /\ coins = Int32(product) \/ coins = product
  <2>1. asked.whole \in Int /\ asked.fraction \in Int
    BY DemoAssumption DEF DemoInv, AmountMade
  <2>2. SATOSHI_PER_COIN \in Int
    BY SatoshiAssumption
  <2>3. product \in Int
    BY <1>4, <2>1, <2>2
  <2> QED BY <1>3, <1>4, <2>1, <2>3 DEF CoinsOf
<1>6. AmountMade'
  <2>1. amount' \in Int
    BY <1>3, <1>5, Int32IsInt
  <2>2. Fits => coins = product
    BY <1>4, <1>5 DEF Fits
  <2>3. Fits' = Fits
    BY <1>1 DEF Fits
  <2>4. asked.whole \in Wholes /\ asked.fraction \in Fractions
    BY DEF DemoInv, AmountMade
  <2> QED BY <1>1, <1>3, <1>4, <2>1, <2>2, <2>3, <2>4 DEF AmountMade
<1>7. WalletsMade'
  BY <1>1 DEF DemoInv, WalletsMade, Preparing, vars
<1>8. pool = << >> /\ Unmined
  BY <1>1 DEF DemoInv, TransferMade, NotMined, Preparing, Printing
<1>9. TransferMade' /\ NotMined'
  <2>1. pool' = << >> /\ Unmined'
    BY <1>1, <1>8 DEF Unmined, vars
  <2>2. TransferMade'
    BY <2>1, Zenon DEF TransferMade
  <2>3. NotMined'
    BY <2>1, Zenon DEF NotMined
  <2> QED BY <2>2, <2>3
<1>10. Mined' /\ Printed'
  BY <1>1 DEF DemoInv, Mined, Printed, Printing, Preparing
<1> QED BY <1>2, <1>6, <1>7, <1>9, <1>10 DEF DemoInv

LEMMA MakeTransferStep == DemoInv /\ MakeTransfer => DemoInv'
<1> SUFFICES ASSUME DemoInv, MakeTransfer PROVE DemoInv'
  OBVIOUS
<1>1. /\ pc = "create_transaction" /\ pc' = "commit_block"
      /\ UNCHANGED << asked, amount, printed >>
      /\ IF Refused THEN UNCHANGED vars
                    ELSE CreateTransaction("genesis", AddressOf(W1), amount)
  BY DEF MakeTransfer, Genesis
<1>2. UNCHANGED << blocks, utxouts, wallets, status >>
  BY <1>1 DEF vars, CreateTransaction
<1>3. /\ pool = << >> /\ Unmined /\ Linked /\ Digested /\ amount \in Int
      /\ wallets["genesis"] = GenesisKey /\ W1 \in DOMAIN wallets
  BY <1>1 DEF DemoInv, TransferMade, NotMined, AmountMade, WalletsMade, Preparing, Printing
<1>4. WalletsMade'
  BY <1>1, <1>2 DEF DemoInv, WalletsMade
<1>5. AmountMade'
  BY <1>1 DEF DemoInv, AmountMade, Fits
<1>6. Mined' /\ Printed'
  BY <1>1 DEF DemoInv, Mined, Printed, Printing, Preparing
<1>7. Unmined' /\ Digested'
  BY <1>2, <1>3 DEF Unmined, Digested
<1>8. CASE pool' = pool
  <2>1. UNCHANGED vars
    BY <1>2, <1>8 DEF vars
  <2>2. Linked'
    BY <1>3, <2>1, LinkedStep
  <2>3. pool' = << >>
    BY <1>3, <1>8
  <2>4. TransferMade' /\ NotMined'
    <3>1. TransferMade'
      BY <2>3, Zenon DEF TransferMade
    <3>2. NotMined'
      BY <1>7, <2>3, Zenon DEF NotMined
    <3> QED BY <3>1, <3>2
  <2> QED BY <1>4, <1>5, <1>6, <1>7, <2>2, <2>4 DEF DemoInv
<1>9. CASE CreateTransaction("genesis", AddressOf(W1), amount)
  <2> DEFINE use == Selected("genesis", amount)
             t == Signed(Transfer("genesis", use, AddressOf(W1), amount), wallets["genesis"])
  <2>1. pool' = Append(pool, t) /\ ~ Greater(amount, Total(use))
    BY <1>9 DEF CreateTransaction
  <2>2. AddressOf(W1) \in Addresses
    BY <1>3 DEF Linked, TypeOK, WalletsTyped, AddressOf, Addresses
  <2>3. IsTransaction(t) /\ IsMove(t, utxouts[1])
    BY <1>3, <2>2, TransferMoves
  <2>4. ~ Greater(amount, GetCoinbase)
    BY <1>3, <2>1, SelectedIsAll
  <2> HIDE DEF t
  <2>5. PoolTyped'
    BY <1>3, <2>1, <2>3, AppendTyped DEF PoolTyped, Linked, TypeOK
  <2>6. Linked'
    BY <1>2, <1>3, <2>5
       DEF Linked, TypeOK, BlocksTyped, UtxosTyped, WalletsTyped, ChainLinked
  <2>7. IsSeq(pool') /\ Len(pool') = 1 /\ pool'[1] = t
    <3>1. IsSeq(pool) /\ Len(pool) = 0
      BY <1>3, EmptyShape
    <3>2. PICK p, k : p = pool /\ k = Len(pool) + 1
      OBVIOUS
    <3>3. k = 1 /\ IsSeq(p)
      BY <3>1, <3>2
    <3>4. /\ IsSeq(Append(p, t)) /\ Len(Append(p, t)) = k
          /\ Append(p, t)[k] = t
      BY <3>2, <3>3, AppendShape
    <3> QED BY <2>1, <3>2, <3>3, <3>4
  <2>8. IsMove(pool[1], utxouts[1])'
    BY <1>1, <1>2, <2>3, <2>7 DEF IsMove, AddressOf
  <2>9. NotMined'
    BY <1>7, <2>7, <2>8 DEF NotMined, MoveWaits
  <2>10. TransferMade'
    BY <1>1, <2>4 DEF TransferMade, Preparing
  <2> QED BY <1>4, <1>5, <1>6, <1>7, <2>6, <2>9, <2>10 DEF DemoInv
<1> QED BY <1>1, <1>8, <1>9 DEF vars

LEMMA TwoAddresses ==
  ASSUME WalletsMade, pc # "create_wallet"
  PROVE  /\ AddressOf("genesis") = GetAddress(GenesisKey)
         /\ AddressOf(W1) # GetAddress(GenesisKey)
BY DEF WalletsMade, AddressOf, GetAddress

LEMMA BalanceAfter ==
  ASSUME wallets' = wallets, NEW name
  PROVE  Balance(name)' = PaidIn(utxouts', AddressOf(name))
BY DEF Balance, PaidIn, Total, OutputsAt, CacheGroupBy, AddressOf

(* add() refuses the block, or takes it with what waits.                   *)
LEMMA MakeBlockStep == DemoInv /\ MakeBlock => DemoInv'
<1> SUFFICES ASSUME DemoInv, MakeBlock PROVE DemoInv'
  OBVIOUS
<1> DEFINE genesis == AddressOf("genesis")
           w1 == AddressOf(W1)
<1>1. PICK ts \in Timestamps :
        /\ GoodNonces(Candidate(ts), NewTrans) # {}
        /\ IF Addable(FindBlock(Candidate(ts), NewTrans))
           THEN CommitBlock(ts)
           ELSE UNCHANGED vars
  BY DEF MakeBlock
<1>2. /\ pc = "commit_block" /\ pc' = "print genesis"
      /\ UNCHANGED << asked, amount, printed >>
  BY DEF MakeBlock
<1>3. [Next]_vars /\ UNCHANGED << pool, wallets >>
  BY <1>1 DEF Next, CommitBlock, vars
<1>4. Linked' /\ Digested'
  BY <1>3, LinkedStep, DigestedStep DEF DemoInv
<1>5. WalletsMade'
  BY <1>2, <1>3 DEF DemoInv, WalletsMade, Printing
<1>6. AmountMade'
  BY <1>2 DEF DemoInv, AmountMade, Fits
<1>7. TransferMade'
  BY <1>2, <1>3 DEF DemoInv, TransferMade, Preparing
<1>8. NotMined' /\ Printed'
  BY <1>2 DEF DemoInv, NotMined, Printed, Printing
<1>9. /\ Linked /\ Digested /\ Unmined
      /\ pool = << >> \/ MoveWaits
      /\ amount \in Int /\ GetCoinbase \in Int
  <2>1. Linked /\ Digested /\ NotMined /\ AmountMade
    BY DEF DemoInv
  <2>2. pc \notin Printing
    BY <1>2 DEF Printing
  <2>3. Unmined /\ (pool = << >> \/ MoveWaits)
    BY <2>1, <2>2, Zenon DEF NotMined
  <2>4. amount \in Int /\ GetCoinbase \in Int
    BY <2>1, CoinbaseIsNat DEF AmountMade
  <2> QED BY <2>1, <2>3, <2>4
<1>10. genesis = GetAddress(GenesisKey) /\ w1 # genesis
  BY <1>2, TwoAddresses DEF DemoInv
<1>11. Mined' <=> /\ Len(blocks') \in 1 .. 2
                  /\ ZerosCounted => Len(blocks') = 2
                  /\ PaidIn(utxouts', genesis) = Len(blocks') * GetCoinbase - Shifted'
                  /\ PaidIn(utxouts', w1) = Shifted'
  <2>1. Balance("genesis")' = PaidIn(utxouts', genesis) /\ Balance(W1)' = PaidIn(utxouts', w1)
    BY <1>3, BalanceAfter
  <2>2. pc' \in Printing
    BY <1>2 DEF Printing
  <2> HIDE DEF genesis, w1
  <2> QED BY <2>1, <2>2 DEF Mined, ZerosCounted
<1> HIDE DEF genesis, w1
<1>12. CASE UNCHANGED vars /\ ~ Addable(FindBlock(Candidate(ts), NewTrans))
  <2>1. utxouts' = utxouts /\ Len(blocks') = 1
    BY <1>9, <1>12 DEF vars, Unmined
  <2>2. Shifted' = 0
    BY <2>1 DEF Shifted
  <2>3. ~ ZerosCounted
    <3>1. StaleIn(pool) = {} /\ ~ Jammed
      BY <1>9, EmptyPoolIsMinable, MoveIsMinable DEF MoveWaits
    <3>2. SUFFICES ASSUME ZerosCounted PROVE FALSE
      OBVIOUS
    <3>3. Addable(FindBlock(Candidate(ts), NewTrans))
      BY <1>1, <1>9, <3>1, <3>2, FoundIsAddable
    <3> QED BY <1>12, <3>3
  <2>4. PaidIn(utxouts, genesis) = GetCoinbase /\ PaidIn(utxouts, w1) = 0
    <3>1. PaidIn(utxouts, genesis) = Share(utxouts[1], genesis)
      BY <1>9, PaidOfOne DEF Unmined
    <3>2. PaidIn(utxouts, w1) = Share(utxouts[1], w1)
      BY <1>9, PaidOfOne DEF Unmined
    <3> QED BY <1>9, <1>10, <3>1, <3>2 DEF Share, Unmined
  <2>5. Mined'
    BY <1>9, <1>11, <2>1, <2>2, <2>3, <2>4
  <2> QED BY <1>4, <1>5, <1>6, <1>7, <1>8, <2>5 DEF DemoInv
<1>13. CASE CommitBlock(ts)
  <2>1. Len(blocks') = 2
    BY <1>9, <1>13, CommitCoinbase DEF Unmined
  <2>2. PICK u : u = utxouts'
    OBVIOUS
  <2>3. ASSUME pool = << >>
        PROVE  Mined'
    <3>1. /\ IsSeq(u) /\ Len(u) = 2
          /\ u[1].address = genesis /\ u[1].amount = GetCoinbase
          /\ u[2].address = genesis /\ u[2].amount = GetCoinbase
      BY <1>9, <1>10, <1>13, <2>2, <2>3, CommitAlone DEF Unmined, genesis
    <3>2. PaidIn(u, genesis) = Share(u[1], genesis) + Share(u[2], genesis)
      BY <1>9, <3>1, PaidOfTwo
    <3>3. PaidIn(u, w1) = Share(u[1], w1) + Share(u[2], w1)
      BY <1>9, <3>1, PaidOfTwo
    <3>4. PaidIn(u, genesis) = 2 * GetCoinbase /\ PaidIn(u, w1) = 0
      BY <1>9, <1>10, <3>1, <3>2, <3>3 DEF Share
    <3>5. Shifted' = 0
      BY <1>3, <2>3 DEF Shifted
    <3> QED BY <1>9, <1>11, <2>1, <2>2, <3>4, <3>5
  <2>4. ASSUME pool # << >>
        PROVE  Mined'
    <3>1. /\ IsSeq(u) /\ Len(u) = 3
          /\ u[1].address = genesis /\ u[1].amount = GetCoinbase
          /\ u[2].address = w1 /\ u[2].amount = amount
          /\ u[3].address = genesis /\ u[3].amount = GetCoinbase - amount
      BY <1>9, <1>10, <1>13, <2>2, <2>4, CommitMove DEF MoveWaits, genesis, w1
    <3>2. PaidIn(u, genesis)
            = Share(u[1], genesis) + Share(u[2], genesis) + Share(u[3], genesis)
      BY <1>9, <3>1, PaidOfThree
    <3>3. PaidIn(u, w1) = Share(u[1], w1) + Share(u[2], w1) + Share(u[3], w1)
      BY <1>9, <3>1, PaidOfThree
    <3>4. PaidIn(u, genesis) = 2 * GetCoinbase - amount /\ PaidIn(u, w1) = amount
      BY <1>9, <1>10, <3>1, <3>2, <3>3 DEF Share
    <3>5. Shifted' = amount
      <4>1. Len(blocks') # 1
        BY <2>1
      <4>2. pool' # << >> /\ amount' = amount
        BY <1>2, <1>3, <2>4
      <4> QED BY <4>1, <4>2, Zenon DEF Shifted
    <3> QED BY <1>9, <1>11, <2>1, <2>2, <3>4, <3>5
  <2> QED BY <1>4, <1>5, <1>6, <1>7, <1>8, <2>3, <2>4 DEF DemoInv
<1> QED BY <1>1, <1>12, <1>13

LEMMA AppendOne ==
  ASSUME NEW x, NEW y
  PROVE  Append(<< >>, x) = << x >> /\ Append(<< x >>, y) = << x, y >>
<1>1. IsSeq(<< x >>) /\ Len(<< x >>) = 1 /\ << x >>[1] = x
  <2>1. << x >> \in Seq({x}) /\ Len(<< x >>) = 1 /\ << x >>[1] = x
    OBVIOUS
  <2> QED BY <2>1, IsSeqOf
<1>2. /\ IsSeq(<< x, y >>) /\ Len(<< x, y >>) = 2
      /\ << x, y >>[1] = x /\ << x, y >>[2] = y
  <2>1. << x, y >> \in Seq({x, y}) /\ Len(<< x, y >>) = 2
        /\ << x, y >>[1] = x /\ << x, y >>[2] = y
    OBVIOUS
  <2> QED BY <2>1, IsSeqOf
<1>3. IsSeq(<< >>) /\ Len(<< >>) = 0
  BY EmptyShape
<1>4. PICK e, s, t : e = << >> /\ s = << x >> /\ t = << x, y >>
  OBVIOUS
<1>5. PICK u, v : u = Append(e, x) /\ v = Append(s, y)
  OBVIOUS
<1>6. IsSeq(u) /\ Len(u) = Len(e) + 1 /\ u[Len(e) + 1] = x
  BY <1>3, <1>4, <1>5, AppendShape
<1>7. IsSeq(v) /\ Len(v) = Len(s) + 1 /\ v[Len(s) + 1] = y
      /\ \A i \in 1 .. Len(s) : v[i] = s[i]
  BY <1>1, <1>4, <1>5, AppendShape
<1>8. u = s
  BY <1>1, <1>3, <1>4, <1>6, SameSeq
<1>9. v = t
  BY <1>1, <1>2, <1>4, <1>7, SameSeq
<1> QED BY <1>4, <1>5, <1>8, <1>9

(* What is printed is what the wallets hold from then on.                  *)
LEMMA PrintStep == DemoInv /\ (PrintGenesis \/ PrintW1) => DemoInv'
<1> SUFFICES ASSUME DemoInv, PrintGenesis \/ PrintW1 PROVE DemoInv'
  OBVIOUS
<1>1. /\ pc \in { "print genesis", "print w1" } /\ pc' \in { "print w1", "done" }
      /\ UNCHANGED vars /\ UNCHANGED << asked, amount >>
  BY DEF PrintGenesis, PrintW1, PrintBalance, vars
<1>2. Linked' /\ Digested'
  BY <1>1, LinkedStep, DigestedStep DEF DemoInv
<1>3. UNCHANGED << blocks, utxouts, pool, wallets >>
  BY <1>1 DEF vars
<1>4. WalletsMade'
  BY <1>1, <1>3 DEF DemoInv, WalletsMade, Printing
<1>5. AmountMade'
  BY <1>1 DEF DemoInv, AmountMade, Fits
<1>6. TransferMade'
  BY <1>1, <1>3 DEF DemoInv, TransferMade, Preparing
<1>7. NotMined'
  BY <1>1 DEF NotMined, Printing
<1>8. Balance("genesis")' = Balance("genesis") /\ Balance(W1)' = Balance(W1)
  BY <1>3, BalanceSame
<1>9. Mined'
  <2>1. Mined /\ pc \in Printing
    BY <1>1 DEF DemoInv, Printing
  <2> QED BY <1>1, <1>3, <1>8, <2>1 DEF Mined, Shifted
<1>10. Printed'
  <2>1. CASE PrintGenesis
    <3>1. printed = << >> /\ pc' = "print w1"
          /\ printed' = Append(printed, AsString(Balance("genesis")))
      BY <2>1 DEF DemoInv, Printed, PrintGenesis, PrintBalance, Genesis
    <3>2. PICK x : x = AsString(Balance("genesis"))
      OBVIOUS
    <3>3. printed' = << x >>
      BY <3>1, <3>2, AppendOne
    <3>4. AsString(Balance("genesis"))' = x
      BY <1>8, <3>2 DEF AsString
    <3> QED BY <3>1, <3>3, <3>4 DEF Printed, Preparing
  <2>2. CASE PrintW1
    <3>1. printed = << AsString(Balance("genesis")) >> /\ pc' = "done"
          /\ printed' = Append(printed, AsString(Balance(W1)))
      BY <2>2 DEF DemoInv, Printed, PrintW1, PrintBalance
    <3>2. PICK x, y : x = AsString(Balance("genesis")) /\ y = AsString(Balance(W1))
      OBVIOUS
    <3>3. printed' = << x, y >>
      BY <3>1, <3>2, AppendOne
    <3>4. AsString(Balance("genesis"))' = x /\ AsString(Balance(W1))' = y
      BY <1>8, <3>2 DEF AsString
    <3> QED BY <3>1, <3>3, <3>4 DEF Printed, Preparing
  <2> QED BY <2>1, <2>2
<1> QED BY <1>2, <1>4, <1>5, <1>6, <1>7, <1>9, <1>10 DEF DemoInv

LEMMA DemoInvStep == DemoInv /\ [DemoNext]_demoVars => DemoInv'
<1> SUFFICES ASSUME DemoInv, [DemoNext]_demoVars PROVE DemoInv'
  OBVIOUS
<1>1. ASSUME UNCHANGED demoVars PROVE DemoInv'
  <2>1. UNCHANGED vars /\ UNCHANGED << blocks, utxouts, pool, wallets >>
        /\ UNCHANGED << pc, asked, amount, printed >>
    BY <1>1 DEF demoVars, vars
  <2>2. Linked' /\ Digested'
    BY <2>1, LinkedStep, DigestedStep DEF DemoInv
  <2>3. Balance("genesis")' = Balance("genesis") /\ Balance(W1)' = Balance(W1)
    BY <2>1, BalanceSame
  <2>4. WalletsMade' /\ AmountMade' /\ TransferMade'
    BY <2>1 DEF DemoInv, WalletsMade, AmountMade, TransferMade, Fits
  <2>5. NotMined'
    BY <2>1 DEF DemoInv, NotMined, Unmined, MoveWaits, IsMove, AddressOf
  <2>6. Mined'
    BY <2>1, <2>3 DEF DemoInv, Mined, Shifted
  <2>7. Printed'
    BY <2>1, <2>3 DEF DemoInv, Printed, AsString
  <2> QED BY <2>2, <2>4, <2>5, <2>6, <2>7 DEF DemoInv
<1> QED BY <1>1, MakeWalletStep, MakeAmountStep, MakeTransferStep, MakeBlockStep, PrintStep
        DEF DemoNext

LEMMA DemoInvAlways == DemoSpec => []DemoInv
<1>1. DemoInit => DemoInv
  BY DemoInvInit
<1>2. DemoInv /\ [DemoNext]_demoVars => DemoInv'
  BY DemoInvStep
<1> QED BY <1>1, <1>2, PTL DEF DemoSpec

(* NothingFromNothing: what coin(int32) holds, and whether the transfer    *)
(* was refused or the block added, make no difference to the sum.  It asks *)
(* for nothing: coins that overflow and a digest that is never good enough *)
(* are among its cases.                                                    *)
THEOREM NothingIsLost == DemoSpec => []NothingFromNothing
<1>1. DemoInv => NothingFromNothing
  <2> SUFFICES ASSUME DemoInv, pc \in Printing
               PROVE  Balance(Genesis) + Balance(W1) = Len(blocks) * GetCoinbase
    BY DEF NothingFromNothing, Printing
  <2>1. /\ Len(blocks) \in 1 .. 2
        /\ Balance("genesis") = Len(blocks) * GetCoinbase - Shifted
        /\ Balance(W1) = Shifted
    BY DEF DemoInv, Mined
  <2>2. Shifted \in Int
    BY DEF DemoInv, AmountMade, Shifted
  <2>3. PICK c, k, m : c = GetCoinbase /\ k = Len(blocks) /\ m = Shifted
    OBVIOUS
  <2>4. c \in Int /\ k \in Int /\ m \in Int
    BY <2>1, <2>2, <2>3, CoinbaseIsNat
  <2>5. (k * c - m) + m = k * c
    BY <2>4
  <2> QED BY <2>1, <2>3, <2>5 DEF Genesis
<1>2. DemoSpec => []DemoInv
  BY DemoInvAlways
<1> QED BY <1>1, <1>2, PTL

(* What the numbers of main.cpp and of types.h are: coins and satoshi that *)
(* a person would ask for, and coinbases an int32 has room for.            *)
SmallNumbers ==
  /\ Wholes \subseteq Nat
  /\ Fractions \subseteq 0 .. SATOSHI_PER_COIN - 1
  /\ 4 * COINBASE < INT32_MOD

LEMMA Int32Keeps ==
  ASSUME NEW n \in Nat, 2 * n < INT32_MOD
  PROVE  Int32(n) = n
<1>1. PICK m : m = INT32_MOD
  OBVIOUS
<1>2. m \in Nat \ {0} /\ n < m
  BY <1>1, Int32Assumption
<1>3. n % m = n
  BY <1>2
<1> QED BY <1>1, <1>3 DEF Int32

LEMMA Int32KeepsOnly ==
  ASSUME NEW n \in Nat, Int32(n) = n
  PROVE  2 * n < INT32_MOD
<1>1. PICK m, low : m = INT32_MOD /\ low = n % m
  OBVIOUS
<1>2. m \in Nat \ {0}
  BY <1>1, Int32Assumption
<1>3. low \in 0 .. m - 1
  BY <1>1, <1>2
<1>4. Int32(n) = IF 2 * low < m THEN low ELSE low - m
  BY <1>1 DEF Int32
<1> QED BY <1>1, <1>2, <1>3, <1>4

LEMMA QuotientOf ==
  ASSUME NEW a \in Nat, NEW e \in Nat, e < SATOSHI_PER_COIN
  PROVE  /\ SATOSHI_PER_COIN * a + e \in Nat
         /\ Quotient(SATOSHI_PER_COIN * a + e) = a
<1>1. PICK d, r : d = SATOSHI_PER_COIN /\ r = d * a + e
  OBVIOUS
<1>2. d \in Nat \ {0} /\ e < d
  BY <1>1, SatoshiAssumption
<1>3. r \in Nat /\ r \div d = a
  BY <1>1, <1>2, QuotientIs
<1>4. Quotient(r) = r \div d
  BY <1>1, <1>3 DEF Quotient
<1> QED BY <1>1, <1>3, <1>4

(* A number of coins is not greater than another one through operator      *)
(* int32: then it is not above it by a coin.                               *)
LEMMA AskedIsSmall ==
  ASSUME NEW w \in Nat, NEW f \in Nat, f < SATOSHI_PER_COIN,
         Int32(w * SATOSHI_PER_COIN) = w * SATOSHI_PER_COIN,
         4 * COINBASE < INT32_MOD,
         NEW asks, asks = w * SATOSHI_PER_COIN + f, ~ Greater(asks, GetCoinbase)
  PROVE  asks \in Nat /\ asks <= 2 * GetCoinbase
<1>1. PICK S, C : S = SATOSHI_PER_COIN /\ C = COINBASE
  OBVIOUS
<1>2. S \in Nat \ {0} /\ C \in Nat \ {0} /\ f < S
  BY <1>1, SatoshiAssumption, CoinbaseAssumption
<1>3. PICK p : p = w * S
  OBVIOUS
<1>4. p \in Nat /\ w <= p
  BY <1>2, <1>3
<1>5. 2 * p < INT32_MOD
  BY <1>1, <1>3, <1>4, Int32KeepsOnly
<1>6. 2 * w < INT32_MOD
  <2>1. PICK m : m = INT32_MOD
    OBVIOUS
  <2>2. m \in Nat
    BY <2>1, Int32Assumption
  <2> QED BY <1>4, <1>5, <2>1, <2>2
<1>7. Get(asks) = w
  <2>1. asks = S * w + f
    BY <1>1, <1>2
  <2>2. Quotient(asks) = w
    BY <1>1, <1>2, <2>1, QuotientOf
  <2> QED BY <1>6, <2>2, Int32Keeps DEF Get
<1>8. GetCoinbase = C * S /\ C * S = S * C + 0
  BY <1>1, <1>2 DEF GetCoinbase
<1>9. Get(GetCoinbase) = C
  <2>1. Quotient(GetCoinbase) = C
    BY <1>1, <1>2, <1>8, QuotientOf
  <2>2. 2 * C < INT32_MOD
    <3>1. PICK m : m = INT32_MOD
      OBVIOUS
    <3>2. m \in Nat
      BY <3>1, Int32Assumption
    <3> QED BY <1>1, <1>2, <3>1, <3>2
  <2> QED BY <1>2, <2>1, <2>2, Int32Keeps DEF Get
<1>10. w <= C
  BY <1>2, <1>7, <1>9 DEF Greater
<1>11. p <= C * S
  BY <1>2, <1>3, <1>10
<1>12. S <= C * S
  BY <1>2
<1>13. asks = p + f
  BY <1>1, <1>3
<1>14. PICK k : k = C * S
  OBVIOUS
<1>15. k \in Nat
  BY <1>2, <1>14
<1> QED BY <1>2, <1>4, <1>8, <1>11, <1>12, <1>13, <1>14, <1>15

(* Up to two coinbases, a text reads as what it was made of.               *)
LEMMA ReadsBack ==
  ASSUME 4 * COINBASE < INT32_MOD, NEW x \in Nat, x <= 2 * GetCoinbase
  PROVE  ReadText(AsString(x)) = x
<1>1. PICK S, C, m : S = SATOSHI_PER_COIN /\ C = COINBASE /\ m = INT32_MOD
  OBVIOUS
<1>2. S \in Nat \ {0} /\ C \in Nat \ {0} /\ m \in Nat /\ 4 * C < m
  BY <1>1, SatoshiAssumption, CoinbaseAssumption, Int32Assumption
<1>3. x <= 2 * (C * S)
  BY <1>1 DEF GetCoinbase
<1>4. PICK q, r : q = x \div S /\ r = x % S
  OBVIOUS
<1>5. q \in Nat /\ r \in Nat /\ x = S * q + r
  BY <1>2, <1>4
<1>6. q <= 2 * C
  <2>1. SUFFICES ASSUME q >= 2 * C + 1 PROVE FALSE
    BY <1>2, <1>5
  <2>2. S * q >= S * (2 * C + 1)
    BY <1>2, <1>5, <2>1
  <2>3. S * (2 * C + 1) = 2 * (C * S) + S
    BY <1>2
  <2>4. PICK a, b : a = S * q /\ b = C * S
    OBVIOUS
  <2>5. a \in Nat /\ b \in Nat /\ a >= 2 * b + S
    BY <1>2, <1>5, <2>2, <2>3, <2>4
  <2> QED BY <1>2, <1>3, <1>5, <2>4, <2>5
<1>7. Quotient(x) = q
  BY <1>1, <1>4 DEF Quotient
<1>8. 2 * Quotient(x) < INT32_MOD
  BY <1>1, <1>2, <1>5, <1>6, <1>7
<1> QED BY <1>8, TextReads

(* PrintsWhatWasAsked: with numbers as small as those of main.cpp, and a   *)
(* digest that has a leading zero or none, whatever the chain has become.  *)
THEOREM PrintsAreRight ==
  ASSUME SmallNumbers, ZerosCounted
  PROVE  DemoSpec => []PrintsWhatWasAsked
<1>1. DemoInv => PrintsWhatWasAsked
  <2> SUFFICES ASSUME DemoInv, pc = "done", Fits
               PROVE  /\ ReadText(printed[1]) = 2 * GetCoinbase - Moved
                      /\ ReadText(printed[2]) = Moved
    BY DEF PrintsWhatWasAsked
  <2>1. /\ Len(blocks) = 2
        /\ Balance("genesis") = Len(blocks) * GetCoinbase - Shifted
        /\ Balance(W1) = Shifted
    BY DEF DemoInv, Mined, Printing
  <2>2. /\ printed = << AsString(Balance("genesis")), AsString(Balance(W1)) >>
    BY DEF DemoInv, Printed
  <2>3. /\ amount = asked.whole * SATOSHI_PER_COIN + asked.fraction
        /\ asked.whole \in Nat /\ asked.fraction \in 0 .. SATOSHI_PER_COIN - 1
    BY DEF DemoInv, AmountMade, SmallNumbers
  <2>4. pool # << >> => ~ Greater(amount, GetCoinbase)
    BY DEF DemoInv, TransferMade
  <2>5. Shifted = Moved
    <3>1. Len(blocks) # 1
      BY <2>1
    <3> QED BY <2>3, <3>1, Zenon DEF Shifted, Moved
  <2>6. PICK c, m : c = GetCoinbase /\ m = Moved
    OBVIOUS
  <2>7. c \in Nat /\ m \in Nat /\ m <= 2 * c
    <3>1. c \in Nat
      BY <2>6, CoinbaseIsNat
    <3>2. CASE pool = << >>
      <4>1. m = 0
        BY <2>6, <3>2 DEF Moved
      <4> QED BY <3>1, <4>1
    <3>3. CASE pool # << >>
      <4>1. m = amount
        BY <2>3, <2>6, <3>3 DEF Moved
      <4>2. PICK w, f : w = asked.whole /\ f = asked.fraction
        OBVIOUS
      <4>3. w \in Nat /\ f \in Nat /\ f < SATOSHI_PER_COIN
        BY <2>3, <4>2, SatoshiAssumption
      <4>4. /\ Int32(w * SATOSHI_PER_COIN) = w * SATOSHI_PER_COIN
            /\ amount = w * SATOSHI_PER_COIN + f
        BY <2>3, <4>2 DEF Fits
      <4>5. amount \in Nat /\ amount <= 2 * GetCoinbase
        BY <2>4, <3>3, <4>3, <4>4, AskedIsSmall DEF SmallNumbers
      <4> QED BY <2>6, <3>1, <4>1, <4>5
    <3> QED BY <3>2, <3>3
  <2>8. 2 * c - m \in Nat /\ 2 * c - m <= 2 * c
    BY <2>7
  <2>9. ReadText(AsString(2 * c - m)) = 2 * c - m /\ ReadText(AsString(m)) = m
    BY <2>6, <2>7, <2>8, ReadsBack DEF SmallNumbers
  <2>10. Balance("genesis") = 2 * c - m /\ Balance(W1) = m
    BY <2>1, <2>5, <2>6
  <2>11. printed[1] = AsString(2 * c - m) /\ printed[2] = AsString(m)
    BY <2>2, <2>10
  <2> QED BY <2>6, <2>9, <2>11
<1>2. DemoSpec => []DemoInv
  BY DemoInvAlways
<1> QED BY <1>1, <1>2, PTL
=============================================================================

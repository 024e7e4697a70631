---------------------------- MODULE FormatProofs ----------------------------
(***************************************************************************)
(* Lemmas about the number formatter, for every number: what a reader      *)
(* takes the text for is the number that was formatted.                    *)
(***************************************************************************)
EXTENDS Format, SequenceTheorems, WellFoundedInduction, TLAPS

(* A nonempty set of naturals has a least element.                         *)
LEMMA Least ==
  ASSUME NEW S \in SUBSET Nat, S # {}
  PROVE  \E x \in S : \A y \in S : x <= y
<1>. DEFINE R == {ss \in Nat \X Nat : ss[1] < ss[2]}
<1>1. IsWellFoundedOn(R, Nat)
  BY NatLessThanWellFounded, Zenon DEF OpToRel
<1>. HIDE DEF R
<1>2. PICK x \in S : \A y \in S : ~ (<<y, x>> \in R)
  BY WFMin, <1>1, Zenon
<1>3. \A y \in S : ~(y < x)
  BY <1>2 DEF R
<1>. QED BY <1>3

-----------------------------------------------------------------------------
(* The digits of a number.                                                 *)

(* A number's quotient by ten is smaller, its remainder a digit.           *)
LEMMA TenParts ==
  ASSUME NEW v \in Nat, v # 0
  PROVE  /\ v \div 10 \in Nat /\ v \div 10 < v /\ v \div 10 <= v - 1
         /\ v % 10 \in 0 .. 9
         /\ v = (v \div 10) * 10 + (v % 10)
OBVIOUS

(* The digits of the numbers up to n.                                      *)
Dividing(n, f) ==
  f = [v \in 0 .. n |-> IF v = 0 THEN <<>> ELSE <<v % 10>> \o f[v \div 10]]

(* How f gives the digits of a number.                                     *)
LEMMA DividingAt ==
  ASSUME NEW n \in Nat, NEW f, Dividing(n, f), NEW v \in 0 .. n
  PROVE  f[v] = IF v = 0 THEN <<>> ELSE <<v % 10>> \o f[v \div 10]
BY Zenon DEF Dividing

(* They exist.                                                             *)
LEMMA DividingExists == ASSUME NEW n \in Nat PROVE \E f : Dividing(n, f)
<1>. DEFINE Has(m) == \E f : Dividing(m, f)
            S == {m \in Nat : ~Has(m)}
<1>1. Has(0)
  <2>. DEFINE f == [v \in 0 .. 0 |-> <<>>]
  <2>1. f = [v \in 0 .. 0 |-> IF v = 0 THEN <<>>
                              ELSE <<v % 10>> \o f[v \div 10]]
    OBVIOUS
  <2>. HIDE DEF f
  <2>. QED BY <2>1 DEF Dividing
<1>2. ASSUME NEW m \in Nat, Has(m) PROVE Has(m + 1)
  <2>1. PICK f : Dividing(m, f)
    BY <1>2
  <2>. DEFINE g == [v \in 0 .. m + 1 |-> IF v = 0 THEN <<>>
                                         ELSE <<v % 10>> \o f[v \div 10]]
  <2>2. ASSUME NEW v \in 0 .. m PROVE g[v] = f[v]
    <3>1. v \in 0 .. m + 1
      OBVIOUS
    <3>2. g[v] = IF v = 0 THEN <<>> ELSE <<v % 10>> \o f[v \div 10]
      BY <3>1, Zenon
    <3>3. f[v] = IF v = 0 THEN <<>> ELSE <<v % 10>> \o f[v \div 10]
      BY <2>1, DividingAt
    <3>. HIDE DEF g
    <3>. QED BY <3>2, <3>3
  <2>3. \A v \in 0 .. m + 1 : v # 0 => g[v \div 10] = f[v \div 10]
    <3>1. \A v \in 0 .. m + 1 : v # 0 => v \div 10 \in 0 .. m
      OBVIOUS
    <3>. HIDE DEF g
    <3>. QED BY <2>2, <3>1, Zenon
  <2>4. g = [v \in 0 .. m + 1 |-> IF v = 0 THEN <<>>
                                  ELSE <<v % 10>> \o g[v \div 10]]
    <3>. HIDE DEF g
    <3>1. \A v \in 0 .. m + 1 :
            (IF v = 0 THEN <<>> ELSE <<v % 10>> \o f[v \div 10])
              = IF v = 0 THEN <<>> ELSE <<v % 10>> \o g[v \div 10]
      BY <2>3, Zenon
    <3>. QED BY <3>1, Zenon DEF g
  <2>. HIDE DEF g
  <2>. QED BY <2>4 DEF Dividing
<1>. HIDE DEF Has
<1>3. S = {}
  <2>. SUFFICES ASSUME S # {} PROVE FALSE
    OBVIOUS
  <2>1. PICK m \in S : \A y \in S : m <= y
    BY Least
  <2>2. m \in Nat /\ ~Has(m) /\ m # 0
    BY <1>1
  <2>3. m - 1 \in Nat /\ m - 1 \notin S /\ (m - 1) + 1 = m
    BY <2>1, <2>2
  <2>4. Has(m - 1)
    BY <2>3
  <2>. QED BY <1>2, <2>2, <2>3, <2>4
<1>4. Has(n)
  BY <1>3
<1>. QED BY <1>4 DEF Has

(* They do not depend on the limit.                                        *)
LEMMA DividingAgrees ==
  ASSUME NEW m \in Nat, NEW f, Dividing(m, f),
         NEW n \in Nat, NEW g, Dividing(n, g)
  PROVE  \A v \in Nat : v <= m /\ v <= n => f[v] = g[v]
<1>. DEFINE S == {v \in Nat : v <= m /\ v <= n /\ f[v] # g[v]}
<1>1. S = {}
  <2>. SUFFICES ASSUME S # {} PROVE FALSE
    OBVIOUS
  <2>1. PICK v \in S : \A y \in S : v <= y
    BY Least
  <2>2. v \in Nat /\ v <= m /\ v <= n /\ f[v] # g[v]
        /\ v \in 0 .. m /\ v \in 0 .. n
    OBVIOUS
  <2>3. /\ f[v] = IF v = 0 THEN <<>> ELSE <<v % 10>> \o f[v \div 10]
        /\ g[v] = IF v = 0 THEN <<>> ELSE <<v % 10>> \o g[v \div 10]
    BY <2>2, DividingAt
  <2>4. v # 0
    BY <2>2, <2>3
  <2>. DEFINE q == v \div 10
  <2>5. q \in Nat /\ q < v
    BY <2>2, <2>4, TenParts
  <2>. HIDE DEF q
  <2>6. q <= m /\ q <= n /\ q \notin S
    BY <2>1, <2>2, <2>5
  <2>7. f[q] = g[q]
    BY <2>5, <2>6
  <2>8. f[v] = g[v]
    BY <2>3, <2>4, <2>7 DEF q
  <2>. QED BY <2>2, <2>8
<1>. QED BY <1>1

(* So the recursion in Digits has a solution, and Digits is one.           *)
LEMMA DigitsAre ==
  \A v \in Nat : Digits[v] = IF v = 0 THEN <<>>
                             ELSE <<v % 10>> \o Digits[v \div 10]
<1>. DEFINE G(v) == CHOOSE f : Dividing(v, f)
            F == [v \in Nat |-> G(v)[v]]
<1>1. \A v \in Nat : Dividing(v, G(v))
  BY DividingExists
<1>. HIDE DEF G
<1>2. ASSUME NEW v \in Nat
      PROVE  G(v)[v] = IF v = 0 THEN <<>> ELSE <<v % 10>> \o F[v \div 10]
  <2>. DEFINE q == v \div 10
  <2>0. v \in 0 .. v
    OBVIOUS
  <2>1. G(v)[v] = IF v = 0 THEN <<>> ELSE <<v % 10>> \o G(v)[q]
    BY <1>1, <2>0, DividingAt, Zenon
  <2>2. CASE v = 0
    BY <2>1, <2>2
  <2>3. CASE v # 0
    <3>1. q \in Nat /\ q <= v /\ q <= q
      BY <2>3, TenParts
    <3>. HIDE DEF q
    <3>2. G(v)[q] = G(q)[q]
      BY <1>1, <3>1, DividingAgrees
    <3>3. F[q] = G(q)[q]
      BY <3>1
    <3>. HIDE DEF F
    <3>. QED BY <2>1, <2>3, <3>2, <3>3 DEF q
  <2>. QED BY <2>2, <2>3
<1>3. F = [v \in Nat |-> IF v = 0 THEN <<>> ELSE <<v % 10>> \o F[v \div 10]]
  <2>. DEFINE R(v) == IF v = 0 THEN <<>> ELSE <<v % 10>> \o F[v \div 10]
  <2>1. \A v \in Nat : G(v)[v] = R(v)
    BY <1>2
  <2>. HIDE DEF R
  <2>2. F = [v \in Nat |-> R(v)]
    BY <2>1, Zenon
  <2>. HIDE DEF F
  <2>. QED BY <2>2 DEF R
<1>. HIDE DEF F
<1>4. Digits = [v \in Nat |-> IF v = 0 THEN <<>>
                              ELSE <<v % 10>> \o Digits[v \div 10]]
  BY <1>3, Zenon DEF Digits
<1>. QED BY <1>4, Zenon

DecimalDigits == Seq(0 .. 9)

(* They are digits, and the last one, which is printed first, is not zero. *)
DigitsGood(v) ==
  /\ Digits[v] \in DecimalDigits
  /\ v = 0 => Digits[v] = <<>>
  /\ v # 0 => /\ Len(Digits[v]) >= 1
              /\ Digits[v][Len(Digits[v])] # 0

(* That is so for every number.                                            *)
LEMMA DigitsAreGood == \A v \in Nat : DigitsGood(v)
<1>. DEFINE S == {v \in Nat : ~DigitsGood(v)}
<1>1. S = {}
  <2>. SUFFICES ASSUME S # {} PROVE FALSE
    OBVIOUS
  <2>1. PICK v \in S : \A y \in S : v <= y
    BY Least
  <2>2. v \in Nat /\ ~DigitsGood(v)
    OBVIOUS
  <2>3. CASE v = 0
    <3>1. Digits[v] = <<>>
      BY <2>2, <2>3, DigitsAre
    <3>2. <<>> \in DecimalDigits
      BY DEF DecimalDigits
    <3>. QED BY <2>2, <2>3, <3>1, <3>2 DEF DigitsGood
  <2>4. CASE v # 0
    <3>. DEFINE q == v \div 10
                r == v % 10
                d == Digits[q]
    <3>1. q \in Nat /\ q < v /\ r \in 0 .. 9 /\ v = q * 10 + r
      BY <2>2, <2>4, TenParts
    <3>2. Digits[v] = <<r>> \o d
      BY <2>2, <2>4, DigitsAre
    <3>. HIDE DEF q, r, d
    <3>3. DigitsGood(q)
      BY <2>1, <2>2, <3>1
    <3>4. d \in DecimalDigits
      BY <3>3 DEF DigitsGood, d
    <3>5. /\ <<r>> \o d \in DecimalDigits /\ Len(<<r>> \o d) = Len(d) + 1
          /\ Len(d) \in Nat
      BY <3>1, <3>4 DEF DecimalDigits
    <3>6. (<<r>> \o d)[Len(d) + 1] # 0
      <4>1. CASE q = 0
        <5>1. d = <<>> /\ r # 0
          BY <2>4, <3>1, <3>3, <4>1 DEF DigitsGood, d
        <5>. QED BY <3>1, <5>1
      <4>2. CASE q # 0
        <5>1. Len(d) >= 1 /\ d[Len(d)] # 0
          BY <3>3, <4>2 DEF DigitsGood, d
        <5>2. (<<r>> \o d)[Len(d) + 1] = d[Len(d)]
          BY <3>1, <3>4, <3>5, <5>1 DEF DecimalDigits
        <5>. QED BY <5>1, <5>2
      <4>. QED BY <4>1, <4>2
    <3>7. Len(d) + 1 >= 1
      BY <3>5
    <3>. QED BY <2>2, <2>4, <3>2, <3>5, <3>6, <3>7 DEF DigitsGood
  <2>. QED BY <2>3, <2>4
<1>. QED BY <1>1

-----------------------------------------------------------------------------
(* Reading a text.                                                         *)

(* f holds the values of the text's first n beginnings.                    *)
Reads(text, base, n, f) ==
  /\ f[0] = 0
  /\ \A i \in 0 .. n - 1 : f[i + 1] = f[i] * base + DigitOf(text[i + 1])

(* The same, as the recursion in ReadAs defines them.                      *)
Reading(text, base, n, f) ==
  f = [i \in 0 .. n |-> IF i = 0 THEN 0 ELSE f[i - 1] * base + DigitOf(text[i])]

(* That recursion has a solution.                                          *)
LEMMA ReadingExists ==
  ASSUME NEW text, NEW base, NEW n \in Nat
  PROVE  \E f : Reading(text, base, n, f)
<1>. DEFINE Has(m) == \E f : Reading(text, base, m, f)
            R(f, i) == IF i = 0 THEN 0 ELSE f[i - 1] * base + DigitOf(text[i])
            S == {m \in Nat : ~Has(m)}
<1>1. Has(0)
  <2>. DEFINE f == [i \in 0 .. 0 |-> 0]
  <2>1. \A i \in 0 .. 0 : 0 = R(f, i)
    OBVIOUS
  <2>. HIDE DEF R
  <2>2. f = [i \in 0 .. 0 |-> R(f, i)]
    BY <2>1
  <2>. HIDE DEF f
  <2>. QED BY <2>2 DEF Reading, R
<1>2. ASSUME NEW m \in Nat, Has(m) PROVE Has(m + 1)
  <2>1. PICK f : Reading(text, base, m, f)
    BY <1>2
  <2>2. f = [i \in 0 .. m |-> R(f, i)]
    BY <2>1 DEF Reading
  <2>. DEFINE g == [i \in 0 .. m + 1 |-> R(f, i)]
  <2>3. ASSUME NEW i \in 0 .. m PROVE g[i] = f[i]
    <3>1. i \in 0 .. m + 1
      OBVIOUS
    <3>. HIDE DEF R
    <3>2. g[i] = R(f, i) /\ f[i] = R(f, i)
      BY <2>2, <3>1, Zenon
    <3>. HIDE DEF g
    <3>. QED BY <3>2
  <2>4. ASSUME NEW i \in 0 .. m + 1 PROVE R(f, i) = R(g, i)
    <3>1. i = 0 \/ i - 1 \in 0 .. m
      OBVIOUS
    <3>. HIDE DEF g
    <3>. QED BY <2>3, <3>1, Zenon
  <2>. HIDE DEF R
  <2>5. g = [i \in 0 .. m + 1 |-> R(g, i)]
    <3>. HIDE DEF g
    <3>. QED BY <2>4, Zenon DEF g
  <2>. HIDE DEF g
  <2>. QED BY <2>5 DEF Reading, R
<1>. HIDE DEF Has
<1>3. S = {}
  <2>. SUFFICES ASSUME S # {} PROVE FALSE
    OBVIOUS
  <2>1. PICK m \in S : \A y \in S : m <= y
    BY Least
  <2>2. m \in Nat /\ ~Has(m) /\ m # 0
    BY <1>1
  <2>3. m - 1 \in Nat /\ m - 1 \notin S /\ (m - 1) + 1 = m
    BY <2>1, <2>2
  <2>4. Has(m - 1)
    BY <2>3
  <2>. QED BY <1>2, <2>2, <2>3, <2>4
<1>4. Has(n)
  BY <1>3
<1>. QED BY <1>4 DEF Has

(* So ReadAs reads character by character.                                 *)
LEMMA ReadAsReads ==
  ASSUME NEW text, NEW base, Len(text) \in Nat
  PROVE  \E f : /\ Reads(text, base, Len(text), f)
                /\ ReadAs(text, base) = f[Len(text)]
<1>. DEFINE n == Len(text)
            f == CHOOSE g : Reading(text, base, n, g)
<1>1. ReadAs(text, base) = f[n]
  BY Zenon DEF ReadAs, Reading
<1>2. Reading(text, base, n, f)
  BY ReadingExists, Zenon
<1>. HIDE DEF f
<1>. DEFINE R(i) == IF i = 0 THEN 0 ELSE f[i - 1] * base + DigitOf(text[i])
<1>3. f = [i \in 0 .. n |-> R(i)]
  BY <1>2 DEF Reading
<1>4. f[0] = 0
  <2>1. f[0] = R(0)
    <3>1. 0 \in 0 .. n
      OBVIOUS
    <3>. HIDE DEF R
    <3>. QED BY <1>3, <3>1, Zenon
  <2>. QED BY <2>1
<1>5. ASSUME NEW i \in 0 .. n - 1
      PROVE  f[i + 1] = f[i] * base + DigitOf(text[i + 1])
  <2>1. i + 1 \in 0 .. n /\ i + 1 # 0 /\ (i + 1) - 1 = i
    OBVIOUS
  <2>2. f[i + 1] = R(i + 1)
    <3>. HIDE DEF R
    <3>. QED BY <1>3, <2>1, Zenon
  <2>. QED BY <2>1, <2>2, Zenon
<1>6. Reads(text, base, n, f)
  BY <1>4, <1>5, Zenon DEF Reads
<1>. QED BY <1>1, <1>6, Zenon

(* Texts with the same beginning have the same values up to there.         *)
LEMMA ReadsAgree ==
  ASSUME NEW base, NEW n \in Nat, NEW s, NEW f, Reads(s, base, n, f),
         NEW t, NEW g, Reads(t, base, n, g), \A i \in 1 .. n : s[i] = t[i]
  PROVE  f[n] = g[n]
<1>. DEFINE S == {i \in Nat : i <= n /\ f[i] # g[i]}
<1>1. S = {}
  <2>. SUFFICES ASSUME S # {} PROVE FALSE
    OBVIOUS
  <2>1. PICK m \in S : \A y \in S : m <= y
    BY Least
  <2>2. m \in Nat /\ m <= n /\ f[m] # g[m] /\ m # 0
    BY DEF Reads
  <2>. DEFINE k == m - 1
  <2>3. /\ k \in Nat /\ k <= n /\ k \notin S /\ k + 1 = m /\ k \in 0 .. n - 1
        /\ m \in 1 .. n
    BY <2>1, <2>2
  <2>. HIDE DEF k
  <2>4. f[k] = g[k]
    BY <2>3
  <2>5. /\ f[k + 1] = f[k] * base + DigitOf(s[k + 1])
        /\ g[k + 1] = g[k] * base + DigitOf(t[k + 1])
    BY <2>3, Zenon DEF Reads
  <2>6. s[k + 1] = t[k + 1]
    BY <2>3
  <2>7. f[k + 1] = g[k + 1]
    BY <2>4, <2>5, <2>6, Zenon
  <2>. QED BY <2>2, <2>3, <2>7
<1>. QED BY <1>1

(* One more character at the end of a text.                                *)
LEMMA ReadAsAppend ==
  ASSUME NEW S, NEW text \in Seq(S), NEW ch \in S, NEW base
  PROVE  ReadAs(text \o <<ch>>, base) = ReadAs(text, base) * base + DigitOf(ch)
<1>. DEFINE n == Len(text)
            t == text \o <<ch>>
<1>1. /\ n \in Nat /\ Len(t) = n + 1 /\ t[n + 1] = ch
      /\ \A i \in 1 .. n : t[i] = text[i]
  OBVIOUS
<1>. HIDE DEF t
<1>2. Len(t) \in Nat
  BY <1>1
<1>3. PICK f : Reads(t, base, n + 1, f) /\ ReadAs(t, base) = f[n + 1]
  BY <1>1, <1>2, ReadAsReads
<1>4. PICK g : Reads(text, base, n, g) /\ ReadAs(text, base) = g[n]
  BY <1>1, ReadAsReads
<1>5. Reads(t, base, n, f) /\ f[n + 1] = f[n] * base + DigitOf(t[n + 1])
  <2>1. n \in 0 .. (n + 1) - 1 /\ \A i \in 0 .. n - 1 : i \in 0 .. (n + 1) - 1
    BY <1>1
  <2>. HIDE DEF n
  <2>. QED BY <1>3, <2>1, Zenon DEF Reads
<1>6. f[n] = g[n]
  BY <1>1, <1>4, <1>5, ReadsAgree
<1>. QED BY <1>1, <1>3, <1>4, <1>5, <1>6 DEF t

(* The empty text.                                                         *)
LEMMA ReadAsNothing == ASSUME NEW base PROVE ReadAs(<<>>, base) = 0
<1>1. Len(<<>>) = 0 /\ Len(<<>>) \in Nat
  OBVIOUS
<1>2. PICK f : Reads(<<>>, base, Len(<<>>), f) /\ ReadAs(<<>>, base) = f[Len(<<>>)]
  BY <1>1, ReadAsReads
<1>. QED BY <1>1, <1>2 DEF Reads

(* A digit's character stands for that digit.                              *)
LEMMA DigitOfCharacter ==
  ASSUME NEW d \in 0 .. 15
  PROVE  DigitOf(Character(d)) = d /\ (Character(d) = "0" <=> d = 0)
<1>1. \A i, j \in 1 .. 16 : HexDigits[i] = HexDigits[j] => i = j
  BY DEF HexDigits
<1>2. DOMAIN HexDigits = 1 .. 16 /\ HexDigits[1] = "0"
  BY DEF HexDigits
<1>. HIDE DEF HexDigits
<1>. DEFINE n == d + 1
            c == CHOOSE i \in DOMAIN HexDigits : HexDigits[i] = HexDigits[n]
<1>3. n \in 1 .. 16 /\ n - 1 = d /\ (n = 1 <=> d = 0)
  OBVIOUS
<1>. HIDE DEF n
<1>4. c \in 1 .. 16 /\ HexDigits[c] = HexDigits[n]
  BY <1>2, <1>3
<1>. HIDE DEF c
<1>5. c = n
  BY <1>1, <1>3, <1>4
<1>6. DigitOf(Character(d)) = c - 1 /\ Character(d) = HexDigits[n]
  BY DEF DigitOf, Character, c, n
<1>7. HexDigits[n] = "0" <=> n = 1
  BY <1>1, <1>2, <1>3
<1>. QED BY <1>3, <1>5, <1>6, <1>7

-----------------------------------------------------------------------------
(* Decimal numbers.                                                        *)

DigitCharacters == {Character(d) : d \in 0 .. 9}

(* The characters of the digits, the last one first.                       *)
Backwards(d) == [i \in 1 .. Len(d) |-> Character(d[Len(d) + 1 - i])]

(* The loop's digits, and what is printed of them.                         *)
DecimalOf(v) == IF v = 0 THEN <<0>> ELSE Digits[v]
Numeral(v) == Backwards(DecimalOf(v))

(* The characters are digits, as many.                                     *)
LEMMA BackwardsType ==
  ASSUME NEW d \in DecimalDigits
  PROVE  /\ Backwards(d) \in Seq(DigitCharacters)
         /\ Len(Backwards(d)) = Len(d)
         /\ \A i \in 1 .. Len(d) :
              /\ Len(d) + 1 - i \in 1 .. Len(d)
              /\ d[Len(d) + 1 - i] \in 0 .. 9
              /\ Backwards(d)[i] = Character(d[Len(d) + 1 - i])
<1>. DEFINE m == Len(d)
            C(i) == Character(d[m + 1 - i])
<1>1. m \in Nat /\ \A i \in 1 .. m : d[i] \in 0 .. 9
  BY DEF DecimalDigits
<1>2. \A i \in 1 .. m : m + 1 - i \in 1 .. m
  BY <1>1
<1>3. \A i \in 1 .. m : d[m + 1 - i] \in 0 .. 9
  BY <1>1, <1>2
<1>4. \A i \in 1 .. m : C(i) \in DigitCharacters
  BY <1>3, Zenon DEF DigitCharacters
<1>5. Backwards(d) = [i \in 1 .. m |-> C(i)]
  BY DEF Backwards
<1>. HIDE DEF C, m
<1>6. Backwards(d) \in Seq(DigitCharacters)
  BY <1>1, <1>4, <1>5, IsASeq
<1>7. Len(Backwards(d)) = m
  BY <1>1, <1>5
<1>8. \A i \in 1 .. m : Backwards(d)[i] = C(i)
  BY <1>5
<1>. QED BY <1>2, <1>3, <1>6, <1>7, <1>8 DEF C, m

(* One more digit in front is one more character at the end.               *)
LEMMA BackwardsStep ==
  ASSUME NEW d \in DecimalDigits, NEW r \in 0 .. 9
  PROVE  Backwards(<<r>> \o d) = Backwards(d) \o <<Character(r)>>
<1>. DEFINE m == Len(d)
            e == <<r>> \o d
            s == Backwards(e)
            t == Backwards(d) \o <<Character(r)>>
<1>1. /\ m \in Nat /\ e \in DecimalDigits /\ Len(e) = m + 1 /\ e[1] = r
      /\ \A i \in 1 .. m : e[i + 1] = d[i]
  BY DEF DecimalDigits
<1>. HIDE DEF e
<1>2. /\ s \in Seq(DigitCharacters) /\ Len(s) = m + 1
      /\ \A i \in 1 .. m + 1 : s[i] = Character(e[(m + 1) + 1 - i])
  BY <1>1, BackwardsType
<1>3. /\ Backwards(d) \in Seq(DigitCharacters) /\ Len(Backwards(d)) = m
      /\ \A i \in 1 .. m : /\ m + 1 - i \in 1 .. m
                           /\ Backwards(d)[i] = Character(d[m + 1 - i])
  BY BackwardsType
<1>4. Character(r) \in DigitCharacters
  BY Zenon DEF DigitCharacters
<1>. DEFINE b == Backwards(d)
            ch == Character(r)
<1>. HIDE DEF b, ch
<1>5. /\ t \in Seq(DigitCharacters) /\ Len(t) = m + 1 /\ t[m + 1] = ch
      /\ \A i \in 1 .. m : t[i] = b[i]
  <2>1. b \in Seq(DigitCharacters) /\ Len(b) = m /\ ch \in DigitCharacters
        /\ t = b \o <<ch>>
    BY <1>3, <1>4 DEF b, ch
  <2>. HIDE DEF t
  <2>. QED BY <2>1
<1>. HIDE DEF s, t, m
<1>6. ASSUME NEW i \in 1 .. m + 1 PROVE s[i] = t[i]
  <2>1. CASE i = m + 1
    <3>1. (m + 1) + 1 - i = 1
      BY <1>1, <2>1
    <3>2. s[i] = Character(r)
      BY <1>1, <1>2, <3>1
    <3>. QED BY <1>5, <2>1, <3>2 DEF ch
  <2>2. CASE i # m + 1
    <3>. DEFINE k == m + 1 - i
    <3>1. i \in 1 .. m /\ (m + 1) + 1 - i = k + 1
      BY <1>1, <2>2
    <3>2. k \in 1 .. m /\ b[i] = Character(d[k])
      BY <1>3, <3>1 DEF b
    <3>. HIDE DEF k
    <3>3. s[i] = Character(e[k + 1]) /\ e[k + 1] = d[k]
      BY <1>1, <1>2, <3>1, <3>2
    <3>. QED BY <1>5, <3>1, <3>2, <3>3
  <2>. QED BY <2>1, <2>2
<1>7. s = t
  BY <1>1, <1>2, <1>5, <1>6, SeqEqual
<1>. QED BY <1>7 DEF s, t, e

(* The digits of a number read as that number.                             *)
LEMMA DigitsRead == \A v \in Nat : ReadAs(Backwards(Digits[v]), 10) = v
<1>. DEFINE S == {v \in Nat : ReadAs(Backwards(Digits[v]), 10) # v}
<1>1. S = {}
  <2>. SUFFICES ASSUME S # {} PROVE FALSE
    OBVIOUS
  <2>1. PICK v \in S : \A y \in S : v <= y
    BY Least
  <2>2. v \in Nat /\ ReadAs(Backwards(Digits[v]), 10) # v
    OBVIOUS
  <2>3. CASE v = 0
    <3>1. Digits[v] = <<>>
      BY <2>2, <2>3, DigitsAre
    <3>2. Backwards(<<>>) = <<>>
      BY DEF Backwards
    <3>. QED BY <2>2, <2>3, <3>1, <3>2, ReadAsNothing
  <2>4. CASE v # 0
    <3>. DEFINE q == v \div 10
                r == v % 10
                d == Digits[q]
                b == Backwards(d)
                x == ReadAs(b, 10)
                ch == Character(r)
    <3>1. q \in Nat /\ q < v /\ r \in 0 .. 9 /\ v = q * 10 + r
      BY <2>2, <2>4, TenParts
    <3>2. Digits[v] = <<r>> \o d
      BY <2>2, <2>4, DigitsAre
    <3>3. d \in DecimalDigits
      BY <3>1, DigitsAreGood DEF DigitsGood
    <3>. HIDE DEF q, r, d
    <3>4. Backwards(Digits[v]) = b \o <<ch>>
      BY <3>1, <3>2, <3>3, BackwardsStep
    <3>5. b \in Seq(DigitCharacters) /\ ch \in DigitCharacters
      BY <3>1, <3>3, BackwardsType, Zenon DEF DigitCharacters
    <3>6. DigitOf(ch) = r
      BY <3>1, DigitOfCharacter
    <3>7. x = q
      BY <2>1, <2>2, <3>1 DEF d
    <3>. HIDE DEF b, ch, x
    <3>8. ReadAs(b \o <<ch>>, 10) = x * 10 + DigitOf(ch)
      BY <3>5, ReadAsAppend DEF x
    <3>. QED BY <2>2, <3>1, <3>4, <3>6, <3>7, <3>8
  <2>. QED BY <2>3, <2>4
<1>. QED BY <1>1

(* The digits that are printed are digits.                                 *)
LEMMA DecimalOfType ==
  ASSUME NEW v \in Nat
  PROVE  /\ DecimalOf(v) \in DecimalDigits /\ Len(DecimalOf(v)) \in Nat
         /\ Len(DecimalOf(v)) >= 1
         /\ v # 0 => DecimalOf(v)[Len(DecimalOf(v))] # 0
<1>1. CASE v = 0
  <2>1. DecimalOf(v) = <<0>>
    BY <1>1 DEF DecimalOf
  <2>2. <<0>> \in DecimalDigits /\ Len(<<0>>) = 1
    BY DEF DecimalDigits
  <2>. QED BY <1>1, <2>1, <2>2
<1>2. CASE v # 0
  <2>1. DecimalOf(v) = Digits[v]
    BY <1>2 DEF DecimalOf
  <2>2. /\ Digits[v] \in DecimalDigits /\ Len(Digits[v]) >= 1
        /\ Digits[v][Len(Digits[v])] # 0
    BY <1>2, DigitsAreGood DEF DigitsGood
  <2>3. Len(Digits[v]) \in Nat
    BY <2>2 DEF DecimalDigits
  <2>. QED BY <2>1, <2>2, <2>3
<1>. QED BY <1>1, <1>2

(* A printed number reads as that number, has digits only and begins with  *)
(* a zero only if it is zero.                                              *)
LEMMA NumeralIsDecimal ==
  ASSUME NEW v \in Nat
  PROVE  /\ IsDecimalFor(Numeral(v), v) /\ Numeral(v) \in Seq(DigitCharacters)
         /\ Len(Numeral(v)) = Len(DecimalOf(v))
<1>. DEFINE d == DecimalOf(v)
            m == Len(d)
            t == Numeral(v)
<1>1. d \in DecimalDigits /\ m \in Nat /\ m >= 1 /\ (v # 0 => d[m] # 0)
  BY DecimalOfType
<1>2. t = Backwards(d)
  BY DEF Numeral
<1>3. v = 0 => d = <<0>>
  BY DEF DecimalOf
<1>4. v # 0 => d = Digits[v]
  BY DEF DecimalOf
<1>. HIDE DEF d, t
<1>5. /\ t \in Seq(DigitCharacters) /\ Len(t) = m
      /\ \A i \in 1 .. m : /\ m + 1 - i \in 1 .. m /\ d[m + 1 - i] \in 0 .. 9
                           /\ t[i] = Character(d[m + 1 - i])
  BY <1>1, <1>2, BackwardsType
<1>6. ReadAs(t, 10) = v
  <2>1. CASE v = 0
    <3>1. t = <<>> \o <<Character(0)>>
      <4>1. <<0>> = <<0>> \o <<>> /\ <<>> \in DecimalDigits /\ Backwards(<<>>) = <<>>
        BY DEF DecimalDigits, Backwards
      <4>2. 0 \in 0 .. 9
        OBVIOUS
      <4>3. Backwards(<<0>> \o <<>>) = Backwards(<<>>) \o <<Character(0)>>
        BY <4>1, <4>2, BackwardsStep
      <4>. QED BY <1>2, <1>3, <2>1, <4>1, <4>3
    <3>2. <<>> \in Seq({Character(0)})
      OBVIOUS
    <3>3. ReadAs(<<>> \o <<Character(0)>>, 10)
            = ReadAs(<<>>, 10) * 10 + DigitOf(Character(0))
      BY <3>2, ReadAsAppend
    <3>4. ReadAs(<<>>, 10) = 0 /\ DigitOf(Character(0)) = 0
      BY ReadAsNothing, DigitOfCharacter
    <3>. QED BY <2>1, <3>1, <3>3, <3>4
  <2>2. CASE v # 0
    BY <1>2, <1>4, <2>2, DigitsRead
  <2>. QED BY <2>1, <2>2
<1>7. ASSUME NEW i \in 1 .. m PROVE DigitOf(t[i]) < 10
  <2>. DEFINE e == d[m + 1 - i]
  <2>1. e \in 0 .. 9 /\ t[i] = Character(e)
    BY <1>5
  <2>. HIDE DEF e
  <2>2. DigitOf(Character(e)) = e
    BY <2>1, DigitOfCharacter
  <2>. QED BY <2>1, <2>2
<1>8. ASSUME m > 1 PROVE t[1] # "0"
  <2>1. v # 0
    <3>1. Len(<<0>>) = 1
      OBVIOUS
    <3>2. v = 0 => m = 1
      BY <1>3, <3>1, Zenon
    <3>. QED BY <1>8, <3>2
  <2>2. 1 \in 1 .. m /\ m + 1 - 1 = m
    BY <1>1
  <2>3. d[m] \in 0 .. 9 /\ t[1] = Character(d[m]) /\ d[m] # 0
    BY <1>1, <1>5, <2>1, <2>2
  <2>. DEFINE e == d[m]
  <2>. HIDE DEF e
  <2>4. Character(e) # "0"
    BY <2>3, DigitOfCharacter DEF e
  <2>. QED BY <2>3, <2>4 DEF e
<1>9. DOMAIN t = 1 .. m /\ t # <<>>
  BY <1>1, <1>5
<1>10. IsDecimalFor(t, v)
  BY <1>5, <1>6, <1>7, <1>8, <1>9 DEF IsDecimalFor
<1>. QED BY <1>5, <1>10 DEF t, d

(* What the function returns when its buffer is large enough.              *)
LEMMA DecimalIsNumeral ==
  ASSUME NEW v \in Nat, NEW size \in Nat, Len(DecimalOf(v)) < size
  PROVE  /\ kformat_uint32_decimal(v, size) = Numeral(v)
         /\ kformat_uint64_decimal(v, size) = Numeral(v)
<1>. DEFINE d == DecimalOf(v)
            m == Len(d)
<1>1. kformat_uint32_decimal(v, size)
        = IF size <= m THEN Refused
          ELSE [i \in 1 .. m |-> Character(d[m + 1 - i])]
  BY DEF kformat_uint32_decimal, DecimalOf
<1>2. Numeral(v) = [i \in 1 .. m |-> Character(d[m + 1 - i])]
  BY DEF Numeral, Backwards
<1>3. ~(size <= m)
  BY DecimalOfType
<1>. HIDE DEF d, m
<1>. QED BY <1>1, <1>2, <1>3 DEF kformat_uint64_decimal

-----------------------------------------------------------------------------
(* Hexadecimal numbers.                                                    *)

(* What is left of a number without its last 8 - i hexadecimal digits, and *)
(* the digit before them.                                                  *)
Upper(v, i) == v \div 16 ^ (8 - i)
HexDigit(v, i) == Upper(v, i) % 16

(* A number of 32 bits.                                                   *)
IsWord(v) == v \div 65536 < 65536

(* With each digit the upper part grows, for a number of 32 bits from 0.   *)
LEMMA UpperGrows ==
  ASSUME NEW v \in Nat, IsWord(v)
  PROVE  /\ Upper(v, 0) = 0 /\ Upper(v, 8) = v
         /\ \A i \in 0 .. 7 : Upper(v, i + 1) = Upper(v, i) * 16 + HexDigit(v, i + 1)
         /\ \A i \in 1 .. 8 : HexDigit(v, i) \in 0 .. 15
<1>1. /\ 16 ^ 8 = 4294967296 /\ 16 ^ 7 = 268435456 /\ 16 ^ 6 = 16777216
      /\ 16 ^ 5 = 1048576 /\ 16 ^ 4 = 65536 /\ 16 ^ 3 = 4096 /\ 16 ^ 2 = 256
      /\ 16 ^ 1 = 16 /\ 16 ^ 0 = 1
  BY SMT
<1>2. /\ Upper(v, 0) = v \div 4294967296 /\ Upper(v, 1) = v \div 268435456
      /\ Upper(v, 2) = v \div 16777216 /\ Upper(v, 3) = v \div 1048576
      /\ Upper(v, 4) = v \div 65536 /\ Upper(v, 5) = v \div 4096
      /\ Upper(v, 6) = v \div 256 /\ Upper(v, 7) = v \div 16
  BY <1>1, SMT DEF Upper
<1>3. Upper(v, 8) = v
  BY <1>1, SMT DEF Upper
<1>4. /\ Upper(v, 1) = Upper(v, 0) * 16 + (Upper(v, 1) % 16)
      /\ Upper(v, 1) % 16 \in 0 .. 15
  <2>1. (v \div 268435456) = (v \div 4294967296) * 16 + ((v \div 268435456) % 16)
        /\ (v \div 268435456) % 16 \in 0 .. 15
    BY SMT
  <2>. QED BY <1>2, <1>2, <2>1, SMT
<1>5. /\ Upper(v, 2) = Upper(v, 1) * 16 + (Upper(v, 2) % 16)
      /\ Upper(v, 2) % 16 \in 0 .. 15
  <2>1. (v \div 16777216) = (v \div 268435456) * 16 + ((v \div 16777216) % 16)
        /\ (v \div 16777216) % 16 \in 0 .. 15
    BY SMT
  <2>. QED BY <1>2, <1>2, <2>1, SMT
<1>6. /\ Upper(v, 3) = Upper(v, 2) * 16 + (Upper(v, 3) % 16)
      /\ Upper(v, 3) % 16 \in 0 .. 15
  <2>1. (v \div 1048576) = (v \div 16777216) * 16 + ((v \div 1048576) % 16)
        /\ (v \div 1048576) % 16 \in 0 .. 15
    BY SMT
  <2>. QED BY <1>2, <1>2, <2>1, SMT
<1>7. /\ Upper(v, 4) = Upper(v, 3) * 16 + (Upper(v, 4) % 16)
      /\ Upper(v, 4) % 16 \in 0 .. 15
  <2>1. (v \div 65536) = (v \div 1048576) * 16 + ((v \div 65536) % 16)
        /\ (v \div 65536) % 16 \in 0 .. 15
    BY SMT
  <2>. QED BY <1>2, <1>2, <2>1, SMT
<1>8. /\ Upper(v, 5) = Upper(v, 4) * 16 + (Upper(v, 5) % 16)
      /\ Upper(v, 5) % 16 \in 0 .. 15
  <2>1. (v \div 4096) = (v \div 65536) * 16 + ((v \div 4096) % 16)
        /\ (v \div 4096) % 16 \in 0 .. 15
    BY SMT
  <2>. QED BY <1>2, <1>2, <2>1, SMT
<1>9. /\ Upper(v, 6) = Upper(v, 5) * 16 + (Upper(v, 6) % 16)
      /\ Upper(v, 6) % 16 \in 0 .. 15
  <2>1. (v \div 256) = (v \div 4096) * 16 + ((v \div 256) % 16)
        /\ (v \div 256) % 16 \in 0 .. 15
    BY SMT
  <2>. QED BY <1>2, <1>2, <2>1, SMT
<1>10. /\ Upper(v, 7) = Upper(v, 6) * 16 + (Upper(v, 7) % 16)
      /\ Upper(v, 7) % 16 \in 0 .. 15
  <2>1. (v \div 16) = (v \div 256) * 16 + ((v \div 16) % 16)
        /\ (v \div 16) % 16 \in 0 .. 15
    BY SMT
  <2>. QED BY <1>2, <1>2, <2>1, SMT
<1>11. /\ Upper(v, 8) = Upper(v, 7) * 16 + (Upper(v, 8) % 16)
      /\ Upper(v, 8) % 16 \in 0 .. 15
  <2>1. v = (v \div 16) * 16 + (v % 16)
        /\ v % 16 \in 0 .. 15
    BY SMT
  <2>. QED BY <1>3, <1>2, <2>1, SMT
<1>12. Upper(v, 0) = 0
  BY <1>2, SMT DEF IsWord
<1>13. ASSUME NEW i \in 0 .. 7
       PROVE  /\ Upper(v, i + 1) = Upper(v, i) * 16 + (Upper(v, i + 1) % 16)
              /\ Upper(v, i + 1) % 16 \in 0 .. 15
  <2>1. \/ i = 0 /\ i + 1 = 1
        \/ i = 1 /\ i + 1 = 2
        \/ i = 2 /\ i + 1 = 3
        \/ i = 3 /\ i + 1 = 4
        \/ i = 4 /\ i + 1 = 5
        \/ i = 5 /\ i + 1 = 6
        \/ i = 6 /\ i + 1 = 7
        \/ i = 7 /\ i + 1 = 8
    OBVIOUS
  <2>. QED BY <1>4, <1>5, <1>6, <1>7, <1>8, <1>9, <1>10, <1>11, <2>1, Zenon
<1>14. ASSUME NEW i \in 1 .. 8 PROVE HexDigit(v, i) \in 0 .. 15
  <2>1. i - 1 \in 0 .. 7 /\ (i - 1) + 1 = i
    OBVIOUS
  <2>. QED BY <1>13, <2>1, Zenon DEF HexDigit
<1>. QED BY <1>3, <1>12, <1>13, <1>14 DEF HexDigit

(* The eight characters read as the number.                                *)
LEMMA HexReads ==
  ASSUME NEW v \in Nat, IsWord(v),
         NEW t, Len(t) = 8,
         \A i \in 1 .. 8 : t[i] = Character(HexDigit(v, i))
  PROVE  ReadAs(t, 16) = v
<1>1. PICK f : Reads(t, 16, 8, f) /\ ReadAs(t, 16) = f[8]
  <2>1. Len(t) \in Nat
    OBVIOUS
  <2>. QED BY <2>1, ReadAsReads
<1>2. ASSUME NEW i \in 0 .. 7
      PROVE  f[i + 1] = f[i] * 16 + HexDigit(v, i + 1)
  <2>1. i \in 0 .. 8 - 1 /\ i + 1 \in 1 .. 8
    OBVIOUS
  <2>2. f[i + 1] = f[i] * 16 + DigitOf(t[i + 1])
    BY <1>1, <2>1, Zenon DEF Reads
  <2>. DEFINE h == HexDigit(v, i + 1)
  <2>3. t[i + 1] = Character(h) /\ h \in 0 .. 15
    BY <2>1, UpperGrows
  <2>. HIDE DEF h
  <2>4. DigitOf(Character(h)) = h
    BY <2>3, DigitOfCharacter
  <2>. QED BY <2>2, <2>3, <2>4 DEF h
<1>. DEFINE S == {i \in Nat : i <= 8 /\ f[i] # Upper(v, i)}
<1>3. S = {}
  <2>. SUFFICES ASSUME S # {} PROVE FALSE
    OBVIOUS
  <2>1. PICK m \in S : \A y \in S : m <= y
    BY Least
  <2>2. f[0] = Upper(v, 0)
    BY <1>1, UpperGrows DEF Reads
  <2>3. m \in Nat /\ m <= 8 /\ f[m] # Upper(v, m) /\ m # 0
    BY <2>2
  <2>. DEFINE k == m - 1
  <2>4. k \in 0 .. 7 /\ k \in Nat /\ k <= 8 /\ k \notin S /\ k + 1 = m
    BY <2>1, <2>3
  <2>. HIDE DEF k
  <2>5. f[k] = Upper(v, k)
    BY <2>4
  <2>6. /\ f[k + 1] = f[k] * 16 + HexDigit(v, k + 1)
        /\ Upper(v, k + 1) = Upper(v, k) * 16 + HexDigit(v, k + 1)
    BY <1>2, <2>4, UpperGrows
  <2>7. f[k + 1] = Upper(v, k + 1)
    BY <2>5, <2>6, Zenon
  <2>. QED BY <2>3, <2>4, <2>7
<1>4. f[8] = Upper(v, 8)
  BY <1>3
<1>. QED BY <1>1, <1>4, UpperGrows

(* kformat_uint32_hex writes a number of 32 bits so that it reads as that. *)
THEOREM HexIsRight ==
  ASSUME NEW v \in Nat, IsWord(v), NEW size \in Nat, size >= 11
  PROVE  IsHexFor(kformat_uint32_hex(v, size), v)
<1>. DEFINE C(i) == Character(HexDigit(v, i))
            h == [i \in 1 .. 8 |-> C(i)]
            S == {C(i) : i \in 1 .. 8} \cup {"0", "x"}
            p == <<"0", "x">>
            text == p \o h
            t == SubSeq(text, 3, 10)
<1>1. kformat_uint32_hex(v, size) = text
  BY DEF kformat_uint32_hex, HexDigit, Upper
<1>. HIDE DEF C
<1>2. h \in Seq(S) /\ Len(h) = 8 /\ \A i \in 1 .. 8 : h[i] = C(i)
  OBVIOUS
<1>3. p \in Seq(S) /\ Len(p) = 2
  OBVIOUS
<1>4. text \in Seq(S) /\ Len(text) = 10 /\ text[1] = "0" /\ text[2] = "x"
      /\ \A i \in 1 .. 8 : text[i + 2] = C(i)
  <2>. HIDE DEF h, S
  <2>1. /\ text \in Seq(S) /\ Len(text) = Len(p) + Len(h)
        /\ \A i \in 1 .. Len(p) + Len(h) :
             text[i] = IF i <= Len(p) THEN p[i] ELSE h[i - Len(p)]
    BY <1>2, <1>3, ConcatProperties
  <2>2. p[1] = "0" /\ p[2] = "x"
    OBVIOUS
  <2>. HIDE DEF p, text
  <2>. QED BY <1>2, <1>3, <2>1, <2>2
<1>. HIDE DEF text, h, S
<1>5. /\ Len(t) = 8 /\ \A i \in 1 .. 8 : t[i] = text[i + 2]
  <2>1. \A i \in 3 .. 10 : text[i] \in S
    <3>1. \A i \in 3 .. 10 : i \in 1 .. Len(text)
      BY <1>4
    <3>. QED BY <1>4, <3>1, ElementOfSeq
  <2>2. /\ Len(t) = IF 3 <= 10 THEN 10 - 3 + 1 ELSE 0
        /\ \A i \in 1 .. 10 - 3 + 1 : t[i] = text[3 + i - 1]
    BY <2>1, SubSeqProperties
  <2>. HIDE DEF t
  <2>3. 10 - 3 + 1 = 8 /\ \A i \in 1 .. 8 : 3 + i - 1 = i + 2
    OBVIOUS
  <2>. QED BY <2>2, <2>3
<1>6. SubSeq(text, 1, 2) = p
  <2>. DEFINE u == SubSeq(text, 1, 2)
  <2>1. \A i \in 1 .. 2 : text[i] \in S
    <3>1. \A i \in 1 .. 2 : i \in 1 .. Len(text)
      BY <1>4
    <3>. QED BY <1>4, <3>1, ElementOfSeq
  <2>2. /\ u \in Seq(S) /\ Len(u) = IF 1 <= 2 THEN 2 - 1 + 1 ELSE 0
        /\ \A i \in 1 .. 2 - 1 + 1 : u[i] = text[1 + i - 1]
    BY <2>1, SubSeqProperties
  <2>. HIDE DEF u
  <2>3. u \in Seq(S) /\ Len(u) = 2 /\ u[1] = text[1] /\ u[2] = text[2]
    BY <2>2
  <2>4. Len(p) = 2 /\ p[1] = "0" /\ p[2] = "x"
    OBVIOUS
  <2>. HIDE DEF p
  <2>5. \A i \in 1 .. 2 : u[i] = p[i]
    BY <1>4, <2>3, <2>4
  <2>6. u = p
    BY <1>3, <2>3, <2>4, <2>5, SeqEqual
  <2>. QED BY <2>6 DEF u
<1>. HIDE DEF t
<1>7. ReadAs(t, 16) = v
  BY <1>4, <1>5, HexReads DEF C
<1>. QED BY <1>1, <1>4, <1>6, <1>7 DEF IsHexFor, t

(* kformat_uint32_decimal and kformat_uint64_decimal write every number so *)
(* that it reads as that, or refuse when text and terminator do not fit.   *)
THEOREM DecimalIsRight ==
  ASSUME NEW v \in Nat, NEW size \in Nat
  PROVE  IF Len(DecimalOf(v)) < size
         THEN /\ IsDecimalFor(kformat_uint32_decimal(v, size), v)
              /\ IsDecimalFor(kformat_uint64_decimal(v, size), v)
         ELSE /\ kformat_uint32_decimal(v, size) = Refused
              /\ kformat_uint64_decimal(v, size) = Refused
<1>1. CASE Len(DecimalOf(v)) < size
  BY <1>1, DecimalIsNumeral, NumeralIsDecimal
<1>2. CASE ~(Len(DecimalOf(v)) < size)
  <2>1. Len(DecimalOf(v)) \in Nat
    BY DecimalOfType
  <2>2. size <= Len(DecimalOf(v))
    BY <1>2, <2>1
  <2>. QED BY <1>2, <2>2
         DEF kformat_uint32_decimal, kformat_uint64_decimal, DecimalOf
<1>. QED BY <1>1, <1>2
=============================================================================

----------------------------- MODULE UnityProofs -----------------------------
(***************************************************************************)
(* Proofs about Unity: an assertion answers what it promises for integers  *)
(* of every width, arrays and strings of every length, and the report and  *)
(* the exit code count every test once, for test programs of any size.     *)
(***************************************************************************)
EXTENDS Unity, WellFoundedInduction, TLAPS

\* A number and its conversions lie within the type.
LEMMA SignedRange ==
  ASSUME NEW n \in Int, NEW m \in Nat \ {0}, m % 2 = 0
  PROVE  /\ Signed(n, m) \in -(m \div 2) .. (m \div 2) - 1
         /\ Signed(n, m) \in Int
         /\ m = 2 * (m \div 2)
         /\ n % m \in 0 .. m - 1
<1>1. n % m \in 0 .. m - 1
  OBVIOUS
<1>2. m = 2 * (m \div 2) /\ m \div 2 \in Nat
  OBVIOUS
<1> QED
  BY <1>1, <1>2 DEF Signed

\* Two patterns are the same number exactly when they are the same pattern.
LEMMA SignedInjective ==
  ASSUME NEW a \in Int, NEW b \in Int, NEW m \in Nat \ {0}, m % 2 = 0
  PROVE  Signed(a, m) = Signed(b, m) <=> a % m = b % m
<1>1. a % m \in 0 .. m - 1 /\ b % m \in 0 .. m - 1
  OBVIOUS
<1>2. m = 2 * (m \div 2) /\ m \div 2 \in Nat
  OBVIOUS
<1> QED
  BY <1>1, <1>2 DEF Signed

\* What modulus and width of a type are worth.
LEMMA TypeFacts ==
  ASSUME NEW type \in Types
  PROVE  /\ Modulus[type.bytes] \in Nat \ {0}
         /\ Modulus[type.bytes] % 2 = 0
         /\ Modulus[type.bytes] <= Modulus[Word]
         /\ Modulus[Word] \in Nat \ {0}
         /\ Modulus[Word] % 2 = 0
         /\ type.bytes \in DOMAIN Modulus
BY WordAssumption DEF Types

LEMMA CastInt ==
  ASSUME NEW type \in Types, NEW n \in Int
  PROVE  Cast(type, n) \in Int
<1>1. Modulus[type.bytes] \in Nat \ {0} /\ Modulus[type.bytes] % 2 = 0
  BY TypeFacts
<1>2. Signed(n, Modulus[type.bytes]) \in Int
  BY <1>1, SignedRange
<1>3. n % Modulus[type.bytes] \in 0 .. Modulus[type.bytes] - 1
  BY <1>1
<1> QED
  BY <1>2, <1>3 DEF Cast

\* Two converted numbers differ by less than the word holds, so the unsigned
\* difference of _WITHIN is the difference.
LEMMA CastsClose ==
  ASSUME NEW type \in Types, NEW a \in Int, NEW b \in Int
  PROVE  /\ Cast(type, a) - Cast(type, b) < Modulus[Word]
         /\ Cast(type, b) - Cast(type, a) < Modulus[Word]
<1> DEFINE m == Modulus[type.bytes]
<1>1. m \in Nat \ {0} /\ m % 2 = 0 /\ m <= Modulus[Word] /\ Modulus[Word] \in Nat
  BY TypeFacts
<1>2. CASE IsSigned(type)
  <2>1. /\ Cast(type, a) \in -(m \div 2) .. (m \div 2) - 1
        /\ Cast(type, b) \in -(m \div 2) .. (m \div 2) - 1
    BY <1>1, <1>2, SignedRange DEF Cast
  <2>2. m = 2 * (m \div 2) /\ m \div 2 \in Nat
    BY <1>1
  <2> HIDE DEF m
  <2> QED
    BY <1>1, <2>1, <2>2
<1>3. CASE ~IsSigned(type)
  <2>1. Cast(type, a) \in 0 .. m - 1 /\ Cast(type, b) \in 0 .. m - 1
    BY <1>1, <1>3 DEF Cast
  <2> HIDE DEF m
  <2> QED
    BY <1>1, <2>1
<1> QED
  BY <1>2, <1>3

LEMMA WithinExact ==
  ASSUME NEW type \in Types, NEW a \in Int, NEW b \in Int, NEW delta \in Nat
  PROVE  UnityAssertNumbersWithin(delta, Cast(type, a), Cast(type, b))
           <=> Near(delta, Cast(type, a), Cast(type, b))
<1> DEFINE x == Cast(type, a)
           y == Cast(type, b)
           w == Modulus[Word]
           d == IF y > x THEN y - x ELSE x - y
<1>1. x \in Int /\ y \in Int /\ w \in Nat \ {0}
  BY CastInt, TypeFacts
<1>2. x - y < w /\ y - x < w
  BY CastsClose
<1> HIDE DEF x, y, w
<1>3. d \in 0 .. w - 1
  BY <1>1, <1>2
<1>4. d % w = d
  BY <1>1, <1>3
<1>5. d <= delta <=> Near(delta, x, y)
  BY <1>1 DEF Near
<1>6. UnityAssertNumbersWithin(delta, x, y) <=> d % w <= delta
  BY DEF UnityAssertNumbersWithin, w
<1> QED
  BY <1>4, <1>5, <1>6 DEF x, y

\* A remainder is determined by its range.
LEMMA RemainderUnique ==
  ASSUME NEW m \in Nat \ {0}, NEW k \in Int, NEW r \in 0 .. m - 1
  PROVE  (m * k + r) % m = r
<1> DEFINE x == m * k + r
           d == (x \div m) - k
<1>1. x \in Int
  OBVIOUS
<1> HIDE DEF x
<1>2. x = m * (x \div m) + (x % m) /\ x % m \in 0 .. m - 1 /\ x \div m \in Int
  BY <1>1
<1>3. d \in Int
  BY <1>2
<1>4. r - (x % m) = m * d
  <2>1. m * (x \div m) - m * k = m * ((x \div m) - k)
    BY <1>2
  <2> QED
    BY <1>2, <2>1 DEF x
<1> HIDE DEF d
<1>5. d >= 1 => m * d >= m
  BY <1>3
<1>6. d <= -1 => m * d <= -m
  BY <1>3
<1>7. d = 0
  BY <1>2, <1>3, <1>4, <1>5, <1>6
<1> QED
  BY <1>2, <1>4, <1>7 DEF x

\* Equal after the conversion means: the difference is a multiple of the modulus.
LEMMA ModEqual ==
  ASSUME NEW a \in Int, NEW b \in Int, NEW m \in Nat \ {0}
  PROVE  a % m = b % m <=> (a - b) % m = 0
<1>1. /\ a = m * (a \div m) + (a % m) /\ a % m \in 0 .. m - 1 /\ a \div m \in Int
      /\ b = m * (b \div m) + (b % m) /\ b % m \in 0 .. m - 1 /\ b \div m \in Int
  OBVIOUS
<1>2. ASSUME a % m = b % m PROVE (a - b) % m = 0
  <2>1. a - b = m * ((a \div m) - (b \div m))
    BY <1>1, <1>2
  <2> DEFINE q == (a \div m) - (b \div m)
  <2>2. q \in Int
    BY <1>1
  <2> HIDE DEF q
  <2>3. (m * q) % m = 0
    BY <2>2
  <2> QED
    BY <2>1, <2>3 DEF q
<1>3. ASSUME (a - b) % m = 0 PROVE a % m = b % m
  <2> DEFINE q == (a - b) \div m
  <2>1. a - b = m * q /\ q \in Int
    BY <1>3
  <2>2. a = b + m * q
    BY <2>1
  <2> HIDE DEF q
  <2>3. (b + m * q) % m = b % m
    <3>1. b + m * q = m * ((b \div m) + q) + (b % m)
      BY <1>1, <2>1
    <3>2. (b \div m) + q \in Int
      BY <1>1, <2>1
    <3>3. (m * ((b \div m) + q) + (b % m)) % m = b % m
      BY <1>1, <3>2, RemainderUnique
    <3> QED
      BY <3>1, <3>3
  <2> QED
    BY <2>2, <2>3
<1> QED
  BY <1>2, <1>3

LEMMA EqualExact ==
  ASSUME NEW type \in Types, NEW a \in Int, NEW b \in Int
  PROVE  Cast(type, a) = Cast(type, b) <=> (a - b) % Modulus[type.bytes] = 0
BY ZenonT(30), TypeFacts, SignedInjective, ModEqual DEF Cast

-----------------------------------------------------------------------------
(* The kinds of assertions *)

LEMMA BitsExact ==
  ASSUME NEW c, WellFormed("bits", c)
  PROVE  Holds("bits", c) <=> Truth("bits", c)
<1>1. Holds("bits", c) <=> c.mask \cap c.expected = c.mask \cap c.actual
  BY DEF Holds, UnityAssertBits
<1>2. Truth("bits", c) <=> \A b \in c.mask : b \in c.expected <=> b \in c.actual
  BY DEF Truth
<1> QED
  BY <1>1, <1>2

LEMMA ScalarsExact ==
  ASSUME NEW kind \in {"equal", "compare", "within"}, NEW c, WellFormed(kind, c)
  PROVE  Holds(kind, c) <=> Truth(kind, c)
<1>1. CASE kind = "equal"
  <2>1. c.type \in Types /\ c.expected \in Int /\ c.actual \in Int
    BY <1>1 DEF WellFormed
  <2>2. Holds(kind, c) <=> Cast(c.type, c.expected) = Cast(c.type, c.actual)
    BY <1>1 DEF Holds, UNITY_TEST_ASSERT_EQUAL, UnityAssertEqualNumber
  <2>3. Truth(kind, c) <=> (c.expected - c.actual) % Modulus[c.type.bytes] = 0
    BY <1>1 DEF Truth
  <2> QED
    BY <2>1, <2>2, <2>3, EqualExact
<1>2. CASE kind = "compare"
  <2>1. /\ c.type \in Types /\ c.threshold \in Int /\ c.actual \in Int
        /\ c.compare \in Comparisons
    BY <1>2 DEF WellFormed
  <2> DEFINE t == Cast(c.type, c.threshold)
             a == Cast(c.type, c.actual)
  <2>2. t \in Int /\ a \in Int
    BY <2>1, CastInt
  <2>3. Holds(kind, c) <=> UnityAssertGreaterOrLessOrEqualNumber(t, a, c.compare)
    BY <1>2 DEF Holds, UNITY_TEST_ASSERT_COMPARE
  <2>4. Truth(kind, c) <=> Related(t, a, c.compare)
    BY <1>2 DEF Truth
  <2> HIDE DEF t, a
  <2>5. UnityAssertGreaterOrLessOrEqualNumber(t, a, c.compare)
          <=> Related(t, a, c.compare)
    BY <2>1, <2>2 DEF UnityAssertGreaterOrLessOrEqualNumber, Related, Comparisons
  <2> QED
    BY <2>3, <2>4, <2>5
<1>3. CASE kind = "within"
  <2>1. /\ c.type \in Types /\ c.expected \in Int /\ c.actual \in Int
        /\ c.delta \in Nat
    BY <1>3 DEF WellFormed
  <2>2. Holds(kind, c) <=> UnityAssertNumbersWithin(
                             c.delta, Cast(c.type, c.expected), Cast(c.type, c.actual))
    BY <1>3 DEF Holds, UNITY_TEST_ASSERT_WITHIN
  <2>3. Truth(kind, c) <=> Near(c.delta, Cast(c.type, c.expected), Cast(c.type, c.actual))
    BY <1>3 DEF Truth
  <2> QED
    BY <2>1, <2>2, <2>3, WithinExact
<1> QED
  BY <1>1, <1>2, <1>3

\* The part that every array assertion shares.
LEMMA Shell ==
  ASSUME NEW p, NEW q, NEW n \in Nat, NEW x, NEW y,
         NeitherNull(p, q) => (x <=> y)
  PROVE  n # 0 /\ (p.at = q.at \/ (~UnityIsOneArrayNull(p, q) /\ x))
           <=> SameArray(p, q, n, y)
<1>1. n # 0 <=> n > 0
  OBVIOUS
<1>2. p.at # q.at => (~UnityIsOneArrayNull(p, q) <=> NeitherNull(p, q))
  BY DEF UnityIsOneArrayNull, NeitherNull, IsNull
<1> QED
  BY <1>1, <1>2 DEF SameArray

\* A cell within reach holds what the array holds.
LEMMA CellOf ==
  ASSUME NEW Cell, NEW n \in Nat, NEW p \in Arrays(Cell, n), ~IsNull(p),
         NEW k \in 1 .. n
  PROVE  p.cells[k] \in Cell
<1>1. p.cells \in Seq(Cell) /\ Len(p.cells) >= n
  BY DEF Arrays
<1> QED
  BY <1>1

LEMMA ExpectedCell ==
  ASSUME NEW Cell, NEW n \in Nat, NEW flg \in Flags,
         NEW p \in Arrays(Cell, Expecting(flg, n, 1)), ~IsNull(p), NEW k \in 1 .. n
  PROVE  ExpectedAt(p, k, flg) \in Cell
<1>1. CASE flg = "UNITY_ARRAY_TO_VAL"
  <2>1. p \in Arrays(Cell, 1) /\ 1 \in 1 .. 1
    BY <1>1 DEF Expecting
  <2>2. p.cells[1] \in Cell
    BY <2>1, CellOf
  <2> QED
    BY <1>1, <2>2 DEF ExpectedAt
<1>2. CASE flg = "UNITY_ARRAY_TO_ARRAY"
  <2>1. p \in Arrays(Cell, n)
    BY <1>2 DEF Expecting
  <2>2. p.cells[k] \in Cell
    BY <2>1, CellOf
  <2> QED
    BY <1>2, <2>2 DEF ExpectedAt
<1> QED
  BY <1>1, <1>2 DEF Flags

LEMMA ElementInjective ==
  ASSUME NEW type \in Types, NEW x \in 0 .. Modulus[type.bytes] - 1,
         NEW y \in 0 .. Modulus[type.bytes] - 1
  PROVE  Element(type, x) = Element(type, y) <=> x = y
<1> DEFINE m == Modulus[type.bytes]
<1>1. m \in Nat \ {0} /\ m % 2 = 0
  BY TypeFacts
<1>2. x % m = x /\ y % m = y
  BY <1>1
<1>3. Signed(x, m) = Signed(y, m) <=> x = y
  BY <1>1, <1>2, SignedInjective
<1> QED
  BY <1>2, <1>3 DEF Element, Cast

LEMMA NumberArraysExact ==
  ASSUME NEW kind \in {"array", "array_within"}, NEW c, WellFormed(kind, c)
  PROVE  Holds(kind, c) <=> Truth(kind, c)
<1> DEFINE Cell == 0 .. Modulus[c.type.bytes] - 1
           e(k) == ExpectedAt(c.expected, k, c.flags)
           a(k) == c.actual.cells[k]
<1>1. /\ c.type \in Types /\ c.flags \in Flags /\ c.n \in Nat
      /\ c.expected \in Arrays(Cell, Expecting(c.flags, c.n, 1))
      /\ c.actual \in Arrays(Cell, c.n)
      /\ kind = "array_within" => c.delta \in Nat
  <2>1. CASE kind = "array"
    BY <2>1 DEF WellFormed
  <2>2. CASE kind = "array_within"
    <3>1. /\ c.type \in Types /\ c.flags \in Flags /\ c.n \in Nat
          /\ c.expected \in Arrays(Cell, Expecting(c.flags, c.n, 1))
          /\ c.actual \in Arrays(Cell, c.n)
          /\ c.delta \in 0 .. Modulus[c.type.bytes] - 1
      BY <2>2 DEF WellFormed
    <3> QED
      BY <2>2, <3>1
  <2> QED
    BY <2>1, <2>2
<1>2. ASSUME NeitherNull(c.expected, c.actual), NEW k \in 1 .. c.n
      PROVE  e(k) \in Cell /\ a(k) \in Cell
  BY <1>1, <1>2, CellOf, ExpectedCell DEF NeitherNull
<1>3. CASE kind = "array"
  <2> DEFINE x == \A k \in 1 .. c.n : Element(c.type, e(k)) = Element(c.type, a(k))
             y == \A k \in 1 .. c.n : e(k) = a(k)
  <2>1. NeitherNull(c.expected, c.actual) => (x <=> y)
    <3>1. ASSUME NeitherNull(c.expected, c.actual), NEW k \in 1 .. c.n
          PROVE  Element(c.type, e(k)) = Element(c.type, a(k)) <=> e(k) = a(k)
      BY <1>1, <1>2, <3>1, ElementInjective
    <3> QED
      BY <3>1
  <2>2. Holds(kind, c) <=>
          c.n # 0 /\ (\/ c.expected.at = c.actual.at
                      \/ ~UnityIsOneArrayNull(c.expected, c.actual) /\ x)
    BY <1>3 DEF Holds, UNITY_TEST_ASSERT_EQUAL_ARRAY, UnityAssertEqualIntArray
  <2>3. Truth(kind, c) <=> SameArray(c.expected, c.actual, c.n, y)
    BY <1>3 DEF Truth
  <2> HIDE DEF x, y
  <2>5. c.n # 0 /\ (\/ c.expected.at = c.actual.at
                    \/ ~UnityIsOneArrayNull(c.expected, c.actual) /\ x)
          <=> SameArray(c.expected, c.actual, c.n, y)
    BY <1>1, <2>1, Shell
  <2> QED
    BY <2>2, <2>3, <2>5
<1>4. CASE kind = "array_within"
  <2> DEFINE x == \A k \in 1 .. c.n : UnityAssertNumbersWithin(
                    c.delta, Cast(c.type, e(k)), Cast(c.type, a(k)))
             y == \A k \in 1 .. c.n :
                    Near(c.delta, Cast(c.type, e(k)), Cast(c.type, a(k)))
  <2>1. NeitherNull(c.expected, c.actual) => (x <=> y)
    <3>1. ASSUME NeitherNull(c.expected, c.actual), NEW k \in 1 .. c.n
          PROVE  UnityAssertNumbersWithin(
                   c.delta, Cast(c.type, e(k)), Cast(c.type, a(k)))
                     <=> Near(c.delta, Cast(c.type, e(k)), Cast(c.type, a(k)))
      <4>1. e(k) \in Int /\ a(k) \in Int
        BY <1>2, <3>1
      <4> HIDE DEF e, a
      <4> QED
        BY <1>1, <1>4, <4>1, WithinExact
    <3> QED
      BY <3>1
  <2>2. Holds(kind, c) <=>
          c.n # 0 /\ (\/ c.expected.at = c.actual.at
                      \/ ~UnityIsOneArrayNull(c.expected, c.actual) /\ x)
    BY <1>4 DEF Holds, UNITY_TEST_ASSERT_ARRAY_WITHIN,
       UnityAssertNumbersArrayWithin
  <2>3. Truth(kind, c) <=> SameArray(c.expected, c.actual, c.n, y)
    BY <1>4 DEF Truth
  <2> HIDE DEF x, y
  <2>5. c.n # 0 /\ (\/ c.expected.at = c.actual.at
                    \/ ~UnityIsOneArrayNull(c.expected, c.actual) /\ x)
          <=> SameArray(c.expected, c.actual, c.n, y)
    BY <1>1, <2>1, Shell
  <2> QED
    BY <2>2, <2>3, <2>5
<1> QED
  BY <1>3, <1>4

\* The two loops over elements and bytes visit the bytes one by one.
LEMMA TwoLoops ==
  ASSUME NEW n \in Nat, NEW len \in Nat \ {0}
  PROVE  /\ \A k \in 0 .. n - 1, b \in 1 .. len :
              /\ k * len + b \in 1 .. len * n
              /\ (((k * len + b) - 1) % len) + 1 = b
         /\ \A i \in 1 .. len * n : \E k \in 0 .. n - 1, b \in 1 .. len :
              i = k * len + b
<1>1. ASSUME NEW k \in 0 .. n - 1, NEW b \in 1 .. len
      PROVE  k * len + b \in 1 .. len * n /\ (((k * len + b) - 1) % len) + 1 = b
  <2>1. k \in Nat /\ b - 1 \in 0 .. len - 1 /\ k * len = len * k /\ len * k \in Nat
    <3>1. k \in Nat /\ b - 1 \in 0 .. len - 1
      OBVIOUS
    <3>2. k * len = len * k
      BY <3>1
    <3>3. len * k \in Nat
      BY <3>1
    <3> QED
      BY <3>1, <3>2, <3>3
  <2>2. (len * k + (b - 1)) % len = b - 1
    BY <2>1, RemainderUnique
  <2>3. (k * len + b) - 1 = len * k + (b - 1)
    BY <2>1
  <2>4. len * k + len <= len * n
    <3>1. k + 1 <= n
      OBVIOUS
    <3>2. len * (k + 1) <= len * n
      BY <3>1
    <3> QED
      BY <3>2
  <2>5. len * n \in Nat
    OBVIOUS
  <2>6. k * len + b \in 1 .. len * n
    BY <2>1, <2>4, <2>5
  <2> QED
    BY <2>2, <2>3, <2>6
<1>2. ASSUME NEW i \in 1 .. len * n
      PROVE  \E k \in 0 .. n - 1, b \in 1 .. len : i = k * len + b
  <2> DEFINE k == (i - 1) \div len
             b == ((i - 1) % len) + 1
  <2>1. i - 1 \in Nat /\ i - 1 < len * n /\ len * n \in Nat
    OBVIOUS
  <2>2. i - 1 = len * k + (b - 1) /\ b - 1 \in 0 .. len - 1 /\ k \in Nat
    BY <2>1
  <2>3. b \in Int
    BY <2>1
  <2> HIDE DEF k, b
  <2>4. len * k < len * n
    BY <2>1, <2>2, <2>3
  <2>5. k < n
    <3>1. k >= n => len * k >= len * n
      BY <2>2
    <3> QED
      BY <2>2, <2>4, <3>1
  <2>6. k \in 0 .. n - 1 /\ b \in 1 .. len /\ i = k * len + b
    BY <2>2, <2>3, <2>5
  <2> QED
    BY <2>6
<1> QED
  BY <1>1, <1>2

\* The bytes of a memory assertion are those of one array of length * n cells.
LEMMA MemoryExact ==
  ASSUME NEW c, WellFormed("memory", c)
  PROVE  Holds("memory", c) <=> Truth("memory", c)
<1> DEFINE p == c.expected.cells
           q == c.actual.cells
           len == c.length
           all == len * c.n
           E(k, b) == p[IF c.flags = "UNITY_ARRAY_TO_VAL" THEN b ELSE k * len + b]
           F(i) == p[IF c.flags = "UNITY_ARRAY_TO_VAL" THEN ((i - 1) % len) + 1 ELSE i]
           x == \A k \in 0 .. c.n - 1, b \in 1 .. len : E(k, b) = q[k * len + b]
           y == \A i \in 1 .. all : q[i] = F(i)
<1>1. c.n \in Nat /\ len \in Nat
  BY DEF WellFormed
<1>2. Holds("memory", c) <=>
        /\ c.n # 0
        /\ len # 0
        /\ \/ c.expected.at = c.actual.at
           \/ ~UnityIsOneArrayNull(c.expected, c.actual) /\ x
  BY DEF Holds, UnityAssertEqualMemory
<1>3. Truth("memory", c) <=> SameArray(c.expected, c.actual, all, y)
  BY DEF Truth
<1>4. CASE c.n = 0 \/ len = 0
  <2>1. all = 0
    BY <1>1, <1>4
  <2> QED
    BY <1>2, <1>3, <1>4, <2>1 DEF SameArray
<1>5. CASE c.n # 0 /\ len # 0
  <2>1. all \in Nat /\ all # 0
    BY <1>1, <1>5
  <2>2. /\ \A k \in 0 .. c.n - 1, b \in 1 .. len :
             k * len + b \in 1 .. all /\ (((k * len + b) - 1) % len) + 1 = b
        /\ \A i \in 1 .. all : \E k \in 0 .. c.n - 1, b \in 1 .. len : i = k * len + b
    <3>1. c.n \in Nat /\ len \in Nat \ {0}
      BY <1>1, <1>5
    <3> HIDE DEF len
    <3> QED
      BY <3>1, TwoLoops, Zenon
  <2>3. ASSUME NEW k \in 0 .. c.n - 1, NEW b \in 1 .. len
        PROVE  F(k * len + b) = E(k, b)
    <3> DEFINE i == k * len + b
               r == ((i - 1) % len) + 1
    <3>1. r = b
      <4>1. (((k * len + b) - 1) % len) + 1 = b
        <5> HIDE DEF all, len
        <5> QED
          BY <2>2, Zenon
      <4> QED
        BY <4>1
    <3>2. F(i) = p[IF c.flags = "UNITY_ARRAY_TO_VAL" THEN r ELSE i]
      OBVIOUS
    <3>3. E(k, b) = p[IF c.flags = "UNITY_ARRAY_TO_VAL" THEN b ELSE i]
      OBVIOUS
    <3> HIDE DEF r, E, F
    <3> QED
      BY <3>1, <3>2, <3>3
  <2>4. x <=> y
    <3> HIDE DEF all, E, F
    <3>1. ASSUME x, NEW i \in 1 .. all PROVE q[i] = F(i)
      <4>1. PICK k \in 0 .. c.n - 1, b \in 1 .. len : i = k * len + b
        BY <2>2
      <4>2. E(k, b) = q[k * len + b]
        BY <3>1
      <4> QED
        BY <2>3, <4>1, <4>2
    <3>2. ASSUME y, NEW k \in 0 .. c.n - 1, NEW b \in 1 .. len
          PROVE  E(k, b) = q[k * len + b]
      BY <2>2, <2>3, <3>2
    <3> QED
      BY <3>1, <3>2
  <2> HIDE DEF x, y, all
  <2>5. all # 0 /\ (\/ c.expected.at = c.actual.at
                    \/ ~UnityIsOneArrayNull(c.expected, c.actual) /\ x)
          <=> SameArray(c.expected, c.actual, all, y)
    BY <2>1, <2>4, Shell
  <2> QED
    BY <1>2, <1>3, <1>5, <2>1, <2>5
<1> QED
  BY <1>4, <1>5

-----------------------------------------------------------------------------
(* Strings *)

LEMMA Least ==
  ASSUME NEW T \in SUBSET Nat, T # {}
  PROVE  \E x \in T : \A y \in T : x <= y
<1> DEFINE R == {ss \in Nat \X Nat : ss[1] < ss[2]}
<1>1. IsWellFoundedOn(R, Nat)
  BY NatLessThanWellFounded DEF OpToRel
<1> HIDE DEF R
<1>2. PICK x \in T : \A y \in T : <<y, x>> \notin R
  BY <1>1, WFMin
<1>3. \A y \in T : ~(y < x)
  BY <1>2 DEF R
<1> QED
  BY <1>3

\* A string may be read up to its terminator, a buffer up to its length.
Readable(s, n) == Len(s) >= n \/ \E i \in DOMAIN s : s[i] = 0

\* The loop stays within both strings.
LEMMA ComparedInside ==
  ASSUME NEW s \in Seq(Nat), NEW t \in Seq(Nat), NEW n \in Nat,
         Readable(s, n), Readable(t, n)
  PROVE  Compared(s, t, n) \subseteq DOMAIN s \cap DOMAIN t
<1> SUFFICES ASSUME NEW i \in Compared(s, t, n)
             PROVE  i \in DOMAIN s /\ i \in DOMAIN t
  OBVIOUS
<1>1. i \in 1 .. n /\ \A j \in 1 .. i - 1 : s[j] = t[j] /\ s[j] # 0
  BY DEF Compared
<1>2. ASSUME NEW r \in {s, t} PROVE i \in DOMAIN r
  <2>1. r \in Seq(Nat) /\ DOMAIN r = 1 .. Len(r) /\ Len(r) \in Nat
    BY <1>2
  <2>2. SUFFICES ASSUME i > Len(r) PROVE FALSE
    BY <1>1, <2>1
  <2>3. PICK z \in DOMAIN r : r[z] = 0
    <3>1. Readable(r, n)
      BY <1>2
    <3>2. ~(Len(r) >= n)
      BY <1>1, <2>1, <2>2
    <3> QED
      BY <3>1, <3>2 DEF Readable
  <2>4. z \in 1 .. i - 1
    BY <1>1, <2>1, <2>2
  <2> QED
    BY <1>1, <1>2, <2>3, <2>4
<1> QED
  BY <1>2

\* Where the text of one string goes, the loop goes, unless it finds a difference.
LEMMA LoopCoversText ==
  ASSUME NEW s \in Seq(Nat), NEW t \in Seq(Nat), NEW n \in Nat,
         \A i \in Compared(s, t, n) : s[i] = t[i]
  PROVE  DOMAIN Text(s, n) \cup DOMAIN Text(t, n) \subseteq Compared(s, t, n)
<1> DEFINE In(r) == {k \in 1 .. n : k \in DOMAIN r /\ \A j \in 1 .. k : r[j] # 0}
           D == {i \in In(s) \cup In(t) : i \notin Compared(s, t, n)}
<1>1. DOMAIN Text(s, n) = In(s) /\ DOMAIN Text(t, n) = In(t)
  BY DEF Text
<1>2. SUFFICES ASSUME D # {} PROVE FALSE
  BY <1>1
<1>3. D \in SUBSET Nat
  OBVIOUS
<1>4. PICK x \in D : \A y \in D : x <= y
  <2> HIDE DEF D
  <2> QED
    BY <1>2, <1>3, Least
<1>5. PICK r \in {s, t} : x \in In(r)
  BY <1>4
<1>6. ASSUME NEW j \in 1 .. x - 1 PROVE s[j] = t[j] /\ s[j] # 0
  <2>1. r \in Seq(Nat) /\ DOMAIN r = 1 .. Len(r) /\ Len(r) \in Nat
    BY <1>5
  <2>2. x \in 1 .. n /\ x \in 1 .. Len(r) /\ \A l \in 1 .. x : r[l] # 0
    BY <1>5, <2>1
  <2>3. j \in In(r)
    BY <2>1, <2>2
  <2>4. j < x /\ j \in In(s) \cup In(t)
    BY SMTT(30), <1>5, <2>2, <2>3
  <2>5. j \in Compared(s, t, n)
    BY <1>4, <2>2, <2>4
  <2>6. s[j] = t[j]
    BY <2>5
  <2>7. r[j] # 0
    BY <2>3
  <2> QED
    BY <1>5, <2>6, <2>7
<1>7. x \in 1 .. n
  BY <1>5
<1>8. x \in Compared(s, t, n)
  BY <1>6, <1>7 DEF Compared
<1> QED
  BY <1>4, <1>8

\* The loop finds a difference exactly when the texts differ.
LEMMA TextExact ==
  ASSUME NEW s \in Seq(Nat), NEW t \in Seq(Nat), NEW n \in Nat,
         Readable(s, n), Readable(t, n)
  PROVE  (\A i \in Compared(s, t, n) : s[i] = t[i]) <=> Text(s, n) = Text(t, n)
<1> DEFINE In(r) == {k \in 1 .. n : k \in DOMAIN r /\ \A j \in 1 .. k : r[j] # 0}
           T(r) == [i \in In(r) |-> r[i]]
<1>1. Text(s, n) = T(s) /\ Text(t, n) = T(t)
  BY DEF Text
<1>2. Compared(s, t, n) \subseteq DOMAIN s \cap DOMAIN t
  BY ComparedInside
<1>3. ASSUME \A i \in Compared(s, t, n) : s[i] = t[i]
      PROVE  T(s) = T(t)
  <2>1. In(s) \cup In(t) \subseteq Compared(s, t, n)
    <3>1. DOMAIN Text(s, n) \cup DOMAIN Text(t, n) \subseteq Compared(s, t, n)
      BY <1>3, LoopCoversText
    <3> QED
      BY <1>1, <3>1
  <2>2. \A i \in In(s) \cup In(t) : \A j \in 1 .. i : s[j] = t[j]
    <3>1. ASSUME NEW i \in In(s) \cup In(t), NEW j \in 1 .. i PROVE s[j] = t[j]
      <4>1. i \in Compared(s, t, n) /\ i \in 1 .. n
        BY <2>1
      <4>2. CASE j = i
        BY <1>3, <4>1, <4>2
      <4>3. CASE j # i
        <5>1. j \in 1 .. i - 1
          BY <4>1, <4>3
        <5> QED
          BY <4>1, <5>1 DEF Compared
      <4> QED
        BY <4>2, <4>3
    <3> QED
      BY <3>1
  <2>3. In(s) = In(t)
    <3>1. ASSUME NEW i \in In(s) \cup In(t) PROVE i \in In(s) /\ i \in In(t)
      <4>1. i \in 1 .. n /\ i \in DOMAIN s /\ i \in DOMAIN t
        BY <1>2, <2>1
      <4>2. \A j \in 1 .. i : s[j] = t[j]
        BY <2>2
      <4>3. \A j \in 1 .. i : s[j] # 0 /\ t[j] # 0
        <5>1. CASE i \in In(s)
          BY <4>2, <5>1
        <5>2. CASE i \in In(t)
          BY <4>2, <5>2
        <5> QED
          BY <5>1, <5>2
      <4> QED
        BY <4>1, <4>3
    <3> QED
      BY <3>1
  <2>4. ASSUME NEW i \in In(s) PROVE s[i] = t[i]
    <3>1. i \in 1 .. i
      OBVIOUS
    <3> QED
      BY <2>2, <3>1
  <2> HIDE DEF In
  <2> QED
    BY <2>3, <2>4
<1>4. ASSUME T(s) = T(t), NEW i \in Compared(s, t, n)
      PROVE  s[i] = t[i]
  <2>1. In(s) = In(t) /\ \A k \in In(s) : s[k] = t[k]
    <3> HIDE DEF In
    <3>1. In(s) = DOMAIN T(s) /\ In(t) = DOMAIN T(t)
      OBVIOUS
    <3>2. \A k \in In(s) : T(s)[k] = s[k]
      OBVIOUS
    <3>3. \A k \in In(t) : T(t)[k] = t[k]
      OBVIOUS
    <3> HIDE DEF T
    <3> QED
      BY <1>4, <3>1, <3>2, <3>3
  <2>2. /\ i \in 1 .. n /\ i \in DOMAIN s /\ i \in DOMAIN t
        /\ \A j \in 1 .. i - 1 : s[j] = t[j] /\ s[j] # 0
    BY <1>2 DEF Compared
  <2>3. ASSUME NEW r \in {s, t}, r[i] # 0 PROVE i \in In(r)
    <3>1. \A j \in 1 .. i : j = i \/ j \in 1 .. i - 1
      BY <2>2
    <3>2. \A j \in 1 .. i : r[j] # 0
      BY <2>2, <2>3, <3>1
    <3> QED
      BY <2>2, <2>3, <3>2
  <2>4. CASE s[i] = 0 /\ t[i] = 0
    BY <2>4
  <2>5. CASE s[i] # 0
    <3>1. i \in In(s)
      BY <2>3, <2>5
    <3> QED
      BY <2>1, <3>1
  <2>6. CASE t[i] # 0
    <3>1. i \in In(s)
      BY <2>1, <2>3, <2>6
    <3> QED
      BY <2>1, <3>1
  <2> QED
    BY <2>4, <2>5, <2>6
<1> QED
  BY <1>1, <1>3, <1>4

\* Pointers to strings, or to buffers of the length, that are not NULL.
LEMMA Shaped ==
  ASSUME NEW p, NEW n \in Nat, p \in Strings \cup Arrays(Nat, n)
  PROVE  /\ p.cells \in Seq(Nat) /\ Len(p.cells) \in Nat
         /\ ~IsNull(p) => Readable(p.cells, n)
<1>1. p.cells \in Seq(Nat)
  BY DEF Strings, Arrays
<1>2. Len(p.cells) \in Nat
  BY <1>1
<1>3. ~IsNull(p) => Readable(p.cells, n)
  BY DEF Strings, Arrays, Terminated, Readable
<1> QED
  BY <1>1, <1>2, <1>3

\* The answer of the string assertions, NULL included.
LEMMA SameTextExact ==
  ASSUME NEW p, NEW q, NEW n \in Nat,
         p \in Strings \cup Arrays(Nat, n), q \in Strings \cup Arrays(Nat, n)
  PROVE  /\ SameText(p, q, n) <=> SameString(p, q, n)
         /\ NeitherNull(p, q) =>
              Compared(p.cells, q.cells, n) \subseteq DOMAIN p.cells \cap DOMAIN q.cells
<1>1. p.cells \in Seq(Nat) /\ q.cells \in Seq(Nat)
  BY Shaped
<1>2. CASE NeitherNull(p, q)
  <2>1. Readable(p.cells, n) /\ Readable(q.cells, n)
    BY <1>2, Shaped DEF NeitherNull
  <2>2. Compared(p.cells, q.cells, n) \subseteq DOMAIN p.cells \cap DOMAIN q.cells
    BY <1>1, <2>1, ComparedInside
  <2>3. (\A i \in Compared(p.cells, q.cells, n) : p.cells[i] = q.cells[i])
          <=> Text(p.cells, n) = Text(q.cells, n)
    BY <1>1, <2>1, TextExact
  <2> QED
    BY <1>2, <2>2, <2>3 DEF SameText, SameString, NeitherNull, IsNull
<1>3. CASE ~NeitherNull(p, q)
  BY <1>3 DEF SameText, SameString, NeitherNull, IsNull
<1> QED
  BY <1>2, <1>3

\* Two strings without a limit.
LEMMA StringExact ==
  ASSUME NEW p \in Strings, NEW q \in Strings
  PROVE  /\ Endless(p.cells, q.cells) \in Nat
         /\ UnityAssertEqualString(p, q)
              <=> SameString(p, q, Endless(p.cells, q.cells))
<1>1. Len(p.cells) \in Nat /\ Len(q.cells) \in Nat
  BY Shaped
<1>2. Endless(p.cells, q.cells) \in Nat
  <2>1. \A a, b \in Nat : a + b \in Nat
    OBVIOUS
  <2> QED
    BY <1>1, <2>1, Zenon DEF Endless
<1> DEFINE n == Endless(p.cells, q.cells)
<1>3. UnityAssertEqualString(p, q) <=> SameText(p, q, n)
  BY DEF UnityAssertEqualString
<1> HIDE DEF n
<1>4. n \in Nat
  BY <1>2 DEF n
<1>5. p \in Strings \cup Arrays(Nat, n) /\ q \in Strings \cup Arrays(Nat, n)
  OBVIOUS
<1>6. SameText(p, q, n) <=> SameString(p, q, n)
  BY <1>4, <1>5, SameTextExact
<1> QED
  BY <1>2, <1>3, <1>6 DEF n

LEMMA StringsExact ==
  ASSUME NEW kind \in {"string", "string_len"}, NEW c, WellFormed(kind, c)
  PROVE  (Holds(kind, c) <=> Truth(kind, c)) /\ Inside(kind, c)
<1>1. CASE kind = "string"
  <2>1. c.expected \in Strings /\ c.actual \in Strings
    BY <1>1 DEF WellFormed
  <2> DEFINE n == Endless(c.expected.cells, c.actual.cells)
  <2>2. n \in Nat
    BY <2>1, StringExact
  <2> HIDE DEF n
  <2>3. NeitherNull(c.expected, c.actual) =>
          Compared(c.expected.cells, c.actual.cells, n)
            \subseteq DOMAIN c.expected.cells \cap DOMAIN c.actual.cells
    BY <2>1, <2>2, SameTextExact
  <2>4. Inside(kind, c)
    BY <1>1, <2>3 DEF Inside, n
  <2>5. Holds(kind, c) <=> UnityAssertEqualString(c.expected, c.actual)
    BY <1>1 DEF Holds
  <2>6. Truth(kind, c) <=> SameString(c.expected, c.actual, n)
    BY <1>1 DEF Truth, n
  <2> QED
    BY <2>1, <2>4, <2>5, <2>6, StringExact DEF n
<1>2. CASE kind = "string_len"
  <2>1. /\ c.length \in Nat
        /\ c.expected \in Strings \cup Arrays(Nat, c.length)
        /\ c.actual \in Strings \cup Arrays(Nat, c.length)
    BY <1>2 DEF WellFormed
  <2>2. /\ SameText(c.expected, c.actual, c.length)
             <=> SameString(c.expected, c.actual, c.length)
        /\ NeitherNull(c.expected, c.actual) =>
             Compared(c.expected.cells, c.actual.cells, c.length)
               \subseteq DOMAIN c.expected.cells \cap DOMAIN c.actual.cells
    BY <2>1, SameTextExact
  <2>3. Inside(kind, c)
    BY <1>2, <2>2 DEF Inside
  <2>4. Holds(kind, c) <=> SameText(c.expected, c.actual, c.length)
    BY <1>2 DEF Holds, UnityAssertEqualStringLen
  <2>5. Truth(kind, c) <=> SameString(c.expected, c.actual, c.length)
    BY <1>2 DEF Truth
  <2> QED
    BY <2>2, <2>3, <2>4, <2>5
<1> QED
  BY <1>1, <1>2

LEMMA StringArrayExact ==
  ASSUME NEW c, WellFormed("string_array", c)
  PROVE  Holds("string_array", c) <=> Truth("string_array", c)
<1> DEFINE e(k) == IF c.flags = "UNITY_ARRAY_TO_VAL"
                     THEN c.expected ELSE c.expected.cells[k]
           a(k) == c.actual.cells[k]
           x == \A k \in 1 .. c.n : UnityAssertEqualString(e(k), a(k))
           y == \A k \in 1 .. c.n :
                  SameString(e(k), a(k), Endless(e(k).cells, a(k).cells))
<1>1. /\ c.flags \in Flags /\ c.n \in Nat
      /\ c.flags = "UNITY_ARRAY_TO_VAL" => c.expected \in Strings
      /\ c.flags # "UNITY_ARRAY_TO_VAL" => c.expected \in Arrays(Strings, c.n)
      /\ c.actual \in Arrays(Strings, c.n)
  BY DEF WellFormed
<1>2. NeitherNull(c.expected, c.actual) => (x <=> y)
  <2>1. ASSUME NeitherNull(c.expected, c.actual), NEW k \in 1 .. c.n
        PROVE  e(k) \in Strings /\ a(k) \in Strings
    <3>1. a(k) \in Strings
      BY <1>1, <2>1, CellOf DEF NeitherNull
    <3>2. CASE c.flags = "UNITY_ARRAY_TO_VAL"
      BY <1>1, <3>1, <3>2
    <3>3. CASE c.flags # "UNITY_ARRAY_TO_VAL"
      <4>1. c.expected.cells[k] \in Strings
        BY <1>1, <2>1, <3>3, CellOf DEF NeitherNull
      <4> QED
        BY <3>1, <3>3, <4>1
    <3> QED
      BY <3>2, <3>3
  <2> HIDE DEF e, a
  <2>2. ASSUME NeitherNull(c.expected, c.actual), NEW k \in 1 .. c.n
        PROVE  UnityAssertEqualString(e(k), a(k))
                 <=> SameString(e(k), a(k), Endless(e(k).cells, a(k).cells))
    BY <2>1, <2>2, StringExact
  <2> QED
    BY <2>2
<1>3. Holds("string_array", c) <=>
        c.n # 0 /\ (\/ c.expected.at = c.actual.at
                    \/ ~UnityIsOneArrayNull(c.expected, c.actual) /\ x)
  <2> DEFINE g(k) == IF c.flags = "UNITY_ARRAY_TO_ARRAY"
                       THEN c.expected.cells[k] ELSE c.expected
  <2>1. \A k : g(k) = e(k)
    BY <1>1 DEF Flags
  <2>2. Holds("string_array", c) <=>
          c.n # 0 /\ (\/ c.expected.at = c.actual.at
                      \/ /\ ~UnityIsOneArrayNull(c.expected, c.actual)
                         /\ \A k \in 1 .. c.n : UnityAssertEqualString(g(k), a(k)))
    BY DEF Holds, UnityAssertEqualStringArray
  <2> HIDE DEF g, e
  <2> QED
    BY <2>1, <2>2
<1>4. Truth("string_array", c) <=> SameArray(c.expected, c.actual, c.n, y)
  BY DEF Truth
<1> HIDE DEF x, y
<1>5. c.n # 0 /\ (\/ c.expected.at = c.actual.at
                  \/ ~UnityIsOneArrayNull(c.expected, c.actual) /\ x)
        <=> SameArray(c.expected, c.actual, c.n, y)
  BY <1>1, <1>2, Shell
<1> QED
  BY <1>3, <1>4, <1>5

-----------------------------------------------------------------------------
(* The framework *)

\* What an assertion answers is what it promises, whatever the arguments, and it
\* reads no string past its end (unity.c:744-1942).
THEOREM AssertionsExact ==
  ASSUME NEW kind \in Kinds, NEW c, WellFormed(kind, c)
  PROVE  (Holds(kind, c) <=> Truth(kind, c)) /\ Inside(kind, c)
<1>1. CASE kind = "bits"
  BY <1>1, BitsExact DEF Inside
<1>2. CASE kind \in {"equal", "compare", "within"}
  <2>1. Holds(kind, c) <=> Truth(kind, c)
    BY <1>2, ScalarsExact
  <2> QED
    BY <1>2, <2>1 DEF Inside
<1>3. CASE kind \in {"array", "array_within"}
  <2>1. Holds(kind, c) <=> Truth(kind, c)
    BY <1>3, NumberArraysExact
  <2> QED
    BY <1>3, <2>1 DEF Inside
<1>4. CASE kind = "memory"
  BY <1>4, MemoryExact DEF Inside
<1>5. CASE kind \in {"string", "string_len"}
  BY <1>5, StringsExact
<1>6. CASE kind = "string_array"
  BY <1>6, StringArrayExact DEF Inside
<1> QED
  BY <1>1, <1>2, <1>3, <1>4, <1>5, <1>6 DEF Kinds

\* The counts, in their types and each of them within the tests begun.
Counts ==
  /\ NumberOfTests \in 0 .. MaxTests
  /\ {TestFailures, TestIgnores, passed} \subseteq Nat
  /\ owed \in [{"pass", "fail", "ignore"} -> Nat]

States ==
  /\ pc \in {"main", "setUp", "body", "tearDown", "conclude", "ended"}
  /\ {CurrentTestFailed, CurrentTestIgnored, strayed} \subseteq BOOLEAN
  /\ due \in {"pass", "fail", "ignore"}
  /\ exit \in 0 .. ExitCodes - 1

\* Between two tests no flag is set, and the exit code was taken at the end.
Between ==
  pc \in {"main", "ended"} => ~CurrentTestFailed /\ ~CurrentTestIgnored

IInv == Counts /\ States /\ Between /\ VerdictsExact /\ TalliesExact /\ NeverStrays

\* The calls of the instance are calls a test may make.
LEMMA CallsSound ==
  ASSUME NEW kind \in DOMAIN Calls, NEW c \in Calls[kind]
  PROVE  (Holds(kind, c) <=> Truth(kind, c)) /\ Inside(kind, c)
BY UnityAssumption, AssertionsExact

LEMMA Begin == Init => IInv
<1> SUFFICES ASSUME Init PROVE IInv
  OBVIOUS
<1> USE UnityAssumption DEF Init
<1>1. Counts
  BY DEF Counts
<1>2. States /\ NeverStrays
  <2>1. exit \in 0 .. ExitCodes - 1
    OBVIOUS
  <2> QED
    BY <2>1 DEF States, NeverStrays
<1>3. Between /\ VerdictsExact
  BY DEF Between, VerdictsExact
<1>4. TalliesExact
  BY DEF TalliesExact
<1> QED
  BY <1>1, <1>2, <1>3, <1>4 DEF IInv

\* A step that leaves the counts alone and takes the verdict of a running test
\* as far as what was due to it.
LEMMA TestStep ==
  ASSUME IInv, Protected,
         UNCHANGED <<counters, exit, owed>>,
         pc' \in {"setUp", "body", "tearDown", "conclude"},
         CurrentTestFailed' \in BOOLEAN, CurrentTestIgnored' \in BOOLEAN,
         due' \in {"pass", "fail", "ignore"},
         CurrentTestFailed' <=> due' = "fail",
         CurrentTestIgnored' <=> due' = "ignore",
         strayed' = strayed
  PROVE  IInv'
<1>1. Counts'
  BY DEF IInv, Counts, counters
<1>2. States'
  BY DEF IInv, States
<1>3. Between' /\ VerdictsExact'
  BY DEF Between, VerdictsExact
<1>4. TalliesExact'
  <2>1. pc \notin {"main", "ended"} /\ pc' \notin {"main", "ended"}
    BY DEF Protected
  <2> QED
    BY <2>1 DEF IInv, TalliesExact, counters
<1>5. NeverStrays'
  BY DEF IInv, NeverStrays
<1> QED
  BY <1>1, <1>2, <1>3, <1>4, <1>5 DEF IInv

\* Every step keeps the invariant.
LEMMA Keeps == ASSUME IInv, [Next]_vars PROVE IInv'
<1> USE UnityAssumption
<1>1. CASE UnityDefaultTestRun
  <2>1. Counts' /\ States' /\ NeverStrays'
    BY <1>1 DEF IInv, Counts, States, NeverStrays, UnityDefaultTestRun, flags
  <2>2. Between' /\ VerdictsExact'
    BY <1>1 DEF IInv, Between, VerdictsExact, UnityDefaultTestRun, flags
  <2>3. TalliesExact'
    BY <1>1 DEF IInv, Counts, TalliesExact, UnityDefaultTestRun, flags
  <2> QED
    BY <2>1, <2>2, <2>3 DEF IInv
<1>2. CASE Returns \/ Aborts
  <2>1. /\ Protected
        /\ pc' \in {"setUp", "body", "tearDown", "conclude"}
        /\ UNCHANGED <<counters, flags, exit, due, owed, strayed>>
    BY <1>2 DEF Returns, Aborts, Protected, TEST_ABORT
  <2>2. /\ CurrentTestFailed' \in BOOLEAN /\ CurrentTestIgnored' \in BOOLEAN
        /\ due' \in {"pass", "fail", "ignore"}
    BY <2>1 DEF IInv, States, flags
  <2>3. /\ CurrentTestFailed' <=> due' = "fail"
        /\ CurrentTestIgnored' <=> due' = "ignore"
    BY <2>1 DEF IInv, VerdictsExact, Protected, flags
  <2> QED
    BY <2>1, <2>2, <2>3, TestStep
<1>3. CASE \E kind \in DOMAIN Calls : \E c \in Calls[kind] : Asserts(kind, c)
  <2>1. PICK kind \in DOMAIN Calls : \E c \in Calls[kind] : Asserts(kind, c)
    BY <1>3
  <2>2. PICK c \in Calls[kind] : Asserts(kind, c)
    BY <2>1
  <2>3. (Holds(kind, c) <=> Truth(kind, c)) /\ Inside(kind, c)
    BY CallsSound
  <2>4. Protected /\ due = "pass" /\ ~CurrentTestIgnored
    BY <2>2 DEF Asserts, Undecided, IInv, VerdictsExact, States, Protected
  <2>5. pc' \in {"setUp", "body", "tearDown", "conclude"}
    BY <2>2 DEF Asserts, Protected, TEST_ABORT
  <2>6. /\ due' = IF Holds(kind, c) THEN "pass" ELSE "fail"
        /\ CurrentTestFailed' = ~Holds(kind, c)
        /\ CurrentTestIgnored' = CurrentTestIgnored
    BY <2>2, <2>3, <2>4 DEF Asserts, Decide
  <2>7. strayed' = strayed
    BY <2>2, <2>3 DEF Asserts, IInv, States
  <2>8. UNCHANGED <<counters, exit, owed>>
    BY <2>2 DEF Asserts
  <2>9. /\ CurrentTestFailed' \in BOOLEAN /\ CurrentTestIgnored' \in BOOLEAN
        /\ due' \in {"pass", "fail", "ignore"}
        /\ CurrentTestFailed' <=> due' = "fail"
        /\ CurrentTestIgnored' <=> due' = "ignore"
    BY <2>4, <2>6 DEF IInv, States
  <2> QED
    BY <2>4, <2>5, <2>7, <2>8, <2>9, TestStep
<1>4. CASE UnityFail \/ UnityIgnore
  <2>1. /\ Protected
        /\ pc' \in {"setUp", "body", "tearDown", "conclude"}
        /\ UNCHANGED <<counters, exit, owed>>
        /\ strayed' = strayed
    BY <1>4 DEF UnityFail, UnityIgnore, Protected, TEST_ABORT
  <2>2. due = "pass" /\ CurrentTestFailed = FALSE /\ CurrentTestIgnored = FALSE
    <3>1. ~CurrentTestFailed /\ ~CurrentTestIgnored
      BY <1>4 DEF UnityFail, UnityIgnore, Undecided
    <3>2. CurrentTestFailed \in BOOLEAN /\ CurrentTestIgnored \in BOOLEAN
      BY DEF IInv, States
    <3>3. due = "pass"
      BY <2>1, <3>1 DEF IInv, VerdictsExact, States, Protected
    <3> QED
      BY <3>1, <3>2, <3>3
  <2>3. /\ CurrentTestFailed' \in BOOLEAN /\ CurrentTestIgnored' \in BOOLEAN
        /\ due' \in {"pass", "fail", "ignore"}
        /\ CurrentTestFailed' <=> due' = "fail"
        /\ CurrentTestIgnored' <=> due' = "ignore"
    <3>1. CASE UnityFail
      <4>1. CurrentTestFailed' = TRUE /\ CurrentTestIgnored' = FALSE
        BY <2>2, <3>1 DEF UnityFail
      <4>2. due' = "fail"
        BY <2>2, <3>1 DEF UnityFail, Decide
      <4> QED
        BY <2>2, <4>1, <4>2
    <3>2. CASE UnityIgnore
      <4>1. CurrentTestIgnored' = TRUE /\ CurrentTestFailed' = FALSE
        BY <2>2, <3>2 DEF UnityIgnore
      <4>2. due' = "ignore"
        BY <2>2, <3>2 DEF UnityIgnore, Decide
      <4> QED
        BY <2>2, <4>1, <4>2
    <3> QED
      BY <1>4, <3>1, <3>2
  <2> QED
    BY <2>1, <2>3, TestStep
<1>5. CASE UnityConcludeTest
  <2>1. due \in {"pass", "fail", "ignore"} /\ owed \in [{"pass", "fail", "ignore"} -> Nat]
    BY DEF IInv, States, Counts
  <2>2. /\ CurrentTestFailed <=> due = "fail"
        /\ CurrentTestIgnored <=> due = "ignore"
    BY <1>5 DEF IInv, VerdictsExact, UnityConcludeTest
  <2>3. /\ TestFailures \in Nat /\ TestIgnores \in Nat /\ passed \in Nat
        /\ NumberOfTests \in 0 .. MaxTests
    BY DEF IInv, Counts
  <2>4. /\ owed'["fail"] = owed["fail"] + IF due = "fail" THEN 1 ELSE 0
        /\ owed'["ignore"] = owed["ignore"] + IF due = "ignore" THEN 1 ELSE 0
        /\ owed'["pass"] = owed["pass"] + IF due = "pass" THEN 1 ELSE 0
        /\ owed' \in [{"pass", "fail", "ignore"} -> Nat]
    BY <1>5, <2>1 DEF UnityConcludeTest
  <2>5. /\ TestFailures' = TestFailures + IF due = "fail" THEN 1 ELSE 0
        /\ TestIgnores' = TestIgnores + IF due = "ignore" THEN 1 ELSE 0
        /\ passed' = passed + IF due = "pass" THEN 1 ELSE 0
        /\ NumberOfTests' = NumberOfTests
    BY <1>5, <2>1, <2>2 DEF UnityConcludeTest
  <2>6. Counts'
    BY <2>3, <2>4, <2>5 DEF Counts
  <2>7. TalliesExact'
    <3>1. /\ TestFailures = owed["fail"] /\ TestIgnores = owed["ignore"]
          /\ passed = owed["pass"]
          /\ NumberOfTests = owed["fail"] + owed["ignore"] + owed["pass"] + 1
      BY <1>5 DEF IInv, TalliesExact, UnityConcludeTest
    <3>2. pc' = "main"
      BY <1>5 DEF UnityConcludeTest
    <3> QED
      BY <2>1, <2>3, <2>4, <2>5, <3>1, <3>2 DEF TalliesExact
  <2>8. States' /\ Between' /\ VerdictsExact' /\ NeverStrays'
    BY <1>5 DEF IInv, States, Between, VerdictsExact, NeverStrays, UnityConcludeTest
  <2> QED
    BY <2>6, <2>7, <2>8 DEF IInv
<1>6. CASE UnityEnd
  <2>1. TestFailures \in Nat /\ ExitCodes \in Nat /\ ExitCodes > 0
    BY UnityAssumption DEF IInv, Counts
  <2>2. TestFailures % ExitCodes \in 0 .. ExitCodes - 1
    BY <2>1
  <2>3. Counts' /\ NeverStrays'
    BY <1>6 DEF IInv, Counts, NeverStrays, UnityEnd, counters
  <2>4. States'
    BY <1>6, <2>2 DEF IInv, States, UnityEnd, flags
  <2>5. Between' /\ VerdictsExact'
    BY <1>6 DEF IInv, Between, VerdictsExact, UnityEnd, counters, flags
  <2>6. TalliesExact'
    BY <1>6 DEF IInv, TalliesExact, UnityEnd, counters
  <2> QED
    BY <2>3, <2>4, <2>5, <2>6 DEF IInv
<1>7. CASE UNCHANGED vars
  BY <1>7 DEF IInv, Counts, States, Between, VerdictsExact, TalliesExact, NeverStrays,
     vars, counters, flags
<1> QED
  BY <1>1, <1>2, <1>3, <1>4, <1>5, <1>6, <1>7 DEF Next

LEMMA Invariant == Spec => []IInv
BY Begin, Keeps, PTL DEF Spec

\* The state keeps its types: no count passes the number of tests begun.
THEOREM UnityTypes == Spec => []TypeOK
<1>1. IInv => TypeOK
  BY DEF IInv, Counts, States, TalliesExact, TypeOK
<1> QED
  BY <1>1, Invariant, PTL

\* A test is failed or ignored exactly when the calls it reached say so
\* (unity.c:744-1942, 2239-2264).
THEOREM UnityVerdicts == Spec => []VerdictsExact
<1>1. IInv => VerdictsExact
  BY DEF IInv
<1> QED
  BY <1>1, Invariant, PTL

\* The numbers of the report count every test once (unity.c:572-593, 2333-2358).
THEOREM UnityTallies == Spec => []TalliesExact
<1>1. IInv => TalliesExact
  BY DEF IInv
<1> QED
  BY <1>1, Invariant, PTL

\* No assertion reads a string past its terminator (unity.c:1718-1725).
THEOREM UnityNeverStrays == Spec => []NeverStrays
<1>1. IInv => NeverStrays
  BY DEF IInv
<1> QED
  BY <1>1, Invariant, PTL
=============================================================================

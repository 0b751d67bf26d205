------------------------------ MODULE HsmProofs ------------------------------
(***************************************************************************)
(* Theorems about hsm.c, for every set of ECU names, every cleartext frame *)
(* and every number of bits that flip.                                     *)
(*                                                                         *)
(* crc32_compute is a loop over the buffer, so what it yields for a buffer *)
(* of any length takes an induction: each one is the argument that a set   *)
(* of counterexamples has no least element.                                *)
(***************************************************************************)
EXTENDS Hsm, FiniteSetTheorems, SequenceTheorems, WellFoundedInduction, TLAPS

Byte == SUBSET (0 .. 7)
Word == SUBSET (0 .. 31)

LEMMA LeastNat ==
  ASSUME NEW T, T \subseteq Nat, T # {}
  PROVE  \E n \in T : \A m \in T : n <= m
<1>1. PICK n \in T : \A m \in T : ~ (<<m, n>> \in OpToRel(<, Nat))
  BY NatLessThanWellFounded, WFMin
<1>2. \A m \in T : <<m, n>> \in OpToRel(<, Nat) <=> m < n
  BY DEF OpToRel
<1>3. \A m \in T : ~ (m < n)
  BY <1>1, <1>2
<1> HIDE <1>1, <1>2
<1>4. QED
  BY <1>3

LEMMA FunctionIsSeq ==
  ASSUME NEW S, NEW m \in Nat, NEW s \in [1 .. m -> S]
  PROVE  s \in Seq(S) /\ Len(s) = m
<1>1. s \in Seq(S)
  BY SeqDef
<1>2. Len(s) \in Nat /\ DOMAIN s = 1 .. Len(s) /\ DOMAIN s = 1 .. m
  BY <1>1, LenProperties
<1>3. QED
  BY <1>1, <1>2

-----------------------------------------------------------------------------
(* One step of crc32_compute loses nothing *)

LEMMA XorFacts ==
  ASSUME NEW a \in Word, NEW b \in Word, NEW x \in Word
  PROVE  /\ Xor(a, x) \in Word
         /\ Xor(a, x) = Xor(b, x) => a = b
         /\ Xor(x, a) = Xor(x, b) => a = b
BY DEF Xor, Word

\* The shift register can be run backwards: the bit that was shifted out shows
\* in bit 31, where only the polynomial has one.
LEMMA ShiftInjective ==
  ASSUME NEW c \in Word, NEW d \in Word
  PROVE  /\ Shift(c) \in Word
         /\ Shift(c) = Shift(d) => c = d
<1>1. ASSUME NEW e \in Word
      PROVE  /\ Shifted(e) \in SUBSET (0 .. 30)
             /\ \A b \in 0 .. 30 : b \in Shifted(e) <=> b + 1 \in e
             /\ 31 \in Shift(e) <=> 0 \in e
             /\ Shift(e) \in Word
  <2>1. Shifted(e) \in SUBSET (0 .. 30)
    BY DEF Shifted, Word
  <2>2. ASSUME NEW b \in 0 .. 30
        PROVE  b \in Shifted(e) <=> b + 1 \in e
    <3>1. b \in Shifted(e) <=> \E a \in e \ {0} : b = a - 1
      BY DEF Shifted
    <3>2. QED
      BY <3>1 DEF Word
  <2>3. 31 \in Polynomial /\ Polynomial \in Word
    BY DEF Polynomial, Word
  <2>4. Shifted(e) \in Word /\ 31 \notin Shifted(e)
    BY <2>1 DEF Word
  <2>5. Xor(Shifted(e), Polynomial) \in Word
    BY <2>3, <2>4, XorFacts
  <2>6. 31 \in Xor(Shifted(e), Polynomial)
    BY <2>3, <2>4 DEF Xor
  <2>7. QED
    BY <2>1, <2>2, <2>4, <2>5, <2>6 DEF Shift
<1>2. ASSUME Shift(c) = Shift(d) PROVE c = d
  <2>1. 0 \in c <=> 0 \in d
    BY <1>1, <1>2
  <2>2. Shifted(c) = Shifted(d)
    <3>1. Polynomial \in Word /\ Shifted(c) \in Word /\ Shifted(d) \in Word
      BY <1>1 DEF Polynomial, Word
    <3>2. QED
      BY <1>2, <2>1, <3>1, XorFacts DEF Shift
  <2>3. \A b \in 0 .. 30 : b + 1 \in c <=> b + 1 \in d
    BY <1>1, <2>2
  <2>4. \A b \in 1 .. 31 : b \in c <=> b \in d
    <3>1. SUFFICES ASSUME NEW b \in 1 .. 31 PROVE b \in c <=> b \in d
      OBVIOUS
    <3>2. b - 1 \in 0 .. 30 /\ (b - 1) + 1 = b
      OBVIOUS
    <3>3. QED
      BY <2>3, <3>2
  <2>5. QED
    <3>1. \A b \in 0 .. 31 : b \in c <=> b \in d
      <4>1. SUFFICES ASSUME NEW b \in 0 .. 31 PROVE b \in c <=> b \in d
        OBVIOUS
      <4>2. b = 0 \/ b \in 1 .. 31
        OBVIOUS
      <4>3. QED
        BY <2>1, <2>4, <4>2
    <3>2. QED
      BY <3>1 DEF Word
<1>3. QED
  BY <1>1, <1>2

LEMMA Shift8Injective ==
  ASSUME NEW c \in Word, NEW d \in Word
  PROVE  /\ Shift8(c) \in Word
         /\ Shift8(c) = Shift8(d) => c = d
BY ShiftInjective DEF Shift8

\* One round of the loop over the buffer.
Up(c, b) == Shift8(Xor(c, b))

LEMMA UpInjective ==
  ASSUME NEW c \in Word, NEW d \in Word, NEW a \in Byte, NEW b \in Byte
  PROVE  /\ Up(c, b) \in Word
         /\ Up(c, b) = Up(d, b) => c = d
         /\ Up(c, a) = Up(c, b) => a = b
<1>1. a \in Word /\ b \in Word
  BY DEF Byte, Word
<1>2. /\ Xor(c, b) \in Word /\ Xor(d, b) \in Word /\ Xor(c, a) \in Word
      /\ Xor(c, b) = Xor(d, b) => c = d
      /\ Xor(c, a) = Xor(c, b) => a = b
  BY <1>1, XorFacts
<1>3. QED
  BY <1>2, Shift8Injective DEF Up

-----------------------------------------------------------------------------
(* The loop of crc32_compute, for buffers of any length *)

\* crc is the value of the register after each of the first n bytes.
IsRun(crc, first, buf, n) ==
  /\ crc \in [0 .. n -> Word]
  /\ crc[0] = first
  /\ \A i \in 1 .. n : crc[i] = Up(crc[i - 1], buf[i])

LEMMA RunExists ==
  ASSUME NEW first \in Word, NEW buf \in Seq(Byte), NEW n \in 0 .. Len(buf)
  PROVE  \E crc : IsRun(crc, first, buf, n)
<1> DEFINE Missing == {k \in 0 .. Len(buf) : ~ \E crc : IsRun(crc, first, buf, k)}
<1>1. SUFFICES ASSUME Missing # {} PROVE FALSE
  OBVIOUS
<1>2. PICK k \in Missing : \A m \in Missing : k <= m
  <2>1. Missing \subseteq Nat
    OBVIOUS
  <2> HIDE DEF Missing
  <2>2. QED
    BY <1>1, <2>1, LeastNat
<1>3. k \in 0 .. Len(buf) /\ ~ \E crc : IsRun(crc, first, buf, k)
  BY <1>2
<1>4. CASE k = 0
  <2> DEFINE start == [i \in 0 .. 0 |-> first]
  <2>0. start \in [0 .. 0 -> Word] /\ start[0] = first
    OBVIOUS
  <2> HIDE DEF start
  <2>1. IsRun(start, first, buf, 0)
    BY <2>0 DEF IsRun
  <2>2. QED
    BY <1>3, <1>4, <2>1
<1>5. CASE k # 0
  <2>1. k - 1 \in 0 .. Len(buf) /\ k - 1 \notin Missing
    BY <1>2, <1>3, <1>5
  <2>2. PICK g : IsRun(g, first, buf, k - 1)
    BY <2>1
  <2> DEFINE h == [i \in 0 .. k |-> IF i = k THEN Up(g[k - 1], buf[k]) ELSE g[i]]
  <2>3. g[k - 1] \in Word /\ buf[k] \in Byte
    BY <1>3, <1>5, <2>2 DEF IsRun
  <2>4. Up(g[k - 1], buf[k]) \in Word
    BY <2>3, UpInjective
  <2>5. \A i \in 0 .. k - 1 : h[i] = g[i] /\ g[i] \in Word
    BY <1>3, <1>5, <2>2 DEF IsRun
  <2>6. h \in [0 .. k -> Word]
    <3>1. ASSUME NEW i \in 0 .. k
          PROVE  (IF i = k THEN Up(g[k - 1], buf[k]) ELSE g[i]) \in Word
      <4>1. i = k \/ i \in 0 .. k - 1
        BY <1>3
      <4>2. QED
        BY <2>4, <2>5, <4>1
    <3>2. QED
      BY <3>1
  <2>7. h[0] = first
    BY <1>3, <1>5, <2>2, <2>5 DEF IsRun
  <2>8. ASSUME NEW i \in 1 .. k PROVE h[i] = Up(h[i - 1], buf[i])
    <3>1. CASE i = k
      BY <1>3, <1>5, <2>5, <3>1
    <3>2. CASE i # k
      <4>1. i \in 1 .. k - 1 /\ i - 1 \in 0 .. k - 1 /\ i \in 0 .. k - 1
        BY <1>3, <3>2
      <4>2. g[i] = Up(g[i - 1], buf[i])
        BY <2>2, <4>1 DEF IsRun
      <4>3. QED
        BY <2>5, <4>1, <4>2
    <3>3. QED
      BY <3>1, <3>2
  <2>9. IsRun(h, first, buf, k)
    BY <2>6, <2>7, <2>8 DEF IsRun
  <2>10. QED
    BY <1>3, <2>9
<1>6. QED
  BY <1>4, <1>5

\* The register of crc32_compute is one, whatever it begins with.
LEMMA RegisterIsRun ==
  ASSUME NEW first \in Word, NEW buf \in Seq(Byte)
  PROVE  IsRun(Register(first, buf), first, buf, Len(buf))
<1> DEFINE n == Len(buf)
           Loop(g) == g = [i \in 0 .. n |->
             IF i = 0 THEN first ELSE Shift8(Xor(g[i - 1], buf[i]))]
           f == CHOOSE g : Loop(g)
<1>1. Register(first, buf) = f
  BY DEF Register
<1>2. n \in Nat
  OBVIOUS
<1>3. PICK g : IsRun(g, first, buf, n)
  BY <1>2, RunExists
<1>4. Loop(g)
  <2>1. g \in [0 .. n -> Word]
    BY <1>3 DEF IsRun
  <2>2. \A i \in 0 .. n :
          g[i] = IF i = 0 THEN first ELSE Shift8(Xor(g[i - 1], buf[i]))
    BY <1>2, <1>3 DEF IsRun, Up
  <2>3. QED
    BY <2>1, <2>2
<1>5. Loop(f)
  BY <1>4
<1> HIDE DEF f
<1>6. /\ f[0] = first
      /\ \A i \in 1 .. n : f[i] = Up(f[i - 1], buf[i])
  <2>1. \A i \in 0 .. n :
          f[i] = IF i = 0 THEN first ELSE Shift8(Xor(f[i - 1], buf[i]))
    BY <1>5
  <2>2. ASSUME NEW i \in 1 .. n PROVE f[i] = Up(f[i - 1], buf[i])
    <3>1. i \in 0 .. n /\ i # 0
      BY <1>2
    <3>2. QED
      BY <2>1, <3>1 DEF Up
  <2>3. 0 \in 0 .. n
    BY <1>2
  <2>4. f[0] = first
    BY <2>1, <2>3
  <2>5. QED
    BY <2>2, <2>4
<1>7. \A i \in 0 .. n : f[i] = g[i]
  <2> DEFINE Wrong == {i \in 0 .. n : f[i] # g[i]}
  <2>1. SUFFICES ASSUME Wrong # {} PROVE FALSE
    OBVIOUS
  <2>2. PICK i \in Wrong : \A m \in Wrong : i <= m
    <3>1. Wrong \subseteq Nat
      BY <1>2
    <3> HIDE DEF Wrong
    <3>2. QED
      BY <2>1, <3>1, LeastNat
  <2>3. i # 0
    BY <1>3, <1>6, <2>2 DEF IsRun
  <2>4. i \in 1 .. n /\ i - 1 \in 0 .. n /\ i - 1 \notin Wrong
    BY <1>2, <2>2, <2>3
  <2>5. f[i - 1] = g[i - 1]
    BY <2>4
  <2>6. QED
    BY <1>3, <1>6, <2>2, <2>4, <2>5 DEF IsRun
<1>8. IsRun(f, first, buf, n)
  <2>1. f = [i \in 0 .. n |-> f[i]]
    BY <1>5
  <2>2. f \in [0 .. n -> Word]
    BY <1>3, <1>7, <2>1 DEF IsRun
  <2>3. QED
    BY <1>6, <2>2 DEF IsRun
<1>9. QED
  BY <1>1, <1>8

\* A CRC of two buffers that differ in one byte, and only there, differs.
LEMMA CrcSeesOneByte ==
  ASSUME NEW x \in Seq(Byte), NEW y \in Seq(Byte), Len(x) = Len(y),
         NEW p \in 1 .. Len(x), x[p] # y[p],
         \A i \in 1 .. Len(x) : i # p => x[i] = y[i]
  PROVE  crc32_compute(x) # crc32_compute(y)
<1> DEFINE n == Len(x)
           g == Register(0 .. 31, x)
           h == Register(0 .. 31, y)
<1>0. /\ crc32_compute(x) = (0 .. 31) \ g[n]
      /\ crc32_compute(y) = (0 .. 31) \ h[n]
      /\ 0 .. 31 \in Word
  BY DEF crc32_compute, Word
<1>1. IsRun(g, 0 .. 31, x, n)
  BY <1>0, RegisterIsRun
<1>2. IsRun(h, 0 .. 31, y, n)
  BY <1>0, RegisterIsRun
<1>3. n \in Nat /\ p \in 1 .. n
  OBVIOUS
<1> HIDE DEF n, g, h
<1>4. \A i \in 0 .. n : (i < p => g[i] = h[i]) /\ (i >= p => g[i] # h[i])
  <2> DEFINE Wrong == {i \in 0 .. n : ~ ((i < p => g[i] = h[i]) /\ (i >= p => g[i] # h[i]))}
  <2>1. SUFFICES ASSUME Wrong # {} PROVE FALSE
    OBVIOUS
  <2>2. PICK i \in Wrong : \A m \in Wrong : i <= m
    <3>1. Wrong \subseteq Nat
      BY <1>3
    <3> HIDE DEF Wrong
    <3>2. QED
      BY <2>1, <3>1, LeastNat
  <2>3. i # 0
    <3>1. g[0] = h[0] /\ 0 < p
      BY <1>1, <1>2, <1>3 DEF IsRun
    <3>2. 0 \notin Wrong
      BY <1>3, <3>1
    <3>3. QED
      BY <2>2, <3>2
  <2>4. i \in 1 .. n /\ i - 1 \in 0 .. n /\ i - 1 \notin Wrong
    BY <1>3, <2>2, <2>3
  <2>5. (i - 1 < p => g[i - 1] = h[i - 1]) /\ (i - 1 >= p => g[i - 1] # h[i - 1])
    BY <2>4
  <2>6. /\ g[i - 1] \in Word /\ h[i - 1] \in Word
        /\ g[i] = Up(g[i - 1], x[i]) /\ h[i] = Up(h[i - 1], y[i])
    BY <1>1, <1>2, <2>4 DEF IsRun
  <2>7. x[i] \in Byte /\ y[i] \in Byte /\ (i # p => x[i] = y[i])
    BY <2>4 DEF n
  <2>8. CASE i < p
    BY <1>3, <2>2, <2>4, <2>5, <2>6, <2>7, <2>8
  <2>9. CASE i = p
    BY <1>3, <2>2, <2>4, <2>5, <2>6, <2>7, <2>9, UpInjective
  <2>10. CASE i > p
    BY SMTT(60), <1>3, <2>2, <2>4, <2>5, <2>6, <2>7, <2>10, UpInjective
  <2>11. QED
    BY <1>3, <2>4, <2>8, <2>9, <2>10
<1>5. g[n] # h[n] /\ g[n] \in Word /\ h[n] \in Word
  BY <1>1, <1>2, <1>3, <1>4 DEF IsRun
<1>6. QED
  BY <1>0, <1>5 DEF Word

-----------------------------------------------------------------------------
(* The register is linear: the difference that two buffers make runs on by *)
(* itself, so that bits of it can be followed without knowing the buffers. *)

LEMMA ShiftLinear ==
  ASSUME NEW c \in Word, NEW d \in Word
  PROVE  Shift(Xor(c, d)) = Xor(Shift(c), Shift(d))
<1>1. ASSUME NEW e \in Word, NEW b \in 0 .. 31
      PROVE  b \in Shift(e) <=> ~ (b + 1 \in e <=> (0 \in e /\ b \in Polynomial))
  <2>1. b \in Shifted(e) <=> b + 1 \in e
    <3>1. b \in Shifted(e) <=> \E a \in e \ {0} : b = a - 1
      BY DEF Shifted
    <3>2. QED
      BY <3>1 DEF Word
  <2>2. QED
    BY <2>1 DEF Shift, Xor
<1>2. /\ Xor(c, d) \in Word /\ Shift(c) \in Word /\ Shift(d) \in Word
      /\ Shift(Xor(c, d)) \in Word /\ Xor(Shift(c), Shift(d)) \in Word
  BY XorFacts, ShiftInjective
<1>3. ASSUME NEW b \in 0 .. 31
      PROVE  b \in Shift(Xor(c, d)) <=> b \in Xor(Shift(c), Shift(d))
  <2>1. \A a : a \in Xor(c, d) <=> ~ (a \in c <=> a \in d)
    BY DEF Xor
  <2>2. b \in Xor(Shift(c), Shift(d)) <=> ~ (b \in Shift(c) <=> b \in Shift(d))
    BY DEF Xor
  <2>3. /\ b \in Shift(Xor(c, d))
             <=> ~ (b + 1 \in Xor(c, d) <=> (0 \in Xor(c, d) /\ b \in Polynomial))
        /\ b \in Shift(c) <=> ~ (b + 1 \in c <=> (0 \in c /\ b \in Polynomial))
        /\ b \in Shift(d) <=> ~ (b + 1 \in d <=> (0 \in d /\ b \in Polynomial))
    BY <1>1, <1>2
  <2>4. QED
    BY <2>1, <2>2, <2>3
<1>4. QED
  BY <1>2, <1>3 DEF Word

LEMMA Shift8Linear ==
  ASSUME NEW c \in Word, NEW d \in Word
  PROVE  Shift8(Xor(c, d)) = Xor(Shift8(c), Shift8(d))
<1>1. \A a, b \in Word : /\ Shift(a) \in Word
                          /\ Shift(Xor(a, b)) = Xor(Shift(a), Shift(b))
  BY ShiftLinear, ShiftInjective
<1> DEFINE S2(a) == Shift(Shift(a))
           S4(a) == S2(S2(a))
<1>2. \A a, b \in Word : S2(a) \in Word /\ S2(Xor(a, b)) = Xor(S2(a), S2(b))
  BY <1>1
<1> HIDE DEF S2
<1>3. \A a, b \in Word : S4(a) \in Word /\ S4(Xor(a, b)) = Xor(S4(a), S4(b))
  BY <1>2
<1>4. \A a : Shift8(a) = S4(S4(a))
  BY DEF Shift8, S2
<1> HIDE DEF S4
<1>5. QED
  BY <1>3, <1>4

\* What one byte does to the difference of two registers.
LEMMA DifferenceRuns ==
  ASSUME NEW c \in Word, NEW d \in Word, NEW a \in Byte, NEW b \in Byte
  PROVE  Xor(Up(c, a), Up(d, b)) = Shift8(Xor(Xor(c, d), Xor(a, b)))
<1>1. a \in Word /\ b \in Word
  BY DEF Byte, Word
<1>2. Xor(c, a) \in Word /\ Xor(d, b) \in Word
  BY <1>1, XorFacts
<1>3. Xor(Xor(c, a), Xor(d, b)) = Xor(Xor(c, d), Xor(a, b))
  BY DEF Xor
<1>4. QED
  BY <1>2, <1>3, Shift8Linear DEF Up

\* How one wrong bit travels through the register.
Trace(b) == Register({b}, Zeros)

LEMMA TraceSteps ==
  ASSUME NEW b \in 0 .. 7
  PROVE  /\ Trace(b)[0] = {b}
         /\ \A k \in 1 .. MaxBytes : Trace(b)[k] = Shift8(Trace(b)[k - 1])
         /\ \A k \in 1 .. MaxBytes, c \in 0 .. 31 : Trace(b)[k] # {c}
<1>1. {b} \in Word
  BY DEF Word
<1>2. Zeros \in Seq(Byte) /\ Len(Zeros) = MaxBytes
  <2>1. Zeros \in [1 .. MaxBytes -> Byte] /\ MaxBytes \in Nat
    BY DEF Zeros, Byte, MaxBytes
  <2>2. QED
    BY <2>1, FunctionIsSeq
<1>3. IsRun(Trace(b), {b}, Zeros, MaxBytes)
  BY <1>1, <1>2, RegisterIsRun DEF Trace
<1>4. ASSUME NEW k \in 1 .. MaxBytes
      PROVE  Trace(b)[k] = Shift8(Trace(b)[k - 1])
  <2>1. Trace(b)[k] = Up(Trace(b)[k - 1], Zeros[k])
    BY <1>3 DEF IsRun
  <2>2. Zeros[k] = {}
    BY DEF Zeros
  <2>3. \A c : Xor(c, {}) = c
    BY DEF Xor
  <2>4. QED
    BY <2>1, <2>2, <2>3 DEF Up
<1>5. QED
  BY <1>3, <1>4, CrcSpreadsBits DEF IsRun, Trace

\* g and h are the registers over two buffers of n bytes.
Runs(x, y, n, g, h) ==
  /\ n \in 0 .. MaxBytes
  /\ x \in Seq(Byte) /\ Len(x) = n /\ IsRun(g, 0 .. 31, x, n)
  /\ y \in Seq(Byte) /\ Len(y) = n /\ IsRun(h, 0 .. 31, y, n)

LEMMA CrcRuns ==
  ASSUME NEW x \in Seq(Byte), NEW y \in Seq(Byte),
         Len(x) \in 0 .. MaxBytes, Len(y) = Len(x)
  PROVE  \E g, h : /\ Runs(x, y, Len(x), g, h)
                   /\ crc32_compute(x) = (0 .. 31) \ g[Len(x)]
                   /\ crc32_compute(y) = (0 .. 31) \ h[Len(x)]
                   /\ g[Len(x)] \in Word /\ h[Len(x)] \in Word
<1> DEFINE n == Len(x)
           g == Register(0 .. 31, x)
           h == Register(0 .. 31, y)
<1>1. /\ crc32_compute(x) = (0 .. 31) \ g[n]
      /\ crc32_compute(y) = (0 .. 31) \ h[n]
      /\ 0 .. 31 \in Word
  BY DEF crc32_compute, Word
<1>2. IsRun(g, 0 .. 31, x, n) /\ IsRun(h, 0 .. 31, y, n)
  BY <1>1, RegisterIsRun
<1> HIDE DEF g, h
<1>3. Runs(x, y, n, g, h)
  BY <1>2 DEF Runs
<1>4. g[n] \in Word /\ h[n] \in Word
  BY <1>2 DEF IsRun, MaxBytes
<1>5. QED
  BY <1>1, <1>3, <1>4

\* Among the first m bytes only bit b of byte p differs.
OneBit(x, y, m, p, b) ==
  /\ b \in 0 .. 7 /\ Xor(x[p], y[p]) = {b}
  /\ \A i \in 1 .. m : i # p => x[i] = y[i]

LEMMA OneBitTravels ==
  ASSUME NEW x, NEW y, NEW n, NEW g, NEW h, Runs(x, y, n, g, h),
         NEW p \in 1 .. n, NEW m \in p .. n, NEW b, OneBit(x, y, m, p, b)
  PROVE  Xor(g[m], h[m]) = Trace(b)[m - p + 1]
<1> DEFINE Claim(i) == /\ i < p => g[i] = h[i]
                       /\ i >= p => Xor(g[i], h[i]) = Trace(b)[i - p + 1]
           Wrong == {i \in 0 .. m : ~ Claim(i)}
<1> USE DEF Runs, OneBit
<1>1. SUFFICES ASSUME Wrong # {} PROVE FALSE
  OBVIOUS
<1>2. MaxBytes \in Nat /\ n \in Nat /\ m \in Nat /\ n <= MaxBytes
  BY DEF MaxBytes
<1>3. PICK i \in Wrong : \A j \in Wrong : i <= j
  <2>1. Wrong \subseteq Nat
    BY <1>2
  <2> HIDE DEF Wrong
  <2>2. QED
    BY <1>1, <2>1, LeastNat
<1>4. i \in 0 .. m /\ ~ Claim(i)
  BY <1>3
<1>5. i # 0
  <2>1. g[0] = h[0] /\ 0 < p /\ ~ (0 >= p)
    BY DEF IsRun
  <2>2. Claim(0)
    BY <2>1
  <2>3. QED
    BY <1>4, <2>2
<1>6. i \in 1 .. n /\ i - 1 \in 0 .. m /\ i - 1 \in 0 .. n /\ i - 1 \notin Wrong
  BY <1>2, <1>3, <1>4, <1>5
<1>7. Claim(i - 1)
  BY <1>6
<1> HIDE DEF Wrong
<1>8. /\ g[i - 1] \in Word /\ h[i - 1] \in Word
      /\ g[i] = Up(g[i - 1], x[i]) /\ h[i] = Up(h[i - 1], y[i])
  BY <1>6 DEF IsRun
<1>9. x[i] \in Byte /\ y[i] \in Byte /\ (i # p => x[i] = y[i])
  BY <1>4, <1>5, <1>6
<1>10. Xor(g[i], h[i]) = Shift8(Xor(Xor(g[i - 1], h[i - 1]), Xor(x[i], y[i])))
  BY <1>8, <1>9, DifferenceRuns
<1>11. \A a, c : Xor(a, a) = {} /\ Xor(a, {}) = a /\ Xor({}, a) = a
  BY DEF Xor
<1>12. CASE i < p
  BY <1>2, <1>4, <1>6, <1>7, <1>8, <1>9, <1>12
<1>13. CASE i = p
  <2>1. g[i - 1] = h[i - 1]
    BY <1>2, <1>6, <1>7, <1>13
  <2>2. Xor(g[i], h[i]) = Shift8({b})
    <3>1. Xor(g[i - 1], h[i - 1]) = {}
      BY <1>11, <2>1
    <3>2. Xor(x[i], y[i]) = {b}
      BY <1>13
    <3>3. QED
      BY <1>10, <1>11, <3>1, <3>2
  <2>3. 1 \in 1 .. MaxBytes /\ 1 - 1 = 0 /\ i - p + 1 = 1
    BY <1>6, <1>13 DEF MaxBytes
  <2>4. Trace(b)[1] = Shift8({b})
    <3>1. /\ Trace(b)[0] = {b}
          /\ \A k \in 1 .. MaxBytes : Trace(b)[k] = Shift8(Trace(b)[k - 1])
      BY TraceSteps
    <3>2. Trace(b)[1] = Shift8(Trace(b)[1 - 1])
      BY <2>3, <3>1
    <3>3. QED
      BY <2>3, <3>1, <3>2
  <2>5. QED
    BY <1>4, <1>13, <2>2, <2>3, <2>4
<1>14. CASE i > p
  <2>1. /\ i - p + 1 \in 1 .. MaxBytes
        /\ (i - 1) - p + 1 = (i - p + 1) - 1
        /\ i - 1 >= p
    BY <1>2, <1>6, <1>14
  <2>2. Xor(g[i - 1], h[i - 1]) = Trace(b)[(i - p + 1) - 1]
    BY <1>7, <2>1
  <2>3. Xor(x[i], y[i]) = {}
    BY <1>9, <1>11, <1>14
  <2>4. Xor(g[i], h[i]) = Shift8(Trace(b)[(i - p + 1) - 1])
    BY <1>10, <1>11, <2>2, <2>3
  <2>5. Trace(b)[i - p + 1] = Shift8(Trace(b)[(i - p + 1) - 1])
    BY <2>1, TraceSteps
  <2>6. QED
    BY <1>2, <1>4, <1>6, <1>14, <2>4, <2>5
<1>15. QED
  BY <1>2, <1>6, <1>12, <1>13, <1>14

\* Runs that differ go on differing where the buffers are the same.
LEMMA StayApart ==
  ASSUME NEW x, NEW y, NEW n, NEW g, NEW h, Runs(x, y, n, g, h),
         NEW q \in 0 .. n, g[q] # h[q], \A i \in q + 1 .. n : x[i] = y[i]
  PROVE  g[n] # h[n]
<1> USE DEF Runs
<1> DEFINE Wrong == {i \in q .. n : g[i] = h[i]}
<1>1. SUFFICES ASSUME Wrong # {} PROVE FALSE
  OBVIOUS
<1>2. PICK i \in Wrong : \A j \in Wrong : i <= j
  <2>1. Wrong \subseteq Nat
    OBVIOUS
  <2> HIDE DEF Wrong
  <2>2. QED
    BY <1>1, <2>1, LeastNat
<1>3. i \in q .. n /\ g[i] = h[i] /\ i # q
  BY <1>2
<1>4. i \in 1 .. n /\ i \in q + 1 .. n /\ i - 1 \in q .. n /\ i - 1 \in 0 .. n
  BY <1>3
<1>5. g[i - 1] # h[i - 1]
  <2>1. i - 1 \notin Wrong
    BY <1>2, <1>4
  <2>2. QED
    BY <1>4, <2>1
<1>6. /\ g[i - 1] \in Word /\ h[i - 1] \in Word
      /\ g[i] = Up(g[i - 1], x[i]) /\ h[i] = Up(h[i - 1], y[i])
      /\ x[i] \in Byte /\ x[i] = y[i]
  BY <1>4 DEF IsRun
<1>7. QED
  BY <1>3, <1>5, <1>6, UpInjective

\* One wrong bit in the buffer is not made good by one in the CRC.
LEMMA CrcSeesBitAndCrcBit ==
  ASSUME NEW x \in Seq(Byte), NEW y \in Seq(Byte),
         NEW n \in 0 .. MaxBytes, Len(x) = n, Len(y) = n,
         NEW p \in 1 .. n, NEW b, OneBit(x, y, n, p, b), NEW c \in 0 .. 31
  PROVE  crc32_compute(y) # Xor(crc32_compute(x), {c})
<1>1. PICK g, h : /\ Runs(x, y, n, g, h)
                  /\ crc32_compute(x) = (0 .. 31) \ g[n]
                  /\ crc32_compute(y) = (0 .. 31) \ h[n]
                  /\ g[n] \in Word /\ h[n] \in Word
  BY ZenonT(60), CrcRuns
<1>2. n \in p .. n /\ n - p + 1 \in 1 .. MaxBytes
  BY DEF MaxBytes
<1>3. Xor(g[n], h[n]) = Trace(b)[n - p + 1]
  BY <1>1, <1>2, OneBitTravels
<1>4. \A k \in 1 .. MaxBytes, a \in 0 .. 31 : Trace(b)[k] # {a}
  BY TraceSteps DEF OneBit
<1>5. Xor(g[n], h[n]) # {c}
  BY <1>2, <1>3, <1>4
<1>6. (0 .. 31) \ h[n] = Xor((0 .. 31) \ g[n], {c}) => Xor(g[n], h[n]) = {c}
  BY <1>1 DEF Xor, Word
<1>7. QED
  BY <1>1, <1>5, <1>6

\* Two wrong bits in different bytes of the buffer show in the CRC.
LEMMA CrcSeesTwoBits ==
  ASSUME NEW x \in Seq(Byte), NEW y \in Seq(Byte),
         NEW n \in 0 .. MaxBytes, Len(x) = n, Len(y) = n,
         NEW p \in 1 .. n, NEW q \in 1 .. n, p < q,
         NEW b, OneBit(x, y, q - 1, p, b),
         NEW c \in 0 .. 7, Xor(x[q], y[q]) = {c},
         \A i \in q + 1 .. n : x[i] = y[i]
  PROVE  crc32_compute(y) # crc32_compute(x)
<1>1. PICK g, h : /\ Runs(x, y, n, g, h)
                  /\ crc32_compute(x) = (0 .. 31) \ g[n]
                  /\ crc32_compute(y) = (0 .. 31) \ h[n]
                  /\ g[n] \in Word /\ h[n] \in Word
  BY CrcRuns
<1>2. /\ q - 1 \in p .. n /\ q - 1 \in 0 .. n /\ q \in 0 .. n
      /\ (q - 1) - p + 1 \in 1 .. MaxBytes
  BY DEF MaxBytes
<1>3. Xor(g[q - 1], h[q - 1]) # {c}
  <2>1. Xor(g[q - 1], h[q - 1]) = Trace(b)[(q - 1) - p + 1]
    BY <1>1, <1>2, OneBitTravels
  <2>2. \A k \in 1 .. MaxBytes, a \in 0 .. 31 : Trace(b)[k] # {a}
    BY TraceSteps DEF OneBit
  <2>3. c \in 0 .. 31
    OBVIOUS
  <2>4. QED
    BY <1>2, <2>1, <2>2, <2>3
<1>4. g[q] # h[q]
  <2>1. /\ g[q - 1] \in Word /\ h[q - 1] \in Word
        /\ g[q] = Up(g[q - 1], x[q]) /\ h[q] = Up(h[q - 1], y[q])
    BY <1>1, <1>2 DEF IsRun, Runs
  <2>2. x[q] \in Word /\ y[q] \in Word
    <3>1. x[q] \in Byte /\ y[q] \in Byte
      OBVIOUS
    <3>2. \A z \in Byte : z \in Word
      BY DEF Byte, Word
    <3>3. QED
      BY <3>1, <3>2
  <2>3. Xor(g[q - 1], x[q]) \in Word /\ Xor(h[q - 1], y[q]) \in Word
    BY <2>1, <2>2, XorFacts
  <2>4. Xor(g[q - 1], x[q]) = Xor(h[q - 1], y[q])
          => Xor(g[q - 1], h[q - 1]) = Xor(x[q], y[q])
    BY DEF Xor
  <2>5. QED
    BY <1>3, <2>1, <2>3, <2>4, Shift8Injective DEF Up
<1>5. g[n] # h[n]
  BY <1>1, <1>2, <1>4, StayApart
<1>6. QED
  BY <1>1, <1>5 DEF Word

-----------------------------------------------------------------------------
(* The bytes the checks are computed over *)

\* How many data bytes the checks cover, whatever dlc says.
Covered(f) == IF Value(f.dlc) < 8 THEN Value(f.dlc) ELSE 8

LEMMA CoveredRange == \A f : Covered(f) \in 0 .. 8
<1>1. \A b : Value(b) \in Nat
  BY DEF Value, Weight
<1>2. QED
  BY <1>1 DEF Covered

LEMMA BufferBytes ==
  ASSUME NEW f, f.id \in [1 .. 4 -> Byte], f.dlc \in Byte,
         f.data \in [1 .. 8 -> Byte]
  PROVE  /\ Buffer(f) \in Seq(Byte)
         /\ Len(Buffer(f)) = 5 + Covered(f)
         /\ \A k \in 1 .. 4 : Buffer(f)[k] = f.id[k]
         /\ Buffer(f)[5] = f.dlc
         /\ \A k \in 1 .. Covered(f) : Buffer(f)[5 + k] = f.data[k]
<1> DEFINE n == Covered(f)
           header == f.id \o <<f.dlc>>
           tail == SubSeq(f.data, 1, n)
<1>1. n \in 0 .. 8
  BY CoveredRange
<1>2. Buffer(f) = header \o tail
  BY DEF Buffer, Covered
<1> HIDE DEF n
<1>3. /\ f.id \in Seq(Byte) /\ Len(f.id) = 4
      /\ f.data \in Seq(Byte) /\ Len(f.data) = 8
  <2> DEFINE words(m, w) == w \in Seq(Byte) /\ Len(w) = m
  <2>1. \A m \in Nat : \A w \in [1 .. m -> Byte] : words(m, w)
    BY FunctionIsSeq
  <2> HIDE DEF words
  <2>2. words(4, f.id) /\ words(8, f.data)
    BY <2>1
  <2>3. QED
    BY <2>2 DEF words
<1>4. /\ header \in Seq(Byte) /\ Len(header) = 5
      /\ \A k \in 1 .. 4 : header[k] = f.id[k]
      /\ header[5] = f.dlc
  <2>1. <<f.dlc>> \in Seq(Byte) /\ Len(<<f.dlc>>) = 1 /\ <<f.dlc>>[1] = f.dlc
    OBVIOUS
  <2> DEFINE last == <<f.dlc>>
  <2> HIDE DEF last
  <2>2. /\ f.id \o last \in Seq(Byte) /\ Len(f.id \o last) = Len(f.id) + Len(last)
        /\ \A k \in 1 .. Len(f.id) + Len(last) :
             (f.id \o last)[k] = IF k <= Len(f.id) THEN f.id[k] ELSE last[k - Len(f.id)]
    BY <1>3, <2>1, ConcatProperties DEF last
  <2>3. QED
    BY <1>3, <2>1, <2>2 DEF last
<1>5. /\ tail \in Seq(Byte) /\ Len(tail) = n
      /\ \A k \in 1 .. n : tail[k] = f.data[k]
  BY <1>1, <1>3, SubSeqProperties
<1> HIDE DEF header, tail
<1>6. /\ Buffer(f) \in Seq(Byte) /\ Len(Buffer(f)) = 5 + n
      /\ \A k \in 1 .. 5 : Buffer(f)[k] = header[k]
      /\ \A k \in 1 .. n : Buffer(f)[5 + k] = tail[k]
  <2>1. /\ Buffer(f) \in Seq(Byte) /\ Len(Buffer(f)) = 5 + n
        /\ \A k \in 1 .. 5 + n :
             Buffer(f)[k] = IF k <= 5 THEN header[k] ELSE tail[k - 5]
    <3>1. /\ header \o tail \in Seq(Byte)
          /\ Len(header \o tail) = Len(header) + Len(tail)
          /\ \A k \in 1 .. Len(header) + Len(tail) : (header \o tail)[k] =
               IF k <= Len(header) THEN header[k] ELSE tail[k - Len(header)]
      BY ZenonT(60), <1>4, <1>5, ConcatProperties
    <3>2. QED
      BY <1>2, <1>4, <1>5, <3>1
  <2>2. \A k \in 1 .. 5 : k \in 1 .. 5 + n /\ k <= 5
    BY <1>1
  <2>3. \A k \in 1 .. n : 5 + k \in 1 .. 5 + n /\ ~(5 + k <= 5) /\ (5 + k) - 5 = k
    BY <1>1
  <2>4. QED
    BY <2>1, <2>2, <2>3
<1>7. QED
  BY SMTT(60), <1>4, <1>5, <1>6 DEF n

\* Two frames that agree in everything the checks cover have the same buffer.
LEMMA SameBuffer ==
  ASSUME NEW f, f.id \in [1 .. 4 -> Byte], f.dlc \in Byte,
         f.data \in [1 .. 8 -> Byte],
         NEW g, g.id \in [1 .. 4 -> Byte], g.dlc = f.dlc,
         g.data \in [1 .. 8 -> Byte],
         \A k \in 1 .. 4 : f.id[k] = g.id[k],
         \A k \in 1 .. Covered(f) : f.data[k] = g.data[k]
  PROVE  Buffer(f) = Buffer(g)
<1>1. Covered(g) = Covered(f) /\ Covered(f) \in 0 .. 8
  BY CoveredRange DEF Covered
<1>2. /\ Buffer(f) \in Seq(Byte) /\ Buffer(g) \in Seq(Byte)
      /\ Len(Buffer(f)) = 5 + Covered(f) /\ Len(Buffer(g)) = 5 + Covered(f)
  BY <1>1, BufferBytes
<1>3. ASSUME NEW k \in 1 .. 5 + Covered(f)
      PROVE  Buffer(f)[k] = Buffer(g)[k]
  <2>1. CASE k \in 1 .. 4
    BY <2>1, BufferBytes
  <2>2. CASE k = 5
    BY <2>2, BufferBytes
  <2>3. CASE k > 5
    <3>1. k - 5 \in 1 .. Covered(f) /\ 5 + (k - 5) = k
      BY <1>1, <2>3
    <3>2. /\ Buffer(f)[5 + (k - 5)] = f.data[k - 5]
          /\ Buffer(g)[5 + (k - 5)] = g.data[k - 5]
      BY SMTT(60), <1>1, <3>1, BufferBytes
    <3>3. QED
      BY <3>1, <3>2
  <2>4. QED
    BY <1>1, <2>1, <2>2, <2>3
<1>4. QED
  BY <1>1, <1>2, <1>3

-----------------------------------------------------------------------------
(* The MAC *)

\* The 32 bytes are the accumulated byte in 32 disguises.
LEMMA MacIsAccumulated ==
  ASSUME NEW k, NEW l, NEW x, NEW y
  PROVE  hmac_sha256_dummy(k, x) = hmac_sha256_dummy(l, y)
           <=> Accumulated(k, x) = Accumulated(l, y)
<1>1. ASSUME hmac_sha256_dummy(k, x) = hmac_sha256_dummy(l, y)
      PROVE  Accumulated(k, x) = Accumulated(l, y)
  <2>1. /\ hmac_sha256_dummy(k, x)[0] = Xor(Accumulated(k, x), ByteOf(0))
        /\ hmac_sha256_dummy(l, y)[0] = Xor(Accumulated(l, y), ByteOf(0))
    BY DEF hmac_sha256_dummy
  <2>2. Xor(Accumulated(k, x), ByteOf(0)) = Xor(Accumulated(l, y), ByteOf(0))
    BY <1>1, <2>1
  <2>3. Accumulated(k, x) \in Word /\ Accumulated(l, y) \in Word /\ ByteOf(0) \in Word
    BY DEF Accumulated, XorAll, Xor, ByteOf, Word
  <2>4. QED
    BY <2>2, <2>3, XorFacts
<1>2. QED
  BY <1>1 DEF hmac_sha256_dummy

\* Over one buffer two ECUs make the same MAC exactly when the XOR of their
\* keys is the same.
LEMMA SameMac ==
  ASSUME NEW a, NEW b, NEW buf
  PROVE  hmac_sha256_dummy(comm_key(a), buf) = hmac_sha256_dummy(comm_key(b), buf)
           <=> KeyByte(a) = KeyByte(b)
<1>1. /\ KeyByte(a) = XorAll(comm_key(a), DOMAIN comm_key(a))
      /\ KeyByte(b) = XorAll(comm_key(b), DOMAIN comm_key(b))
  BY DEF KeyByte, comm_key
<1>2. /\ KeyByte(a) \in Word /\ KeyByte(b) \in Word
      /\ XorAll(buf, DOMAIN buf) \in Word
  BY DEF KeyByte, XorAll, Word
<1>3. Accumulated(comm_key(a), buf) = Accumulated(comm_key(b), buf)
        <=> KeyByte(a) = KeyByte(b)
  BY <1>1, <1>2, XorFacts DEF Accumulated
<1>4. QED
  BY <1>3, MacIsAccumulated

-----------------------------------------------------------------------------
(* A frame under way *)

WireFrames ==
  [id : [1 .. 4 -> Byte], dlc : Byte, data : [1 .. 8 -> Byte],
   crc : Word, mac : [0 .. 31 -> Byte]]

\* The bytes in which no bit has flipped are those that were sent.
OnlyDamaged ==
  /\ \A k \in 1 .. 4 : <<"id", k>> \notin Damaged => frame.id[k] = sent.id[k]
  /\ <<"dlc", 0>> \notin Damaged => frame.dlc = sent.dlc
  /\ \A k \in 1 .. 8 : <<"data", k>> \notin Damaged => frame.data[k] = sent.data[k]
  /\ <<"crc", 0>> \notin Damaged => frame.crc = crc32_compute(Buffer(sent))
  /\ \A k \in 0 .. 31 : <<"mac", k>> \notin Damaged =>
       frame.mac[k] = hmac_sha256_dummy(comm_key(sender), Buffer(sent))[k]

\* Each field is the one that was sent, but for the bits that have flipped.
Wrong(field, k) == {b \in 0 .. 31 : <<field, k, b>> \in flips}

ByBits ==
  /\ \A k \in 1 .. 4 : frame.id[k] = Xor(sent.id[k], Wrong("id", k))
  /\ frame.dlc = Xor(sent.dlc, Wrong("dlc", 0))
  /\ \A k \in 1 .. 8 : frame.data[k] = Xor(sent.data[k], Wrong("data", k))
  /\ frame.crc = Xor(crc32_compute(Buffer(sent)), Wrong("crc", 0))

IInv ==
  /\ sent \in Frames /\ sent \in Cleartexts
  /\ stage \in {"clear", "wire", "verified"}
  /\ flips \subseteq Damage /\ IsFiniteSet(flips)
  /\ Cardinality(flips) <= MaxFlips
  /\ stage = "clear" => frame = sent /\ flips = {}
  /\ stage # "clear" => frame \in WireFrames /\ OnlyDamaged /\ ByBits
  /\ stage = "verified" => verdict = hsm_verify_frame(receiver, frame)

LEMMA InvInit == Init => IInv
  BY HsmAssumption, FS_EmptySet DEF Init, IInv

LEMMA ProtectKeeps == ASSUME IInv, Protect PROVE IInv'
<1> DEFINE p == hsm_protect_frame(sender, frame)
<1>1. frame = sent /\ sent \in Cleartexts /\ frame' = p
  BY DEF IInv, Protect
<1>2. crc32_compute(Buffer(frame)) \in Word
  BY DEF crc32_compute, Word
<1>3. hmac_sha256_dummy(comm_key(sender), Buffer(frame)) \in [0 .. 31 -> Byte]
  BY DEF hmac_sha256_dummy, Accumulated, XorAll, Xor, ByteOf, Byte
<1>4. p \in WireFrames
  BY <1>1, <1>2, <1>3 DEF hsm_protect_frame, WireFrames, Cleartexts, Byte
<1>5. OnlyDamaged'
  BY <1>1 DEF OnlyDamaged, hsm_protect_frame, Protect
<1>6. ByBits'
  <2>1. \A field, k : Wrong(field, k)' = {}
    BY DEF Wrong, IInv, Protect
  <2>2. \A a : Xor(a, {}) = a
    BY DEF Xor
  <2>3. /\ sent' = sent /\ frame'.id = sent.id /\ frame'.dlc = sent.dlc
        /\ frame'.data = sent.data /\ frame'.crc = crc32_compute(Buffer(sent))
    BY <1>1 DEF hsm_protect_frame, Protect
  <2>4. QED
    BY <2>1, <2>2, <2>3 DEF ByBits
<1>7. QED
  BY <1>1, <1>4, <1>5, <1>6 DEF IInv, Protect

LEMMA BitsKept == ASSUME IInv, NEW d \in Damage, Flip(d) PROVE ByBits'
<1>1. /\ frame \in WireFrames /\ ByBits /\ frame' = Flipped(frame, d)
      /\ d \notin flips /\ flips' = flips \cup {d} /\ sent' = sent
  BY DEF IInv, Flip
<1>2. ASSUME NEW field, NEW k, NEW b \in 0 .. 31, d = <<field, k, b>>
      PROVE  /\ \A a : Xor(Xor(a, Wrong(field, k)), {b}) = Xor(a, Wrong(field, k)')
             /\ \A f, j : f # field \/ j # k => Wrong(f, j)' = Wrong(f, j)
  <2>1. Wrong(field, k)' = Wrong(field, k) \cup {b} /\ b \notin Wrong(field, k)
    BY <1>1, <1>2 DEF Wrong
  <2>2. ASSUME NEW f, NEW j, f # field \/ j # k
        PROVE  Wrong(f, j)' = Wrong(f, j)
    BY <1>1, <1>2, <2>2 DEF Wrong
  <2>3. QED
    BY <2>1, <2>2 DEF Xor
<1>3. CASE \E k \in 1 .. 4, b \in 0 .. 7 : d = <<"id", k, b>>
  <2>1. PICK k \in 1 .. 4, b \in 0 .. 7 : d = <<"id", k, b>>
    BY <1>3
  <2>0. b \in 0 .. 31
    OBVIOUS
  <2>2. frame' = [frame EXCEPT !.id[k] = Xor(@, {b})]
    BY <1>1, <2>1 DEF Flipped
  <2>3. /\ \A a : Xor(Xor(a, Wrong("id", k)), {b}) = Xor(a, Wrong("id", k)')
        /\ \A f, j : f # "id" \/ j # k => Wrong(f, j)' = Wrong(f, j)
    BY ZenonT(60), <1>2, <2>0, <2>1
  <2>4. /\ frame'.id = [frame.id EXCEPT ![k] = Xor(frame.id[k], {b})]
        /\ frame'.data = frame.data /\ frame'.dlc = frame.dlc /\ frame'.crc = frame.crc
    BY <1>1, <2>2 DEF WireFrames
  <2>5. ASSUME NEW j \in 1 .. 4
        PROVE  frame'.id[j] = Xor(sent.id[j], Wrong("id", j)')
    <3>1. CASE j = k
      BY SMTT(60), <1>1, <2>3, <2>4, <3>1 DEF ByBits, WireFrames
    <3>2. CASE j # k
      BY <1>1, <2>3, <2>4, <3>2 DEF ByBits, WireFrames
    <3>3. QED
      BY <3>1, <3>2
  <2>6. QED
    BY <1>1, <2>3, <2>4, <2>5 DEF ByBits
<1>4. CASE \E b \in 0 .. 7 : d = <<"dlc", 0, b>>
  <2>1. PICK b \in 0 .. 7 : d = <<"dlc", 0, b>>
    BY <1>4
  <2>0. b \in 0 .. 31
    OBVIOUS
  <2>2. frame' = [frame EXCEPT !.dlc = Xor(@, {b})]
    BY <1>1, <2>1 DEF Flipped
  <2>3. /\ \A a : Xor(Xor(a, Wrong("dlc", 0)), {b}) = Xor(a, Wrong("dlc", 0)')
        /\ \A f, j : f # "dlc" \/ j # 0 => Wrong(f, j)' = Wrong(f, j)
    BY ZenonT(60), <1>2, <2>0, <2>1
  <2>4. QED
    BY ZenonT(60), <1>1, <2>2, <2>3 DEF ByBits, WireFrames
<1>5. CASE \E k \in 1 .. 8, b \in 0 .. 7 : d = <<"data", k, b>>
  <2>1. PICK k \in 1 .. 8, b \in 0 .. 7 : d = <<"data", k, b>>
    BY <1>5
  <2>0. b \in 0 .. 31
    OBVIOUS
  <2>2. frame' = [frame EXCEPT !.data[k] = Xor(@, {b})]
    BY <1>1, <2>1 DEF Flipped
  <2>3. /\ \A a : Xor(Xor(a, Wrong("data", k)), {b}) = Xor(a, Wrong("data", k)')
        /\ \A f, j : f # "data" \/ j # k => Wrong(f, j)' = Wrong(f, j)
    BY ZenonT(60), <1>2, <2>0, <2>1
  <2>4. /\ frame'.data = [frame.data EXCEPT ![k] = Xor(frame.data[k], {b})]
        /\ frame'.id = frame.id /\ frame'.dlc = frame.dlc /\ frame'.crc = frame.crc
    BY <1>1, <2>2 DEF WireFrames
  <2>5. ASSUME NEW j \in 1 .. 8
        PROVE  frame'.data[j] = Xor(sent.data[j], Wrong("data", j)')
    <3>1. CASE j = k
      BY SMTT(60), <1>1, <2>3, <2>4, <3>1 DEF ByBits, WireFrames
    <3>2. CASE j # k
      BY <1>1, <2>3, <2>4, <3>2 DEF ByBits, WireFrames
    <3>3. QED
      BY <3>1, <3>2
  <2>6. QED
    BY <1>1, <2>3, <2>4, <2>5 DEF ByBits
<1>6. CASE \E b \in 0 .. 31 : d = <<"crc", 0, b>>
  <2>1. PICK b \in 0 .. 31 : d = <<"crc", 0, b>>
    BY <1>6
  <2>0. b \in 0 .. 31
    OBVIOUS
  <2>2. frame' = [frame EXCEPT !.crc = Xor(@, {b})]
    BY <1>1, <2>1 DEF Flipped
  <2>3. /\ \A a : Xor(Xor(a, Wrong("crc", 0)), {b}) = Xor(a, Wrong("crc", 0)')
        /\ \A f, j : f # "crc" \/ j # 0 => Wrong(f, j)' = Wrong(f, j)
    BY ZenonT(60), <1>2, <2>0, <2>1
  <2>4. QED
    BY ZenonT(60), <1>1, <2>2, <2>3 DEF ByBits, WireFrames
<1>7. CASE \E k \in 0 .. 31, b \in 0 .. 7 : d = <<"mac", k, b>>
  <2>1. PICK k \in 0 .. 31, b \in 0 .. 7 : d = <<"mac", k, b>>
    BY <1>7
  <2>0. b \in 0 .. 31
    OBVIOUS
  <2>2. frame' = [frame EXCEPT !.mac[k] = Xor(@, {b})]
    BY <1>1, <2>1 DEF Flipped
  <2>3. \A f, j : f # "mac" \/ j # k => Wrong(f, j)' = Wrong(f, j)
    BY <1>2, <2>0, <2>1
  <2>4. QED
    BY <1>1, <2>2, <2>3 DEF ByBits, WireFrames
<1>8. QED
  BY <1>3, <1>4, <1>5, <1>6, <1>7, HsmAssumption DEF IsBit

LEMMA FlipKeeps == ASSUME IInv, NEW d \in Damage, Flip(d) PROVE IInv'
<1>1. /\ frame \in WireFrames /\ OnlyDamaged /\ frame' = Flipped(frame, d)
      /\ stage = "wire" /\ stage' = "wire" /\ UNCHANGED <<sender, sent>>
  BY DEF IInv, Flip
<1>2. Damaged' = Damaged \cup {<<d[1], d[2]>>}
  BY DEF Damaged, Flip
<1>3. ASSUME NEW x \in Byte, NEW b \in 0 .. 7 PROVE Xor(x, {b}) \in Byte
  BY DEF Xor, Byte
<1>4. ASSUME NEW b \in 0 .. 31 PROVE Xor(frame.crc, {b}) \in Word
  BY <1>1 DEF Xor, Word, WireFrames
<1>5. frame' \in WireFrames /\ OnlyDamaged'
  <2>1. CASE \E k \in 1 .. 4, b \in 0 .. 7 : d = <<"id", k, b>>
    <3>1. PICK k \in 1 .. 4, b \in 0 .. 7 : d = <<"id", k, b>>
      BY <2>1
    <3>2. frame' = [frame EXCEPT !.id[k] = Xor(@, {b})]
      BY <1>1, <3>1 DEF Flipped
    <3>3. frame' \in WireFrames
      <4>1. frame.id[k] \in Byte
        BY <1>1 DEF WireFrames
      <4>2. Xor(frame.id[k], {b}) \in Byte
        BY <1>3, <4>1
      <4>3. QED
        BY <1>1, <3>2, <4>2 DEF WireFrames
    <3>4. QED
      BY ZenonT(60), <1>1, <1>2, <3>1, <3>2, <3>3 DEF OnlyDamaged, WireFrames
  <2>2. CASE \E b \in 0 .. 7 : d = <<"dlc", 0, b>>
    <3>1. PICK b \in 0 .. 7 : d = <<"dlc", 0, b>>
      BY <2>2
    <3>2. frame' = [frame EXCEPT !.dlc = Xor(@, {b})]
      BY <1>1, <3>1 DEF Flipped
    <3>3. frame' \in WireFrames
      <4>1. Xor(frame.dlc, {b}) \in Byte
        BY <1>1, <1>3 DEF WireFrames
      <4>2. QED
        BY <1>1, <3>2, <4>1 DEF WireFrames
    <3>4. QED
      BY <1>1, <1>2, <3>1, <3>2, <3>3 DEF OnlyDamaged, WireFrames
  <2>3. CASE \E k \in 1 .. 8, b \in 0 .. 7 : d = <<"data", k, b>>
    <3>1. PICK k \in 1 .. 8, b \in 0 .. 7 : d = <<"data", k, b>>
      BY <2>3
    <3>2. frame' = [frame EXCEPT !.data[k] = Xor(@, {b})]
      BY <1>1, <3>1 DEF Flipped
    <3>3. frame' \in WireFrames
      <4>1. frame.data[k] \in Byte
        BY <1>1 DEF WireFrames
      <4>2. Xor(frame.data[k], {b}) \in Byte
        BY <1>3, <4>1
      <4>3. QED
        BY <1>1, <3>2, <4>2 DEF WireFrames
    <3>4. QED
      BY ZenonT(60), <1>1, <1>2, <3>1, <3>2, <3>3 DEF OnlyDamaged, WireFrames
  <2>4. CASE \E b \in 0 .. 31 : d = <<"crc", 0, b>>
    <3>1. PICK b \in 0 .. 31 : d = <<"crc", 0, b>>
      BY <2>4
    <3>2. frame' = [frame EXCEPT !.crc = Xor(@, {b})]
      BY <1>1, <3>1 DEF Flipped
    <3>3. frame' \in WireFrames
      BY <1>1, <1>4, <3>2 DEF WireFrames
    <3>4. QED
      BY <1>1, <1>2, <3>1, <3>2, <3>3 DEF OnlyDamaged, WireFrames
  <2>5. CASE \E k \in 0 .. 31, b \in 0 .. 7 : d = <<"mac", k, b>>
    <3>1. PICK k \in 0 .. 31, b \in 0 .. 7 : d = <<"mac", k, b>>
      BY <2>5
    <3>2. frame' = [frame EXCEPT !.mac[k] = Xor(@, {b})]
      BY <1>1, <3>1 DEF Flipped
    <3>3. frame' \in WireFrames
      <4>1. frame.mac[k] \in Byte
        BY <1>1 DEF WireFrames
      <4>2. Xor(frame.mac[k], {b}) \in Byte
        BY <1>3, <4>1
      <4>3. QED
        BY <1>1, <3>2, <4>2 DEF WireFrames
    <3>4. QED
      BY ZenonT(60), <1>1, <1>2, <3>1, <3>2, <3>3 DEF OnlyDamaged, WireFrames
  <2>6. QED
    BY <2>1, <2>2, <2>3, <2>4, <2>5, HsmAssumption DEF IsBit
<1>6. ByBits'
  BY BitsKept
<1>7. IsFiniteSet(flips') /\ Cardinality(flips') <= MaxFlips
  <2>1. /\ IsFiniteSet(flips) /\ d \notin flips /\ flips' = flips \cup {d}
        /\ Cardinality(flips) < MaxFlips
    BY DEF IInv, Flip
  <2>2. IsFiniteSet(flips') /\ Cardinality(flips') = Cardinality(flips) + 1
    BY <2>1, FS_AddElement
  <2>3. Cardinality(flips) \in Nat /\ MaxFlips \in Nat
    BY <2>1, FS_CardinalityType, HsmAssumption
  <2>4. QED
    BY <2>1, <2>2, <2>3
<1>8. QED
  BY <1>1, <1>5, <1>6, <1>7 DEF IInv, Flip

LEMMA InvNext == IInv /\ [Next]_vars => IInv'
<1> SUFFICES ASSUME IInv, [Next]_vars PROVE IInv'
  OBVIOUS
<1>1. CASE Protect
  BY <1>1, ProtectKeeps
<1>2. CASE Verify
  BY ZenonT(60), <1>2 DEF IInv, Verify, OnlyDamaged, Damaged, ByBits, Wrong
<1>3. ASSUME NEW d \in Damage, Flip(d) PROVE IInv'
  BY <1>3, FlipKeeps
<1>4. CASE UNCHANGED vars
  BY <1>4 DEF IInv, vars, OnlyDamaged, Damaged, ByBits, Wrong
<1>5. QED
  BY <1>1, <1>2, <1>3, <1>4 DEF Next

LEMMA InvHolds == Spec => []IInv
  BY InvInit, InvNext, PTL DEF Spec

-----------------------------------------------------------------------------
(* What the verdict says *)

\* An undamaged frame is accepted between any two ECUs whose keys have the same
\* XOR, and refused between any others (hsm.c:21-46, 79-97, 99-127).
LEMMA InvRoundTrip == IInv => RoundTrip
<1> SUFFICES ASSUME IInv, stage = "verified", flips = {}
             PROVE  verdict <=> SameKeyByte
  BY DEF RoundTrip
<1>1. Damaged = {}
  BY DEF Damaged
<1>2. frame \in WireFrames /\ OnlyDamaged /\ sent \in Cleartexts
  BY DEF IInv
<1>3. Buffer(frame) = Buffer(sent)
  <2>1. /\ \A k \in 1 .. 4 : frame.id[k] = sent.id[k]
        /\ frame.dlc = sent.dlc
        /\ \A k \in 1 .. 8 : frame.data[k] = sent.data[k]
    BY <1>1, <1>2 DEF OnlyDamaged
  <2>2. \A k \in 1 .. Covered(frame) : frame.data[k] = sent.data[k]
    BY <2>1, CoveredRange
  <2>3. QED
    BY <1>2, <2>1, <2>2, SameBuffer DEF WireFrames, Cleartexts, Byte
<1>4. frame.crc = crc32_compute(Buffer(sent))
  BY <1>1, <1>2 DEF OnlyDamaged
<1>5. frame.mac = hmac_sha256_dummy(comm_key(sender), Buffer(sent))
  <2>1. \A k \in 0 .. 31 :
          frame.mac[k] = hmac_sha256_dummy(comm_key(sender), Buffer(sent))[k]
    BY <1>1, <1>2 DEF OnlyDamaged
  <2>2. QED
    BY <1>2, <2>1 DEF WireFrames, hmac_sha256_dummy
<1>6. verdict <=> hmac_sha256_dummy(comm_key(receiver), Buffer(sent)) = frame.mac
  BY <1>3, <1>4 DEF IInv, hsm_verify_frame, hsm_verify_mac
<1>7. QED
  BY <1>5, <1>6, SameMac DEF SameKeyByte

\* Damage in one byte of the identifier or the data shows in the CRC, unless no
\* program reads the byte.
LEMMA InvOneByteRefused == IInv => OneByteRefused
<1> SUFFICES ASSUME IInv, stage = "verified", verdict,
                    NEW field \in {"id", "data"}, NEW k \in 1 .. 8,
                    Damaged \subseteq {<<field, k>>}
             PROVE  Buffer(frame) = Buffer(sent)
  BY DEF OneByteRefused
<1>1. frame \in WireFrames /\ OnlyDamaged /\ sent \in Cleartexts
  BY DEF IInv
<1>2. /\ frame.id \in [1 .. 4 -> Byte] /\ sent.id \in [1 .. 4 -> Byte]
      /\ frame.data \in [1 .. 8 -> Byte] /\ sent.data \in [1 .. 8 -> Byte]
      /\ frame.dlc \in Byte /\ sent.dlc \in Byte
  BY <1>1 DEF WireFrames, Cleartexts, Byte
<1>3. /\ frame.dlc = sent.dlc
      /\ frame.crc = crc32_compute(Buffer(sent))
      /\ \A i \in 1 .. 4 : <<field, k>> # <<"id", i>> => frame.id[i] = sent.id[i]
      /\ \A i \in 1 .. 8 : <<field, k>> # <<"data", i>> => frame.data[i] = sent.data[i]
  BY <1>1 DEF OnlyDamaged
<1>4. crc32_compute(Buffer(frame)) = crc32_compute(Buffer(sent))
  BY <1>3 DEF IInv, hsm_verify_frame
<1> DEFINE n == Covered(frame)
<1>5. n \in 0 .. 8 /\ Covered(sent) = n
  BY <1>3, CoveredRange DEF Covered
<1>6. /\ Buffer(frame) \in Seq(Byte) /\ Len(Buffer(frame)) = 5 + n
      /\ \A i \in 1 .. 4 : Buffer(frame)[i] = frame.id[i]
      /\ Buffer(frame)[5] = frame.dlc
      /\ \A i \in 1 .. n : Buffer(frame)[5 + i] = frame.data[i]
  BY <1>2, BufferBytes
<1>7. /\ Buffer(sent) \in Seq(Byte) /\ Len(Buffer(sent)) = 5 + n
      /\ \A i \in 1 .. 4 : Buffer(sent)[i] = sent.id[i]
      /\ Buffer(sent)[5] = sent.dlc
      /\ \A i \in 1 .. n : Buffer(sent)[5 + i] = sent.data[i]
  BY <1>2, <1>5, BufferBytes
<1> HIDE DEF n
<1>8. ASSUME NEW p \in 1 .. 5 + n,
             \A i \in 1 .. 5 + n : i # p => Buffer(frame)[i] = Buffer(sent)[i]
      PROVE  Buffer(frame) = Buffer(sent)
  <2> DEFINE x == Buffer(frame)
             y == Buffer(sent)
  <2>1. /\ x \in Seq(Byte) /\ y \in Seq(Byte) /\ Len(x) = 5 + n /\ Len(y) = 5 + n
        /\ crc32_compute(x) = crc32_compute(y)
        /\ \A i \in 1 .. 5 + n : i # p => x[i] = y[i]
    BY <1>4, <1>6, <1>7, <1>8
  <2> HIDE DEF x, y
  <2>2. x[p] = y[p]
    BY <2>1, CrcSeesOneByte
  <2>3. \A i \in 1 .. 5 + n : x[i] = y[i]
    BY <2>1, <2>2
  <2>4. x = y
    BY <1>5, <2>1, <2>3
  <2>5. QED
    BY <2>4 DEF x, y
<1>9. ASSUME NEW i \in 1 .. 5 + n
      PROVE  i \in 1 .. 4 \/ i = 5 \/ (i - 5 \in 1 .. n /\ i - 5 \in 1 .. 8 /\ i = 5 + (i - 5))
  BY <1>5
<1>10. CASE field = "id" /\ k \in 1 .. 4
  <2>1. k \in 1 .. 5 + n
    BY <1>5, <1>10
  <2>2. ASSUME NEW i \in 1 .. 5 + n, i # k
        PROVE  Buffer(frame)[i] = Buffer(sent)[i]
    <3>1. CASE i \in 1 .. 4
      BY <1>3, <1>6, <1>7, <2>2, <3>1
    <3>2. CASE i = 5
      BY <1>3, <1>6, <1>7, <3>2
    <3>3. CASE i - 5 \in 1 .. n /\ i - 5 \in 1 .. 8 /\ i = 5 + (i - 5)
      <4>1. frame.data[i - 5] = sent.data[i - 5]
        BY <1>3, <1>10, <3>3
      <4>2. QED
        BY <1>6, <1>7, <3>3, <4>1
    <3>4. QED
      BY <1>9, <3>1, <3>2, <3>3
  <2>3. QED
    BY <1>8, <2>1, <2>2
<1>11. CASE field = "data" /\ k \in 1 .. n
  <2>1. 5 + k \in 1 .. 5 + n
    BY <1>5, <1>11
  <2>2. ASSUME NEW i \in 1 .. 5 + n, i # 5 + k
        PROVE  Buffer(frame)[i] = Buffer(sent)[i]
    <3>1. CASE i \in 1 .. 4
      BY <1>3, <1>6, <1>7, <1>11, <3>1
    <3>2. CASE i = 5
      BY <1>3, <1>6, <1>7, <3>2
    <3>3. CASE i - 5 \in 1 .. n /\ i - 5 \in 1 .. 8 /\ i = 5 + (i - 5)
      <4>1. frame.data[i - 5] = sent.data[i - 5]
        <5>1. i - 5 # k
          BY <2>2, <3>3
        <5>2. QED
          BY <1>3, <3>3, <5>1
      <4>2. QED
        BY <1>6, <1>7, <3>3, <4>1
    <3>4. QED
      BY <1>9, <3>1, <3>2, <3>3
  <2>3. QED
    BY <1>8, <2>1, <2>2
<1>12. CASE (field = "id" /\ k \notin 1 .. 4) \/ (field = "data" /\ k \notin 1 .. n)
  <2>1. \A i \in 1 .. 4 : frame.id[i] = sent.id[i]
    BY <1>3, <1>12
  <2>2. \A i \in 1 .. n : frame.data[i] = sent.data[i]
    <3>1. SUFFICES ASSUME NEW i \in 1 .. n PROVE frame.data[i] = sent.data[i]
      OBVIOUS
    <3>2. i \in 1 .. 8
      BY <1>5
    <3>3. QED
      BY <1>3, <1>12, <3>2
  <2>3. QED
    BY <1>2, <1>3, <2>1, <2>2, SameBuffer DEF n
<1>13. QED
  BY <1>10, <1>11, <1>12

\* A third member of a set of at most two is one of the first two.
LEMMA AtMostTwo ==
  ASSUME NEW S, IsFiniteSet(S), Cardinality(S) <= 2,
         NEW a \in S, NEW b \in S, a # b, NEW c \in S
  PROVE  c = a \/ c = b
<1> SUFFICES ASSUME c # a, c # b PROVE FALSE
  OBVIOUS
<1> DEFINE A == S \ {a}
           B == A \ {b}
           C == B \ {c}
<1>1. /\ IsFiniteSet(A) /\ Cardinality(A) = Cardinality(S) - 1
      /\ Cardinality(S) \in Nat
  BY FS_RemoveElement, FS_CardinalityType
<1>2. b \in A /\ c \in B
  OBVIOUS
<1> HIDE DEF A
<1>3. IsFiniteSet(B) /\ Cardinality(B) = Cardinality(A) - 1
  BY <1>1, <1>2, FS_RemoveElement
<1> HIDE DEF B
<1>4. IsFiniteSet(C) /\ Cardinality(C) = Cardinality(B) - 1
  BY <1>2, <1>3, FS_RemoveElement
<1> HIDE DEF C
<1>5. Cardinality(C) \in Nat
  BY <1>4, FS_CardinalityType
<1>6. QED
  BY <1>1, <1>3, <1>4, <1>5

\* The place of bit b of byte i of the buffer in the frame, and the bits that
\* have flipped there.
Place(i, b) ==
  IF i <= 4 THEN <<"id", i, b>> ELSE IF i = 5 THEN <<"dlc", 0, b>>
            ELSE <<"data", i - 5, b>>

Errors(i) == {b \in 0 .. 31 : Place(i, b) \in flips}

LEMMA BufferDamage ==
  ASSUME IInv, stage = "verified", Len(Buffer(frame)) = Len(Buffer(sent))
  PROVE  /\ Buffer(frame) \in Seq(Byte) /\ Buffer(sent) \in Seq(Byte)
         /\ Len(Buffer(sent)) \in 5 .. MaxBytes
         /\ \A i \in 1 .. Len(Buffer(sent)) :
              Buffer(frame)[i] = Xor(Buffer(sent)[i], Errors(i))
<1>1. frame \in WireFrames /\ ByBits /\ sent \in Cleartexts
  BY DEF IInv
<1>2. /\ frame.id \in [1 .. 4 -> Byte] /\ sent.id \in [1 .. 4 -> Byte]
      /\ frame.data \in [1 .. 8 -> Byte] /\ sent.data \in [1 .. 8 -> Byte]
      /\ frame.dlc \in Byte /\ sent.dlc \in Byte
  BY <1>1 DEF WireFrames, Cleartexts, Byte
<1> DEFINE n == Covered(sent)
           x == Buffer(sent)
           y == Buffer(frame)
<1>3. /\ y \in Seq(Byte) /\ Len(y) = 5 + Covered(frame)
      /\ \A i \in 1 .. 4 : y[i] = frame.id[i]
      /\ y[5] = frame.dlc
      /\ \A i \in 1 .. Covered(frame) : y[5 + i] = frame.data[i]
  BY <1>2, BufferBytes
<1>4. /\ x \in Seq(Byte) /\ Len(x) = 5 + n
      /\ \A i \in 1 .. 4 : x[i] = sent.id[i]
      /\ x[5] = sent.dlc
      /\ \A i \in 1 .. n : x[5 + i] = sent.data[i]
  BY <1>2, BufferBytes
<1>5. n \in 0 .. 8 /\ Covered(frame) = n
  <2>1. n \in 0 .. 8 /\ Covered(frame) \in 0 .. 8
    BY CoveredRange
  <2>2. Len(y) = Len(x)
    OBVIOUS
  <2> HIDE DEF n, x, y
  <2>3. QED
    BY SMTT(60), <1>3, <1>4, <2>1, <2>2
<1> HIDE DEF n, x, y
<1>6. ASSUME NEW i \in 1 .. 5 + n PROVE y[i] = Xor(x[i], Errors(i))
  <2>1. CASE i \in 1 .. 4
    <3>1. Errors(i) = Wrong("id", i)
      BY <2>1 DEF Errors, Place, Wrong
    <3>2. QED
      BY <1>1, <1>3, <1>4, <2>1, <3>1 DEF ByBits
  <2>2. CASE i = 5
    <3>1. Errors(i) = Wrong("dlc", 0)
      BY <2>2 DEF Errors, Place, Wrong
    <3>2. QED
      BY <1>1, <1>3, <1>4, <2>2, <3>1 DEF ByBits
  <2>3. CASE i > 5
    <3>1. i - 5 \in 1 .. n /\ i - 5 \in 1 .. 8 /\ 5 + (i - 5) = i
      BY <1>5, <2>3
    <3>2. Errors(i) = Wrong("data", i - 5)
      BY <2>3 DEF Errors, Place, Wrong
    <3>3. y[i] = frame.data[i - 5] /\ x[i] = sent.data[i - 5]
      BY <1>3, <1>4, <1>5, <3>1
    <3>4. QED
      BY <1>1, <3>1, <3>2, <3>3 DEF ByBits
  <2>4. QED
    BY <2>1, <2>2, <2>3
<1>7. QED
  BY <1>3, <1>4, <1>5, <1>6 DEF x, y, MaxBytes

\* Two wrong bits in the bytes the checks cover, or one there and one in the
\* CRC, show in the CRC.
LEMMA InvTwoBitsRefused == IInv => TwoBitsRefused
<1> SUFFICES ASSUME IInv, stage = "verified", verdict, Cardinality(flips) <= 2,
                    Len(Buffer(frame)) = Len(Buffer(sent))
             PROVE  Buffer(frame) = Buffer(sent)
  BY DEF TwoBitsRefused
<1> DEFINE x == Buffer(sent)
           y == Buffer(frame)
           n == Len(x)
<1>1. /\ x \in Seq(Byte) /\ y \in Seq(Byte) /\ Len(x) = n /\ Len(y) = n
      /\ n \in 5 .. MaxBytes /\ n \in 0 .. MaxBytes
      /\ \A i \in 1 .. n : y[i] = Xor(x[i], Errors(i))
  <2>1. /\ x \in Seq(Byte) /\ y \in Seq(Byte) /\ Len(y) = Len(x)
        /\ Len(x) \in 5 .. MaxBytes
        /\ \A i \in 1 .. Len(x) : y[i] = Xor(x[i], Errors(i))
    BY BufferDamage
  <2> HIDE DEF x, y
  <2>2. \A k \in 5 .. MaxBytes : k \in 0 .. MaxBytes
    BY DEF MaxBytes
  <2>3. QED
    BY <2>1, <2>2
<1>2. crc32_compute(y) = Xor(crc32_compute(x), Wrong("crc", 0))
  BY DEF IInv, hsm_verify_frame, ByBits
<1>3. IsFiniteSet(flips) /\ flips \subseteq Damage
  BY DEF IInv
<1> HIDE DEF x, y, n
<1>4. /\ \A a : Xor(a, {}) = a
      /\ \A a, e : Xor(a, Xor(a, e)) = e /\ (Xor(a, e) = a => e = {})
  BY DEF Xor
<1>5. \A i \in 1 .. n : Errors(i) = {} => x[i] = y[i]
  BY <1>1, <1>4
<1>6. CASE \A i \in 1 .. n : Errors(i) = {}
  <2>1. \A i \in 1 .. n : x[i] = y[i]
    BY <1>5, <1>6
  <2>2. x = y
    BY <1>1, <2>1
  <2>3. QED
    BY <2>2 DEF x, y
<1>7. ASSUME NEW p \in 1 .. n, Errors(p) # {} PROVE FALSE
  <2>1. PICK b \in 0 .. 31 : b \in Errors(p) /\ Place(p, b) \in flips
    BY <1>7 DEF Errors
  <2>2. p \in Nat
    BY <1>1 DEF MaxBytes
  <2>3. b \in 0 .. 7
    BY <1>3, <2>1, <2>2, HsmAssumption DEF Place, IsBit
  <2>4. ASSUME NEW i \in 1 .. n, NEW a \in Errors(i), NEW q \in 1 .. n,
               NEW c \in Errors(q)
        PROVE  /\ a \in 0 .. 7 /\ c \in 0 .. 7
               /\ Place(i, a) \in flips /\ Place(q, c) \in flips
               /\ Place(i, a) = Place(q, c) => i = q /\ a = c
    <3>1. Place(i, a) \in flips /\ Place(q, c) \in flips
      BY DEF Errors
    <3>2. i \in Nat /\ q \in Nat
      BY <1>1 DEF MaxBytes
    <3>3. a \in 0 .. 7
      BY <1>3, <3>1, <3>2, HsmAssumption DEF Place, IsBit
    <3>4. c \in 0 .. 7
      BY <1>3, <3>1, <3>2, HsmAssumption DEF Place, IsBit
    <3>5. Place(i, a) = Place(q, c) => i = q /\ a = c
      BY <3>2 DEF Place
    <3>6. QED
      BY <3>1, <3>3, <3>4, <3>5
  <2>5. CASE \E q \in 1 .. n : q # p /\ Errors(q) # {}
    <3> PICK q \in 1 .. n : q # p /\ Errors(q) # {}
      BY <2>5
    <3>1. PICK c : q # p /\ c \in Errors(q)
      OBVIOUS
    <3>2. /\ Place(p, b) \in flips /\ Place(q, c) \in flips
          /\ Place(p, b) # Place(q, c) /\ c \in 0 .. 7
      BY <2>1, <2>4, <3>1
    <3>3. \A d \in flips : d = Place(p, b) \/ d = Place(q, c)
      BY <1>3, <3>2, AtMostTwo
    <3>4. ASSUME NEW i \in 1 .. n, NEW a \in Errors(i)
          PROVE  (i = p /\ a = b) \/ (i = q /\ a = c)
      <4>1. Place(i, a) = Place(p, b) \/ Place(i, a) = Place(q, c)
        BY <2>4, <3>3
      <4>2. QED
        BY <2>1, <2>4, <3>1, <4>1
    <3>41. Errors(p) = {b}
      BY <2>1, <3>1, <3>4
    <3>42. Errors(q) = {c}
      BY <3>1, <3>4
    <3>5. \A i \in 1 .. n : i # p /\ i # q => x[i] = y[i]
      BY <1>5, <3>4
    <3>6. Wrong("crc", 0) = {}
      BY <3>3 DEF Wrong, Place
    <3>7. crc32_compute(y) = crc32_compute(x)
      BY <1>2, <1>4, <3>6
    <3>8. Xor(x[p], y[p]) = {b} /\ Xor(x[q], y[q]) = {c}
      BY <1>1, <1>4, <3>41, <3>42
    <3>9. CASE p < q
      <4>1. OneBit(x, y, q - 1, p, b) /\ \A i \in q + 1 .. n : x[i] = y[i]
        BY <1>1, <2>3, <3>5, <3>8, <3>9 DEF OneBit, MaxBytes
      <4>2. QED
        BY <1>1, <3>2, <3>7, <3>8, <3>9, <4>1, CrcSeesTwoBits
    <3>10. CASE q < p
      <4>1. OneBit(x, y, p - 1, q, c) /\ \A i \in p + 1 .. n : x[i] = y[i]
        <5>1. c \in 0 .. 7 /\ p \in Nat /\ q \in Nat /\ n \in Nat
          BY <1>1, <3>2 DEF MaxBytes
        <5>2. \A i \in 1 .. n : i # p /\ i # q => x[i] = y[i]
          BY <3>5
        <5>3. \A i \in 1 .. p - 1 : i # q => x[i] = y[i]
          BY <5>1, <5>2
        <5>4. \A i \in p + 1 .. n : x[i] = y[i]
          BY <3>10, <5>1, <5>2
        <5>5. QED
          BY <3>8, <5>1, <5>3, <5>4 DEF OneBit
      <4>2. QED
        BY <1>1, <2>3, <3>7, <3>8, <3>10, <4>1, CrcSeesTwoBits
    <3>11. QED
      BY <1>1, <2>2, <3>1, <3>9, <3>10 DEF MaxBytes
  <2>6. CASE ~ \E q \in 1 .. n : q # p /\ Errors(q) # {}
    <3>1. \A i \in 1 .. n : i # p => x[i] = y[i]
      BY <1>5, <2>6
    <3>2. CASE Wrong("crc", 0) = {}
      <4>1. x[p] # y[p]
        BY <1>1, <1>4, <1>7
      <4>2. crc32_compute(y) = crc32_compute(x)
        BY <1>2, <1>4, <3>2
      <4>3. p \in 1 .. Len(x) /\ Len(x) = Len(y)
             /\ \A i \in 1 .. Len(x) : i # p => x[i] = y[i]
        BY <1>1, <3>1 DEF n
      <4>4. QED
        BY <1>1, <4>1, <4>2, <4>3, CrcSeesOneByte
    <3>3. CASE Wrong("crc", 0) # {}
      <4>1. PICK c \in 0 .. 31 : <<"crc", 0, c>> \in flips
        BY <3>3 DEF Wrong
      <4>2. \A i, a : Place(i, a) # <<"crc", 0, c>>
        BY DEF Place
      <4>3. \A d \in flips : d = Place(p, b) \/ d = <<"crc", 0, c>>
        BY <1>3, <2>1, <4>1, <4>2, AtMostTwo
      <4>4. Errors(p) = {b}
        <5>1. ASSUME NEW a \in Errors(p) PROVE a = b
          BY <2>1, <2>4, <4>2, <4>3
        <5>2. QED
          BY <2>1, <5>1
      <4>5. Wrong("crc", 0) = {c}
        BY <4>1, <4>2, <4>3 DEF Wrong, Place
      <4>6. Xor(x[p], y[p]) = {b}
        BY <1>1, <1>4, <4>4
      <4>7. OneBit(x, y, n, p, b)
        BY <2>3, <3>1, <4>6 DEF OneBit
      <4>8. QED
        BY <1>1, <1>2, <4>1, <4>5, <4>7, CrcSeesBitAndCrcBit DEF n
    <3>4. QED
      BY <3>2, <3>3
  <2>7. QED
    BY <2>5, <2>6
<1>8. QED
  BY <1>6, <1>7

-----------------------------------------------------------------------------
(* Damage to dlc that changes how many bytes the checks cover *)

\* The differences that CrcSeesLength excludes, one by one.
LEMMA DifferencesListed ==
  /\ {} \in OneBitDifferences
  /\ \A c \in 0 .. 31 : {c} \in OneBitDifferences
  /\ \A b \in 0 .. 7, k \in 1 .. MaxBytes : Trace(b)[k] \in OneBitDifferences
<1> DEFINE travels(b) == {Register({b}, Zeros)[k] : k \in 1 .. MaxBytes}
           all == {travels(b) : b \in 0 .. 7}
<1>1. OneBitDifferences = {{}} \cup {{c} : c \in 0 .. 31} \cup UNION all
  BY DEF OneBitDifferences
<1>2. ASSUME NEW b \in 0 .. 7, NEW k \in 1 .. MaxBytes
      PROVE  Trace(b)[k] \in UNION all
  <2>1. Trace(b)[k] \in travels(b)
    BY DEF Trace
  <2>2. travels(b) \in all
    OBVIOUS
  <2>3. QED
    BY <2>1, <2>2
<1> HIDE DEF all
<1>3. QED
  BY <1>1, <1>2

\* CrcSeesLength, whichever of the two bits is the higher one.
LEMMA LengthIsSeen ==
  ASSUME NEW f, IsWheelFrame(f), NEW b \in 0 .. 7, NEW c \in 0 .. 7,
         NEW g, g = [f EXCEPT !.dlc = Xor(f.dlc, {b, c})],
         Len(Buffer(g)) # Len(Buffer(f))
  PROVE  Xor(crc32_compute(Buffer(f)), crc32_compute(Buffer(g)))
           \notin OneBitDifferences
<1>1. PICK id \in WheelIds, byte \in SUBSET (0 .. 7) : f = WheelFrame(id, byte)
  BY DEF IsWheelFrame
<1> DEFINE Seen(h) ==
      Len(Buffer(h)) # Len(Buffer(f)) =>
        Xor(crc32_compute(Buffer(f)), crc32_compute(Buffer(h)))
          \notin OneBitDifferences
<1>2. ASSUME NEW d \in 0 .. 7, NEW e \in 0 .. 7, e <= d
      PROVE  Seen([f EXCEPT !.dlc = Xor(f.dlc, {d, e})])
  BY ZenonT(60), <1>1, <1>2, CrcSeesLength
<1>3. {b, c} = {c, b} /\ (b <= c \/ c <= b)
  OBVIOUS
<1> HIDE DEF Seen
<1>4. Seen(g)
  <2>1. CASE c <= b
    BY <1>2, <2>1
  <2>2. CASE b <= c
    <3>1. Seen([f EXCEPT !.dlc = Xor(f.dlc, {c, b})])
      BY <1>2, <2>2
    <3>2. QED
      BY <1>3, <3>1
  <2>3. QED
    BY <1>3, <2>1, <2>2
<1>5. QED
  BY <1>4 DEF Seen

\* The frame that was sent, with the dlc that arrived.
Relabelled == [sent EXCEPT !.dlc = frame.dlc]

\* What arrives is Relabelled, but for the wrong bits in its id and its data.
LEMMA RelabelledDamage ==
  ASSUME IInv, stage = "verified"
  PROVE  /\ Buffer(Relabelled) \in Seq(Byte) /\ Buffer(frame) \in Seq(Byte)
         /\ Len(Buffer(frame)) \in 5 .. MaxBytes
         /\ Len(Buffer(Relabelled)) = Len(Buffer(frame))
         /\ \A i \in 1 .. Len(Buffer(frame)) :
              Buffer(frame)[i] =
                Xor(Buffer(Relabelled)[i], IF i = 5 THEN {} ELSE Errors(i))
<1>1. frame \in WireFrames /\ ByBits /\ sent \in Cleartexts
  BY DEF IInv
<1>2. /\ frame.id \in [1 .. 4 -> Byte] /\ sent.id \in [1 .. 4 -> Byte]
      /\ frame.data \in [1 .. 8 -> Byte] /\ sent.data \in [1 .. 8 -> Byte]
      /\ frame.dlc \in Byte /\ sent.dlc \in Byte
  BY <1>1 DEF WireFrames, Cleartexts, Byte
<1>3. /\ Relabelled.id = sent.id /\ Relabelled.data = sent.data
      /\ Relabelled.dlc = frame.dlc
  BY <1>1 DEF Relabelled, Cleartexts
<1> DEFINE n == Covered(frame)
           z == Buffer(Relabelled)
           y == Buffer(frame)
<1>4. /\ y \in Seq(Byte) /\ Len(y) = 5 + n
      /\ \A i \in 1 .. 4 : y[i] = frame.id[i]
      /\ y[5] = frame.dlc
      /\ \A i \in 1 .. n : y[5 + i] = frame.data[i]
  BY <1>2, BufferBytes
<1>5. /\ z \in Seq(Byte) /\ Len(z) = 5 + n
      /\ \A i \in 1 .. 4 : z[i] = sent.id[i]
      /\ z[5] = frame.dlc
      /\ \A i \in 1 .. n : z[5 + i] = sent.data[i]
  <2>1. Covered(Relabelled) = n
    BY <1>3 DEF Covered
  <2>2. /\ Relabelled.id \in [1 .. 4 -> Byte] /\ Relabelled.dlc \in Byte
        /\ Relabelled.data \in [1 .. 8 -> Byte]
    BY <1>2, <1>3
  <2> DEFINE r == Relabelled
  <2> HIDE DEF r, n
  <2>3. /\ Buffer(r) \in Seq(Byte) /\ Len(Buffer(r)) = 5 + n
        /\ \A i \in 1 .. 4 : Buffer(r)[i] = r.id[i]
        /\ Buffer(r)[5] = r.dlc
        /\ \A i \in 1 .. n : Buffer(r)[5 + i] = r.data[i]
    BY <2>1, <2>2, BufferBytes DEF r
  <2>4. QED
    BY <1>3, <2>3 DEF r
<1>6. n \in 0 .. 8
  BY CoveredRange
<1>7. \A a : Xor(a, {}) = a
  BY DEF Xor
<1> HIDE DEF n, y, z
<1>8. ASSUME NEW i \in 1 .. 5 + n
      PROVE  y[i] = Xor(z[i], IF i = 5 THEN {} ELSE Errors(i))
  <2>1. CASE i \in 1 .. 4
    <3>1. Errors(i) = Wrong("id", i) /\ i # 5
      BY <2>1 DEF Errors, Place, Wrong
    <3>2. QED
      BY <1>1, <1>4, <1>5, <2>1, <3>1 DEF ByBits
  <2>2. CASE i = 5
    BY <1>4, <1>5, <1>7, <2>2
  <2>3. CASE i > 5
    <3>1. i - 5 \in 1 .. n /\ i - 5 \in 1 .. 8 /\ 5 + (i - 5) = i
      BY <1>6, <2>3
    <3>2. Errors(i) = Wrong("data", i - 5) /\ i # 5
      BY <2>3 DEF Errors, Place, Wrong
    <3>3. y[i] = frame.data[i - 5] /\ z[i] = sent.data[i - 5]
      BY <1>4, <1>5, <3>1
    <3>4. QED
      BY <1>1, <3>1, <3>2, <3>3 DEF ByBits
  <2>4. QED
    BY <2>1, <2>2, <2>3
<1>9. QED
  BY <1>4, <1>5, <1>6, <1>8 DEF y, z, MaxBytes

\* What one wrong bit of a buffer does to its CRC.
LEMMA OneBitOfCrc ==
  ASSUME NEW x \in Seq(Byte), NEW y \in Seq(Byte),
         NEW n \in 0 .. MaxBytes, Len(x) = n, Len(y) = n,
         NEW p \in 1 .. n, NEW b, OneBit(x, y, n, p, b)
  PROVE  Xor(crc32_compute(y), crc32_compute(x)) \in OneBitDifferences
<1>1. PICK g, h : /\ Runs(x, y, n, g, h)
                  /\ crc32_compute(x) = (0 .. 31) \ g[n]
                  /\ crc32_compute(y) = (0 .. 31) \ h[n]
                  /\ g[n] \in Word /\ h[n] \in Word
  BY ZenonT(60), CrcRuns
<1>2. n \in p .. n /\ n - p + 1 \in 1 .. MaxBytes
  BY DEF MaxBytes
<1>3. Xor(g[n], h[n]) = Trace(b)[n - p + 1]
  BY <1>1, <1>2, OneBitTravels
<1>4. Xor(crc32_compute(y), crc32_compute(x)) = Xor(g[n], h[n])
  BY <1>1 DEF Xor, Word
<1>5. Trace(b)[n - p + 1] \in OneBitDifferences
  BY <1>2, DifferencesListed DEF OneBit
<1>6. QED
  BY <1>3, <1>4, <1>5

\* In a wheel's frame, no two wrong bits that change the number of bytes the
\* checks cover leave the CRC right.
LEMMA LengthDamageRefused ==
  ASSUME IInv, stage = "verified", MaxFlips <= 2, IsWheelFrame(sent),
         Len(Buffer(frame)) # Len(Buffer(sent))
  PROVE  ~ verdict
<1> SUFFICES ASSUME verdict PROVE FALSE
  OBVIOUS
<1>1. /\ frame \in WireFrames /\ ByBits /\ sent \in Cleartexts
      /\ IsFiniteSet(flips) /\ flips \subseteq Damage
      /\ Cardinality(flips) <= 2
  <2>1. /\ IsFiniteSet(flips) /\ Cardinality(flips) <= MaxFlips
    BY DEF IInv
  <2>2. Cardinality(flips) \in Nat /\ MaxFlips \in Nat
    BY <2>1, FS_CardinalityType, HsmAssumption
  <2>3. QED
    BY <2>1, <2>2 DEF IInv
<1>2. crc32_compute(Buffer(frame)) = Xor(crc32_compute(Buffer(sent)), Wrong("crc", 0))
  BY DEF IInv, hsm_verify_frame, ByBits
<1>3. frame.dlc = Xor(sent.dlc, Wrong("dlc", 0))
  BY <1>1 DEF ByBits
<1>4. \A a, e : Xor(a, {}) = a /\ Xor(a, a) = {} /\ Xor(a, Xor(a, e)) = e
  BY DEF Xor
<1> DEFINE z == Buffer(Relabelled)
           y == Buffer(frame)
           n == Len(y)
<1>5. /\ z \in Seq(Byte) /\ y \in Seq(Byte) /\ Len(z) = n
      /\ n \in 5 .. MaxBytes /\ n \in 0 .. MaxBytes
      /\ \A i \in 1 .. n : y[i] = Xor(z[i], IF i = 5 THEN {} ELSE Errors(i))
  <2>1. \A k \in 5 .. MaxBytes : k \in 0 .. MaxBytes
    BY DEF MaxBytes
  <2>2. QED
    BY <2>1, RelabelledDamage
<1>6. Wrong("dlc", 0) # {}
  <2>1. SUFFICES ASSUME frame.dlc = sent.dlc PROVE FALSE
    BY <1>3, <1>4
  <2>2. Relabelled = sent
    BY <1>1, <2>1 DEF Relabelled, Cleartexts
  <2>3. Len(Buffer(frame)) = Len(Buffer(sent))
    BY <1>5, <2>2
  <2>4. QED
    BY <2>3
<1>7. PICK b : b \in 0 .. 31 /\ <<"dlc", 0, b>> \in flips
  BY <1>6 DEF Wrong
<1>8. \A a : <<"dlc", 0, a>> \in flips => a \in 0 .. 7
  BY <1>1, HsmAssumption DEF IsBit
<1>9. PICK c \in 0 .. 7 : Wrong("dlc", 0) = {b, c}
  <2>1. CASE \E c \in Wrong("dlc", 0) : c # b
    <3>1. PICK c \in Wrong("dlc", 0) : c # b
      BY <2>1
    <3>2. <<"dlc", 0, c>> \in flips /\ <<"dlc", 0, c>> # <<"dlc", 0, b>>
      BY <3>1 DEF Wrong
    <3>3. \A d \in flips : d = <<"dlc", 0, b>> \/ d = <<"dlc", 0, c>>
      BY <1>1, <1>7, <3>2, AtMostTwo
    <3>4. Wrong("dlc", 0) = {b, c}
      BY <1>7, <3>1, <3>3 DEF Wrong
    <3>5. QED
      BY <1>8, <3>2, <3>4
  <2>2. CASE ~ \E c \in Wrong("dlc", 0) : c # b
    <3>1. Wrong("dlc", 0) = {b, b}
      BY <1>7, <2>2 DEF Wrong
    <3>2. QED
      BY <1>7, <1>8, <3>1
  <2>3. QED
    BY <2>1, <2>2
<1>10. Xor(crc32_compute(Buffer(sent)), crc32_compute(z)) \notin OneBitDifferences
  <2>1. Relabelled = [sent EXCEPT !.dlc = Xor(sent.dlc, {b, c})]
    BY <1>3, <1>9 DEF Relabelled
  <2>2. Len(Buffer(Relabelled)) # Len(Buffer(sent))
    BY <1>5
  <2>3. b \in 0 .. 7
    BY <1>7, <1>8
  <2>4. QED
    BY <2>1, <2>2, <2>3, LengthIsSeen
<1> HIDE DEF z, y, n
<1>11. \A d, e \in flips : d # <<"dlc", 0, b>> /\ e # <<"dlc", 0, b>> => d = e
  <2>1. ASSUME NEW d \in flips, NEW e \in flips,
               d # <<"dlc", 0, b>>, e # <<"dlc", 0, b>>
        PROVE  d = e
    BY <1>1, <1>7, <2>1, AtMostTwo
  <2>2. QED
    BY <2>1
<1>12. ASSUME \A i \in 1 .. n : i # 5 => Errors(i) = {}
       PROVE  y = z
  <2>1. \A i \in 1 .. n : y[i] = z[i]
    BY <1>4, <1>5, <1>12
  <2>2. QED
    BY <1>5, <2>1 DEF n
<1>13. CASE Wrong("crc", 0) # {}
  <2>1. PICK a \in 0 .. 31 : <<"crc", 0, a>> \in flips
    BY <1>13 DEF Wrong
  <2>2. \A d \in flips : d = <<"dlc", 0, b>> \/ d = <<"crc", 0, a>>
    BY <1>11, <2>1
  <2>3. Wrong("crc", 0) = {a}
    BY <2>1, <2>2 DEF Wrong
  <2>4. \A i \in 1 .. n : i # 5 => Errors(i) = {}
    BY <1>5, <2>2 DEF Errors, Place
  <2>5. Xor(crc32_compute(Buffer(sent)), crc32_compute(z)) = {a}
    BY <1>2, <1>4, <1>12, <2>3, <2>4 DEF y
  <2>6. QED
    BY <1>10, <2>5, DifferencesListed
<1>14. CASE Wrong("crc", 0) = {}
  <2>1. crc32_compute(Buffer(sent)) = crc32_compute(y)
    BY <1>2, <1>4, <1>14 DEF y
  <2>2. CASE \A i \in 1 .. n : i # 5 => Errors(i) = {}
    <3>1. Xor(crc32_compute(Buffer(sent)), crc32_compute(z)) = {}
      BY <1>4, <1>12, <2>1, <2>2
    <3>2. QED
      BY <1>10, <3>1, DifferencesListed
  <2>3. ASSUME NEW p \in 1 .. n, p # 5, Errors(p) # {} PROVE FALSE
    <3>0. p \in Nat
      BY <1>5 DEF MaxBytes
    <3>1. PICK e \in 0 .. 31 : e \in Errors(p) /\ Place(p, e) \in flips
      BY <2>3 DEF Errors
    <3>2. Place(p, e) # <<"dlc", 0, b>>
      BY <2>3, <3>0 DEF Place
    <3>3. \A d \in flips : d = <<"dlc", 0, b>> \/ d = Place(p, e)
      BY <1>11, <3>1, <3>2
    <3>4. e \in 0 .. 7
      BY <1>1, <2>3, <3>0, <3>1, HsmAssumption DEF Place, IsBit
    <3>5. Errors(p) = {e}
      <4>1. \A a \in Errors(p) : Place(p, a) \in flips
        BY DEF Errors
      <4>2. \A a : /\ Place(p, a) # <<"dlc", 0, b>>
                   /\ Place(p, a) = Place(p, e) => a = e
        BY <2>3, <3>0 DEF Place
      <4>3. QED
        BY <3>1, <3>3, <4>1, <4>2
    <3>6. \A i \in 1 .. n : i # 5 /\ i # p => Errors(i) = {}
      <4>1. ASSUME NEW i \in 1 .. n, i # 5, i # p, NEW a \in Errors(i) PROVE FALSE
        <5>1. Place(i, a) \in flips
          BY DEF Errors
        <5>2. i \in Nat
          BY <1>5 DEF MaxBytes
        <5>3. Place(i, a) # <<"dlc", 0, b>> /\ Place(i, a) # Place(p, e)
          BY <2>3, <3>0, <4>1, <5>2 DEF Place
        <5>4. QED
          BY <3>3, <5>1, <5>3
      <4>2. QED
        BY <4>1
    <3>7. OneBit(z, y, n, p, e)
      <4>1. Xor(z[p], y[p]) = {e}
        BY <1>4, <1>5, <2>3, <3>5
      <4>2. \A i \in 1 .. n : i # p => z[i] = y[i]
        BY <1>4, <1>5, <3>6
      <4>3. QED
        BY <3>4, <4>1, <4>2 DEF OneBit
    <3>8. Xor(crc32_compute(y), crc32_compute(z)) \in OneBitDifferences
      BY <1>5, <3>7, OneBitOfCrc DEF n
    <3>9. QED
      BY <1>10, <2>1, <3>8
  <2>4. QED
    BY <2>2, <2>3
<1>15. QED
  BY <1>13, <1>14

LEMMA InvAcceptedUnaltered ==
  ASSUME MaxFlips <= 2, \A f \in Frames : IsWheelFrame(f), IInv
  PROVE  AcceptedUnaltered
<1> SUFFICES ASSUME stage = "verified", verdict
             PROVE  Buffer(frame) = Buffer(sent)
  BY DEF AcceptedUnaltered
<1>1. IsWheelFrame(sent)
  BY DEF IInv
<1>2. Len(Buffer(frame)) = Len(Buffer(sent))
  BY <1>1, LengthDamageRefused
<1>3. Cardinality(flips) <= 2
  <2>1. IsFiniteSet(flips) /\ Cardinality(flips) <= MaxFlips
    BY DEF IInv
  <2>2. Cardinality(flips) \in Nat /\ MaxFlips \in Nat
    BY <2>1, FS_CardinalityType, HsmAssumption
  <2>3. QED
    BY <2>1, <2>2
<1>4. QED
  BY <1>2, <1>3, InvTwoBitsRefused DEF TwoBitsRefused

-----------------------------------------------------------------------------
\* Whatever the names of the two ECUs and whatever the frame, hsm_verify_frame
\* accepts what hsm_protect_frame made, undamaged, exactly when the XOR of the
\* bytes of one key is that of the other (hsm.c:21-46, 79-127).
THEOREM SpecRoundTrip == Spec => []RoundTrip
  BY InvHolds, InvRoundTrip, PTL

\* Whatever the keys, any damage to one byte of id or data is refused: a single
\* wrong byte cannot leave the CRC32 as it was (hsm.c:9-19, 99-127).
THEOREM SpecOneByteRefused == Spec => []OneByteRefused
  BY InvHolds, InvOneByteRefused, PTL

\* Whatever the keys, the frame and the number of its data bytes, two wrong bits
\* in id, dlc, data or CRC that leave the length as it was are refused: the
\* difference one of them makes in the CRC register is never a single bit again
\* within 13 bytes, so the other cannot undo it (hsm.c:9-19, 99-127).
THEOREM SpecTwoBitsRefused == Spec => []TwoBitsRefused
  BY InvHolds, InvTwoBitsRefused, PTL

\* A frame of a wheel that loses up to two bits under way, whatever its speed,
\* wherever the bits are and whatever keys the two ECUs have, is either refused
\* or says what was sent: where damage to dlc makes the checks cover more bytes
\* or fewer, the CRC shows it (hsm.c:9-19, 79-127; main_wheel_fl.c:14-19).
THEOREM SpecAcceptedUnaltered ==
  ASSUME MaxFlips <= 2, \A f \in Frames : IsWheelFrame(f)
  PROVE  Spec => []AcceptedUnaltered
<1>1. IInv => AcceptedUnaltered
  BY InvAcceptedUnaltered
<1>2. QED
  BY InvHolds, <1>1, PTL
=============================================================================

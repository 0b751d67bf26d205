------------------------ MODULE ProtectedMemoryProofs ------------------------
(***************************************************************************)
(* Proofs about ProtectedMemory for every region size, byte width and hash *)
(* length.  The arithmetic of the digest is one lemma, ParityFlips; all    *)
(* the rest is an induction over the calls.                                *)
(***************************************************************************)
EXTENDS ProtectedMemory, FiniteSetTheorems, TLAPS

\* Setting a bit in one more byte flips the bit in the XOR of all bytes.
LEMMA ParityFlips ==
  ASSUME NEW d \in [1 .. N -> Byte], NEW e \in [1 .. N -> Byte],
         NEW n \in 0 .. N, NEW m \in 1 .. n, NEW b \in Bits,
         b \in d[m], b \notin e[m],
         \A k \in 1 .. n : k # m => d[k] = e[k]
  PROVE  b \in fold(d, n) <=> b \notin fold(e, n)
<1> DEFINE Sd == {k \in 1 .. n : b \in d[k]}
           Se == {k \in 1 .. n : b \in e[k]}
<1>1. Sd = Se \cup {m} /\ m \notin Se
  OBVIOUS
<1>2. IsFiniteSet(Se)
  <2>1. IsFiniteSet(1 .. n)
    BY MemoryAssumption, FS_Interval
  <2>2. QED
    BY <2>1, FS_Subset
<1>3. Cardinality(Sd) = Cardinality(Se) + 1 /\ Cardinality(Se) \in Nat
  BY <1>1, <1>2, FS_AddElement, FS_CardinalityType
<1>4. Cardinality(Sd) % 2 = 1 <=> Cardinality(Se) % 2 # 1
  <2> HIDE DEF Sd, Se
  <2>1. QED
    BY <1>3
<1>5. (b \in fold(d, n) <=> Cardinality(Sd) % 2 = 1)
      /\ (b \in fold(e, n) <=> Cardinality(Se) % 2 = 1)
  BY DEF fold
<1>6. QED
  BY <1>4, <1>5

\* Digests are equal only if the XOR of the bytes is.
LEMMA DigestInjective ==
  ASSUME NEW d, NEW e, NEW n, sha256_dummy(d, n) = sha256_dummy(e, n)
  PROVE  fold(d, n) = fold(e, n)
<1>1. PICK x \in HashIdx : TRUE
  BY MemoryAssumption
<1>2. Xor(fold(d, n), x) = Xor(fold(e, n), x)
  BY <1>1 DEF sha256_dummy
<1>3. QED
  BY <1>2 DEF Xor

\* Two regions that differ in exactly one of the bytes in use have different
\* digests, whichever byte it is and however long the region.
LEMMA OneByteChangesDigest ==
  ASSUME NEW d \in [1 .. N -> Byte], NEW e \in [1 .. N -> Byte],
         NEW n \in 0 .. N, NEW m \in 1 .. n, d[m] # e[m],
         \A k \in 1 .. n : k # m => d[k] = e[k]
  PROVE  sha256_dummy(d, n) # sha256_dummy(e, n)
<1>1. m \in 1 .. N
  BY MemoryAssumption
<1>2. PICK b \in Bits : (b \in d[m] /\ b \notin e[m]) \/ (b \in e[m] /\ b \notin d[m])
  BY <1>1 DEF Byte
<1>3. b \in fold(d, n) <=> b \notin fold(e, n)
  <2>1. CASE b \in d[m] /\ b \notin e[m]
    BY <2>1, ParityFlips
  <2>2. CASE b \in e[m] /\ b \notin d[m]
    <3>1. \A k \in 1 .. n : k # m => e[k] = d[k]
      OBVIOUS
    <3>2. b \in fold(e, n) <=> b \notin fold(d, n)
      BY <2>2, <3>1, ParityFlips
    <3>3. QED
      BY <3>2
  <2>3. QED
    BY <1>2, <2>1, <2>2
<1>4. QED
  BY <1>3, DigestInjective

\* A digest is a hash value.
LEMMA DigestType == \A d, n : sha256_dummy(d, n) \in Hash
BY MemoryAssumption DEF sha256_dummy, Hash, Xor, fold, Byte

-----------------------------------------------------------------------------
\* The three state invariants that every call preserves together.
IInv == TypeOK /\ HashTracksWrites /\ AttestedImage

\* The memory pm_init clears is well typed.
LEMMA ZerosType == Zeros \in [1 .. N -> Byte] /\ ZeroHash \in Hash /\ 0 \in 0 .. N
<1>1. {} \in Byte
  BY DEF Byte
<1>2. Zeros \in [1 .. N -> Byte]
  BY <1>1 DEF Zeros
<1>3. ZeroHash \in Hash
  BY <1>1 DEF ZeroHash, Hash
<1>4. 0 \in 0 .. N
  BY MemoryAssumption
<1>5. QED
  BY <1>2, <1>3, <1>4

\* pm_init establishes the invariant.
LEMMA InitIInv == Init => IInv
<1> SUFFICES ASSUME NEW fw \in Hash, FreshPm(fw) PROVE IInv
  BY DEF Init
<1>1. TypeOK
  BY ZerosType DEF FreshPm, TypeOK
<1>2. QED
  BY <1>1 DEF IInv, FreshPm, HashTracksWrites, AttestedImage

\* Every call, and every change from outside, preserves it.
LEMMA StepIInv == IInv /\ [Next]_vars => IInv'
<1> SUFFICES ASSUME IInv, [Next]_vars PROVE IInv'
  OBVIOUS
<1> USE MemoryAssumption DEF region, boot
<1>i. TypeOK /\ HashTracksWrites /\ AttestedImage
  BY DEF IInv
<1>1. ASSUME NEW fw \in Hash, pm_init(fw) PROVE IInv'
  <2>1. TypeOK'
    BY <1>1, ZerosType DEF pm_init, TypeOK
  <2>2. QED
    BY <1>1, <2>1 DEF pm_init, IInv, HashTracksWrites, AttestedImage
<1>2. CASE pm_secure_boot
  <2>1. TypeOK'
    BY <1>i, <1>2 DEF pm_secure_boot, TypeOK, BootSucceeds, verify_signature_dummy
  <2>2. HashTracksWrites'
    BY <1>i, <1>2 DEF pm_secure_boot, HashTracksWrites
  <2>3. AttestedImage'
    <3>1. attested' => BootSucceeds /\ locked
      BY <1>2 DEF pm_secure_boot
    <3>2. boot_ok' = BootSucceeds /\ UNCHANGED <<data, size, locked, firmware_hash>>
      BY <1>2 DEF pm_secure_boot
    <3>3. BootSucceeds => sha256_dummy(data', size') = firmware_hash'
      BY <3>2 DEF BootSucceeds, BootDigest
    <3>4. QED
      BY <3>1, <3>2, <3>3 DEF AttestedImage
  <2>4. QED
    BY <2>1, <2>2, <2>3 DEF IInv
<1>3. CASE pm_lock
  <2>1. TypeOK'
    BY <1>i, <1>3 DEF pm_lock, TypeOK
  <2>2. HashTracksWrites' /\ AttestedImage'
    BY <1>i, <1>3 DEF pm_lock, HashTracksWrites, AttestedImage
  <2>3. QED
    BY <2>1, <2>2 DEF IInv
<1>4. ASSUME NEW buf \in [1 .. N -> Byte], NEW n \in 0 .. N + 1, pm_write(buf, n)
      PROVE  IInv'
  <2>1. n \in 0 .. N /\ ~locked
    BY <1>4 DEF pm_write, WriteAllowed
  <2>2. data' \in [1 .. N -> Byte] /\ hash' \in Hash
    BY <1>i, <1>4, DigestType DEF pm_write, Copied, HashAfterWrite, TypeOK
  <2>3. TypeOK'
    BY <1>i, <1>4, <2>1, <2>2 DEF pm_write, TypeOK
  <2>4. HashTracksWrites'
    BY <1>4 DEF pm_write, HashAfterWrite, HashTracksWrites
  <2>5. AttestedImage'
    BY <1>i, <1>4, <2>1 DEF pm_write, AttestedImage
  <2>6. QED
    BY <2>3, <2>4, <2>5 DEF IInv
<1>5. CASE pm_verify_integrity
  BY <1>i, <1>5 DEF pm_verify_integrity, AlarmAfterCheck, IInv, TypeOK,
                    HashTracksWrites, AttestedImage
<1>6. CASE pm_flag_tamper
  BY <1>i, <1>6 DEF pm_flag_tamper, IInv, TypeOK, HashTracksWrites,
                    AttestedImage
<1>7. ASSUME NEW k \in 1 .. N, NEW v \in Byte, Glitch(k, v) PROVE IInv'
  <2>1. TypeOK'
    BY <1>i, <1>7 DEF Glitch, TypeOK
  <2>2. HashTracksWrites' /\ AttestedImage'
    BY <1>i, <1>7 DEF Glitch, HashTracksWrites, AttestedImage
  <2>3. QED
    BY <2>1, <2>2 DEF IInv
<1>8. CASE UNCHANGED vars
  BY <1>i, <1>8 DEF vars, IInv, TypeOK, HashTracksWrites, AttestedImage
<1>9. QED
  BY <1>1, <1>2, <1>3, <1>4, <1>5, <1>6, <1>7, <1>8 DEF Next

\* The invariant holds in every reachable state.
THEOREM Invariance == Spec => []IInv
<1>1. QED
  BY InitIInv, StepIInv, PTL DEF Spec

\* No sequence of calls leaves a field outside its type: the size never
\* exceeds the region (protected_memory.c:99).
THEOREM TypeCorrect == Spec => []TypeOK
<1>1. IInv => TypeOK
  BY DEF IInv
<1>2. QED
  BY Invariance, <1>1, PTL

\* The stored hash is always the digest of what the last pm_write left.
THEOREM HashTracks == Spec => []HashTracksWrites
<1>1. IInv => HashTracksWrites
  BY DEF IInv
<1>2. QED
  BY Invariance, <1>1, PTL

\* A locked and booted image stays the expected one through every sequence
\* of calls (protected_memory.c:62-108).
THEOREM AttestedStays == Spec => []AttestedImage
<1>1. IInv => AttestedImage
  BY DEF IInv
<1>2. QED
  BY Invariance, <1>1, PTL

\* The check of pm_verify_integrity fails whenever exactly one byte in use
\* differs from what was written, for a region and bytes of any size.
THEOREM DetectsOneByte == Spec => []OneByteDetected
<1>1. IInv => OneByteDetected
  <2>1. SUFFICES ASSUME IInv, sealed # NotSealed, NEW m \in Changed, Changed = {m}
                 PROVE  sha256_dummy(data, size) # hash
    BY DEF OneByteDetected
  <2>2. /\ data \in [1 .. N -> Byte] /\ sealed \in [1 .. N -> Byte]
        /\ size \in 0 .. N /\ hash = sha256_dummy(sealed, size)
    BY <2>1 DEF IInv, TypeOK, HashTracksWrites
  <2>3. /\ m \in 1 .. size /\ data[m] # sealed[m]
        /\ \A k \in 1 .. size : k # m => data[k] = sealed[k]
    <3>1. \A k \in 1 .. size : pm_read[k] = data[k]
      BY DEF pm_read
    <3>2. Changed = {k \in 1 .. size : data[k] # sealed[k]}
      BY <3>1 DEF Changed
    <3>3. QED
      BY <2>1, <3>2
  <2>4. QED
    BY <2>2, <2>3, OneByteChangesDigest
<1>2. QED
  BY Invariance, <1>1, PTL

\* After pm_lock only pm_init can unlock or change the region
\* (protected_memory.c:98).
THEOREM LockIsFinal == Spec => LockFreezes
<1>1. Next => [locked => \/ locked' /\ UNCHANGED <<data, size, hash>>
                         \/ locked' /\ \E k \in 1 .. N, v \in Byte : Glitch(k, v)
                         \/ \E fw \in Hash : pm_init(fw)]_vars
  <2> SUFFICES ASSUME Next, locked
               PROVE  \/ locked' /\ UNCHANGED <<data, size, hash>>
                      \/ locked' /\ \E k \in 1 .. N, v \in Byte : Glitch(k, v)
                      \/ \E fw \in Hash : pm_init(fw)
    OBVIOUS
  <2> USE DEF region, boot
  <2>1. CASE \E fw \in Hash : pm_init(fw)
    BY <2>1
  <2>2. CASE pm_secure_boot \/ pm_lock \/ pm_verify_integrity \/ pm_flag_tamper
    BY <2>2 DEF pm_secure_boot, pm_lock, pm_verify_integrity, pm_flag_tamper
  <2>3. CASE \E buf \in [1 .. N -> Byte], n \in 0 .. N + 1 : pm_write(buf, n)
    BY <2>3 DEF pm_write, WriteAllowed
  <2>4. CASE \E k \in 1 .. N, v \in Byte : Glitch(k, v)
    BY <2>4 DEF Glitch
  <2>5. QED
    BY <2>1, <2>2, <2>3, <2>4 DEF Next
<1>2. QED
  BY <1>1, PTL DEF Spec, LockFreezes

-----------------------------------------------------------------------------
\* Without a cause the region still holds what the last pm_write left.
Untouched == sealed # NotSealed /\ ~cause => data = sealed

LEMMA StepUntouched == IInv /\ Untouched /\ [Next]_vars => Untouched'
<1> SUFFICES ASSUME Untouched, [Next]_vars PROVE Untouched'
  OBVIOUS
<1> USE DEF region, Untouched
<1>1. CASE \E fw \in Hash : pm_init(fw)
  BY <1>1 DEF pm_init
<1>2. CASE pm_secure_boot \/ pm_lock \/ pm_verify_integrity \/ UNCHANGED vars
  BY <1>2 DEF pm_secure_boot, pm_lock, pm_verify_integrity, vars
<1>3. CASE \E buf \in [1 .. N -> Byte], n \in 0 .. N + 1 : pm_write(buf, n)
  BY <1>3 DEF pm_write
<1>4. CASE pm_flag_tamper \/ \E k \in 1 .. N, v \in Byte : Glitch(k, v)
  BY <1>4 DEF pm_flag_tamper, Glitch
<1> QED
  BY <1>1, <1>2, <1>3, <1>4 DEF Next

\* On a region that has been written no alarm is raised without a cause, and no
\* call but pm_init withdraws one (protected_memory.c:119-137).
THEOREM AlarmsHaveCauses == Spec => AlarmsJustified
<1> DEFINE Raised == tamper_detected' /\ ~tamper_detected => sealed = NotSealed \/ cause'
           Withdrawn == tamper_detected /\ ~tamper_detected' => \E fw \in Hash : pm_init(fw)
<1>1. IInv /\ Untouched /\ Next => [Raised /\ Withdrawn]_vars
  <2> SUFFICES ASSUME IInv, Untouched, Next PROVE Raised /\ Withdrawn
    OBVIOUS
  <2>1. CASE \E fw \in Hash : pm_init(fw)
    BY <2>1 DEF pm_init
  <2>2. CASE pm_secure_boot \/ pm_lock
             \/ \E buf \in [1 .. N -> Byte], n \in 0 .. N + 1 : pm_write(buf, n)
    BY <2>2 DEF pm_secure_boot, pm_lock, pm_write
  <2>3. CASE pm_verify_integrity
    <3>1. UNCHANGED cause /\ tamper_detected' = AlarmAfterCheck
      BY <2>3 DEF pm_verify_integrity
    <3>2. tamper_detected \in BOOLEAN
      BY DEF IInv, TypeOK
    <3>3. ASSUME sealed # NotSealed, ~cause PROVE sha256_dummy(data, size) = hash
      BY <3>3 DEF IInv, HashTracksWrites, Untouched
    <3> QED
      BY <3>1, <3>2, <3>3 DEF AlarmAfterCheck
  <2>4. CASE pm_flag_tamper \/ \E k \in 1 .. N, v \in Byte : Glitch(k, v)
    BY <2>4 DEF pm_flag_tamper, Glitch
  <2> QED
    BY <2>1, <2>2, <2>3, <2>4 DEF Next
<1>2. Init => Untouched
  BY DEF Init, FreshPm, Untouched
<1> QED
  BY <1>1, <1>2, StepUntouched, Invariance, PTL DEF Spec, AlarmsJustified
=============================================================================

--------------------------- MODULE ProtectedMemory ---------------------------
(***************************************************************************)
(* protected_memory.c: one protected_memory_t, the calls its owner makes   *)
(* on it in any order, and stray changes of a byte of the region by the    *)
(* world outside the module, which is what the integrity hash is for.      *)
(*                                                                         *)
(* A byte is the set of its bits that are 1, so ^ is symmetric difference. *)
(***************************************************************************)
EXTENDS Integers, FiniteSets

CONSTANTS
  Bits,          \* bit positions of a byte (0..7)
  N,             \* PM_MAX_REGION_SIZE (4096)
  HashIdx,       \* index of a byte of a hash, as a byte (0..31)
  NotSealed      \* history: the region has not been written yet

Byte == SUBSET Bits

ASSUME MemoryAssumption ==
  /\ IsFiniteSet(Bits)
  /\ N \in Nat \ {0}
  /\ HashIdx \subseteq Byte
  /\ \E x, y \in HashIdx : x # y
  /\ NotSealed \notin [1 .. N -> Byte]

Hash == [HashIdx -> Byte]

VARIABLES
  data, size, hash, locked,              \* pm->region
  firmware_hash, signature_valid,        \* pm->boot
  boot_ok, tamper_detected,
  sealed,      \* history: the bytes the last pm_write left, or NotSealed
  cause,       \* history: a reason for an alarm since the last pm_write
  attested     \* history: secure boot succeeded on a locked region that
               \* nothing outside the module has touched since

region == <<data, size, hash, locked>>
boot == <<firmware_hash, signature_valid, boot_ok>>
vars == <<region, boot, tamper_detected, sealed, cause, attested>>

Xor(a, b) == (a \ b) \cup (b \ a)

Zeros == [k \in 1 .. N |-> {}]
ZeroHash == [x \in HashIdx |-> {}]

\* XOR of the first n bytes: a bit is set if an odd number of them set it.
fold_short(d, n) ==    \* seeded fault: the loop stops one byte short
  {b \in Bits : Cardinality({k \in 1 .. n - 1 : b \in d[k]}) % 2 = 1}

fold(d, n) ==
  {b \in Bits : Cardinality({k \in 1 .. n : b \in d[k]}) % 2 = 1}

sha256_dummy(d, n) == [x \in HashIdx |-> Xor(fold(d, n), x)]

\* The signature is not looked at.
verify_signature_dummy == TRUE

\* The state pm_init leaves behind, whatever the memory held before.
FreshPm(fw) ==
  /\ data = Zeros
  /\ size = 0
  /\ hash = ZeroHash
  /\ locked = FALSE
  /\ firmware_hash = fw
  /\ signature_valid = FALSE
  /\ boot_ok = FALSE
  /\ tamper_detected = FALSE
  /\ sealed = NotSealed
  /\ cause = FALSE
  /\ attested = FALSE

Init == \E fw \in Hash : FreshPm(fw)

-----------------------------------------------------------------------------
pm_init(fw) ==
  /\ data' = Zeros
  /\ size' = 0
  /\ hash' = ZeroHash
  /\ locked' = FALSE
  /\ firmware_hash' = fw
  /\ signature_valid' = FALSE
  /\ boot_ok' = FALSE
  /\ tamper_detected' = FALSE
  /\ sealed' = NotSealed
  /\ cause' = FALSE
  /\ attested' = FALSE

StoredDigest == hash    \* seeded fault: boot trusts the stored hash

BootDigest == sha256_dummy(data, size)

\* The image is hashed anew and compared with the expected hash.
BootSucceeds == verify_signature_dummy /\ BootDigest = firmware_hash

pm_secure_boot ==
  /\ signature_valid' = verify_signature_dummy
  /\ boot_ok' = BootSucceeds
  /\ attested' = (BootSucceeds /\ locked)
  /\ UNCHANGED <<region, firmware_hash, tamper_detected, sealed, cause>>

pm_lock ==
  /\ locked' = TRUE
  /\ UNCHANGED <<data, size, hash, boot, tamper_detected, sealed, cause,
                 attested>>

WriteUnlocked(n) == n <= N    \* seeded fault: the lock is ignored

WriteAllowed(n) == ~locked /\ n <= N

HashBeforeSize(d, n) == sha256_dummy(d, size)    \* seeded fault: wrong order

HashAfterWrite(d, n) == sha256_dummy(d, n)

CopiedTerminated(buf, n) ==    \* seeded fault: a zero byte after the n
  [k \in 1 .. (IF n = N THEN N + 1 ELSE N) |->
     IF k <= n THEN buf[k] ELSE IF k = n + 1 THEN {} ELSE data[k]]

\* memcpy of n bytes: the rest of the region keeps what it held.
Copied(buf, n) == [k \in 1 .. N |-> IF k <= n THEN buf[k] ELSE data[k]]

pm_write(buf, n) ==
  /\ WriteAllowed(n)
  /\ data' = Copied(buf, n)
  /\ size' = n
  /\ hash' = HashAfterWrite(data', n)
  /\ sealed' = data'
  /\ cause' = FALSE
  /\ UNCHANGED <<locked, boot, tamper_detected, attested>>

\* What pm_read copies out; it changes nothing.
pm_read == [k \in 1 .. size |-> data[k]]

\* An alarm is raised by a failed check and not withdrawn by a later one.
AlarmFromCheckOnly == sha256_dummy(data, size) # hash    \* seeded fault

AlarmAfterCheck == tamper_detected \/ sha256_dummy(data, size) # hash

pm_verify_integrity ==
  /\ tamper_detected' = AlarmAfterCheck
  /\ UNCHANGED <<region, boot, sealed, cause, attested>>

pm_flag_tamper ==
  /\ tamper_detected' = TRUE
  /\ cause' = TRUE
  /\ UNCHANGED <<region, boot, sealed, attested>>

\* Something outside the module changes one byte of the region.
Glitch(k, v) ==
  /\ v # data[k]
  /\ data' = [data EXCEPT ![k] = v]
  /\ cause' = TRUE
  /\ attested' = FALSE
  /\ UNCHANGED <<size, hash, locked, boot, tamper_detected, sealed>>

Next ==
  \/ \E fw \in Hash : pm_init(fw)
  \/ pm_secure_boot
  \/ pm_lock
  \/ \E buf \in [1 .. N -> Byte], n \in 0 .. N + 1 : pm_write(buf, n)
  \/ pm_verify_integrity
  \/ pm_flag_tamper
  \/ \E k \in 1 .. N, v \in Byte : Glitch(k, v)

Spec == Init /\ [][Next]_vars

-----------------------------------------------------------------------------
TypeOK ==
  /\ data \in [1 .. N -> Byte]
  /\ size \in 0 .. N
  /\ hash \in Hash
  /\ locked \in BOOLEAN
  /\ firmware_hash \in Hash
  /\ signature_valid \in BOOLEAN
  /\ boot_ok \in BOOLEAN
  /\ tamper_detected \in BOOLEAN
  /\ sealed \in [1 .. N -> Byte] \cup {NotSealed}
  /\ cause \in BOOLEAN
  /\ attested \in BOOLEAN

\* The stored hash is the digest of exactly the bytes the last pm_write left,
\* over the size it set, whatever longer write came before it and whatever
\* has happened to the region since (protected_memory.c:101-105).
HashTracksWrites == sealed # NotSealed => hash = sha256_dummy(sealed, size)

\* pm_verify_integrity would notice that exactly one of the bytes in use
\* changed since the last pm_write (the case of
\* tests/test_protected_memory.c:172, for every byte and every value).
Changed == {k \in 1 .. size : pm_read[k] # sealed[k]}

OneByteDetected ==
  (sealed # NotSealed /\ \E k \in Changed : Changed = {k})
    => sha256_dummy(data, size) # hash

\* An image that was booted while locked is still the one whose hash was
\* expected, until something outside the module changes it: no sequence of
\* calls other than pm_init replaces it under boot_ok.
AttestedImage ==
  attested => boot_ok /\ locked /\ sha256_dummy(data, size) = firmware_hash

\* "allowed only before lock" (protected_memory.h:61): once locked, no call
\* but pm_init unlocks the region or changes its bytes, size or hash.
LockFreezes ==
  [][locked => \/ locked' /\ UNCHANGED <<data, size, hash>>
               \/ locked' /\ \E k \in 1 .. N, v \in Byte : Glitch(k, v)
               \/ \E fw \in Hash : pm_init(fw)]_vars

\* On a region that has been written an alarm is raised only if there was a
\* cause since that write, and only pm_init withdraws it.  (On one that has
\* not, pm_verify_integrity raises it at once: the hash pm_init leaves is all
\* zeros, which is no digest.)
AlarmsJustified ==
  [][/\ tamper_detected' /\ ~tamper_detected => sealed = NotSealed \/ cause'
     /\ tamper_detected /\ ~tamper_detected' => \E fw \in Hash : pm_init(fw)]_vars
=============================================================================

------------------------------- MODULE HsmOps -------------------------------
(***************************************************************************)
(* hsm.c as functions: the key of an ECU, the CRC32 and the MAC of a frame *)
(* and the two checks.                                                     *)
(*                                                                         *)
(* A word is the set of its bits that are 1: a byte is a subset of 0..7,   *)
(* a CRC a subset of 0..31, and ^ is symmetric difference.                 *)
(***************************************************************************)
EXTENDS Integers, Sequences, FiniteSets

HSM_KEY_SIZE == 32

Xor(a, b) == (a \ b) \cup (b \ a)
Weight == <<1, 2, 4, 8, 16, 32, 64, 128>>
ByteOf(n) == {b \in 0 .. 7 : (n \div Weight[b + 1]) % 2 = 1}
Value(byte) == LET Bit(b) == IF b \in byte THEN Weight[b + 1] ELSE 0
               IN Bit(0) + Bit(1) + Bit(2) + Bit(3)
                    + Bit(4) + Bit(5) + Bit(6) + Bit(7)

\* XOR of f[k] for k in S: the bits an odd number of them have.
XorAll(f, S) == {b \in 0 .. 7 : Cardinality({k \in S : b \in f[k]}) % 2 = 1}

-----------------------------------------------------------------------------
KeyBySum(name) ==    \* seeded fault: + for ^, as in master_key
  [i \in 0 .. HSM_KEY_SIZE - 1 |-> ByteOf(name[(i % Len(name)) + 1] + i)]

\* hsm_init: the name repeated over the key, mixed with the index.
comm_key(name) ==
  [i \in 0 .. HSM_KEY_SIZE - 1 |->
     Xor(ByteOf(name[(i % Len(name)) + 1]), ByteOf(i))]

KeyLeftOut(key, buf) == XorAll(buf, DOMAIN buf)    \* seeded fault

\* hmac_sha256_dummy: the accumulated byte, and the 32 bytes made of it.
Accumulated(key, buf) ==
  Xor(XorAll(key, DOMAIN key), XorAll(buf, DOMAIN buf))

hmac_sha256_dummy(key, buf) ==
  [i \in 0 .. 31 |-> Xor(Accumulated(key, buf), ByteOf(i))]

Polynomial ==    \* 0xEDB88320
  {5, 8, 9, 15, 19, 20, 21, 23, 24, 26, 27, 29, 30, 31}

Shifted(c) == {b - 1 : b \in c \ {0}}

Shift(c) == IF 0 \in c THEN Xor(Shifted(c), Polynomial) ELSE Shifted(c)

Shift8(c) == Shift(Shift(Shift(Shift(Shift(Shift(Shift(Shift(c))))))))

\* The register of crc32_compute after each byte: one XOR and eight shifts.
Register(first, buf) ==
  LET crc[i \in 0 .. Len(buf)] ==
        IF i = 0 THEN first ELSE Shift8(Xor(crc[i - 1], buf[i]))
  IN crc

\* It begins with all ones and is inverted at the end.
crc32_compute(buf) == (0 .. 31) \ Register(0 .. 31, buf)[Len(buf)]

\* The bytes both checks are computed over: at most eight of data, whatever
\* dlc says.
Buffer(f) ==
  f.id \o <<f.dlc>>
    \o SubSeq(f.data, 1, IF Value(f.dlc) < 8 THEN Value(f.dlc) ELSE 8)

hsm_protect_frame(name, f) ==
  [id |-> f.id, dlc |-> f.dlc, data |-> f.data,
   crc |-> crc32_compute(Buffer(f)),
   mac |-> hmac_sha256_dummy(comm_key(name), Buffer(f))]

hsm_verify_mac(name, f) ==
  hmac_sha256_dummy(comm_key(name), Buffer(f)) = f.mac

CrcUnchecked(name, f) == hsm_verify_mac(name, f)    \* seeded fault

hsm_verify_frame(name, f) ==
  crc32_compute(Buffer(f)) = f.crc /\ hsm_verify_mac(name, f)

\* What a wheel fills in before ecu_send: its id, and one data byte.
WheelFrame(id, byte) ==
  [id |-> <<{}, {}, ByteOf(id \div 256), ByteOf(id % 256)>>,
   dlc |-> ByteOf(1),
   data |-> [k \in 1 .. 8 |-> IF k = 1 THEN byte ELSE {}]]

\* All that the MAC lets through of a key: the XOR of its bytes.
KeyByte(name) == XorAll(comm_key(name), 0 .. HSM_KEY_SIZE - 1)
=============================================================================

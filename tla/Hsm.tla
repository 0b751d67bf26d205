--------------------------------- MODULE Hsm ---------------------------------
(***************************************************************************)
(* A frame that one ECU protects with hsm.c, that may lose a few bits      *)
(* under way, and that another ECU verifies.                               *)
(***************************************************************************)
EXTENDS HsmOps, Can

CONSTANTS
  Names,         \* ECU names, as sequences of character codes
  Frames,        \* cleartext frames: [id, dlc, data]
  Damage,        \* places of a frame where a bit may flip
  MaxFlips       \* bound on the bits that flip

Cleartexts ==
  [id : [1 .. 4 -> SUBSET (0 .. 7)], dlc : SUBSET (0 .. 7),
   data : [1 .. 8 -> SUBSET (0 .. 7)]]

\* A bit of a protected frame: <<field, index, bit>>, index 0 for a scalar.
IsBit(d) ==
  \/ \E k \in 1 .. 4, b \in 0 .. 7 : d = <<"id", k, b>>
  \/ \E b \in 0 .. 7 : d = <<"dlc", 0, b>>
  \/ \E k \in 1 .. 8, b \in 0 .. 7 : d = <<"data", k, b>>
  \/ \E b \in 0 .. 31 : d = <<"crc", 0, b>>
  \/ \E k \in 0 .. 31, b \in 0 .. 7 : d = <<"mac", k, b>>

ASSUME HsmAssumption ==
  /\ Names \subseteq Seq(0 .. 127) \ {<< >>}
  /\ Frames \subseteq Cleartexts
  /\ \A d \in Damage : IsBit(d)
  /\ MaxFlips \in Nat

\* A computation: one wrong bit in a byte never leaves one wrong bit in the CRC
\* register, however many of the up to 13 bytes of a buffer are still to come.
MaxBytes == 13
Zeros == [i \in 1 .. MaxBytes |-> {}]

ASSUME CrcSpreadsBits ==
  \A b \in 0 .. 7, k \in 1 .. MaxBytes, c \in 0 .. 31 :
    Register({b}, Zeros)[k] # {c}

\* The differences that one more wrong bit, in the buffer or in the CRC itself,
\* can make in the CRC; none when it is elsewhere.
OneBitDifferences ==
  {{}} \cup {{c} : c \in 0 .. 31}
    \cup UNION {{Register({b}, Zeros)[k] : k \in 1 .. MaxBytes} : b \in 0 .. 7}

\* The frames of the four wheels, the only programs that call ecu_send.
WheelIds ==
  {CAN_ID_WHEEL_FL, CAN_ID_WHEEL_FR, CAN_ID_WHEEL_RL, CAN_ID_WHEEL_RR}

IsWheelFrame(f) ==
  \E id \in WheelIds, byte \in SUBSET (0 .. 7) : f = WheelFrame(id, byte)

\* A computation: when one or two wrong bits of dlc make the CRC of a wheel's
\* frame cover more bytes or fewer, no further wrong bit makes it right.
ASSUME CrcSeesLength ==
  \A id \in WheelIds, byte \in SUBSET (0 .. 7), b \in 0 .. 7, c \in 0 .. 7 :
    c <= b =>
      LET f == WheelFrame(id, byte)
          g == [f EXCEPT !.dlc = Xor(@, {b, c})]
      IN Len(Buffer(g)) # Len(Buffer(f)) =>
           Xor(crc32_compute(Buffer(f)), crc32_compute(Buffer(g)))
             \notin OneBitDifferences

VARIABLES stage, sender, receiver, sent, frame, flips, verdict

vars == <<stage, sender, receiver, sent, frame, flips, verdict>>

-----------------------------------------------------------------------------
Init ==
  /\ stage = "clear"
  /\ sender \in Names
  /\ receiver \in Names
  /\ sent \in Frames
  /\ frame = sent
  /\ flips = {}
  /\ verdict = FALSE

Protect ==
  /\ stage = "clear"
  /\ frame' = hsm_protect_frame(sender, frame)
  /\ stage' = "wire"
  /\ UNCHANGED <<sender, receiver, sent, flips, verdict>>

\* One bit of one field flips.
Flipped(f, d) ==
  LET bit == {d[3]}
  IN CASE d[1] = "id"   -> [f EXCEPT !.id[d[2]] = Xor(@, bit)]
       [] d[1] = "dlc"  -> [f EXCEPT !.dlc = Xor(@, bit)]
       [] d[1] = "data" -> [f EXCEPT !.data[d[2]] = Xor(@, bit)]
       [] d[1] = "crc"  -> [f EXCEPT !.crc = Xor(@, bit)]
       [] d[1] = "mac"  -> [f EXCEPT !.mac[d[2]] = Xor(@, bit)]

Flip(d) ==
  /\ stage = "wire"
  /\ d \notin flips
  /\ Cardinality(flips) < MaxFlips
  /\ flips' = flips \cup {d}
  /\ frame' = Flipped(frame, d)
  /\ UNCHANGED <<stage, sender, receiver, sent, verdict>>

Verify ==
  /\ stage = "wire"
  /\ verdict' = hsm_verify_frame(receiver, frame)
  /\ stage' = "verified"
  /\ UNCHANGED <<sender, receiver, sent, frame, flips>>

Next == Protect \/ Verify \/ \E d \in Damage : Flip(d)

Spec == Init /\ [][Next]_vars

-----------------------------------------------------------------------------
\* Between ECUs whose keys have the same XOR an undamaged frame is accepted,
\* and between others it is not: the rest of the 32 key bytes plays no part.
SameKeyByte == KeyByte(sender) = KeyByte(receiver)

RoundTrip ==
  stage = "verified" /\ flips = {} => (verdict <=> SameKeyByte)

\* An accepted frame says what was sent: no damage of up to MaxFlips bits in
\* id, dlc, data, CRC or MAC gets past hsm_verify_frame, except in the data
\* bytes beyond dlc, which no program reads.
AcceptedUnaltered ==
  stage = "verified" /\ verdict => Buffer(frame) = Buffer(sent)

\* Whatever keys the two ECUs have, a frame with damage in no more than one byte
\* of its id or data is refused, however many bits of that byte are wrong,
\* unless the byte is one that no program reads (hsm.c:9-19, 99-127).
Damaged == {<<d[1], d[2]>> : d \in flips}

OneByteRefused ==
  stage = "verified" /\ verdict
    /\ (\E field \in {"id", "data"}, k \in 1 .. 8 : Damaged \subseteq {<<field, k>>})
  => Buffer(frame) = Buffer(sent)

\* Any two wrong bits are noticed, wherever in the frame they are and whatever
\* keys the two ECUs have, unless they change how many data bytes dlc makes
\* the CRC cover: where two bits cancel in the MAC, they show in the CRC
\* (hsm.c:9-29, 99-127).
TwoBitsRefused ==
  stage = "verified" /\ verdict
    /\ Cardinality(flips) <= 2 /\ Len(Buffer(frame)) = Len(Buffer(sent))
  => Buffer(frame) = Buffer(sent)
=============================================================================

-------------------------------- MODULE MCHsm --------------------------------
(* An instance of Hsm for TLC: two ECU names of the vehicle, three frames.*)
EXTENDS Hsm

wheel_fl == <<119, 104, 101, 101, 108, 95, 102, 108>>
steering_controller ==
  <<115, 116, 101, 101, 114, 105, 110, 103, 95,
    99, 111, 110, 116, 114, 111, 108, 108, 101, 114>>

MCNames == {wheel_fl, steering_controller}

Cleartext(id, dlc, bytes) ==
  [id |-> <<{}, {}, ByteOf(id \div 256), ByteOf(id % 256)>>,
   dlc |-> ByteOf(dlc),
   data |-> [k \in 1 .. 8 |-> IF k <= Len(bytes) THEN ByteOf(bytes[k]) ELSE {}]]

\* A wheel speed, a brake command and a frame of two bytes (test_hsm.c).
MCFrames == {Cleartext(256, 1, <<10>>), Cleartext(768, 1, <<0>>),
             Cleartext(801, 2, <<17, 34>>)}

MCDamage ==
  {<<"id", k, b>> : k \in 1 .. 4, b \in 0 .. 7}
    \cup {<<"dlc", 0, b>> : b \in 0 .. 7}
    \cup {<<"data", k, b>> : k \in 1 .. 3, b \in 0 .. 7}
    \cup {<<"crc", 0, b>> : b \in 0 .. 31}
    \cup {<<"mac", k, b>> : k \in {0, 31}, b \in {0, 7}}
=============================================================================

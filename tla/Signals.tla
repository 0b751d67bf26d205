------------------------------- MODULE Signals -------------------------------
(***************************************************************************)
(* What the programs of src/src/ecu that produce signals put into their    *)
(* frames: each signal has a value, a step, and a rule that makes the next *)
(* value of the last one in the program's own integer type.  The second    *)
(* half is the frame as the 64 bytes that send() copies to the socket.     *)
(*                                                                         *)
(* A signal is named after its CAN id.                                     *)
(***************************************************************************)
EXTENDS Can, Integers, Sequences

Hsm == INSTANCE HsmOps

Id ==
  [WHEEL_FL  |-> CAN_ID_WHEEL_FL,  WHEEL_FR  |-> CAN_ID_WHEEL_FR,
   WHEEL_RL  |-> CAN_ID_WHEEL_RL,  WHEEL_RR  |-> CAN_ID_WHEEL_RR,
   ENGINE    |-> CAN_ID_ENGINE,    STEER     |-> CAN_ID_STEER,
   BRAKE_CMD |-> CAN_ID_BRAKE_CMD, STEER_CMD |-> CAN_ID_STEER_CMD]

Signals == DOMAIN Id
WheelSignals == {"WHEEL_FL", "WHEEL_FR", "WHEEL_RL", "WHEEL_RR"}

\* The angles turn back at a limit; the others start again.
Limit == [STEER |-> 30, STEER_CMD |-> 20]
Angles == DOMAIN Limit

\* The values before the first round of each loop.
FirstValue ==
  [WHEEL_FL |-> 10, WHEEL_FR |-> 20, WHEEL_RL |-> 15, WHEEL_RR |-> 18,
   ENGINE |-> 8, STEER |-> -30, BRAKE_CMD |-> 0, STEER_CMD |-> 0]

FirstStep ==
  [WHEEL_FL |-> 1, WHEEL_FR |-> 2, WHEEL_RL |-> 3, WHEEL_RR |-> 4,
   ENGINE |-> 4, STEER |-> 5, BRAKE_CMD |-> 5, STEER_CMD |-> 2]

-----------------------------------------------------------------------------
SignedByte(n) == n    \* seeded fault: the cast is lost

\* Conversion to uint8_t and to int8_t.
Uint8(n) == n % 256
Int8(n) == ((n + 128) % 256) - 128

Saturate(n, limit, first) == IF n > limit THEN limit ELSE n    \* seeded fault

Reset(n, limit, first) == IF n > limit THEN first ELSE n

\* One round of a program's loop after the frame has gone out.
NextValue(s, value, step) ==
  CASE s \in WheelSignals -> Uint8((value + step) % 200)
    [] s = "ENGINE"       -> Reset(Uint8(value + step), 40, 8)
    [] s = "BRAKE_CMD"    -> Reset(Uint8(value + step), 100, 0)
    [] s \in Angles       -> Int8(value + step)

TurnsAtTopOnly(s, value, step) ==    \* seeded fault: one limit forgotten
  IF s \in Angles /\ value > Limit[s] THEN Int8(-step) ELSE step

\* An angle that has passed its limit, by up to one step, turns back.
NextStep(s, value, step) ==
  IF s \in Angles /\ (value > Limit[s] \/ value < -Limit[s])
    THEN Int8(-step) ELSE step

-----------------------------------------------------------------------------
(* The frame of a signal on the wire: its data byte, and the fields that    *)
(* ecu_send fills in for the wheels; the rest is zero after memset.         *)

FrameBytes == 64    \* sizeof(can_frame_t)

WheelName ==
  LET wheel_ == <<119, 104, 101, 101, 108, 95>>
  IN [WHEEL_FL |-> wheel_ \o <<102, 108>>, WHEEL_FR |-> wheel_ \o <<102, 114>>,
      WHEEL_RL |-> wheel_ \o <<114, 108>>, WHEEL_RR |-> wheel_ \o <<114, 114>>]

Protected == [s \in WheelSignals |-> [data \in 0 .. 255 |->
  Hsm!hsm_protect_frame(WheelName[s], Hsm!WheelFrame(Id[s], Hsm!ByteOf(data)))]]

\* The bytes of a frame besides its id and data[0].
OtherBytes == {4} \cup 6 .. FrameBytes - 1

\* The frame of signal s with data byte d whose sender has cleared it first.
Frame(s, d) == [sig |-> s, data |-> d, rest |-> << >>]

\* A sender that does not clear its frame sends, in rest, what it finds there.
Frames == [sig : Signals, data : 0 .. 255,
           rest : {<< >>} \cup [OtherBytes -> 0 .. 255]]

\* Byte k of a frame, and of one that its sender has cleared.
Cleared(s, d, k) ==
  CASE k = 0 -> Id[s] % 256
    [] k = 1 -> Id[s] \div 256
    [] k = 4 -> 1
    [] k = 5 -> d
    [] k \in 16 .. 19 /\ s \in WheelSignals ->
         Hsm!Value({b \in 0 .. 7 : 8 * (k - 16) + b \in Protected[s][d].crc})
    [] k \in 20 .. 51 /\ s \in WheelSignals -> Hsm!Value(Protected[s][d].mac[k - 20])
    [] k = 52 /\ s \in WheelSignals -> 1
    [] OTHER -> 0

Byte(f, k) ==
  IF f.rest # << >> /\ k \in OtherBytes THEN f.rest[k] ELSE Cleared(f.sig, f.data, k)

\* A number of 32 bits that begins at byte k and is not split by a border, as the
\* monitor would read it into frame.id.
WordAt(f, k) == <<Byte(f, k), Byte(f, k + 1), Byte(f, k + 2), Byte(f, k + 3)>>

WordOfId(s) == <<Id[s] % 256, Id[s] \div 256, 0, 0>>

\* A computation: no CRC of a wheel's frame, read from the byte before it, from
\* its first or from its second byte, is the id of a signal.
ASSUME CrcIsNoId ==
  \A w \in WheelSignals, d \in 0 .. 255, k \in 15 .. 17, s \in Signals :
    WordAt(Frame(w, d), k) # WordOfId(s)
=============================================================================

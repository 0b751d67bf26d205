------------------------------- MODULE Vehicle -------------------------------
(***************************************************************************)
(* The programs of the vehicle around the bus (src/src/ecu) as an instance *)
(* of Ecu: their names, keys, frames and the ids they act on.  The value   *)
(* of a signal plays no part in any check and is left out.                 *)
(***************************************************************************)
EXTENDS Ecu

CONSTANTS
  wheel_fl, wheel_fr, wheel_rl, wheel_rr,
  engine_ecu, steering_sensor, autonomous_controller,
  brake_controller, steering_controller

Hsm == INSTANCE HsmOps

FourWheels == {wheel_fl, wheel_fr, wheel_rl, wheel_rr}
TwoControllers == {brake_controller, steering_controller}

\* The name each program hands to ecu_init, as character codes.
EcuName ==
  [e \in FourWheels \cup TwoControllers |->
     CASE e = wheel_fl -> <<119, 104, 101, 101, 108, 95, 102, 108>>
       [] e = wheel_fr -> <<119, 104, 101, 101, 108, 95, 102, 114>>
       [] e = wheel_rl -> <<119, 104, 101, 101, 108, 95, 114, 108>>
       [] e = wheel_rr -> <<119, 104, 101, 101, 108, 95, 114, 114>>
       [] e = brake_controller ->
            <<98, 114, 97, 107, 101, 95, 99, 111, 110, 116, 114, 111, 108,
              108, 101, 114>>
       [] e = steering_controller ->
            <<115, 116, 101, 101, 114, 105, 110, 103, 95, 99, 111, 110, 116,
              114, 111, 108, 108, 101, 114>>]

KeyOfName == [e \in DOMAIN EcuName |-> Hsm!KeyByte(EcuName[e])]

VehicleKey == [e \in Ecus |-> KeyOfName[e]]

\* The programs differ, each takes the part its main gives it, and every ECU has
\* the key of its name.
ASSUME VehicleAssumption ==
  /\ Cardinality(FourWheels) = 4
  /\ FourWheels \cap TwoControllers = {}
  /\ brake_controller # steering_controller
  /\ Wheels \subseteq FourWheels
  /\ Controllers \subseteq TwoControllers
  /\ CommKey = VehicleKey

\* A frame as memset leaves it, with an id and one byte of data.
Signal(id, secured) ==
  [id |-> id, dlc |-> 1, secured |-> secured, crc_ok |-> FALSE, mac |-> NoMac]

WheelId ==
  [w \in FourWheels |->
     CASE w = wheel_fl -> CAN_ID_WHEEL_FL [] w = wheel_fr -> CAN_ID_WHEEL_FR
       [] w = wheel_rl -> CAN_ID_WHEEL_RL [] w = wheel_rr -> CAN_ID_WHEEL_RR]

WheelFrames == [w \in Wheels |-> {Signal(WheelId[w], TRUE)}]

\* The ids that the programs which write to their socket without ecu_send put
\* into one round of their while loop.
RawIds ==
  [p \in {engine_ecu, steering_sensor, autonomous_controller} |->
     CASE p = engine_ecu -> <<CAN_ID_ENGINE>>
       [] p = steering_sensor -> <<CAN_ID_STEER>>
       [] p = autonomous_controller -> <<CAN_ID_BRAKE_CMD, CAN_ID_STEER_CMD>>]

RawFrames ==
  [p \in RawPrograms |->
     [k \in 1 .. Len(RawIds[p]) |-> Signal(RawIds[p][k], FALSE)]]

\* The id compared in the body of each controller's loop.
CommandId ==
  [c \in Controllers |-> IF c = brake_controller THEN \h200 ELSE \h300]

-----------------------------------------------------------------------------
\* The brake controller trusts the wheels: the keys hsm_init makes of the five
\* names agree in the byte the MAC depends on (hsm.c:36-41), so no frame that a
\* wheel protects is counted as a MAC error or refused by the checks.
ByWheel(f) ==
  \E w \in Wheels : \E g \in WheelFrames[w] :
    f = hsm_protect_frame(CommKey[w], g)

BrakeTrustsWheels ==
  \A k \in 1 .. Len(seen[brake_controller]) :
    LET f == seen[brake_controller][k]
    IN ByWheel(f) =>
         /\ sec_ok(CommKey[brake_controller], f)
         /\ k \notin Unverified(brake_controller, Len(seen[brake_controller]))

\* "0x300 | Brake command" (README.md:142) and "0x302 | Steering command"
\* (README.md:144): a controller that reads its command carries it out.
DocumentedId ==
  [c \in TwoControllers |->
     IF c = brake_controller THEN CAN_ID_BRAKE_CMD ELSE CAN_ID_STEER_CMD]

CommandsCarriedOut ==
  \A c \in Controllers : \A k \in 1 .. Len(seen[c]) :
    seen[c][k].id = DocumentedId[c] =>
      \E a \in applied[c] : a.frame = seen[c][k]
=============================================================================

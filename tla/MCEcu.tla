-------------------------------- MODULE MCEcu --------------------------------
(* Vehicle for TLC, among senders of every kind of frame: a wheel that also *)
(* hands over a frame it has not marked secured, a raw program (in           *)
(* EcuChecks.cfg one whose commands nobody has protected), and a program     *)
(* that sends commands the steering controller accepts, some of which fail   *)
(* a check.                                                                  *)
EXTENDS Vehicle

MCOutgoing ==
  [w \in Wheels |-> WheelFrames[w] \cup {Signal(WheelId[w], FALSE)}]

Command ==
  hsm_protect_frame(VehicleKey[steering_controller], Signal(CAN_ID_BRAKE_CMD, TRUE))

BadCrc == [Command EXCEPT !.crc_ok = FALSE]

MCWire ==
  {Command, [BadCrc EXCEPT !.dlc = 0], [Command EXCEPT !.dlc = CAN_MAX_DATA_LEN + 1]}

LateWire == MCWire \cup {BadCrc, [Command EXCEPT !.mac = NoMac]}

=============================================================================

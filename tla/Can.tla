--------------------------------- MODULE Can ---------------------------------
(* The constants of can.h that the programs of the vehicle share.           *)

CAN_MAX_DATA_LEN    == 8

CAN_ID_WHEEL_FL     == \h100
CAN_ID_WHEEL_FR     == \h101
CAN_ID_WHEEL_RL     == \h102
CAN_ID_WHEEL_RR     == \h103
CAN_ID_ENGINE       == \h110
CAN_ID_STEER        == \h120
CAN_ID_BRAKE_CMD    == \h300
CAN_ID_THROTTLE_CMD == \h301
CAN_ID_STEER_CMD    == \h302
=============================================================================

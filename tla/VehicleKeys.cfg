SPECIFICATION Spec
CONSTANTS
  wheel_fl = wheel_fl
  wheel_fr = wheel_fr
  wheel_rl = wheel_rl
  wheel_rr = wheel_rr
  engine_ecu = engine_ecu
  steering_sensor = steering_sensor
  autonomous_controller = autonomous_controller
  brake_controller = brake_controller
  steering_controller = steering_controller
  NoMac = NoMac
  Controllers = {brake_controller, steering_controller}
  Wheels = {wheel_fl, wheel_fr, wheel_rl, wheel_rr}
  RawPrograms = {engine_ecu, steering_sensor, autonomous_controller}
  CommKey <- VehicleKey
  ActsOn <- CommandId
  Outgoing <- WheelFrames
  RawTraffic <- RawFrames
  Wire = {}
  ShortReads = FALSE
  MaxFrames = 3
CHECK_DEADLOCK FALSE
INVARIANT
  ProtectedFramesVerify

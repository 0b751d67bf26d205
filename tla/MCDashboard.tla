----------------------------- MODULE MCDashboard -----------------------------
(* An instance of Dashboard for TLC: every kind of program on its own, two   *)
(* programs that fill each other's sockets, a bus that goes down or drops a  *)
(* program, a wheel whose frames TCP splits where the bytes after the cut    *)
(* can pass for an id, and the attacker beside the engine whose id it uses.  *)
EXTENDS Dashboard

Scene(crew, cuts, stops, room) ==
  [crew |-> crew, cuts |-> cuts, stops |-> stops, room |-> room,
   buffer |-> 1, forged |-> {}]

\* A frame of main_attacker.c with n > 0 bytes of data set to d, whose flag is b.
Forgery(sig, dlc, n, d, b) ==
  [sig |-> sig, data |-> d,
   rest |-> [k \in OtherBytes |-> CASE k = 4 -> dlc
                                    [] k \in 6 .. n + 4 -> d
                                    [] k = 52 -> b
                                    [] OTHER -> 0]]

MCForged ==
  {Forgery("ENGINE", 4, 4, 65, b) : b \in {0, 1}}
    \cup {Forgery("BRAKE_CMD", 1, 1, 37, 1), Forgery("STEER_CMD", 15, 8, 255, 0)}

MCScenes ==
  {Scene({"wheel_rr"}, {51}, FALSE, 2),
   Scene({"steering_sensor"}, {3}, FALSE, 2),
   Scene({"engine_ecu"}, {}, TRUE, 2),
   Scene({"autonomous_controller"}, {}, FALSE, 2),
   [Scene({"engine_ecu", "steering_sensor"}, {}, FALSE, 1) EXCEPT !.buffer = 2],
   [Scene({"engine_ecu", "attacker"}, {}, FALSE, 1)
      EXCEPT !.forged = MCForged]}
=============================================================================

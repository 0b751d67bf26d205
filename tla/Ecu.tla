--------------------------------- MODULE Ecu ---------------------------------
(***************************************************************************)
(* The programs of the vehicle on top of the bus: ecu.c and ids.c, the     *)
(* checks of main_security_checks.c, the loops of the two controllers, of  *)
(* the wheel ECUs (which send through ecu_send) and of the programs that   *)
(* write raw frames to their socket.  The bus is the medium of CanMedium   *)
(* with one queue per controller; it may stop once a program has left it   *)
(* (see BusServer).                                                        *)
(*                                                                         *)
(* A frame keeps what the checks look at.  The dummy HMAC depends on the   *)
(* key only through the XOR of its bytes, so a key is that byte, and mac   *)
(* is the key that would produce the frame's MAC, or NoMac.                *)
(***************************************************************************)
EXTENDS Can, Integers, Sequences, FiniteSets

CONSTANTS
  Controllers, Wheels, RawPrograms,    \* the programs, by what they do
  CommKey,       \* CommKey[e]: the XOR of the comm_key bytes of e
  NoMac,         \* mac bytes that no key produces, such as 32 zeros
  ActsOn,        \* ActsOn[c]: the id whose frames controller c acts on
  Outgoing,      \* Outgoing[e]: frames a wheel ECU hands to ecu_send
  RawTraffic,    \* RawTraffic[p]: frames p sends, one after the other
  Wire,          \* frames any other program on the bus may send
  ShortReads,    \* whether recv() may return less than a frame
  MaxFrames      \* bound on the frames put on the bus

Ecus == Controllers \cup Wheels
Programs == Ecus \cup RawPrograms

MAC_ERROR_THRESHOLD       == 3
UNSECURED_FRAME_THRESHOLD == 1

Keys == {CommKey[e] : e \in Ecus}
Frame == [id : Nat, dlc : 0 .. 255, secured : BOOLEAN, crc_ok : BOOLEAN,
          mac : Keys \cup {NoMac}]

ASSUME EcuAssumption ==
  /\ Controllers \cap Wheels = {}
  /\ Ecus \cap RawPrograms = {}
  /\ NoMac \notin Keys
  /\ ActsOn \in [Controllers -> Nat]
  /\ Outgoing \in [Wheels -> SUBSET Frame]
  /\ RawTraffic \in [RawPrograms -> Seq(Frame)]
  /\ \A p \in RawPrograms : RawTraffic[p] # << >>
  /\ Wire \subseteq Frame
  /\ ShortReads \in BOOLEAN
  /\ MaxFrames \in Nat

VARIABLES
  bus,                 \* "up" or "down"
  pc,                  \* "start", "loop", "done" (returned) or "killed"
  mac_errors, unsecured_frames, fail_safe,   \* ecu_t of each ECU
  turn,                \* which frame of RawTraffic[p] comes next
  inbox,               \* frames sent to a controller and not yet read
  seen,                \* history: frames a controller has read
  applied,             \* history: those it acted on, with fail_safe then
  carried              \* number of frames the bus has carried

ecu == <<mac_errors, unsecured_frames, fail_safe>>
vars == <<bus, pc, ecu, turn, inbox, seen, applied, carried>>

Init ==
  /\ bus = "up"
  /\ pc = [p \in Programs |-> "start"]
  /\ mac_errors = [e \in Ecus |-> 0]
  /\ unsecured_frames = [e \in Ecus |-> 0]
  /\ fail_safe = [e \in Ecus |-> FALSE]
  /\ turn = [p \in RawPrograms |-> 1]
  /\ inbox = [c \in Controllers |-> << >>]
  /\ seen = [c \in Controllers |-> << >>]
  /\ applied = [c \in Controllers |-> {}]
  /\ carried = 0

-----------------------------------------------------------------------------
(* hsm.c and main_security_checks.c *)

hsm_protect_frame(key, f) ==
  [f EXCEPT !.secured = TRUE, !.crc_ok = TRUE, !.mac = key]

hsm_verify_mac(key, f) == f.mac = key

hsm_verify_frame(key, f) == f.crc_ok /\ hsm_verify_mac(key, f)

id_allowed(id) ==
  id \in {CAN_ID_WHEEL_FL, CAN_ID_WHEEL_FR, CAN_ID_WHEEL_RL, CAN_ID_WHEEL_RR,
          CAN_ID_ENGINE, CAN_ID_STEER,
          CAN_ID_BRAKE_CMD, CAN_ID_THROTTLE_CMD, CAN_ID_STEER_CMD}

MacUnchecked(key, f) ==    \* seeded fault: the MAC check is lost
  f.dlc <= CAN_MAX_DATA_LEN /\ id_allowed(f.id)

\* security_check_frame returns SEC_OK.
sec_ok(key, f) ==
  /\ f.dlc <= CAN_MAX_DATA_LEN
  /\ id_allowed(f.id)
  /\ hsm_verify_mac(key, f)

(* ids.c *)

ToleratesOneMore(n) == n > MAC_ERROR_THRESHOLD    \* seeded fault

\* ids_update_on_mac_error and ids_update_on_unsecured: the verdict on the
\* counter after the increment.
mac_fail_safe(n) == n >= MAC_ERROR_THRESHOLD

unsecured_fail_safe(n) == n >= UNSECURED_FRAME_THRESHOLD

-----------------------------------------------------------------------------
\* ecu_init, or the connect of a raw program: it fails when nobody listens.
Start(p) ==
  /\ pc[p] = "start"
  /\ pc' = [pc EXCEPT ![p] = IF bus = "up" THEN "loop" ELSE "done"]
  /\ UNCHANGED <<bus, ecu, turn, inbox, seen, applied, carried>>

\* The bus hands f to every connected controller.
Broadcast(f) ==
  /\ bus = "up"
  /\ carried < MaxFrames
  /\ carried' = carried + 1
  /\ inbox' = [c \in Controllers |->
                 IF pc[c] = "loop" THEN Append(inbox[c], f) ELSE inbox[c]]

\* The bus is gone: the write is lost, or kills the program by SIGPIPE.
SendToNobody(p) ==
  /\ bus = "down"
  /\ pc' \in {pc, [pc EXCEPT ![p] = "killed"]}
  /\ UNCHANGED <<inbox, carried>>

\* ecu_send of a frame marked secured.
SendSecured(e) ==
  /\ pc[e] = "loop"
  /\ ~fail_safe[e]
  /\ \/ /\ \E f \in Outgoing[e] :
             f.secured /\ Broadcast(hsm_protect_frame(CommKey[e], f))
        /\ UNCHANGED pc
     \/ SendToNobody(e) /\ \E f \in Outgoing[e] : f.secured
  /\ UNCHANGED <<bus, ecu, turn, seen, applied>>

\* ecu_send of a frame not marked secured: it is counted, and the first one
\* puts the sender into fail-safe instead of going out.
SendUnsecured(e) ==
  /\ pc[e] = "loop"
  /\ ~fail_safe[e]
  /\ \E f \in Outgoing[e] :
       /\ ~f.secured
       /\ unsecured_frames' = [unsecured_frames EXCEPT ![e] = @ + 1]
       /\ \/ /\ unsecured_fail_safe(unsecured_frames'[e])
             /\ fail_safe' = [fail_safe EXCEPT ![e] = TRUE]
             /\ UNCHANGED <<inbox, carried>>
          \/ /\ ~unsecured_fail_safe(unsecured_frames'[e])
             /\ Broadcast(f)
             /\ UNCHANGED fail_safe
  /\ UNCHANGED <<bus, pc, mac_errors, turn, seen, applied>>

\* A raw program sends the next frame of its cycle, secured or not.
RawSend(p) ==
  /\ pc[p] = "loop"
  /\ \/ /\ Broadcast(RawTraffic[p][turn[p]])
        /\ UNCHANGED pc
     \/ SendToNobody(p)
  /\ turn' = [turn EXCEPT ![p] = (@ % Len(RawTraffic[p])) + 1]
  /\ UNCHANGED <<bus, ecu, seen, applied>>

\* Some other program on the bus sends a frame.
OtherSend ==
  /\ \E f \in Wire : Broadcast(f)
  /\ UNCHANGED <<bus, pc, ecu, turn, seen, applied>>

-----------------------------------------------------------------------------
LoopForever(e) == pc[e] = "loop"    \* seeded fault: while (1)

\* while (!ecu.fail_safe)
Looping(e) == pc[e] = "loop" /\ ~fail_safe[e]

\* ecu_recv has read f: the ids counters and the verdict.
Counted(c, f) ==
  LET u == unsecured_frames[c] + 1
      m == mac_errors[c] + 1
  IN \/ /\ ~f.secured
        /\ unsecured_frames' = [unsecured_frames EXCEPT ![c] = u]
        /\ UNCHANGED mac_errors
     \/ /\ f.secured
        /\ ~hsm_verify_frame(CommKey[c], f)
        /\ mac_errors' = [mac_errors EXCEPT ![c] = m]
        /\ UNCHANGED unsecured_frames
     \/ /\ f.secured
        /\ hsm_verify_frame(CommKey[c], f)
        /\ UNCHANGED <<mac_errors, unsecured_frames>>

IdsFailSafe(c, f) ==
  \/ ~f.secured /\ unsecured_fail_safe(unsecured_frames[c] + 1)
  \/ /\ f.secured
     /\ ~hsm_verify_frame(CommKey[c], f)
     /\ mac_fail_safe(mac_errors[c] + 1)

\* One round of a controller's loop: ecu_recv, security_check_frame, and the
\* command if it is one.  fail_safe is not looked at again before the command.
Round(c) ==
  /\ Looping(c)
  /\ inbox[c] # << >>
  /\ LET f == Head(inbox[c])
         ok == sec_ok(CommKey[c], f)
     IN /\ Counted(c, f)
        /\ fail_safe' = [fail_safe EXCEPT ![c] = @ \/ IdsFailSafe(c, f) \/ ~ok]
        /\ pc' = [pc EXCEPT ![c] = IF ok THEN "loop" ELSE "done"]
        /\ applied' = [applied EXCEPT ![c] =
             IF ok /\ f.id = ActsOn[c] /\ f.dlc >= 1
               THEN @ \cup {[frame |-> f, late |-> fail_safe'[c]]} ELSE @]
        /\ seen' = [seen EXCEPT ![c] = Append(@, f)]
  /\ inbox' = [inbox EXCEPT ![c] = Tail(@)]
  /\ UNCHANGED <<bus, turn, carried>>

\* recv returns end of file, or less than a frame because only its first
\* segment has arrived: the loop breaks without setting fail_safe.
RecvFails(c) ==
  /\ Looping(c)
  /\ \/ inbox[c] = << >> /\ bus = "down"
     \/ inbox[c] # << >> /\ ShortReads
  /\ pc' = [pc EXCEPT ![c] = "done"]
  /\ UNCHANGED <<bus, ecu, turn, inbox, seen, applied, carried>>

\* The loop condition is false: main returns.
LoopEnds(e) ==
  /\ pc[e] = "loop"
  /\ fail_safe[e]
  /\ pc' = [pc EXCEPT ![e] = "done"]
  /\ UNCHANGED <<bus, ecu, turn, inbox, seen, applied, carried>>

\* The bus process is killed by the SIGPIPE a departed program causes.
BusStops ==
  /\ bus = "up"
  /\ \E p \in Programs : pc[p] \in {"done", "killed"}
  /\ bus' = "down"
  /\ UNCHANGED <<pc, ecu, turn, inbox, seen, applied, carried>>

Next ==
  \/ \E p \in Programs : Start(p)
  \/ \E e \in Wheels : SendSecured(e) \/ SendUnsecured(e)
  \/ \E p \in RawPrograms : RawSend(p)
  \/ OtherSend
  \/ \E c \in Controllers : Round(c) \/ RecvFails(c)
  \/ \E e \in Ecus : LoopEnds(e)
  \/ BusStops

Spec == Init /\ [][Next]_vars

-----------------------------------------------------------------------------
\* The counters stop at their thresholds, so they cannot wrap around.
TypeOK ==
  /\ bus \in {"up", "down"}
  /\ pc \in [Programs -> {"start", "loop", "done", "killed"}]
  /\ mac_errors \in [Ecus -> 0 .. MAC_ERROR_THRESHOLD]
  /\ unsecured_frames \in [Ecus -> 0 .. UNSECURED_FRAME_THRESHOLD]
  /\ fail_safe \in [Ecus -> BOOLEAN]
  /\ turn \in [RawPrograms -> Nat]
  /\ \A p \in RawPrograms : turn[p] \in 1 .. Len(RawTraffic[p])
  /\ inbox \in [Controllers -> Seq(Frame)]
  /\ seen \in [Controllers -> Seq(Frame)]
  /\ applied \in [Controllers -> SUBSET [frame : Frame, late : BOOLEAN]]
  /\ carried \in 0 .. MaxFrames

\* What the first n frames a controller has read gave cause for: an unsecured
\* frame, a frame the checks refuse, or the third whose CRC or MAC is wrong.
Unverified(c, n) ==
  {k \in 1 .. n : seen[c][k].secured /\ ~hsm_verify_frame(CommKey[c], seen[c][k])}

CauseWithin(c, n) ==
  \/ \E k \in 1 .. n : ~seen[c][k].secured \/ ~sec_ok(CommKey[c], seen[c][k])
  \/ Cardinality(Unverified(c, n)) >= MAC_ERROR_THRESHOLD

\* A controller is in fail-safe exactly when the frames it has read since it
\* started gave a cause: no false alarm and none missed, whatever the order
\* of good and bad frames (ecu.c:41-64, ids.c, main_brake_controller.c:21-28).
AlarmsExact ==
  \A c \in Controllers : fail_safe[c] <=> CauseWithin(c, Len(seen[c]))

\* The frame that gives cause is the last one a controller ever reads, however
\* many more wait in its socket.
StopsAtFirstAlarm ==
  \A c \in Controllers : seen[c] # << >> => ~CauseWithin(c, Len(seen[c]) - 1)

\* A command is only carried out from a frame of a whitelisted id with at
\* least one and at most eight data bytes and a MAC under the controller's
\* own key (main_security_checks.c:25-50 before the command in each loop).
AppliedIsAuthentic ==
  \A c \in Controllers : \A a \in applied[c] :
    /\ a.frame.mac = CommKey[c]
    /\ a.frame.dlc \in 1 .. CAN_MAX_DATA_LEN
    /\ id_allowed(a.frame.id)

-----------------------------------------------------------------------------
\* "[ECU %s] FAIL-SAFE due to unsecured incoming frame" (ecu.c:50) and
\* "FAIL-SAFE due to MAC/CRC errors" (ecu.c:60): a controller in fail-safe
\* carries out no command.
NoCommandInFailSafe ==
  \A c \in Controllers : \A a \in applied[c] : ~a.late

\* "Verify MAC + CRC for incoming frame" (hsm.h:29): what one ECU of the
\* vehicle protected passes the checks of every controller.
ProtectedFramesVerify ==
  \A c \in Controllers : \A k \in 1 .. Len(seen[c]) :
    seen[c][k].mac \in Keys => sec_ok(CommKey[c], seen[c][k])
=============================================================================

------------------------------ MODULE Dashboard ------------------------------
(***************************************************************************)
(* The monitor program (main_monitor.c) and the programs whose signals it  *)
(* shows.  The monitor polls a non-blocking TCP socket once per round and  *)
(* only keeps what one recv() returns when that is a whole frame, so the   *)
(* connection is modelled by its bytes: the frames written to it, how many *)
(* of their bytes have arrived, and how many the monitor has taken.        *)
(*                                                                         *)
(* The bus relays every frame in order to all other programs and to the    *)
(* monitor (module BusServer).  The programs of this module never read     *)
(* what it writes to them, so it blocks for good once the socket of one of *)
(* them is full.  It closes the connection of a program whose frame it     *)
(* reads in two parts, and it may go down at any time, because a           *)
(* controller has left it (modules BusServer and Ecu).                     *)
(***************************************************************************)
EXTENDS Signals, FiniteSets

CONSTANT
  Scenes         \* the circumstances a behaviour may take place in:
                 \* [crew |-> the programs that are running,
                 \*  cuts |-> where TCP may split a frame,
                 \*  stops |-> whether the bus may go down or drop a program,
                 \*  room |-> bound on a program's frames that are on their way or lost,
                 \*  buffer |-> frames that fit into a program's unread socket,
                 \*  forged |-> the frames the attacker may send]

\* The signals a program sends in one round of its loop.
Sends ==
  [wheel_fl |-> <<"WHEEL_FL">>, wheel_fr |-> <<"WHEEL_FR">>,
   wheel_rl |-> <<"WHEEL_RL">>, wheel_rr |-> <<"WHEEL_RR">>,
   engine_ecu |-> <<"ENGINE">>, steering_sensor |-> <<"STEER">>,
   autonomous_controller |-> <<"BRAKE_CMD", "STEER_CMD">>,
   attacker |-> <<"ENGINE", "BRAKE_CMD", "STEER_CMD">>]

Programs == DOMAIN Sends

\* What main_attacker.c writes: dlc and data from one of its three calls, and
\* everything behind them as its stack has it.
IsForgery(f) ==
  CASE f.sig = "ENGINE" -> /\ f.rest[4] = 4 /\ f.data = 65
                           /\ \A k \in 6 .. 8 : f.rest[k] = 65
                           /\ \A k \in 9 .. 12 : f.rest[k] = 0
    [] f.sig = "BRAKE_CMD" -> /\ f.rest[4] \in 0 .. 8
                              /\ f.rest[4] = 0 => f.data = 0
                              /\ \A k \in 6 .. 12 : k >= 5 + f.rest[4] => f.rest[k] = 0
    [] f.sig = "STEER_CMD" -> /\ f.rest[4] = 15 /\ f.data = 255
                              /\ \A k \in 6 .. 12 : f.rest[k] = 255
    [] OTHER -> FALSE

Forgeries == {f \in Frames : f.rest # << >> /\ IsForgery(f)}

ASSUME DashboardAssumption ==
  Scenes \subseteq [crew : SUBSET Programs, cuts : SUBSET (1 .. FrameBytes - 1),
                    stops : BOOLEAN, room : Nat \ {0}, buffer : Nat \ {0},
                    forged : SUBSET Forgeries]

VARIABLES
  scene,         \* the circumstances of this behaviour
  bus,           \* "up", "stuck" in a send() that never returns, or "down"
  pc,            \* "start", "loop", "dropped" by the bus, "done" or "killed"
  unread,        \* frames the bus has written to a program, which reads none
  lost,          \* frames a program has sent that nobody gets
  turn,          \* which of its frames a program sends next
  value, step,   \* what each signal's program holds
  stream,        \* frames the bus has written to the monitor
  arrived,       \* bytes of stream that have arrived at the monitor
  read,          \* bytes of its first frame the monitor has taken
  monitor,       \* "start", "loop", "quit" or "failed"
  shown,         \* the eight frame variables of the monitor
  sent,          \* history: data and flag each signal has been sent with
  torn           \* history: some recv() has returned part of a frame

running == scene.crew
senders == <<pc, turn, value, step>>
buffers == <<unread, lost>>
socket == <<stream, arrived, read>>
vars == <<scene, bus, buffers, senders, socket, monitor, shown, sent, torn>>

Blank == [id |-> 0, data |-> 0, secured |-> FALSE]

Init ==
  /\ scene \in Scenes
  /\ bus = "up"
  /\ pc = [p \in running |-> "start"]
  /\ unread = [p \in running |-> 0]
  /\ lost = [p \in running |-> 0]
  /\ turn = [p \in running |-> 1]
  /\ value = FirstValue
  /\ step = FirstStep
  /\ stream = << >>
  /\ arrived = 0
  /\ read = 0
  /\ monitor = "start"
  /\ shown = [s \in Signals |-> Blank]
  /\ sent = [s \in Signals |-> {}]
  /\ torn = FALSE

-----------------------------------------------------------------------------
(* The programs *)

Start(p) ==
  /\ pc[p] = "start"
  /\ pc' = [pc EXCEPT ![p] = IF bus # "down" THEN "loop" ELSE "done"]
  /\ UNCHANGED <<scene, bus, buffers, turn, value, step, socket, monitor,
                 shown, sent, torn>>

AfterEveryFrame(p) == TRUE    \* seeded fault

\* The frame being sent is the last of the round.
EndsRound(p) == turn[p] = Len(Sends[p])

\* The signals that are a program's own to send.
Own(p) == IF p = "attacker" THEN {} ELSE {Sends[p][k] : k \in 1 .. Len(Sends[p])}

\* The pattern of the signals at the end of a round.
Advance(p) ==
  /\ turn' = [turn EXCEPT ![p] = (@ % Len(Sends[p])) + 1]
  /\ IF EndsRound(p)
       THEN /\ value' = [s \in Signals |->
                 IF s \in Own(p) THEN NextValue(s, value[s], step[s]) ELSE value[s]]
            /\ step' = [s \in Signals |->
                 IF s \in Own(p) THEN NextStep(s, value'[s], step[s]) ELSE step[s]]
       ELSE UNCHANGED <<value, step>>

OnTheWay(p) ==
  {k \in 1 .. Len(stream) : IF p = "attacker" THEN stream[k].rest # << >>
                            ELSE stream[k].rest = << >> /\ stream[k].sig \in Own(p)}

\* The programs the bus relays p's frames to.
Others(p) == {q \in running \ {p} : pc[q] = "loop"}

Full(q) == unread[q] = scene.buffer

\* The frames that the next send() of p may write.
Written(p) ==
  LET s == Sends[p][turn[p]]
  IN IF p = "attacker" THEN {f \in scene.forged : f.sig = s}
     ELSE {Frame(s, Uint8(value[s]))}

\* The bus writes f to the monitor, if that has connected, and waits while p's
\* frames fill that socket.
Relay(p, f) ==
  \/ /\ monitor = "loop"
     /\ Cardinality(OnTheWay(p)) < scene.room
     /\ stream' = Append(stream, f)
  \/ monitor # "loop" /\ UNCHANGED stream

Record(f) ==
  sent' = [sent EXCEPT ![f.sig] =
             @ \cup {[data |-> f.data, secured |-> Byte(f, 52) # 0]}]

\* send() of the next frame, which the bus writes to everybody else.
Send(p) ==
  /\ pc[p] = "loop"
  /\ bus = "up"
  /\ \A q \in Others(p) : ~Full(q)
  /\ \E f \in Written(p) : Relay(p, f) /\ Record(f)
  /\ unread' = [q \in running |-> IF q \in Others(p) THEN unread[q] + 1 ELSE unread[q]]
  /\ Advance(p)
  /\ UNCHANGED <<scene, bus, pc, lost, arrived, read, monitor, shown, torn>>

\* The same, but the socket of another program is full: the bus blocks, before or
\* after it has come to the monitor in its table.
Stall(p) ==
  /\ pc[p] = "loop"
  /\ bus = "up"
  /\ \E q \in Others(p) : Full(q)
  /\ bus' = "stuck"
  /\ \E f \in Written(p) : (Relay(p, f) \/ UNCHANGED stream) /\ Record(f)
  /\ Advance(p)
  /\ UNCHANGED <<scene, pc, buffers, arrived, read, monitor, shown, torn>>

\* The bus reads a part of the next frame, takes it for the end of the program
\* and closes the connection.
Drop(p) ==
  /\ scene.stops
  /\ pc[p] = "loop"
  /\ bus = "up"
  /\ pc' = [pc EXCEPT ![p] = "dropped"]
  /\ Advance(p)
  /\ UNCHANGED <<scene, bus, buffers, socket, monitor, shown, sent, torn>>

\* A frame that nobody gets: it stays in a buffer or send() fails, which the
\* programs only print; a send on a connection known to be closed kills them.
SendToNobody(p) ==
  /\ pc[p] = "dropped" \/ (pc[p] = "loop" /\ bus # "up")
  /\ \/ /\ lost[p] < scene.room
        /\ lost' = [lost EXCEPT ![p] = @ + 1]
        /\ Advance(p)
        /\ UNCHANGED pc
     \/ /\ pc[p] = "dropped" \/ bus = "down"
        /\ pc' = [pc EXCEPT ![p] = "killed"]
        /\ UNCHANGED <<lost, turn, value, step>>
  /\ UNCHANGED <<scene, bus, unread, socket, monitor, shown, sent, torn>>

BusStops ==
  /\ scene.stops
  /\ bus # "down"
  /\ bus' = "down"
  /\ UNCHANGED <<scene, buffers, senders, socket, monitor, shown, sent, torn>>

-----------------------------------------------------------------------------
(* The monitor *)

MonitorStart ==
  /\ monitor = "start"
  /\ monitor' = IF bus # "down" THEN "loop" ELSE "failed"
  /\ UNCHANGED <<scene, bus, buffers, senders, socket, shown, sent, torn>>

\* More bytes arrive, up to the end of a frame or to a place where TCP may
\* split one.
Arrive ==
  /\ monitor = "loop"
  /\ \E a \in (arrived + 1) .. FrameBytes * Len(stream) :
       /\ a % FrameBytes \in {0} \cup scene.cuts
       /\ arrived' = a
  /\ UNCHANGED <<scene, bus, buffers, senders, stream, read, monitor, shown, sent, torn>>

\* What recv() returns: the bytes that are there, at most a frame's worth.
Available ==
  IF arrived - read < FrameBytes THEN arrived - read ELSE FrameBytes

\* recv() takes n bytes off the connection.
Take(n) ==
  LET next == read + n
  IN IF next < FrameBytes
       THEN read' = next /\ UNCHANGED <<stream, arrived>>
       ELSE /\ read' = next - FrameBytes
            /\ stream' = Tail(stream)
            /\ arrived' = arrived - FrameBytes

\* Byte k of the buffer that recv() has filled with a whole frame's worth.
Buffer(k) ==
  Byte(stream[1 + ((read + k) \div FrameBytes)], (read + k) % FrameBytes)

DlcForData == Buffer(4)    \* seeded fault: one byte too early

data == Buffer(5)

IdRead == IF Buffer(2) = 0 /\ Buffer(3) = 0 THEN Buffer(0) + 256 * Buffer(1)
          ELSE -1    \* an id of more than 16 bits: none of the cases

EngineAsSteering(s) ==    \* seeded fault: a case copied and not changed
  IdRead = Id[IF s = "STEER" THEN "ENGINE" ELSE s]

CaseForgotten(s) == IdRead = Id[s] /\ s # "ENGINE"    \* seeded fault

\* switch (frame.id)
IsCase(s) == IdRead = Id[s]

RecvFrame ==
  /\ monitor = "loop"
  /\ Available = FrameBytes
  /\ Take(FrameBytes)
  /\ shown' = [s \in Signals |->
       IF IsCase(s) THEN [id |-> Id[s], data |-> data, secured |-> Buffer(52) # 0]
                    ELSE shown[s]]
  /\ UNCHANGED <<scene, bus, buffers, senders, monitor, sent, torn>>

\* Fewer bytes than a frame: they are dropped.
RecvPart ==
  /\ monitor = "loop"
  /\ Available \in 1 .. FrameBytes - 1
  /\ Take(Available)
  /\ torn' = TRUE
  /\ UNCHANGED <<scene, bus, buffers, senders, monitor, shown, sent>>

\* The process ends: its connection is closed and its screen is gone.
MonitorEnds(how) ==
  /\ monitor' = how
  /\ stream' = << >>
  /\ arrived' = 0
  /\ read' = 0
  /\ shown' = [s \in Signals |-> Blank]
  /\ UNCHANGED <<scene, bus, buffers, senders, sent, torn>>

\* 'q' ends the loop, whatever the round has read.  A round in which recv()
\* reports EAGAIN or end of file and no key is pressed changes nothing.
Quit == monitor = "loop" /\ MonitorEnds("quit")

\* A reset connection: main returns 1.
RecvError == monitor = "loop" /\ bus = "down" /\ MonitorEnds("failed")

Recv == RecvFrame \/ RecvPart

Next ==
  \/ \E p \in running : Start(p) \/ Send(p) \/ Stall(p) \/ Drop(p) \/ SendToNobody(p)
  \/ BusStops
  \/ MonitorStart \/ Arrive \/ Recv \/ Quit \/ RecvError

\* The programs and the monitor run, what was written arrives, and the bus gets
\* round to every program that has a frame for it (NoClientStarves of BusServer),
\* be it to block on that frame.  Nothing gets a stuck bus to go on.
Fairness ==
  /\ \A p \in Programs :
       /\ WF_vars(p \in running /\ Start(p))
       /\ WF_vars(p \in running /\ (Send(p) \/ Stall(p)))
  /\ WF_vars(MonitorStart) /\ WF_vars(Arrive) /\ WF_vars(Recv)

Spec == Init /\ [][Next]_vars /\ Fairness

-----------------------------------------------------------------------------
SendersOK ==
  /\ scene \in Scenes
  /\ bus \in {"up", "stuck", "down"}
  /\ pc \in [running -> {"start", "loop", "dropped", "done", "killed"}]
  /\ unread \in [running -> 0 .. scene.buffer]
  /\ lost \in [running -> 0 .. scene.room]
  /\ turn \in [running -> Nat]
  /\ \A p \in running : turn[p] \in 1 .. Len(Sends[p])
  /\ value \in [Signals -> -128 .. 255]
  /\ step \in [Signals -> -128 .. 127]

SocketOK ==
  /\ stream \in Seq(Frames)
  /\ arrived \in 0 .. FrameBytes * Len(stream)
  /\ read \in 0 .. FrameBytes - 1
  /\ read <= arrived

MonitorOK ==
  /\ monitor \in {"start", "loop", "quit", "failed"}
  /\ shown \in [Signals -> [id : Nat, data : 0 .. 255, secured : BOOLEAN]]
  /\ sent \in [Signals -> SUBSET [data : 0 .. 255, secured : BOOLEAN]]
  /\ torn \in BOOLEAN

TypeOK == SendersOK /\ SocketOK /\ MonitorOK

\* No signal leaves the range its program keeps it in, however long it runs:
\* no sum wraps around in 8 bits, and an angle that has stepped past its limit
\* is always on its way back (main_steering_sensor.c:36-37,
\* main_autonomous_controller.c:50-54, main_engine_ecu.c:34-35).
Swing(s, reach, d) ==
  /\ step[s] \in {-d, d}
  /\ value[s] \in -reach .. reach
  /\ value[s] > Limit[s] => step[s] = -d
  /\ value[s] < -Limit[s] => step[s] = d

InRange ==
  /\ \A s \in WheelSignals : value[s] \in 0 .. 199
  /\ value["ENGINE"] \in 8 .. 40
  /\ value["BRAKE_CMD"] \in 0 .. 100
  /\ Swing("STEER", 35, 5)
  /\ Swing("STEER_CMD", 22, 2)

\* A signal that the attacker sends as well.
Contested(s) ==
  "attacker" \in running /\ \E k \in 1 .. 3 : Sends["attacker"][k] = s

\* The screen mixes no two frames and takes none for another signal's: as long as
\* recv() has not split a frame, data and Secured flag of every slot were sent
\* together under its id.  The flag tells the wheels from the rest, except where
\* the attacker sends too: that sends whatever its stack holds for a flag, and the
\* monitor does not check what it shows (main_monitor.c:58-75, 107-143,
\* main_attacker.c:31-33).
ShownWasSent ==
  ~torn => \A s \in Signals : shown[s] # Blank =>
    /\ [data |-> shown[s].data, secured |-> shown[s].secured] \in sent[s]
    /\ ~Contested(s) => (shown[s].secured <=> s \in WheelSignals)

SentAs(s) == {m.data : m \in sent[s]}

\* Once recv() has split a frame, later ones are read across their borders and
\* bytes of data, CRC or MAC can pass for an id; still, where every program clears
\* its frames, the commands shown are commands sent, and no slot shows a number
\* that was not sent, except 0 (main_monitor.c:58-70, the layout of can.h:23-33).
MisreadShowsZero ==
  "attacker" \notin running => \A s \in Signals : shown[s] # Blank =>
    \/ shown[s].data \in SentAs(s)
    \/ shown[s].data = 0 /\ s \notin {"BRAKE_CMD", "STEER_CMD"}

\* Where the data bytes of signal s are on their way to the display: 0 is the one
\* shown, unless frames have been split, k a frame the monitor has yet to read.
Places(s) ==
  {k \in 1 .. Len(stream) : stream[k].sig = s}
    \cup {k \in {0} : ~torn /\ shown[s] # Blank}

Datum(s, k) == IF k = 0 THEN shown[s].data ELSE stream[k].data

\* Program p has sent s and has not yet come to the end of its round.
SentThisRound(p, s) == \E k \in 1 .. turn[p] - 1 : Sends[p][k] = s

Follows(s, a, b) ==
  \E v \in {a, a - 256}, d \in {FirstStep[s], -FirstStep[s]} :
    /\ s \notin Angles => v = a /\ d = FirstStep[s]
    /\ Uint8(NextValue(s, v, d)) = b

Linked(s) ==
  \A j, k \in Places(s) :
    j < k /\ (\A i \in Places(s) : i <= j \/ k <= i)
      => Follows(s, Datum(s, j), Datum(s, k))

UpToDate(p, s) ==
  \A j \in Places(s) : (\A i \in Places(s) : i <= j) =>
    IF SentThisRound(p, s) THEN Datum(s, j) = Uint8(value[s])
    ELSE Follows(s, Datum(s, j), Uint8(value[s]))

\* Between a program and the display no frame is skipped, repeated or reordered
\* until recv() splits one: what is shown and what waits in the socket are
\* successive values of the signal's pattern, also after the bus has dropped the
\* program, got stuck or gone; and until then the newest is the program's last
\* (main_autonomous_controller.c:42-54, bus.c:113-121, main_monitor.c:58-70).
Unbroken ==
  \A p \in running : \A s \in Own(p) : ~Contested(s) =>
    /\ Linked(s)
    /\ bus = "up" /\ monitor = "loop" /\ pc[p] \in {"start", "loop"} => UpToDate(p, s)

\* Every frame the monitor reads is news: it changes the slot of its signal, since
\* no program sends a byte twice running, not even where a pattern turns back or
\* starts again, and the switch has a case for every one of them
\* (main_engine_ecu.c:34-35, main_steering_sensor.c:36-37, main_monitor.c:58-70).
EveryReadMoves ==
  [][~torn /\ RecvFrame =>
       \A p \in running : \A s \in Own(p) :
         stream[1].sig = s /\ ~Contested(s) => shown'[s] # shown[s]]_vars

\* The program of signal s runs and is connected, the monitor runs and its reads
\* are aligned.
Watched(s) ==
  /\ \E p \in running : s \in Own(p) /\ pc[p] \in {"start", "loop"}
  /\ bus # "down" /\ monitor = "loop" /\ read = 0

\* The bus waits in send() for a program that does not read.
HeldUp == bus = "stuck" /\ \E q \in running : Full(q)

\* The value shown of every signal that is being sent keeps changing, or the bus
\* has come to a halt for good at the full socket of a program: nothing else can
\* freeze a slot of the display (bus.c:113-121, main_monitor.c:56-75).
NeverFreezes ==
  \A s \in Signals :
    <>[]Watched(s) => []<><<shown'[s] # shown[s]>>_vars \/ <>[]HeldUp
=============================================================================

# C-V-HSM-CAN: a verification project

TLA+ modules, TLC configurations and machine-checked proofs for the virtual CAN
bus in `src/`: a TCP bus server that broadcasts frames, vehicle programs around
it that produce, protect, check and display those frames, a protected memory,
and the framework its unit tests run on. Definitions are translated from the C
code and keep its names; comments give the file and line where a reader should
look.

## 1. The system

Every box is a process; they share nothing but TCP connections.

| Part | Source | State | Operations |
| --- | --- | --- | --- |
| Bus server | `core/bus.c` | tables `clients`, `monitors` with their counts, the `fd_set` of the pass, loop counters | `bus_server_run`: select, accept on two ports, receive, broadcast, close |
| Socket helpers | `core/net_lowlevel.c`, `core/network.c` | none (kernel sockets) | connect, listen, send and receive one frame |
| ECU layer | `core/ecu.c`, `core/ids.c` | `fail_safe`, three counters, keys, socket | `ecu_init`, `ecu_send`, `ecu_recv` |
| Security checks | `core/main_security_checks.c` | none | DLC, id whitelist, MAC |
| HSM | `core/hsm.c` | three keys made of the ECU's name | protect, verify MAC, verify frame |
| Controllers | `ecu/main_brake_controller.c`, `ecu/main_steering_controller.c` | an `ecu_t` | receive, check, act; leave the loop in fail-safe |
| Wheels | `ecu/main_wheel_*.c` | an `ecu_t`, a speed | send a secured frame every 100 ms |
| Engine, steering sensor, autonomous controller | `ecu/main_*.c` | a signal | write unsecured frames to the socket every 100 ms, never read |
| Monitor | `ecu/main_monitor.c` | the last frame of each of eight ids | polls its non-blocking socket once a round, shows, quits at a key |
| Protected memory | `core/protected_memory.c` | region, size, hash, lock; expected hash; flags | init, secure boot, lock, write, read, verify, flag |
| Attacker, its generators, client side of `network.c` | `attacks/`, `ecu/main_attacker.c` | `g_bus_sock` | sends three frames every 500 ms, under ids of engine, brake and steering command |
| Unity | `unity/` | counters of tests, failures, ignored; two flags of the running test | run a test, assertions, fail, ignore, conclude, exit code |

How they interact. A program connects to port 6000; the server accepts it when
`select()` reports the port, reads one frame per ready client and pass, and
sends it to all others and to the connections of port 5001 (which nobody uses:
the monitor of the repository connects to port 6000 like an ECU). A controller
counts what `ecu_recv` finds wrong, runs the security checks and carries out
commands; its first alarm makes it leave, which the bus sees as an end of file.

What is hard. The server is one thread over blocking sockets, so each of its
calls is a point where all peers may run, arrive, leave or stop reading; it
works from a snapshot of descriptors while it changes the table it walks. Two
layers of a controller (IDS counters and security checks) decide on the same
frame at different moments. Whether two ECUs understand each other depends on
the bytes of their names. The memory's hash, size, lock and flags are changed by
calls in any order. The monitor reads a byte stream as if it were made of
frames. The test framework leaves functions with `longjmp`, and its assertions
live on integer conversions. `PROJECT.json` lists these hazards with their
lines.

What makes each part correct:

* bus: the tables list exactly the open connections; no call blocks on an idle
  client; a pass is fair; every program is handed what the others sent, once
  and in order; nobody starves; one departure does not end the service;
* ECU, IDS, checks: the verdict of a controller is exact and final, and a
  command is carried out only from an authentic frame and never in fail-safe;
* HSM: what one ECU protects another verifies, and damage is noticed;
* vehicle: the commands reach the actuators;
* protected memory: the hash tracks the writes, a lock is final, a booted image
  stays, alarms have causes and are not withdrawn;
* signals and monitor: every signal stays in its range and on its pattern; the
  screen mixes no two frames; a misread never passes for a command; no slot
  freezes while the bus serves its programs;
* Unity: a test fails exactly when what it asserts is false, and is counted once.

## 2. Modules

| Module | Models | Read with |
| --- | --- | --- |
| `CanMedium`, `CanMediumProofs` | the abstract promise of the bus: a log of transmissions, each owed to every other member before the next | |
| `BusServer` | `bus_server_run`, the kernel's sockets and the peers, one action per system call | `bus.c`, `net_lowlevel.c` |
| `BusServerProofs` | inductive invariant and theorems | |
| `BusRefinement` | the proof that `BusServer` implements `CanMedium` | |
| `Can` | the constants of `can.h` | |
| `Ecu` | `ecu.c`, `ids.c`, `main_security_checks.c`, the controllers', wheels' and raw senders' loops over a bus with one queue per controller | |
| `EcuProofs` | inductive invariant and theorems, those of `Vehicle` included | |
| `Vehicle` | the programs of `src/src/ecu` as an instance of `Ecu`: names, keys, ids | |
| `HsmOps` | `hsm.c` as functions, bit by bit | |
| `Hsm` | a frame protected by one ECU, damaged, verified by another | |
| `HsmProofs` | CRC32 and key derivation as facts about every buffer and name; theorems | |
| `Signals` | the values, steps and integer types of the eight signals, and a frame as 64 bytes | `main_wheel_*.c`, `main_engine_ecu.c`, `main_steering_sensor.c`, `main_autonomous_controller.c`, `can.h` |
| `Dashboard` | the loops of the signal programs and of the attacker, the monitor and the byte stream between them | the same, `main_monitor.c`, `main_attacker.c`, `attacks/` |
| `DashboardProofs` | inductive invariants and theorems | |
| `ProtectedMemory` | `protected_memory.c` | |
| `ProtectedMemoryProofs` | inductive invariant and theorems | |
| `UnityAsserts` | the assertions of Unity as functions of their arguments | `unity.c`, `unity_internals.h` |
| `Unity` | the runner: a test program as sequences of calls | `unity.c`, `unity.h` |
| `UnityProofs` | that each assertion means what it says; inductive invariant and theorems | |
| `MC...` | values of constants and symmetry for TLC; `MCBusServer` also traffic without end | |

### BusServer

`pc` is the call the server is about to make: `start`, `select`, `accept`,
`acceptMon`, `scan` (the `for` of line 102), `bcast` and `bcastMon` (lines 115
and 121), and `returned` or `killed`. `clients`, `monitors`, `num_clients`,
`num_monitors`, `rfds`, `i`, `j` are the C variables; the arrays keep the stale
tail that `clients[i] = clients[--num_clients]` leaves. A descriptor is the
lowest free number, as POSIX promises, so a closed descriptor is reused.
`sock[fd]` is the connection behind it, `peer[c]` the far end (`idle`, `up`,
`closed`, `reset`), `up[c]` and `down[c]` the frames in the buffers either way.

| Action | Code |
| --- | --- |
| `Listen` | two `net_listen_bus`; a failure returns (43-48) |
| `Select`, `SelectFails` | 61-80 |
| `AcceptEcu`, `AcceptMonitor` | 82-100: a new entry (`EnterEcu`, `EnterMonitor`), a full table, a failing `accept()` |
| `ScanSkip`, `ScanDone` | the loop of 102 |
| `RecvFrame`, `RecvFails` | `net_recv_frame`: a frame; or end of file, error, short read, then close and swap (106-112) |
| `SkipSender`, `SendFrame`, `SendToClosed`, `SendSigpipe`, `ClientsDone`, `MonitorsDone` | 115-123 |
| `Connect`, `PeerSend`, `PeerRecv`, `PeerClose` | the programs |

`log`, `since`, `got` and `served` are history variables: who sent the n-th
frame, when each connection was accepted, which frames it was handed, which
descriptors this pass has read.

Abstractions: a frame is its position in `log`; buffers are counted in frames;
a send that succeeds hands over the whole frame. A write to a closed peer is
followed by a reset that has or has not arrived before the next write.

### Ecu and Vehicle

A frame keeps `id`, `dlc`, `secured`, whether its CRC is right, and under which
key its MAC would be right. The placeholder MAC depends on a key only through
the XOR of its 32 bytes; `RoundTrip` of `Hsm` says so of the real computation,
and `Vehicle` takes the key bytes from the real names. `VehicleAssumption` says
that the programs differ, take the part their `main` gives them and have the
keys of their names; thresholds, traffic and lengths stay free. One action `Round` is a
whole turn of a controller's loop, because nothing else touches its state
between `ecu_recv` and the command. The bus is a queue per controller
(`CanMedium` with nothing lost), that may disappear once a program has left it,
as `BusServer` shows it may. The value of a signal plays no part in any check
and is left out here; `Signals` has it.

### Hsm

Words are sets of the bits that are 1, `^` is symmetric difference, and CRC32 is
computed with its eight shifts per byte. `Flip` damages any bit of a protected
frame that `Damage` admits (`IsBit`); in the run these are all bits of id, dlc,
the first three data bytes and the CRC, and four bits of the MAC.
`AcceptedUnaltered` speaks of up to `MaxFlips` wrong bits anywhere,
`OneByteRefused` of any number of them within one byte of id or data,
`TwoBitsRefused` of two anywhere, unless they change how many data bytes `dlc`
makes the checks cover.

### ProtectedMemory

One action per call of the API (`pm_read` changes nothing and is an operator),
plus `Glitch`, a change of one byte by code outside the module, which is what
the hash is for. `sealed`, `cause` and `attested` are history: the bytes that
the last write left, whether an alarm has a cause, and whether a successful boot
on a locked region still stands.

### Signals and Dashboard

`value` and `step` are the C variables of the signal programs; `NextValue` and
`NextStep` convert to `uint8_t` and `int8_t` where C does. `Advance` is the rest
of a round after its last `send()`; the autonomous controller sends twice in a
round, the attacker three times, the others once.

The attacker has no signal of its own. `Forgeries` are the frames its three
calls can build: they set id, dlc and the data bytes and leave everything behind
as the stack has it, so CRC, MAC, `secured` and `timestamp` are any bytes
(`rest`). Every other program clears its frame first. `Contested` names the
three signals the attacker also sends.

The bus writes a frame to all other programs before it reads the next, and the
programs here never read: `unread` counts what lies in their sockets. While
there is room in all of them a frame is relayed (`Send`); at a full one the bus
blocks for good (`Stall`, `bus = "stuck"`), before or after it has served the
monitor. A program goes on sending into its own buffers (`SendToNobody`), and
what was on its way to the monitor still arrives. `Drop` is the short read of
`bus.c:104-111`: the bus closes that one connection, and the program's later
sends fail, which it prints, or kill it by SIGPIPE.

The monitor's socket is a stream. `stream` holds the frames written to it that
it has not finished, `arrived` and `read` count bytes, and `Arrive` lets TCP
deliver any part allowed by the scene's `cuts`. `RecvFrame` is a `recv()` that
returns 64 bytes, wherever in the stream they begin; `RecvPart` one that returns
fewer, which the code drops (lines 60-82). `Byte` is the frame as it lies in
memory: `sizeof` is 64, `dlc` at 4, `data` at 5, `crc` at 16, `mac` at 20,
`secured` at 52, and `timestamp` is never set. `sent` and `torn` are history:
data and flag of every frame sent under an id, and whether a frame has been split.

A round in which `recv()` reports EAGAIN or the end of file changes nothing but
the counter "Frames observed", which counts rounds (lines 152-159), so it is a
stutter. `Scenes` fixes, per behaviour, the crew of programs, the cuts, whether
the bus may go down or drop a program, the backlog of a program (`room`), the size
of the sockets nobody reads (`buffer`) and the attacker's choice (`forged`).

What the code does on a torn stream, found with these modules: a frame that
begins at offset 3, 4 or 51 of another can pass for one of the ids 0x100 to
0x103, 0x110 and 0x120, never for 0x300 or 0x302, and the data byte then read is
always 0; and a part that ends where a frame ends puts the monitor right again.
Angles are shown as unsigned numbers (line 131), although
`main_steering_sensor.c:29` says "signed angle in monitor". The monitor connects
to the port of the ECUs, so a slow monitor is a slow client (`bus_stall`).

### UnityAsserts and Unity

A pointer is an address with the cells from there on; a mask is a set of bits;
`Modulus` gives the number of values of an integer of k bytes, `Word` the width
of `UNITY_INT`. `Cast` is the conversion that a macro makes of its arguments,
`Element` the one of `UnityAssertEqualIntArray`, which loads a signed number and
masks it. An assertion is TRUE when it returns. The code that formats the
message of a failure is left out.

`Unity` is a test program: `pc` says which function of the runner is on the
stack, `TestFailures`, `TestIgnores`, `CurrentTestFailed`, `CurrentTestIgnored`
are the fields of `struct UNITY_STORAGE_T`. `Asserts` is a call that is decided
in one step, `TEST_ABORT` the `longjmp`, `Aborts` a call of TEST_PASS or any
call after the test has been decided. (`TEST_ASSERT(true)` after a failure just
returns: `Returns` and stuttering.) `due`, `owed` and `strayed` are history:
what the calls reached make of the test by `Truth`, which says in mathematics
what an assertion promises; how many tests were due to pass, fail, be ignored;
whether a string was read past its end. `WellFormed` is what a caller may hand
over: arrays as long as announced, terminated strings. Facts about the code that
`Truth` writes down: the sized equality macros compare modulo the width; an
array or a memory of no elements never passes, a string comparison of length 0
always does.

## 3. Runs

| Run | Result | Instance |
| --- | --- | --- |
| `bus_safety` | eight properties hold | 3 connections (symmetric), tables of 2, buffers of 1 frame, 2 frames, and any of the failing calls |
| `bus_liveness` | both hold | 2 connections that read; buffers of 2 frames up, 1 down; traffic without end, of which 2 frames are remembered |
| `bus_sigpipe` | `SurvivesDepartures` violated | as `bus_safety` |
| `bus_stall` | `BroadcastEnds` violated | 2 connections of which one does not read |
| `ecu_checks` | five properties hold | brake and steering controller with real names and keys, one wheel, the autonomous controller as raw sender, commands with a wrong dlc or CRC, 4 frames |
| `ecu_late` | `NoCommandInFailSafe` violated | one controller |
| `hsm` | two properties hold | names `wheel_fl` and `steering_controller`, 3 frames, up to 2 flipped bits |
| `vehicle_keys`, `vehicle_commands` | one violation each | all nine programs |
| `memory` | six properties hold | 3 bytes of 1 bit, sizes 0 to 4 |
| `dashboard` | seven properties hold | six scenes: a torn wheel, a torn steering sensor, an engine on a bus that drops it or goes down, the autonomous controller, engine and steering sensor together, engine and attacker together |
| `unity` | four properties hold | integers of 2 and 3 bits, arrays and strings of up to 2 elements, 3 tests, 3 exit codes |

What they show. `bus_safety`: the tables match the sockets, no `recv()` waits for
an idle client and no `accept()` for a connection or a descriptor, a pass is fair
and takes a bounded number of steps, and the loop is the medium of `CanMedium`.
`bus_liveness`: a broadcast ends and no client starves, also beside one that is never
without a frame to be read. `ecu_checks`: the
verdict is exact and final, commands are authentic, and the frames of a wheel
never count against the brake controller. `hsm`: protected frames are accepted
between ECUs whose key bytes agree, and damaged ones are not. `memory`: hash,
lock, attested image and alarms. `dashboard`: signals keep their ranges and
patterns all the way to the screen, data and flag of a slot come from one frame,
misreads show nothing but zeros of sensors, every frame read changes its slot
until one is split, and slots go on changing unless the bus is stuck at the full
socket of a program that does not read. `unity`: verdicts and tallies are right,
and strings are not read past their ends.

Why the bounds are enough. *Bus*: three connections and tables of two are the
least with a full table, a removal that moves another client, a client and a
monitor at the same time, and a descriptor reused within a pass; buffers of one
frame make every send block at some point; the invariants that do not speak of
frames are proved for all values. `MaxFrames` only stops the peers from sending;
the server's steps are never bounded. The half of `NoBlockingAccept` about a free
descriptor cannot fail with three connections and five descriptors; for that half
the theorem `AcceptNeverBlocks` is the evidence. In `bus_liveness` the sending
never stops either: nothing but the history variables depends on the frames sent
so far, so `MCBusServer` lets the run forget them between two broadcasts
(`Forget`, `EndlessSpec`). A buffer of two frames up then lets one client always
have a frame ready, and a server that drained it before it turned to the next
would never come to the other: `DrainFirst` is that server, and the run refutes
it. *Ecu*: four frames are one more than the threshold of three;
the bus carries an authentic command and frames that fail each check (dlc 0 with
a wrong CRC, dlc 9, not secured and without MAC, another ECU's MAC) but that of
the whitelist, which is left to the proofs. *Hsm*: two flips are the least
that cancel in the XOR of the MAC, which is what the CRC is there for; CRC32 is
linear, so which data bytes the frame holds does not matter to it. *Memory*: one
bit stands for each of eight, since XOR works bit by bit; three bytes are the
least with a stale tail longer than one byte; the sizes include one too many.
The proofs cover every number of bytes and bits. `EcuChecks.cfg` leaves short
reads to the proofs and to the bus and dashboard runs. *Dashboard*: the cuts are
3 for a frame without MAC and 51 for one with, two of the three offsets at which
a misread happens; two frames of a program in the socket are the least for a
read across a border; every signal's pattern of a program on its own runs through
its whole period, since nothing bounds the rounds. Where two programs run
together each fills the other's socket, so these scenes always end with a stuck
bus: after two frames of the engine or the steering sensor, and one with the
attacker. The attacker chooses between an engine frame with either flag, a brake
command and a steering command; any choice, any group of programs and any buffer
are covered by the proofs of the safety properties. *Unity*: two
and three bits have all the cases of a narrow type and of the word (the sign
bit, wrap-around of a difference, a value outside the type); two elements tell
the first from the next; three tests let a failure, an ignore and a pass follow
each other in any order. One assertion is one step, so the number of distinct
states is small while each state has thousands of successors.

`CHECK_DEADLOCK FALSE` is set where the system really stops: a returned or
killed bus whose peers are gone, a bus blocked on a program that does not read,
a frame already verified, controllers that have left, a monitor that has been
quit on a bus without programs, a test program that has exited.

Fairness (`bus_liveness`, `bus_stall`). The server process is scheduled when it
is not asleep in a call: weak fairness of `BusStep`, and a blocking call is a
disabled step. Programs in `Readers` go on reading: weak fairness of their
`PeerRecv`. Nothing is assumed of connecting, sending or leaving, and nothing of
the programs that do not read, since none of the sensors does. `dashboard`
assumes weak fairness of each program's start, of the monitor's start and
`recv()`, and that bytes written arrive. Of a program's next frame it assumes only
that the bus comes to it, to relay it or to get stuck on it (weak fairness of
`Send \/ Stall`): that is `NoClientStarves`, which needs every pass to end, and
a pass ends unless the server is in a `send()` to a program with full buffers
(`OnlySendWaits`). Once the bus is stuck nothing is assumed to free it, and
`NeverFreezes` says so (`HeldUp`). Nothing is assumed of the end of the bus or of
the user.

### Violations: where documents and code part

1. `bus_sigpipe`: a client that leaves during a broadcast can end the server.
   `send()` is called without `MSG_NOSIGNAL` and SIGPIPE is not handled.
2. `bus_stall`: one program that does not read stops the bus. Engine, steering
   sensor, wheels and autonomous controller never read their sockets.
3. `ecu_late`: a command is carried out in fail-safe, since `fail_safe` is only
   looked at at the top of the loop and `security_check_frame` looks neither at
   `secured` nor at the CRC.
4. `vehicle_keys`: key bytes of wheels and brake controller XOR to 0, those of
   the steering controller to 0x0a; the first wheel frame stops it.
5. `vehicle_commands`: the commands of the autonomous controller are unsecured,
   and the ids compared by the controllers are not those of the documentation.

Smaller ones have no run: `pm_secure_boot` does not lock the region,
although `protected_memory.h:20` says of `locked` "True after secure boot", so
until `pm_lock` a booted image can be written; `pm_init` clears the region whose
reset its own comment forbids (`protected_memory.c:32` and `:38`), and
`pm_verify_integrity` on a region nobody has written raises the alarm, because a
hash of zeros is no digest (`AlarmsJustified` states this as an exception). The
monitor shows whatever comes under an id it knows, unverified: `can.h:31` says of
`secured` "true = MAC+CRC valid", but the flag shown is the byte that was received,
and the attacker's frames, which fill three of the eight slots, carry there what
its stack held; `ShownWasSent` says what remains true. The exit code of a test
program is its number of failures (`unity.c:2359`), of which the system keeps
eight bits, so 256 failures look like none: `exit` in `Unity` wraps as it does
there, and no property relies on it.

## 4. Proofs

TLAPS checks every step; constants are arbitrary up to the assumption named in
each module (`BusAssumption`, `EcuAssumption`, `VehicleAssumption`,
`HsmAssumption`, `MemoryAssumption`, `DashboardAssumption`, `WordAssumption`,
`UnityAssumption`). Three more
assumptions are computations without parameters, which TLC carries out at the
start of a run: `CrcIsNoId` of `Signals` (in `dashboard`) compares the CRCs of
the 1024 frames that the four wheels can send with the eight ids; `CrcSpreadsBits`
of `Hsm` (in `hsm`) follows each of the eight bits of a byte through the CRC
register for 13 bytes and never finds a single bit there again; `CrcSeesLength`
of `Hsm` takes the same 1024 frames with each one or two wrong bits of dlc that
change the number of bytes covered (27 seconds of the run), and finds no CRC that
one more wrong bit would make right.

**BusServer** (`BusServerProofs`). None of the safety properties is inductive.
`IInv` adds:

* `HeldOnce`: a connection is behind one descriptor or in one listen queue, once,
  and idle ones nowhere; without it an accept could open a connection twice;
* `StoppedEmpty`: nothing is open before the start and after the end;
* `Entries`: the tables list open descriptors, each once, and all of them;
* `Snapshot`: in a pass, each reported descriptor either has been served or is
  still ahead in the table at `i` or later and readable. This is the fact that
  the swap with `i--` must keep: the last client comes to slot `i`, which is
  still ahead; and until its accept, a reported port has a connection waiting;
* `Counted`: no loop counter runs past the end of its table.

`Snapshot` gives both `NoBlockingRecv` (what the loop reads is ready) and
`FairPass` (at the end nothing reported is unserved). The step lemmas
(`TypeStep`, `HeldOnceStep`, `StoppedEmptyStep`, `EntriesStep`, `SnapshotStep`,
`CountedStep`) have one case per action.

`AcceptNeverBlocks` takes the waiting connection from `Snapshot` and the free
descriptor from a count: with room in a table the two tables have fewer entries
than there are descriptors, so by the pigeonhole principle some descriptor is in
neither, and by `Entries` it is closed (`DescriptorLeft`).

Three theorems are the part of `BroadcastEnds` and `NoClientStarves` that needs no
fairness. `PassEnds`: `StepsLeft` is positive in a pass, falls with every step of
the server and is left alone by the programs, so a pass has at most
`(MAX_CLIENTS + 1) * (2 * MAX_CLIENTS + 3) + 3` steps, however many clients come,
go and write meanwhile (`StepsCountDown`; `Counted` is what keeps it positive).
`PassIsFair`: it reads every reported client. `OnlySendWaits`: in a pass the
guard of some step of the server (`GoesOn`) holds unless it is in a `send()` to
a running program whose buffers are full. What is left to fairness, and to the
runs, is that the server is scheduled and that this program reads.

**Ecu** (`EcuProofs`). `AlarmsExact` compares a flag with a whole history, so
`IInv` carries what relates the two: `Counts` (the counter of MAC errors is the
number of bad frames among those read) and `BelowThresholds` (outside fail-safe
no threshold is reached). The lemmas `BadPrefix`, `BadLast` and `CauseLast` say
what one more frame adds to a sequence of frames; `RoundType` and `RoundVerdict`
apply them to the one action that reads a frame, and `OtherSteps` with
`Undisturbed` covers every other action. `TypeOK` bounds the counters by their
thresholds, so that no stream of frames makes one of them wrap.

`WheelsTrusted` is about `Vehicle`. A key is the name, repeated, XOR the index;
the XOR of the 32 indices is 0 (`IndexBits`), and a name whose length divides 16
is repeated an even number of times, so each of its bytes cancels
(`KeyVanishes`). The wheels' names have 8 characters and that of the brake
controller 16, so all their key bytes are 0 (`KeysAgree`); the name of the
steering controller has 19, which is why `vehicle_keys` fails. What a wheel
protects then verifies at the brake controller, whatever else is on the bus.

**HSM** (`HsmProofs`). The CRC register is a recursive function of the prefix
length; every induction over it is made by taking the least length at which the
claim fails, which exists because the natural numbers are well founded. Two
facts about one step carry everything:

* it is injective in the register and in the byte (`ShiftInjective`,
  `UpInjective`: a shift that XORs the polynomial sets bit 31, one that does not
  clears it). Two buffers of one length that differ in one byte therefore have
  registers that differ after that byte and stay different to the end
  (`CrcSeesOneByte`);
* it is linear (`ShiftLinear`, `Shift8Linear`): the XOR of the registers of two
  buffers is moved by the XOR of their bytes alone (`DifferenceRuns`). One wrong
  bit makes the same difference whatever the frame holds (`OneBitTravels`), and
  by `CrcSpreadsBits` that difference is no single bit at any later byte, so
  neither one wrong bit of a later byte (`CrcSeesTwoBits`) nor one of the CRC
  itself (`CrcSeesBitAndCrcBit`) makes up for it.

The invariant `IInv` says where damage is: `OnlyDamaged` (a field without a
flipped bit is the one that was sent) and `ByBits` (each byte is the one sent XOR
its flipped bits). An accepted buffer has the CRC the frame carries, so
`SpecOneByteRefused` and `SpecTwoBitsRefused` follow for every pair of keys. That
two wrong bits in one byte are noticed is the first fact again, and that two in
the CRC alone are needs neither, since the buffer is then the one sent.
`SpecAcceptedUnaltered` is about two wrong bits that may change the length. It
names two conditions on the constants, `MaxFlips <= 2` and that the frames are
those of the wheels (`IsWheelFrame`: any wheel, any speed), which are the only
frames that `ecu_send` protects; for arbitrary frames it is false, because when
dlc grows from 0 to 8 some choice of the eight bytes that were not covered before
gives the CRC and the MAC that the frame carries. Damage that leaves the length is
`TwoBitsRefused`. Otherwise one of the two bits is in dlc, and the frame
`Relabelled` (what was sent, with the dlc that arrived) differs from what arrived
in one bit at most (`RelabelledDamage`); by linearity that bit accounts for one
of `OneBitDifferences` (`OneBitOfCrc`), and `CrcSeesLength` says that none of them
is what the CRC of `Relabelled` is wrong by (`LengthDamageRefused`).
`SpecRoundTrip` needs of the CRC only that it is a function: the MACs agree
exactly when the accumulated bytes do, and these exactly when the keys' XORs do.

**ProtectedMemory** (`ProtectedMemoryProofs`). The invariant is the conjunction
of the type invariant, the tracking of the hash and the attested image, with the
shape of `sealed`. `OneByteDetected` rests on `ParityFlips` (changing one member
of a finite set's selection changes the parity of its cardinality) and
`DigestInjective` (equal digests have equal folds). `LockFreezes` is an action
property proved from the type invariant.

`AlarmsJustified` is an action property: `StepUntouched` says, call by call,
what leaves `data`, `size` and `hash` alone, and with `HashTracksWrites` a check
can only fail after a stray change.

**The bus implements the medium** (`CanMediumProofs`, `BusRefinement`). The
mapping reads `ecus` and `taps` off the tables and `owed` off the loop counters:
during a broadcast, the slots still ahead of `j`. `Listen`, `Select`, the scan
and the skip of the sender stutter; `AcceptEcu` is a `Join`, or nothing when the
table is full; `RecvFrame` a `Transmit`; `SendFrame` and `SendToClosed` a
`Hand`; `RecvFails` a `Leave`; `SelectFails` and `SendSigpipe` `Down`; what the
peers do stutters. `Fresh` is the invariant the steps need: a connection that is
not in a table has no history that `Join` would overwrite. `AllDelivered` then
is `MediumDelivers`, proved once of the abstract medium, read through the
mapping.

**Dashboard** (`DashboardProofs`). `SignalsInRange` is nearly inductive as it
stands: an angle past its limit must be on its way back for the next sum to stay
within 35. `RangeInv` adds that the other signals keep the step they began with.
`DashboardTypes` bounds what is taken by what has arrived, for every cut. For
`DashboardHonest` the invariant says that until a frame is split `read` is at a
border (`Aligned`) and that data and flag of every frame in `stream` are in `sent`
(`StreamSent`), whoever sent it; the lemmas about the bytes of a frame show that
then exactly one case of the switch matches and that byte 52 is its flag. Nothing
is assumed of the attacker's frames but that they are frames. `FlagsSent` adds that
what the other programs send carries the flag of its signal.

`DashboardUnbroken`: the data bytes of a signal are seen as one sequence, from
the slot shown through the frames in the socket to the variable of the program.
`Linked` says that neighbours in it are successive values, `UpToDate` that the
last of them is what the program sent last. A read moves the sequence up by one
(`MovedUpByOne`), a send adds one at its end (`OneMoreLinked`, `FollowsNext`,
which needs `InRange`: a sum that wrapped would not follow); a frame of the
attacker goes past the signals that it does not send (`FrameKeepsOrder`), and a
frame that nobody gets leaves the rest in order (`LostKeepsOrder`). The invariant
adds that a monitor that has not started has nothing (`NothingYet`).

`DashboardMoves` follows from `Unbroken`: the byte shown and the byte read are
successive values, and no round maps a byte to itself (`RoundMoves`). That is true
only because `Follows` ties a signal that starts again to the one step it has:
counting down by 5 with the same reset, the brake command could stay at 0. It is
the part of `NeverFreezes` that needs no fairness.

`DashboardMisread` is about programs that clear their frames, which leaves out the
attacker, whose frames can hold any id at any place. `IdAcross` goes through the
60 places inside a frame at which a read may begin and still find its four bytes
of id in it. The zeros after the data exclude some, the constant bytes at 4 and 52
others, and within the MAC two neighbours are never both 0, because they differ in
the bit in which their indices do (`MacHasNoZeros`). Next to the CRC nothing but
its value decides, which is where `CrcIsNoId` is needed. What is left is 3, 4 and
51, and five bytes further there is a zero; `SplitReadShowsZero` adds the three
places at which the id lies across the border.

**Unity** (`UnityProofs`). `AssertionsExact` proves of each family that the
code's condition equals `Truth`, for all widths and arguments: unsigned
differences (the larger minus the smaller fits the word), sign extension and
masking (two patterns of one width are equal exactly when their loaded values
are), and the string loops. The latter needs the least position at which a
predicate holds; it is obtained from the well-foundedness of the natural
numbers, without induction over an operator. The invariant of the runner is
`Counts` (a tally is what was owed), `States` (which functions can be on the
stack with which flags) and `Between` (no flag is left between tests), with the
properties themselves.

Every safety property of a passing run is a theorem. Model-checked only is
liveness (`BroadcastEnds`, `NoClientStarves`, `NeverFreezes`), which is out of the
prover's reach; of what it rests on, the parts that need no fairness are proved
(`PassEnds`, `OnlySendWaits`, `PassIsFair`, `DashboardMoves`).

## 5. Not modelled

* `attack_dos.c` and `attack_replay.c`, which nothing calls. The three generators
  that `main_attacker.c` calls are in `Dashboard`; for the controllers all five are
  `OtherSend` of `Ecu`, which puts any frame on the bus at any time, with forged,
  malformed and repeated frames in `Wire`.
* Unity's output, its assertions on float and double, the stack of details, the
  formatted printing and the command line of a runner (none of them is
  compiled in or used by `src/tests`, except the output). Of the output one thing was
  seen in reading: `UnityPrintMask` prints 32 bits of a mask.
* The layout of the monitor's screen and its banner, whose condition is constant.
* `ids_update_on_crc_error`, `master_key`, `rng_seed_key`, `hsm_get_random`:
  used by nothing in `src/src`.
* Rates: `usleep` is any delay. That the monitor reads ten frames a second of
  about eighty is therefore only seen as its limit case, `bus_stall`.
* The HSM service, replay protection and encryption of the project's README,
  which are not in the source. Tests, mocks, scripts, logging.

## 6. Plan

Done: all programs of the vehicle, the bus and its refinement, the HSM, the
protected memory, the signals and the monitor, the runner and the assertions of
Unity; every safety property as a theorem, `AcceptedUnaltered` for the frames that
the vehicle protects.

Left, if the code grows: a restart of the bus and of a program (`bind` of a port
still in use), once something in `src/` restarts either; the rates of `usleep`,
to tell how fast the monitor's backlog grows; the composition of `BusServer`
with controllers that leave, for which each now carries the other's behaviour as
an environment action.

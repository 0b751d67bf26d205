------------------------------ MODULE BusServer ------------------------------
(***************************************************************************)
(* bus_server_run (src/src/core/bus.c): the select() loop that turns TCP   *)
(* connections into a broadcast medium, with the part of the kernel's TCP  *)
(* it depends on and the processes at the other end of the sockets.  One   *)
(* action per system call, because the peers run between two calls.        *)
(*                                                                         *)
(* Arrays are indexed from 0 as in C and keep their stale tail; a frame is *)
(* identified by its position in log, so the frame in the server's buffer  *)
(* is always frame Len(log).                                               *)
(***************************************************************************)
EXTENDS Integers, Sequences

CONSTANTS
  Conns,         \* connections; a restarted program is a new connection
  NoConn,        \* the value of a free file descriptor
  MAX_CLIENTS,   \* size of each of the two tables (32 in bus.c)
  LastFd,        \* the largest descriptor the process may be given
  Backlog,       \* pending connections a listening socket holds
  MaxFrames,     \* bound: no peer sends once the bus carried so many frames
  UpCap,         \* frames that fit in the buffers from a peer to the bus
  DownCap,       \* frames that fit in the buffers from the bus to a peer
  Readers,       \* connections whose program reads its socket
  Faults         \* calls that may fail: see BusAssumption

ASSUME BusAssumption ==
  /\ NoConn \notin Conns
  /\ MAX_CLIENTS \in Nat \ {0}
  /\ LastFd \in Nat /\ LastFd >= 2 * MAX_CLIENTS + 5
  /\ Backlog \in Nat \ {0}
  /\ MaxFrames \in Nat
  /\ UpCap \in Nat \ {0}
  /\ DownCap \in Nat \ {0}
  /\ Readers \subseteq Conns
  /\ Faults \subseteq {"listen", "select", "accept", "short"}

\* 0..2 are the standard streams, so the listening sockets get 3 and 4.
listen_fd  == 3
monitor_fd == 4
ConnFds    == 5 .. LastFd
Slots      == 0 .. MAX_CLIENTS - 1

VARIABLES
  pc,            \* the call the server is about to make
  clients, num_clients, monitors, num_monitors,   \* the two tables
  rfds,          \* descriptors select() reported readable
  i, j,          \* the loop counters of bus.c:102 and bus.c:115, 121
  sock,          \* sock[fd]: the connection open on fd, or NoConn
  backlog, mbacklog,   \* connections waiting on the two listening sockets
  peer,          \* state of the far end of a connection
  up, down,      \* frames under way to the bus, and to the peer
  log, since, got,     \* history: see CanMedium
  served         \* history: descriptors read in this pass over rfds

server == <<clients, num_clients, monitors, num_monitors, rfds, i, j>>
kernel == <<sock, backlog, mbacklog, peer, up, down>>
history == <<log, since, got, served>>
vars == <<pc, server, kernel, history>>

Stopped == {"returned", "killed"}
Running == pc \notin {"start"} \cup Stopped

Clients  == {clients[k] : k \in 0 .. num_clients - 1}
Monitors == {monitors[k] : k \in 0 .. num_monitors - 1}

\* A connection the server's kernel still holds, accepted or not.
Attached(c) ==
  \/ \E fd \in ConnFds : sock[fd] = c
  \/ \E k \in DOMAIN backlog : backlog[k] = c
  \/ \E k \in DOMAIN mbacklog : mbacklog[k] = c

\* recv() on c would not block: data, end of file or a pending error.
Readable(c) == up[c] > 0 \/ peer[c] # "up"

Ready(fd) ==
  \/ fd = listen_fd /\ backlog # << >>
  \/ fd = monitor_fd /\ mbacklog # << >>
  \/ fd \in ConnFds /\ sock[fd] # NoConn /\ Readable(sock[fd])

Init ==
  /\ pc = "start"
  /\ clients = [k \in Slots |-> 0]
  /\ monitors = [k \in Slots |-> 0]
  /\ num_clients = 0
  /\ num_monitors = 0
  /\ rfds = {}
  /\ i = 0
  /\ j = 0
  /\ sock = [fd \in ConnFds |-> NoConn]
  /\ backlog = << >>
  /\ mbacklog = << >>
  /\ peer = [c \in Conns |-> "idle"]
  /\ up = [c \in Conns |-> 0]
  /\ down = [c \in Conns |-> 0]
  /\ log = << >>
  /\ since = [c \in Conns |-> 0]
  /\ got = [c \in Conns |-> {}]
  /\ served = {}

-----------------------------------------------------------------------------
\* The process ends, by return or by signal: the kernel closes what it held.
ProcessEnds(how) ==
  /\ pc' = how
  /\ sock' = [fd \in ConnFds |-> NoConn]
  /\ backlog' = << >>
  /\ mbacklog' = << >>

\* net_listen_bus on both ports; either may fail (port in use).
Listen ==
  /\ pc = "start"
  /\ \/ pc' = "select"
     \/ "listen" \in Faults /\ pc' = "returned"
  /\ UNCHANGED <<server, kernel, history>>

\* FD_ZERO, FD_SET of both listeners and of every client, then select(),
\* which sleeps until one of them is readable.  Monitors are not watched.
Watched == {listen_fd, monitor_fd} \cup Clients

ReportedAll ==    \* seeded fault: no FD_ISSET in the pass over the clients
  Clients \cup {fd \in Watched : Ready(fd)}

ReportedListeners ==    \* seeded fault: no FD_ISSET before the accepts
  {listen_fd, monitor_fd} \cup {fd \in Watched : Ready(fd)}

Reported == {fd \in Watched : Ready(fd)}

Select ==
  /\ pc = "select"
  /\ \E fd \in Watched : Ready(fd)
  /\ rfds' = Reported
  /\ i' = 0
  /\ pc' = "accept"
  /\ served' = {}
  /\ UNCHANGED <<clients, num_clients, monitors, num_monitors, j, kernel,
                 log, since, got>>

\* select() returns -1: the loop breaks and bus_server_run returns.
SelectFails ==
  /\ pc = "select"
  /\ "select" \in Faults
  /\ ProcessEnds("returned")
  /\ UNCHANGED <<server, peer, up, down, history>>

\* POSIX hands out the lowest free descriptor.
LowestFree(fd) ==
  /\ sock[fd] = NoConn
  /\ \A g \in ConnFds : g < fd => sock[g] # NoConn

HasRoomOffByOne(n) == n <= MAX_CLIENTS    \* seeded fault

HasRoom(n) == n < MAX_CLIENTS

\* The connection at the head of the queue gets a descriptor and a slot.
EnterEcu ==
  /\ HasRoom(num_clients)
  /\ backlog' = Tail(backlog)
  /\ \E fd \in ConnFds :
       /\ LowestFree(fd)
       /\ sock' = [sock EXCEPT ![fd] = Head(backlog)]
       /\ clients' = [clients EXCEPT ![num_clients] = fd]
  /\ num_clients' = num_clients + 1
  /\ since' = [since EXCEPT ![Head(backlog)] = Len(log)]

\* accept() returns -1: the connection stays in the queue (EMFILE) or is taken
\* out of it (ECONNABORTED), and the tables stay as they are.
AcceptFails(queue) == "accept" \in Faults /\ queue' \in {queue, Tail(queue)}

\* accept() on the ECU port if it was reported ready; with a full table the
\* new descriptor is closed at once.
AcceptEcu ==
  /\ pc = "accept"
  /\ pc' = "acceptMon"
  /\ \/ /\ listen_fd \notin rfds
        /\ UNCHANGED <<clients, num_clients, sock, backlog, since>>
     \/ listen_fd \in rfds /\ EnterEcu
     \/ /\ listen_fd \in rfds
        /\ \/ ~HasRoom(num_clients) /\ backlog' = Tail(backlog)
           \/ AcceptFails(backlog)
        /\ UNCHANGED <<clients, num_clients, sock, since>>
  /\ UNCHANGED <<monitors, num_monitors, rfds, i, j, mbacklog, peer, up, down,
                 log, got, served>>

\* The same on the monitor port.
EnterMonitor ==
  /\ HasRoom(num_monitors)
  /\ mbacklog' = Tail(mbacklog)
  /\ \E fd \in ConnFds :
       /\ LowestFree(fd)
       /\ sock' = [sock EXCEPT ![fd] = Head(mbacklog)]
       /\ monitors' = [monitors EXCEPT ![num_monitors] = fd]
  /\ num_monitors' = num_monitors + 1
  /\ since' = [since EXCEPT ![Head(mbacklog)] = Len(log)]

AcceptMonitor ==
  /\ pc = "acceptMon"
  /\ pc' = "scan"
  /\ \/ /\ monitor_fd \notin rfds
        /\ UNCHANGED <<monitors, num_monitors, sock, mbacklog, since>>
     \/ monitor_fd \in rfds /\ EnterMonitor
     \/ /\ monitor_fd \in rfds
        /\ \/ ~HasRoom(num_monitors) /\ mbacklog' = Tail(mbacklog)
           \/ AcceptFails(mbacklog)
        /\ UNCHANGED <<monitors, num_monitors, sock, since>>
  /\ UNCHANGED <<clients, num_clients, rfds, i, j, backlog, peer, up, down,
                 log, got, served>>

-----------------------------------------------------------------------------
\* bus.c:102: the end of the pass over the clients, and a client not ready.
ScanDone ==
  /\ pc = "scan"
  /\ i >= num_clients
  /\ i' = 0
  /\ rfds' = {}
  /\ pc' = "select"
  /\ served' = {}
  /\ UNCHANGED <<clients, num_clients, monitors, num_monitors, j, kernel,
                 log, since, got>>

ScanSkip ==
  /\ pc = "scan"
  /\ i < num_clients
  /\ clients[i] \notin rfds
  /\ i' = i + 1
  /\ UNCHANGED <<pc, clients, num_clients, monitors, num_monitors, rfds, j,
                 kernel, history>>

\* The client whose descriptor the loop is about to read.
AtReadyClient == pc = "scan" /\ i < num_clients /\ clients[i] \in rfds

\* net_recv_frame returns a whole frame.
RecvFrame ==
  /\ AtReadyClient
  /\ LET c == sock[clients[i]] IN
       /\ up[c] > 0
       /\ up' = [up EXCEPT ![c] = @ - 1]
       /\ log' = Append(log, c)
  /\ served' = served \cup {clients[i]}
  /\ j' = 0
  /\ pc' = "bcast"
  /\ UNCHANGED <<clients, num_clients, monitors, num_monitors, rfds, i, sock,
                 backlog, mbacklog, peer, down, since, got>>

TableUnmoved(k) == clients    \* seeded fault: only the counter is decremented

\* clients[k] = clients[--num_clients]
TableWithout(k) == [clients EXCEPT ![k] = clients[num_clients - 1]]

SlotSkipped == i + 1    \* seeded fault: no i-- after the removal

\* i-- and the i++ of the loop: the same slot again.
SlotAfterClose == i

\* net_recv_frame fails: end of file, an error, or fewer bytes than a frame
\* because only the first segment of it has arrived.  The client is closed
\* and the last client takes its slot.
RecvFails ==
  /\ AtReadyClient
  /\ LET c == sock[clients[i]] IN
       \/ up[c] = 0 /\ peer[c] # "up"
       \/ up[c] > 0 /\ "short" \in Faults
  /\ sock' = [sock EXCEPT ![clients[i]] = NoConn]
  /\ clients' = TableWithout(i)
  /\ num_clients' = num_clients - 1
  /\ i' = SlotAfterClose
  /\ served' = served \cup {clients[i]}
  /\ UNCHANGED <<pc, monitors, num_monitors, rfds, j, backlog, mbacklog,
                 peer, up, down, log, since, got>>

-----------------------------------------------------------------------------
\* The broadcast loops over clients (bus.c:115) and monitors (bus.c:121).
ClientsLeftOffByOne == j + 1 < num_clients    \* seeded fault

ClientsLeft == j < num_clients

SenderIncluded == FALSE    \* seeded fault: the frame is echoed to its sender

AtSender == clients[j] = clients[i]

SkipSender ==
  /\ pc = "bcast"
  /\ ClientsLeft
  /\ AtSender
  /\ j' = j + 1
  /\ UNCHANGED <<pc, clients, num_clients, monitors, num_monitors, rfds, i,
                 kernel, history>>

\* The descriptor the next net_send_frame writes to.
SendTarget(fd) ==
  \/ pc = "bcast" /\ ClientsLeft /\ ~AtSender /\ fd = clients[j]
  \/ pc = "bcastMon" /\ j < num_monitors /\ fd = monitors[j]

\* send() copies the frame into the connection's buffers.  The socket is
\* blocking: while they are full this action is disabled and the server
\* waits.
SendFrame ==
  \E fd \in ConnFds :
    /\ SendTarget(fd)
    /\ LET c == sock[fd] IN
         /\ peer[c] = "up"
         /\ down[c] < DownCap
         /\ down' = [down EXCEPT ![c] = @ + 1]
         /\ got' = [got EXCEPT ![c] = @ \cup {Len(log)}]
    /\ j' = j + 1
    /\ UNCHANGED <<pc, clients, num_clients, monitors, num_monitors, rfds, i,
                   sock, backlog, mbacklog, peer, up, log, since, served>>

\* The far end is closed: send() still returns (its result is ignored) and
\* the reset it provokes may have come back or not before the next send().
SendToClosed ==
  \E fd \in ConnFds :
    /\ SendTarget(fd)
    /\ LET c == sock[fd] IN
         /\ peer[c] = "closed"
         /\ \E s \in {"closed", "reset"} : peer' = [peer EXCEPT ![c] = s]
         /\ got' = [got EXCEPT ![c] = @ \cup {Len(log)}]
    /\ j' = j + 1
    /\ UNCHANGED <<pc, clients, num_clients, monitors, num_monitors, rfds, i,
                   sock, backlog, mbacklog, up, down, log, since, served>>

\* The connection was reset: send() raises SIGPIPE, which nobody catches.
SendSigpipe ==
  \E fd \in ConnFds :
    /\ SendTarget(fd)
    /\ peer[sock[fd]] = "reset"
    /\ ProcessEnds("killed")
    /\ UNCHANGED <<server, peer, up, down, history>>

ClientsDone ==
  /\ pc = "bcast"
  /\ ~ClientsLeft
  /\ j' = 0
  /\ pc' = "bcastMon"
  /\ UNCHANGED <<clients, num_clients, monitors, num_monitors, rfds, i,
                 kernel, history>>

SameSlotAgain == i    \* seeded fault: the same client is read again at once

DrainFirst ==    \* seeded fault: a client is left when it has no more to say
  IF up[sock[clients[i]]] > 0 THEN i ELSE i + 1

SlotAfterBroadcast == i + 1

MonitorsDone ==
  /\ pc = "bcastMon"
  /\ j >= num_monitors
  /\ j' = 0
  /\ i' = SlotAfterBroadcast
  /\ pc' = "scan"
  /\ UNCHANGED <<clients, num_clients, monitors, num_monitors, rfds,
                 kernel, history>>

-----------------------------------------------------------------------------
\* The programs at the other end.  net_connect_to_bus succeeds while the
\* server listens and its backlog has room.
Connect(c) ==
  /\ Running
  /\ peer[c] = "idle"
  /\ peer' = [peer EXCEPT ![c] = "up"]
  /\ \/ /\ Len(backlog) < Backlog
        /\ backlog' = Append(backlog, c)
        /\ UNCHANGED mbacklog
     \/ /\ Len(mbacklog) < Backlog
        /\ mbacklog' = Append(mbacklog, c)
        /\ UNCHANGED backlog
  /\ UNCHANGED <<pc, server, sock, up, down, history>>

\* The program writes one frame; its own send() blocks while buffers are full.
PeerSend(c) ==
  /\ Attached(c)
  /\ peer[c] = "up"
  /\ up[c] < UpCap
  /\ Len(log) < MaxFrames
  /\ up' = [up EXCEPT ![c] = @ + 1]
  /\ UNCHANGED <<pc, server, sock, backlog, mbacklog, peer, down, history>>

\* The program reads one frame.
PeerRecv(c) ==
  /\ c \in Readers
  /\ peer[c] = "up"
  /\ down[c] > 0
  /\ down' = [down EXCEPT ![c] = @ - 1]
  /\ UNCHANGED <<pc, server, sock, backlog, mbacklog, peer, up, history>>

\* The program exits (fail-safe, 'q', a signal) or closes its socket.
PeerClose(c) ==
  /\ Attached(c)
  /\ peer[c] = "up"
  /\ peer' = [peer EXCEPT ![c] = "closed"]
  /\ UNCHANGED <<pc, server, sock, backlog, mbacklog, up, down, history>>

-----------------------------------------------------------------------------
BusStep ==
  \/ Listen \/ Select \/ SelectFails \/ AcceptEcu \/ AcceptMonitor
  \/ ScanDone \/ ScanSkip \/ RecvFrame \/ RecvFails
  \/ SkipSender \/ SendFrame \/ SendToClosed \/ SendSigpipe
  \/ ClientsDone \/ MonitorsDone

PeerStep ==
  \E c \in Conns : Connect(c) \/ PeerSend(c) \/ PeerRecv(c) \/ PeerClose(c)

Next == BusStep \/ PeerStep

Spec == Init /\ [][Next]_vars

\* The server process is scheduled whenever it is not asleep in a call, and
\* a program that reads its socket keeps reading while it runs.
Fairness ==
  /\ WF_vars(BusStep)
  /\ \A c \in Readers : WF_vars(PeerRecv(c))

FairSpec == Spec /\ Fairness

-----------------------------------------------------------------------------
(***************************************************************************)
(* Properties                                                              *)
(***************************************************************************)
TypeOK ==
  /\ pc \in {"start", "select", "accept", "acceptMon", "scan", "bcast",
             "bcastMon"} \cup Stopped
  /\ clients \in [Slots -> ConnFds \cup {0}]
  /\ monitors \in [Slots -> ConnFds \cup {0}]
  /\ num_clients \in 0 .. MAX_CLIENTS
  /\ num_monitors \in 0 .. MAX_CLIENTS
  /\ rfds \in SUBSET ({listen_fd, monitor_fd} \cup ConnFds)
  /\ i \in 0 .. MAX_CLIENTS
  /\ j \in 0 .. MAX_CLIENTS
  /\ sock \in [ConnFds -> Conns \cup {NoConn}]
  /\ backlog \in Seq(Conns)
  /\ mbacklog \in Seq(Conns)
  /\ peer \in [Conns -> {"idle", "up", "closed", "reset"}]
  /\ up \in [Conns -> Nat]
  /\ down \in [Conns -> Nat]
  /\ log \in Seq(Conns)
  /\ since \in [Conns -> Nat]
  /\ got \in [Conns -> SUBSET Nat]
  /\ served \in SUBSET ConnFds

\* While the server runs the two tables list exactly the open connections:
\* no entry of a closed or reused descriptor (select() would fail with EBADF,
\* a frame would go to the wrong program), none listed twice (a frame would
\* be delivered twice) and no open descriptor forgotten (a leak).  At risk in
\* the swap-with-last removal of bus.c:108-110 and the accepts at 82-100.
TablesMatchSockets ==
  Running =>
    /\ Clients \cup Monitors = {fd \in ConnFds : sock[fd] # NoConn}
    /\ Clients \cap Monitors = {}
    /\ \A k, m \in 0 .. num_clients - 1 : clients[k] = clients[m] => k = m
    /\ \A k, m \in 0 .. num_monitors - 1 : monitors[k] = monitors[m] => k = m
    /\ \A f, g \in ConnFds : sock[f] = sock[g] /\ sock[f] # NoConn => f = g

\* The sockets are blocking and the server has one thread, so a recv() on a
\* descriptor with nothing to read would freeze every ECU.  bus.c:104 relies
\* on a snapshot taken before accepts, closes and earlier reads of the pass.
NoBlockingRecv == AtReadyClient => Readable(sock[clients[i]])

\* accept() is no different: it is only called when a connection is waiting, and
\* with room in the table there is a descriptor left to give it, however many
\* connections came and went before (bus.c:82-100).
FreeFd == \E fd \in ConnFds : LowestFree(fd)

NoBlockingAccept ==
  /\ pc = "accept" /\ listen_fd \in rfds =>
       backlog # << >> /\ (HasRoom(num_clients) => FreeFd)
  /\ pc = "acceptMon" /\ monitor_fd \in rfds =>
       mbacklog # << >> /\ (HasRoom(num_monitors) => FreeFd)

\* One pass reads every client that select() reported, and none twice: the
\* client moved into a freed slot is neither skipped nor revisited (i-- at
\* bus.c:110).
FairPass ==
  /\ AtReadyClient => clients[i] \notin served
  /\ pc = "scan" /\ i >= num_clients => rfds \cap ConnFds \subseteq served

\* The number of system calls and loop rounds that the pass may still take:
\* two accepts, for each client left one recv() and the two broadcast loops,
\* and the end of the pass.
InPass == pc \in {"accept", "acceptMon", "scan", "bcast", "bcastMon"}

ClientRounds == 2 * MAX_CLIENTS + 3

StepsLeft ==
  CASE pc = "accept"    -> (num_clients + 1) * ClientRounds + 3
    [] pc = "acceptMon" -> num_clients * ClientRounds + 2
    [] pc = "scan"      -> (num_clients - i) * ClientRounds + 1
    [] pc = "bcast"     -> (num_clients - i - 1) * ClientRounds
                             + (num_clients - j) + num_monitors + 3
    [] pc = "bcastMon"  -> (num_clients - i - 1) * ClientRounds
                             + (num_monitors - j) + 2
    [] OTHER            -> 0

\* Every step of the server in a pass brings the end of the pass nearer, whatever
\* the other ends do meanwhile: no departure, no arrival and no traffic makes a
\* pass, or a broadcast in it, longer than MAX_CLIENTS + 1 rounds
\* (bus.c:82-126).
PassIsBounded ==
  [][InPass => IF BusStep THEN StepsLeft > 0 /\ StepsLeft' < StepsLeft
                          ELSE StepsLeft' = StepsLeft]_vars

\* The abstract medium this loop implements: its members are the entries of
\* the tables, and the current frame is owed to the entries the broadcast
\* loops have not come to.
ConnsOf(fds) == {sock[fd] : fd \in fds}

OwedFds ==
  IF pc = "bcast"
    THEN {clients[k] : k \in {m \in j .. num_clients - 1 : clients[m] # clients[i]}}
           \cup Monitors
    ELSE IF pc = "bcastMon" THEN {monitors[k] : k \in j .. num_monitors - 1}
    ELSE {}

Medium == INSTANCE CanMedium WITH
            ecus <- IF Running THEN ConnsOf(Clients) ELSE {},
            taps <- IF Running THEN ConnsOf(Monitors) ELSE {},
            owed <- IF Running THEN ConnsOf(OwedFds) ELSE {}

\* The select loop implements the one-frame-at-a-time broadcast medium.
ImplementsMedium == Medium!Spec

\* Every connected program has been handed exactly the frames the others
\* sent since it was accepted, in bus order, apart from the frame whose
\* broadcast has not reached it yet.
Delivered == Medium!Complete

\* The loop is only left when select() fails (bus.c:77-80): an ECU that goes
\* away is logged and closed (bus.c:107) and the others are served on.
SurvivesDepartures == pc # "killed"

\* A frame the server has read reaches every table entry and the server
\* comes back to select(), unless SIGPIPE ends it.
BroadcastEnds == pc = "bcast" ~> pc \in {"select"} \cup Stopped

\* A client that has sent something and stays connected is read, again and
\* again, however busy the other clients are and even if they never pause: the
\* pass over the clients gives each of them one frame (bus.c:102-125).
Unread(c) == pc \notin Stopped /\ c \in ConnsOf(Clients) /\ up[c] > 0

NoClientStarves ==
  \A c \in Conns :
    []<>~Unread(c) \/ []<><<up'[c] < up[c]>>_vars
=============================================================================

--------------------------- MODULE BusServerProofs ---------------------------
(***************************************************************************)
(* Proofs about BusServer, for every number of connections, every size of  *)
(* the tables and of the buffers.  The properties are not inductive: that  *)
(* recv() never blocks rests on the snapshot of select() staying true of   *)
(* every client not yet read, this on the tables naming exactly the open   *)
(* descriptors, and this on the connections waiting in the two backlogs    *)
(* being new.  IInv is the conjunction of those facts.                     *)
(***************************************************************************)
EXTENDS BusServer, FiniteSetTheorems, SequenceTheorems, WellFoundedInduction,
        TLAPS

\* The slots of clients the pass has yet to look at start here.
Cursor == IF pc \in {"bcast", "bcastMon"} THEN i + 1 ELSE i

\* No connection is held twice, and none that is held is still to be made.
HeldOnce ==
  /\ \A f, g \in ConnFds : sock[f] = sock[g] /\ sock[f] # NoConn => f = g
  /\ \A f \in ConnFds : sock[f] # NoConn => peer[sock[f]] # "idle"
  /\ \A m \in 1 .. Len(backlog) :
       /\ peer[backlog[m]] # "idle"
       /\ \A f \in ConnFds : sock[f] # backlog[m]
       /\ \A n \in 1 .. Len(backlog) : backlog[m] = backlog[n] => m = n
       /\ \A n \in 1 .. Len(mbacklog) : backlog[m] # mbacklog[n]
  /\ \A m \in 1 .. Len(mbacklog) :
       /\ peer[mbacklog[m]] # "idle"
       /\ \A f \in ConnFds : sock[f] # mbacklog[m]
       /\ \A n \in 1 .. Len(mbacklog) : mbacklog[m] = mbacklog[n] => m = n

\* A process that is not running holds nothing.
HoldsNothing ==
  /\ \A f \in ConnFds : sock[f] = NoConn
  /\ backlog = << >>
  /\ mbacklog = << >>

StoppedEmpty ==
  /\ ~Running => HoldsNothing
  /\ pc = "start" => num_clients = 0 /\ num_monitors = 0

\* TablesMatchSockets entry by entry.
Entries ==
  pc \notin Stopped =>
    /\ \A k \in 0 .. num_clients - 1 :
         clients[k] \in ConnFds /\ sock[clients[k]] # NoConn
    /\ \A k \in 0 .. num_monitors - 1 :
         monitors[k] \in ConnFds /\ sock[monitors[k]] # NoConn
    /\ \A k \in 0 .. num_clients - 1, m \in 0 .. num_monitors - 1 :
         clients[k] # monitors[m]
    /\ \A k, m \in 0 .. num_clients - 1 : clients[k] = clients[m] => k = m
    /\ \A k, m \in 0 .. num_monitors - 1 : monitors[k] = monitors[m] => k = m
    /\ \A f \in ConnFds :
         sock[f] # NoConn =>
           \/ \E k \in 0 .. num_clients - 1 : clients[k] = f
           \/ \E k \in 0 .. num_monitors - 1 : monitors[k] = f

\* What the snapshot still says when the pass reaches a slot.
Snapshot ==
  /\ pc = "accept" /\ listen_fd \in rfds => backlog # << >>
  /\ pc \in {"accept", "acceptMon"} /\ monitor_fd \in rfds => mbacklog # << >>
  /\ pc \in {"accept", "acceptMon"} => i = 0 /\ served = {}
  /\ pc \in {"bcast", "bcastMon"} => i < num_clients
  /\ InPass =>
       /\ \A k \in Cursor .. num_clients - 1 :
            clients[k] \in rfds =>
              clients[k] \notin served /\ Readable(sock[clients[k]])
       /\ \A f \in rfds \cap ConnFds :
            f \in served \/ \E k \in Cursor .. num_clients - 1 : clients[k] = f

\* Where the loop counters stop.
Counted ==
  /\ pc \in {"accept", "acceptMon", "scan"} => i <= num_clients
  /\ pc = "bcast" => j <= num_clients
  /\ pc = "bcastMon" => j <= num_monitors

IInv ==
  /\ TypeOK
  /\ HeldOnce
  /\ StoppedEmpty
  /\ Entries
  /\ Snapshot
  /\ Counted

-----------------------------------------------------------------------------
\* The initial states satisfy the invariant.
LEMMA InitIInv == Init => IInv
<1> SUFFICES ASSUME Init PROVE IInv
  OBVIOUS
<1> USE BusAssumption DEF Init
<1>1. TypeOK
  BY DEF TypeOK, Slots, ConnFds
<1>2. HeldOnce
  BY DEF HeldOnce, ConnFds
<1>3. StoppedEmpty
  BY DEF StoppedEmpty, HoldsNothing
<1>4. Entries
  BY DEF Entries
<1>5. Snapshot
  BY DEF Snapshot, InPass
<1>6. Counted
  BY DEF Counted
<1>7. QED
  BY <1>1, <1>2, <1>3, <1>4, <1>5, <1>6 DEF IInv

\* The loops send to open connections only.
LEMMA TargetOpen ==
  ASSUME IInv, NEW fd \in ConnFds, SendTarget(fd)
  PROVE  sock[fd] \in Conns
<1>1. TypeOK /\ Entries
  BY DEF IInv
<1>2. pc \notin Stopped
  BY DEF SendTarget, Stopped
<1>3. j \in Nat /\ num_clients \in Nat /\ num_monitors \in Nat
  BY <1>1, BusAssumption DEF TypeOK
<1>4. sock[fd] # NoConn
  BY <1>1, <1>2, <1>3 DEF SendTarget, ClientsLeft, Entries
<1>5. QED
  BY <1>1, <1>4 DEF TypeOK

\* Every step keeps every variable in its type.
LEMMA TypeStep == IInv /\ [Next]_vars => TypeOK'
<1> SUFFICES ASSUME IInv, [Next]_vars PROVE TypeOK'
  OBVIOUS
<1> USE BusAssumption DEF TypeOK, Stopped, server, kernel, history
<1>t. TypeOK
  BY DEF IInv
<1>l. Len(log) \in Nat
  BY <1>t, LenProperties
<1>1. CASE Listen
  BY <1>1, <1>t DEF Listen
<1>2. CASE Select
  <2>1. \A k \in 0 .. num_clients - 1 : clients[k] \in ConnFds
    BY <1>2 DEF Select, IInv, Entries
  <2>2. rfds' \in SUBSET ({listen_fd, monitor_fd} \cup ConnFds)
    BY <1>2, <2>1 DEF Select, Reported, Watched, Clients
  <2>3. QED
    BY <1>2, <1>t, <2>2 DEF Select
<1>3. CASE SelectFails
  BY <1>3, <1>t DEF SelectFails, ProcessEnds
<1>4. CASE AcceptEcu
  <2>1. listen_fd \in rfds => backlog # << >>
    BY <1>4 DEF AcceptEcu, EnterEcu, AcceptFails, IInv, Snapshot
  <2>2. listen_fd \in rfds => Head(backlog) \in Conns /\ Tail(backlog) \in Seq(Conns)
    BY <1>t, <2>1, HeadTailProperties
  <2>3. CASE listen_fd \in rfds /\ EnterEcu
    <3>1. PICK fd \in ConnFds :
            /\ sock' = [sock EXCEPT ![fd] = Head(backlog)]
            /\ clients' = [clients EXCEPT ![num_clients] = fd]
      BY <1>4, <2>3 DEF AcceptEcu, EnterEcu, AcceptFails
    <3>2. num_clients' = num_clients + 1 /\ num_clients \in Slots
      BY <1>4, <1>t, <2>3 DEF AcceptEcu, EnterEcu, AcceptFails, HasRoom, Slots
    <3>3. num_clients' \in 0 .. MAX_CLIENTS
      BY <1>t, <3>2 DEF Slots
    <3>4. clients' \in [Slots -> ConnFds \cup {0}]
      BY <1>t, <3>1, <3>2
    <3>5. sock' \in [ConnFds -> Conns \cup {NoConn}]
      BY <1>t, <2>2, <2>3, <3>1
    <3>6. backlog' = Tail(backlog) /\ since' = [since EXCEPT ![Head(backlog)] = Len(log)]
      BY <1>4, <2>3 DEF AcceptEcu, EnterEcu, AcceptFails
    <3>7. since' \in [Conns -> Nat]
      BY <1>t, <1>l, <3>6
    <3>8. QED
      BY <1>4, <1>t, <2>2, <2>3, <3>3, <3>4, <3>5, <3>6, <3>7
         DEF AcceptEcu, EnterEcu, AcceptFails
  <2>4. CASE ~(listen_fd \in rfds /\ EnterEcu)
    BY <1>4, <1>t, <2>2, <2>4 DEF AcceptEcu, EnterEcu, AcceptFails
  <2>5. QED
    BY <2>3, <2>4
<1>5. CASE AcceptMonitor
  <2>1. monitor_fd \in rfds => mbacklog # << >>
    BY <1>5 DEF AcceptMonitor, EnterMonitor, AcceptFails, IInv, Snapshot
  <2>2. monitor_fd \in rfds => Head(mbacklog) \in Conns /\ Tail(mbacklog) \in Seq(Conns)
    BY <1>t, <2>1, HeadTailProperties
  <2>3. CASE monitor_fd \in rfds /\ EnterMonitor
    <3>1. PICK fd \in ConnFds :
            /\ sock' = [sock EXCEPT ![fd] = Head(mbacklog)]
            /\ monitors' = [monitors EXCEPT ![num_monitors] = fd]
      BY <1>5, <2>3 DEF AcceptMonitor, EnterMonitor, AcceptFails
    <3>2. num_monitors' = num_monitors + 1 /\ num_monitors \in Slots
      BY <1>5, <1>t, <2>3
         DEF AcceptMonitor, EnterMonitor, AcceptFails, HasRoom, Slots
    <3>3. num_monitors' \in 0 .. MAX_CLIENTS
      BY <1>t, <3>2 DEF Slots
    <3>4. monitors' \in [Slots -> ConnFds \cup {0}]
      BY <1>t, <3>1, <3>2
    <3>5. sock' \in [ConnFds -> Conns \cup {NoConn}]
      BY <1>t, <2>2, <2>3, <3>1
    <3>6. mbacklog' = Tail(mbacklog) /\ since' = [since EXCEPT ![Head(mbacklog)] = Len(log)]
      BY <1>5, <2>3 DEF AcceptMonitor, EnterMonitor, AcceptFails
    <3>7. since' \in [Conns -> Nat]
      BY <1>t, <1>l, <3>6
    <3>8. QED
      BY <1>5, <1>t, <2>2, <2>3, <3>3, <3>4, <3>5, <3>6, <3>7
         DEF AcceptMonitor, EnterMonitor, AcceptFails
  <2>4. CASE ~(monitor_fd \in rfds /\ EnterMonitor)
    BY <1>5, <1>t, <2>2, <2>4 DEF AcceptMonitor, EnterMonitor, AcceptFails
  <2>5. QED
    BY <2>3, <2>4
<1>6. CASE ScanDone
  BY SMTT(30), <1>6, <1>t DEF ScanDone
<1>7. CASE ScanSkip
  BY SMTT(30), <1>7, <1>t DEF ScanSkip
<1>8. CASE RecvFrame
  <2>1. clients[i] \in ConnFds /\ sock[clients[i]] \in Conns
    BY <1>8, <1>t DEF RecvFrame, AtReadyClient, IInv, Entries
  <2>2. up' \in [Conns -> Nat]
    BY <1>8, <1>t, <2>1 DEF RecvFrame
  <2>3. log' \in Seq(Conns)
    BY <1>8, <1>t, <2>1, AppendProperties DEF RecvFrame
  <2>4. QED
    BY SMTT(30), <1>8, <1>t, <2>1, <2>2, <2>3 DEF RecvFrame
<1>9. CASE RecvFails
  <2>1. clients[i] \in ConnFds
    BY <1>9, <1>t DEF RecvFails, AtReadyClient, IInv, Entries
  <2>2. clients' \in [Slots -> ConnFds \cup {0}]
    BY <1>9, <1>t DEF RecvFails, AtReadyClient, TableWithout, Slots
  <2>3. num_clients' \in 0 .. MAX_CLIENTS /\ i' \in 0 .. MAX_CLIENTS
    BY <1>9, <1>t DEF RecvFails, AtReadyClient, SlotAfterClose
  <2>4. sock' \in [ConnFds -> Conns \cup {NoConn}]
    BY <1>9, <1>t DEF RecvFails
  <2>5. QED
    BY <1>9, <1>t, <2>1, <2>2, <2>3, <2>4 DEF RecvFails
<1>10. CASE SkipSender
  BY SMTT(30), <1>10, <1>t DEF SkipSender, ClientsLeft
<1>11. CASE SendFrame
  <2>1. PICK fd \in ConnFds :
          /\ SendTarget(fd)
          /\ down' = [down EXCEPT ![sock[fd]] = @ + 1]
          /\ got' = [got EXCEPT ![sock[fd]] = @ \cup {Len(log)}]
    BY <1>11 DEF SendFrame
  <2>2. down' \in [Conns -> Nat]
    BY <1>t, <2>1, TargetOpen
  <2>3. got' \in [Conns -> SUBSET Nat]
    BY <1>t, <1>l, <2>1
  <2>4. j' = j + 1 /\ j < MAX_CLIENTS
    BY <1>11, <1>t, <2>1 DEF SendFrame, SendTarget, ClientsLeft
  <2>5. UNCHANGED <<pc, clients, num_clients, monitors, num_monitors, rfds, i,
                    sock, backlog, mbacklog, peer, up, log, since, served>>
    BY <1>11 DEF SendFrame
  <2>6. QED
    BY <1>t, <2>2, <2>3, <2>4, <2>5
<1>12. CASE SendToClosed
  <2>1. PICK fd \in ConnFds, s \in {"closed", "reset"} :
          /\ SendTarget(fd)
          /\ peer' = [peer EXCEPT ![sock[fd]] = s]
          /\ got' = [got EXCEPT ![sock[fd]] = @ \cup {Len(log)}]
    BY <1>12 DEF SendToClosed
  <2>2. peer' \in [Conns -> {"idle", "up", "closed", "reset"}]
    BY <1>t, <2>1
  <2>3. got' \in [Conns -> SUBSET Nat]
    BY <1>t, <1>l, <2>1
  <2>4. j' = j + 1 /\ j < MAX_CLIENTS
    BY <1>12, <1>t, <2>1 DEF SendToClosed, SendTarget, ClientsLeft
  <2>5. UNCHANGED <<pc, clients, num_clients, monitors, num_monitors, rfds, i,
                    sock, backlog, mbacklog, down, up, log, since, served>>
    BY <1>12 DEF SendToClosed
  <2>6. QED
    BY <1>t, <2>2, <2>3, <2>4, <2>5
<1>13. CASE SendSigpipe
  BY <1>13, <1>t DEF SendSigpipe, ProcessEnds
<1>14. CASE ClientsDone
  BY SMTT(30), <1>14, <1>t DEF ClientsDone
<1>15. CASE MonitorsDone
  <2>1. i < num_clients
    BY <1>15 DEF MonitorsDone, IInv, Snapshot
  <2>2. QED
    BY <1>15, <1>t, <2>1 DEF MonitorsDone, SlotAfterBroadcast
<1>16. ASSUME NEW c \in Conns, Connect(c) PROVE TypeOK'
  <2>1. backlog' \in Seq(Conns) /\ mbacklog' \in Seq(Conns)
    <3>1. Append(backlog, c) \in Seq(Conns) /\ Append(mbacklog, c) \in Seq(Conns)
      BY <1>t, AppendProperties
    <3>2. QED
      BY <1>16, <1>t, <3>1 DEF Connect
  <2>2. peer' \in [Conns -> {"idle", "up", "closed", "reset"}]
    BY <1>16, <1>t DEF Connect
  <2>3. QED
    BY <1>16, <1>t, <2>1, <2>2 DEF Connect
<1>17. ASSUME NEW c \in Conns, PeerSend(c) PROVE TypeOK'
  BY <1>17, <1>t DEF PeerSend
<1>18. ASSUME NEW c \in Conns, PeerRecv(c) PROVE TypeOK'
  BY SMTT(30), <1>18, <1>t DEF PeerRecv
<1>19. ASSUME NEW c \in Conns, PeerClose(c) PROVE TypeOK'
  BY <1>19, <1>t DEF PeerClose
<1>20. CASE UNCHANGED vars
  BY <1>20, <1>t DEF vars
<1>21. QED
  BY <1>1, <1>2, <1>3, <1>4, <1>5, <1>6, <1>7, <1>8, <1>9, <1>10, <1>11,
     <1>12, <1>13, <1>14, <1>15, <1>16, <1>17, <1>18, <1>19, <1>20
  DEF Next, BusStep, PeerStep

\* Only an accept, a departure and a new connection change what is held.
LEMMA HeldOnceStep == IInv /\ [Next]_vars => HeldOnce'
<1> SUFFICES ASSUME IInv, [Next]_vars PROVE HeldOnce'
  OBVIOUS
<1> USE BusAssumption DEF server, kernel, history
<1>t. TypeOK /\ HeldOnce
  BY DEF IInv
<1>a. CASE UNCHANGED <<sock, backlog, mbacklog, peer>>
  BY <1>t, <1>a DEF HeldOnce
<1>b. CASE \E how \in Stopped : ProcessEnds(how)
  BY <1>t, <1>b DEF ProcessEnds, HeldOnce
<1>1. CASE AcceptEcu
  <2>1. CASE listen_fd \in rfds /\ backlog' = Tail(backlog)
    <3>1. backlog # << >>
      BY <1>1, <2>1 DEF AcceptEcu, EnterEcu, AcceptFails, IInv, Snapshot
    <3>2. /\ Head(backlog) = backlog[1] /\ Len(backlog) \in Nat \ {0}
          /\ backlog' = Tail(backlog)
          /\ Len(backlog') = Len(backlog) - 1
          /\ \A m \in 1 .. Len(backlog') : backlog'[m] = backlog[m + 1]
      <4>1. backlog \in Seq(Conns)
        BY <1>t DEF TypeOK
      <4>2. /\ Len(backlog) \in Nat \ {0}
            /\ Len(Tail(backlog)) = Len(backlog) - 1
            /\ \A m \in 1 .. Len(Tail(backlog)) : Tail(backlog)[m] = backlog[m + 1]
        BY <3>1, <4>1, HeadTailProperties, EmptySeq
      <4>4. Head(backlog) = backlog[1]
        BY <3>1, <4>1
      <4>5. QED
        BY <2>1, <4>2, <4>4
    <3>3. UNCHANGED <<mbacklog, peer>>
      BY <1>1 DEF AcceptEcu, EnterEcu, AcceptFails
    <3>4. CASE EnterEcu
      <4>1. PICK fd \in ConnFds :
              sock[fd] = NoConn /\ sock' = [sock EXCEPT ![fd] = backlog[1]]
        BY <3>2, <3>4 DEF EnterEcu, LowestFree
      <4>2. \A f \in ConnFds : sock'[f] = IF f = fd THEN backlog[1] ELSE sock[f]
        BY <1>t, <4>1 DEF TypeOK
      <4>3. QED
        BY <1>t, <3>2, <3>3, <4>1, <4>2 DEF HeldOnce
    <3>5. CASE ~EnterEcu
      <4>1. UNCHANGED sock
        BY <1>1, <2>1, <3>5 DEF AcceptEcu, EnterEcu, AcceptFails
      <4>2. QED
        BY <1>t, <3>2, <3>3, <4>1 DEF HeldOnce
    <3>6. QED
      BY <3>4, <3>5
  <2>2. CASE ~(listen_fd \in rfds /\ backlog' = Tail(backlog))
    BY <1>1, <1>a, <2>2 DEF AcceptEcu, EnterEcu, AcceptFails
  <2>3. QED
    BY <2>1, <2>2
<1>2. CASE AcceptMonitor
  <2>1. CASE monitor_fd \in rfds /\ mbacklog' = Tail(mbacklog)
    <3>1. mbacklog # << >>
      BY <1>2, <2>1 DEF AcceptMonitor, EnterMonitor, AcceptFails, IInv, Snapshot
    <3>2. /\ Head(mbacklog) = mbacklog[1] /\ Len(mbacklog) \in Nat \ {0}
          /\ mbacklog' = Tail(mbacklog)
          /\ Len(mbacklog') = Len(mbacklog) - 1
          /\ \A m \in 1 .. Len(mbacklog') : mbacklog'[m] = mbacklog[m + 1]
      <4>1. mbacklog \in Seq(Conns)
        BY <1>t DEF TypeOK
      <4>2. /\ Len(mbacklog) \in Nat \ {0}
            /\ Len(Tail(mbacklog)) = Len(mbacklog) - 1
            /\ \A m \in 1 .. Len(Tail(mbacklog)) : Tail(mbacklog)[m] = mbacklog[m + 1]
        BY <3>1, <4>1, HeadTailProperties, EmptySeq
      <4>4. Head(mbacklog) = mbacklog[1]
        BY <3>1, <4>1
      <4>5. QED
        BY <2>1, <4>2, <4>4
    <3>3. UNCHANGED <<backlog, peer>>
      BY <1>2 DEF AcceptMonitor, EnterMonitor, AcceptFails
    <3>4. CASE EnterMonitor
      <4>1. PICK fd \in ConnFds :
              sock[fd] = NoConn /\ sock' = [sock EXCEPT ![fd] = mbacklog[1]]
        BY <3>2, <3>4 DEF EnterMonitor, LowestFree
      <4>2. \A f \in ConnFds : sock'[f] = IF f = fd THEN mbacklog[1] ELSE sock[f]
        BY <1>t, <4>1 DEF TypeOK
      <4>3. QED
        BY <1>t, <3>2, <3>3, <4>1, <4>2 DEF HeldOnce
    <3>5. CASE ~EnterMonitor
      <4>1. UNCHANGED sock
        BY <1>2, <2>1, <3>5 DEF AcceptMonitor, EnterMonitor, AcceptFails
      <4>2. QED
        BY <1>t, <3>2, <3>3, <4>1 DEF HeldOnce
    <3>6. QED
      BY <3>4, <3>5
  <2>2. CASE ~(monitor_fd \in rfds /\ mbacklog' = Tail(mbacklog))
    BY <1>2, <1>a, <2>2 DEF AcceptMonitor, EnterMonitor, AcceptFails
  <2>3. QED
    BY <2>1, <2>2
<1>3. CASE RecvFails
  <2>1. \A f \in ConnFds : sock'[f] = sock[f] \/ sock'[f] = NoConn
    BY <1>3, <1>t DEF RecvFails, TypeOK
  <2>2. UNCHANGED <<backlog, mbacklog, peer>>
    BY <1>3 DEF RecvFails
  <2>3. /\ \A m \in 1 .. Len(backlog) : backlog[m] \in Conns
        /\ \A m \in 1 .. Len(mbacklog) : mbacklog[m] \in Conns
    BY <1>t, ElementOfSeq DEF TypeOK
  <2>4. /\ \A m \in 1 .. Len(backlog) : backlog[m] # NoConn
        /\ \A m \in 1 .. Len(mbacklog) : mbacklog[m] # NoConn
    BY <2>3
  <2>5. QED
    BY <1>t, <2>1, <2>2, <2>3, <2>4 DEF HeldOnce
<1>4. ASSUME UNCHANGED <<sock, backlog, mbacklog>>,
             NEW c \in Conns, NEW s \in {"closed", "reset"},
             peer' = [peer EXCEPT ![c] = s]
      PROVE  HeldOnce'
  <2>1. \A d \in Conns : peer[d] # "idle" => peer'[d] # "idle"
    BY <1>4, <1>t DEF TypeOK
  <2>2. \A f \in ConnFds : sock[f] # NoConn => sock[f] \in Conns
    BY <1>t DEF TypeOK
  <2>3. /\ \A m \in 1 .. Len(backlog) : backlog[m] \in Conns
        /\ \A m \in 1 .. Len(mbacklog) : mbacklog[m] \in Conns
    BY <1>t, ElementOfSeq DEF TypeOK
  <2>4. QED
    BY <1>4, <1>t, <2>1, <2>2, <2>3 DEF HeldOnce
<1>5. CASE SendToClosed
  BY <1>4, <1>5, TargetOpen DEF SendToClosed
<1>6. ASSUME NEW c \in Conns, PeerClose(c) PROVE HeldOnce'
  BY <1>4, <1>6 DEF PeerClose
<1>7. ASSUME NEW c \in Conns, Connect(c) PROVE HeldOnce'
  <2>1. /\ \A d \in Conns : peer[d] # "idle" => peer'[d] # "idle" /\ d # c
        /\ peer[c] = "idle" /\ peer'[c] # "idle"
    BY <1>7, <1>t DEF Connect, TypeOK
  <2>2. \A f \in ConnFds : sock[f] # NoConn => sock[f] \in Conns
    BY <1>t DEF TypeOK
  <2>3. /\ Len(backlog) \in Nat /\ Len(mbacklog) \in Nat
        /\ \A m \in 1 .. Len(backlog) : backlog[m] \in Conns /\ backlog[m] # c
        /\ \A m \in 1 .. Len(mbacklog) : mbacklog[m] \in Conns /\ mbacklog[m] # c
    BY <1>t, <2>1, ElementOfSeq, LenProperties DEF TypeOK, HeldOnce
  <2>4. \A f \in ConnFds : sock[f] # c
    BY <1>t, <2>1 DEF HeldOnce, TypeOK
  <2>5. CASE backlog' = Append(backlog, c) /\ UNCHANGED <<sock, mbacklog>>
    <3>1. /\ Len(backlog') = Len(backlog) + 1
          /\ \A m \in 1 .. Len(backlog) : backlog'[m] = backlog[m]
          /\ backlog'[Len(backlog) + 1] = c
      BY <1>t, <2>5, AppendProperties DEF TypeOK
    <3>2. QED
      BY <1>t, <2>1, <2>2, <2>3, <2>4, <2>5, <3>1 DEF HeldOnce
  <2>6. CASE mbacklog' = Append(mbacklog, c) /\ UNCHANGED <<sock, backlog>>
    <3>1. /\ Len(mbacklog') = Len(mbacklog) + 1
          /\ \A m \in 1 .. Len(mbacklog) : mbacklog'[m] = mbacklog[m]
          /\ mbacklog'[Len(mbacklog) + 1] = c
      BY <1>t, <2>6, AppendProperties DEF TypeOK
    <3>2. QED
      BY SMTT(30), <1>t, <2>1, <2>2, <2>3, <2>4, <2>6, <3>1 DEF HeldOnce
  <2>7. QED
    BY <1>7, <2>5, <2>6 DEF Connect
<1>8. CASE SelectFails \/ SendSigpipe
  BY <1>8, <1>b DEF SelectFails, SendSigpipe, Stopped
<1>9. CASE \/ Listen \/ Select \/ ScanDone \/ ScanSkip \/ RecvFrame \/ SkipSender
           \/ SendFrame \/ ClientsDone \/ MonitorsDone \/ UNCHANGED vars
           \/ \E c \in Conns : PeerSend(c) \/ PeerRecv(c)
  BY <1>9, <1>a DEF Listen, Select, ScanDone, ScanSkip, RecvFrame, SkipSender,
     SendFrame, ClientsDone, MonitorsDone, PeerSend, PeerRecv, vars
<1>10. QED
  BY <1>1, <1>2, <1>3, <1>5, <1>6, <1>7, <1>8, <1>9 DEF Next, BusStep, PeerStep

\* A server that has ended stays ended, and nobody connects to it.
LEMMA StoppedEmptyStep == IInv /\ [Next]_vars => StoppedEmpty'
<1> SUFFICES ASSUME IInv, [Next]_vars PROVE StoppedEmpty'
  OBVIOUS
<1> USE DEF server, kernel, history, Stopped, Running
<1>t. StoppedEmpty
  BY DEF IInv
<1>1. CASE Listen
  BY <1>t, <1>1 DEF Listen, StoppedEmpty, HoldsNothing
<1>2. CASE SelectFails \/ SendSigpipe
  BY <1>2 DEF SelectFails, SendSigpipe, ProcessEnds, StoppedEmpty, HoldsNothing
<1>3. CASE UNCHANGED <<pc, num_clients, num_monitors, sock, backlog, mbacklog>>
  BY <1>t, <1>3 DEF StoppedEmpty, HoldsNothing
<1>4. ASSUME NEW c \in Conns, Connect(c) PROVE StoppedEmpty'
  BY <1>t, <1>4 DEF Connect, StoppedEmpty, HoldsNothing
<1>5. ASSUME NEW c \in Conns, PeerSend(c) \/ PeerRecv(c) \/ PeerClose(c)
      PROVE  StoppedEmpty'
  BY <1>3, <1>5 DEF PeerSend, PeerRecv, PeerClose
<1>6. CASE UNCHANGED vars
  BY <1>3, <1>6 DEF vars
<1>7. CASE Running'
  BY <1>7 DEF StoppedEmpty
<1>8. CASE \/ Select \/ AcceptEcu \/ AcceptMonitor \/ ScanDone
           \/ ClientsDone \/ MonitorsDone \/ RecvFrame
  BY <1>7, <1>8
     DEF Select, AcceptEcu, EnterEcu, AcceptFails, AcceptMonitor, EnterMonitor,
         ScanDone, ClientsDone, MonitorsDone, RecvFrame
<1>9. CASE ScanSkip \/ RecvFails \/ SkipSender
  BY <1>7, <1>9 DEF ScanSkip, RecvFails, AtReadyClient, SkipSender
<1>10. CASE SendFrame \/ SendToClosed
  BY <1>7, <1>10 DEF SendFrame, SendToClosed, SendTarget
<1>11. QED
  BY <1>1, <1>2, <1>4, <1>5, <1>6, <1>8, <1>9, <1>10
  DEF Next, BusStep, PeerStep

\* The tables follow the open descriptors entry by entry.
LEMMA EntriesStep == IInv /\ [Next]_vars => Entries'
<1> SUFFICES ASSUME IInv, [Next]_vars PROVE Entries'
  OBVIOUS
<1> USE BusAssumption DEF server, kernel, history
<1>t. TypeOK /\ Entries
  BY DEF IInv
<1>n. num_clients \in Nat /\ num_monitors \in Nat /\ i \in Nat
  BY <1>t DEF TypeOK
<1>a. CASE pc' \in Stopped
  BY <1>a DEF Entries
<1>b. CASE /\ pc \notin Stopped
           /\ UNCHANGED <<clients, num_clients, monitors, num_monitors, sock>>
  BY <1>t, <1>b DEF Entries
<1>1. CASE AcceptEcu
  <2>1. pc \notin Stopped /\ UNCHANGED <<monitors, num_monitors>>
    BY <1>1 DEF AcceptEcu, EnterEcu, AcceptFails, Stopped
  <2>2. CASE listen_fd \in rfds /\ EnterEcu
    <3>1. PICK fd \in ConnFds :
            /\ sock[fd] = NoConn
            /\ sock' = [sock EXCEPT ![fd] = Head(backlog)]
            /\ clients' = [clients EXCEPT ![num_clients] = fd]
      BY <1>1, <2>2 DEF AcceptEcu, EnterEcu, AcceptFails, LowestFree
    <3>2. Head(backlog) # NoConn
      <4>1. backlog # << >> /\ backlog \in Seq(Conns)
        BY <1>1, <1>t, <2>2
           DEF AcceptEcu, EnterEcu, AcceptFails, IInv, Snapshot, TypeOK
      <4>2. QED
        BY <4>1, HeadTailProperties
    <3>3. num_clients' = num_clients + 1 /\ num_clients \in Slots
      BY <1>1, <1>n, <2>2 DEF AcceptEcu, EnterEcu, AcceptFails, HasRoom, Slots
    <3>4. /\ clients'[num_clients] = fd
          /\ \A k \in 0 .. num_clients - 1 : clients'[k] = clients[k]
      BY <1>t, <3>1, <3>3 DEF TypeOK, Slots
    <3>5. \A f \in ConnFds :
            sock'[f] # NoConn <=> f = fd \/ sock[f] # NoConn
      BY <1>t, <3>1, <3>2 DEF TypeOK
    <3>6. QED
      BY <1>t, <1>n, <2>1, <3>1, <3>3, <3>4, <3>5 DEF Entries
  <2>3. CASE ~(listen_fd \in rfds /\ EnterEcu)
    BY <1>1, <1>b, <2>1, <2>3 DEF AcceptEcu, EnterEcu, AcceptFails
  <2>4. QED
    BY <2>2, <2>3
<1>2. CASE AcceptMonitor
  <2>1. pc \notin Stopped /\ UNCHANGED <<clients, num_clients>>
    BY <1>2 DEF AcceptMonitor, EnterMonitor, AcceptFails, Stopped
  <2>2. CASE monitor_fd \in rfds /\ EnterMonitor
    <3>1. PICK fd \in ConnFds :
            /\ sock[fd] = NoConn
            /\ sock' = [sock EXCEPT ![fd] = Head(mbacklog)]
            /\ monitors' = [monitors EXCEPT ![num_monitors] = fd]
      BY <1>2, <2>2 DEF AcceptMonitor, EnterMonitor, AcceptFails, LowestFree
    <3>2. Head(mbacklog) # NoConn
      <4>1. mbacklog # << >> /\ mbacklog \in Seq(Conns)
        BY <1>2, <1>t, <2>2
           DEF AcceptMonitor, EnterMonitor, AcceptFails, IInv, Snapshot, TypeOK
      <4>2. QED
        BY <4>1, HeadTailProperties
    <3>3. num_monitors' = num_monitors + 1 /\ num_monitors \in Slots
      BY <1>2, <1>n, <2>2
         DEF AcceptMonitor, EnterMonitor, AcceptFails, HasRoom, Slots
    <3>4. /\ monitors'[num_monitors] = fd
          /\ \A k \in 0 .. num_monitors - 1 : monitors'[k] = monitors[k]
      BY <1>t, <3>1, <3>3 DEF TypeOK, Slots
    <3>5. \A f \in ConnFds :
            sock'[f] # NoConn <=> f = fd \/ sock[f] # NoConn
      BY <1>t, <3>1, <3>2 DEF TypeOK
    <3>6. QED
      BY <1>t, <1>n, <2>1, <3>1, <3>3, <3>4, <3>5 DEF Entries
  <2>3. CASE ~(monitor_fd \in rfds /\ EnterMonitor)
    BY <1>2, <1>b, <2>1, <2>3 DEF AcceptMonitor, EnterMonitor, AcceptFails
  <2>4. QED
    BY <2>2, <2>3
<1>3. CASE RecvFails
  <2>1. /\ pc \notin Stopped /\ UNCHANGED <<monitors, num_monitors>>
        /\ num_clients' = num_clients - 1 /\ i < num_clients
        /\ sock' = [sock EXCEPT ![clients[i]] = NoConn]
        /\ clients' = [clients EXCEPT ![i] = clients[num_clients - 1]]
    BY <1>3 DEF RecvFails, AtReadyClient, TableWithout, Stopped
  <2>2. i \in Slots /\ num_clients - 1 \in Nat
    BY <1>t, <1>n, <2>1 DEF TypeOK, Slots
  <2>3. \A k \in 0 .. num_clients' - 1 :
          clients'[k] = IF k = i THEN clients[num_clients - 1] ELSE clients[k]
    BY <1>t, <1>n, <2>1, <2>2 DEF TypeOK, Slots
  <2>4. \A f \in ConnFds :
          sock'[f] # NoConn <=> sock[f] # NoConn /\ f # clients[i]
    BY <1>t, <2>1 DEF TypeOK
  <2>5. \A k \in 0 .. num_clients' - 1 :
          clients'[k] \in ConnFds /\ sock'[clients'[k]] # NoConn
    BY <1>t, <1>n, <2>1, <2>2, <2>3, <2>4 DEF Entries
  <2>6. \A k \in 0 .. num_monitors' - 1 :
          monitors'[k] \in ConnFds /\ sock'[monitors'[k]] # NoConn
    BY <1>t, <1>n, <2>1, <2>2, <2>4 DEF Entries
  <2>7. /\ \A k \in 0 .. num_clients' - 1, m \in 0 .. num_monitors' - 1 :
             clients'[k] # monitors'[m]
        /\ \A k, m \in 0 .. num_clients' - 1 :
             clients'[k] = clients'[m] => k = m
    BY <1>t, <1>n, <2>1, <2>2, <2>3 DEF Entries
  <2>8. ASSUME NEW f \in ConnFds, sock'[f] # NoConn
        PROVE  \/ \E k \in 0 .. num_clients' - 1 : clients'[k] = f
               \/ \E k \in 0 .. num_monitors' - 1 : monitors'[k] = f
    BY <1>t, <1>n, <2>1, <2>2, <2>3, <2>4, <2>8 DEF Entries
  <2>9. QED
    BY <1>t, <2>1, <2>5, <2>6, <2>7, <2>8 DEF Entries
<1>4. CASE SelectFails \/ SendSigpipe
  BY <1>4, <1>a DEF SelectFails, SendSigpipe, ProcessEnds, Stopped
<1>5. CASE \/ Listen \/ Select \/ ScanDone \/ ScanSkip \/ RecvFrame \/ SkipSender
           \/ SendFrame \/ SendToClosed \/ ClientsDone \/ MonitorsDone
  <2>1. pc \notin Stopped
    BY <1>5 DEF Listen, Select, ScanDone, ScanSkip, RecvFrame, AtReadyClient,
       SkipSender, SendFrame, SendToClosed, SendTarget, ClientsDone,
       MonitorsDone, Stopped
  <2>2. UNCHANGED <<clients, num_clients, monitors, num_monitors, sock>>
    BY <1>5 DEF Listen, Select, ScanDone, ScanSkip, RecvFrame,
       SkipSender, SendFrame, SendToClosed, ClientsDone, MonitorsDone
  <2>3. QED
    BY <1>b, <2>1, <2>2
<1>6. ASSUME NEW c \in Conns,
             Connect(c) \/ PeerSend(c) \/ PeerRecv(c) \/ PeerClose(c)
      PROVE  Entries'
  BY <1>6, <1>t DEF Connect, PeerSend, PeerRecv, PeerClose, Entries
<1>7. CASE UNCHANGED vars
  BY <1>7, <1>t DEF vars, Entries
<1>8. QED
  BY <1>1, <1>2, <1>3, <1>4, <1>5, <1>6, <1>7 DEF Next, BusStep, PeerStep

\* While the pass over the clients moves no slot, what the snapshot says of
\* the slots ahead survives any step that leaves readable sockets readable.
LEMMA SlotsAheadKept ==
  ASSUME IInv, InPass, InPass', Cursor' = Cursor,
         UNCHANGED <<clients, num_clients, rfds, served>>,
         \A k \in 0 .. num_clients - 1 :
           Readable(sock[clients[k]]) => Readable(sock[clients[k]])'
  PROVE  /\ \A k \in Cursor' .. num_clients' - 1 :
              clients'[k] \in rfds' =>
                clients'[k] \notin served' /\ Readable(sock[clients[k]])'
         /\ \A f \in rfds' \cap ConnFds :
              f \in served' \/ \E k \in Cursor' .. num_clients' - 1 : clients'[k] = f
<1>1. num_clients \in Nat /\ Cursor \in Nat
  BY BusAssumption DEF IInv, TypeOK, Cursor
<1>2. Snapshot
  BY DEF IInv
<1>3. \A k \in Cursor .. num_clients - 1 : k \in 0 .. num_clients - 1
  BY <1>1
<1>4. QED
  BY <1>2, <1>3 DEF Snapshot

\* A connection that could be read still can after any step of the peers.
LEMMA ReadableKept ==
  ASSUME TypeOK, NEW c \in Conns, NEW d \in Conns, Readable(c),
         Connect(d) \/ PeerSend(d) \/ PeerRecv(d) \/ PeerClose(d),
         peer[c] # "idle"
  PROVE  Readable(c)'
<1>1. CASE Connect(d) \/ PeerClose(d)
  BY <1>1 DEF Connect, PeerClose, Readable, TypeOK, kernel, history, server
<1>2. CASE PeerSend(d)
  <2>1. up' = [up EXCEPT ![d] = @ + 1] /\ UNCHANGED peer
    BY <1>2 DEF PeerSend
  <2>2. up[c] \in Nat /\ (c = d => up'[c] = up[c] + 1) /\ (c # d => up'[c] = up[c])
    BY <2>1 DEF TypeOK
  <2>3. QED
    BY <2>1, <2>2 DEF Readable
<1>3. CASE PeerRecv(d)
  BY <1>3 DEF PeerRecv, Readable
<1>4. QED
  BY <1>1, <1>2, <1>3

\* The snapshot stays true of every slot the pass has yet to reach.
LEMMA SnapshotStep == IInv /\ [Next]_vars => Snapshot'
<1> SUFFICES ASSUME IInv, [Next]_vars PROVE Snapshot'
  OBVIOUS
<1> USE BusAssumption DEF server, kernel, history
<1>t. TypeOK /\ HeldOnce /\ Entries /\ Snapshot
  BY DEF IInv
<1>n. num_clients \in Nat /\ num_monitors \in Nat /\ i \in Nat /\ Cursor \in Nat
  BY <1>t DEF TypeOK, Cursor
<1>p. InPass => pc \notin Stopped
  BY DEF InPass, Stopped
<1>1. CASE Listen \/ SelectFails \/ ScanDone \/ SendSigpipe
  BY <1>1 DEF Listen, SelectFails, ScanDone, SendSigpipe, ProcessEnds,
     Snapshot, InPass, Stopped
<1>2. CASE Select
  <2>1. /\ pc' = "accept" /\ i' = 0 /\ served' = {}
        /\ rfds' = {fd \in Watched : Ready(fd)}
        /\ UNCHANGED <<clients, num_clients, sock, peer, up, backlog, mbacklog>>
    BY <1>2 DEF Select, Reported
  <2>2. /\ listen_fd \notin ConnFds /\ monitor_fd \notin ConnFds
        /\ listen_fd # monitor_fd
    BY DEF listen_fd, monitor_fd, ConnFds
  <2>3. \A k \in 0 .. num_clients - 1 : clients[k] \in ConnFds
    BY <1>2, <1>t DEF Select, Entries, Stopped
  <2>4. /\ listen_fd \in rfds' => backlog' # << >>
        /\ monitor_fd \in rfds' => mbacklog' # << >>
    BY <2>1, <2>2 DEF Ready
  <2>5. \A k \in 0 .. num_clients' - 1 :
          clients'[k] \in rfds' => Readable(sock[clients[k]])'
    BY <2>1, <2>2, <2>3 DEF Ready, Readable
  <2>6. \A f \in rfds' \cap ConnFds :
          \E k \in 0 .. num_clients' - 1 : clients'[k] = f
    BY <2>1, <2>2 DEF Watched, Clients
  <2>7. Cursor' = 0
    BY <2>1 DEF Cursor
  <2>8. QED
    BY <2>1, <2>4, <2>5, <2>6, <2>7 DEF Snapshot
<1>3. CASE AcceptEcu
  <2>1. /\ pc = "accept" /\ pc' = "acceptMon" /\ i = 0 /\ i' = 0
        /\ served = {} /\ served' = {} /\ Cursor = 0 /\ Cursor' = 0 /\ InPass
        /\ UNCHANGED <<rfds, mbacklog, peer, up>>
    BY <1>3, <1>t DEF AcceptEcu, EnterEcu, AcceptFails, Snapshot, Cursor, InPass
  <2>2. monitor_fd \in rfds' => mbacklog' # << >>
    BY <1>t, <2>1 DEF Snapshot
  <2>3. CASE listen_fd \in rfds /\ EnterEcu
    <3>1. PICK fd \in ConnFds :
            /\ sock[fd] = NoConn
            /\ sock' = [sock EXCEPT ![fd] = Head(backlog)]
            /\ clients' = [clients EXCEPT ![num_clients] = fd]
      BY <1>3, <2>3 DEF AcceptEcu, EnterEcu, AcceptFails, LowestFree
    <3>2. num_clients' = num_clients + 1 /\ num_clients \in Slots
      BY <1>3, <1>n, <2>3 DEF AcceptEcu, EnterEcu, AcceptFails, HasRoom, Slots
    <3>3. /\ clients'[num_clients] = fd
          /\ \A k \in 0 .. num_clients - 1 : clients'[k] = clients[k]
      BY <1>t, <3>1, <3>2 DEF TypeOK, Slots
    <3>4. \A k \in 0 .. num_clients - 1 :
            clients[k] \in ConnFds /\ clients[k] # fd
      BY <1>t, <1>p, <2>1, <3>1 DEF Entries
    <3>5. fd \notin rfds
      BY <1>t, <2>1, <3>4 DEF Snapshot
    <3>6. \A k \in 0 .. num_clients - 1 : sock'[clients[k]] = sock[clients[k]]
      BY <1>t, <3>1, <3>4 DEF TypeOK
    <3>7. \A k \in 0 .. num_clients' - 1 :
            clients'[k] \in rfds' => Readable(sock[clients[k]])'
      <4>1. SUFFICES ASSUME NEW k \in 0 .. num_clients' - 1, clients'[k] \in rfds'
                     PROVE  Readable(sock[clients[k]])'
        OBVIOUS
      <4>2. k \in 0 .. num_clients - 1
        BY <1>n, <2>1, <3>2, <3>3, <3>5, <4>1
      <4>3. Readable(sock[clients[k]])
        BY <1>t, <2>1, <3>3, <4>1, <4>2 DEF Snapshot
      <4>4. QED
        BY <2>1, <3>3, <3>6, <4>2, <4>3 DEF Readable
    <3>8. \A f \in rfds' \cap ConnFds :
            \E k \in 0 .. num_clients' - 1 : clients'[k] = f
      <4>1. SUFFICES ASSUME NEW f \in rfds \cap ConnFds
                     PROVE  \E k \in 0 .. num_clients' - 1 : clients'[k] = f
        BY <2>1
      <4>2. PICK k \in 0 .. num_clients - 1 : clients[k] = f
        BY <1>t, <2>1 DEF Snapshot
      <4>3. QED
        BY <1>n, <3>2, <3>3, <4>2
    <3>9. QED
      BY <2>1, <2>2, <3>7, <3>8 DEF Snapshot
  <2>4. CASE ~(listen_fd \in rfds /\ EnterEcu)
    <3>1. UNCHANGED <<clients, num_clients, sock>>
      BY <1>3, <2>4 DEF AcceptEcu, EnterEcu, AcceptFails
    <3>2. \A k \in 0 .. num_clients - 1 :
            Readable(sock[clients[k]]) => Readable(sock[clients[k]])'
      BY <2>1, <3>1 DEF Readable
    <3>3. InPass'
      BY <2>1 DEF InPass
    <3>4. QED
      BY <2>1, <2>2, <3>1, <3>2, <3>3, SlotsAheadKept DEF Snapshot
  <2>5. QED
    BY <2>3, <2>4
<1>4. CASE AcceptMonitor
  <2>1. /\ pc = "acceptMon" /\ pc' = "scan" /\ InPass /\ InPass'
        /\ Cursor' = Cursor
        /\ UNCHANGED <<clients, num_clients, rfds, served, peer, up>>
    BY <1>4 DEF AcceptMonitor, EnterMonitor, AcceptFails, Cursor, InPass
  <2>2. \A f \in ConnFds : sock[f] # NoConn => sock'[f] = sock[f]
    BY <1>4, <1>t DEF AcceptMonitor, EnterMonitor, AcceptFails, LowestFree, TypeOK
  <2>3. \A k \in 0 .. num_clients - 1 : sock'[clients[k]] = sock[clients[k]]
    BY <1>t, <1>p, <2>1, <2>2 DEF Entries
  <2>4. \A k \in 0 .. num_clients - 1 :
          Readable(sock[clients[k]]) => Readable(sock[clients[k]])'
    BY <2>1, <2>3 DEF Readable
  <2>5. QED
    BY <2>1, <2>4, SlotsAheadKept DEF Snapshot
<1>5. CASE ScanSkip
  <2>1. /\ pc = "scan" /\ pc' = "scan" /\ InPass /\ i' = i + 1
        /\ Cursor = i /\ Cursor' = i + 1
        /\ clients[i] \notin rfds
        /\ UNCHANGED <<clients, num_clients, rfds, served, sock, peer, up>>
    BY <1>5 DEF ScanSkip, Cursor, InPass
  <2>2. \A k \in i + 1 .. num_clients - 1 : k \in i .. num_clients - 1
    BY <1>n
  <2>3. \A k \in i .. num_clients - 1 : k = i \/ k \in i + 1 .. num_clients - 1
    BY <1>n
  <2>4. QED
    BY <1>t, <2>1, <2>2, <2>3 DEF Snapshot, Readable
<1>6. CASE RecvFrame
  <2>1. /\ pc = "scan" /\ pc' = "bcast" /\ InPass /\ i' = i /\ i < num_clients
        /\ Cursor = i /\ Cursor' = i + 1
        /\ served' = served \cup {clients[i]}
        /\ up' = [up EXCEPT ![sock[clients[i]]] = @ - 1]
        /\ UNCHANGED <<clients, num_clients, rfds, sock, peer>>
    BY <1>6 DEF RecvFrame, AtReadyClient, Cursor, InPass
  <2>2. \A k \in i + 1 .. num_clients - 1 :
          /\ k \in i .. num_clients - 1
          /\ clients[k] \in ConnFds /\ clients[i] \in ConnFds
          /\ clients[k] # clients[i]
          /\ sock[clients[k]] \in Conns
          /\ sock[clients[k]] # sock[clients[i]]
    BY <1>t, <1>n, <1>p, <2>1 DEF Entries, HeldOnce, TypeOK
  <2>3. \A k \in i + 1 .. num_clients - 1 :
          up'[sock[clients[k]]] = up[sock[clients[k]]]
    BY <1>t, <2>1, <2>2 DEF TypeOK
  <2>4. \A k \in i .. num_clients - 1 : k = i \/ k \in i + 1 .. num_clients - 1
    BY <1>n
  <2>5. \A k \in i + 1 .. num_clients - 1 :
          clients'[k] \in rfds' =>
            clients'[k] \notin served' /\ Readable(sock[clients[k]])'
    BY <1>t, <2>1, <2>2, <2>3 DEF Snapshot, Readable
  <2>6. \A f \in rfds' \cap ConnFds :
          f \in served' \/ \E k \in i + 1 .. num_clients' - 1 : clients'[k] = f
    BY <1>t, <2>1, <2>4 DEF Snapshot
  <2>7. QED
    BY <2>1, <2>5, <2>6 DEF Snapshot
<1>7. CASE RecvFails
  <2>1. /\ pc = "scan" /\ pc' = "scan" /\ InPass /\ i' = i /\ i < num_clients
        /\ Cursor = i /\ Cursor' = i
        /\ served' = served \cup {clients[i]}
        /\ num_clients' = num_clients - 1
        /\ sock' = [sock EXCEPT ![clients[i]] = NoConn]
        /\ clients' = [clients EXCEPT ![i] = clients[num_clients - 1]]
        /\ UNCHANGED <<rfds, peer, up>>
    BY <1>7 DEF RecvFails, AtReadyClient, Cursor, InPass, TableWithout,
       SlotAfterClose
  <2>2. \A k \in i .. num_clients' - 1 :
          clients'[k] = IF k = i THEN clients[num_clients - 1] ELSE clients[k]
    BY <1>t, <1>n, <2>1 DEF TypeOK, Slots
  <2>3. \A k \in i .. num_clients - 1 :
          /\ clients[k] \in ConnFds
          /\ k # i => clients[k] # clients[i] /\ sock'[clients[k]] = sock[clients[k]]
    BY <1>t, <1>n, <1>p, <2>1 DEF Entries, TypeOK
  <2>4. ASSUME NEW k \in i .. num_clients' - 1, clients'[k] \in rfds'
        PROVE  clients'[k] \notin served' /\ Readable(sock[clients[k]])'
    <3>1. PICK m \in i .. num_clients - 1 : m # i /\ clients'[k] = clients[m]
      <4>1. CASE k = i
        BY <1>n, <2>1, <2>2, <4>1
      <4>2. CASE k # i
        BY <1>n, <2>1, <2>2, <4>2
      <4>3. QED
        BY <4>1, <4>2
    <3>2. QED
      BY <1>t, <2>1, <2>3, <2>4, <3>1 DEF Snapshot, Readable
  <2>5. ASSUME NEW f \in rfds' \cap ConnFds, f \notin served'
        PROVE  \E k \in i .. num_clients' - 1 : clients'[k] = f
    <3>1. PICK m \in i .. num_clients - 1 : clients[m] = f
      BY <1>t, <2>1, <2>5 DEF Snapshot
    <3>2. m # i
      BY <2>1, <2>5, <3>1
    <3>3. CASE m = num_clients - 1
      BY <1>n, <2>1, <2>2, <3>1, <3>2, <3>3
    <3>4. CASE m # num_clients - 1
      BY <1>n, <2>1, <2>2, <3>1, <3>2, <3>4
    <3>5. QED
      BY <3>3, <3>4
  <2>6. QED
    BY <2>1, <2>4, <2>5 DEF Snapshot
<1>8. CASE SkipSender \/ SendFrame \/ ClientsDone
  <2>1. /\ pc \in {"bcast", "bcastMon"} /\ pc' \in {"bcast", "bcastMon"}
        /\ UNCHANGED <<clients, num_clients, rfds, i, served, sock, peer, up>>
    BY <1>8 DEF SkipSender, SendFrame, ClientsDone, SendTarget
  <2>2. InPass /\ InPass' /\ Cursor' = Cursor
    BY <2>1 DEF InPass, Cursor
  <2>3. QED
    BY <1>t, <2>1, <2>2, SlotsAheadKept DEF Snapshot, Readable
<1>9. CASE SendToClosed
  <2>1. /\ pc \in {"bcast", "bcastMon"} /\ pc' \in {"bcast", "bcastMon"}
        /\ UNCHANGED <<clients, num_clients, rfds, i, served, sock, up>>
    BY <1>9 DEF SendToClosed, SendTarget
  <2>2. InPass /\ InPass' /\ Cursor' = Cursor
    BY <2>1 DEF InPass, Cursor
  <2>3. PICK fd \in ConnFds, s \in {"closed", "reset"} :
          peer' = [peer EXCEPT ![sock[fd]] = s]
    BY <1>9 DEF SendToClosed
  <2>4. \A k \in 0 .. num_clients - 1 : sock[clients[k]] \in Conns
    BY <1>t, <1>p, <2>2 DEF Entries, TypeOK
  <2>5. \A k \in 0 .. num_clients - 1 :
          Readable(sock[clients[k]]) => Readable(sock[clients[k]])'
    BY <1>t, <2>1, <2>3, <2>4 DEF Readable, TypeOK
  <2>6. QED
    BY <1>t, <2>1, <2>2, <2>5, SlotsAheadKept DEF Snapshot
<1>10. CASE MonitorsDone
  <2>1. /\ pc = "bcastMon" /\ pc' = "scan" /\ i' = i + 1
        /\ UNCHANGED <<clients, num_clients, rfds, served, sock, peer, up>>
    BY <1>10 DEF MonitorsDone, SlotAfterBroadcast
  <2>2. InPass /\ InPass' /\ Cursor' = Cursor
    BY <2>1 DEF InPass, Cursor
  <2>3. QED
    BY <1>t, <2>1, <2>2, SlotsAheadKept DEF Snapshot, Readable
<1>11. ASSUME NEW d \in Conns,
              Connect(d) \/ PeerSend(d) \/ PeerRecv(d) \/ PeerClose(d)
       PROVE  Snapshot'
  <2>1. UNCHANGED <<pc, clients, num_clients, rfds, i, served, sock>>
    BY <1>11 DEF Connect, PeerSend, PeerRecv, PeerClose
  <2>2. /\ backlog # << >> => backlog' # << >>
        /\ mbacklog # << >> => mbacklog' # << >>
    <3>1. /\ Append(backlog, d) # << >>
          /\ Append(mbacklog, d) # << >>
      <4>1. backlog \in Seq(Conns) /\ mbacklog \in Seq(Conns)
        BY <1>t DEF TypeOK
      <4>2. QED
        BY <4>1, AppendProperties
    <3>2. QED
      BY <1>11, <3>1 DEF Connect, PeerSend, PeerRecv, PeerClose
  <2>3. CASE InPass
    <3>1. InPass' /\ Cursor' = Cursor
      BY <2>1, <2>3 DEF InPass, Cursor
    <3>2. \A k \in 0 .. num_clients - 1 :
            sock[clients[k]] \in Conns /\ peer[sock[clients[k]]] # "idle"
      BY <1>t, <1>p, <2>3 DEF Entries, HeldOnce, TypeOK
    <3>3. \A k \in 0 .. num_clients - 1 :
            Readable(sock[clients[k]]) => Readable(sock[clients[k]])'
      <4>1. SUFFICES ASSUME NEW k \in 0 .. num_clients - 1,
                            Readable(sock[clients[k]])
                     PROVE  Readable(sock[clients[k]])'
        OBVIOUS
      <4>2. up'[sock[clients[k]]] > 0 \/ peer'[sock[clients[k]]] # "up"
        BY <1>11, <1>t, <3>2, <4>1, ReadableKept DEF Readable
      <4>3. QED
        BY <2>1, <4>2 DEF Readable
    <3>4. QED
      BY <1>t, <2>1, <2>2, <2>3, <3>1, <3>3, SlotsAheadKept DEF Snapshot
  <2>4. CASE ~InPass
    BY <2>1, <2>4 DEF InPass, Snapshot
  <2>5. QED
    BY <2>3, <2>4
<1>12. CASE UNCHANGED vars
  BY <1>12, <1>t DEF vars, Snapshot, InPass, Cursor, Readable
<1>13. QED
  BY <1>1, <1>2, <1>3, <1>4, <1>5, <1>6, <1>7, <1>8, <1>9, <1>10, <1>11,
     <1>12 DEF Next, BusStep, PeerStep

\* The loop counters do not run past the tables.
LEMMA CountedStep == IInv /\ [Next]_vars => Counted'
<1> SUFFICES ASSUME IInv, [Next]_vars PROVE Counted'
  OBVIOUS
<1> USE BusAssumption DEF server, kernel, history
<1>t. TypeOK /\ Counted /\ Snapshot
  BY DEF IInv
<1>n. num_clients \in Nat /\ num_monitors \in Nat /\ i \in Nat /\ j \in Nat
  BY <1>t DEF TypeOK
<1>1. CASE Listen \/ SelectFails \/ ScanDone \/ SendSigpipe
  BY <1>1 DEF Listen, SelectFails, ScanDone, SendSigpipe, ProcessEnds, Counted,
     Stopped
<1>2. CASE Select
  BY <1>2, <1>n DEF Select, Counted
<1>3. CASE AcceptEcu
  <2>1. pc' = "acceptMon" /\ i' = i /\ i = 0
    BY <1>3, <1>t DEF AcceptEcu, EnterEcu, AcceptFails, Snapshot
  <2>2. num_clients' \in Nat
    BY <1>3, <1>n DEF AcceptEcu, EnterEcu, AcceptFails
  <2>3. QED
    BY <2>1, <2>2 DEF Counted
<1>4. CASE AcceptMonitor
  BY <1>4, <1>t, <1>n
     DEF AcceptMonitor, EnterMonitor, AcceptFails, Counted, Snapshot
<1>5. CASE ScanSkip
  BY <1>5, <1>n DEF ScanSkip, Counted
<1>6. CASE RecvFrame
  BY <1>6, <1>n DEF RecvFrame, Counted
<1>7. CASE RecvFails
  BY <1>7, <1>n DEF RecvFails, AtReadyClient, SlotAfterClose, Counted
<1>8. CASE SkipSender
  BY <1>8, <1>n DEF SkipSender, ClientsLeft, Counted
<1>9. CASE SendFrame \/ SendToClosed
  <2>1. /\ j' = j + 1
        /\ UNCHANGED <<pc, num_clients, num_monitors>>
        /\ \/ pc = "bcast" /\ j < num_clients
           \/ pc = "bcastMon" /\ j < num_monitors
    BY <1>9 DEF SendFrame, SendToClosed, SendTarget, ClientsLeft
  <2>2. QED
    BY <1>n, <2>1 DEF Counted
<1>10. CASE ClientsDone
  BY <1>10, <1>n DEF ClientsDone, Counted
<1>11. CASE MonitorsDone
  BY <1>11, <1>t, <1>n DEF MonitorsDone, SlotAfterBroadcast, Counted, Snapshot
<1>12. CASE PeerStep
  <2>1. UNCHANGED <<pc, num_clients, num_monitors, i, j>>
    BY <1>12 DEF PeerStep, Connect, PeerSend, PeerRecv, PeerClose
  <2>2. QED
    BY <1>t, <2>1 DEF Counted
<1>13. CASE UNCHANGED vars
  BY <1>13, <1>t DEF vars, Counted
<1>14. QED
  BY <1>1, <1>2, <1>3, <1>4, <1>5, <1>6, <1>7, <1>8, <1>9, <1>10, <1>11, <1>12,
     <1>13 DEF Next, BusStep

-----------------------------------------------------------------------------
\* Every reachable state of the bus server satisfies the invariant.
THEOREM Invariance == Spec => []IInv
<1>1. IInv /\ [Next]_vars => IInv'
  BY TypeStep, HeldOnceStep, StoppedEmptyStep, EntriesStep, SnapshotStep,
     CountedStep DEF IInv
<1>2. QED
  BY InitIInv, <1>1, PTL DEF Spec

\* Every variable of bus_server_run stays in its type: in particular no step
\* counts past the end of a table or below zero (bus.c:84-85, 94-95, 109).
THEOREM TypeCorrect == Spec => []TypeOK
<1>1. IInv => TypeOK
  BY DEF IInv
<1>2. QED
  BY Invariance, <1>1, PTL

\* However many programs come and go in one pass, the tables list exactly the
\* open descriptors, each once (bus.c:82-110).
THEOREM TablesCorrect == Spec => []TablesMatchSockets
<1>1. IInv => TablesMatchSockets
  <2>1. SUFFICES ASSUME IInv, Running PROVE TablesMatchSockets
    BY DEF TablesMatchSockets
  <2>2. Entries /\ HeldOnce /\ pc \notin Stopped
    BY <2>1 DEF IInv, Running
  <2>3. Clients \cup Monitors = {fd \in ConnFds : sock[fd] # NoConn}
    BY <2>2 DEF Entries, Clients, Monitors
  <2>4. Clients \cap Monitors = {}
    BY <2>2 DEF Entries, Clients, Monitors
  <2>5. QED
    BY <2>2, <2>3, <2>4 DEF Entries, HeldOnce, TablesMatchSockets
<1>2. QED
  BY Invariance, <1>1, PTL

\* The recv() of net_lowlevel.c:38 in the pass over the clients never blocks the bus,
\* although it trusts a snapshot older than two accepts and earlier closes.
THEOREM RecvNeverBlocks == Spec => []NoBlockingRecv
<1>1. IInv => NoBlockingRecv
  <2>1. SUFFICES ASSUME IInv, AtReadyClient PROVE Readable(sock[clients[i]])
    BY DEF NoBlockingRecv
  <2>2. Snapshot /\ InPass /\ Cursor = i /\ i \in i .. num_clients - 1
    BY <2>1, BusAssumption DEF IInv, AtReadyClient, InPass, Cursor, TypeOK
  <2>3. QED
    BY <2>1, <2>2 DEF Snapshot, AtReadyClient
<1>2. QED
  BY Invariance, <1>1, PTL

\* A pass reads every client select() reported exactly once, although a
\* departure moves the last client into the freed slot (bus.c:108-111).
THEOREM PassIsFair == Spec => []FairPass
<1>1. IInv => FairPass
  <2>1. SUFFICES ASSUME IInv PROVE FairPass
    OBVIOUS
  <2>2. Snapshot /\ i \in Nat /\ num_clients \in Nat
    BY <2>1, BusAssumption DEF IInv, TypeOK
  <2>3. ASSUME AtReadyClient PROVE clients[i] \notin served
    <3>1. InPass /\ Cursor = i /\ i \in i .. num_clients - 1
      BY <2>2, <2>3 DEF AtReadyClient, InPass, Cursor
    <3>2. QED
      BY <2>2, <2>3, <3>1 DEF Snapshot, AtReadyClient
  <2>4. ASSUME pc = "scan", i >= num_clients PROVE rfds \cap ConnFds \subseteq served
    <3>1. InPass /\ Cursor = i /\ i .. num_clients - 1 = {}
      BY <2>2, <2>4 DEF InPass, Cursor
    <3>2. QED
      BY <2>2, <3>1 DEF Snapshot
  <2>5. QED
    BY <2>3, <2>4 DEF FairPass
<1>2. QED
  BY Invariance, <1>1, PTL

-----------------------------------------------------------------------------
(* Calls that do not wait *)

LEMMA LeastNat ==
  ASSUME NEW T, T \subseteq Nat, T # {}
  PROVE  \E n \in T : \A m \in T : n <= m
<1>1. PICK n \in T : \A m \in T : ~ (<<m, n>> \in OpToRel(<, Nat))
  BY NatLessThanWellFounded, WFMin
<1>2. \A m \in T : <<m, n>> \in OpToRel(<, Nat) <=> m < n
  BY DEF OpToRel
<1>3. \A m \in T : ~ (m < n)
  BY <1>1, <1>2
<1> HIDE <1>1, <1>2
<1>4. QED
  BY <1>3

\* There are more descriptors than entries in two full tables, and a descriptor
\* that is not in a table is free.
LEMMA DescriptorLeft ==
  ASSUME IInv, pc \notin Stopped, num_clients + num_monitors < 2 * MAX_CLIENTS
  PROVE  FreeFd
<1> DEFINE m == num_clients + num_monitors
           Free == {fd \in ConnFds : sock[fd] = NoConn}
<1>1. /\ num_clients \in Nat /\ num_monitors \in Nat /\ m \in Nat
      /\ MAX_CLIENTS \in Nat /\ LastFd \in Nat /\ m + 5 < LastFd
  BY BusAssumption DEF IInv, TypeOK
<1>2. Entries
  BY DEF IInv
<1>3. Free # {}
  <2> SUFFICES ASSUME \A fd \in ConnFds : sock[fd] # NoConn PROVE FALSE
    OBVIOUS
  <2> DEFINE Holds(fd, k) ==
        \/ k \in 0 .. num_clients - 1 /\ clients[k] = fd
        \/ k - num_clients \in 0 .. num_monitors - 1 /\ monitors[k - num_clients] = fd
             /\ k >= num_clients
      entry == [fd \in ConnFds |-> CHOOSE k \in 0 .. m - 1 : Holds(fd, k)]
  <2>1. ASSUME NEW fd \in ConnFds PROVE \E k \in 0 .. m - 1 : Holds(fd, k)
    <3>1. CASE \E k \in 0 .. num_clients - 1 : clients[k] = fd
      BY <1>1, <3>1
    <3>2. CASE \E k \in 0 .. num_monitors - 1 : monitors[k] = fd
      <4>1. PICK k \in 0 .. num_monitors - 1 : monitors[k] = fd
        BY <3>2
      <4>2. /\ k + num_clients \in 0 .. m - 1 /\ k + num_clients >= num_clients
            /\ (k + num_clients) - num_clients = k
        BY <1>1
      <4>3. Holds(fd, k + num_clients)
        BY <4>1, <4>2
      <4>4. QED
        BY <4>2, <4>3
    <3>3. QED
      BY <1>2, <3>1, <3>2 DEF Entries
  <2>2. \A fd, gd \in ConnFds, k \in 0 .. m - 1 :
          Holds(fd, k) /\ Holds(gd, k) => fd = gd
    BY <1>1
  <2> HIDE DEF Holds
  <2>3. \A fd \in ConnFds : entry[fd] \in 0 .. m - 1 /\ Holds(fd, entry[fd])
    BY <2>1
  <2>4. entry \in [ConnFds -> 0 .. m - 1]
    BY <2>3
  <2>5. /\ IsFiniteSet(ConnFds) /\ Cardinality(ConnFds) = LastFd - 4
        /\ IsFiniteSet(0 .. m - 1) /\ Cardinality(0 .. m - 1) = m
    <3>1. \A a, b \in Int : /\ IsFiniteSet(a .. b)
                            /\ Cardinality(a .. b) = IF a > b THEN 0 ELSE b - a + 1
      BY FS_Interval
    <3>2. 5 \in Int /\ LastFd \in Int /\ 0 \in Int /\ m - 1 \in Int
      BY <1>1
    <3>3. /\ IsFiniteSet(5 .. LastFd)
          /\ Cardinality(5 .. LastFd) = IF 5 > LastFd THEN 0 ELSE LastFd - 5 + 1
          /\ IsFiniteSet(0 .. m - 1)
          /\ Cardinality(0 .. m - 1) = IF 0 > m - 1 THEN 0 ELSE (m - 1) - 0 + 1
      BY <3>1, <3>2
    <3> HIDE DEF m
    <3>4. QED
      BY <1>1, <3>3 DEF ConnFds
  <2> HIDE DEF entry
  <2>6. Cardinality(0 .. m - 1) < Cardinality(ConnFds)
    BY <1>1, <2>5
  <2> HIDE DEF m
  <2>7. PICK fd \in ConnFds, gd \in ConnFds : fd # gd /\ entry[fd] = entry[gd]
    BY <2>4, <2>5, <2>6, FS_PigeonHole
  <2>8. QED
    BY <2>2, <2>3, <2>7
<1>4. Free \subseteq Nat
  BY DEF ConnFds
<1> HIDE DEF Free
<1>5. PICK fd \in Free : \A gd \in Free : fd <= gd
  BY <1>3, <1>4, LeastNat
<1>6. fd \in ConnFds /\ LowestFree(fd)
  BY <1>5 DEF Free, LowestFree, ConnFds
<1>7. QED
  BY <1>6 DEF FreeFd

\* accept() is called only when a connection waits, and finds a descriptor for it
\* whenever the table has room: the pass stops at neither of its accepts.
THEOREM AcceptNeverBlocks == Spec => []NoBlockingAccept
<1>1. IInv => NoBlockingAccept
  <2> SUFFICES ASSUME IInv PROVE NoBlockingAccept
    OBVIOUS
  <2>1. Snapshot /\ num_clients \in 0 .. MAX_CLIENTS /\ num_monitors \in 0 .. MAX_CLIENTS
    BY DEF IInv, TypeOK
  <2>2. ASSUME pc \in {"accept", "acceptMon"},
               HasRoom(num_clients) \/ HasRoom(num_monitors)
        PROVE  FreeFd
    <3>1. num_clients + num_monitors < 2 * MAX_CLIENTS
      BY <2>1, <2>2, BusAssumption DEF HasRoom
    <3>2. pc \notin Stopped
      BY <2>2 DEF Stopped
    <3>3. QED
      BY <3>1, <3>2, DescriptorLeft
  <2>3. QED
    BY <2>1, <2>2 DEF NoBlockingAccept, Snapshot
<1>2. QED
  BY Invariance, <1>1, PTL

-----------------------------------------------------------------------------
(* The length of a pass *)

LEMMA OneRoundMore ==
  ASSUME NEW a \in Nat, NEW w \in Nat
  PROVE  /\ a * w \in Nat
         /\ (a + 1) * w = a * w + w
OBVIOUS

\* A step of the server in a pass brings the end of the pass nearer.
LEMMA StepsCountDown ==
  ASSUME IInv, InPass, BusStep
  PROVE  StepsLeft > 0 /\ StepsLeft' < StepsLeft
<1> USE BusAssumption DEF server, kernel, history
<1>t. TypeOK /\ Counted /\ Snapshot
  BY DEF IInv
<1>n. /\ num_clients \in Nat /\ num_monitors \in Nat /\ i \in Nat /\ j \in Nat
      /\ num_clients <= MAX_CLIENTS /\ num_monitors <= MAX_CLIENTS
      /\ MAX_CLIENTS \in Nat
  BY <1>t DEF TypeOK
<1> DEFINE R == ClientRounds
<1>r. R \in Nat /\ R = 2 * MAX_CLIENTS + 3
  BY <1>n DEF ClientRounds
<1> HIDE DEF R
<1>m. \A a \in Nat : a * R \in Nat /\ (a + 1) * R = a * R + R
  BY <1>r, OneRoundMore
<1>s. /\ pc = "accept"    => StepsLeft = (num_clients + 1) * R + 3
      /\ pc = "acceptMon" => StepsLeft = num_clients * R + 2
      /\ pc = "scan"      => StepsLeft = (num_clients - i) * R + 1
      /\ pc = "bcast"     => StepsLeft = (num_clients - i - 1) * R
                                           + (num_clients - j) + num_monitors + 3
      /\ pc = "bcastMon"  => StepsLeft = (num_clients - i - 1) * R
                                           + (num_monitors - j) + 2
      /\ ~ InPass         => StepsLeft = 0
  BY DEF StepsLeft, R, InPass
<1>u. /\ pc' = "acceptMon" => StepsLeft' = num_clients' * R + 2
      /\ pc' = "scan"      => StepsLeft' = (num_clients' - i') * R + 1
      /\ pc' = "bcast"     => StepsLeft' = (num_clients' - i' - 1) * R
                                             + (num_clients' - j') + num_monitors' + 3
      /\ pc' = "bcastMon"  => StepsLeft' = (num_clients' - i' - 1) * R
                                             + (num_monitors' - j') + 2
      /\ ~ InPass'         => StepsLeft' = 0
  BY DEF StepsLeft, R, InPass, ClientRounds
<1>p. StepsLeft \in Nat /\ StepsLeft > 0
  <2>1. CASE pc = "accept"
    BY <1>m, <1>n, <1>s, <2>1
  <2>2. CASE pc = "acceptMon"
    BY <1>m, <1>n, <1>s, <2>2
  <2>3. CASE pc = "scan"
    <3>1. num_clients - i \in Nat
      BY <1>n, <1>t, <2>3 DEF Counted
    <3>2. (num_clients - i) * R \in Nat
      BY <1>m, <3>1
    <3>3. QED
      BY <1>s, <2>3, <3>2
  <2>4. CASE pc \in {"bcast", "bcastMon"}
    <3>1. /\ num_clients - i - 1 \in Nat
          /\ pc = "bcast" => num_clients - j \in Nat
          /\ pc = "bcastMon" => num_monitors - j \in Nat
      BY <1>n, <1>t, <2>4 DEF Counted, Snapshot
    <3>2. (num_clients - i - 1) * R \in Nat
      BY <1>m, <3>1
    <3>3. QED
      BY <1>n, <1>s, <2>4, <3>1, <3>2
  <2>5. QED
    BY <2>1, <2>2, <2>3, <2>4 DEF InPass
<1> SUFFICES StepsLeft' < StepsLeft
  BY <1>p
<1>1. CASE ~ InPass'
  BY <1>1, <1>p, <1>u
<1>2. CASE AcceptEcu
  <2>1. /\ pc = "accept" /\ pc' = "acceptMon"
        /\ num_clients' = num_clients \/ num_clients' = num_clients + 1
    BY <1>2 DEF AcceptEcu, EnterEcu, AcceptFails
  <2>2. StepsLeft = (num_clients + 1) * R + 3 /\ StepsLeft' = num_clients' * R + 2
    BY <1>s, <1>u, <2>1
  <2>3. (num_clients + 1) * R = num_clients * R + R /\ num_clients * R \in Nat
    BY <1>m, <1>n
  <2>4. QED
    BY <1>r, <2>1, <2>2, <2>3
<1>3. CASE AcceptMonitor
  <2>1. /\ pc = "acceptMon" /\ pc' = "scan" /\ i = 0 /\ i' = 0
        /\ num_clients' = num_clients
    BY <1>3, <1>t DEF AcceptMonitor, EnterMonitor, AcceptFails, Snapshot
  <2>2. num_clients - 0 = num_clients /\ num_clients * R \in Nat
    BY <1>m, <1>n
  <2>3. QED
    BY <1>s, <1>u, <2>1, <2>2
<1>4. ASSUME pc = "scan", i < num_clients
      PROVE  /\ num_clients - i - 1 \in Nat
             /\ (num_clients - i - 1) * R \in Nat
             /\ StepsLeft = (num_clients - i - 1) * R + R + 1
  <2>1. /\ num_clients - i - 1 \in Nat
        /\ (num_clients - i - 1) + 1 = num_clients - i
    BY <1>n, <1>4
  <2>2. /\ (num_clients - i - 1) * R \in Nat
        /\ ((num_clients - i - 1) + 1) * R = (num_clients - i - 1) * R + R
    BY <1>m, <2>1
  <2>3. QED
    BY <1>s, <1>4, <2>1, <2>2
<1>5. CASE ScanSkip \/ RecvFails
  <2>1. /\ pc = "scan" /\ pc' = "scan" /\ i < num_clients
        /\ \/ num_clients' = num_clients /\ i' = i + 1
           \/ num_clients' = num_clients - 1 /\ i' = i
    BY <1>5 DEF ScanSkip, RecvFails, AtReadyClient, SlotAfterClose
  <2>2. num_clients' - i' = num_clients - i - 1
    BY <1>n, <2>1
  <2>3. StepsLeft' = (num_clients - i - 1) * R + 1
    BY <1>u, <2>1, <2>2
  <2>4. QED
    BY <1>4, <1>r, <2>1, <2>3
<1>6. CASE RecvFrame
  <2>1. /\ pc = "scan" /\ pc' = "bcast" /\ i < num_clients /\ j' = 0
        /\ UNCHANGED <<num_clients, num_monitors, i>>
    BY <1>6 DEF RecvFrame, AtReadyClient
  <2>2. StepsLeft' = (num_clients - i - 1) * R + (num_clients - 0) + num_monitors + 3
    BY <1>u, <2>1
  <2>3. QED
    BY <1>4, <1>n, <1>r, <2>1, <2>2
<1>7. ASSUME pc \in {"bcast", "bcastMon"}
      PROVE  (num_clients - i - 1) * R \in Nat /\ num_clients - i - 1 \in Nat
  <2>1. num_clients - i - 1 \in Nat
    BY <1>n, <1>t, <1>7 DEF Snapshot
  <2>2. QED
    BY <1>m, <2>1
<1>8. CASE SkipSender \/ SendFrame \/ SendToClosed
  <2>1. /\ j' = j + 1 /\ pc \in {"bcast", "bcastMon"}
        /\ UNCHANGED <<pc, num_clients, num_monitors, i>>
    BY <1>8 DEF SkipSender, SendFrame, SendToClosed, SendTarget
  <2> DEFINE A == (num_clients - i - 1) * R
  <2>2. A \in Nat
    BY <1>7, <2>1
  <2>3. /\ pc = "bcast" => StepsLeft = A + (num_clients - j) + num_monitors + 3
        /\ pc = "bcastMon" => StepsLeft = A + (num_monitors - j) + 2
        /\ pc = "bcast" => StepsLeft' = A + (num_clients - (j + 1)) + num_monitors + 3
        /\ pc = "bcastMon" => StepsLeft' = A + (num_monitors - (j + 1)) + 2
    BY <1>s, <1>u, <2>1
  <2> HIDE DEF A
  <2>4. QED
    BY <1>n, <2>1, <2>2, <2>3
<1>9. CASE ClientsDone
  <2>1. /\ pc = "bcast" /\ pc' = "bcastMon" /\ j' = 0 /\ j >= num_clients
        /\ UNCHANGED <<num_clients, num_monitors, i>>
    BY <1>9, <1>n DEF ClientsDone, ClientsLeft
  <2>2. j = num_clients
    BY <1>n, <1>t, <2>1 DEF Counted
  <2> DEFINE A == (num_clients - i - 1) * R
  <2>3. A \in Nat
    BY <1>7, <2>1
  <2>4. /\ StepsLeft = A + (num_clients - j) + num_monitors + 3
        /\ StepsLeft' = A + (num_monitors - 0) + 2
    BY <1>s, <1>u, <2>1
  <2> HIDE DEF A
  <2>5. QED
    BY <1>n, <2>2, <2>3, <2>4
<1>10. CASE MonitorsDone
  <2>1. /\ pc = "bcastMon" /\ pc' = "scan" /\ j >= num_monitors /\ i' = i + 1
        /\ UNCHANGED num_clients
    BY <1>10 DEF MonitorsDone, SlotAfterBroadcast
  <2>2. j = num_monitors
    BY <1>n, <1>t, <2>1 DEF Counted
  <2>3. num_clients' - i' = num_clients - i - 1
    BY <1>n, <2>1
  <2> DEFINE A == (num_clients - i - 1) * R
  <2>4. A \in Nat
    BY <1>7, <2>1
  <2>5. /\ StepsLeft = A + (num_monitors - j) + 2
        /\ StepsLeft' = A + 1
    BY <1>s, <1>u, <2>1, <2>3
  <2> HIDE DEF A
  <2>6. QED
    BY <1>n, <2>2, <2>4, <2>5
<1>11. CASE Listen \/ Select \/ SelectFails \/ ScanDone \/ SendSigpipe
  <2>1. ~ InPass \/ ~ InPass'
    BY <1>11 DEF Listen, Select, SelectFails, ScanDone, SendSigpipe, ProcessEnds,
       InPass
  <2>2. QED
    BY <1>1, <2>1
<1>12. QED
  BY <1>2, <1>3, <1>5, <1>6, <1>8, <1>9, <1>10, <1>11 DEF BusStep

\* A pass takes at most (MAX_CLIENTS + 1) * (2 * MAX_CLIENTS + 3) + 3 steps of the
\* server, and a broadcast that is not held up in a send() ends, whatever the
\* programs at the other end do meanwhile (bus.c:82-126).
THEOREM PassEnds == Spec => PassIsBounded
<1> DEFINE Nearer ==
      InPass => IF BusStep THEN StepsLeft > 0 /\ StepsLeft' < StepsLeft
                           ELSE StepsLeft' = StepsLeft
<1>1. IInv /\ [Next]_vars => [Nearer]_vars
  <2>1. ASSUME PeerStep PROVE StepsLeft' = StepsLeft
    <3>1. UNCHANGED <<pc, num_clients, num_monitors, i, j>>
      BY <2>1 DEF PeerStep, Connect, PeerSend, PeerRecv, PeerClose, server
    <3>2. QED
      BY <3>1 DEF StepsLeft
  <2>2. QED
    BY <2>1, StepsCountDown DEF Next
<1>2. QED
  BY Invariance, <1>1, PTL DEF Spec, PassIsBounded

-----------------------------------------------------------------------------
(* Where a pass can be held up *)

\* The conditions under which the call or the round that is next in a pass does
\* not wait: the guards of the actions of BusStep, one disjunct for each.
GoesOn ==
  \/ pc = "accept" /\ (listen_fd \in rfds =>
       backlog # << >> /\ (HasRoom(num_clients) => FreeFd))
  \/ pc = "acceptMon" /\ (monitor_fd \in rfds =>
       mbacklog # << >> /\ (HasRoom(num_monitors) => FreeFd))
  \/ pc = "scan" /\ (i >= num_clients \/ clients[i] \notin rfds)
  \/ AtReadyClient /\ Readable(sock[clients[i]])
  \/ pc = "bcast" /\ (~ ClientsLeft \/ AtSender)
  \/ pc = "bcastMon" /\ j >= num_monitors
  \/ \E fd \in ConnFds :
       /\ SendTarget(fd)
       /\ \/ peer[sock[fd]] \in {"closed", "reset"}
          \/ peer[sock[fd]] = "up" /\ down[sock[fd]] < DownCap

\* send() to a program that runs and whose buffers are full.
SendWaits ==
  \E fd \in ConnFds :
    /\ SendTarget(fd)
    /\ peer[sock[fd]] = "up"
    /\ down[sock[fd]] >= DownCap

\* A pass is never held up but in a send() to a running program that does not
\* read: with PassEnds, the part of "a broadcast ends" that needs no fairness
\* (bus.c:82-126).
THEOREM OnlySendWaits == Spec => [](InPass => GoesOn \/ SendWaits)
<1>1. IInv /\ NoBlockingAccept /\ NoBlockingRecv => (InPass => GoesOn \/ SendWaits)
  <2> SUFFICES ASSUME IInv, NoBlockingAccept, NoBlockingRecv, InPass
               PROVE  GoesOn \/ SendWaits
    OBVIOUS
  <2>t. TypeOK /\ HeldOnce /\ Entries /\ pc \notin Stopped
    BY DEF IInv, InPass, Stopped
  <2>n. num_clients \in Nat /\ num_monitors \in Nat /\ i \in Nat /\ j \in Nat
    BY <2>t, BusAssumption DEF TypeOK
  <2>1. CASE pc \in {"accept", "acceptMon"}
    BY <2>1 DEF NoBlockingAccept, GoesOn
  <2>2. CASE pc = "scan"
    <3>1. CASE i >= num_clients \/ clients[i] \notin rfds
      BY <2>2, <3>1 DEF GoesOn
    <3>2. CASE i < num_clients /\ clients[i] \in rfds
      BY <2>2, <3>2 DEF GoesOn, NoBlockingRecv, AtReadyClient
    <3>3. QED
      BY <2>n, <3>1, <3>2
  <2>3. ASSUME NEW fd \in ConnFds, SendTarget(fd) PROVE GoesOn \/ SendWaits
    <3>1. sock[fd] \in Conns /\ sock[fd] # NoConn
      BY <2>3, TargetOpen, BusAssumption
    <3>2. peer[sock[fd]] \in {"up", "closed", "reset"}
      BY <2>t, <3>1 DEF HeldOnce, TypeOK
    <3>3. down[sock[fd]] \in Nat /\ DownCap \in Nat
      BY <2>t, <3>1, BusAssumption DEF TypeOK
    <3>4. CASE peer[sock[fd]] = "up" /\ down[sock[fd]] >= DownCap
      BY <2>3, <3>4 DEF SendWaits
    <3>5. CASE ~ (peer[sock[fd]] = "up" /\ down[sock[fd]] >= DownCap)
      <4>1. \/ peer[sock[fd]] \in {"closed", "reset"}
            \/ peer[sock[fd]] = "up" /\ down[sock[fd]] < DownCap
        BY <3>2, <3>3, <3>5
      <4>2. QED
        BY <2>3, <4>1 DEF GoesOn
    <3>6. QED
      BY <3>4, <3>5
  <2>4. CASE pc = "bcast"
    <3>1. CASE ~ ClientsLeft \/ AtSender
      BY <2>4, <3>1 DEF GoesOn
    <3>2. CASE ClientsLeft /\ ~ AtSender
      <4>1. clients[j] \in ConnFds
        BY <2>t, <2>n, <3>2 DEF ClientsLeft, Entries
      <4>2. SendTarget(clients[j])
        BY <2>4, <3>2 DEF SendTarget
      <4>3. QED
        BY <2>3, <4>1, <4>2
    <3>3. QED
      BY <3>1, <3>2
  <2>5. CASE pc = "bcastMon"
    <3>1. CASE j >= num_monitors
      BY <2>5, <3>1 DEF GoesOn
    <3>2. CASE j < num_monitors
      <4>1. monitors[j] \in ConnFds
        BY <2>t, <2>n, <3>2 DEF Entries
      <4>2. SendTarget(monitors[j])
        BY <2>5, <3>2 DEF SendTarget
      <4>3. QED
        BY <2>3, <4>1, <4>2
    <3>3. QED
      BY <2>n, <3>1, <3>2
  <2>6. QED
    BY <2>1, <2>2, <2>4, <2>5 DEF InPass
<1>2. QED
  BY Invariance, AcceptNeverBlocks, RecvNeverBlocks, <1>1, PTL
=============================================================================

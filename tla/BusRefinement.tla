---------------------------- MODULE BusRefinement ----------------------------
(***************************************************************************)
(* bus_server_run implements the broadcast medium of CanMedium: every call *)
(* it makes, and every step of the programs at the other end, is a step of *)
(* the medium or leaves the medium as it is.  What the medium promises     *)
(* therefore holds of the loop, for any number of connections, any size of *)
(* the tables and of the buffers and any fault of the kernel.              *)
(***************************************************************************)
EXTENDS BusServerProofs

\* The refinement mapping of BusServer!Medium, and the medium with its theorem.
ecus == IF Running THEN ConnsOf(Clients) ELSE {}
taps == IF Running THEN ConnsOf(Monitors) ELSE {}
owed == IF Running THEN ConnsOf(OwedFds) ELSE {}

Abs == INSTANCE CanMediumProofs

\* A connection that is still to be accepted has been handed nothing.
Fresh ==
  \A c \in Conns :
    \/ peer[c] = "idle"
    \/ \E m \in 1 .. Len(backlog) : backlog[m] = c
    \/ \E m \in 1 .. Len(mbacklog) : mbacklog[m] = c
    => got[c] = {}

LEMMA InitFresh == Init => Fresh
BY DEF Init, Fresh

-----------------------------------------------------------------------------
(* Sets of descriptors and the connections open on them *)

Open == {f \in ConnFds : sock[f] # NoConn}

LEMMA TablesOpen ==
  ASSUME IInv, pc \notin Stopped
  PROVE  /\ Clients \subseteq Open /\ Monitors \subseteq Open
         /\ Clients \cap Monitors = {}
         /\ num_clients \in 0 .. MAX_CLIENTS /\ num_monitors \in 0 .. MAX_CLIENTS
<1>1. Entries /\ TypeOK
  BY DEF IInv
<1> QED
  BY SMTT(60), <1>1 DEF Entries, Clients, Monitors, Open, TypeOK

\* Open descriptors and their connections are one to one.
LEMMA ConnsMinus ==
  ASSUME IInv, NEW S \in SUBSET Open, NEW fd \in S
  PROVE  ConnsOf(S \ {fd}) = ConnsOf(S) \ {sock[fd]}
<1>1. \A f, g \in Open : sock[f] = sock[g] => f = g
  BY DEF IInv, HeldOnce, Open
<1> QED
  BY <1>1 DEF ConnsOf

\* Nobody is owed a frame outside the broadcast loops.
LEMMA NobodyOwed ==
  ASSUME pc \notin {"bcast", "bcastMon"} PROVE OwedFds = {} /\ owed = {}
BY DEF OwedFds, owed, ConnsOf

\* A step that leaves the tables, the sockets and the broadcast where they are.
LEMMA Unmoved ==
  ASSUME UNCHANGED <<clients, num_clients, monitors, num_monitors, sock>>,
         Running' = Running, OwedFds' = OwedFds
  PROVE  ecus' = ecus /\ taps' = taps /\ owed' = owed
<1>1. Clients' = Clients /\ Monitors' = Monitors
  BY DEF Clients, Monitors
<1>2. ConnsOf(Clients)' = ConnsOf(Clients) /\ ConnsOf(Monitors)' = ConnsOf(Monitors)
      /\ ConnsOf(OwedFds)' = ConnsOf(OwedFds)
  BY <1>1 DEF ConnsOf
<1> QED
  BY <1>2 DEF ecus, taps, owed

LEMMA Stutters ==
  ASSUME UNCHANGED <<clients, num_clients, monitors, num_monitors, sock>>,
         Running' = Running, OwedFds' = OwedFds, UNCHANGED <<log, since, got>>
  PROVE  UNCHANGED Abs!vars
BY Unmoved DEF Abs!vars

-----------------------------------------------------------------------------
(* The steps *)

\* accept(): a new connection joins, or is turned away.
LEMMA AcceptJoins ==
  ASSUME IInv, Fresh, AcceptEcu \/ AcceptMonitor
  PROVE  [Abs!Next]_Abs!vars
<1> USE BusAssumption
<1>1. Running /\ Running' /\ pc \notin Stopped
  BY
     DEF AcceptEcu, EnterEcu, AcceptFails, AcceptMonitor, EnterMonitor, Running, Stopped
<1>2. owed = {} /\ OwedFds = {}
  BY NobodyOwed DEF AcceptEcu, EnterEcu, AcceptFails, AcceptMonitor, EnterMonitor
<1>3. owed' = {} /\ OwedFds' = {}
  <2>1. pc' \in {"acceptMon", "scan"}
    BY DEF AcceptEcu, EnterEcu, AcceptFails, AcceptMonitor, EnterMonitor
  <2> QED
    BY <2>1 DEF OwedFds, owed, ConnsOf
<1>4. /\ Clients \subseteq Open /\ Monitors \subseteq Open
      /\ num_clients \in 0 .. MAX_CLIENTS /\ num_monitors \in 0 .. MAX_CLIENTS
  BY <1>1, TablesOpen
<1>5. TypeOK /\ HeldOnce /\ Snapshot
  BY DEF IInv
<1>6. CASE UNCHANGED <<clients, num_clients, monitors, num_monitors, sock, since>>
  <2>1. UNCHANGED <<log, got>>
    BY DEF AcceptEcu, EnterEcu, AcceptFails, AcceptMonitor, EnterMonitor
  <2> QED
    BY <1>1, <1>2, <1>3, <1>6, <2>1, Stutters
<1>7. ASSUME NEW c \in Conns, NEW fd \in ConnFds, sock[fd] = NoConn,
             sock' = [sock EXCEPT ![fd] = c],
             \A f \in ConnFds : sock[f] # c,
             got[c] = {},
             since' = [since EXCEPT ![c] = Len(log)],
             UNCHANGED <<log, got>>,
             \/ Clients' = Clients \cup {fd} /\ Monitors' = Monitors
             \/ Clients' = Clients /\ Monitors' = Monitors \cup {fd}
      PROVE  Abs!Join(c)
  <2>1. /\ \A f \in Open : sock'[f] = sock[f]
        /\ sock'[fd] = c
    BY <1>5, <1>7 DEF TypeOK, Open
  <2>2. ASSUME NEW S \in SUBSET Open
        PROVE  /\ {sock'[f] : f \in S} = ConnsOf(S)
               /\ {sock'[f] : f \in S \cup {fd}} = ConnsOf(S) \cup {c}
    BY <2>1 DEF ConnsOf
  <2>3. \/ ecus' = ecus \cup {c} /\ taps' = taps
        \/ ecus' = ecus /\ taps' = taps \cup {c}
    BY <1>1, <1>4, <1>7, <2>2 DEF ecus, taps, ConnsOf
  <2>4. c \notin ecus \cup taps
    BY <1>1, <1>4, <1>7 DEF ecus, taps, ConnsOf, Open
  <2> QED
    BY <1>2, <1>3, <1>7, <2>3, <2>4 DEF Abs!Join, Abs!Members
<1>8. CASE AcceptEcu /\ listen_fd \in rfds /\ EnterEcu
  <2> DEFINE c == Head(backlog)
  <2>1. backlog # << >> /\ 1 \in 1 .. Len(backlog) /\ c = backlog[1] /\ c \in Conns
    BY <1>5, <1>8, HeadTailProperties
       DEF AcceptEcu, EnterEcu, AcceptFails, Snapshot, TypeOK
  <2>2. PICK fd \in ConnFds : /\ LowestFree(fd)
                              /\ sock' = [sock EXCEPT ![fd] = c]
                              /\ clients' = [clients EXCEPT ![num_clients] = fd]
    BY <1>8 DEF AcceptEcu, EnterEcu, AcceptFails
  <2> HIDE DEF c
  <2>3. /\ num_clients' = num_clients + 1
        /\ UNCHANGED <<monitors, num_monitors, log, got>>
        /\ since' = [since EXCEPT ![c] = Len(log)]
    BY <1>8 DEF AcceptEcu, EnterEcu, AcceptFails, c
  <2>4. num_clients \in Slots
    BY <1>4, <1>8 DEF EnterEcu, HasRoom, Slots
  <2>5. Clients' = Clients \cup {fd} /\ Monitors' = Monitors
    <3>1. \A k \in 0 .. num_clients - 1 : clients'[k] = clients[k] /\ k # num_clients
      BY <1>4, <1>5, <2>2, <2>4 DEF TypeOK, Slots
    <3>2. clients'[num_clients] = fd
      BY <1>5, <2>2, <2>4 DEF TypeOK
    <3>3. 0 .. num_clients' - 1 = 0 .. num_clients - 1 \cup {num_clients}
      BY <1>4, <2>3
    <3>4. Clients' = {clients'[k] : k \in 0 .. num_clients' - 1}
      BY DEF Clients
    <3>5. Clients' = Clients \cup {fd}
      BY <3>1, <3>2, <3>3, <3>4 DEF Clients
    <3> QED
      BY <2>3, <3>5 DEF Monitors
  <2>6. (\A f \in ConnFds : sock[f] # c) /\ got[c] = {}
    BY <1>5, <2>1 DEF HeldOnce, Fresh
  <2>7. sock[fd] = NoConn
    BY <2>2 DEF LowestFree
  <2>8. Abs!Join(c)
    BY <1>7, <2>1, <2>2, <2>3, <2>5, <2>6, <2>7
  <2> QED
    BY <2>1, <2>8 DEF Abs!Next
<1>9. CASE AcceptMonitor /\ monitor_fd \in rfds /\ EnterMonitor
  <2> DEFINE c == Head(mbacklog)
  <2>1. mbacklog # << >> /\ 1 \in 1 .. Len(mbacklog) /\ c = mbacklog[1] /\ c \in Conns
    BY <1>5, <1>9, HeadTailProperties
       DEF AcceptMonitor, EnterMonitor, AcceptFails, Snapshot, TypeOK
  <2>2. PICK fd \in ConnFds : /\ LowestFree(fd)
                              /\ sock' = [sock EXCEPT ![fd] = c]
                              /\ monitors' = [monitors EXCEPT ![num_monitors] = fd]
    BY <1>9 DEF AcceptMonitor, EnterMonitor, AcceptFails
  <2> HIDE DEF c
  <2>3. /\ num_monitors' = num_monitors + 1
        /\ UNCHANGED <<clients, num_clients, log, got>>
        /\ since' = [since EXCEPT ![c] = Len(log)]
    BY <1>9 DEF AcceptMonitor, EnterMonitor, AcceptFails, c
  <2>4. num_monitors \in Slots
    BY <1>4, <1>9 DEF EnterMonitor, HasRoom, Slots
  <2>5. Clients' = Clients /\ Monitors' = Monitors \cup {fd}
    <3>1. \A k \in 0 .. num_monitors - 1 : monitors'[k] = monitors[k] /\ k # num_monitors
      BY <1>4, <1>5, <2>2, <2>4 DEF TypeOK, Slots
    <3>2. monitors'[num_monitors] = fd
      BY <1>5, <2>2, <2>4 DEF TypeOK
    <3>3. 0 .. num_monitors' - 1 = 0 .. num_monitors - 1 \cup {num_monitors}
      BY <1>4, <2>3
    <3>4. Monitors' = {monitors'[k] : k \in 0 .. num_monitors' - 1}
      BY DEF Monitors
    <3>5. Monitors' = Monitors \cup {fd}
      BY <3>1, <3>2, <3>3, <3>4 DEF Monitors
    <3> QED
      BY <2>3, <3>5 DEF Clients
  <2>6. (\A f \in ConnFds : sock[f] # c) /\ got[c] = {}
    BY <1>5, <2>1 DEF HeldOnce, Fresh
  <2>7. sock[fd] = NoConn
    BY <2>2 DEF LowestFree
  <2>8. Abs!Join(c)
    BY <1>7, <2>1, <2>2, <2>3, <2>5, <2>6, <2>7
  <2> QED
    BY <2>1, <2>8 DEF Abs!Next
<1> QED
  BY <1>6, <1>8, <1>9
     DEF AcceptEcu, EnterEcu, AcceptFails, AcceptMonitor, EnterMonitor

\* net_recv_frame: a frame goes onto the medium.
LEMMA RecvTransmits ==
  ASSUME IInv, RecvFrame
  PROVE  [Abs!Next]_Abs!vars
<1> USE BusAssumption
<1> DEFINE fd == clients[i]
           c == sock[fd]
<1>1. Running /\ Running' /\ pc \notin Stopped /\ pc' = "bcast" /\ j' = 0
  BY DEF RecvFrame, AtReadyClient, Running, Stopped
<1>2. owed = {}
  BY NobodyOwed DEF RecvFrame, AtReadyClient
<1>3. /\ Clients \subseteq Open /\ Monitors \subseteq Open
      /\ Clients \cap Monitors = {}
      /\ num_clients \in 0 .. MAX_CLIENTS /\ num_monitors \in 0 .. MAX_CLIENTS
  BY <1>1, TablesOpen
<1>4. i \in 0 .. num_clients - 1 /\ fd \in Clients
  <2>1. i \in 0 .. num_clients - 1
    BY <1>3 DEF RecvFrame, AtReadyClient, IInv, TypeOK
  <2>2. QED
    BY <2>1 DEF Clients
<1>5. c \in Conns /\ c \in ConnsOf(Clients)
  <2>1. fd \in ConnFds /\ c # NoConn
    BY <1>3, <1>4 DEF Open
  <2>2. c \in Conns
    BY <2>1 DEF IInv, TypeOK
  <2>3. QED
    BY <1>4, <2>2 DEF ConnsOf
<1>6. /\ UNCHANGED <<clients, num_clients, monitors, num_monitors, sock, i, since, got>>
      /\ log' = Append(log, c)
  BY DEF RecvFrame
<1>7. ecus' = ecus /\ taps' = taps
  BY <1>1, <1>6 DEF ecus, taps, Clients, Monitors, ConnsOf
<1>8. OwedFds' = (Clients \cup Monitors) \ {fd}
  <2>1. OwedFds' = {clients[k] : k \in {m \in 0 .. num_clients - 1 : clients[m] # fd}}
                     \cup Monitors
    BY <1>1, <1>6 DEF OwedFds, Monitors
  <2>2. fd \notin Monitors
    BY <1>3, <1>4
  <2> HIDE DEF fd
  <2> QED
    BY <2>1, <2>2 DEF Clients
<1>9. owed' = (ecus \cup taps) \ {c}
  <2>1. ConnsOf((Clients \cup Monitors) \ {fd}) = ConnsOf(Clients \cup Monitors) \ {c}
    BY <1>3, <1>4, ConnsMinus
  <2>2. ConnsOf(Clients \cup Monitors) = ecus \cup taps
    BY <1>1 DEF ConnsOf, ecus, taps
  <2>3. owed' = ConnsOf(OwedFds)'
    BY <1>1 DEF owed
  <2>4. ConnsOf(OwedFds)' = ConnsOf((Clients \cup Monitors) \ {fd})
    BY <1>6, <1>8 DEF ConnsOf
  <2> QED
    BY <2>1, <2>2, <2>3, <2>4
<1>10. Abs!Transmit(c)
  BY <1>1, <1>2, <1>5, <1>6, <1>7, <1>9 DEF Abs!Transmit, Abs!Members, ecus
<1> QED
  BY <1>5, <1>10 DEF Abs!Next

\* net_recv_frame fails: the client leaves, the last one takes its slot.
LEMMA RecvLeaves ==
  ASSUME IInv, RecvFails
  PROVE  [Abs!Next]_Abs!vars
<1> USE BusAssumption
<1> DEFINE fd == clients[i]
           c == sock[fd]
           n == num_clients
<1>1. Running /\ Running' /\ pc \notin Stopped /\ pc' = pc /\ pc = "scan"
  BY DEF RecvFails, AtReadyClient, Running, Stopped
<1>2. owed = {} /\ owed' = {}
  <2>1. pc' \notin {"bcast", "bcastMon"}
    BY <1>1
  <2> QED
    BY <1>1, <2>1, NobodyOwed DEF OwedFds, owed, ConnsOf
<1>3. /\ Clients \subseteq Open /\ Monitors \subseteq Open
      /\ Clients \cap Monitors = {}
      /\ n \in 0 .. MAX_CLIENTS /\ num_monitors \in 0 .. MAX_CLIENTS
  BY <1>1, TablesOpen
<1>4. i \in 0 .. n - 1 /\ fd \in Clients
  <2>1. i \in 0 .. n - 1
    BY <1>3 DEF RecvFails, AtReadyClient, IInv, TypeOK
  <2>2. QED
    BY <2>1 DEF Clients
<1>5. c \in Conns /\ c \in ConnsOf(Clients)
  <2>1. fd \in ConnFds /\ c # NoConn
    BY <1>3, <1>4 DEF Open
  <2>2. c \in Conns
    BY <2>1 DEF IInv, TypeOK
  <2>3. QED
    BY <1>4, <2>2 DEF ConnsOf
<1>6. /\ UNCHANGED <<monitors, num_monitors, log, since, got>>
      /\ sock' = [sock EXCEPT ![fd] = NoConn]
      /\ clients' = [clients EXCEPT ![i] = clients[n - 1]]
      /\ num_clients' = n - 1
  BY DEF RecvFails, TableWithout
<1>7. Clients' = Clients \ {fd}
  <2>1. \A k, m \in 0 .. n - 1 : clients[k] = clients[m] => k = m
    BY <1>1 DEF IInv, Entries
  <2>2. /\ \A k \in 0 .. n - 2 : clients'[k] = IF k = i THEN clients[n - 1] ELSE clients[k]
        /\ \A k \in 0 .. n - 2 : k \in 0 .. n - 1
        /\ n - 1 \in 0 .. n - 1
    BY <1>3, <1>4, <1>6 DEF IInv, TypeOK, Slots
  <2>3. Clients' = {clients'[k] : k \in 0 .. n - 2}
    BY <1>3, <1>6 DEF Clients
  <2>4. ASSUME NEW f \in Clients' PROVE f \in Clients \ {fd}
    <3>1. PICK k \in 0 .. n - 2 : f = clients'[k]
      BY <2>3
    <3>2. CASE k = i
      BY <1>3, <1>4, <2>1, <2>2, <3>1, <3>2 DEF Clients
    <3>3. CASE k # i
      BY <1>4, <2>1, <2>2, <3>1, <3>3 DEF Clients
    <3> QED
      BY <3>2, <3>3
  <2>5. ASSUME NEW f \in Clients \ {fd} PROVE f \in Clients'
    <3>1. PICK k \in 0 .. n - 1 : f = clients[k]
      BY DEF Clients
    <3>2. k # i
      BY <2>5, <3>1
    <3>3. CASE k = n - 1
      <4>1. i \in 0 .. n - 2
        BY <1>3, <1>4, <3>2, <3>3
      <4>2. clients'[i] = f
        BY <2>2, <3>1, <3>3, <4>1
      <4> QED
        BY <2>3, <4>1, <4>2
    <3>4. CASE k # n - 1
      <4>1. k \in 0 .. n - 2
        BY <1>3, <3>4
      <4>2. clients'[k] = f
        BY <2>2, <3>1, <3>2, <4>1
      <4> QED
        BY <2>3, <4>1, <4>2
    <3> QED
      BY <3>3, <3>4
  <2> QED
    BY <2>4, <2>5
<1>8. \A f \in ConnFds \ {fd} : sock'[f] = sock[f]
  BY <1>6 DEF IInv, TypeOK
<1>9. ecus' = ecus \ {c}
  <2>1. ecus' = {sock'[f] : f \in Clients \ {fd}}
    BY <1>1, <1>7 DEF ecus, ConnsOf
  <2>2. {sock'[f] : f \in Clients \ {fd}} = ConnsOf(Clients \ {fd})
    BY <1>3, <1>8 DEF ConnsOf, Open
  <2>3. ConnsOf(Clients \ {fd}) = ConnsOf(Clients) \ {c}
    BY <1>3, <1>4, ConnsMinus
  <2> QED
    BY <1>1, <2>1, <2>2, <2>3 DEF ecus
<1>10. taps' = taps
  <2>1. Monitors' = Monitors /\ \A f \in Monitors : sock'[f] = sock[f]
    BY <1>3, <1>4, <1>6, <1>8 DEF Monitors, Open
  <2> QED
    BY <1>1, <2>1 DEF taps, ConnsOf
<1>11. Abs!Leave(c)
  BY <1>1, <1>2, <1>5, <1>6, <1>9, <1>10 DEF Abs!Leave, ecus
<1> QED
  BY <1>5, <1>11 DEF Abs!Next

\* net_send_frame: one member is handed the frame.
LEMMA SendHands ==
  ASSUME IInv, SendFrame \/ SendToClosed
  PROVE  [Abs!Next]_Abs!vars
<1> USE BusAssumption
<1>1. PICK fd \in ConnFds :
        /\ SendTarget(fd)
        /\ got' = [got EXCEPT ![sock[fd]] = @ \cup {Len(log)}]
        /\ j' = j + 1
        /\ UNCHANGED <<pc, clients, num_clients, monitors, num_monitors, i, sock, log,
                       since>>
  BY DEF SendFrame, SendToClosed
<1> DEFINE c == sock[fd]
<1>2. c \in Conns
  BY <1>1, TargetOpen
<1>3. Running /\ Running' /\ pc \notin Stopped /\ pc' = pc
  BY <1>1 DEF SendTarget, Running, Stopped
<1>4. /\ Clients \subseteq Open /\ Monitors \subseteq Open
      /\ Clients \cap Monitors = {}
      /\ num_clients \in 0 .. MAX_CLIENTS /\ num_monitors \in 0 .. MAX_CLIENTS
      /\ j \in 0 .. MAX_CLIENTS
  BY <1>3, TablesOpen DEF IInv, TypeOK
<1>5. ecus' = ecus /\ taps' = taps
  BY <1>1, <1>3 DEF ecus, taps, Clients, Monitors, ConnsOf
<1>6. OwedFds \subseteq Open /\ fd \in OwedFds /\ OwedFds' = OwedFds \ {fd}
  <2>1. CASE pc = "bcast"
    <3> DEFINE Rest(l) == {m \in l .. num_clients - 1 : clients[m] # clients[i]}
    <3>1. j < num_clients /\ clients[j] # clients[i] /\ fd = clients[j]
      BY <1>1, <2>1 DEF SendTarget, ClientsLeft, AtSender
    <3>2. \A k, m \in 0 .. num_clients - 1 : clients[k] = clients[m] => k = m
      BY <1>3 DEF IInv, Entries
    <3>3. Rest(j) = Rest(j + 1) \cup {j} /\ Rest(j) \subseteq 0 .. num_clients - 1
          /\ j \notin Rest(j + 1) /\ j \in 0 .. num_clients - 1
      BY <1>4, <3>1
    <3>4. OwedFds = {clients[k] : k \in Rest(j)} \cup Monitors
      BY <2>1 DEF OwedFds
    <3>5. OwedFds' = {clients[k] : k \in Rest(j + 1)} \cup Monitors
      BY <1>1, <2>1 DEF OwedFds, Monitors
    <3> HIDE DEF Rest
    <3>6. fd \in Clients /\ {clients[k] : k \in Rest(j)} \subseteq Clients
      BY <3>1, <3>3 DEF Clients
    <3>7. {clients[k] : k \in Rest(j + 1)} = {clients[k] : k \in Rest(j)} \ {fd}
      BY <3>1, <3>2, <3>3
    <3>8. fd \in {clients[k] : k \in Rest(j)}
      BY <3>1, <3>3
    <3> QED
      BY <1>4, <3>4, <3>5, <3>6, <3>7, <3>8
  <2>2. CASE pc = "bcastMon"
    <3>1. j < num_monitors /\ fd = monitors[j]
      BY <1>1, <2>2 DEF SendTarget
    <3>2. \A k, m \in 0 .. num_monitors - 1 : monitors[k] = monitors[m] => k = m
      BY <1>3 DEF IInv, Entries
    <3>3. j .. num_monitors - 1 = (j + 1) .. num_monitors - 1 \cup {j}
          /\ j .. num_monitors - 1 \subseteq 0 .. num_monitors - 1
          /\ j \notin (j + 1) .. num_monitors - 1 /\ j \in 0 .. num_monitors - 1
      BY <1>4, <3>1
    <3>4. OwedFds = {monitors[k] : k \in j .. num_monitors - 1}
      BY <2>2 DEF OwedFds
    <3>5. OwedFds' = {monitors[k] : k \in (j + 1) .. num_monitors - 1}
      BY <1>1, <2>2 DEF OwedFds
    <3>6. OwedFds \subseteq Monitors /\ fd \in OwedFds
      BY <3>1, <3>3, <3>4 DEF Monitors
    <3>7. OwedFds' = OwedFds \ {fd}
      BY <3>1, <3>2, <3>3, <3>4, <3>5
    <3> QED
      BY <1>4, <3>6, <3>7
  <2> QED
    BY <1>1, <2>1, <2>2 DEF SendTarget
<1>7. owed' = owed \ {c} /\ c \in owed
  <2>1. ConnsOf(OwedFds \ {fd}) = ConnsOf(OwedFds) \ {c}
    BY <1>6, ConnsMinus
  <2>2. owed' = ConnsOf(OwedFds \ {fd})
    BY <1>1, <1>3, <1>6 DEF owed, ConnsOf
  <2>3. owed = ConnsOf(OwedFds) /\ c \in ConnsOf(OwedFds)
    BY <1>3, <1>6 DEF owed, ConnsOf
  <2> QED
    BY <2>1, <2>2, <2>3
<1>8. Abs!Hand(c)
  BY <1>1, <1>5, <1>7 DEF Abs!Hand
<1> QED
  BY <1>2, <1>8 DEF Abs!Next

\* The process ends: the medium is down.
LEMMA EndIsDown ==
  ASSUME SelectFails \/ SendSigpipe
  PROVE  [Abs!Next]_Abs!vars
<1>1. pc' \in Stopped /\ UNCHANGED <<log, since, got>>
  BY DEF SelectFails, SendSigpipe, ProcessEnds, Stopped, history
<1>2. ~Running'
  BY <1>1 DEF Running
<1>3. ecus' = {} /\ taps' = {} /\ owed' = {}
  BY <1>2 DEF ecus, taps, owed
<1> QED
  BY <1>1, <1>3 DEF Abs!Next, Abs!Down

-----------------------------------------------------------------------------
(* The other steps *)

\* A connection still to be accepted: the hypothesis of Fresh.
Waiting(c) ==
  \/ peer[c] = "idle"
  \/ \E m \in 1 .. Len(backlog) : backlog[m] = c
  \/ \E m \in 1 .. Len(mbacklog) : mbacklog[m] = c

\* Accepting takes the head of a backlog: nobody starts to wait.
LEMMA TailWaits ==
  ASSUME NEW s \in Seq(Conns), s # << >>, NEW m \in 1 .. Len(Tail(s))
  PROVE  \E n \in 1 .. Len(s) : s[n] = Tail(s)[m]
<1>1. Len(Tail(s)) = Len(s) - 1 /\ \A n \in 1 .. Len(Tail(s)) : Tail(s)[n] = s[n + 1]
  BY HeadTailProperties
<1>2. m + 1 \in 1 .. Len(s)
  BY <1>1, LenProperties
<1> QED
  BY <1>1, <1>2

\* Frames are handed to accepted connections only.
LEMMA FreshStep == ASSUME IInv, Fresh, [Next]_vars PROVE Fresh'
<1> USE BusAssumption
<1>0. TypeOK /\ HeldOnce /\ Snapshot
  BY DEF IInv
<1>1. \A c \in Conns : Waiting(c) => got[c] = {}
  BY DEF Fresh, Waiting
<1>2. ASSUME UNCHANGED got, \A c \in Conns : Waiting(c)' => Waiting(c)
      PROVE  Fresh'
  BY <1>1, <1>2 DEF Fresh, Waiting
<1>3. ASSUME UNCHANGED <<backlog, mbacklog, peer, got>> PROVE Fresh'
  BY <1>1, <1>3 DEF Fresh, Waiting
<1>4. CASE Listen \/ Select \/ ScanDone \/ ScanSkip \/ RecvFrame \/ RecvFails
           \/ SkipSender \/ ClientsDone \/ MonitorsDone \/ UNCHANGED vars
  BY <1>3, <1>4 DEF Listen, Select, ScanDone, ScanSkip, RecvFrame, RecvFails, SkipSender,
     ClientsDone, MonitorsDone, vars, kernel, history
<1>5. CASE SelectFails \/ SendSigpipe
  BY <1>1, <1>5 DEF SelectFails, SendSigpipe, ProcessEnds, history, Fresh, Waiting
<1>6. CASE AcceptEcu
  <2>1. UNCHANGED <<mbacklog, peer, got>>
    BY <1>6 DEF AcceptEcu, EnterEcu, AcceptFails
  <2>2. CASE backlog' = backlog
    BY <1>3, <1>6, <2>1, <2>2 DEF AcceptEcu, EnterEcu, AcceptFails
  <2>3. CASE backlog' # backlog
    <3>1. backlog # << >> /\ backlog \in Seq(Conns) /\ backlog' = Tail(backlog)
      BY <1>0, <1>6, <2>3 DEF AcceptEcu, EnterEcu, AcceptFails, Snapshot, TypeOK
    <3>2. \A c \in Conns : Waiting(c)' => Waiting(c)
      BY SMTT(60), <2>1, <3>1, TailWaits DEF Waiting
    <3> QED
      BY <1>2, <2>1, <3>2
  <2> QED
    BY <2>2, <2>3
<1>7. CASE AcceptMonitor
  <2>1. UNCHANGED <<backlog, peer, got>>
    BY <1>7 DEF AcceptMonitor, EnterMonitor, AcceptFails
  <2>2. CASE mbacklog' = mbacklog
    BY <1>3, <1>7, <2>1, <2>2 DEF AcceptMonitor, EnterMonitor, AcceptFails
  <2>3. CASE mbacklog' # mbacklog
    <3>1. mbacklog # << >> /\ mbacklog \in Seq(Conns) /\ mbacklog' = Tail(mbacklog)
      BY <1>0, <1>7, <2>3
         DEF AcceptMonitor, EnterMonitor, AcceptFails, Snapshot, TypeOK
    <3>2. \A c \in Conns : Waiting(c)' => Waiting(c)
      BY <2>1, <3>1, TailWaits DEF Waiting
    <3> QED
      BY <1>2, <2>1, <3>2
  <2> QED
    BY <2>2, <2>3
<1>8. CASE SendFrame \/ SendToClosed
  <2>1. PICK fd \in ConnFds :
          /\ SendTarget(fd)
          /\ got' = [got EXCEPT ![sock[fd]] = @ \cup {Len(log)}]
          /\ UNCHANGED <<backlog, mbacklog>>
          /\ \/ peer' = peer
             \/ \E s \in {"closed", "reset"} : peer' = [peer EXCEPT ![sock[fd]] = s]
    BY <1>8 DEF SendFrame, SendToClosed
  <2>2. sock[fd] \in Conns /\ sock[fd] # NoConn
    BY <2>1, TargetOpen
  <2>3. ~Waiting(sock[fd])
    BY <1>0, <2>2 DEF HeldOnce, Waiting
  <2>4. \A c \in Conns : Waiting(c)' => Waiting(c)
    BY <1>0, <2>1, <2>2 DEF Waiting, TypeOK
  <2>5. \A c \in Conns : Waiting(c)' => got'[c] = {}
    BY <1>0, <1>1, <2>1, <2>3, <2>4 DEF TypeOK
  <2> QED
    BY <2>5 DEF Fresh, Waiting
<1>9. CASE PeerStep
  <2>1. PICK c \in Conns : Connect(c) \/ PeerSend(c) \/ PeerRecv(c) \/ PeerClose(c)
    BY <1>9 DEF PeerStep
  <2>2. UNCHANGED got
    BY <2>1 DEF Connect, PeerSend, PeerRecv, PeerClose, history
  <2>3. CASE PeerSend(c) \/ PeerRecv(c)
    BY <1>3, <2>2, <2>3 DEF PeerSend, PeerRecv
  <2>4. CASE PeerClose(c)
    BY <1>0, <1>2, <2>2, <2>4 DEF PeerClose, Waiting, TypeOK
  <2>5. CASE Connect(c)
    <3>1. /\ Waiting(c)
          /\ peer' = [peer EXCEPT ![c] = "up"]
          /\ backlog' = backlog \/ backlog' = Append(backlog, c)
          /\ mbacklog' = mbacklog \/ mbacklog' = Append(mbacklog, c)
      BY <2>5 DEF Connect, Waiting
    <3>2. ASSUME NEW s \in Seq(Conns), NEW d \in Conns, NEW m \in 1 .. Len(Append(s, c)),
                 Append(s, c)[m] = d, d # c
          PROVE  \E n \in 1 .. Len(s) : s[n] = d
      <4>1. m # Len(s) + 1 /\ m \in 1 .. Len(s)
        BY <3>2, AppendProperties, LenProperties
      <4> QED
        BY <3>2, <4>1, AppendProperties
    <3>3. ASSUME NEW d \in Conns, Waiting(d)', d # c PROVE Waiting(d)
      <4>1. peer'[d] = peer[d] /\ backlog \in Seq(Conns) /\ mbacklog \in Seq(Conns)
        BY <1>0, <3>1, <3>3 DEF TypeOK
      <4>2. CASE peer'[d] = "idle"
        BY <4>1, <4>2 DEF Waiting
      <4>3. ASSUME NEW m \in 1 .. Len(backlog'), backlog'[m] = d PROVE Waiting(d)
        <5>1. \E n \in 1 .. Len(backlog) : backlog[n] = d
          BY <3>1, <3>2, <3>3, <4>1, <4>3
        <5> QED
          BY <5>1 DEF Waiting
      <4>4. ASSUME NEW m \in 1 .. Len(mbacklog'), mbacklog'[m] = d PROVE Waiting(d)
        <5>1. \E n \in 1 .. Len(mbacklog) : mbacklog[n] = d
          BY <3>1, <3>2, <3>3, <4>1, <4>4
        <5> QED
          BY <5>1 DEF Waiting
      <4> QED
        BY <3>3, <4>2, <4>3, <4>4 DEF Waiting
    <3> QED
      BY <1>2, <2>2, <3>1, <3>3
  <2> QED
    BY <2>1, <2>3, <2>4, <2>5
<1> QED
  BY <1>4, <1>5, <1>6, <1>7, <1>8, <1>9 DEF Next, BusStep

\* The calls the medium does not see: the waits and the loop conditions of the
\* server and everything the programs at the other end do.
LEMMA RestStutters ==
  ASSUME IInv,
         \/ Listen \/ Select \/ ScanDone \/ ScanSkip \/ SkipSender
         \/ ClientsDone \/ MonitorsDone \/ PeerStep \/ UNCHANGED vars
  PROVE  UNCHANGED Abs!vars
<1> USE BusAssumption
<1>0. TypeOK
  BY DEF IInv
<1>1. CASE Listen
  <2>1. /\ ~Running /\ num_clients = 0 /\ num_monitors = 0
        /\ UNCHANGED <<num_clients, num_monitors, log, since, got>>
        /\ pc' \notin {"bcast", "bcastMon"}
    BY <1>1 DEF Listen, IInv, StoppedEmpty, Running, server, history
  <2>2. ecus = {} /\ taps = {} /\ owed = {}
    BY <2>1 DEF ecus, taps, owed
  <2>3. Clients' = {} /\ Monitors' = {} /\ OwedFds' = {}
    BY <2>1 DEF Clients, Monitors, OwedFds
  <2>4. ecus' = {} /\ taps' = {} /\ owed' = {}
    BY <2>3 DEF ecus, taps, owed, ConnsOf
  <2> QED
    BY <2>1, <2>2, <2>4 DEF Abs!vars
<1>2. CASE Select \/ ScanDone \/ ScanSkip
  <2>1. /\ pc \notin {"bcast", "bcastMon"} /\ pc' \notin {"bcast", "bcastMon"}
        /\ Running /\ Running'
        /\ UNCHANGED <<clients, num_clients, monitors, num_monitors, sock, log, since, got>>
    BY <1>2 DEF Select, ScanDone, ScanSkip, Running, Stopped, kernel, history
  <2>2. OwedFds' = OwedFds
    BY <2>1 DEF OwedFds
  <2> QED
    BY <2>1, <2>2, Stutters
<1>3. CASE SkipSender
  <2>1. /\ pc = "bcast" /\ pc' = pc /\ j < num_clients /\ clients[j] = clients[i] /\ j' = j + 1
        /\ UNCHANGED <<clients, num_clients, monitors, num_monitors, i, sock, log, since, got>>
    BY <1>3 DEF SkipSender, ClientsLeft, AtSender, kernel, history
  <2>2. {m \in j .. num_clients - 1 : clients[m] # clients[i]}
          = {m \in (j + 1) .. num_clients - 1 : clients[m] # clients[i]}
    BY <1>0, <2>1 DEF TypeOK
  <2>3. OwedFds' = OwedFds
    BY <2>1, <2>2 DEF OwedFds, Monitors
  <2>4. Running' = Running
    BY <2>1 DEF Running
  <2> QED
    BY <2>1, <2>3, <2>4, Stutters
<1>4. CASE ClientsDone
  <2>1. /\ pc = "bcast" /\ pc' = "bcastMon" /\ j >= num_clients /\ j' = 0
        /\ UNCHANGED <<clients, num_clients, monitors, num_monitors, sock, log, since, got>>
    BY <1>0, <1>4 DEF ClientsDone, ClientsLeft, kernel, history, TypeOK
  <2>2. j .. num_clients - 1 = {}
    BY <1>0, <2>1 DEF TypeOK
  <2>3. OwedFds = Monitors
    BY <2>1, <2>2 DEF OwedFds
  <2>4. OwedFds' = Monitors
    BY <2>1 DEF OwedFds, Monitors
  <2>5. Running' = Running
    BY <2>1 DEF Running, Stopped
  <2> QED
    BY <2>1, <2>3, <2>4, <2>5, Stutters
<1>5. CASE MonitorsDone
  <2>1. /\ pc = "bcastMon" /\ pc' = "scan" /\ j >= num_monitors
        /\ UNCHANGED <<clients, num_clients, monitors, num_monitors, sock, log, since, got>>
    BY <1>5 DEF MonitorsDone, kernel, history
  <2>2. j .. num_monitors - 1 = {}
    BY <1>0, <2>1 DEF TypeOK
  <2>3. OwedFds = {} /\ OwedFds' = {}
    BY <2>1, <2>2 DEF OwedFds
  <2>4. Running' = Running
    BY <2>1 DEF Running, Stopped
  <2> QED
    BY <2>1, <2>3, <2>4, Stutters
<1>6. CASE PeerStep \/ UNCHANGED vars
  <2>1. UNCHANGED <<pc, server, sock, history>>
    BY <1>6 DEF PeerStep, Connect, PeerSend, PeerRecv, PeerClose, vars, kernel
  <2>2. UNCHANGED <<pc, clients, num_clients, monitors, num_monitors, i, j, sock, log,
                    since, got>>
    BY <2>1 DEF server, history
  <2>3. OwedFds' = OwedFds /\ Running' = Running
    BY <2>2 DEF OwedFds, Running, Monitors
  <2> QED
    BY <2>2, <2>3, Stutters
<1> QED
  BY <1>1, <1>2, <1>3, <1>4, <1>5, <1>6

-----------------------------------------------------------------------------
(* The refinement *)

LEMMA MediumInit == Init => Abs!Init
BY DEF Init, Abs!Init, ecus, taps, owed, Running, Stopped

LEMMA MediumStep == IInv /\ Fresh /\ [Next]_vars => [Abs!Next]_Abs!vars
<1> SUFFICES ASSUME IInv, Fresh, [Next]_vars PROVE [Abs!Next]_Abs!vars
  OBVIOUS
<1>1. CASE AcceptEcu \/ AcceptMonitor
  BY <1>1, AcceptJoins
<1>2. CASE RecvFrame
  BY <1>2, RecvTransmits
<1>3. CASE RecvFails
  BY <1>3, RecvLeaves
<1>4. CASE SendFrame \/ SendToClosed
  BY <1>4, SendHands
<1>5. CASE SelectFails \/ SendSigpipe
  BY <1>5, EndIsDown
<1>6. CASE \/ Listen \/ Select \/ ScanDone \/ ScanSkip \/ SkipSender
           \/ ClientsDone \/ MonitorsDone \/ PeerStep \/ UNCHANGED vars
  BY <1>6, RestStutters
<1> QED
  BY <1>1, <1>2, <1>3, <1>4, <1>5, <1>6 DEF Next, BusStep

LEMMA Refines == Spec => Abs!Spec
<1>1. Spec => []Fresh
  <2>1. Fresh /\ IInv /\ [Next]_vars => Fresh'
    BY FreshStep
  <2> QED
    BY <2>1, InitFresh, Invariance, PTL DEF Spec
<1> QED
  BY <1>1, Invariance, MediumInit, MediumStep, PTL DEF Spec, Abs!Spec

\* The select loop is a broadcast medium that carries one frame at a time, whatever
\* the programs at the other end do between two of its calls (bus.c:62-129).
THEOREM RefinesMedium == Spec => ImplementsMedium
<1>1. Abs!Spec <=> Medium!Spec
  BY DEF Abs!Spec, Medium!Spec, Abs!Init, Medium!Init, Abs!Next, Medium!Next,
     Abs!vars, Medium!vars, Abs!Join, Medium!Join, Abs!Leave, Medium!Leave,
     Abs!Transmit, Medium!Transmit, Abs!Hand, Medium!Hand, Abs!Down, Medium!Down,
     Abs!Members, Medium!Members, ecus, taps, owed
<1> QED
  BY <1>1, Refines DEF ImplementsMedium

\* "Broadcast to all other ECUs" (bus.c:114): every connected program has been
\* handed exactly the frames the others sent since it was accepted.
THEOREM AllDelivered == Spec => []Delivered
<1>1. Abs!Spec => []Abs!Complete
  BY Abs!MediumDelivers
<1>2. Abs!Complete => Delivered
  BY DEF Delivered, Abs!Complete, Medium!Complete, Abs!Members, Medium!Members,
     Abs!HeardBy, Medium!HeardBy, ecus, taps, owed
<1> QED
  BY <1>1, <1>2, Refines, PTL
=============================================================================

------------------------------ MODULE CanMedium ------------------------------
(***************************************************************************)
(* What the virtual CAN bus promises, without sockets or file descriptors. *)
(* A CAN wire carries one frame at a time and every station sees it, so    *)
(* the medium is a log of transmissions: a station may transmit only when  *)
(* nobody is owed the previous frame, and the new frame is then owed to    *)
(* every other member.  bus_server_run (src/src/core/bus.c) is shown to    *)
(* implement this specification by module BusServer.                       *)
(***************************************************************************)
EXTENDS Naturals, Sequences

CONSTANT Conns         \* the connections that may ever join the medium

VARIABLES
  ecus,                \* connections that transmit and receive
  taps,                \* connections that only receive (monitor port)
  log,                 \* log[n] is the connection that sent the n-th frame
  since,               \* since[c]: length of the log when c joined
  got,                 \* got[c]: the frames c has been handed
  owed                 \* members that still have to be handed the last frame

vars == <<ecus, taps, log, since, got, owed>>

Members == ecus \cup taps

Init ==
  /\ ecus = {}
  /\ taps = {}
  /\ log = << >>
  /\ since = [c \in Conns |-> 0]
  /\ got = [c \in Conns |-> {}]
  /\ owed = {}

\* A connection joins between two frames; its first frame is the next one.
Join(c) ==
  /\ owed = {}
  /\ c \notin Members
  /\ got[c] = {}
  /\ \/ ecus' = ecus \cup {c} /\ taps' = taps
     \/ taps' = taps \cup {c} /\ ecus' = ecus
  /\ since' = [since EXCEPT ![c] = Len(log)]
  /\ UNCHANGED <<log, got, owed>>

\* An ECU leaves between two frames.
Leave(c) ==
  /\ owed = {}
  /\ c \in ecus
  /\ ecus' = ecus \ {c}
  /\ UNCHANGED <<taps, log, since, got, owed>>

\* The medium is free and c puts a frame on it.
Transmit(c) ==
  /\ owed = {}
  /\ c \in ecus
  /\ log' = Append(log, c)
  /\ owed' = Members \ {c}
  /\ UNCHANGED <<ecus, taps, since, got>>

\* The current frame reaches one of the members it is owed to.
Hand(c) ==
  /\ c \in owed
  /\ got' = [got EXCEPT ![c] = @ \cup {Len(log)}]
  /\ owed' = owed \ {c}
  /\ UNCHANGED <<ecus, taps, log, since>>

\* The medium goes down; nobody is connected any more.
Down ==
  /\ ecus' = {}
  /\ taps' = {}
  /\ owed' = {}
  /\ UNCHANGED <<log, since, got>>

Next ==
  \/ \E c \in Conns : Join(c) \/ Leave(c) \/ Transmit(c) \/ Hand(c)
  \/ Down

Spec == Init /\ [][Next]_vars

-----------------------------------------------------------------------------
TypeOK ==
  /\ ecus \in SUBSET Conns
  /\ taps \in SUBSET Conns
  /\ log \in Seq(Conns)
  /\ since \in [Conns -> Nat]
  /\ got \in [Conns -> SUBSET Nat]
  /\ owed \in SUBSET Members

\* The frames other stations sent since c joined.
HeardBy(c) == {n \in (since[c] + 1) .. Len(log) : log[n] # c}

\* Every member has been handed exactly the frames the others sent since it
\* joined, none lost, none twice, none of its own, except the one frame that
\* is still on its way: "Broadcast to all other ECUs" (bus.c:114).
Complete ==
  \A c \in Members :
    got[c] = HeardBy(c) \ (IF c \in owed THEN {Len(log)} ELSE {})
=============================================================================

----------------------------- MODULE MCBusServer -----------------------------
(* Small instances of BusServer for TLC. *)
EXTENDS BusServer, TLC

Symmetry == Permutations(Conns)

-----------------------------------------------------------------------------
(***************************************************************************)
(* Traffic without end.  MaxFrames bounds the record of what was sent, and *)
(* no step of the program reads that record, so a run may let go of it     *)
(* between two broadcasts: the programs can then go on sending for ever,   *)
(* and what remains bounded is only the number of frames remembered.       *)
(***************************************************************************)
Forget ==
  /\ pc \notin {"bcast", "bcastMon"}
  /\ log # << >>
  /\ log' = << >>
  /\ since' = [c \in Conns |-> 0]
  /\ got' = [c \in Conns |-> {}]
  /\ UNCHANGED <<pc, server, kernel, served>>

EndlessSpec == Init /\ [][Next \/ Forget]_vars /\ Fairness
=============================================================================

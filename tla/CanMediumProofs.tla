--------------------------- MODULE CanMediumProofs ---------------------------
(***************************************************************************)
(* The abstract medium keeps its promise, for every number of stations and *)
(* of frames.  BusRefinement carries the result over to the select loop.   *)
(***************************************************************************)
EXTENDS CanMedium, SequenceTheorems, TLAPS

\* No station has joined in the future, and the frame that is still owed is one
\* the station has to hear.
Current ==
  /\ \A c \in Conns : since[c] <= Len(log)
  /\ \A c \in owed : Len(log) \in HeardBy(c)

IInv == TypeOK /\ Current /\ Complete

LEMMA MediumInit == Init => IInv
BY DEF Init, IInv, TypeOK, Current, Complete, Members

\* What the members have heard when c puts a frame on the medium.
LEMMA HeardNext ==
  ASSUME TypeOK, Current, NEW c \in Conns, NEW d \in Conns, log' = Append(log, d),
         since' = since
  PROVE  /\ Len(log)' = Len(log) + 1
         /\ HeardBy(c)' = HeardBy(c) \cup IF d = c THEN {} ELSE {Len(log) + 1}
<1>1. /\ Len(log) \in Nat /\ Len(log)' = Len(log) + 1
      /\ \A n \in 1 .. Len(log) : log'[n] = log[n]
      /\ log'[Len(log) + 1] = d
  BY DEF TypeOK
<1>2. since[c] \in Nat /\ since[c] <= Len(log)
  BY DEF TypeOK, Current
<1>3. (since[c] + 1) .. (Len(log) + 1) = ((since[c] + 1) .. Len(log)) \cup {Len(log) + 1}
  BY <1>1, <1>2
<1>4. (since[c] + 1) .. Len(log) \subseteq 1 .. Len(log)
  BY <1>1, <1>2
<1> QED
  BY <1>1, <1>3, <1>4 DEF HeardBy

LEMMA MediumKeeps == ASSUME IInv, [Next]_vars PROVE IInv'
<1>0. TypeOK /\ Current /\ Complete /\ Len(log) \in Nat
  BY DEF IInv, TypeOK
<1>1. ASSUME NEW c \in Conns, Join(c) PROVE IInv'
  <2>1. TypeOK'
    BY <1>0, <1>1 DEF Join, TypeOK, Members
  <2>2. /\ HeardBy(c)' = {}
        /\ \A d \in Conns \ {c} : HeardBy(d)' = HeardBy(d)
    BY <1>0, <1>1 DEF Join, HeardBy, TypeOK
  <2>3. Current'
    BY <1>0, <1>1 DEF Join, Current, TypeOK
  <2>4. Complete'
    <3>1. SUFFICES ASSUME NEW d \in Members' PROVE got'[d] = HeardBy(d)'
      BY <1>1 DEF Complete, Join
    <3>2. CASE d = c
      BY <1>1, <2>2, <3>2 DEF Join
    <3>3. CASE d # c
      <4>1. d \in Members /\ d \in Conns \ {c}
        BY <1>0, <1>1, <3>3 DEF Join, Members, TypeOK
      <4>2. got[d] = HeardBy(d)
        BY <1>0, <1>1, <4>1 DEF Complete, Join
      <4> QED
        BY <1>1, <2>2, <4>1, <4>2 DEF Join
    <3> QED
      BY <3>2, <3>3
  <2> QED
    BY <2>1, <2>3, <2>4 DEF IInv
<1>2. ASSUME NEW c \in Conns, Leave(c) PROVE IInv'
  BY <1>0, <1>2 DEF Leave, IInv, TypeOK, Current, Complete, Members, HeardBy
<1>3. ASSUME NEW c \in Conns, Transmit(c) PROVE IInv'
  <2>1. TypeOK'
    BY <1>0, <1>3 DEF Transmit, TypeOK, Members
  <2>2. \A d \in Conns : /\ Len(log)' = Len(log) + 1
                         /\ HeardBy(d)' = HeardBy(d) \cup
                              IF c = d THEN {} ELSE {Len(log) + 1}
    BY <1>0, <1>3, HeardNext DEF Transmit
  <2>3. Current'
    <3>1. \A d \in Conns : since'[d] <= Len(log)'
      BY <1>0, <1>3, <2>2 DEF Transmit, Current, TypeOK
    <3>2. \A d \in owed' : Len(log)' \in HeardBy(d)'
      BY <1>0, <1>3, <2>2 DEF Transmit, Members, TypeOK
    <3> QED
      BY <3>1, <3>2 DEF Current
  <2>4. Complete'
    <3>1. SUFFICES ASSUME NEW d \in Members'
                   PROVE  got'[d] = HeardBy(d)' \ (IF d \in owed' THEN {Len(log)'} ELSE {})
      BY DEF Complete
    <3>2. d \in Members /\ d \in Conns /\ got'[d] = HeardBy(d)
      BY <1>0, <1>3, <3>1 DEF Transmit, Members, Complete, TypeOK
    <3>3. Len(log) + 1 \notin HeardBy(d)
      BY <1>0, <3>2 DEF HeardBy, TypeOK
    <3> QED
      BY <1>3, <2>2, <3>2, <3>3 DEF Transmit
  <2> QED
    BY <2>1, <2>3, <2>4 DEF IInv
<1>4. ASSUME NEW c \in Conns, Hand(c) PROVE IInv'
  <2>1. TypeOK'
    BY <1>0, <1>4 DEF Hand, TypeOK, Members
  <2>2. \A d \in Conns : HeardBy(d)' = HeardBy(d)
    BY <1>4 DEF Hand, HeardBy
  <2>3. Current'
    BY <1>0, <1>4, <2>2 DEF Hand, Current, TypeOK, Members
  <2>4. Complete'
    <3>1. SUFFICES ASSUME NEW d \in Members
                   PROVE  got'[d] = HeardBy(d) \ (IF d \in owed' THEN {Len(log)} ELSE {})
      BY <1>0, <1>4, <2>2 DEF Complete, Hand, Members, TypeOK
    <3>2. d \in Conns /\ got[d] = HeardBy(d) \ (IF d \in owed THEN {Len(log)} ELSE {})
      BY <1>0, <3>1 DEF Complete, Members, TypeOK
    <3>3. CASE d = c
      BY <1>0, <1>4, <3>2, <3>3 DEF Hand, Current, TypeOK
    <3>4. CASE d # c
      BY <1>0, <1>4, <3>2, <3>4 DEF Hand, TypeOK
    <3> QED
      BY <3>3, <3>4
  <2> QED
    BY <2>1, <2>3, <2>4 DEF IInv
<1>5. CASE Down
  BY <1>0, <1>5 DEF Down, IInv, TypeOK, Current, Complete, Members, HeardBy
<1>6. CASE UNCHANGED vars
  BY <1>0, <1>6 DEF vars, IInv, TypeOK, Current, Complete, Members, HeardBy
<1> QED
  BY <1>1, <1>2, <1>3, <1>4, <1>5, <1>6 DEF Next

\* Every station that is connected has been handed exactly the frames that the
\* others sent since it joined, apart from the one that is on its way.
THEOREM MediumDelivers == Spec => []Complete
<1>1. IInv => Complete
  BY DEF IInv
<1> QED
  BY <1>1, MediumInit, MediumKeeps, PTL DEF Spec
=============================================================================

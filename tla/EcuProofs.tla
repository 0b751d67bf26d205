------------------------------ MODULE EcuProofs ------------------------------
(***************************************************************************)
(* Proofs about Ecu: the counters stay within their thresholds and the     *)
(* verdict of a controller is exact and final, for any number of programs, *)
(* any keys and any traffic.  The last part is about the vehicle's own      *)
(* names: the keys hsm_init makes of them.                                 *)
(***************************************************************************)
EXTENDS Vehicle, FunctionTheorems, FiniteSetTheorems, SequenceTheorems, TLAPS

\* Unverified and CauseWithin of a given sequence of frames.
Bad(c, s, n) ==
  {k \in 1 .. n : s[k].secured /\ ~hsm_verify_frame(CommKey[c], s[k])}

Cause(c, s, n) ==
  \/ \E k \in 1 .. n : ~s[k].secured \/ ~sec_ok(CommKey[c], s[k])
  \/ Cardinality(Bad(c, s, n)) >= MAC_ERROR_THRESHOLD

\* The counter of MAC errors is the number of bad frames read so far.
Counts ==
  \A c \in Controllers : mac_errors[c] = Cardinality(Unverified(c, Len(seen[c])))

\* An ECU that is not in fail-safe has not reached a threshold.
BelowThresholds ==
  \A e \in Ecus : ~fail_safe[e] =>
    /\ mac_errors[e] < MAC_ERROR_THRESHOLD
    /\ unsecured_frames[e] < UNSECURED_FRAME_THRESHOLD

IInv ==
  /\ TypeOK
  /\ Counts
  /\ BelowThresholds
  /\ AlarmsExact
  /\ StopsAtFirstAlarm
  /\ AppliedIsAuthentic

-----------------------------------------------------------------------------
(* Sequences of frames *)

\* The frames before the last are the same with it and without it.
LEMMA BadPrefix ==
  ASSUME NEW c \in Controllers, NEW s \in Seq(Frame), NEW f \in Frame
  PROVE  Bad(c, Append(s, f), Len(s)) = Bad(c, s, Len(s))
<1>1. \A k \in 1 .. Len(s) : Append(s, f)[k] = s[k]
  OBVIOUS
<1> QED
  BY <1>1 DEF Bad

\* The last frame adds one bad frame or none.
LEMMA BadLast ==
  ASSUME NEW c \in Controllers, NEW s \in Seq(Frame), NEW f \in Frame
  PROVE  /\ IsFiniteSet(Bad(c, s, Len(s)))
         /\ Cardinality(Bad(c, s, Len(s))) \in Nat
         /\ (f.secured /\ ~hsm_verify_frame(CommKey[c], f)) =>
              Cardinality(Bad(c, Append(s, f), Len(s) + 1))
                = Cardinality(Bad(c, s, Len(s))) + 1
         /\ ~(f.secured /\ ~hsm_verify_frame(CommKey[c], f)) =>
              Bad(c, Append(s, f), Len(s) + 1) = Bad(c, s, Len(s))
<1> DEFINE n == Len(s)
           last == f.secured /\ ~hsm_verify_frame(CommKey[c], f)
<1>1. n \in Nat /\ 1 .. n + 1 = 1 .. n \cup {n + 1} /\ n + 1 \notin 1 .. n
  OBVIOUS
<1>2. \A k \in 1 .. n : Append(s, f)[k] = s[k]
  OBVIOUS
<1>3. Append(s, f)[n + 1] = f
  OBVIOUS
<1>4. IsFiniteSet(Bad(c, s, n))
  <2>1. IsFiniteSet(1 .. n)
    BY <1>1, FS_Interval
  <2>2. Bad(c, s, n) \subseteq 1 .. n
    BY DEF Bad
  <2> QED
    BY <2>1, <2>2, FS_Subset
<1>5. Cardinality(Bad(c, s, n)) \in Nat
  BY <1>4, FS_CardinalityType
<1>6. ASSUME last PROVE Bad(c, Append(s, f), n + 1) = Bad(c, s, n) \cup {n + 1}
  BY <1>1, <1>2, <1>3, <1>6 DEF Bad
<1>7. ASSUME ~last PROVE Bad(c, Append(s, f), n + 1) = Bad(c, s, n)
  BY <1>1, <1>2, <1>3, <1>7 DEF Bad
<1>8. n + 1 \notin Bad(c, s, n)
  BY <1>1 DEF Bad
<1>9. ASSUME last
      PROVE Cardinality(Bad(c, Append(s, f), n + 1)) = Cardinality(Bad(c, s, n)) + 1
  BY <1>6, <1>8, <1>9, <1>4, FS_AddElement
<1> QED
  BY <1>4, <1>5, <1>7, <1>9

\* What the last frame adds to the causes of an alarm.
LEMMA CauseLast ==
  ASSUME NEW c \in Controllers, NEW s \in Seq(Frame), NEW f \in Frame
  PROVE  /\ Cause(c, Append(s, f), Len(s)) <=> Cause(c, s, Len(s))
         /\ ~Cause(c, s, Len(s)) =>
              (Cause(c, Append(s, f), Len(s) + 1) <=>
                 \/ ~f.secured
                 \/ ~sec_ok(CommKey[c], f)
                 \/ Cardinality(Bad(c, Append(s, f), Len(s) + 1))
                      >= MAC_ERROR_THRESHOLD)
<1>1. Len(s) \in Nat /\ 1 .. Len(s) + 1 = 1 .. Len(s) \cup {Len(s) + 1}
  OBVIOUS
<1>2. \A k \in 1 .. Len(s) : Append(s, f)[k] = s[k]
  OBVIOUS
<1>3. Append(s, f)[Len(s) + 1] = f
  OBVIOUS
<1>4. Bad(c, Append(s, f), Len(s)) = Bad(c, s, Len(s))
  BY BadPrefix
<1>5. Cause(c, Append(s, f), Len(s)) <=> Cause(c, s, Len(s))
  BY <1>2, <1>4 DEF Cause
<1>6. ASSUME ~Cause(c, s, Len(s))
      PROVE  Cause(c, Append(s, f), Len(s) + 1) <=>
               \/ ~f.secured
               \/ ~sec_ok(CommKey[c], f)
               \/ Cardinality(Bad(c, Append(s, f), Len(s) + 1))
                    >= MAC_ERROR_THRESHOLD
  <2>1. \A k \in 1 .. Len(s) : s[k].secured /\ sec_ok(CommKey[c], s[k])
    BY <1>6 DEF Cause
  <2>2. (\E k \in 1 .. Len(s) + 1 : \/ ~Append(s, f)[k].secured
                                    \/ ~sec_ok(CommKey[c], Append(s, f)[k]))
          <=> ~f.secured \/ ~sec_ok(CommKey[c], f)
    BY <1>1, <1>2, <1>3, <2>1
  <2> QED
    BY <2>2 DEF Cause
<1> QED
  BY <1>5, <1>6

\* The invariant in terms of Bad and Cause.
LEMMA Unfolded ==
  ASSUME NEW c \in Controllers, NEW n
  PROVE  /\ Unverified(c, n) = Bad(c, seen[c], n)
         /\ CauseWithin(c, n) <=> Cause(c, seen[c], n)
         /\ Unverified(c, n)' = Bad(c, seen'[c], n)
         /\ CauseWithin(c, n)' <=> Cause(c, seen'[c], n)
BY DEF Unverified, CauseWithin, Bad, Cause

-----------------------------------------------------------------------------
LEMMA InitIInv == Init => IInv
<1> SUFFICES ASSUME Init PROVE IInv
  OBVIOUS
<1> USE DEF Init
<1>1. TypeOK
  <2>1. \A p \in RawPrograms : 1 \in 1 .. Len(RawTraffic[p])
    BY EcuAssumption
  <2>2. 0 \in 0 .. MaxFrames
    BY EcuAssumption
  <2>3. << >> \in Seq(Frame)
    OBVIOUS
  <2> QED
    BY <2>1, <2>2, <2>3 DEF TypeOK, MAC_ERROR_THRESHOLD, UNSECURED_FRAME_THRESHOLD
<1>2. ASSUME NEW c \in Controllers
      PROVE  /\ Unverified(c, Len(seen[c])) = {}
             /\ ~CauseWithin(c, Len(seen[c]))
  <2>1. Len(seen[c]) = 0 /\ 1 .. 0 = {}
    OBVIOUS
  <2>2. Unverified(c, Len(seen[c])) = {}
    BY <2>1 DEF Unverified
  <2>3. Cardinality({}) = 0
    BY FS_EmptySet
  <2>4. ~(\E k \in 1 .. Len(seen[c]) :
            ~seen[c][k].secured \/ ~sec_ok(CommKey[c], seen[c][k]))
    BY <2>1
  <2>5. ~(Cardinality(Unverified(c, Len(seen[c]))) >= MAC_ERROR_THRESHOLD)
    <3>1. Cardinality(Unverified(c, Len(seen[c]))) = 0
      BY <2>2, <2>3
    <3>2. ~(0 >= MAC_ERROR_THRESHOLD)
      BY DEF MAC_ERROR_THRESHOLD
    <3> QED
      BY <3>1, <3>2
  <2> QED
    BY <2>2, <2>4, <2>5 DEF CauseWithin
<1>3. Counts
  BY <1>2, FS_EmptySet DEF Counts, Ecus
<1>4. BelowThresholds
  BY DEF BelowThresholds, MAC_ERROR_THRESHOLD, UNSECURED_FRAME_THRESHOLD
<1>5. AlarmsExact
  BY <1>2 DEF AlarmsExact, Ecus
<1>6. StopsAtFirstAlarm
  BY DEF StopsAtFirstAlarm
<1>7. AppliedIsAuthentic
  BY DEF AppliedIsAuthentic
<1> QED
  BY <1>1, <1>3, <1>4, <1>5, <1>6, <1>7 DEF IInv

\* A frame of a wheel, once protected, is a frame.
LEMMA ProtectedType ==
  ASSUME NEW e \in Ecus, NEW f \in Frame
  PROVE  hsm_protect_frame(CommKey[e], f) \in Frame
<1>1. CommKey[e] \in Keys
  BY DEF Keys
<1> QED
  BY <1>1 DEF hsm_protect_frame, Frame

LEMMA BroadcastType ==
  ASSUME TypeOK, NEW f \in Frame, Broadcast(f)
  PROVE  /\ inbox' \in [Controllers -> Seq(Frame)]
         /\ carried' \in 0 .. MaxFrames
<1>1. inbox' \in [Controllers -> Seq(Frame)]
  BY DEF TypeOK, Broadcast
<1>2. carried' \in 0 .. MaxFrames
  BY EcuAssumption DEF TypeOK, Broadcast
<1> QED
  BY <1>1, <1>2

\* The history of a controller and its verdict only change when it reads.
LEMMA Undisturbed ==
  ASSUME IInv, TypeOK', UNCHANGED <<seen, applied>>,
         \A c \in Controllers : /\ mac_errors'[c] = mac_errors[c]
                                /\ fail_safe'[c] = fail_safe[c]
  PROVE  Counts' /\ AlarmsExact' /\ StopsAtFirstAlarm' /\ AppliedIsAuthentic'
<1> USE DEF IInv
<1>2. Counts'
  BY DEF Counts, Unverified
<1>3. AlarmsExact'
  BY DEF AlarmsExact, CauseWithin, Unverified
<1>4. StopsAtFirstAlarm'
  BY DEF StopsAtFirstAlarm, CauseWithin, Unverified
<1>5. AppliedIsAuthentic'
  BY DEF AppliedIsAuthentic
<1> QED
  BY <1>2, <1>3, <1>4, <1>5

-----------------------------------------------------------------------------
\* A controller reads a frame: types and counters.
LEMMA RoundType ==
  ASSUME IInv, NEW c \in Controllers, Round(c)
  PROVE  TypeOK' /\ BelowThresholds'
<1> USE DEF IInv
<1> DEFINE f == Head(inbox[c])
<1>1. f \in Frame /\ Tail(inbox[c]) \in Seq(Frame)
  BY DEF Round, TypeOK
<1>2. c \in Ecus
  BY DEF Ecus
<1>3. /\ mac_errors[c] \in 0 .. 2
      /\ unsecured_frames[c] = 0
      /\ ~fail_safe[c]
  BY <1>2 DEF Round, Looping, BelowThresholds, TypeOK, MAC_ERROR_THRESHOLD,
              UNSECURED_FRAME_THRESHOLD
<1>4. /\ mac_errors' \in [Ecus -> 0 .. MAC_ERROR_THRESHOLD]
      /\ unsecured_frames' \in [Ecus -> 0 .. UNSECURED_FRAME_THRESHOLD]
  <2>1. mac_errors[c] + 1 \in 0 .. 3 /\ unsecured_frames[c] + 1 \in 0 .. 1
    BY <1>3
  <2>2. /\ \/ mac_errors' = mac_errors
           \/ mac_errors' = [mac_errors EXCEPT ![c] = mac_errors[c] + 1]
        /\ \/ unsecured_frames' = unsecured_frames
           \/ unsecured_frames' =
                [unsecured_frames EXCEPT ![c] = unsecured_frames[c] + 1]
    BY DEF Round, Counted
  <2>3. mac_errors' \in [Ecus -> 0 .. 3]
    BY <2>1, <2>2 DEF TypeOK, MAC_ERROR_THRESHOLD
  <2>4. unsecured_frames' \in [Ecus -> 0 .. 1]
    BY <2>1, <2>2 DEF TypeOK, UNSECURED_FRAME_THRESHOLD
  <2> QED
    BY <2>3, <2>4 DEF MAC_ERROR_THRESHOLD, UNSECURED_FRAME_THRESHOLD
<1>5. fail_safe' \in [Ecus -> BOOLEAN]
  <2>1. /\ sec_ok(CommKey[c], f) \in BOOLEAN
        /\ IdsFailSafe(c, f) \in BOOLEAN
    BY DEF sec_ok, IdsFailSafe
  <2> QED
    BY <2>1, <1>2 DEF Round, TypeOK
<1>6. seen' \in [Controllers -> Seq(Frame)]
  BY <1>1 DEF Round, TypeOK
<1>7. inbox' \in [Controllers -> Seq(Frame)]
  BY <1>1 DEF Round, TypeOK
<1>8. pc' \in [Programs -> {"start", "loop", "done", "killed"}]
  BY DEF Round, TypeOK
<1>9. applied' \in [Controllers -> SUBSET [frame : Frame, late : BOOLEAN]]
  <2>1. fail_safe'[c] \in BOOLEAN
    BY <1>2, <1>5
  <2>2. [frame |-> f, late |-> fail_safe'[c]] \in [frame : Frame, late : BOOLEAN]
    BY <1>1, <2>1
  <2> QED
    BY <2>2 DEF Round, TypeOK
<1>10. TypeOK'
  BY <1>4, <1>5, <1>6, <1>7, <1>8, <1>9 DEF Round, TypeOK
<1>11. BelowThresholds'
  <2> SUFFICES ASSUME NEW e \in Ecus, ~fail_safe'[e]
               PROVE  /\ mac_errors'[e] < MAC_ERROR_THRESHOLD
                      /\ unsecured_frames'[e] < UNSECURED_FRAME_THRESHOLD
    BY DEF BelowThresholds
  <2>1. CASE e # c
    <3>1. /\ mac_errors'[e] = mac_errors[e]
          /\ unsecured_frames'[e] = unsecured_frames[e]
          /\ fail_safe'[e] = fail_safe[e]
      BY <2>1, <1>2 DEF Round, Counted, TypeOK
    <3> QED
      BY <3>1 DEF BelowThresholds
  <2>2. CASE e = c
    <3>1. ~IdsFailSafe(c, f)
      BY <2>2, <1>2 DEF Round, TypeOK
    <3>2. f.secured
      BY <3>1, <1>3 DEF IdsFailSafe, unsecured_fail_safe, UNSECURED_FRAME_THRESHOLD
    <3>3. unsecured_frames'[c] = 0
      BY <3>2, <1>2, <1>3 DEF Round, Counted, TypeOK
    <3>4. mac_errors'[c] < MAC_ERROR_THRESHOLD
      <4>1. CASE hsm_verify_frame(CommKey[c], f)
        BY <4>1, <3>2, <1>3 DEF Round, Counted, MAC_ERROR_THRESHOLD
      <4>2. CASE ~hsm_verify_frame(CommKey[c], f)
        <5>1. mac_errors'[c] = mac_errors[c] + 1
          BY <4>2, <3>2, <1>2 DEF Round, Counted, TypeOK
        <5>2. ~(mac_errors[c] + 1 >= MAC_ERROR_THRESHOLD)
          BY <3>1, <3>2, <4>2 DEF IdsFailSafe, mac_fail_safe
        <5> QED
          BY <5>1, <5>2, <1>3 DEF MAC_ERROR_THRESHOLD
      <4> QED
        BY <4>1, <4>2
    <3> QED
      BY <2>2, <3>3, <3>4 DEF UNSECURED_FRAME_THRESHOLD
  <2> QED
    BY <2>1, <2>2
<1> QED
  BY <1>10, <1>11

\* A controller reads a frame: its history, its counter and its verdict.
LEMMA RoundVerdict ==
  ASSUME IInv, NEW c \in Controllers, Round(c)
  PROVE  Counts' /\ AlarmsExact' /\ StopsAtFirstAlarm' /\ AppliedIsAuthentic'
<1> USE DEF IInv
<1> DEFINE f == Head(inbox[c])
           s == seen[c]
           n == Len(seen[c])
           wrong == f.secured /\ ~hsm_verify_frame(CommKey[c], f)
<1>1. f \in Frame /\ s \in Seq(Frame) /\ n \in Nat
  BY DEF Round, TypeOK
<1>2. c \in Ecus
  BY DEF Ecus
<1>3. seen'[c] = Append(s, f) /\ Len(seen'[c]) = n + 1
  BY <1>1 DEF Round, TypeOK
<1>4. ASSUME NEW d \in Controllers, d # c
      PROVE  /\ seen'[d] = seen[d]
             /\ applied'[d] = applied[d]
             /\ mac_errors'[d] = mac_errors[d]
             /\ fail_safe'[d] = fail_safe[d]
  BY <1>4 DEF Round, Counted, TypeOK, Ecus
<1>5. ~fail_safe[c] /\ ~Cause(c, s, n)
  BY Unfolded DEF Round, Looping, AlarmsExact
<1>6. /\ mac_errors[c] = Cardinality(Bad(c, s, n))
      /\ mac_errors[c] \in Nat
      /\ unsecured_frames[c] = 0
  BY <1>2, <1>5, Unfolded DEF Counts, BelowThresholds, TypeOK,
     UNSECURED_FRAME_THRESHOLD
<1>7. mac_errors'[c] = IF wrong THEN mac_errors[c] + 1 ELSE mac_errors[c]
  BY <1>2 DEF Round, Counted, TypeOK
<1>8. mac_errors'[c] = Cardinality(Bad(c, Append(s, f), n + 1))
  BY <1>1, <1>6, <1>7, BadLast
<1>9. fail_safe'[c] <=> IdsFailSafe(c, f) \/ ~sec_ok(CommKey[c], f)
  BY <1>2, <1>5 DEF Round, TypeOK
<1>10. fail_safe'[c] <=> Cause(c, Append(s, f), n + 1)
  <2>1. Cause(c, Append(s, f), n + 1) <=>
          \/ ~f.secured
          \/ ~sec_ok(CommKey[c], f)
          \/ mac_errors'[c] >= MAC_ERROR_THRESHOLD
    BY <1>1, <1>5, <1>8, CauseLast
  <2>2. CASE ~f.secured
    BY <2>1, <2>2, <1>6, <1>9 DEF IdsFailSafe, unsecured_fail_safe,
       UNSECURED_FRAME_THRESHOLD
  <2>3. CASE f.secured /\ wrong
    BY <2>1, <2>3, <1>7, <1>9 DEF IdsFailSafe, mac_fail_safe
  <2>4. CASE f.secured /\ ~wrong
    <3>1. ~(mac_errors[c] >= MAC_ERROR_THRESHOLD)
      BY <1>5, <1>6 DEF Cause
    <3> QED
      BY <2>1, <2>4, <3>1, <1>7, <1>9 DEF IdsFailSafe
  <2> QED
    BY <2>2, <2>3, <2>4
<1>11. Counts'
  <2> SUFFICES ASSUME NEW d \in Controllers
               PROVE  mac_errors'[d] = Cardinality(Bad(d, seen'[d], Len(seen'[d])))
    BY DEF Counts, Unverified, Bad
  <2> QED
    BY <1>3, <1>4, <1>8, Unfolded DEF Counts
<1>12. AlarmsExact'
  <2> SUFFICES ASSUME NEW d \in Controllers
               PROVE  fail_safe'[d] <=> Cause(d, seen'[d], Len(seen'[d]))
    BY DEF AlarmsExact, CauseWithin, Cause, Unverified, Bad
  <2> QED
    BY <1>3, <1>4, <1>10, Unfolded DEF AlarmsExact
<1>13. StopsAtFirstAlarm'
  <2> SUFFICES ASSUME NEW d \in Controllers, seen'[d] # << >>
               PROVE  ~Cause(d, seen'[d], Len(seen'[d]) - 1)
    BY DEF StopsAtFirstAlarm, CauseWithin, Cause, Unverified, Bad
  <2>1. CASE d = c
    <3>1. Len(seen'[c]) - 1 = n
      BY <1>1, <1>3
    <3>2. ~Cause(c, Append(s, f), n)
      BY <1>1, <1>5, CauseLast
    <3> QED
      BY <2>1, <3>1, <3>2, <1>3
  <2>2. CASE d # c
    BY <2>2, <1>4, Unfolded DEF StopsAtFirstAlarm
  <2> QED
    BY <2>1, <2>2
<1>14. AppliedIsAuthentic'
  <2> SUFFICES ASSUME NEW d \in Controllers, NEW a \in applied'[d]
               PROVE  /\ a.frame.mac = CommKey[d]
                      /\ a.frame.dlc \in 1 .. CAN_MAX_DATA_LEN
                      /\ id_allowed(a.frame.id)
    BY DEF AppliedIsAuthentic
  <2>1. CASE a \in applied[d]
    BY <2>1 DEF AppliedIsAuthentic
  <2>2. CASE a \notin applied[d]
    <3>1. /\ d = c
          /\ sec_ok(CommKey[c], f)
          /\ f.dlc >= 1
          /\ a = [frame |-> f, late |-> fail_safe'[c]]
      BY <2>2, <1>4 DEF Round, TypeOK
    <3>2. f.dlc \in 1 .. CAN_MAX_DATA_LEN
      <4>1. f.dlc \in 0 .. 255
        BY <1>1 DEF Frame
      <4>2. f.dlc <= CAN_MAX_DATA_LEN
        BY <3>1 DEF sec_ok
      <4> QED
        BY SMTT(30), <4>1, <4>2, <3>1 DEF CAN_MAX_DATA_LEN
    <3> QED
      BY <3>1, <3>2 DEF sec_ok, hsm_verify_mac
  <2> QED
    BY <2>1, <2>2
<1> QED
  BY <1>11, <1>12, <1>13, <1>14

-----------------------------------------------------------------------------
\* Every step but a controller's Round leaves the controllers' state alone.
LEMMA OtherSteps ==
  ASSUME IInv, [Next]_vars, ~(\E c \in Controllers : Round(c))
  PROVE  /\ TypeOK' /\ BelowThresholds'
         /\ UNCHANGED <<seen, applied>>
         /\ \A c \in Controllers : /\ mac_errors'[c] = mac_errors[c]
                                   /\ fail_safe'[c] = fail_safe[c]
<1> USE DEF IInv
<1> DEFINE Kept == /\ UNCHANGED <<seen, applied>>
                   /\ \A c \in Controllers : /\ mac_errors'[c] = mac_errors[c]
                                             /\ fail_safe'[c] = fail_safe[c]
<1>1. ASSUME NEW p \in Programs, Start(p)
      PROVE  TypeOK' /\ BelowThresholds' /\ Kept
  BY <1>1 DEF Start, TypeOK, BelowThresholds, ecu
<1>2. ASSUME NEW e \in Wheels, SendSecured(e)
      PROVE  TypeOK' /\ BelowThresholds' /\ Kept
  <2>1. e \in Ecus /\ e \in Programs
    BY DEF Ecus, Programs
  <2>2. CASE SendToNobody(e)
    BY <1>2, <2>1, <2>2 DEF SendSecured, SendToNobody, TypeOK, BelowThresholds, ecu
  <2>3. ASSUME NEW f \in Outgoing[e], Broadcast(hsm_protect_frame(CommKey[e], f))
        PROVE  /\ inbox' \in [Controllers -> Seq(Frame)]
               /\ carried' \in 0 .. MaxFrames
    <3>1. f \in Frame
      BY EcuAssumption
    <3> QED
      BY <2>1, <2>3, <3>1, ProtectedType, BroadcastType
  <2>4. CASE ~SendToNobody(e)
    BY <1>2, <2>3, <2>4 DEF SendSecured, TypeOK, BelowThresholds, ecu
  <2> QED
    BY <2>2, <2>4
<1>3. ASSUME NEW e \in Wheels, SendUnsecured(e)
      PROVE  TypeOK' /\ BelowThresholds' /\ Kept
  <2>1. e \in Ecus /\ e \notin Controllers
    BY EcuAssumption DEF Ecus
  <2>2. PICK f \in Outgoing[e] :
          /\ unsecured_frames' = [unsecured_frames EXCEPT ![e] = @ + 1]
          /\ \/ /\ unsecured_fail_safe(unsecured_frames'[e])
                /\ fail_safe' = [fail_safe EXCEPT ![e] = TRUE]
                /\ UNCHANGED <<inbox, carried>>
             \/ ~unsecured_fail_safe(unsecured_frames'[e])
    BY <1>3 DEF SendUnsecured
  <2>3. unsecured_frames[e] = 0
    BY <1>3, <2>1 DEF SendUnsecured, BelowThresholds, TypeOK,
       UNSECURED_FRAME_THRESHOLD
  <2>4. /\ unsecured_frames' \in [Ecus -> 0 .. UNSECURED_FRAME_THRESHOLD]
        /\ unsecured_frames'[e] = 1
    BY <2>1, <2>2, <2>3 DEF TypeOK, UNSECURED_FRAME_THRESHOLD
  <2>5. /\ fail_safe' = [fail_safe EXCEPT ![e] = TRUE]
        /\ UNCHANGED <<inbox, carried>>
    BY <2>2, <2>4 DEF unsecured_fail_safe, UNSECURED_FRAME_THRESHOLD
  <2>6. TypeOK'
    BY <1>3, <2>4, <2>5 DEF SendUnsecured, TypeOK
  <2>7. BelowThresholds'
    BY <1>3, <2>1, <2>2, <2>5 DEF SendUnsecured, BelowThresholds, TypeOK
  <2>8. Kept
    BY <1>3, <2>1, <2>5 DEF SendUnsecured, TypeOK, Ecus
  <2> QED
    BY <2>6, <2>7, <2>8
<1>4. ASSUME NEW p \in RawPrograms, RawSend(p)
      PROVE  TypeOK' /\ BelowThresholds' /\ Kept
  <2>1. turn[p] \in 1 .. Len(RawTraffic[p]) /\ RawTraffic[p] \in Seq(Frame)
    BY EcuAssumption DEF TypeOK
  <2>2. RawTraffic[p][turn[p]] \in Frame
    BY <2>1
  <2>3. (turn[p] % Len(RawTraffic[p])) + 1 \in 1 .. Len(RawTraffic[p])
    <3>1. Len(RawTraffic[p]) \in Nat \ {0} /\ turn[p] \in Nat
      BY <2>1
    <3>2. turn[p] % Len(RawTraffic[p]) \in 0 .. Len(RawTraffic[p]) - 1
      BY <3>1
    <3> QED
      BY <3>1, <3>2
  <2>4. /\ turn' \in [RawPrograms -> Nat]
        /\ \A q \in RawPrograms : turn'[q] \in 1 .. Len(RawTraffic[q])
    BY <1>4, <2>3 DEF RawSend, TypeOK
  <2>5. /\ inbox' \in [Controllers -> Seq(Frame)]
        /\ carried' \in 0 .. MaxFrames
    BY <1>4, <2>2, BroadcastType DEF RawSend, SendToNobody, TypeOK
  <2>6. pc' \in [Programs -> {"start", "loop", "done", "killed"}]
    BY <1>4 DEF RawSend, SendToNobody, TypeOK
  <2> QED
    BY <1>4, <2>4, <2>5, <2>6 DEF RawSend, TypeOK, BelowThresholds, ecu
<1>5. ASSUME OtherSend
      PROVE  TypeOK' /\ BelowThresholds' /\ Kept
  <2>1. PICK f \in Wire : Broadcast(f)
    BY <1>5 DEF OtherSend
  <2>2. f \in Frame
    BY EcuAssumption
  <2>3. /\ inbox' \in [Controllers -> Seq(Frame)]
        /\ carried' \in 0 .. MaxFrames
    BY <2>1, <2>2, BroadcastType
  <2> QED
    BY <1>5, <2>3 DEF OtherSend, TypeOK, BelowThresholds, ecu
<1>6. ASSUME NEW c \in Controllers, RecvFails(c)
      PROVE  TypeOK' /\ BelowThresholds' /\ Kept
  BY <1>6 DEF RecvFails, TypeOK, BelowThresholds, ecu
<1>7. ASSUME NEW e \in Ecus, LoopEnds(e)
      PROVE  TypeOK' /\ BelowThresholds' /\ Kept
  BY <1>7 DEF LoopEnds, TypeOK, BelowThresholds, ecu
<1>8. ASSUME BusStops
      PROVE  TypeOK' /\ BelowThresholds' /\ Kept
  BY <1>8 DEF BusStops, TypeOK, BelowThresholds, ecu
<1>9. ASSUME UNCHANGED vars
      PROVE  TypeOK' /\ BelowThresholds' /\ Kept
  BY <1>9 DEF vars, TypeOK, BelowThresholds, ecu
<1> QED
  BY <1>1, <1>2, <1>3, <1>4, <1>5, <1>6, <1>7, <1>8, <1>9 DEF Next

LEMMA StepIInv == IInv /\ [Next]_vars => IInv'
<1> SUFFICES ASSUME IInv, [Next]_vars PROVE IInv'
  OBVIOUS
<1>1. ASSUME NEW c \in Controllers, Round(c) PROVE IInv'
  BY <1>1, RoundType, RoundVerdict DEF IInv
<1>2. CASE ~(\E c \in Controllers : Round(c))
  BY <1>2, OtherSteps, Undisturbed DEF IInv
<1> QED
  BY <1>1, <1>2

-----------------------------------------------------------------------------
\* The state of the programs stays in step with the frames they have read.
THEOREM Invariance == Spec => []IInv
<1> QED
  BY InitIInv, StepIInv, PTL DEF Spec

\* The IDS counters of ids.c never go past their thresholds, so that no
\* number of frames makes one wrap around.
THEOREM TypeCorrect == Spec => []TypeOK
<1>1. IInv => TypeOK
  BY DEF IInv
<1> QED
  BY <1>1, Invariance, PTL

\* A controller is in fail-safe exactly when what it has read gave cause: the
\* counters of ecu_recv and the checks of main agree on every sequence.
THEOREM VerdictExact == Spec => []AlarmsExact
<1>1. IInv => AlarmsExact
  BY DEF IInv
<1> QED
  BY <1>1, Invariance, PTL

\* No controller reads on after the frame that gave cause for an alarm.
THEOREM VerdictFinal == Spec => []StopsAtFirstAlarm
<1>1. IInv => StopsAtFirstAlarm
  BY DEF IInv
<1> QED
  BY <1>1, Invariance, PTL

\* Commands come only from frames under the controller's own key, of a listed
\* id and of one to eight bytes.
THEOREM CommandsAuthentic == Spec => []AppliedIsAuthentic
<1>1. IInv => AppliedIsAuthentic
  BY DEF IInv
<1> QED
  BY <1>1, Invariance, PTL

-----------------------------------------------------------------------------
(* The keys of the vehicle *)

LEMMA Sixteen == IsFiniteSet(0 .. 15) /\ Cardinality(0 .. 15) = 16
<1>1. ASSUME NEW n \in Nat
      PROVE  IsFiniteSet(0 .. n) /\ Cardinality(0 .. n) = n + 1
  <2>1. 0 \in Int /\ n \in Int /\ ~(0 > n) /\ n - 0 + 1 = n + 1
    OBVIOUS
  <2>2. QED
    BY <2>1, FS_Interval
<1>2. 15 \in Nat /\ 15 + 1 = 16
  OBVIOUS
<1>3. IsFiniteSet(0 .. 15) /\ Cardinality(0 .. 15) = 15 + 1
  BY <1>1, <1>2, Zenon
<1>4. QED
  BY <1>2, <1>3

\* A set and its copy 16 places up have together as many elements as both.
LEMMA Doubled ==
  ASSUME NEW A \in SUBSET (0 .. 15), NEW C \in SUBSET (0 .. 15)
  PROVE  /\ Cardinality(A) \in Nat /\ Cardinality(C) \in Nat
         /\ Cardinality(A \cup {k + 16 : k \in C}) = Cardinality(A) + Cardinality(C)
<1> DEFINE D == {k + 16 : k \in C}
           up == [k \in C |-> k + 16]
<1>1. IsFiniteSet(0 .. 15)
  BY Sixteen
<1>2. IsFiniteSet(A) /\ IsFiniteSet(C)
  BY <1>1, FS_Subset
<1>3. ExistsBijection(C, D)
  <2>1. up \in Bijection(C, D)
    <3>1. up \in [C -> D] /\ \A d \in D : \E k \in C : up[k] = d
      OBVIOUS
    <3>2. \A j, k \in C : up[j] = up[k] => j = k
      OBVIOUS
    <3>3. QED
      BY <3>1, <3>2, Zenon DEF Bijection, Injection, Surjection, IsInjective
  <2>2. QED
    BY <2>1 DEF ExistsBijection
<1>4. IsFiniteSet(D) /\ Cardinality(D) = Cardinality(C)
  BY <1>2, <1>3, FS_Bijection
<1>5. A \cap D = {} /\ Cardinality({}) = 0
  BY FS_EmptySet
<1>6. Cardinality(A) \in Nat /\ Cardinality(C) \in Nat
  BY <1>2, FS_CardinalityType
<1>7. Cardinality(A \cup D) = Cardinality(A) + Cardinality(D) - Cardinality(A \cap D)
  <2> HIDE DEF D
  <2>1. QED
    BY <1>2, <1>4, FS_Union
<1>8. QED
  BY <1>4, <1>5, <1>6, <1>7

\* The bits of a number, one by one.
LEMMA BitsOf ==
  ASSUME NEW n \in Int
  PROVE  /\ 0 \in Hsm!ByteOf(n) <=> (n \div 1) % 2 = 1
         /\ 1 \in Hsm!ByteOf(n) <=> (n \div 2) % 2 = 1
         /\ 2 \in Hsm!ByteOf(n) <=> (n \div 4) % 2 = 1
         /\ 3 \in Hsm!ByteOf(n) <=> (n \div 8) % 2 = 1
         /\ 4 \in Hsm!ByteOf(n) <=> (n \div 16) % 2 = 1
         /\ 5 \in Hsm!ByteOf(n) <=> (n \div 32) % 2 = 1
         /\ 6 \in Hsm!ByteOf(n) <=> (n \div 64) % 2 = 1
         /\ 7 \in Hsm!ByteOf(n) <=> (n \div 128) % 2 = 1
<1>1. /\ Hsm!Weight[0 + 1] = 1 /\ Hsm!Weight[1 + 1] = 2
      /\ Hsm!Weight[2 + 1] = 4 /\ Hsm!Weight[3 + 1] = 8
      /\ Hsm!Weight[4 + 1] = 16 /\ Hsm!Weight[5 + 1] = 32
      /\ Hsm!Weight[6 + 1] = 64 /\ Hsm!Weight[7 + 1] = 128
  BY DEF Hsm!Weight
<1>2. ASSUME NEW b \in 0 .. 7, NEW w, Hsm!Weight[b + 1] = w
      PROVE  b \in Hsm!ByteOf(n) <=> (n \div w) % 2 = 1
  BY <1>2, Zenon DEF Hsm!ByteOf
<1>3. /\ 0 \in 0 .. 7 /\ 1 \in 0 .. 7 /\ 2 \in 0 .. 7 /\ 3 \in 0 .. 7
      /\ 4 \in 0 .. 7 /\ 5 \in 0 .. 7 /\ 6 \in 0 .. 7 /\ 7 \in 0 .. 7
  OBVIOUS
<1>4. QED
  BY <1>1, <1>2, <1>3

\* Of an index below 16 and the one 16 further only bit 4 differs.
LEMMA IndexBits ==
  ASSUME NEW k \in 0 .. 15
  PROVE  /\ \A b \in 0 .. 7 \ {4} : b \in Hsm!ByteOf(k + 16) <=> b \in Hsm!ByteOf(k)
         /\ 4 \in Hsm!ByteOf(k + 16) <=> 4 \notin Hsm!ByteOf(k)
<1>1. /\ ((k + 16) \div 1) % 2 = (k \div 1) % 2
      /\ ((k + 16) \div 2) % 2 = (k \div 2) % 2
      /\ ((k + 16) \div 4) % 2 = (k \div 4) % 2
      /\ ((k + 16) \div 8) % 2 = (k \div 8) % 2
      /\ ((k + 16) \div 16) % 2 = 1 /\ (k \div 16) % 2 # 1
      /\ ((k + 16) \div 32) % 2 = (k \div 32) % 2
      /\ ((k + 16) \div 64) % 2 = (k \div 64) % 2
      /\ ((k + 16) \div 128) % 2 = (k \div 128) % 2
  OBVIOUS
<1> DEFINE lo == Hsm!ByteOf(k)
           hi == Hsm!ByteOf(k + 16)
<1>2. /\ (0 \in hi <=> 0 \in lo) /\ (1 \in hi <=> 1 \in lo)
      /\ (2 \in hi <=> 2 \in lo) /\ (3 \in hi <=> 3 \in lo)
      /\ 4 \in hi /\ 4 \notin lo /\ (5 \in hi <=> 5 \in lo)
      /\ (6 \in hi <=> 6 \in lo) /\ (7 \in hi <=> 7 \in lo)
  <2>1. k \in Int /\ k + 16 \in Int
    OBVIOUS
  <2>2. QED
    BY <1>1, <2>1, BitsOf
<1> HIDE DEF lo, hi
<1>3. \A b \in 0 .. 7 \ {4} : b \in hi <=> b \in lo
  <2>1. \A b \in 0 .. 7 \ {4} :
          b = 0 \/ b = 1 \/ b = 2 \/ b = 3 \/ b = 5 \/ b = 6 \/ b = 7
    OBVIOUS
  <2>2. QED
    BY <1>2, <2>1
<1>4. QED
  BY <1>2, <1>3 DEF lo, hi

\* Sixteen places further in the key the name repeats, and of the index only bit
\* 4 has changed.
LEMMA KeyRepeats ==
  ASSUME NEW name, Len(name) \in {1, 2, 4, 8, 16}, NEW k \in 0 .. 15
  PROVE  /\ \A b \in 0 .. 7 \ {4} :
              b \in Hsm!comm_key(name)[k + 16] <=> b \in Hsm!comm_key(name)[k]
         /\ 4 \in Hsm!comm_key(name)[k + 16] <=> 4 \notin Hsm!comm_key(name)[k]
<1> DEFINE n == Len(name)
           x == Hsm!ByteOf(name[(k % n) + 1])
<1>1. (k + 16) % n = k % n
  <2>1. /\ (k + 16) % 1 = k % 1 /\ (k + 16) % 2 = k % 2 /\ (k + 16) % 4 = k % 4
        /\ (k + 16) % 8 = k % 8 /\ (k + 16) % 16 = k % 16
    OBVIOUS
  <2>2. QED
    BY <2>1
<1>2. k \in 0 .. Hsm!HSM_KEY_SIZE - 1 /\ k + 16 \in 0 .. Hsm!HSM_KEY_SIZE - 1
  BY DEF Hsm!HSM_KEY_SIZE
<1>3. /\ Hsm!comm_key(name)[k] = Hsm!Xor(x, Hsm!ByteOf(k))
      /\ Hsm!comm_key(name)[k + 16] = Hsm!Xor(x, Hsm!ByteOf(k + 16))
  <2>1. \A i \in 0 .. Hsm!HSM_KEY_SIZE - 1 :
          Hsm!comm_key(name)[i]
            = Hsm!Xor(Hsm!ByteOf(name[(i % n) + 1]), Hsm!ByteOf(i))
    BY DEF Hsm!comm_key
  <2>2. QED
    BY <1>1, <1>2, <2>1
<1> HIDE DEF x
<1>4. /\ \A b \in 0 .. 7 \ {4} : b \in Hsm!ByteOf(k + 16) <=> b \in Hsm!ByteOf(k)
      /\ 4 \in Hsm!ByteOf(k + 16) <=> 4 \notin Hsm!ByteOf(k)
  BY IndexBits
<1>5. QED
  BY <1>3, <1>4 DEF Hsm!Xor

\* hsm_init leaves nothing of a name whose length divides 16: in the XOR of the
\* 32 key bytes it cancels, and so does the index.
LEMMA KeyVanishes ==
  ASSUME NEW name, Len(name) \in {1, 2, 4, 8, 16}
  PROVE  Hsm!KeyByte(name) = {}
<1> DEFINE key == Hsm!comm_key(name)
<1> DEFINE ones(b) == Cardinality({k \in 0 .. 31 : b \in key[k]})
<1>0. Hsm!KeyByte(name) = {b \in 0 .. 7 : ones(b) % 2 = 1}
  <2>1. 0 .. Hsm!HSM_KEY_SIZE - 1 = 0 .. 31
    BY DEF Hsm!HSM_KEY_SIZE
  <2> HIDE DEF key
  <2>2. Hsm!KeyByte(name) = Hsm!XorAll(key, 0 .. 31)
    BY <2>1 DEF Hsm!KeyByte, key
  <2>3. \A X : Hsm!Cardinality(X) = Cardinality(X)
    BY DEF Hsm!Cardinality, Cardinality
  <2>4. ASSUME NEW b \in 0 .. 7
        PROVE  b \in Hsm!XorAll(key, 0 .. 31) <=> ones(b) % 2 = 1
    <3> DEFINE K == {k \in 0 .. 31 : b \in key[k]}
    <3>1. b \in Hsm!XorAll(key, 0 .. 31) <=> Hsm!Cardinality(K) % 2 = 1
      BY DEF Hsm!XorAll
    <3>2. ones(b) = Cardinality(K)
      BY DEF ones
    <3> HIDE DEF K, ones
    <3>3. QED
      BY <2>3, <3>1, <3>2
  <2>5. \A b \in Hsm!XorAll(key, 0 .. 31) : b \in 0 .. 7
    BY DEF Hsm!XorAll
  <2> HIDE DEF ones
  <2>6. QED
    BY <2>2, <2>4, <2>5
<1> SUFFICES ASSUME NEW b \in 0 .. 7 PROVE ones(b) % 2 = 0
  <2> HIDE DEF ones
  <2>1. QED
    BY <1>0
<1> DEFINE S == {k \in 0 .. 31 : b \in key[k]}
           A == {k \in 0 .. 15 : b \in key[k]}
           C == {k \in 0 .. 15 : b \in key[k + 16]}
<1>1. S = A \cup {k + 16 : k \in C}
  <2> HIDE DEF key
  <2>1. ASSUME NEW k \in 0 .. 31
        PROVE  k \in 0 .. 15 \/ (k - 16 \in 0 .. 15 /\ k = (k - 16) + 16)
    OBVIOUS
  <2>2. \A k \in 0 .. 15 : k \in 0 .. 31 /\ k + 16 \in 0 .. 31
    OBVIOUS
  <2>3. QED
    BY <2>1, <2>2
<1>2. /\ Cardinality(A) \in Nat /\ Cardinality(C) \in Nat
      /\ Cardinality(S) = Cardinality(A) + Cardinality(C)
  <2>1. A \in SUBSET (0 .. 15) /\ C \in SUBSET (0 .. 15)
    OBVIOUS
  <2> HIDE DEF S, A, C
  <2>2. QED
    BY <1>1, <2>1, Doubled
<1>3. CASE b # 4
  <2>1. A = C
    BY <1>3, KeyRepeats
  <2> HIDE DEF S, A, C
  <2>2. QED
    BY <1>2, <2>1 DEF S
<1>4. CASE b = 4
  <2>1. C = (0 .. 15) \ A
    BY <1>4, KeyRepeats
  <2> DEFINE T == 0 .. 15
  <2>2. T \cap A = A /\ C = T \ A
    BY <2>1
  <2>3. IsFiniteSet(T) /\ Cardinality(T) = 16
    BY Sixteen
  <2> HIDE DEF S, A, C, T
  <2>4. Cardinality(T \ A) = Cardinality(T) - Cardinality(T \cap A)
    BY <2>3, FS_Difference
  <2>5. Cardinality(C) = 16 - Cardinality(A)
    BY <2>2, <2>3, <2>4
  <2>6. Cardinality(S) = 16
    BY <1>2, <2>5
  <2>7. QED
    BY <2>6 DEF S
<1>5. QED
  BY <1>3, <1>4

\* The names of the wheels have 8 characters, that of the brake controller 16.
LEMMA NameLengths ==
  /\ \A w \in FourWheels : Len(EcuName[w]) = 8
  /\ Len(EcuName[brake_controller]) = 16
BY ZenonT(60), VehicleAssumption DEF EcuName, FourWheels, TwoControllers

\* hsm_init gives the brake controller and every wheel keys with the same XOR.
LEMMA KeysAgree ==
  ASSUME brake_controller \in Controllers, NEW w \in Wheels
  PROVE  CommKey[w] = CommKey[brake_controller]
<1>1. w \in FourWheels /\ w \in Ecus /\ brake_controller \in Ecus
  BY VehicleAssumption DEF Ecus
<1>2. Hsm!KeyByte(EcuName[w]) = {} /\ Hsm!KeyByte(EcuName[brake_controller]) = {}
  BY <1>1, NameLengths, KeyVanishes
<1>3. /\ DOMAIN EcuName = FourWheels \cup TwoControllers
      /\ brake_controller \in TwoControllers
  BY DEF EcuName, TwoControllers
<1>4. KeyOfName[w] = {} /\ KeyOfName[brake_controller] = {}
  BY <1>1, <1>2, <1>3 DEF KeyOfName
<1>5. QED
  BY <1>1, <1>4, VehicleAssumption DEF VehicleKey

LEMMA TrustsAlways ==
  brake_controller \in Controllers => BrakeTrustsWheels
<1> SUFFICES ASSUME brake_controller \in Controllers,
                    NEW k \in 1 .. Len(seen[brake_controller]),
                    ByWheel(seen[brake_controller][k])
             PROVE  /\ sec_ok(CommKey[brake_controller], seen[brake_controller][k])
                    /\ k \notin Unverified(brake_controller,
                                          Len(seen[brake_controller]))
  BY DEF BrakeTrustsWheels
<1> DEFINE f == seen[brake_controller][k]
<1>1. PICK w \in Wheels : f = hsm_protect_frame(CommKey[w], Signal(WheelId[w], TRUE))
  BY DEF ByWheel, WheelFrames
<1>2. f.crc_ok /\ f.mac = CommKey[w] /\ f.id = WheelId[w] /\ f.dlc = 1
  BY <1>1 DEF hsm_protect_frame, Signal
<1>3. id_allowed(WheelId[w])
  BY VehicleAssumption DEF WheelId, FourWheels, id_allowed
<1>4. f.mac = CommKey[brake_controller]
  BY <1>2, KeysAgree
<1>5. QED
  BY <1>2, <1>3, <1>4
     DEF sec_ok, hsm_verify_mac, hsm_verify_frame, Unverified, CAN_MAX_DATA_LEN

\* In the vehicle as it is named, the brake controller never refuses what a wheel
\* has protected, nor counts it as a MAC error (hsm.c:31-46, ecu.c:41-64,
\* main_brake_controller.c:21-28).
THEOREM WheelsTrusted ==
  brake_controller \in Controllers => (Spec => []BrakeTrustsWheels)
<1> SUFFICES ASSUME brake_controller \in Controllers
             PROVE  Spec => []BrakeTrustsWheels
  OBVIOUS
<1>1. BrakeTrustsWheels
  BY TrustsAlways
<1>2. QED
  BY <1>1, PTL
=============================================================================

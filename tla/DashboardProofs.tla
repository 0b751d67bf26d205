--------------------------- MODULE DashboardProofs ---------------------------
(***************************************************************************)
(* Theorems about Dashboard, for every set of scenes: whatever programs    *)
(* run together and wherever TCP splits their frames.                      *)
(***************************************************************************)
EXTENDS Dashboard, TLAPS

\* A byte taken out of the XOR arithmetic of hsm.c is a byte.
LEMMA ValueIsByte == \A b : Hsm!Value(b) \in 0 .. 255
  BY DEF Hsm!Value, Hsm!Weight

LEMMA IdIsWord == Id \in [Signals -> 256 .. 770]
  BY DEF Id, Signals, CAN_ID_WHEEL_FL, CAN_ID_WHEEL_FR, CAN_ID_WHEEL_RL,
         CAN_ID_WHEEL_RR, CAN_ID_ENGINE, CAN_ID_STEER, CAN_ID_BRAKE_CMD,
         CAN_ID_STEER_CMD

\* The layout of a cleared frame, as far as it does not depend on the HSM.
LEMMA ClearedBytes ==
  ASSUME NEW s, NEW d
  PROVE  /\ Cleared(s, d, 0) = Id[s] % 256
         /\ Cleared(s, d, 1) = Id[s] \div 256
         /\ Cleared(s, d, 2) = 0 /\ Cleared(s, d, 3) = 0
         /\ Cleared(s, d, 4) = 1
         /\ Cleared(s, d, 5) = d
         /\ Cleared(s, d, 52) = IF s \in WheelSignals THEN 1 ELSE 0
         /\ \A k \in (6 .. 15) \cup (53 .. 63) : Cleared(s, d, k) = 0
         /\ s \notin WheelSignals => \A k \in 16 .. 63 : Cleared(s, d, k) = 0
<1> DEFINE crc(k) == Hsm!Value({b \in 0 .. 7 :
                       8 * (k - 16) + b \in Protected[s][d].crc})
           mac(k) == Hsm!Value(Protected[s][d].mac[k - 20])
           secured == s \in WheelSignals
<1> HIDE DEF crc, mac, secured
<1>1. \A k : Cleared(s, d, k) =
        CASE k = 0 -> Id[s] % 256
          [] k = 1 -> Id[s] \div 256
          [] k = 4 -> 1
          [] k = 5 -> d
          [] k \in 16 .. 19 /\ secured -> crc(k)
          [] k \in 20 .. 51 /\ secured -> mac(k)
          [] k = 52 /\ secured -> 1
          [] OTHER -> 0
  BY Zenon DEF Cleared, crc, mac, secured
<1>2. QED
  BY <1>1 DEF secured

\* A frame is what it was cleared to, but for the bytes its sender has left.
LEMMA PlainByte ==
  ASSUME NEW f, NEW k, f.rest = << >> \/ k \notin OtherBytes
  PROVE  Byte(f, k) = Cleared(f.sig, f.data, k)
  BY Zenon DEF Byte

\* The bytes of any frame that lead the monitor to a slot and its number.
LEMMA FieldsOfFrame ==
  ASSUME NEW f
  PROVE  /\ Byte(f, 0) = Id[f.sig] % 256
         /\ Byte(f, 1) = Id[f.sig] \div 256
         /\ Byte(f, 2) = 0 /\ Byte(f, 3) = 0
         /\ Byte(f, 5) = f.data
<1>1. \A k \in {0, 1, 2, 3, 5} : k \notin OtherBytes
  BY DEF OtherBytes, FrameBytes
<1>2. \A k \in {0, 1, 2, 3, 5} : Byte(f, k) = Cleared(f.sig, f.data, k)
  BY <1>1, PlainByte, Zenon
<1>3. QED
  BY <1>2, ClearedBytes

\* Every byte of every frame is in 0 .. 255.
LEMMA ByteIsByte ==
  ASSUME NEW f \in Frames, NEW k \in 0 .. 63
  PROVE  Byte(f, k) \in 0 .. 255
<1> DEFINE s == f.sig
           d == f.data
<1>1. s \in Signals /\ d \in 0 .. 255
  BY DEF Frames
<1>2. Cleared(s, d, k) \in 0 .. 255
  <2> HIDE DEF s, d
  <2> DEFINE n == Id[s]
             crc == {b \in 0 .. 7 : 8 * (k - 16) + b \in Protected[s][d].crc}
             mac == Protected[s][d].mac[k - 20]
  <2>1. n \in 256 .. 770
    BY <1>1, IdIsWord
  <2> HIDE DEF n, crc, mac
  <2>2. n % 256 \in 0 .. 255 /\ n \div 256 \in 0 .. 255
    BY <2>1
  <2>3. Hsm!Value(crc) \in 0 .. 255
    BY ONLY ValueIsByte
  <2>4. Hsm!Value(mac) \in 0 .. 255
    BY ONLY ValueIsByte
  <2>5. Cleared(s, d, k) \in
          {n % 256, n \div 256, 0, 1, d, Hsm!Value(crc), Hsm!Value(mac)}
    BY ZenonT(30) DEF Cleared, n, crc, mac
  <2>6. QED
    BY <1>1, <2>2, <2>3, <2>4, <2>5
<1>3. CASE f.rest # << >> /\ k \in OtherBytes
  <2>1. f.rest \in [OtherBytes -> 0 .. 255]
    BY <1>3 DEF Frames
  <2>2. Byte(f, k) = f.rest[k]
    BY <1>3, Zenon DEF Byte
  <2>3. QED
    BY <1>3, <2>1, <2>2
<1>4. CASE f.rest = << >> \/ k \notin OtherBytes
  <2>1. Byte(f, k) = Cleared(f.sig, f.data, k)
    BY <1>4, PlainByte, Zenon
  <2>2. QED
    BY <1>2, <2>1
<1>5. QED
  BY <1>3, <1>4

-----------------------------------------------------------------------------
(* The ranges of the signals *)

\* An angle that moves by d, and turns back once it is beyond its limit, never
\* gets further than one step past the limit.
LEMMA SwingKept ==
  ASSUME NEW s \in Angles, NEW reach \in 0 .. 127, NEW d \in 1 .. 20,
         reach = Limit[s] + d, Limit[s] \in 20 .. 30,
         value[s] \in Int, step[s] \in Int,
         Swing(s, reach, d),
         value'[s] = NextValue(s, value[s], step[s]),
         step'[s] = NextStep(s, value'[s], step[s])
  PROVE  Swing(s, reach, d)'
<1> DEFINE v == value[s]
           e == step[s]
<1>1. s \notin WheelSignals /\ s # "ENGINE" /\ s # "BRAKE_CMD"
  BY DEF Angles, Limit, WheelSignals
<1>2. value'[s] = Int8(v + e)
  BY <1>1 DEF NextValue
<1>3. e \in {-d, d} /\ v \in -reach .. reach
  BY DEF Swing
<1>4. /\ v > Limit[s] => e = -d
      /\ v < -Limit[s] => e = d
  BY DEF Swing
<1>5. value'[s] = v + e /\ v + e \in -reach .. reach
  <2>1. v + e \in -reach .. reach
    BY SMTT(30), <1>3, <1>4
  <2>2. Int8(v + e) = v + e
    BY <2>1 DEF Int8
  <2>3. QED
    BY <1>2, <2>1, <2>2
<1>6. Int8(-e) = -e
  BY <1>3 DEF Int8
<1>7. step'[s] = IF v + e > Limit[s] \/ v + e < -Limit[s] THEN -e ELSE e
  BY <1>5, <1>6 DEF NextStep
<1>8. step'[s] \in {-d, d}
  BY <1>3, <1>7
<1>9. v + e > Limit[s] => step'[s] = -d
  BY <1>3, <1>4, <1>7
<1>10. v + e < -Limit[s] => step'[s] = d
  BY <1>3, <1>4, <1>7
<1>11. QED
  BY <1>5, <1>8, <1>9, <1>10 DEF Swing

\* What one step of the system does to a signal: nothing, or one round.
LEMMA StepOfSignal ==
  ASSUME value \in [Signals -> Int], step \in [Signals -> Int],
         [Next]_vars, NEW s \in Signals
  PROVE  /\ value' \in [Signals -> {value'[r] : r \in Signals}]
         /\ step' \in [Signals -> {step'[r] : r \in Signals}]
         /\ \/ value'[s] = value[s] /\ step'[s] = step[s]
            \/ /\ value'[s] = NextValue(s, value[s], step[s])
               /\ step'[s] = NextStep(s, value'[s], step[s])
<1> DEFINE Goal ==
      /\ value' \in [Signals -> {value'[r] : r \in Signals}]
      /\ step' \in [Signals -> {step'[r] : r \in Signals}]
      /\ \/ value'[s] = value[s] /\ step'[s] = step[s]
         \/ /\ value'[s] = NextValue(s, value[s], step[s])
            /\ step'[s] = NextStep(s, value'[s], step[s])
<1>1. ASSUME UNCHANGED <<value, step>>
      PROVE  Goal
  BY <1>1
<1>2. ASSUME NEW p \in running, Advance(p)
      PROVE  Goal
  <2>1. CASE EndsRound(p)
    <3>1. /\ value' = [r \in Signals |->
                IF r \in Own(p) THEN NextValue(r, value[r], step[r]) ELSE value[r]]
          /\ step' = [r \in Signals |->
                IF r \in Own(p) THEN NextStep(r, value'[r], step[r]) ELSE step[r]]
      BY <1>2, <2>1 DEF Advance
    <3>2. QED
      BY <3>1
  <2>2. CASE ~EndsRound(p)
    BY <1>1, <1>2, <2>2 DEF Advance
  <2>3. QED
    BY <2>1, <2>2
<1>3. CASE UNCHANGED vars
  BY <1>1, <1>3 DEF vars, senders
<1>4. CASE \E p \in running : Start(p)
  BY <1>1, <1>4 DEF Start
<1>5. CASE \E p \in running : Send(p) \/ Stall(p) \/ Drop(p)
  BY <1>2, <1>5 DEF Send, Stall, Drop
<1>6. CASE \E p \in running : SendToNobody(p)
  BY <1>1, <1>2, <1>6 DEF SendToNobody
<1>7. CASE BusStops \/ MonitorStart \/ Arrive
  BY <1>1, <1>7 DEF BusStops, MonitorStart, Arrive, senders
<1>8. CASE Recv
  BY <1>1, <1>8 DEF Recv, RecvFrame, RecvPart, senders
<1>9. CASE Quit \/ RecvError
  BY <1>1, <1>9 DEF Quit, RecvError, MonitorEnds, senders
<1>10. QED
  BY <1>3, <1>4, <1>5, <1>6, <1>7, <1>8, <1>9 DEF Next

\* Signals that start again keep the step they began with.
RangeInv ==
  /\ value \in [Signals -> Int]
  /\ step \in [Signals -> Int]
  /\ \A s \in Signals \ Angles : step[s] = FirstStep[s]
  /\ InRange

LEMMA RangeInit == Init => RangeInv
  BY DEF Init, RangeInv, InRange, Swing, Signals, WheelSignals, Angles, Id,
         Limit, FirstValue, FirstStep

LEMMA RangeNext == RangeInv /\ [Next]_vars => RangeInv'
<1> SUFFICES ASSUME RangeInv, [Next]_vars
             PROVE  RangeInv'
  OBVIOUS
<1> USE DEF RangeInv
<1> DEFINE Same(s) == value'[s] = value[s] /\ step'[s] = step[s]
           Round(s) == /\ value'[s] = NextValue(s, value[s], step[s])
                       /\ step'[s] = NextStep(s, value'[s], step[s])
<1>1. \A s \in Signals : Same(s) \/ Round(s)
  BY StepOfSignal
<1>2. Signals = {"WHEEL_FL", "WHEEL_FR", "WHEEL_RL", "WHEEL_RR", "ENGINE",
                 "STEER", "BRAKE_CMD", "STEER_CMD"}
  BY DEF Signals, Id
<1>3. Angles = {"STEER", "STEER_CMD"}
  BY DEF Angles, Limit
<1>4. ASSUME NEW s \in WheelSignals
      PROVE  value'[s] \in 0 .. 199 /\ step'[s] = FirstStep[s]
  <2>1. s \in Signals \ Angles
    BY <1>2, <1>3 DEF WheelSignals
  <2>2. value[s] \in 0 .. 199 /\ step[s] = FirstStep[s] /\ step[s] \in 1 .. 4
    BY <2>1 DEF InRange, FirstStep, WheelSignals
  <2>3. CASE Same(s)
    BY <2>2, <2>3
  <2>4. CASE Round(s)
    <3>1. (value[s] + step[s]) % 200 \in 0 .. 199
      BY <2>2
    <3>2. value'[s] = Uint8((value[s] + step[s]) % 200)
      BY <1>3, <2>1, <2>4 DEF NextValue, WheelSignals
    <3>3. value'[s] \in 0 .. 199
      BY <3>1, <3>2 DEF Uint8
    <3>4. step'[s] = step[s]
      BY <2>1, <2>4 DEF NextStep
    <3>5. QED
      BY <2>2, <3>3, <3>4
  <2>5. QED
    BY <1>1, <2>1, <2>3, <2>4
<1>5. /\ value'["ENGINE"] \in 8 .. 40 /\ step'["ENGINE"] = FirstStep["ENGINE"]
      /\ value'["BRAKE_CMD"] \in 0 .. 100
      /\ step'["BRAKE_CMD"] = FirstStep["BRAKE_CMD"]
  <2>1. /\ value["ENGINE"] \in 8 .. 40 /\ step["ENGINE"] = 4
        /\ value["BRAKE_CMD"] \in 0 .. 100 /\ step["BRAKE_CMD"] = 5
    BY <1>2, <1>3 DEF InRange, FirstStep
  <2>0. /\ Same("ENGINE") \/ Round("ENGINE")
        /\ Same("BRAKE_CMD") \/ Round("BRAKE_CMD")
    BY <1>1, <1>2
  <2> HIDE DEF Same
  <2>2. Same("ENGINE") \/ value'["ENGINE"] = Reset(Uint8(value["ENGINE"] + 4), 40, 8)
    BY <2>0, <2>1, <1>3 DEF NextValue, WheelSignals
  <2>3. Same("BRAKE_CMD")
          \/ value'["BRAKE_CMD"] = Reset(Uint8(value["BRAKE_CMD"] + 5), 100, 0)
    BY <2>0, <2>1, <1>3 DEF NextValue, WheelSignals
  <2>4. step'["ENGINE"] = step["ENGINE"] /\ step'["BRAKE_CMD"] = step["BRAKE_CMD"]
    BY <2>0, <1>3 DEF NextStep, Same
  <2>5. QED
    BY <2>1, <2>2, <2>3, <2>4 DEF Reset, Uint8, FirstStep, Same
<1>6. Swing("STEER", 35, 5)'
  <2>1. CASE Same("STEER")
    BY <2>1 DEF InRange, Swing
  <2>2. CASE Round("STEER")
    <3>1. "STEER" \in Angles
      BY <1>3
    <3>2. /\ 35 = Limit["STEER"] + 5 /\ Limit["STEER"] \in 20 .. 30
          /\ 35 \in 0 .. 127 /\ 5 \in 1 .. 20
      BY DEF Limit
    <3>3. value["STEER"] \in Int /\ step["STEER"] \in Int
      BY <1>2
    <3>4. Swing("STEER", 35, 5)
      BY DEF InRange
    <3>5. QED
      BY ONLY <2>2, <3>1, <3>2, <3>3, <3>4, SwingKept, Zenon
  <2>3. QED
    BY <1>1, <1>2, <2>1, <2>2
<1>7. Swing("STEER_CMD", 22, 2)'
  <2>1. CASE Same("STEER_CMD")
    BY <2>1 DEF InRange, Swing
  <2>2. CASE Round("STEER_CMD")
    <3>1. "STEER_CMD" \in Angles
      BY <1>3
    <3>2. /\ 22 = Limit["STEER_CMD"] + 2 /\ Limit["STEER_CMD"] \in 20 .. 30
          /\ 22 \in 0 .. 127 /\ 2 \in 1 .. 20
      BY DEF Limit
    <3>3. value["STEER_CMD"] \in Int /\ step["STEER_CMD"] \in Int
      BY <1>2
    <3>4. Swing("STEER_CMD", 22, 2)
      BY DEF InRange
    <3>5. QED
      BY ONLY <2>2, <3>1, <3>2, <3>3, <3>4, SwingKept, Zenon
  <2>3. QED
    BY <1>1, <1>2, <2>1, <2>2
<1>8. InRange'
  BY <1>4, <1>5, <1>6, <1>7 DEF InRange
<1>9. \A s \in Signals \ Angles : step'[s] = FirstStep[s]
  BY <1>2, <1>3, <1>4, <1>5 DEF WheelSignals
<1>10. \A s \in Signals : value'[s] \in Int /\ step'[s] \in Int
  <2>1. FirstStep \in [Signals -> Int]
    BY <1>2 DEF FirstStep
  <2>2. ASSUME NEW s \in Signals \ Angles
        PROVE  value'[s] \in Int /\ step'[s] \in Int
    BY <1>2, <1>3, <1>4, <1>5, <1>9, <2>1 DEF WheelSignals
  <2>3. ASSUME NEW s \in Angles
        PROVE  value'[s] \in Int /\ step'[s] \in Int
    BY <1>3, <1>6, <1>7 DEF Swing
  <2>4. QED
    BY <2>2, <2>3
<1>11. value' \in [Signals -> Int] /\ step' \in [Signals -> Int]
  BY <1>2, <1>10, StepOfSignal
<1>12. QED
  BY <1>8, <1>9, <1>11

\* However long the programs run, no signal leaves its range and no 8-bit sum
\* wraps around.
THEOREM SignalsInRange == Spec => []InRange
<1>1. RangeInv => InRange
  BY DEF RangeInv
<1>2. QED
  BY <1>1, RangeInit, RangeNext, PTL DEF Spec

-----------------------------------------------------------------------------
(* Types, and what the display shows *)

LEMMA Shapes ==
  /\ Signals = {"WHEEL_FL", "WHEEL_FR", "WHEEL_RL", "WHEEL_RR", "ENGINE",
                "STEER", "BRAKE_CMD", "STEER_CMD"}
  /\ Id \in [Signals -> Nat]
  /\ \A r, s \in Signals : Id[r] = Id[s] => r = s
  /\ \A p \in Programs : /\ Sends[p] \in Seq(Signals)
                          /\ Len(Sends[p]) \in 1 .. 3
<1>1. Signals = {"WHEEL_FL", "WHEEL_FR", "WHEEL_RL", "WHEEL_RR", "ENGINE",
                 "STEER", "BRAKE_CMD", "STEER_CMD"}
  BY DEF Signals, Id
<1>2. Id \in [Signals -> Nat] /\ \A r, s \in Signals : Id[r] = Id[s] => r = s
  BY <1>1 DEF Id, CAN_ID_WHEEL_FL, CAN_ID_WHEEL_FR, CAN_ID_WHEEL_RL,
     CAN_ID_WHEEL_RR, CAN_ID_ENGINE, CAN_ID_STEER, CAN_ID_BRAKE_CMD,
     CAN_ID_STEER_CMD
<1>3. \A p \in Programs : Sends[p] \in Seq(Signals) /\ Len(Sends[p]) \in 1 .. 3
  <2>1. \A s \in Signals : <<s>> \in Seq(Signals) /\ Len(<<s>>) \in 1 .. 3
    OBVIOUS
  <2>2. /\ <<"BRAKE_CMD", "STEER_CMD">> \in Seq(Signals)
        /\ Len(<<"BRAKE_CMD", "STEER_CMD">>) \in 1 .. 3
        /\ <<"ENGINE", "BRAKE_CMD", "STEER_CMD">> \in Seq(Signals)
        /\ Len(<<"ENGINE", "BRAKE_CMD", "STEER_CMD">>) \in 1 .. 3
    BY <1>1
  <2>3. ASSUME NEW p \in Programs
        PROVE  \/ \E s \in Signals : Sends[p] = <<s>>
               \/ Sends[p] = <<"BRAKE_CMD", "STEER_CMD">>
               \/ Sends[p] = <<"ENGINE", "BRAKE_CMD", "STEER_CMD">>
    BY <1>1 DEF Programs, Sends
  <2>4. ASSUME NEW p \in Programs
        PROVE  Sends[p] \in Seq(Signals) /\ Len(Sends[p]) \in 1 .. 3
    <3> DEFINE frames == Sends[p]
    <3>1. \/ \E s \in Signals : frames = <<s>>
          \/ frames = <<"BRAKE_CMD", "STEER_CMD">>
          \/ frames = <<"ENGINE", "BRAKE_CMD", "STEER_CMD">>
      BY <2>3
    <3> HIDE DEF frames
    <3>2. CASE \E s \in Signals : frames = <<s>>
      BY <2>1, <3>2 DEF frames
    <3>3. CASE ~\E s \in Signals : frames = <<s>>
      BY <2>2, <3>1, <3>3, Zenon DEF frames
    <3>4. QED
      BY <3>2, <3>3
  <2>5. QED
    BY <2>4
<1>4. QED
  BY <1>1, <1>2, <1>3

\* What the frames on their way say has been sent: data and flag together, and no
\* flag but the right one by anyone who clears his frames.  As long as no frame
\* has been split the monitor reads from the beginning of one.
AsSent(f) == [data |-> f.data, secured |-> Byte(f, 52) # 0]

Forged(f) == f.rest # << >>

StreamSent ==
  \A k \in 1 .. Len(stream) :
    /\ AsSent(stream[k]) \in sent[stream[k].sig]
    /\ Forged(stream[k]) => Contested(stream[k].sig)

FlagsSent ==
  \A s \in Signals : ~Contested(s) =>
    \A m \in sent[s] : m.secured <=> s \in WheelSignals

Aligned == ~torn => read = 0

IInv == TypeOK /\ RangeInv /\ Aligned /\ StreamSent /\ FlagsSent /\ ShownWasSent

LEMMA InvInit == Init => IInv
<1> SUFFICES ASSUME Init PROVE IInv
  OBVIOUS
<1>1. RangeInv
  BY RangeInit
<1>2. running \in SUBSET Programs
  BY DashboardAssumption DEF Init, running
<1>3. SendersOK
  <2>1. /\ value \in [Signals -> -128 .. 255]
        /\ step \in [Signals -> -128 .. 127]
    <3>1. value = FirstValue /\ step = FirstStep
      BY DEF Init
    <3>2. FirstValue \in [Signals -> -128 .. 255]
      BY Shapes DEF FirstValue
    <3>3. FirstStep \in [Signals -> -128 .. 127]
      BY Shapes DEF FirstStep
    <3>4. QED
      BY <3>1, <3>2, <3>3
  <2>2. /\ turn \in [running -> Nat]
        /\ \A p \in running : turn[p] \in 1 .. Len(Sends[p])
    <3>1. turn = [p \in running |-> 1]
      BY DEF Init
    <3>2. \A p \in running : Len(Sends[p]) \in 1 .. 3
      BY <1>2, Shapes
    <3> HIDE DEF running
    <3>3. QED
      BY <3>1, <3>2
  <2>3. pc \in [running -> {"start", "loop", "dropped", "done", "killed"}]
    BY DEF Init
  <2>4. scene \in Scenes /\ bus \in {"up", "stuck", "down"}
    BY DEF Init
  <2>5. unread \in [running -> 0 .. scene.buffer] /\ lost \in [running -> 0 .. scene.room]
    <3>1. scene.buffer \in Nat /\ scene.room \in Nat
      BY <2>4, DashboardAssumption
    <3>2. unread = [p \in running |-> 0] /\ lost = [p \in running |-> 0]
      BY DEF Init
    <3> HIDE DEF running
    <3>3. QED
      BY <3>1, <3>2
  <2>6. QED
    BY <2>1, <2>2, <2>3, <2>4, <2>5 DEF SendersOK
<1>6. SocketOK
  BY DEF Init, SocketOK, FrameBytes
<1>7. MonitorOK
  <2>1. Blank \in [id : Nat, data : 0 .. 255, secured : BOOLEAN]
    BY DEF Blank
  <2>2. QED
    BY <2>1 DEF Init, MonitorOK
<1>4. Aligned /\ StreamSent /\ FlagsSent /\ ShownWasSent
  BY DEF Init, Aligned, StreamSent, FlagsSent, ShownWasSent
<1>8. QED
  BY <1>1, <1>3, <1>4, <1>6, <1>7 DEF IInv, TypeOK

\* The programs' variables stay in their sets.
LEMMA AdvanceType ==
  ASSUME SendersOK, RangeInv', NEW p \in running, Advance(p), scene' = scene
  PROVE  /\ turn' \in [running -> Nat]
         /\ \A q \in running : turn'[q] \in 1 .. Len(Sends[q])
         /\ value' \in [Signals -> -128 .. 255]
         /\ step' \in [Signals -> -128 .. 127]
<1>1. running \in SUBSET Programs
  BY DashboardAssumption DEF SendersOK, running
<1> HIDE DEF running
<1> DEFINE len == Len(Sends[p])
           next == (turn[p] % len) + 1
<1>2. turn' = [turn EXCEPT ![p] = next]
  BY DEF Advance
<1>3. len \in 1 .. 3
  BY <1>1, Shapes
<1>4. turn[p] \in 1 .. len
  BY DEF SendersOK
<1> HIDE DEF len
<1>5. next \in 1 .. len /\ next \in Nat
  BY <1>3, <1>4
<1> HIDE DEF next
<1>6. /\ turn' \in [running -> Nat]
      /\ \A q \in running : turn'[q] \in 1 .. Len(Sends[q])
  BY <1>2, <1>5 DEF SendersOK, len
<1>7. ASSUME NEW s \in Signals
      PROVE  value'[s] \in -128 .. 255 /\ step'[s] \in -128 .. 127
  <2>1. CASE s \in WheelSignals
    BY <2>1 DEF RangeInv, InRange, WheelSignals, FirstStep, Angles, Limit
  <2>2. CASE s \in {"ENGINE", "BRAKE_CMD"}
    BY <2>2 DEF RangeInv, InRange, FirstStep, Angles, Limit
  <2>3. CASE s \in {"STEER", "STEER_CMD"}
    BY <2>3 DEF RangeInv, InRange, Swing
  <2>4. QED
    BY <2>1, <2>2, <2>3, Shapes DEF WheelSignals
<1>8. QED
  BY <1>6, <1>7, SMTT(60) DEF RangeInv

LEMMA ElementOfSeq ==
  ASSUME NEW S, NEW q \in Seq(S), NEW k \in 1 .. Len(q)
  PROVE  q[k] \in S
  OBVIOUS

\* recv() leaves a socket in which only frames are left that were in it.
LEMMA TakeKeeps ==
  ASSUME SocketOK, NEW n \in 1 .. FrameBytes, read + n <= arrived, Take(n)
  PROVE  /\ SocketOK'
         /\ \A k \in 1 .. Len(stream') :
              \E j \in 1 .. Len(stream) : stream'[k] = stream[j]
<1>1. CASE read + n < FrameBytes
  <2>1. read' = read + n /\ stream' = stream /\ arrived' = arrived
    BY <1>1 DEF Take
  <2>2. SocketOK'
    BY <1>1, <2>1 DEF SocketOK, FrameBytes
  <2>3. QED
    BY <2>1, <2>2 DEF SocketOK
<1>2. CASE ~(read + n < FrameBytes)
  <2>1. /\ read' = read + n - FrameBytes
        /\ stream' = Tail(stream)
        /\ arrived' = arrived - FrameBytes
    BY <1>2 DEF Take, SocketOK, FrameBytes
  <2>2. arrived >= FrameBytes /\ Len(stream) \in Nat \ {0}
    BY <1>2 DEF SocketOK, FrameBytes
  <2>3. /\ stream' \in Seq(Frames)
        /\ Len(stream') = Len(stream) - 1
        /\ \A k \in 1 .. Len(stream') : stream'[k] = stream[k + 1]
    BY <2>1, <2>2 DEF SocketOK
  <2>4. read' \in 0 .. FrameBytes - 1
    BY <1>2, <2>1 DEF SocketOK, FrameBytes
  <2>5. read' <= arrived'
    BY <2>1 DEF SocketOK, FrameBytes
  <2>6. arrived' \in 0 .. FrameBytes * Len(stream')
    BY <2>1, <2>2, <2>3 DEF SocketOK, FrameBytes
  <2>7. SocketOK'
    BY <2>3, <2>4, <2>5, <2>6 DEF SocketOK
  <2>8. ASSUME NEW k \in 1 .. Len(stream')
        PROVE  \E j \in 1 .. Len(stream) : stream'[k] = stream[j]
    <3>1. k + 1 \in 1 .. Len(stream)
      BY <2>2, <2>3
    <3>2. stream'[k] = stream[k + 1]
      BY <2>3
    <3>3. QED
      BY <3>1, <3>2
  <2>9. QED
    BY <2>7, <2>8
<1>3. QED
  BY <1>1, <1>2

\* A whole frame's worth in the socket means that a frame was written.
LEMMA FrameInSocket ==
  ASSUME SocketOK, Available = FrameBytes
  PROVE  Len(stream) >= 1 /\ Len(stream) \in Nat
<1>1. Len(stream) \in Nat
  BY DEF SocketOK
<1>2. arrived - read >= FrameBytes
  BY DEF Available, SocketOK, FrameBytes
<1>3. QED
  BY <1>1, <1>2 DEF SocketOK, FrameBytes

\* When a whole frame's worth has arrived, every byte recv() copies is a byte of
\* a frame in the socket, and of the first one when the read starts with it.
LEMMA BufferIsByte ==
  ASSUME SocketOK, Available = FrameBytes, NEW k \in 0 .. 63
  PROVE  /\ Buffer(k) \in 0 .. 255
         /\ Len(stream) >= 1
         /\ read = 0 => Buffer(k) = Byte(stream[1], k)
<1> DEFINE i == 1 + ((read + k) \div FrameBytes)
           b == (read + k) % FrameBytes
<1>1. arrived - read >= FrameBytes
  BY DEF Available, SocketOK, FrameBytes
<1>2. read + k < FrameBytes * Len(stream)
  BY <1>1 DEF SocketOK, FrameBytes
<1>3. i \in 1 .. Len(stream) /\ b \in 0 .. 63
  BY <1>2 DEF SocketOK, FrameBytes
<1>4. read = 0 => i = 1 /\ b = k
  BY DEF FrameBytes
<1>5. stream[i] \in Frames
  <2>1. stream \in Seq(Frames)
    BY DEF SocketOK, Frames
  <2>2. QED
    BY <1>3, <2>1, ElementOfSeq
<1>6. Buffer(k) = Byte(stream[i], b)
  BY DEF Buffer
<1> HIDE DEF i, b
<1>7. Byte(stream[i], b) \in 0 .. 255
  BY <1>3, <1>5, ByteIsByte
<1>8. QED
  BY <1>3, <1>4, <1>6, <1>7

\* A read that starts with a frame takes that frame for what it is.
LEMMA WholeFrameRead ==
  ASSUME SocketOK, Available = FrameBytes, read = 0, NEW s \in Signals
  PROVE  /\ IsCase(s) <=> s = stream[1].sig
         /\ data = stream[1].data
         /\ (Buffer(52) # 0) = (Byte(stream[1], 52) # 0)
<1> DEFINE f == stream[1]
<1>1. f \in Frames
  <2>1. stream \in Seq(Frames)
    BY DEF SocketOK, Frames
  <2>2. Len(stream) >= 1 /\ Len(stream) \in Nat
    BY <2>1, FrameInSocket
  <2>3. QED
    BY <2>1, <2>2, ElementOfSeq
<1>2. \A k \in 0 .. 63 : Buffer(k) = Byte(f, k)
  BY BufferIsByte
<1> HIDE DEF f
<1>3. /\ Buffer(0) = Id[f.sig] % 256 /\ Buffer(1) = Id[f.sig] \div 256
      /\ Buffer(2) = 0 /\ Buffer(3) = 0 /\ Buffer(5) = f.data
  BY <1>2, FieldsOfFrame
<1>4. Buffer(52) = Byte(f, 52)
  BY <1>2
<1>5. Id[f.sig] \in Nat
  BY <1>1, Shapes DEF Frames
<1>6. IdRead = Id[f.sig]
  BY <1>3, <1>5 DEF IdRead
<1>7. IsCase(s) <=> s = f.sig
  <2>1. f.sig \in Signals
    BY <1>1 DEF Frames
  <2>2. QED
    BY <1>6, <2>1, Shapes DEF IsCase
<1>8. QED
  BY <1>3, <1>4, <1>7 DEF data, f

\* The frame of a program: the attacker's is its scene's, any other is cleared, and
\* then its flag tells a wheel.
LEMMA FrameWritten ==
  ASSUME SendersOK, NEW p \in running, NEW f \in Written(p)
  PROVE  /\ f \in Frames /\ f.sig = Sends[p][turn[p]]
         /\ p # "attacker" => f = Frame(f.sig, Uint8(value[f.sig]))
         /\ Forged(f) => Contested(f.sig)
         /\ ~Contested(f.sig) => (Byte(f, 52) # 0 <=> f.sig \in WheelSignals)
<1> DEFINE s == Sends[p][turn[p]]
<1>1. p \in Programs /\ scene.forged \subseteq Forgeries
  BY DashboardAssumption DEF SendersOK, running
<1>2. s \in Signals
  <2>1. Sends[p] \in Seq(Signals) /\ turn[p] \in 1 .. Len(Sends[p])
    BY <1>1, Shapes DEF SendersOK
  <2>2. QED
    BY <2>1, ElementOfSeq
<1>3. CASE p = "attacker"
  <2>1. f \in Forgeries /\ f.sig = s
    BY <1>1, <1>3 DEF Written
  <2>2. f \in Frames
    BY <2>1 DEF Forgeries
  <2>3. turn[p] \in 1 .. 3
    <3> DEFINE len == Len(Sends[p])
    <3>1. len \in 1 .. 3 /\ turn[p] \in 1 .. len
      BY <1>1, Shapes DEF SendersOK
    <3> HIDE DEF len
    <3>2. QED
      BY <3>1
  <2>4. Contested(s)
    BY <1>3, <2>3 DEF Contested
  <2>5. QED
    BY <1>3, <2>1, <2>2, <2>4
<1>4. CASE p # "attacker"
  <2> HIDE DEF s
  <2>1. f = Frame(s, Uint8(value[s]))
    BY <1>4 DEF Written, s
  <2>2. value[s] \in Int
    <3>1. value \in [Signals -> -128 .. 255]
      BY DEF SendersOK
    <3>2. value[s] \in -128 .. 255
      BY <1>2, <3>1
    <3>3. QED
      BY <3>2
  <2>3. Uint8(value[s]) \in 0 .. 255
    BY <2>2 DEF Uint8
  <2>4. f.sig = s /\ f.rest = << >>
    BY <2>1 DEF Frame
  <2>5. f \in Frames
    BY <1>2, <2>1, <2>3 DEF Frame, Frames
  <2>6. Byte(f, 52) = IF s \in WheelSignals THEN 1 ELSE 0
    <3>1. Byte(f, 52) = Cleared(s, f.data, 52)
      BY <2>4, PlainByte, Zenon
    <3>2. QED
      BY <3>1, ClearedBytes
  <2>7. QED
    BY <2>1, <2>4, <2>5, <2>6 DEF s, Forged
<1>5. QED
  BY <1>3, <1>4

\* A frame that is sent, whether the bus gets to write it to the monitor or not.
LEMMA FrameSent ==
  ASSUME IInv, NEW p \in running, NEW f \in Written(p), Record(f),
         stream' = Append(stream, f) \/ stream' = stream,
         UNCHANGED <<scene, arrived, read, monitor, shown, torn>>
  PROVE  SocketOK' /\ MonitorOK' /\ Aligned' /\ StreamSent' /\ FlagsSent' /\ ShownWasSent'
<1>1. SendersOK /\ SocketOK /\ MonitorOK /\ Aligned
        /\ StreamSent /\ FlagsSent /\ ShownWasSent
  BY DEF IInv, TypeOK
<1>2. /\ f \in Frames
      /\ Forged(f) => Contested(f.sig)
      /\ ~Contested(f.sig) => (Byte(f, 52) # 0 <=> f.sig \in WheelSignals)
  BY <1>1, FrameWritten
<1>3. PICK s : s = f.sig
  OBVIOUS
<1>4. PICK m : m = AsSent(f)
  OBVIOUS
<1>5. s \in Signals /\ m \in [data : 0 .. 255, secured : BOOLEAN]
        /\ m.secured = (Byte(f, 52) # 0)
  BY <1>2, <1>3, <1>4 DEF Frames, AsSent
<1>6. sent' = [sent EXCEPT ![s] = @ \cup {m}]
  BY <1>3, <1>4 DEF Record, AsSent
<1>7. sent \in [Signals -> SUBSET [data : 0 .. 255, secured : BOOLEAN]]
  BY <1>1 DEF MonitorOK
<1>8. /\ \A r \in Signals : sent'[r] = IF r = s THEN sent[r] \cup {m} ELSE sent[r]
      /\ sent' \in [Signals -> SUBSET [data : 0 .. 255, secured : BOOLEAN]]
  <2> DEFINE M == [data : 0 .. 255, secured : BOOLEAN]
  <2>1. m \in M /\ sent \in [Signals -> SUBSET M]
    BY <1>5, <1>7
  <2> HIDE DEF M
  <2>2. /\ \A r \in Signals : sent'[r] = IF r = s THEN sent[r] \cup {m} ELSE sent[r]
        /\ sent' \in [Signals -> SUBSET M]
    BY <1>5, <1>6, <2>1
  <2>3. QED
    BY <2>2 DEF M
<1>9. \A r : Contested(r)' <=> Contested(r)
  BY DEF Contested, running
<1>10. stream \in Seq(Frames) /\ Len(stream) \in Nat
  BY <1>1 DEF SocketOK
<1>11. /\ stream' \in Seq(Frames)
       /\ Len(stream') \in {Len(stream), Len(stream) + 1}
       /\ \A k \in 1 .. Len(stream') :
            \/ k \in 1 .. Len(stream) /\ stream'[k] = stream[k]
            \/ stream'[k] = f
  <2>1. CASE stream' = stream
    BY <1>10, <2>1
  <2>2. CASE stream' = Append(stream, f)
    BY <1>2, <1>10, <2>2
  <2>3. QED
    BY <2>1, <2>2
<1>12. SocketOK'
  <2>1. arrived' \in 0 .. FrameBytes * Len(stream')
    BY <1>1, <1>10, <1>11 DEF SocketOK, FrameBytes
  <2>2. QED
    BY <1>1, <1>11, <2>1 DEF SocketOK
<1>13. MonitorOK' /\ Aligned'
  BY <1>1, <1>8 DEF MonitorOK, Aligned
<1>14. StreamSent'
  <2>1. ASSUME NEW k \in 1 .. Len(stream')
        PROVE  /\ AsSent(stream'[k]) \in sent'[stream'[k].sig]
               /\ Forged(stream'[k]) => Contested(stream'[k].sig)
    <3>1. CASE k \in 1 .. Len(stream) /\ stream'[k] = stream[k]
      <4>1. stream[k] \in Frames
        BY <1>10, <3>1, ElementOfSeq
      <4>2. stream[k].sig \in Signals
        BY <4>1 DEF Frames
      <4>3. QED
        BY <1>1, <1>8, <3>1, <4>2 DEF StreamSent
    <3>2. CASE stream'[k] = f
      BY <1>2, <1>3, <1>4, <1>5, <1>8, <3>2
    <3>3. QED
      BY <1>11, <3>1, <3>2
  <2>2. QED
    BY <1>9, <2>1 DEF StreamSent, AsSent, Forged
<1>15. FlagsSent'
  BY <1>1, <1>2, <1>3, <1>5, <1>8, <1>9 DEF FlagsSent
<1>16. ShownWasSent'
  BY <1>1, <1>8, <1>9 DEF ShownWasSent
<1>17. QED
  BY <1>12, <1>13, <1>14, <1>15, <1>16

LEMMA InvNext == IInv /\ [Next]_vars => IInv'
<1> SUFFICES ASSUME IInv, [Next]_vars
             PROVE  IInv'
  OBVIOUS
<1>1. SendersOK /\ SocketOK /\ MonitorOK /\ Aligned
        /\ StreamSent /\ FlagsSent /\ ShownWasSent
  BY DEF IInv, TypeOK
<1>2. RangeInv'
  BY RangeNext DEF IInv
<1>3. running \in SUBSET Programs
  BY <1>1, DashboardAssumption DEF SendersOK, running
<1> DEFINE Told == Aligned /\ StreamSent /\ FlagsSent /\ ShownWasSent
           Goal == SendersOK' /\ SocketOK' /\ MonitorOK' /\ Told'
<1>0. ASSUME UNCHANGED <<scene, socket, shown, sent, torn>>
      PROVE  SocketOK' /\ Told'
  <2>1. \A s : Contested(s)' <=> Contested(s)
    BY <1>0 DEF Contested, running
  <2>2. QED
    BY <1>0, <1>1, <2>1 DEF socket, SocketOK, Aligned, StreamSent, FlagsSent,
       ShownWasSent, AsSent, Forged
<1>4. ASSUME UNCHANGED vars
      PROVE  Goal
  BY <1>0, <1>1, <1>4 DEF vars, senders, buffers, running, SendersOK, MonitorOK
<1>5. ASSUME NEW p \in running, Start(p)
      PROVE  Goal
  <2>1. /\ pc' \in [running -> {"start", "loop", "dropped", "done", "killed"}]
        /\ UNCHANGED <<scene, bus, buffers, turn, value, step, socket, monitor,
                       shown, sent, torn>>
    BY <1>1, <1>5 DEF Start, SendersOK
  <2>2. SendersOK'
    BY <1>1, <2>1 DEF SendersOK, running, buffers
  <2>3. QED
    BY <1>0, <1>1, <2>1, <2>2 DEF MonitorOK
<1>6. ASSUME NEW p \in running, Send(p) \/ Stall(p)
      PROVE  Goal
  <2>1. PICK f \in Written(p) :
          (stream' = Append(stream, f) \/ stream' = stream) /\ Record(f)
    BY <1>6 DEF Send, Stall, Relay
  <2>2. /\ Advance(p)
        /\ UNCHANGED <<scene, pc, lost, arrived, read, monitor, shown, torn>>
        /\ bus' \in {"up", "stuck", "down"}
    BY <1>1, <1>6 DEF Send, Stall, buffers, SendersOK
  <2>3. unread' \in [running -> 0 .. scene.buffer]
    <3>1. CASE Send(p)
      <4>1. /\ unread' = [q \in running |->
                 IF q \in Others(p) THEN unread[q] + 1 ELSE unread[q]]
            /\ \A q \in Others(p) : unread[q] # scene.buffer
        BY <3>1 DEF Send, Full
      <4>2. scene.buffer \in Nat /\ unread \in [running -> 0 .. scene.buffer]
        BY <1>1, DashboardAssumption DEF SendersOK
      <4> HIDE DEF running
      <4>3. QED
        BY <4>1, <4>2
    <3>2. CASE Stall(p)
      BY <1>1, <3>2 DEF Stall, buffers, SendersOK
    <3>3. QED
      BY <1>6, <3>1, <3>2
  <2>4. SendersOK'
    BY <1>1, <1>2, <2>2, <2>3, AdvanceType DEF SendersOK, running
  <2>5. QED
    BY <2>1, <2>2, <2>4, FrameSent
<1>7. ASSUME NEW p \in running, Drop(p) \/ SendToNobody(p)
      PROVE  Goal
  <2>1. /\ pc' \in [running -> {"start", "loop", "dropped", "done", "killed"}]
        /\ Advance(p) \/ UNCHANGED <<turn, value, step>>
        /\ UNCHANGED <<scene, bus, unread, socket, monitor, shown, sent, torn>>
    BY <1>1, <1>7 DEF Drop, SendToNobody, SendersOK, buffers
  <2>2. lost' \in [running -> 0 .. scene.room]
    <3>1. \/ lost' = lost
          \/ lost[p] < scene.room /\ lost' = [lost EXCEPT ![p] = @ + 1]
      BY <1>7 DEF Drop, SendToNobody, buffers
    <3>2. scene.room \in Nat /\ lost \in [running -> 0 .. scene.room]
      BY <1>1, DashboardAssumption DEF SendersOK
    <3> HIDE DEF running
    <3>3. QED
      BY <3>1, <3>2
  <2>3. SendersOK'
    <3>1. CASE Advance(p)
      BY <1>1, <1>2, <2>1, <2>2, <3>1, AdvanceType DEF SendersOK, running
    <3>2. CASE UNCHANGED <<turn, value, step>>
      BY <1>1, <2>1, <2>2, <3>2 DEF SendersOK, running
    <3>3. QED
      BY <2>1, <3>1, <3>2
  <2>4. QED
    BY <1>0, <1>1, <2>1, <2>3 DEF MonitorOK
<1>8. ASSUME BusStops \/ MonitorStart
      PROVE  Goal
  <2>1. /\ UNCHANGED <<scene, buffers, senders, socket, shown, sent, torn>>
        /\ bus' \in {"up", "stuck", "down"}
        /\ monitor' \in {"start", "loop", "quit", "failed"}
    BY <1>1, <1>8 DEF BusStops, MonitorStart, SendersOK, MonitorOK
  <2>2. QED
    BY <1>0, <1>1, <2>1 DEF senders, buffers, running, SendersOK, MonitorOK
<1>9. ASSUME Arrive
      PROVE  Goal
  <2>1. /\ UNCHANGED <<scene, bus, buffers, senders, stream, read, monitor,
                       shown, sent, torn>>
        /\ arrived' \in (arrived + 1) .. FrameBytes * Len(stream)
    BY <1>9 DEF Arrive
  <2>2. SocketOK'
    BY <1>1, <2>1 DEF SocketOK, FrameBytes
  <2>3. \A s : Contested(s)' <=> Contested(s)
    BY <2>1 DEF Contested, running
  <2>4. QED
    BY <1>1, <2>1, <2>2, <2>3 DEF senders, buffers, running, SendersOK, MonitorOK,
       Aligned, StreamSent, FlagsSent, ShownWasSent, AsSent, Forged
<1>10. ASSUME NEW n \in 1 .. FrameBytes, read + n <= arrived, Take(n),
              UNCHANGED <<scene, bus, buffers, senders, sent>>
       PROVE  SendersOK' /\ SocketOK' /\ StreamSent' /\ FlagsSent'
  <2>1. SocketOK' /\ \A k \in 1 .. Len(stream') :
                       \E j \in 1 .. Len(stream) : stream'[k] = stream[j]
    BY <1>1, <1>10, TakeKeeps
  <2>2. StreamSent' /\ FlagsSent'
    <3>1. \A s : Contested(s)' <=> Contested(s)
      BY <1>10 DEF Contested, running
    <3>2. QED
      BY <1>1, <1>10, <2>1, <3>1 DEF StreamSent, FlagsSent, AsSent, Forged
  <2>3. SendersOK'
    BY <1>1, <1>10 DEF senders, buffers, running, SendersOK
  <2>4. QED
    BY <2>1, <2>2, <2>3
<1>11. ASSUME RecvFrame
      PROVE  Goal
  <2>1. /\ Available = FrameBytes /\ Take(FrameBytes)
        /\ shown' = [s \in Signals |->
             IF IsCase(s) THEN [id |-> Id[s], data |-> data,
                                secured |-> Buffer(52) # 0]
                          ELSE shown[s]]
        /\ UNCHANGED <<scene, bus, buffers, senders, monitor, sent, torn>>
    BY <1>11 DEF RecvFrame
  <2>2. FrameBytes \in 1 .. FrameBytes /\ read + FrameBytes <= arrived
    BY <1>1, <2>1 DEF Available, SocketOK, FrameBytes
  <2>3. SendersOK' /\ SocketOK' /\ StreamSent' /\ FlagsSent'
    BY <1>10, <2>1, <2>2
  <2>4. MonitorOK'
    <3>1. data \in 0 .. 255
      <4>1. \A k \in 0 .. 63 : Buffer(k) \in 0 .. 255
        BY <1>1, <2>1, BufferIsByte
      <4>2. QED
        BY <4>1 DEF data
    <3>2. \A s \in Signals : Id[s] \in Nat
      BY Shapes
    <3>3. QED
      BY <1>1, <2>1, <3>1, <3>2 DEF MonitorOK
  <2>5. Aligned'
    <3>1. ASSUME read = 0 PROVE read' = 0
      BY <2>1, <3>1 DEF Take, FrameBytes
    <3>2. QED
      BY <1>1, <2>1, <3>1 DEF Aligned
  <2>6. ShownWasSent'
    <3> DEFINE m(s) == [data |-> shown'[s].data, secured |-> shown'[s].secured]
    <3> SUFFICES ASSUME ~torn, NEW s \in Signals, shown'[s] # Blank
                 PROVE  /\ m(s) \in sent[s]
                        /\ ~Contested(s) => (shown'[s].secured <=> s \in WheelSignals)
      BY <2>1 DEF ShownWasSent, Contested, running
    <3>1. read = 0
      BY <1>1 DEF Aligned
    <3>2. CASE IsCase(s)
      <4>1. /\ s = stream[1].sig /\ data = stream[1].data
            /\ (Buffer(52) # 0) = (Byte(stream[1], 52) # 0)
        BY <1>1, <2>1, <3>1, <3>2, WholeFrameRead
      <4>2. Len(stream) >= 1 /\ Len(stream) \in Nat
        BY <1>1, <2>1, FrameInSocket
      <4>3. AsSent(stream[1]) \in sent[s]
        BY <1>1, <4>1, <4>2 DEF StreamSent
      <4>4. shown'[s] = [id |-> Id[s], data |-> data, secured |-> Buffer(52) # 0]
        BY <2>1, <3>2
      <4>5. /\ shown'[s].data = data
            /\ shown'[s].secured = (Buffer(52) # 0)
        BY <4>4
      <4>6. m(s) = AsSent(stream[1])
        BY <4>1, <4>5 DEF AsSent
      <4>7. m(s).secured = shown'[s].secured
        OBVIOUS
      <4> HIDE DEF m
      <4>8. QED
        BY <1>1, <4>3, <4>6, <4>7 DEF FlagsSent
    <3>3. CASE ~IsCase(s)
      BY <1>1, <2>1, <3>3 DEF ShownWasSent
    <3>4. QED
      BY <3>2, <3>3
  <2>7. QED
    BY <2>3, <2>4, <2>5, <2>6
<1>12. ASSUME RecvPart
      PROVE  Goal
  <2>1. /\ Available \in 1 .. FrameBytes - 1 /\ Take(Available)
        /\ torn' = TRUE
        /\ UNCHANGED <<scene, bus, buffers, senders, monitor, shown, sent>>
    BY <1>12 DEF RecvPart
  <2>2. Available \in 1 .. FrameBytes /\ read + Available <= arrived
    BY <1>1, <2>1 DEF Available, SocketOK, FrameBytes
  <2>3. SendersOK' /\ SocketOK' /\ StreamSent' /\ FlagsSent'
    BY <1>10, <2>1, <2>2
  <2>4. QED
    BY <1>1, <2>1, <2>3 DEF MonitorOK, Aligned, ShownWasSent
<1>13. ASSUME Quit \/ RecvError
      PROVE  Goal
  <2>1. /\ monitor' \in {"quit", "failed"}
        /\ stream' = << >> /\ arrived' = 0 /\ read' = 0
        /\ shown' = [s \in Signals |-> Blank]
        /\ UNCHANGED <<scene, bus, buffers, senders, sent, torn>>
    BY <1>13 DEF Quit, RecvError, MonitorEnds
  <2>2. Blank \in [id : Nat, data : 0 .. 255, secured : BOOLEAN]
    BY DEF Blank
  <2>3. MonitorOK'
    BY <1>1, <2>1, <2>2 DEF MonitorOK
  <2>4. SocketOK'
    BY <2>1 DEF SocketOK, FrameBytes
  <2>5. QED
    BY <1>1, <2>1, <2>3, <2>4, SMTT(60)
       DEF senders, buffers, running, SendersOK, Aligned, StreamSent, FlagsSent,
           Contested, ShownWasSent
<1>14. Goal
  BY <1>4, <1>5, <1>6, <1>7, <1>8, <1>9, <1>11, <1>12, <1>13 DEF Next, Recv
<1>15. QED
  BY <1>2, <1>14 DEF IInv, TypeOK

LEMMA InvHolds == Spec => []IInv
  BY InvInit, InvNext, PTL DEF Spec

\* No byte, counter or slot leaves its set, whatever TCP does with the frames.
THEOREM DashboardTypes == Spec => []TypeOK
<1>1. IInv => TypeOK
  BY DEF IInv
<1>2. QED
  BY <1>1, InvHolds, PTL

\* Until recv() splits a frame, every slot shows one frame that was sent under its
\* id, the attacker's included, with a flag that tells a wheel from the rest where
\* the attacker does not send as well.
THEOREM DashboardHonest == Spec => []ShownWasSent
<1>1. IInv => ShownWasSent
  BY DEF IInv
<1>2. QED
  BY <1>1, InvHolds, PTL

-----------------------------------------------------------------------------
(* The order of the data bytes *)

\* The data bytes of a signal may move up as long as the rest keep their order
\* and none is left out between two of them.
LEMMA MovedUp ==
  ASSUME NEW p, NEW s, NEW m \in [Places(s)' -> Places(s)],
         Places(s) \in SUBSET Nat, Places(s)' \in SUBSET Nat,
         \A j, k \in Places(s)' : j < k => m[j] < m[k],
         \A k \in Places(s)', x \in Places(s) :
           m[k] <= x => \E i \in Places(s)' : m[i] = x,
         \A k \in Places(s)' : Datum(s, k)' = Datum(s, m[k]),
         UNCHANGED <<turn, value>>,
         Linked(s)
  PROVE  Linked(s)' /\ (UpToDate(p, s) => UpToDate(p, s)')
<1>0. \A j, k \in Places(s)' : m[j] < m[k] => j < k
  OBVIOUS
<1>1. Linked(s)'
  <2>1. SUFFICES ASSUME NEW j \in Places(s)', NEW k \in Places(s)', j < k,
                        \A i \in Places(s)' : i <= j \/ k <= i
                 PROVE  Follows(s, Datum(s, j)', Datum(s, k)')
    BY DEF Linked, Follows
  <2>2. m[j] \in Places(s) /\ m[k] \in Places(s) /\ m[j] < m[k]
    BY <2>1
  <2>3. ASSUME NEW x \in Places(s) PROVE x <= m[j] \/ m[k] <= x
    <3>1. SUFFICES ASSUME m[j] < x, x < m[k] PROVE FALSE
      BY <2>2
    <3>2. PICK i \in Places(s)' : m[i] = x
      BY <2>2, <3>1
    <3>3. j < i /\ i < k
      BY <1>0, <3>1, <3>2
    <3>4. QED
      BY <2>1, <3>3
  <2>4. Follows(s, Datum(s, m[j]), Datum(s, m[k]))
    BY <2>2, <2>3 DEF Linked
  <2>5. QED
    BY <2>4
<1>2. ASSUME UpToDate(p, s)
      PROVE  UpToDate(p, s)'
  <2>1. SUFFICES ASSUME NEW j \in Places(s)', \A i \in Places(s)' : i <= j
                 PROVE  IF SentThisRound(p, s)' THEN Datum(s, j)' = Uint8(value'[s])
                        ELSE Follows(s, Datum(s, j)', Uint8(value'[s]))
    BY DEF UpToDate, Follows
  <2>2. m[j] \in Places(s)
    BY <2>1
  <2>3. ASSUME NEW x \in Places(s) PROVE x <= m[j]
    <3>1. SUFFICES ASSUME m[j] < x PROVE FALSE
      BY <2>2
    <3>2. PICK i \in Places(s)' : m[i] = x
      BY <2>2, <3>1
    <3>3. j < i
      BY <1>0, <3>1, <3>2
    <3>4. QED
      BY <2>1, <3>3
  <2>4. IF SentThisRound(p, s) THEN Datum(s, m[j]) = Uint8(value[s])
        ELSE Follows(s, Datum(s, m[j]), Uint8(value[s]))
    BY <1>2, <2>2, <2>3 DEF UpToDate
  <2>5. SentThisRound(p, s)' <=> SentThisRound(p, s)
    BY DEF SentThisRound
  <2>6. QED
    BY <2>4, <2>5
<1>3. QED
  BY <1>1, <1>2

\* All but the first move up by one, and the first may become the one shown.
LEMMA MovedUpByOne ==
  ASSUME NEW p, NEW s, NEW z \in {0, 1},
         Places(s) \in SUBSET Nat, Places(s)' \in SUBSET Nat,
         \A k \in Nat \ {0} : k \in Places(s)' <=> k + 1 \in Places(s),
         0 \in Places(s)' => z \in Places(s) /\ (z = 1 \/ 1 \notin Places(s))
                               /\ Datum(s, 0)' = Datum(s, z),
         \A k \in Places(s)' \ {0} : Datum(s, k)' = Datum(s, k + 1),
         UNCHANGED <<turn, value>>,
         Linked(s)
  PROVE  Linked(s)' /\ (UpToDate(p, s) => UpToDate(p, s)')
<1> DEFINE m == [k \in Places(s)' |-> IF k = 0 THEN z ELSE k + 1]
<1>1. m \in [Places(s)' -> Places(s)]
  OBVIOUS
<1>2. \A j, k \in Places(s)' : j < k => m[j] < m[k]
  OBVIOUS
<1>3. ASSUME NEW k \in Places(s)', NEW x \in Places(s), m[k] <= x
      PROVE  \E i \in Places(s)' : m[i] = x
  <2>1. CASE x >= 2
    <3>1. x - 1 \in Nat \ {0} /\ (x - 1) + 1 = x
      BY <2>1
    <3>2. x - 1 \in Places(s)'
      BY <3>1
    <3>3. m[x - 1] = x
      BY <3>1, <3>2
    <3>4. QED
      BY <3>2, <3>3
  <2>2. CASE x < 2
    <3>1. k = 0 /\ m[0] = z
      BY <1>3, <2>2
    <3>2. x = z
      BY <1>3, <2>2, <3>1
    <3>3. QED
      BY <3>1, <3>2
  <2>3. QED
    BY <2>1, <2>2
<1>4. \A k \in Places(s)' : Datum(s, k)' = Datum(s, m[k])
  OBVIOUS
<1> HIDE DEF m
<1>5. QED
  BY <1>1, <1>2, <1>3, <1>4, MovedUp

\* Where nothing of a signal moves, its data bytes stay linked.
LEMMA StayLinked ==
  ASSUME NEW s, Places(s)' = Places(s),
         \A k \in Places(s) : Datum(s, k)' = Datum(s, k), Linked(s)
  PROVE  Linked(s)'
BY DEF Linked, Follows

\* One more frame of a signal, with the value its program holds.
LEMMA OneMoreLinked ==
  ASSUME NEW p, NEW s, NEW n \in Nat, Places(s) \in SUBSET Nat,
         Places(s)' = Places(s) \cup {n},
         \A k \in Places(s) : k < n /\ Datum(s, k)' = Datum(s, k),
         Datum(s, n)' = Uint8(value[s]),
         ~SentThisRound(p, s), Linked(s), UpToDate(p, s)
  PROVE  Linked(s)'
<1>1. SUFFICES ASSUME NEW j \in Places(s)', NEW k \in Places(s)', j < k,
                      \A i \in Places(s)' : i <= j \/ k <= i
               PROVE  Follows(s, Datum(s, j)', Datum(s, k)')
  BY DEF Linked, Follows
<1>2. j \in Places(s)
  BY <1>1
<1>3. CASE k = n
  <2>1. \A i \in Places(s) : i <= j
    BY <1>1, <1>2, <1>3
  <2>2. Follows(s, Datum(s, j), Uint8(value[s]))
    BY <1>2, <2>1 DEF UpToDate
  <2>3. QED
    BY <1>2, <1>3, <2>2
<1>4. CASE k # n
  <2>1. k \in Places(s)
    BY <1>4
  <2>2. Follows(s, Datum(s, j), Datum(s, k))
    BY <1>1, <1>2, <2>1 DEF Linked
  <2>3. QED
    BY <1>2, <2>1, <2>2
<1>5. QED
  BY <1>3, <1>4

\* The newest data byte of a signal still belongs to the value its program holds,
\* or the round has ended and the value is the next one.
LEMMA StayUpToDate ==
  ASSUME NEW p, NEW s, Places(s)' = Places(s),
         \A k \in Places(s) : Datum(s, k)' = Datum(s, k),
         \/ /\ value'[s] = value[s]
            /\ SentThisRound(p, s)' <=> SentThisRound(p, s)
         \/ /\ SentThisRound(p, s) /\ ~SentThisRound(p, s)'
            /\ Follows(s, Uint8(value[s]), Uint8(value'[s])),
         UpToDate(p, s)
  PROVE  UpToDate(p, s)'
<1>1. SUFFICES ASSUME NEW j \in Places(s), \A i \in Places(s) : i <= j
               PROVE  IF SentThisRound(p, s)' THEN Datum(s, j)' = Uint8(value'[s])
                      ELSE Follows(s, Datum(s, j)', Uint8(value'[s]))
  BY DEF UpToDate, Follows
<1>2. /\ Datum(s, j)' = Datum(s, j)
      /\ IF SentThisRound(p, s) THEN Datum(s, j) = Uint8(value[s])
         ELSE Follows(s, Datum(s, j), Uint8(value[s]))
  BY <1>1 DEF UpToDate
<1>3. QED
  BY <1>2

LEMMA OneMoreUpToDate ==
  ASSUME NEW p, NEW s, NEW n \in Nat, Places(s) \in SUBSET Nat,
         Places(s)' = Places(s) \cup {n}, \A k \in Places(s) : k < n,
         Datum(s, n)' = Uint8(value[s]),
         IF SentThisRound(p, s)' THEN value'[s] = value[s]
         ELSE Follows(s, Uint8(value[s]), Uint8(value'[s]))
  PROVE  UpToDate(p, s)'
<1>1. SUFFICES ASSUME NEW j \in Places(s)', \A i \in Places(s)' : i <= j
               PROVE  IF SentThisRound(p, s)' THEN Datum(s, j)' = Uint8(value'[s])
                      ELSE Follows(s, Datum(s, j)', Uint8(value'[s]))
  BY DEF UpToDate, Follows
<1>2. j = n
  BY <1>1
<1>3. QED
  BY <1>2

\* One round takes a signal from one value of its pattern to the next.
LEMMA FollowsNext ==
  ASSUME TypeOK, RangeInv, NEW s \in Signals
  PROVE  Follows(s, Uint8(value[s]), Uint8(NextValue(s, value[s], step[s])))
<1>1. value[s] \in {Uint8(value[s]), Uint8(value[s]) - 256}
  <2>1. value[s] \in -128 .. 255
    BY SMTT(30) DEF TypeOK, SendersOK
  <2>2. QED
    BY <2>1 DEF Uint8
<1>2. step[s] \in {FirstStep[s], -FirstStep[s]}
  <2>1. CASE s \in Signals \ Angles
    BY <2>1 DEF RangeInv
  <2>2. CASE s \in Angles
    <3>1. s \in {"STEER", "STEER_CMD"}
      BY <2>2 DEF Angles, Limit
    <3>2. FirstStep["STEER"] = 5 /\ FirstStep["STEER_CMD"] = 2
      BY DEF FirstStep
    <3>3. step["STEER"] \in {-5, 5} /\ step["STEER_CMD"] \in {-2, 2}
      BY DEF RangeInv, InRange, Swing
    <3>4. QED
      BY <3>1, <3>2, <3>3
  <2>3. QED
    BY <2>1, <2>2
<1>3. s \notin Angles => value[s] = Uint8(value[s]) /\ step[s] = FirstStep[s]
  <2> SUFFICES ASSUME s \notin Angles PROVE value[s] \in 0 .. 199
    BY DEF RangeInv, Uint8
  <2>1. s \in WheelSignals \/ s = "ENGINE" \/ s = "BRAKE_CMD"
    BY Shapes DEF WheelSignals, Angles, Limit
  <2>2. QED
    BY <2>1 DEF RangeInv, InRange
<1>4. QED
  BY <1>1, <1>2, <1>3, ZenonT(30) DEF Follows

\* The attacker apart, every signal has one program, which sends it once a round.
LEMMA Owners ==
  ASSUME NEW p \in Programs
  PROVE  /\ Own(p) \subseteq Signals
         /\ \A q \in Programs : q # p => Own(p) \cap Own(q) = {}
         /\ p # "attacker" => \A j, k \in 1 .. Len(Sends[p]) :
                                Sends[p][j] = Sends[p][k] => j = k
<1> DEFINE Owner == [WHEEL_FL |-> "wheel_fl", WHEEL_FR |-> "wheel_fr",
                     WHEEL_RL |-> "wheel_rl", WHEEL_RR |-> "wheel_rr",
                     ENGINE |-> "engine_ecu", STEER |-> "steering_sensor",
                     BRAKE_CMD |-> "autonomous_controller",
                     STEER_CMD |-> "autonomous_controller"]
<1>1. Programs = {"wheel_fl", "wheel_fr", "wheel_rl", "wheel_rr", "engine_ecu",
                  "steering_sensor", "autonomous_controller", "attacker"}
  BY DEF Programs, Sends
<1>2. ASSUME NEW q \in Programs, NEW s, Sends[q] = <<s>>, Owner[s] = q, s \in Signals
      PROVE  /\ \A k \in 1 .. Len(Sends[q]) : Sends[q][k] = s
             /\ \A j, k \in 1 .. Len(Sends[q]) : Sends[q][j] = Sends[q][k] => j = k
  <2> HIDE DEF Owner
  <2>1. Len(Sends[q]) = 1 /\ Sends[q][1] = s
    BY <1>2
  <2>2. QED
    BY <2>1
<1>3. ASSUME NEW q \in Programs, q # "attacker"
      PROVE  /\ \A k \in 1 .. Len(Sends[q]) :
                  Sends[q][k] \in Signals /\ Owner[Sends[q][k]] = q
             /\ \A j, k \in 1 .. Len(Sends[q]) : Sends[q][j] = Sends[q][k] => j = k
  <2>1. CASE q = "autonomous_controller"
    <3>1. Sends[q] = <<"BRAKE_CMD", "STEER_CMD">>
      BY <2>1 DEF Sends
    <3>2. Len(Sends[q]) = 2 /\ Sends[q][1] = "BRAKE_CMD" /\ Sends[q][2] = "STEER_CMD"
      BY <3>1
    <3>3. \A k \in 1 .. 2 : k = 1 \/ k = 2
      OBVIOUS
    <3>4. /\ "BRAKE_CMD" \in Signals /\ Owner["BRAKE_CMD"] = q
          /\ "STEER_CMD" \in Signals /\ Owner["STEER_CMD"] = q
      BY <2>1, Shapes
    <3> HIDE DEF Owner
    <3>5. QED
      BY <3>2, <3>3, <3>4
  <2>2. CASE q # "autonomous_controller"
    <3>1. \E s \in Signals : Sends[q] = <<s>> /\ Owner[s] = q
      BY <1>1, <1>3, <2>2, Shapes DEF Sends
    <3> HIDE DEF Owner
    <3>2. QED
      BY <1>2, <3>1
  <2>3. QED
    BY <2>1, <2>2
<1> HIDE DEF Owner
<1>4. Own("attacker") = {}
  BY DEF Own
<1>5. ASSUME NEW q \in Programs, NEW r \in Own(q)
      PROVE  r \in Signals /\ Owner[r] = q
  <2>1. q # "attacker"
    BY <1>4, <1>5
  <2>2. PICK k \in 1 .. Len(Sends[q]) : Sends[q][k] = r
    BY <2>1 DEF Own
  <2>3. QED
    BY <1>3, <2>1, <2>2
<1>6. QED
  BY <1>3, <1>5

\* What sending the next frame of a round does to the round.
LEMMA TurnTaken ==
  ASSUME TypeOK, RangeInv, NEW p \in running, p # "attacker", Advance(p), NEW s,
         s = Sends[p][turn[p]]
  PROVE  /\ s \in Own(p) /\ ~SentThisRound(p, s)
         /\ IF SentThisRound(p, s)' THEN value'[s] = value[s]
            ELSE Follows(s, Uint8(value[s]), Uint8(value'[s]))
         /\ \A r \in Own(p) : r # s =>
              \/ /\ value'[r] = value[r]
                 /\ SentThisRound(p, r)' <=> SentThisRound(p, r)
              \/ /\ SentThisRound(p, r) /\ ~SentThisRound(p, r)'
                 /\ Follows(r, Uint8(value[r]), Uint8(value'[r]))
<1> DEFINE len == Len(Sends[p])
           t == turn[p]
<1>1. p \in Programs
  BY DashboardAssumption DEF TypeOK, SendersOK, running
<1>2. /\ len \in 1 .. 3 /\ t \in 1 .. len
      /\ turn' = [turn EXCEPT ![p] = (t % len) + 1]
      /\ turn \in [running -> Nat]
  BY <1>1, Shapes DEF TypeOK, SendersOK, Advance
<1>3. turn'[p] = (t % len) + 1
  BY <1>2
<1>4. \A j, k \in 1 .. len : Sends[p][j] = Sends[p][k] => j = k
  BY <1>1, Owners
<1>5. /\ \A r : r \in Own(p) <=> \E k \in 1 .. len : Sends[p][k] = r
      /\ \A r : SentThisRound(p, r) <=> \E k \in 1 .. t - 1 : Sends[p][k] = r
      /\ \A r : SentThisRound(p, r)' <=> \E k \in 1 .. turn'[p] - 1 : Sends[p][k] = r
  BY DEF Own, SentThisRound
<1>6. Own(p) \subseteq Signals
  BY <1>1, Owners
<1> HIDE DEF len, t
<1>7. s \in Own(p) /\ ~SentThisRound(p, s)
  <2>1. \A k \in 1 .. t - 1 : k \in 1 .. len /\ k # t
    BY <1>2
  <2>2. s = Sends[p][t]
    BY DEF t
  <2>3. QED
    BY <1>2, <1>4, <1>5, <2>1, <2>2
<1>8. CASE EndsRound(p)
  <2>1. t = len
    BY <1>8 DEF EndsRound, t, len
  <2>2. turn'[p] = 1
    BY <1>2, <1>3, <2>1
  <2>3. \A r : ~SentThisRound(p, r)'
    BY <1>5, <2>2
  <2>4. ASSUME NEW r \in Own(p)
        PROVE  Follows(r, Uint8(value[r]), Uint8(value'[r]))
    <3>1. r \in Signals
      BY <1>6
    <3>2. value'[r] = NextValue(r, value[r], step[r])
      BY <1>8, <3>1 DEF Advance
    <3>3. QED
      BY <3>1, <3>2, FollowsNext
  <2>5. ASSUME NEW r \in Own(p), r # s
        PROVE  SentThisRound(p, r)
    <3>1. PICK k \in 1 .. len : Sends[p][k] = r
      BY <1>5
    <3>2. k # t
      BY <2>5, <3>1 DEF t
    <3>3. k \in 1 .. t - 1
      BY <1>2, <2>1, <3>2
    <3>4. QED
      BY <1>5, <3>1, <3>3
  <2>6. QED
    BY <1>7, <2>3, <2>4, <2>5
<1>9. CASE ~EndsRound(p)
  <2>1. t < len
    BY <1>2, <1>9 DEF EndsRound, t, len
  <2>2. turn'[p] = t + 1
    BY <1>2, <1>3, <2>1
  <2>3. value' = value
    BY <1>9 DEF Advance
  <2>4. \A r : SentThisRound(p, r)' <=> SentThisRound(p, r) \/ r = s
    <3>1. \A k : k \in 1 .. (t + 1) - 1 <=> k \in 1 .. t - 1 \/ k = t
      BY <1>2
    <3>2. s = Sends[p][t]
      BY DEF t
    <3>3. \A r : SentThisRound(p, r)' <=> \E k \in 1 .. (t + 1) - 1 : Sends[p][k] = r
      BY <1>5, <2>2
    <3>4. QED
      BY <1>5, <3>1, <3>2, <3>3
  <2>5. QED
    BY <1>7, <2>3, <2>4
<1>10. QED
  BY <1>8, <1>9

LEMMA PlacesAreNat == \A s : Places(s) \in SUBSET Nat
  BY DEF Places

LEMMA Untouched ==
  ASSUME NEW p, NEW s, UNCHANGED <<stream, shown, torn>>, Linked(s)
  PROVE  /\ Linked(s)'
         /\ UNCHANGED <<turn, value>> /\ UpToDate(p, s) => UpToDate(p, s)'
<1>1. Places(s)' = Places(s) /\ \A k : Datum(s, k)' = Datum(s, k)
  BY DEF Places, Datum
<1>2. UNCHANGED <<turn, value>> => (SentThisRound(p, s)' <=> SentThisRound(p, s))
  BY DEF SentThisRound
<1>3. QED
  BY <1>1, <1>2, StayLinked, StayUpToDate

\* A program that sends a frame leaves the rounds of the others as they are.
LEMMA Bystander ==
  ASSUME TypeOK, NEW p \in running, Advance(p),
         NEW q \in running, q # p, NEW r \in Own(q)
  PROVE  value'[r] = value[r] /\ (SentThisRound(q, r)' <=> SentThisRound(q, r))
<1>1. p \in Programs /\ q \in Programs
  BY DashboardAssumption DEF TypeOK, SendersOK, running
<1>2. r \notin Own(p) /\ r \in Signals
  BY <1>1, Owners
<1>3. value'[r] = value[r]
  BY <1>2 DEF Advance
<1>4. turn'[q] = turn[q]
  BY DEF Advance, TypeOK, SendersOK
<1>5. QED
  BY <1>3, <1>4 DEF SentThisRound

\* A frame that does not reach the monitor.
LEMMA LostKeepsOrder ==
  ASSUME TypeOK, NEW p \in running, Advance(p), UNCHANGED <<stream, shown, torn>>,
         NEW q \in running, NEW r \in Own(q), Linked(r)
  PROVE  Linked(r)' /\ (q # p /\ UpToDate(q, r) => UpToDate(q, r)')
<1>1. Places(r)' = Places(r) /\ \A k : Datum(r, k)' = Datum(r, k)
  BY DEF Places, Datum
<1>2. QED
  BY <1>1, Bystander, StayLinked, StayUpToDate

\* A frame at the end of the socket is one more data byte of its signal, and of
\* no other.
LEMMA AppendedPlaces ==
  ASSUME TypeOK, NEW f \in Frames, stream' = Append(stream, f),
         UNCHANGED <<shown, torn>>, NEW s \in Signals,
         NEW n, n = Len(stream) + 1
  PROVE  /\ n \in Nat
         /\ \A k \in Places(s) : k < n /\ Datum(s, k)' = Datum(s, k)
         /\ s = f.sig => /\ Places(s)' = Places(s) \cup {n}
                         /\ Datum(s, n)' = f.data
         /\ s # f.sig => Places(s)' = Places(s)
<1>1. stream \in Seq(Frames) /\ n \in Nat /\ n # 0
  BY DEF TypeOK, SocketOK, Frames
<1>2. /\ Len(stream') = n /\ stream'[n] = f
      /\ \A k \in 1 .. Len(stream) : stream'[k] = stream[k]
  BY <1>1
<1>3. 1 .. n = 1 .. Len(stream) \cup {n}
  BY <1>1
<1>4. \A k \in Places(s) : k < n /\ Datum(s, k)' = Datum(s, k)
  BY <1>1, <1>2 DEF Places, Datum
<1>5. ASSUME s = f.sig
      PROVE  Places(s)' = Places(s) \cup {n} /\ Datum(s, n)' = f.data
  <2>1. Datum(s, n)' = f.data
    BY <1>1, <1>2 DEF Datum
  <2>2. ASSUME NEW k PROVE k \in Places(s)' <=> k \in Places(s) \cup {n}
    BY <1>1, <1>2, <1>3, <1>5 DEF Places
  <2>3. QED
    BY <2>1, <2>2
<1>6. ASSUME s # f.sig
      PROVE  Places(s)' = Places(s)
  <2>1. ASSUME NEW k PROVE k \in Places(s)' <=> k \in Places(s)
    BY <1>1, <1>2, <1>3, <1>6 DEF Places
  <2>2. QED
    BY <2>1
<1>7. QED
  BY <1>1, <1>4, <1>5, <1>6

\* A frame that the bus writes to the monitor.
LEMMA FrameKeepsOrder ==
  ASSUME TypeOK, RangeInv, NEW p \in running, NEW f \in Written(p),
         stream' = Append(stream, f), Advance(p), UNCHANGED <<shown, torn>>,
         NEW q \in running, NEW r \in Own(q), ~Contested(r),
         Linked(r), q = p => UpToDate(q, r)
  PROVE  Linked(r)' /\ (UpToDate(q, r) => UpToDate(q, r)')
<1>1. PICK s : s = Sends[p][turn[p]]
  OBVIOUS
<1>2. p \in Programs /\ q \in Programs
  BY DashboardAssumption DEF TypeOK, SendersOK, running
<1>3. r \in Signals /\ q # "attacker"
  <2>1. Own("attacker") = {}
    BY DEF Own
  <2>2. QED
    BY <1>2, <2>1, Owners
<1>4. /\ f \in Frames /\ f.sig = s
      /\ p # "attacker" => f = Frame(s, Uint8(value[s]))
      /\ Forged(f) => Contested(s)
  BY <1>1, FrameWritten DEF TypeOK
<1>n. PICK n : n = Len(stream) + 1
  OBVIOUS
<1>5. /\ n \in Nat
      /\ \A k \in Places(r) : k < n /\ Datum(r, k)' = Datum(r, k)
      /\ r = s => /\ Places(r)' = Places(r) \cup {n}
                  /\ Datum(r, n)' = f.data
      /\ r # s => Places(r)' = Places(r)
  BY <1>n, <1>3, <1>4, AppendedPlaces
<1>6. CASE p = "attacker"
  <2>1. turn[p] \in 1 .. 3
    <3> DEFINE len == Len(Sends[p])
    <3>1. len \in 1 .. 3 /\ turn[p] \in 1 .. len
      BY <1>2, Shapes DEF TypeOK, SendersOK
    <3> HIDE DEF len
    <3>2. QED
      BY <3>1
  <2>2. Contested(s)
    BY <1>1, <1>6, <2>1 DEF Contested
  <2>3. r # s /\ q # p
    BY <1>3, <1>6, <2>2
  <2>4. QED
    BY <1>5, <2>3, Bystander, StayLinked, StayUpToDate
<1>7. CASE p # "attacker"
  <2>1. /\ s \in Own(p) /\ ~SentThisRound(p, s)
        /\ IF SentThisRound(p, s)' THEN value'[s] = value[s]
           ELSE Follows(s, Uint8(value[s]), Uint8(value'[s]))
        /\ \A x \in Own(p) : x # s =>
             \/ /\ value'[x] = value[x]
                /\ SentThisRound(p, x)' <=> SentThisRound(p, x)
             \/ /\ SentThisRound(p, x) /\ ~SentThisRound(p, x)'
                /\ Follows(x, Uint8(value[x]), Uint8(value'[x]))
    BY <1>1, <1>7, TurnTaken
  <2>2. CASE r = s
    <3>1. q = p
      BY <1>2, <2>1, <2>2, Owners
    <3>2. Places(r) \in SUBSET Nat
      BY PlacesAreNat
    <3>3. Datum(r, n)' = Uint8(value[r])
      BY <1>4, <1>5, <1>7, <2>2 DEF Frame
    <3>4. Linked(r)'
      BY <1>5, <2>1, <2>2, <3>1, <3>2, <3>3, OneMoreLinked
    <3>5. UpToDate(p, r)'
      BY <1>5, <2>1, <2>2, <3>2, <3>3, OneMoreUpToDate
    <3>6. QED
      BY <3>1, <3>4, <3>5
  <2>3. CASE r # s /\ q = p
    BY <1>5, <2>1, <2>3, StayLinked, StayUpToDate
  <2>4. CASE r # s /\ q # p
    BY <1>5, <2>4, Bystander, StayLinked, StayUpToDate
  <2>5. QED
    BY <2>2, <2>3, <2>4
<1>8. QED
  BY <1>6, <1>7

\* When the first frame leaves the socket, all others move up.
LEMMA TailPlaces ==
  ASSUME TypeOK, Len(stream) >= 1, stream' = Tail(stream), NEW s
  PROVE  /\ \A k \in Nat \ {0} : k \in Places(s)' <=> k + 1 \in Places(s)
         /\ \A k \in Places(s)' \ {0} : Datum(s, k)' = Datum(s, k + 1)
<1>1. stream \in Seq(Frames) /\ Len(stream) \in Nat
  BY DEF TypeOK, SocketOK, Frames
<1>2. /\ Len(stream') = Len(stream) - 1
      /\ \A k \in 1 .. Len(stream') : stream'[k] = stream[k + 1]
  BY <1>1
<1>3. ASSUME NEW k \in Nat \ {0}
      PROVE  k \in Places(s)' <=> k + 1 \in Places(s)
  <2>1. k \in 1 .. Len(stream') <=> k + 1 \in 1 .. Len(stream)
    BY <1>1, <1>2
  <2>2. k \in Places(s)' <=> k \in 1 .. Len(stream') /\ stream'[k].sig = s
    BY DEF Places
  <2>3. k + 1 \in Places(s) <=> k + 1 \in 1 .. Len(stream) /\ stream[k + 1].sig = s
    BY DEF Places
  <2>4. QED
    BY <1>2, <2>1, <2>2, <2>3
<1>4. ASSUME NEW k \in Places(s)' \ {0}
      PROVE  Datum(s, k)' = Datum(s, k + 1)
  <2>1. k \in 1 .. Len(stream')
    BY DEF Places
  <2>2. k + 1 # 0
    BY <1>1, <1>2, <2>1
  <2>3. Datum(s, k)' = stream'[k].data
    BY <1>4 DEF Datum
  <2>4. Datum(s, k + 1) = stream[k + 1].data
    BY <2>2 DEF Datum
  <2>5. QED
    BY <1>2, <2>1, <2>3, <2>4
<1>5. QED
  BY <1>3, <1>4

\* Reading part of a frame leaves the shown values out of account.
LEMMA RecvPartKeepsOrder ==
  ASSUME TypeOK, RecvPart, NEW p, NEW s \in Signals, Linked(s)
  PROVE  Linked(s)' /\ (UpToDate(p, s) => UpToDate(p, s)')
<1>1. /\ Available \in 1 .. FrameBytes - 1 /\ Take(Available)
      /\ torn' /\ UNCHANGED <<turn, value, shown>>
  BY DEF RecvPart, senders
<1>2. Places(s) \in SUBSET Nat /\ Places(s)' \in SUBSET Nat
  BY DEF Places
<1>3. 0 \notin Places(s)'
  <2>1. \A k \in 1 .. Len(stream') : k # 0
    OBVIOUS
  <2>2. QED
    BY <1>1, <2>1 DEF Places
<1>4. CASE stream' = stream
  <2> DEFINE m == [k \in Places(s)' |-> k]
  <2>1. \A k \in Places(s) : k # 0 => k \in Places(s)'
    BY <1>1, <1>4 DEF Places
  <2>2. \A k \in Places(s)' : k \in Places(s) /\ Datum(s, k)' = Datum(s, k)
    BY <1>1, <1>3, <1>4 DEF Places, Datum
  <2>3. m \in [Places(s)' -> Places(s)]
    BY <2>2
  <2>4. \A k \in Places(s)', x \in Places(s) :
          m[k] <= x => \E i \in Places(s)' : m[i] = x
    <3>1. SUFFICES ASSUME NEW k \in Places(s)', NEW x \in Places(s), k <= x
                   PROVE  x \in Places(s)'
      OBVIOUS
    <3>2. x # 0
      BY <1>2, <1>3, <3>1
    <3>3. QED
      BY <2>1, <3>2
  <2>5. \A j, k \in Places(s)' : j < k => m[j] < m[k]
    OBVIOUS
  <2>6. \A k \in Places(s)' : Datum(s, k)' = Datum(s, m[k])
    BY <2>2
  <2> HIDE DEF m
  <2>7. QED
    BY <1>1, <1>2, <2>3, <2>4, <2>5, <2>6, MovedUp
<1>5. CASE stream' # stream
  <2>1. stream' = Tail(stream) /\ read + Available >= FrameBytes
    BY <1>1, <1>5 DEF Take, TypeOK, SocketOK, FrameBytes, Available
  <2>2. Len(stream) >= 1
    BY <2>1 DEF TypeOK, SocketOK, FrameBytes, Available
  <2>3. /\ \A k \in Nat \ {0} : k \in Places(s)' <=> k + 1 \in Places(s)
        /\ \A k \in Places(s)' \ {0} : Datum(s, k)' = Datum(s, k + 1)
    BY <2>1, <2>2, TailPlaces
  <2>4. 0 \in {0, 1}
    OBVIOUS
  <2>5. QED
    BY <1>1, <1>2, <1>3, <2>3, <2>4, MovedUpByOne
<1>6. QED
  BY <1>4, <1>5

\* Reading a frame shows its data byte, and only that of its own signal as long
\* as reads are aligned.
LEMMA RecvFrameKeepsOrder ==
  ASSUME TypeOK, Aligned, RecvFrame, NEW p, NEW s \in Signals, Linked(s)
  PROVE  Linked(s)' /\ (UpToDate(p, s) => UpToDate(p, s)')
<1>1. /\ Available = FrameBytes /\ Take(FrameBytes)
      /\ shown' = [r \in Signals |->
           IF IsCase(r) THEN [id |-> Id[r], data |-> data, secured |-> Buffer(52) # 0]
                        ELSE shown[r]]
      /\ UNCHANGED <<turn, value, torn>>
  BY DEF RecvFrame, senders
<1>2. Places(s) \in SUBSET Nat /\ Places(s)' \in SUBSET Nat
  BY DEF Places
<1>3. SocketOK /\ Len(stream) >= 1 /\ Len(stream) \in Nat
  BY <1>1, FrameInSocket DEF TypeOK
<1>4. stream' = Tail(stream)
  BY <1>1, <1>3 DEF Take, SocketOK, FrameBytes
<1>5. /\ \A k \in Nat \ {0} : k \in Places(s)' <=> k + 1 \in Places(s)
      /\ \A k \in Places(s)' \ {0} : Datum(s, k)' = Datum(s, k + 1)
  BY <1>3, <1>4, TailPlaces
<1>6. /\ 0 \in Places(s) <=> ~torn /\ shown[s] # Blank
      /\ 0 \in Places(s)' <=> ~torn /\ shown'[s] # Blank
      /\ 1 \in Places(s) <=> stream[1].sig = s
      /\ Datum(s, 0) = shown[s].data /\ Datum(s, 0)' = shown'[s].data
      /\ Datum(s, 1) = stream[1].data
  <2>1. 0 \notin 1 .. Len(stream) /\ 0 \notin 1 .. Len(stream')
    OBVIOUS
  <2>2. 1 \in 1 .. Len(stream) /\ 1 \notin {0}
    BY <1>3
  <2>3. QED
    BY <1>1, <2>1, <2>2 DEF Places, Datum
<1>7. \E z \in {0, 1} :
        0 \in Places(s)' => z \in Places(s) /\ (z = 1 \/ 1 \notin Places(s))
                              /\ Datum(s, 0)' = Datum(s, z)
  <2>1. CASE torn
    BY <1>6, <2>1
  <2>2. CASE ~torn
    <3>1. read = 0
      BY <2>2 DEF Aligned
    <3>2. (IsCase(s) <=> s = stream[1].sig) /\ data = stream[1].data
      BY <1>1, <1>3, <3>1, WholeFrameRead
    <3>3. CASE IsCase(s)
      <4>1. shown'[s] = [id |-> Id[s], data |-> data, secured |-> Buffer(52) # 0]
        BY <1>1, <3>3
      <4>2. shown'[s].data = data
        BY <4>1
      <4>3. QED
        BY <1>6, <3>2, <3>3, <4>2
    <3>4. CASE ~IsCase(s)
      <4>1. shown'[s] = shown[s]
        BY <1>1, <3>4
      <4>2. QED
        BY <1>6, <3>2, <3>4, <4>1
    <3>5. QED
      BY <3>3, <3>4
  <2>3. QED
    BY <2>1, <2>2
<1>8. QED
  BY <1>1, <1>2, <1>5, <1>7, MovedUpByOne

\* Before it connects, the monitor has nothing.
NothingYet ==
  monitor = "start" => stream = << >> /\ shown = [s \in Signals |-> Blank]

OrderInv == IInv /\ NothingYet /\ Unbroken

LEMMA OrderInit == Init => OrderInv
<1> SUFFICES ASSUME Init PROVE OrderInv
  OBVIOUS
<1>1. IInv /\ NothingYet
  BY InvInit DEF Init, NothingYet
<1>2. \A s \in Signals : Places(s) = {}
  BY DEF Init, Places
<1>3. ASSUME NEW p \in running, NEW s \in Own(p)
      PROVE  Linked(s) /\ UpToDate(p, s)
  <2>1. p \in Programs
    BY <1>1, DashboardAssumption DEF IInv, TypeOK, SendersOK, running
  <2>2. Places(s) = {}
    BY <1>2, <2>1, Owners
  <2>3. QED
    BY <2>2 DEF Linked, UpToDate
<1>4. QED
  BY <1>1, <1>3 DEF OrderInv, Unbroken

LEMMA OrderNext == OrderInv /\ [Next]_vars => OrderInv'
<1> SUFFICES ASSUME OrderInv, [Next]_vars
             PROVE  OrderInv'
  OBVIOUS
<1>1. IInv' /\ TypeOK /\ RangeInv /\ Aligned /\ NothingYet
  BY InvNext DEF OrderInv, IInv
<1>2. NothingYet'
  <2>1. CASE \E p \in running : Start(p)
    BY <1>1, <2>1 DEF NothingYet, Start, socket
  <2>2. CASE \E p \in running : Send(p) \/ Stall(p)
    BY <1>1, <2>2 DEF NothingYet, Send, Stall, Relay
  <2>3. CASE \E p \in running : Drop(p) \/ SendToNobody(p)
    BY <1>1, <2>3 DEF NothingYet, Drop, SendToNobody, socket
  <2>4. CASE BusStops \/ MonitorStart \/ Arrive
    BY <1>1, <2>4 DEF NothingYet, BusStops, MonitorStart, Arrive, socket
  <2>5. CASE Recv \/ Quit \/ RecvError
    BY <2>5 DEF NothingYet, Recv, RecvFrame, RecvPart, Quit, RecvError, MonitorEnds
  <2>6. CASE UNCHANGED vars
    BY <1>1, <2>6 DEF NothingYet, vars, socket
  <2>7. QED
    BY <2>1, <2>2, <2>3, <2>4, <2>5, <2>6 DEF Next
<1> DEFINE Live(q) == bus = "up" /\ monitor = "loop" /\ pc[q] \in {"start", "loop"}
<1>3. Unbroken'
  <2>1. scene' = scene
    BY DEF Next, Start, Send, Stall, Drop, SendToNobody, BusStops, MonitorStart,
       Arrive, Recv, RecvFrame, RecvPart, Quit, RecvError, MonitorEnds, vars
  <2>2. \A r : Contested(r)' <=> Contested(r)
    BY <2>1 DEF Contested, running
  <2>3. SUFFICES ASSUME NEW q \in running, NEW r \in Own(q), ~Contested(r)
                 PROVE  Linked(r)' /\ (Live(q)' => UpToDate(q, r)')
    BY <2>1, <2>2 DEF Unbroken, running, Own
  <2>4. q \in Programs
    BY <1>1, DashboardAssumption DEF TypeOK, SendersOK, running
  <2>5. r \in Signals
    BY <2>3, <2>4, Owners
  <2>6. Linked(r) /\ (Live(q) => UpToDate(q, r))
    BY <2>3 DEF OrderInv, Unbroken
  <2>7. CASE UNCHANGED vars
    BY <2>6, <2>7, Untouched DEF vars, senders, socket
  <2>8. ASSUME NEW p \in running, Start(p)
        PROVE  Linked(r)' /\ (Live(q)' => UpToDate(q, r)')
    <3>1. /\ pc[p] = "start" /\ \A x \in running : x # p => pc'[x] = pc[x]
          /\ UNCHANGED <<bus, turn, value, socket, monitor, shown, torn>>
      BY <1>1, <2>8 DEF Start, TypeOK, SendersOK
    <3>2. Live(q)' => Live(q)
      BY <3>1
    <3> HIDE DEF Live
    <3>3. QED
      BY <2>6, <3>1, <3>2, Untouched DEF socket
  <2>9. ASSUME NEW p \in running, Send(p) \/ Stall(p)
        PROVE  Linked(r)' /\ (Live(q)' => UpToDate(q, r)')
    <3>1. PICK f \in Written(p) : Relay(p, f) \/ UNCHANGED stream
      BY <2>9 DEF Send, Stall
    <3>2. /\ Advance(p) /\ UNCHANGED <<pc, monitor, shown, torn>>
          /\ bus = "up" /\ pc[p] = "loop"
      BY <2>9 DEF Send, Stall
    <3>3. CASE monitor = "loop" /\ stream' = Append(stream, f)
      <4>1. Live(p) /\ (Live(q)' => Live(q))
        BY <3>2, <3>3
      <4> HIDE DEF Live
      <4>2. QED
        BY <1>1, <2>3, <2>6, <3>2, <3>3, <4>1, FrameKeepsOrder
    <3>4. CASE stream' = stream
      <4>1. Live(q)' => q # p /\ Live(q)
        <5>1. CASE Send(p)
          <6>1. Live(q)' => monitor = "loop" /\ stream' # stream
            <7>1. SUFFICES ASSUME monitor = "loop" PROVE stream' # stream
              BY <3>2
            <7>2. \E g \in Written(p) : stream' = Append(stream, g)
              BY <5>1, <7>1 DEF Send, Relay
            <7>3. stream \in Seq(Frames) /\ Written(p) \subseteq Frames
              BY <1>1, FrameWritten DEF TypeOK, SocketOK
            <7>4. QED
              BY <7>2, <7>3
          <6>2. QED
            BY <3>4, <6>1
        <5>2. CASE Stall(p)
          BY <5>2 DEF Stall
        <5>3. QED
          BY <2>9, <5>1, <5>2
      <4> HIDE DEF Live
      <4>2. QED
        BY <1>1, <2>3, <2>6, <3>2, <3>4, <4>1, LostKeepsOrder
    <3>5. QED
      BY <3>1, <3>3, <3>4 DEF Relay
  <2>10. ASSUME NEW p \in running, Drop(p) \/ SendToNobody(p)
         PROVE  Linked(r)' /\ (Live(q)' => UpToDate(q, r)')
    <3>1. /\ UNCHANGED <<bus, stream, monitor, shown, torn>>
          /\ \/ Advance(p) /\ (Live(q)' => q # p /\ Live(q))
             \/ UNCHANGED <<turn, value>> /\ (Live(q)' => Live(q))
      <4>1. UNCHANGED <<bus, stream, monitor, shown, torn>>
        BY <2>10 DEF Drop, SendToNobody, socket
      <4>2. CASE Drop(p)
        BY <1>1, <4>1, <4>2 DEF Drop, TypeOK, SendersOK
      <4>3. CASE SendToNobody(p)
        BY <1>1, <4>1, <4>3 DEF SendToNobody, TypeOK, SendersOK
      <4>4. QED
        BY <2>10, <4>1, <4>2, <4>3
    <3> HIDE DEF Live
    <3>2. QED
      BY <1>1, <2>3, <2>6, <3>1, LostKeepsOrder, Untouched
  <2>11. CASE BusStops
    BY <2>6, <2>11, Untouched DEF BusStops, senders, socket
  <2>12. CASE MonitorStart
    <3>1. /\ stream' = << >> /\ shown' = [s \in Signals |-> Blank]
      BY <1>1, <2>12 DEF MonitorStart, NothingYet, socket
    <3>2. Places(r)' = {}
      BY <2>5, <3>1 DEF Places
    <3>3. QED
      BY <3>2 DEF Linked, UpToDate
  <2>13. CASE Arrive
    BY <2>6, <2>13, Untouched DEF Arrive, senders
  <2>14. CASE Recv
    <3>1. Linked(r)' /\ (UpToDate(q, r) => UpToDate(q, r)')
      BY <1>1, <2>5, <2>6, <2>14, RecvFrameKeepsOrder, RecvPartKeepsOrder DEF Recv
    <3>2. Live(q)' => Live(q)
      BY <2>14 DEF Recv, RecvFrame, RecvPart, senders
    <3> HIDE DEF Live
    <3>3. QED
      BY <2>6, <3>1, <3>2
  <2>15. CASE Quit \/ RecvError
    <3>1. stream' = << >> /\ shown' = [s \in Signals |-> Blank]
      BY <2>15 DEF Quit, RecvError, MonitorEnds
    <3>2. Places(r)' = {}
      BY <2>5, <3>1 DEF Places
    <3>3. QED
      BY <3>2 DEF Linked, UpToDate
  <2> HIDE DEF Live
  <2>16. QED
    BY <2>7, <2>8, <2>9, <2>10, <2>11, <2>12, <2>13, <2>14, <2>15 DEF Next
<1>4. QED
  BY <1>1, <1>2, <1>3 DEF OrderInv

\* Until recv() splits a frame, the values a display slot goes through are those
\* of its program, one after the other: nothing is lost, doubled or overtaken
\* between the loop that sends and the display, whatever becomes of the bus.
THEOREM DashboardUnbroken == Spec => []Unbroken
<1>1. OrderInv => Unbroken
  BY DEF OrderInv
<1>2. QED
  BY <1>1, OrderInit, OrderNext, PTL DEF Spec

-----------------------------------------------------------------------------
(* No value twice running *)

\* A round moves the byte of its signal, wherever in a byte's range it begins:
\* no step is 0 in the arithmetic of the signal's type and range.
LEMMA RoundMoves ==
  ASSUME NEW s \in Signals, NEW a \in 0 .. 255, NEW b, Follows(s, a, b)
  PROVE  a # b
<1>1. PICK v \in {a, a - 256}, d \in {FirstStep[s], -FirstStep[s]} :
        /\ s \notin Angles => v = a /\ d = FirstStep[s]
        /\ Uint8(NextValue(s, v, d)) = b
  BY DEF Follows
<1>2. CASE s \in WheelSignals
  <2>1. v = a /\ d \in 1 .. 4 /\ s \notin Angles
    BY <1>1, <1>2 DEF WheelSignals, FirstStep, Angles, Limit
  <2>2. NextValue(s, v, d) = Uint8((v + d) % 200)
    BY <1>2 DEF NextValue, WheelSignals, Angles, Limit
  <2>3. b = (a + d) % 200
    BY <1>1, <2>1, <2>2 DEF Uint8
  <2>4. QED
    BY <2>1, <2>3
<1>3. CASE s = "ENGINE"
  <2>1. v = a /\ d = 4
    BY <1>1, <1>3 DEF FirstStep, Angles, Limit
  <2>2. NextValue(s, v, d) = Reset(Uint8(v + d), 40, 8)
    BY <1>3 DEF NextValue, WheelSignals, Angles, Limit
  <2>3. QED
    BY <1>1, <2>1, <2>2 DEF Reset, Uint8
<1>4. CASE s = "BRAKE_CMD"
  <2>1. v = a /\ d = 5
    BY <1>1, <1>4 DEF FirstStep, Angles, Limit
  <2>2. NextValue(s, v, d) = Reset(Uint8(v + d), 100, 0)
    BY <1>4 DEF NextValue, WheelSignals, Angles, Limit
  <2>3. QED
    BY <1>1, <2>1, <2>2 DEF Reset, Uint8
<1>5. CASE s \in Angles
  <2>1. d \in {5, -5, 2, -2}
    BY <1>1, <1>5 DEF FirstStep, Angles, Limit
  <2>2. NextValue(s, v, d) = Int8(v + d)
    BY <1>5 DEF NextValue, WheelSignals, Angles, Limit
  <2>3. QED
    BY <1>1, <2>1, <2>2 DEF Int8, Uint8
<1>6. QED
  BY <1>2, <1>3, <1>4, <1>5, Shapes DEF WheelSignals, Angles, Limit

\* Until recv() splits a frame, every frame read changes what the display shows of
\* its signal, except where the attacker sends it too: the part of NeverFreezes that
\* needs no fairness.
THEOREM DashboardMoves == Spec => EveryReadMoves
<1> DEFINE Moves ==
      ~torn /\ RecvFrame =>
        \A p \in running : \A s \in Own(p) :
          stream[1].sig = s /\ ~Contested(s) => shown'[s] # shown[s]
<1>1. OrderInv /\ [Next]_vars => [Moves]_vars
  <2> SUFFICES ASSUME OrderInv, ~torn, RecvFrame, NEW p \in running,
                      NEW s \in Own(p), stream[1].sig = s, ~Contested(s)
               PROVE  shown'[s] # shown[s]
    OBVIOUS
  <2>1. /\ TypeOK /\ Aligned /\ Unbroken
        /\ monitor = "loop" /\ Available = FrameBytes
        /\ shown' = [r \in Signals |->
             IF IsCase(r) THEN [id |-> Id[r], data |-> data,
                                secured |-> Buffer(52) # 0]
                          ELSE shown[r]]
    BY DEF OrderInv, IInv, RecvFrame
  <2>2. p \in Programs
    BY <2>1, DashboardAssumption DEF TypeOK, SendersOK, running
  <2>3. s \in Signals
    BY <2>2, Owners
  <2>4. read = 0 /\ SocketOK
    BY <2>1 DEF Aligned, TypeOK
  <2>5. IsCase(s) /\ data = stream[1].data
    BY <2>1, <2>3, <2>4, WholeFrameRead
  <2>6. shown'[s] = [id |-> Id[s], data |-> stream[1].data,
                     secured |-> Buffer(52) # 0]
    BY <2>1, <2>3, <2>5
  <2>7. CASE shown[s] = Blank
    <3>1. Id[s] # 0
      BY <2>3, IdIsWord
    <3>2. shown'[s].id # Blank.id
      BY <2>6, <3>1 DEF Blank
    <3>3. QED
      BY <2>7, <3>2
  <2>8. CASE shown[s] # Blank
    <3>1. Len(stream) >= 1 /\ Len(stream) \in Nat
      BY <2>1, <2>4, FrameInSocket
    <3>2. 0 \in Places(s) /\ 1 \in Places(s)
      BY <2>8, <3>1 DEF Places
    <3>3. Linked(s)
      BY <2>1 DEF Unbroken
    <3>4. Follows(s, Datum(s, 0), Datum(s, 1))
      <4>1. \A i \in Places(s) : i <= 0 \/ 1 <= i
        BY PlacesAreNat
      <4>2. QED
        BY <3>2, <3>3, <4>1 DEF Linked
    <3>5. Datum(s, 0) = shown[s].data /\ Datum(s, 1) = stream[1].data
      BY DEF Datum
    <3>6. shown[s].data \in 0 .. 255
      BY <2>1, <2>3 DEF TypeOK, MonitorOK
    <3>7. shown[s].data # stream[1].data
      BY <2>3, <3>4, <3>5, <3>6, RoundMoves
    <3>8. shown'[s].data = stream[1].data
      BY <2>6
    <3>9. QED
      BY <3>7, <3>8
  <2>9. QED
    BY <2>7, <2>8
<1>2. QED
  BY OrderInit, OrderNext, <1>1, PTL DEF Spec, EveryReadMoves

-----------------------------------------------------------------------------
(* Reads that are not aligned *)

\* The MAC of a wheel's frame: each byte is one accumulated byte XOR its index.
LEMMA MacOfFrame ==
  ASSUME NEW f \in Frames, f.sig \in WheelSignals
  PROVE  \E acc : \A j \in 0 .. 31 :
           Protected[f.sig][f.data].mac[j] = Hsm!Xor(acc, Hsm!ByteOf(j))
<1> DEFINE clear(s, d) == Hsm!WheelFrame(Id[s], Hsm!ByteOf(d))
           frame(s, d) == Hsm!hsm_protect_frame(WheelName[s], clear(s, d))
<1>1. ASSUME NEW s \in WheelSignals, NEW d \in 0 .. 255
      PROVE  \E acc : \A j \in 0 .. 31 :
               frame(s, d).mac[j] = Hsm!Xor(acc, Hsm!ByteOf(j))
  <2> DEFINE g == clear(s, d)
             acc == Hsm!Accumulated(Hsm!comm_key(WheelName[s]), Hsm!Buffer(g))
  <2> HIDE DEF g
  <2>1. Hsm!hsm_protect_frame(WheelName[s], g).mac =
          Hsm!hmac_sha256_dummy(Hsm!comm_key(WheelName[s]), Hsm!Buffer(g))
    BY DEF Hsm!hsm_protect_frame
  <2>2. \A j \in 0 .. 31 : Hsm!hsm_protect_frame(WheelName[s], g).mac[j]
                              = Hsm!Xor(acc, Hsm!ByteOf(j))
    BY <2>1 DEF Hsm!hmac_sha256_dummy
  <2>3. QED
    BY ZenonT(60), <2>2 DEF g
<1> HIDE DEF frame
<1>2. f.sig \in WheelSignals /\ f.data \in 0 .. 255
  BY DEF Frames
<1>3. Protected[f.sig][f.data] = frame(f.sig, f.data)
  BY <1>2 DEF Protected, frame
<1>4. PICK acc : \A j \in 0 .. 31 :
        frame(f.sig, f.data).mac[j] = Hsm!Xor(acc, Hsm!ByteOf(j))
  BY <1>1, <1>2
<1>5. QED
  BY <1>3, <1>4

\* Two bytes of a MAC that follow one another are not both 0: they differ in
\* their lowest bit, the one in which their indices differ.
LEMMA MacHasNoZeros ==
  ASSUME NEW f \in Frames, ~Forged(f), f.sig \in WheelSignals, NEW k \in 20 .. 50
  PROVE  Byte(f, k) # 0 \/ Byte(f, k + 1) # 0
<1> DEFINE mac == Protected[f.sig][f.data].mac
           i == k - 20
<1>1. PICK acc : \A j \in 0 .. 31 : mac[j] = Hsm!Xor(acc, Hsm!ByteOf(j))
  BY MacOfFrame
<1>2. Byte(f, k) = Hsm!Value(mac[i]) /\ Byte(f, k + 1) = Hsm!Value(mac[i + 1])
  <2> HIDE DEF mac
  <2>1. \A j \in 20 .. 51 : Byte(f, j) = Hsm!Value(mac[j - 20])
    <3>1. \A j : Byte(f, j) = Cleared(f.sig, f.data, j)
      BY PlainByte, Zenon DEF Forged
    <3>2. \A j \in 20 .. 51 : Cleared(f.sig, f.data, j) = Hsm!Value(mac[j - 20])
      BY DEF Cleared, mac
    <3>3. QED
      BY <3>1, <3>2
  <2>2. k \in 20 .. 51 /\ k + 1 \in 20 .. 51 /\ (k + 1) - 20 = i + 1
    OBVIOUS
  <2> HIDE DEF i
  <2>3. k - 20 = i
    BY DEF i
  <2>4. QED
    BY <2>1, <2>2, <2>3
<1> HIDE DEF mac
<1>3. i \in 0 .. 30
  OBVIOUS
<1> HIDE DEF i
<1>4. /\ 0 \in Hsm!ByteOf(i) <=> i % 2 = 1
      /\ 0 \in Hsm!ByteOf(i + 1) <=> (i + 1) % 2 = 1
  BY <1>3 DEF Hsm!ByteOf, Hsm!Weight
<1>5. 0 \in mac[i] \/ 0 \in mac[i + 1]
  <2>1. mac[i] = Hsm!Xor(acc, Hsm!ByteOf(i)) /\ mac[i + 1] = Hsm!Xor(acc, Hsm!ByteOf(i + 1))
    BY <1>1, <1>3
  <2>2. 0 \in Hsm!ByteOf(i) <=> 0 \notin Hsm!ByteOf(i + 1)
    BY <1>3, <1>4
  <2>3. QED
    BY <2>1, <2>2 DEF Hsm!Xor
<1>6. \A b : 0 \in b => Hsm!Value(b) # 0
  BY DEF Hsm!Value, Hsm!Weight
<1>7. QED
  BY <1>2, <1>5, <1>6

\* The bytes of a cleared frame that do not depend on the HSM.
LEMMA PlainBytes ==
  ASSUME NEW f \in Frames, ~Forged(f)
  PROVE  /\ Byte(f, 4) = 1
         /\ Byte(f, 52) = IF f.sig \in WheelSignals THEN 1 ELSE 0
         /\ \A k \in (6 .. 15) \cup (53 .. 63) : Byte(f, k) = 0
         /\ f.sig \notin WheelSignals => \A k \in 16 .. 63 : Byte(f, k) = 0
<1>1. \A k : Byte(f, k) = Cleared(f.sig, f.data, k)
  BY PlainByte, Zenon DEF Forged
<1>2. QED
  BY <1>1, ClearedBytes

\* A read that starts inside a frame and finds an id before its end: the byte
\* that is then shown is one of the zeros of the frame.
LEMMA IdAcross ==
  ASSUME NEW f \in Frames, ~Forged(f), NEW r \in 1 .. 60, NEW s \in Signals,
         Byte(f, r) + 256 * Byte(f, r + 1) = Id[s],
         Byte(f, r + 2) = 0, Byte(f, r + 3) = 0
  PROVE  r \in {3, 4, 51} /\ Byte(f, r + 5) = 0 /\ s \notin {"BRAKE_CMD", "STEER_CMD"}
<1>1. Id[s] \in {256, 257, 258, 259, 272, 288, 768, 770}
      /\ (Id[s] < 768 => s \notin {"BRAKE_CMD", "STEER_CMD"})
  BY DEF Id, Signals, CAN_ID_WHEEL_FL, CAN_ID_WHEEL_FR, CAN_ID_WHEEL_RL,
     CAN_ID_WHEEL_RR, CAN_ID_ENGINE, CAN_ID_STEER, CAN_ID_BRAKE_CMD,
     CAN_ID_STEER_CMD
<1> DEFINE isByte(k) == Byte(f, k) \in 0 .. 255
<1>2. \A k \in 0 .. 63 : isByte(k)
  BY ByteIsByte
<1> HIDE DEF isByte
<1>3. /\ Byte(f, 1) = Id[f.sig] \div 256
      /\ Byte(f, 2) = 0 /\ Byte(f, 3) = 0
      /\ Byte(f, 4) = 1
      /\ Byte(f, 5) = f.data
      /\ Byte(f, 52) = IF f.sig \in WheelSignals THEN 1 ELSE 0
      /\ \A k \in (6 .. 15) \cup (53 .. 63) : Byte(f, k) = 0
      /\ f.sig \notin WheelSignals => \A k \in 16 .. 63 : Byte(f, k) = 0
  BY FieldsOfFrame, PlainBytes
<1>4. Byte(f, r) + 256 * Byte(f, r + 1) >= 256
  BY <1>1
<1>5. r # 1 /\ r # 2
  BY <1>3
<1>6. CASE r = 3
  <2>1. Byte(f, 3) = 0 /\ Byte(f, 4) = 1 /\ Byte(f, 8) = 0
    BY <1>3
  <2>2. Id[s] = 256
    BY <1>6, <2>1
  <2>3. QED
    BY <1>1, <1>6, <2>1, <2>2
<1>7. CASE r = 4
  <2>1. Byte(f, 4) = 1 /\ Byte(f, 5) \in 0 .. 255 /\ Byte(f, 9) = 0
    <3>1. Byte(f, 4) = 1 /\ Byte(f, 9) = 0
      BY <1>3
    <3>2. isByte(5)
      BY <1>2
    <3>3. QED
      BY <3>1, <3>2 DEF isByte
  <2>2. Id[s] = 1 + 256 * Byte(f, 5)
    BY <1>7, <2>1
  <2>3. Id[s] = 257
    BY <1>1, <2>1, <2>2
  <2>4. QED
    BY <1>1, <1>7, <2>1, <2>3
<1>8. r \notin 5 .. 14
  <2>1. SUFFICES ASSUME r \in 5 .. 14 PROVE FALSE
    OBVIOUS
  <2>2. Byte(f, r + 1) = 0
    BY <1>3, <2>1
  <2>3. Byte(f, r) \in 0 .. 255
    <3>1. isByte(r)
      BY <1>2, <2>1
    <3>2. QED
      BY <3>1 DEF isByte
  <2>4. QED
    BY <1>4, <2>2, <2>3
<1>9. r \notin 15 .. 17
  <2>1. SUFFICES ASSUME r \in 15 .. 17 PROVE FALSE
    OBVIOUS
  <2>2. Byte(f, r) \in 0 .. 255 /\ Byte(f, r + 1) \in 0 .. 255
    <3>1. isByte(r) /\ isByte(r + 1)
      BY <1>2, <2>1
    <3>2. QED
      BY <3>1 DEF isByte
  <2>3. Byte(f, r) = Id[s] % 256 /\ Byte(f, r + 1) = Id[s] \div 256
    <3> DEFINE a == Byte(f, r)
               b == Byte(f, r + 1)
               n == Id[s]
    <3>1. a \in 0 .. 255 /\ b \in 0 .. 255 /\ a + 256 * b = n
      BY <2>2
    <3> HIDE DEF a, b, n
    <3>2. a = n % 256 /\ b = n \div 256
      BY ONLY <3>1
    <3>3. QED
      BY <3>2 DEF a, b, n
  <2>4. WordAt(f, r) = WordOfId(s)
    BY <2>3 DEF WordAt, WordOfId
  <2>5. CASE f.sig \in WheelSignals
    <3>1. f = Frame(f.sig, f.data) /\ f.data \in 0 .. 255
      BY DEF Frames, Forged, Frame
    <3>2. QED
      BY <2>1, <2>4, <2>5, <3>1, CrcIsNoId
  <2>6. CASE f.sig \notin WheelSignals
    <3>1. Byte(f, r + 1) = 0
      BY <1>3, <2>1, <2>6
    <3>2. QED
      BY <1>4, <2>2, <3>1
  <2>7. QED
    BY <2>5, <2>6
<1>10. r \notin 18 .. 48
  <2>1. SUFFICES ASSUME r \in 18 .. 48 PROVE FALSE
    OBVIOUS
  <2>2. f.sig \notin WheelSignals
    <3>1. r + 2 \in 20 .. 50 /\ (r + 2) + 1 = r + 3
      BY <2>1
    <3>2. QED
      BY <3>1, MacHasNoZeros
  <2>3. Byte(f, r) = 0 /\ Byte(f, r + 1) = 0
    BY <1>3, <2>1, <2>2
  <2>4. QED
    BY <1>4, <2>3
<1>11. r \notin {49, 50}
  <2>1. SUFFICES ASSUME r \in {49, 50} PROVE FALSE
    OBVIOUS
  <2>2. Byte(f, 52) = 0
    BY <2>1
  <2>3. f.sig \notin WheelSignals
    BY <1>3, <2>2
  <2>4. Byte(f, r) = 0 /\ Byte(f, r + 1) = 0
    BY <1>3, <2>1, <2>3
  <2>5. QED
    BY <1>4, <2>4
<1>12. CASE r = 51
  <2>1. Byte(f, 51) \in 0 .. 255 /\ Byte(f, 52) \in {0, 1} /\ Byte(f, 56) = 0
    <3>1. Byte(f, 52) \in {0, 1} /\ Byte(f, 56) = 0
      BY <1>3
    <3>2. isByte(51)
      BY <1>2
    <3>3. QED
      BY <3>1, <3>2 DEF isByte
  <2>2. Id[s] < 768
    BY <1>12, <2>1
  <2>3. QED
    BY <1>1, <1>12, <2>1, <2>2
<1>13. r \notin 52 .. 60
  <2>1. SUFFICES ASSUME r \in 52 .. 60 PROVE FALSE
    OBVIOUS
  <2>2. Byte(f, r) \in {0, 1} /\ Byte(f, r + 1) = 0
    BY <1>3, <2>1
  <2>3. QED
    BY <1>4, <2>2
<1>14. QED
  BY <1>5, <1>6, <1>7, <1>8, <1>9, <1>10, <1>11, <1>12, <1>13

AllCleared == \A k \in 1 .. Len(stream) : ~Forged(stream[k])

\* What a read that is not aligned can show of cleared frames: nothing, or the 0 of
\* a signal that is no command.
LEMMA SplitReadShowsZero ==
  ASSUME SocketOK, AllCleared,
         Available = FrameBytes, read # 0, NEW s \in Signals, IsCase(s)
  PROVE  data = 0 /\ s \notin {"BRAKE_CMD", "STEER_CMD"}
<1>1. read \in 1 .. 63 /\ Len(stream) \in Nat /\ Len(stream) >= 2
  BY DEF SocketOK, Available, FrameBytes
<1> DEFINE f == stream[1]
           g == stream[2]
<1>2. f \in Frames /\ g \in Frames /\ ~Forged(f) /\ ~Forged(g)
  <2>1. stream \in Seq(Frames)
    BY DEF SocketOK
  <2>2. QED
    BY <1>1, <2>1, ElementOfSeq DEF AllCleared
<1> HIDE DEF f, g
<1>3. /\ \A k \in 0 .. 63 : read + k <= 63 => Buffer(k) = Byte(f, read + k)
      /\ \A k \in 0 .. 63 : read + k >= 64 => Buffer(k) = Byte(g, read + k - 64)
  <2>1. ASSUME NEW k \in 0 .. 63, read + k <= 63
        PROVE  Buffer(k) = Byte(f, read + k)
    <3>1. (read + k) \div 64 = 0 /\ (read + k) % 64 = read + k
      BY <1>1, <2>1
    <3>2. QED
      BY <3>1 DEF Buffer, FrameBytes, f
  <2>2. ASSUME NEW k \in 0 .. 63, read + k >= 64
        PROVE  Buffer(k) = Byte(g, read + k - 64)
    <3>1. (read + k) \div 64 = 1 /\ (read + k) % 64 = read + k - 64
      BY <1>1, <2>2
    <3>2. 1 + 1 = 2
      OBVIOUS
    <3>3. QED
      BY <3>1, <3>2 DEF Buffer, FrameBytes, g
  <2>3. QED
    BY <2>1, <2>2
<1>4. Id[s] \in 256 .. 770
  BY IdIsWord
<1>5. Buffer(2) = 0 /\ Buffer(3) = 0 /\ Buffer(0) + 256 * Buffer(1) = Id[s]
  BY <1>4 DEF IsCase, IdRead
<1>6. \A k \in 53 .. 63 : Byte(f, k) = 0
  BY <1>2, PlainBytes
<1>7. Byte(g, 1) # 0
  <2>1. Id[g.sig] \in 256 .. 770
    <3>1. g.sig \in Signals
      BY <1>2 DEF Frames
    <3>2. QED
      BY <3>1, IdIsWord
  <2>2. QED
    BY SMTT(30), <2>1, FieldsOfFrame
<1>8. CASE read \in 1 .. 60
  <2>1. /\ Buffer(0) = Byte(f, read) /\ Buffer(1) = Byte(f, read + 1)
        /\ Buffer(2) = Byte(f, read + 2) /\ Buffer(3) = Byte(f, read + 3)
    BY <1>1, <1>3, <1>8
  <2>2. /\ Byte(f, read) + 256 * Byte(f, read + 1) = Id[s]
        /\ Byte(f, read + 2) = 0 /\ Byte(f, read + 3) = 0
    BY <1>5, <2>1
  <2>3. /\ read \in {3, 4, 51} /\ Byte(f, read + 5) = 0
        /\ s \notin {"BRAKE_CMD", "STEER_CMD"}
    BY <1>2, <1>8, <2>2, IdAcross
  <2>4. Buffer(5) = Byte(f, read + 5)
    BY <1>3, <2>3
  <2>5. QED
    BY <2>3, <2>4 DEF data
<1>9. read # 61
  <2>1. SUFFICES ASSUME read = 61 PROVE FALSE
    OBVIOUS
  <2>2. Buffer(0) = Byte(f, 61) /\ Buffer(1) = Byte(f, 62)
    BY <1>3, <2>1
  <2>3. QED
    BY <1>4, <1>5, <1>6, <2>2
<1>10. read # 62
  <2>1. SUFFICES ASSUME read = 62 PROVE FALSE
    OBVIOUS
  <2>2. Buffer(3) = Byte(g, 1)
    BY <1>3, <2>1
  <2>3. QED
    BY <1>5, <1>7, <2>2
<1>11. read # 63
  <2>1. SUFFICES ASSUME read = 63 PROVE FALSE
    OBVIOUS
  <2>2. Buffer(2) = Byte(g, 1)
    BY <1>3, <2>1
  <2>3. QED
    BY <1>5, <1>7, <2>2
<1>12. QED
  BY <1>1, <1>8, <1>9, <1>10, <1>11

MisreadInv == IInv /\ MisreadShowsZero

LEMMA MisreadInit == Init => MisreadInv
  BY InvInit DEF MisreadInv, Init, MisreadShowsZero

LEMMA MisreadNext == MisreadInv /\ [Next]_vars => MisreadInv'
<1> SUFFICES ASSUME MisreadInv, [Next]_vars
             PROVE  MisreadInv'
  OBVIOUS
<1>1. IInv' /\ SendersOK /\ SocketOK /\ MonitorOK /\ StreamSent /\ MisreadShowsZero
  BY InvNext DEF MisreadInv, IInv, TypeOK
<1>0. scene' = scene
  BY DEF Next, Start, Send, Stall, Drop, SendToNobody, BusStops, MonitorStart,
     Arrive, Recv, RecvFrame, RecvPart, Quit, RecvError, MonitorEnds, vars
<1>2. ASSUME UNCHANGED <<shown, sent>>
      PROVE  MisreadShowsZero'
  BY <1>0, <1>1, <1>2 DEF MisreadShowsZero, running, SentAs
<1>3. ASSUME \E p \in running : Send(p) \/ Stall(p)
      PROVE  MisreadShowsZero'
  <2>0. PICK p \in running : Send(p) \/ Stall(p)
    BY <1>3
  <2>1. PICK f \in Written(p) : Record(f) /\ shown' = shown
    BY <2>0 DEF Send, Stall
  <2>2. f \in Frames
    BY <1>1, <2>1, FrameWritten
  <2>3. \A s \in Signals : sent[s] \subseteq sent'[s]
    <3>1. \A s \in Signals : \A x :
            sent[s] \subseteq [sent EXCEPT ![f.sig] = @ \cup {x}][s]
      BY <1>1, <2>2 DEF Frames, MonitorOK
    <3>2. QED
      BY <2>1, <3>1 DEF Record
  <2>4. \A s \in Signals : SentAs(s) \subseteq SentAs(s)'
    BY <2>3 DEF SentAs
  <2>5. QED
    BY <1>0, <1>1, <2>1, <2>4 DEF MisreadShowsZero, running
<1>4. ASSUME RecvFrame
      PROVE  MisreadShowsZero'
  <2>1. /\ Available = FrameBytes
        /\ shown' = [s \in Signals |->
             IF IsCase(s) THEN [id |-> Id[s], data |-> data,
                                secured |-> Buffer(52) # 0]
                          ELSE shown[s]]
        /\ sent' = sent
    BY <1>4 DEF RecvFrame
  <2>2. SUFFICES ASSUME "attacker" \notin running, NEW s \in Signals, shown'[s] # Blank
                 PROVE  \/ shown'[s].data \in SentAs(s)
                        \/ shown'[s].data = 0 /\ s \notin {"BRAKE_CMD", "STEER_CMD"}
    BY <1>0, <2>1 DEF MisreadShowsZero, running, SentAs
  <2>0. AllCleared
    BY <1>1, <2>2 DEF AllCleared, StreamSent, Contested
  <2>3. CASE ~IsCase(s)
    BY <1>1, <2>1, <2>2, <2>3 DEF MisreadShowsZero
  <2>4. CASE IsCase(s)
    <3>1. shown'[s] = [id |-> Id[s], data |-> data, secured |-> Buffer(52) # 0]
      BY <2>1, <2>4
    <3>2. shown'[s].data = data
      BY <3>1
    <3>3. CASE read = 0
      <4>1. s = stream[1].sig /\ data = stream[1].data
        BY <1>1, <2>1, <2>4, <3>3, WholeFrameRead
      <4>2. Len(stream) >= 1 /\ Len(stream) \in Nat
        BY <1>1, <2>1, FrameInSocket
      <4>3. AsSent(stream[1]) \in sent[s]
        BY <1>1, <4>1, <4>2 DEF StreamSent
      <4>4. stream[1].data \in SentAs(s)
        BY <4>3 DEF SentAs, AsSent
      <4>5. QED
        BY <3>2, <4>1, <4>4
    <3>4. CASE read # 0
      BY <1>1, <2>0, <2>1, <2>4, <3>2, <3>4, SplitReadShowsZero
    <3>5. QED
      BY <3>3, <3>4
  <2>5. QED
    BY <2>3, <2>4
<1>5. ASSUME Quit \/ RecvError
      PROVE  MisreadShowsZero'
  BY <1>5 DEF Quit, RecvError, MonitorEnds, MisreadShowsZero
<1>6. MisreadShowsZero'
  <2>1. CASE UNCHANGED vars
    BY <1>2, <2>1 DEF vars
  <2>2. CASE \E p \in running : Start(p)
    BY <1>2, <2>2 DEF Start
  <2>3. CASE \E p \in running : Drop(p) \/ SendToNobody(p)
    BY <1>2, <2>3 DEF Drop, SendToNobody
  <2>4. CASE BusStops \/ MonitorStart \/ Arrive
    BY <1>2, <2>4 DEF BusStops, MonitorStart, Arrive
  <2>5. CASE RecvPart
    BY <1>2, <2>5 DEF RecvPart
  <2>6. QED
    BY <1>3, <1>4, <1>5, <2>1, <2>2, <2>3, <2>4, <2>5 DEF Next, Recv
<1>7. QED
  BY <1>1, <1>6 DEF MisreadInv

\* Wherever TCP splits the frames of any programs but the attacker, what the monitor then takes
\* for a frame shows a value that was sent or the number 0, and never a command
\* that was not sent.
THEOREM DashboardMisread == Spec => []MisreadShowsZero
<1>1. MisreadInv => MisreadShowsZero
  BY DEF MisreadInv
<1>2. QED
  BY <1>1, MisreadInit, MisreadNext, PTL DEF Spec
=============================================================================

--------------------------- MODULE LiveFeed_proof ---------------------------
(***************************************************************************)
(* Theorems about LiveFeed, for any bounds, messages and callbacks: its     *)
(* safety, that it implements Feed, and that a fan-out is complete.         *)
(***************************************************************************)
EXTENDS LiveFeed, TLAPS

USE DEF Main, None, Unset

\* The initial state is well typed and satisfies the control invariant.
LEMMA TypeInit == Init => TypeOK /\ ControlInv
<1> SUFFICES ASSUME Init PROVE TypeOK /\ ControlInv
  OBVIOUS
<1> USE BoundsAssumption, MessageAssumption DEF Init
<1>1. FlagsOK
  BY Zenon DEF FlagsOK
<1>2. FieldsOK
  BY DEF FieldsOK
<1>3. OpsOK
  BY DEF OpsOK, OpStates
<1>4. LoopsOK
  BY DEF LoopsOK, LoopStates
<1>5. KafkaOK
  BY DEF KafkaOK, Loops
<1>6. HistoryOK
  BY DEF HistoryOK
<1>7. ControlInv
  BY DEF ControlInv, StartStates, Actors, Loops
<1>8. QED
  BY <1>1, <1>2, <1>3, <1>4, <1>5, <1>6, <1>7 DEF TypeOK

\* Every step keeps every variable in its type.
LEMMA TypeNext == TypeOK /\ ControlInv /\ [Next]_vars => TypeOK'
<1> SUFFICES ASSUME TypeOK, ControlInv, [Next]_vars PROVE TypeOK'
  OBVIOUS
<1> FlagsOK /\ FieldsOK /\ OpsOK /\ LoopsOK /\ KafkaOK /\ HistoryOK
  BY DEF TypeOK
<1>1. CASE StartCall
  <2>1. FlagsOK'
    BY <1>1, Zenon DEF StartCall, FlagsOK, fields, marks
  <2>2. OpsOK'
    BY <1>1 DEF StartCall, Goto, OpsOK, OpStates, Actors
  <2>3. KafkaOK'
    BY <1>1, BoundsAssumption DEF StartCall, KafkaOK
  <2>4. QED
    BY <1>1, <2>1, <2>2, <2>3 DEF StartCall, TypeOK, FieldsOK, LoopsOK, HistoryOK,
       fields, ops, loops, kafka, marks, delivery
<1>2. CASE StartCreateFails
  <2>1. FlagsOK'
    BY <1>2, Zenon DEF StartCreateFails, StartRaises, FlagsOK, fields, marks
  <2>2. OpsOK'
    BY <1>2 DEF StartCreateFails, StartRaises, Goto, OpsOK, OpStates, Actors
  <2>3. KafkaOK'
    BY <1>2 DEF StartCreateFails, KafkaOK, ControlInv, StartStates
  <2>4. QED
    BY <1>2, <2>1, <2>2, <2>3 DEF StartCreateFails, StartRaises, TypeOK, FieldsOK, LoopsOK,
       HistoryOK,
       fields, ops, loops, kafka, marks, delivery
<1>3. CASE StartCreate
  <2>1. FieldsOK'
    BY <1>3, BoundsAssumption DEF StartCreate, FieldsOK, KafkaOK, ControlInv, StartStates
  <2>2. OpsOK'
    BY <1>3 DEF StartCreate, Goto, OpsOK, OpStates, Actors
  <2>3. QED
    BY <1>3, <2>1, <2>2 DEF StartCreate, TypeOK, FlagsOK, LoopsOK, KafkaOK, HistoryOK,
       fields, ops, loops, kafka, marks, delivery
<1>4. CASE StartSubscribeFails
  <2>1. FlagsOK'
    BY <1>4, Zenon DEF StartSubscribeFails, StartRaises, FlagsOK, fields, marks
  <2>2. OpsOK'
    BY <1>4 DEF StartSubscribeFails, StartRaises, Goto, OpsOK, OpStates, Actors
  <2>3. QED
    BY <1>4, <2>1, <2>2 DEF StartSubscribeFails, StartRaises, TypeOK, FieldsOK, LoopsOK,
       KafkaOK, HistoryOK,
       fields, ops, loops, kafka, marks, delivery
<1>5. CASE StartSubscribe
  <2>1. OpsOK'
    BY <1>5 DEF StartSubscribe, Goto, OpsOK, OpStates, Actors
  <2>2. QED
    BY <1>5, <2>1 DEF StartSubscribe, TypeOK, FlagsOK, FieldsOK, LoopsOK, KafkaOK, HistoryOK,
       fields, ops, loops, kafka, marks, delivery
<1>6. CASE StartRun
  <2>1. FlagsOK'
    BY <1>6, Zenon DEF StartRun, FlagsOK, fields, marks
  <2>2. OpsOK'
    BY <1>6 DEF StartRun, Goto, OpsOK, OpStates, Actors
  <2>3. QED
    BY <1>6, <2>1, <2>2 DEF StartRun, TypeOK, FieldsOK, LoopsOK, KafkaOK, HistoryOK,
       fields, ops, loops, kafka, marks, delivery
<1>7. CASE StartThread
  <2>1. FieldsOK'
    BY <1>7, BoundsAssumption DEF StartThread, FieldsOK, ControlInv, StartStates
  <2>2. OpsOK'
    BY <1>7 DEF StartThread, Goto, OpsOK, OpStates, Actors
  <2>3. LoopsOK'
    BY <1>7, BoundsAssumption DEF StartThread, LoopsOK, LoopStates
  <2>4. QED
    BY <1>7, <2>1, <2>2, <2>3 DEF StartThread, TypeOK, FlagsOK, KafkaOK, HistoryOK,
       fields, ops, loops, kafka, marks, delivery
<1>8. CASE StartLaunchFails
  <2>1. FlagsOK'
    BY <1>8, Zenon DEF StartLaunchFails, StartRaises, FlagsOK, fields, marks
  <2>2. OpsOK'
    BY <1>8 DEF StartLaunchFails, StartRaises, Goto, OpsOK, OpStates, Actors
  <2>3. QED
    BY <1>8, <2>1, <2>2 DEF StartLaunchFails, StartRaises, TypeOK, FieldsOK, LoopsOK,
       KafkaOK, HistoryOK,
       fields, ops, loops, kafka, marks, delivery
<1>9. CASE StartLaunch
  <2>1. OpsOK'
    BY <1>9 DEF StartLaunch, Goto, OpsOK, OpStates, Actors
  <2>2. LoopsOK'
    BY <1>9, BoundsAssumption DEF StartLaunch, LoopsOK, LoopStates
  <2>3. QED
    BY <1>9, <2>1, <2>2 DEF StartLaunch, TypeOK, FlagsOK, FieldsOK, KafkaOK, HistoryOK,
       fields, ops, loops, kafka, marks, delivery
<1>10. CASE Publish
  <2>1. KafkaOK'
    BY <1>10, BoundsAssumption DEF Publish, KafkaOK
  <2>2. QED
    BY <1>10, <2>1 DEF Publish, TypeOK, FlagsOK, FieldsOK, OpsOK, LoopsOK, HistoryOK,
       fields, ops, loops, kafka, marks, delivery
<1>11. CASE Crash
  <2>1. FlagsOK'
    BY <1>11, Zenon DEF Crash, FlagsOK, fields, marks
  <2>2. FieldsOK'
    BY <1>11 DEF Crash, FieldsOK
  <2>3. OpsOK'
    BY <1>11 DEF Crash, OpsOK, OpStates
  <2>4. LoopsOK'
    BY <1>11, BoundsAssumption DEF Crash, LoopsOK, LoopStates
  <2>5. KafkaOK'
    BY <1>11, BoundsAssumption DEF Crash, KafkaOK, Loops
  <2>6. HistoryOK'
    BY <1>11, BoundsAssumption DEF Crash, HistoryOK, delivery
  <2>7. QED
    BY <1>11, <2>1, <2>2, <2>3, <2>4, <2>5, <2>6 DEF Crash, TypeOK,
       fields, ops, loops, kafka, marks, delivery
<1>12. ASSUME NEW a \in Actors, StopCall(a) PROVE TypeOK'
  <2>1. OpsOK'
    BY <1>12 DEF StopCall, Goto, OpsOK, OpStates, Actors
  <2>2. QED
    BY <1>12, <2>1 DEF StopCall, TypeOK, FlagsOK, FieldsOK, LoopsOK, KafkaOK, HistoryOK,
       fields, ops, loops, kafka, marks, delivery
<1>13. ASSUME NEW a \in Actors, StopCallIgnored(a) PROVE TypeOK'
  <2>1. FlagsOK'
    BY <1>13, Zenon DEF StopCallIgnored, ReturnsFromStop, FlagsOK, fields, marks
  <2>2. QED
    BY <1>13, <2>1 DEF StopCallIgnored, TypeOK, FieldsOK, OpsOK, LoopsOK, KafkaOK, HistoryOK,
       fields, ops, loops, kafka, marks, delivery
<1>14. ASSUME NEW a \in Actors, StopFlag(a) PROVE TypeOK'
  <2>1. FlagsOK'
    BY <1>14, Zenon DEF StopFlag, FlagsOK, fields, marks
  <2>2. OpsOK'
    BY <1>14 DEF StopFlag, Goto, OpsOK, OpStates, Actors
  <2>3. HistoryOK'
    BY <1>14, BoundsAssumption DEF StopFlag, HistoryOK, Actors, delivery
  <2>4. QED
    BY <1>14, <2>1, <2>2, <2>3 DEF StopFlag, TypeOK, FieldsOK, LoopsOK, KafkaOK,
       fields, ops, loops, kafka, marks, delivery
<1>15. ASSUME NEW a \in Actors, StopNoThread(a) PROVE TypeOK'
  <2>1. OpsOK'
    BY <1>15 DEF StopNoThread, Goto, OpsOK, OpStates, Actors
  <2>2. QED
    BY <1>15, <2>1 DEF StopNoThread, TypeOK, FlagsOK, FieldsOK, LoopsOK, KafkaOK, HistoryOK,
       fields, ops, loops, kafka, marks, delivery
<1>16. ASSUME NEW a \in Actors, StopJoinRaises(a) PROVE TypeOK'
  <2>1. OpsOK'
    BY <1>16 DEF StopJoinRaises, Goto, OpsOK, OpStates, Actors
  <2>2. QED
    BY <1>16, <2>1 DEF StopJoinRaises, TypeOK, FlagsOK, FieldsOK, LoopsOK, KafkaOK, HistoryOK,
       fields, ops, loops, kafka, marks, delivery
<1>17. ASSUME NEW a \in Actors, StopJoin(a) PROVE TypeOK'
  <2>1. OpsOK'
    BY <1>17 DEF StopJoin, Goto, OpsOK, OpStates, Actors, FieldsOK
  <2>2. QED
    BY <1>17, <2>1 DEF StopJoin, TypeOK, FlagsOK, FieldsOK, LoopsOK, KafkaOK, HistoryOK,
       fields, ops, loops, kafka, marks, delivery
<1>18. ASSUME NEW a \in Actors, StopJoined(a) PROVE TypeOK'
  <2>1. FieldsOK'
    BY <1>18 DEF StopJoined, FieldsOK
  <2>2. OpsOK'
    BY <1>18 DEF StopJoined, Goto, OpsOK, OpStates, Actors
  <2>3. HistoryOK'
    BY <1>18 DEF StopJoined, HistoryOK, ControlInv, delivery
  <2>4. QED
    BY <1>18, <2>1, <2>2, <2>3 DEF StopJoined, TypeOK, FlagsOK, LoopsOK, KafkaOK,
       fields, ops, loops, kafka, marks, delivery
<1>19. ASSUME NEW a \in Actors, StopClose(a) PROVE TypeOK'
  <2>1. FlagsOK'
    BY <1>19, Zenon DEF StopClose, ReturnsFromStop, FlagsOK, fields, marks
  <2>2. FieldsOK'
    BY <1>19 DEF StopClose, FieldsOK
  <2>3. OpsOK'
    BY <1>19 DEF StopClose, Goto, OpsOK, OpStates, Actors
  <2>4. KafkaOK'
      <3>1. CASE consumer = None
        BY <1>19, <3>1 DEF StopClose, KafkaOK
      <3>2. CASE consumer # None
        <4>1. consumer \in Loops /\ position[consumer] \in Unset..MaxOffset
          BY <3>2 DEF FieldsOK, KafkaOK
        <4>2. QED
          BY <1>19, <3>2, <4>1, BoundsAssumption DEF StopClose, KafkaOK
      <3>3. QED
        BY <3>1, <3>2
  <2>5. QED
    BY <1>19, <2>1, <2>2, <2>3, <2>4 DEF StopClose, TypeOK, LoopsOK, HistoryOK,
       fields, ops, loops, kafka, marks, delivery
<1>20. ASSUME NEW t \in Loops, LoopCheck(t) PROVE TypeOK'
  <2>1. LoopsOK'
    BY <1>20, BoundsAssumption DEF LoopCheck, At, LoopsOK, LoopStates
  <2>2. QED
    BY <1>20, <2>1 DEF LoopCheck, TypeOK, FlagsOK, FieldsOK, OpsOK, KafkaOK, HistoryOK,
       fields, ops, loops, kafka, marks, delivery
<1>21. ASSUME NEW t \in Loops, PollRaises(t) PROVE TypeOK'
  <2>1. LoopsOK'
    BY <1>21, BoundsAssumption DEF PollRaises, At, AfterPollError, LoopsOK, LoopStates
  <2>2. QED
    BY <1>21, <2>1 DEF PollRaises, TypeOK, FlagsOK, FieldsOK, OpsOK, KafkaOK, HistoryOK,
       fields, ops, loops, kafka, marks, delivery
<1>22. ASSUME NEW t \in Loops, BatchDone(t) PROVE TypeOK'
  <2>1. LoopsOK'
    BY <1>22, BoundsAssumption DEF BatchDone, At, LoopsOK, LoopStates
  <2>2. QED
    BY <1>22, <2>1 DEF BatchDone, TypeOK, FlagsOK, FieldsOK, OpsOK, KafkaOK, HistoryOK,
       fields, ops, loops, kafka, marks, delivery
<1>23. ASSUME NEW t \in Loops, DropMessage(t) PROVE TypeOK'
  <2>1. LoopsOK'
    BY <1>23, BoundsAssumption DEF DropMessage, At, MessageOver, AfterMessage, ControlInv,
       LoopsOK, LoopStates
  <2>2. HistoryOK'
      <3>1. cur[t] \in Offsets
        BY <1>23, BoundsAssumption DEF DropMessage, ControlInv, LoopsOK, Offsets
      <3>2. QED
        BY <1>23, <3>1 DEF DropMessage, MessageOver, HistoryOK, marks
  <2>3. QED
    BY <1>23, <2>1, <2>2 DEF DropMessage, MessageOver, TypeOK, FlagsOK, FieldsOK, OpsOK,
       KafkaOK,
       fields, ops, loops, kafka, marks, delivery
<1>24. ASSUME NEW t \in Loops, TakeMessage(t) PROVE TypeOK'
  <2>1. LoopsOK'
    BY <1>24, BoundsAssumption DEF TakeMessage, At, LoopsOK, LoopStates
  <2>2. QED
    BY <1>24, <2>1 DEF TakeMessage, TypeOK, FlagsOK, FieldsOK, OpsOK, KafkaOK, HistoryOK,
       fields, ops, loops, kafka, marks, delivery
<1>25. ASSUME NEW t \in Loops, FanoutDone(t) PROVE TypeOK'
  <2>1. LoopsOK'
    BY <1>25, BoundsAssumption DEF FanoutDone, At, MessageOver, AfterMessage, ControlInv,
       LoopsOK, LoopStates
  <2>2. HistoryOK'
      <3>1. cur[t] \in Offsets
        BY <1>25, BoundsAssumption DEF FanoutDone, ControlInv, LoopsOK, Offsets
      <3>2. QED
        BY <1>25, <3>1 DEF FanoutDone, MessageOver, HistoryOK, marks
  <2>3. QED
    BY <1>25, <2>1, <2>2 DEF FanoutDone, MessageOver, TypeOK, FlagsOK, FieldsOK, OpsOK, KafkaOK,
       fields, ops, loops, kafka, marks, delivery
<1>26. ASSUME NEW t \in Loops, Invoke(t) PROVE TypeOK'
  <2>1. LoopsOK'
    BY <1>26, BoundsAssumption DEF Invoke, At, LoopsOK, LoopStates
  <2>2. HistoryOK'
      <3>1. source[t] \in {None} \cup Loops /\ cur[t] \in 0..MaxOffset
        BY <1>26, BoundsAssumption DEF Invoke, ControlInv, LoopsOK
      <3>2. lastSeen' \in [Callbacks -> ({None} \cup Loops) \X (0..MaxOffset)]
        BY <1>26, <3>1 DEF Invoke, HistoryOK
      <3>3. QED
        BY <1>26, <3>2 DEF Invoke, HistoryOK, marks
  <2>3. QED
    BY <1>26, <2>1, <2>2 DEF Invoke, TypeOK, FlagsOK, FieldsOK, OpsOK, KafkaOK,
       fields, ops, loops, kafka, marks, delivery
<1>27. ASSUME NEW t \in Loops, CallbackReturns(t) PROVE TypeOK'
  <2>1. LoopsOK'
    BY <1>27, BoundsAssumption DEF CallbackReturns, At, LoopsOK, LoopStates
  <2>2. QED
    BY <1>27, <2>1 DEF CallbackReturns, TypeOK, FlagsOK, FieldsOK, OpsOK, KafkaOK, HistoryOK,
       fields, ops, loops, kafka, marks, delivery
<1>28. ASSUME NEW t \in Loops, CallbackRaises(t) PROVE TypeOK'
  <2>1. LoopsOK'
    BY <1>28, BoundsAssumption DEF CallbackRaises, At, MessageOver, AfterMessage, ControlInv,
       LoopsOK, LoopStates
  <2>2. HistoryOK'
      <3>1. cur[t] \in Offsets
        BY <1>28, BoundsAssumption DEF CallbackRaises, ControlInv, LoopsOK, Offsets
      <3>2. QED
        BY <1>28, <3>1 DEF CallbackRaises, MessageOver, HistoryOK, marks
  <2>3. QED
    BY <1>28, <2>1, <2>2 DEF CallbackRaises, MessageOver, TypeOK, FlagsOK, FieldsOK, OpsOK,
       KafkaOK,
       fields, ops, loops, kafka, marks, delivery
<1>29. ASSUME NEW t \in Loops, NEW n \in 0..MaxBatch, Poll(t, n) PROVE TypeOK'
  <2>1. /\ consumer \in Loops /\ n \in Nat
        /\ Position(consumer) \in Nat
        /\ Position(consumer) + n <= MaxOffset
    BY <1>29, BoundsAssumption DEF Poll, Position, KafkaOK, FieldsOK, Loops
  <2>2. LoopsOK'
      <3>1. pc' \in [Loops -> LoopStates] /\ idx' \in [Loops -> Nat \ {0}]
        BY <1>29 DEF Poll, At, LoopsOK, LoopStates
      <3>2. CASE n = 0
        BY <1>29, <3>1, <3>2 DEF Poll, LoopsOK
      <3>3. CASE n # 0
        <4>1. /\ Position(consumer) + 1 \in 1..MaxOffset + 1
              /\ Position(consumer) + n \in 0..MaxOffset
          BY <1>29, <2>1, <3>3, BoundsAssumption
        <4>2. cur' \in [Loops -> 1..MaxOffset + 1]
          BY <1>29, <3>3, <4>1 DEF Poll, LoopsOK
        <4>3. last' \in [Loops -> 0..MaxOffset]
          BY <1>29, <3>3, <4>1 DEF Poll, LoopsOK
        <4>4. source' \in [Loops -> {None} \cup Loops]
          BY <1>29, <2>1, <3>3 DEF Poll, LoopsOK
        <4>5. QED
          BY <3>1, <4>2, <4>3, <4>4 DEF LoopsOK
      <3>4. QED
        BY <3>2, <3>3
  <2>3. KafkaOK'
    BY <1>29, <2>1, BoundsAssumption DEF Poll, AutoCommit, KafkaOK
  <2>4. HistoryOK'
    BY <1>29, BoundsAssumption DEF Poll, HistoryOK, KafkaOK, marks
  <2>5. QED
    BY <1>29, <2>2, <2>3, <2>4 DEF Poll, TypeOK, FlagsOK, FieldsOK, OpsOK,
       fields, ops, loops, kafka, marks, delivery
<1>30. ASSUME NEW a \in Actors, NEW cb \in Callbacks, Register(a, cb) PROVE TypeOK'
  <2>1. FieldsOK'
    BY <1>30, MessageAssumption DEF Register, WithCallback, FieldsOK, Actors
  <2>2. QED
    BY <1>30, <2>1 DEF Register, TypeOK, FlagsOK, OpsOK, LoopsOK, KafkaOK, HistoryOK,
       fields, ops, loops, kafka, marks, delivery
<1>31. CASE UNCHANGED vars
  BY <1>31 DEF vars, TypeOK, FlagsOK, FieldsOK, OpsOK, LoopsOK, KafkaOK, HistoryOK,
     fields, ops, loops, kafka, marks, delivery
<1>32. QED
  BY <1>1, <1>2, <1>3, <1>4, <1>5, <1>6, <1>7, <1>8, <1>9, <1>10, <1>11, <1>12, <1>13, <1>14,
     <1>15, <1>16, <1>17, <1>18, <1>19, <1>20, <1>21, <1>22, <1>23, <1>24, <1>25, <1>26,
     <1>27, <1>28, <1>29, <1>30, <1>31, BoundsAssumption DEF Next, StartStep, StopStep,
     LoopStep, PollBatch, CallbackEnds

\* Every step keeps what the control points rely on.
LEMMA ControlNext == TypeOK /\ ControlInv /\ [Next]_vars => ControlInv'
<1> SUFFICES ASSUME TypeOK, ControlInv, [Next]_vars PROVE ControlInv'
  OBVIOUS
<1> FlagsOK /\ FieldsOK /\ OpsOK /\ LoopsOK /\ KafkaOK /\ HistoryOK
  BY DEF TypeOK
<1>1. CASE StartCall
  BY <1>1, BoundsAssumption DEF StartCall, Goto, ControlInv, OpsOK, LoopsOK, KafkaOK,
     StartStates, Actors, Loops,
     fields, ops, loops, kafka, marks, delivery
<1>2. CASE StartCreateFails
  BY <1>2, BoundsAssumption DEF StartCreateFails, StartRaises, Goto, ControlInv, OpsOK,
     LoopsOK, KafkaOK, StartStates, Actors, Loops,
     fields, ops, loops, kafka, marks, delivery
<1>3. CASE StartCreate
  BY <1>3, BoundsAssumption DEF StartCreate, Goto, ControlInv, OpsOK, LoopsOK, KafkaOK,
     StartStates, Actors, Loops,
     fields, ops, loops, kafka, marks, delivery
<1>4. CASE StartSubscribeFails
  BY <1>4, BoundsAssumption DEF StartSubscribeFails, StartRaises, Goto, ControlInv, OpsOK,
     LoopsOK, KafkaOK, StartStates, Actors, Loops,
     fields, ops, loops, kafka, marks, delivery
<1>5. CASE StartSubscribe
  BY <1>5, BoundsAssumption DEF StartSubscribe, Goto, ControlInv, OpsOK, LoopsOK, KafkaOK,
     StartStates, Actors, Loops,
     fields, ops, loops, kafka, marks, delivery
<1>6. CASE StartRun
  BY <1>6, BoundsAssumption DEF StartRun, Goto, ControlInv, OpsOK, LoopsOK, KafkaOK,
     StartStates, Actors, Loops,
     fields, ops, loops, kafka, marks, delivery
<1>7. CASE StartThread
  BY <1>7, BoundsAssumption DEF StartThread, Goto, ControlInv, OpsOK, LoopsOK, KafkaOK,
     StartStates, Actors, Loops,
     fields, ops, loops, kafka, marks, delivery
<1>8. CASE StartLaunchFails
  BY <1>8, BoundsAssumption DEF StartLaunchFails, StartRaises, Goto, ControlInv, OpsOK,
     LoopsOK, KafkaOK, StartStates, Actors, Loops,
     fields, ops, loops, kafka, marks, delivery
<1>9. CASE StartLaunch
  BY <1>9, BoundsAssumption DEF StartLaunch, Goto, ControlInv, OpsOK, LoopsOK, KafkaOK,
     StartStates, Actors, Loops,
     fields, ops, loops, kafka, marks, delivery
<1>10. CASE Publish
  BY <1>10, BoundsAssumption DEF Publish, ControlInv, OpsOK, LoopsOK, KafkaOK, StartStates,
     Actors, Loops,
     fields, ops, loops, kafka, marks, delivery
<1>11. CASE Crash
  BY <1>11, BoundsAssumption DEF Crash, ControlInv, OpsOK, LoopsOK, KafkaOK, StartStates,
     Actors, Loops,
     fields, ops, loops, kafka, marks, delivery
<1>12. ASSUME NEW a \in Actors, StopCall(a) PROVE ControlInv'
  BY <1>12, BoundsAssumption DEF StopCall, Goto, ControlInv, OpsOK, LoopsOK, KafkaOK,
     StartStates, Actors, Loops,
     fields, ops, loops, kafka, marks, delivery
<1>13. ASSUME NEW a \in Actors, StopCallIgnored(a) PROVE ControlInv'
  BY <1>13, BoundsAssumption DEF StopCallIgnored, ControlInv, OpsOK, LoopsOK, KafkaOK,
     StartStates, Actors, Loops,
     fields, ops, loops, kafka, marks, delivery
<1>14. ASSUME NEW a \in Actors, StopFlag(a) PROVE ControlInv'
  BY <1>14, BoundsAssumption DEF StopFlag, Goto, ControlInv, OpsOK, LoopsOK, KafkaOK,
     StartStates, Actors, Loops,
     fields, ops, loops, kafka, marks, delivery
<1>15. ASSUME NEW a \in Actors, StopNoThread(a) PROVE ControlInv'
  BY <1>15, BoundsAssumption DEF StopNoThread, Goto, ControlInv, OpsOK, LoopsOK, KafkaOK,
     StartStates, Actors, Loops,
     fields, ops, loops, kafka, marks, delivery
<1>16. ASSUME NEW a \in Actors, StopJoinRaises(a) PROVE ControlInv'
  BY <1>16, BoundsAssumption DEF StopJoinRaises, Goto, ControlInv, OpsOK, LoopsOK, KafkaOK,
     StartStates, Actors, Loops,
     fields, ops, loops, kafka, marks, delivery
<1>17. ASSUME NEW a \in Actors, StopJoin(a) PROVE ControlInv'
  BY <1>17, BoundsAssumption DEF StopJoin, Goto, FieldsOK, ControlInv, OpsOK, LoopsOK,
     KafkaOK, StartStates, Actors, Loops,
     fields, ops, loops, kafka, marks, delivery
<1>18. ASSUME NEW a \in Actors, StopJoined(a) PROVE ControlInv'
  BY <1>18, BoundsAssumption DEF StopJoined, Goto, ControlInv, OpsOK, LoopsOK, KafkaOK,
     StartStates, Actors, Loops,
     fields, ops, loops, kafka, marks, delivery
<1>19. ASSUME NEW a \in Actors, StopClose(a) PROVE ControlInv'
  BY <1>19, BoundsAssumption DEF StopClose, Goto, ControlInv, OpsOK, LoopsOK, KafkaOK,
     StartStates, Actors, Loops,
     fields, ops, loops, kafka, marks, delivery
<1>20. ASSUME NEW t \in Loops, LoopCheck(t) PROVE ControlInv'
  BY <1>20, BoundsAssumption DEF LoopCheck, At, ControlInv, OpsOK, LoopsOK, KafkaOK,
     StartStates, Actors, Loops,
     fields, ops, loops, kafka, marks, delivery
<1>21. ASSUME NEW t \in Loops, PollRaises(t) PROVE ControlInv'
  BY <1>21, BoundsAssumption DEF PollRaises, At, AfterPollError, ControlInv, OpsOK, LoopsOK,
     KafkaOK, StartStates, Actors, Loops,
     fields, ops, loops, kafka, marks, delivery
<1>22. ASSUME NEW t \in Loops, BatchDone(t) PROVE ControlInv'
  BY <1>22, BoundsAssumption DEF BatchDone, At, ControlInv, OpsOK, LoopsOK, KafkaOK,
     StartStates, Actors, Loops,
     fields, ops, loops, kafka, marks, delivery
<1>23. ASSUME NEW t \in Loops, DropMessage(t) PROVE ControlInv'
  BY <1>23, BoundsAssumption DEF DropMessage, At, MessageOver, AfterMessage, ControlInv,
     OpsOK, LoopsOK, KafkaOK, StartStates, Actors, Loops,
     fields, ops, loops, kafka, marks, delivery
<1>24. ASSUME NEW t \in Loops, TakeMessage(t) PROVE ControlInv'
  <2>1. cur[t] \in Offsets /\ KindOf[cur[t]] \in Kinds
    BY <1>24, BoundsAssumption, MessageAssumption DEF TakeMessage, LoopsOK, Offsets
  <2>2. QED
    BY <1>24, <2>1 DEF TakeMessage, At, ControlInv, LoopsOK, fields, ops, kafka, marks, delivery
<1>25. ASSUME NEW t \in Loops, FanoutDone(t) PROVE ControlInv'
  BY <1>25, BoundsAssumption DEF FanoutDone, At, MessageOver, AfterMessage, ControlInv,
     OpsOK, LoopsOK, KafkaOK, StartStates, Actors, Loops,
     fields, ops, loops, kafka, marks, delivery
<1>26. ASSUME NEW t \in Loops, Invoke(t) PROVE ControlInv'
  BY <1>26, BoundsAssumption DEF Invoke, At, ControlInv, OpsOK, LoopsOK, KafkaOK,
     StartStates, Actors, Loops,
     fields, ops, loops, kafka, marks, delivery
<1>27. ASSUME NEW t \in Loops, CallbackReturns(t) PROVE ControlInv'
  BY <1>27, BoundsAssumption DEF CallbackReturns, At, ControlInv, OpsOK, LoopsOK, KafkaOK,
     StartStates, Actors, Loops,
     fields, ops, loops, kafka, marks, delivery
<1>28. ASSUME NEW t \in Loops, CallbackRaises(t) PROVE ControlInv'
  BY <1>28, BoundsAssumption DEF CallbackRaises, At, MessageOver, AfterMessage, ControlInv,
     OpsOK, LoopsOK, KafkaOK, StartStates, Actors, Loops,
     fields, ops, loops, kafka, marks, delivery
<1>29. ASSUME NEW t \in Loops, NEW n \in 0..MaxBatch, Poll(t, n) PROVE ControlInv'
  <2>1. UNCHANGED <<op, joining, starts>>
    BY <1>29 DEF Poll, ops
  <2>2. \A u \in Loops : pc'[u] \in {"fan", "callback"} =>
          /\ pc[u] \in {"fan", "callback"}
          /\ cur'[u] = cur[u] /\ last'[u] = last[u]
    BY <1>29 DEF Poll, At, LoopsOK
  <2>3. QED
    BY <2>1, <2>2 DEF ControlInv
<1>30. ASSUME NEW a \in Actors, NEW cb \in Callbacks, Register(a, cb) PROVE ControlInv'
  BY <1>30, BoundsAssumption DEF Register, ControlInv, OpsOK, LoopsOK, KafkaOK, StartStates,
     Actors, Loops,
     fields, ops, loops, kafka, marks, delivery
<1>31. CASE UNCHANGED vars
  BY <1>31, BoundsAssumption DEF vars, ControlInv, OpsOK, LoopsOK, KafkaOK, StartStates,
     Actors, Loops,
     fields, ops, loops, kafka, marks, delivery
<1>32. QED
  BY <1>1, <1>2, <1>3, <1>4, <1>5, <1>6, <1>7, <1>8, <1>9, <1>10, <1>11, <1>12, <1>13, <1>14,
     <1>15, <1>16, <1>17, <1>18, <1>19, <1>20, <1>21, <1>22, <1>23, <1>24, <1>25, <1>26,
     <1>27, <1>28, <1>29, <1>30, <1>31, BoundsAssumption DEF Next, StartStep, StopStep,
     LoopStep, PollBatch, CallbackEnds

\* A loop thread leaves alone what start() and stop() work on, and no step of
\* it brings a thread to life.
LEMMA LoopStepFrame ==
  ASSUME TypeOK, NEW t \in Loops, LoopStep(t) \/ CallbackEnds(t)
  PROVE  /\ UNCHANGED <<fields, ops, starts, closed, marks>>
         /\ \A u \in Loops : Live(u)' => Live(u)
         /\ \A u \in Loops : pc'[u] = "new" => pc[u] = "new"
<1> LoopsOK
  BY DEF TypeOK
<1>1. CASE LoopCheck(t)
  BY <1>1 DEF LoopCheck, At, LoopsOK, Live, kafka
<1>2. CASE PollRaises(t)
  BY <1>2 DEF PollRaises, At, AfterPollError, LoopsOK, Live, kafka
<1>3. CASE BatchDone(t)
  BY <1>3 DEF BatchDone, At, LoopsOK, Live, kafka
<1>4. CASE DropMessage(t)
  BY <1>4 DEF DropMessage, At, MessageOver, AfterMessage, LoopsOK, Live, kafka
<1>5. CASE TakeMessage(t)
  BY <1>5 DEF TakeMessage, At, LoopsOK, Live, kafka
<1>6. CASE FanoutDone(t)
  BY <1>6 DEF FanoutDone, At, MessageOver, AfterMessage, LoopsOK, Live, kafka
<1>7. CASE Invoke(t)
  BY <1>7 DEF Invoke, At, LoopsOK, Live, kafka
<1>8. CASE CallbackReturns(t)
  BY <1>8 DEF CallbackReturns, At, LoopsOK, Live, kafka
<1>9. CASE CallbackRaises(t)
  BY <1>9 DEF CallbackRaises, At, MessageOver, AfterMessage, LoopsOK, Live, kafka
<1>10. ASSUME NEW n \in 0..MaxBatch, Poll(t, n)
      PROVE  /\ UNCHANGED <<fields, ops, starts, closed, marks>>
             /\ \A u \in Loops : Live(u)' => Live(u)
             /\ \A u \in Loops : pc'[u] = "new" => pc[u] = "new"
  BY <1>10 DEF Poll, At, LoopsOK, Live
<1>11. QED
  BY <1>1, <1>2, <1>3, <1>4, <1>5, <1>6, <1>7, <1>8, <1>9, <1>10,
     BoundsAssumption DEF LoopStep, CallbackEnds, PollBatch

\* Every step keeps the loop invariant: the live loop is the one `thread` names.
LEMMA LoopNext == TypeOK /\ ControlInv /\ LoopInv /\ [Next]_vars => LoopInv'
<1> SUFFICES ASSUME TypeOK, ControlInv, LoopInv, [Next]_vars PROVE LoopInv'
  OBVIOUS
<1> FlagsOK /\ FieldsOK /\ OpsOK /\ LoopsOK /\ KafkaOK
  BY DEF TypeOK
<1>1. CASE StartCall
  <2>1. op' = [op EXCEPT ![Main] = "start_create"] /\ op[Main] = "idle" /\ ~running
    BY <1>1 DEF StartCall, Goto, StartAllowed
  <2>2. UNCHANGED <<running, thread, joining, pc, abandoned>>
    BY <1>1 DEF StartCall, fields, loops
  <2>3. op'[Main] = "start_create" /\ \A t \in Loops : op'[t] = op[t]
    BY <2>1 DEF OpsOK, Actors, Loops
  <2>4. QED
    BY <2>1, <2>2, <2>3 DEF LoopInv, StartStates, NoLoop, Live
<1>2. CASE StartCreateFails
  BY <1>2 DEF StartCreateFails, StartRaises, Goto, LoopInv, ControlInv, FlagsOK, FieldsOK,
     OpsOK, LoopsOK, StartStates, Actors, NoLoop, Live,
     fields, ops, loops, kafka, marks, delivery
<1>3. CASE StartCreate
  BY <1>3 DEF StartCreate, Goto, LoopInv, ControlInv, FlagsOK, FieldsOK, OpsOK, LoopsOK,
     StartStates, Actors, NoLoop, Live,
     fields, ops, loops, kafka, marks, delivery
<1>4. CASE StartSubscribeFails
  BY <1>4 DEF StartSubscribeFails, StartRaises, Goto, LoopInv, ControlInv, FlagsOK, FieldsOK,
     OpsOK, LoopsOK, StartStates, Actors, NoLoop, Live,
     fields, ops, loops, kafka, marks, delivery
<1>5. CASE StartSubscribe
  BY <1>5 DEF StartSubscribe, Goto, LoopInv, ControlInv, FlagsOK, FieldsOK, OpsOK, LoopsOK,
     StartStates, Actors, NoLoop, Live,
     fields, ops, loops, kafka, marks, delivery
<1>6. CASE StartRun
  BY <1>6 DEF StartRun, Goto, LoopInv, ControlInv, FlagsOK, FieldsOK, OpsOK, LoopsOK,
     StartStates, Actors, NoLoop, Live,
     fields, ops, loops, kafka, marks, delivery
<1>7. CASE StartThread
  BY <1>7 DEF StartThread, Goto, LoopInv, ControlInv, FlagsOK, FieldsOK, OpsOK, LoopsOK,
     StartStates, Actors, NoLoop, Live,
     fields, ops, loops, kafka, marks, delivery
<1>8. CASE StartLaunchFails
  BY <1>8 DEF StartLaunchFails, StartRaises, Goto, LoopInv, ControlInv, FlagsOK, FieldsOK,
     OpsOK, LoopsOK, StartStates, Actors, NoLoop, Live,
     fields, ops, loops, kafka, marks, delivery
<1>9. CASE StartLaunch
  BY <1>9 DEF StartLaunch, Goto, LoopInv, ControlInv, FlagsOK, FieldsOK, OpsOK, LoopsOK,
     StartStates, Actors, NoLoop, Live,
     fields, ops, loops, kafka, marks, delivery
<1>10. CASE Publish
  BY <1>10 DEF Publish, LoopInv, ControlInv, FlagsOK, FieldsOK, OpsOK, LoopsOK, StartStates,
     Actors, NoLoop, Live,
     fields, ops, loops, kafka, marks, delivery
<1>11. CASE Crash
  BY <1>11 DEF Crash, LoopInv, ControlInv, FlagsOK, FieldsOK, OpsOK, LoopsOK, StartStates,
     Actors, NoLoop, Live,
     fields, ops, loops, kafka, marks, delivery
<1>12. ASSUME NEW a \in Actors, StopCall(a) PROVE LoopInv'
  BY <1>12 DEF StopCall, Goto, MayStop, MayCall, LoopInv, ControlInv, FlagsOK, FieldsOK,
     OpsOK, LoopsOK, StartStates, Actors, NoLoop, Live,
     fields, ops, loops, kafka, marks, delivery
<1>13. ASSUME NEW a \in Actors, StopCallIgnored(a) PROVE LoopInv'
  BY <1>13 DEF StopCallIgnored, MayStop, MayCall, LoopInv, ControlInv, FlagsOK, FieldsOK,
     OpsOK, LoopsOK, StartStates, Actors, NoLoop, Live,
     fields, ops, loops, kafka, marks, delivery
<1>14. ASSUME NEW a \in Actors, StopFlag(a) PROVE LoopInv'
  <2>1. CASE a = Main
    <3>1. op[Main] = "stop_flag" /\ op'[Main] = "stop_join"
      BY <1>14, <2>1 DEF StopFlag, Goto, OpsOK, Actors
    <3>2. \A t \in Loops : op'[t] = op[t]
      BY <1>14, <2>1 DEF StopFlag, Goto, OpsOK, Actors, Loops
    <3>3. UNCHANGED <<thread, joining, pc, abandoned>> /\ ~running'
      BY <1>14, <2>1 DEF StopFlag, loops
    <3>4. QED
      BY <3>1, <3>2, <3>3 DEF LoopInv, StartStates, NoLoop, Live
  <2>2. CASE a # Main
    BY <1>14, <2>2 DEF StopFlag, LoopInv
  <2>3. QED
    BY <2>1, <2>2
<1>15. ASSUME NEW a \in Actors, StopNoThread(a) PROVE LoopInv'
  BY <1>15 DEF StopNoThread, Goto, NothingToJoin, LoopInv, ControlInv, FlagsOK, FieldsOK,
     OpsOK, LoopsOK, StartStates, Actors, NoLoop, Live,
     fields, ops, loops, kafka, marks, delivery
<1>16. ASSUME NEW a \in Actors, StopJoinRaises(a) PROVE LoopInv'
  BY <1>16 DEF StopJoinRaises, Goto, JoinRaises, LoopInv, ControlInv, FlagsOK, FieldsOK,
     OpsOK, LoopsOK, StartStates, Actors, NoLoop, Live,
     fields, ops, loops, kafka, marks, delivery
<1>17. ASSUME NEW a \in Actors, StopJoin(a) PROVE LoopInv'
  BY <1>17 DEF StopJoin, Goto, JoinRaises, LoopInv, ControlInv, FlagsOK, FieldsOK, OpsOK,
     LoopsOK, StartStates, Actors, NoLoop, Live,
     fields, ops, loops, kafka, marks, delivery
<1>18. ASSUME NEW a \in Actors, StopJoined(a) PROVE LoopInv'
  BY <1>18 DEF StopJoined, Goto, LoopInv, ControlInv, FlagsOK, FieldsOK, OpsOK, LoopsOK,
     StartStates, Actors, NoLoop, Live,
     fields, ops, loops, kafka, marks, delivery
<1>19. ASSUME NEW a \in Actors, StopClose(a) PROVE LoopInv'
  BY <1>19 DEF StopClose, Goto, LoopInv, ControlInv, FlagsOK, FieldsOK, OpsOK, LoopsOK,
     StartStates, Actors, NoLoop, Live,
     fields, ops, loops, kafka, marks, delivery
<1>20. ASSUME NEW a \in Actors, NEW cb \in Callbacks, Register(a, cb) PROVE LoopInv'
  BY <1>20 DEF Register, LoopInv, ControlInv, FlagsOK, FieldsOK, OpsOK, LoopsOK, StartStates,
     Actors, NoLoop, Live,
     fields, ops, loops, kafka, marks, delivery
<1>21. ASSUME NEW t \in Loops, LoopStep(t) \/ CallbackEnds(t) PROVE LoopInv'
  BY <1>21, LoopStepFrame DEF LoopInv, NoLoop, fields, ops, marks
<1>22. CASE UNCHANGED vars
  BY <1>22 DEF vars, LoopInv, ControlInv, FlagsOK, FieldsOK, OpsOK, LoopsOK, StartStates,
     Actors, NoLoop, Live,
     fields, ops, loops, kafka, marks, delivery
<1>23. QED
  BY <1>1, <1>2, <1>3, <1>4, <1>5, <1>6, <1>7, <1>8, <1>9, <1>10, <1>11, <1>12, <1>13, <1>14,
     <1>15, <1>16, <1>17, <1>18, <1>19, <1>20, <1>21, <1>22 DEF Next, StartStep, StopStep

\* Every step keeps the consumer invariant: only the consumer in the field is open.
LEMMA ConsumerNext ==
  TypeOK /\ ControlInv /\ LoopInv /\ ConsumerInv /\ [Next]_vars => ConsumerInv'
<1> SUFFICES ASSUME TypeOK, ControlInv, LoopInv, ConsumerInv, [Next]_vars PROVE ConsumerInv'
  OBVIOUS
<1> FlagsOK /\ FieldsOK /\ OpsOK /\ LoopsOK /\ KafkaOK
  BY DEF TypeOK
<1>1. CASE StartCall
  BY <1>1, BoundsAssumption DEF StartCall, Goto, StartAllowed, KafkaOK, Loops, ConsumerInv,
     LoopInv, FlagsOK, FieldsOK, OpsOK, LoopsOK, StartStates, StopStates, Actors,
     fields, ops, loops, kafka, marks, delivery
<1>2. CASE StartCreateFails
  BY <1>2, BoundsAssumption DEF StartCreateFails, StartRaises, Goto, ConsumerInv, LoopInv,
     FlagsOK, FieldsOK, OpsOK, LoopsOK, StartStates, StopStates, Actors,
     fields, ops, loops, kafka, marks, delivery
<1>3. CASE StartCreate
  BY <1>3, BoundsAssumption DEF StartCreate, Goto, KafkaOK, ControlInv, Loops, ConsumerInv,
     LoopInv, FlagsOK, FieldsOK, OpsOK, LoopsOK, StartStates, StopStates, Actors,
     fields, ops, loops, kafka, marks, delivery
<1>4. CASE StartSubscribeFails
  BY <1>4, BoundsAssumption DEF StartSubscribeFails, StartRaises, Goto, ConsumerInv, LoopInv,
     FlagsOK, FieldsOK, OpsOK, LoopsOK, StartStates, StopStates, Actors,
     fields, ops, loops, kafka, marks, delivery
<1>5. CASE StartSubscribe
  BY <1>5, BoundsAssumption DEF StartSubscribe, Goto, ConsumerInv, LoopInv, FlagsOK,
     FieldsOK, OpsOK, LoopsOK, StartStates, StopStates, Actors,
     fields, ops, loops, kafka, marks, delivery
<1>6. CASE StartRun
  BY <1>6, BoundsAssumption DEF StartRun, Goto, ConsumerInv, LoopInv, FlagsOK, FieldsOK,
     OpsOK, LoopsOK, StartStates, StopStates, Actors,
     fields, ops, loops, kafka, marks, delivery
<1>7. CASE StartThread
  BY <1>7, BoundsAssumption DEF StartThread, Goto, ControlInv, ConsumerInv, LoopInv, FlagsOK,
     FieldsOK, OpsOK, LoopsOK, StartStates, StopStates, Actors,
     fields, ops, loops, kafka, marks, delivery
<1>8. CASE StartLaunchFails
  BY <1>8, BoundsAssumption DEF StartLaunchFails, StartRaises, Goto, ConsumerInv, LoopInv,
     FlagsOK, FieldsOK, OpsOK, LoopsOK, StartStates, StopStates, Actors,
     fields, ops, loops, kafka, marks, delivery
<1>9. CASE StartLaunch
  BY <1>9, BoundsAssumption DEF StartLaunch, Goto, ConsumerInv, LoopInv, FlagsOK, FieldsOK,
     OpsOK, LoopsOK, StartStates, StopStates, Actors,
     fields, ops, loops, kafka, marks, delivery
<1>10. CASE Publish
  BY <1>10, BoundsAssumption DEF Publish, ConsumerInv, LoopInv, FlagsOK, FieldsOK, OpsOK,
     LoopsOK, StartStates, StopStates, Actors,
     fields, ops, loops, kafka, marks, delivery
<1>11. CASE Crash
  BY <1>11, BoundsAssumption DEF Crash, KafkaOK, ConsumerInv, LoopInv, FlagsOK, FieldsOK,
     OpsOK, LoopsOK, StartStates, StopStates, Actors,
     fields, ops, loops, kafka, marks, delivery
<1>12. ASSUME NEW a \in Actors, StopCall(a) PROVE ConsumerInv'
  BY <1>12, BoundsAssumption DEF StopCall, Goto, MayStop, MayCall, ConsumerInv, LoopInv,
     FlagsOK, FieldsOK, OpsOK, LoopsOK, StartStates, StopStates, Actors,
     fields, ops, loops, kafka, marks, delivery
<1>13. ASSUME NEW a \in Actors, StopCallIgnored(a) PROVE ConsumerInv'
  BY <1>13, BoundsAssumption DEF StopCallIgnored, MayStop, MayCall, ReturnsFromStop,
     ConsumerInv, LoopInv, FlagsOK, FieldsOK, OpsOK, LoopsOK, StartStates, StopStates, Actors,
     fields, ops, loops, kafka, marks, delivery
<1>14. ASSUME NEW a \in Actors, StopFlag(a) PROVE ConsumerInv'
  BY <1>14, BoundsAssumption DEF StopFlag, Goto, ConsumerInv, LoopInv, FlagsOK, FieldsOK,
     OpsOK, LoopsOK, StartStates, StopStates, Actors,
     fields, ops, loops, kafka, marks, delivery
<1>15. ASSUME NEW a \in Actors, StopNoThread(a) PROVE ConsumerInv'
  BY <1>15, BoundsAssumption DEF StopNoThread, Goto, NothingToJoin, ConsumerInv, LoopInv,
     FlagsOK, FieldsOK, OpsOK, LoopsOK, StartStates, StopStates, Actors,
     fields, ops, loops, kafka, marks, delivery
<1>16. ASSUME NEW a \in Actors, StopJoinRaises(a) PROVE ConsumerInv'
  BY <1>16, BoundsAssumption DEF StopJoinRaises, Goto, JoinRaises, ConsumerInv, LoopInv,
     FlagsOK, FieldsOK, OpsOK, LoopsOK, StartStates, StopStates, Actors,
     fields, ops, loops, kafka, marks, delivery
<1>17. ASSUME NEW a \in Actors, StopJoin(a) PROVE ConsumerInv'
  BY <1>17, BoundsAssumption DEF StopJoin, Goto, ConsumerInv, LoopInv, FlagsOK, FieldsOK,
     OpsOK, LoopsOK, StartStates, StopStates, Actors,
     fields, ops, loops, kafka, marks, delivery
<1>18. ASSUME NEW a \in Actors, StopJoined(a) PROVE ConsumerInv'
  BY <1>18, BoundsAssumption DEF StopJoined, Goto, ConsumerInv, LoopInv, FlagsOK, FieldsOK,
     OpsOK, LoopsOK, StartStates, StopStates, Actors,
     fields, ops, loops, kafka, marks, delivery
<1>19. ASSUME NEW a \in Actors, StopClose(a) PROVE ConsumerInv'
  <2>1. CASE a = Main
    <3>1. op[Main] = "stop_close" /\ op' = [op EXCEPT ![Main] = "idle"]
      BY <1>19, <2>1 DEF StopClose, Goto
    <3>2. abandoned = {} /\ ~startFailed => ~running /\ consumer = starts /\ starts \in Loops
                                          /\ closed = 1..(starts - 1)
      BY <3>1 DEF ConsumerInv, LoopInv, StopStates
    <3>3. op'[Main] = "idle" /\ consumer' = None /\ (consumer # None => closed' = closed \cup {consumer})
      BY <1>19, <2>1, <3>1 DEF StopClose, OpsOK, Actors
    <3>4. UNCHANGED <<running, starts, abandoned, startFailed, pc, thread>>
      BY <1>19 DEF StopClose, loops
    <3>5. abandoned = {} /\ ~startFailed => closed' = 1..starts
      <4>1. starts \in Loops => starts \in Nat /\ starts >= 1 /\ 1..(starts - 1) \cup {starts} = 1..starts
        BY BoundsAssumption DEF Loops
      <4>2. ASSUME abandoned = {}, ~startFailed PROVE closed' = closed \cup {starts}
        BY <3>2, <3>3, <4>1, <4>2
      <4>3. QED
        BY <3>2, <4>1, <4>2
    <3>6. abandoned = {} /\ ~startFailed => \A t \in Loops : pc[t] # "new"
      BY <3>1 DEF ConsumerInv
    <3>7. QED
      BY <3>2, <3>3, <3>4, <3>5, <3>6 DEF ConsumerInv, StartStates, StopStates
  <2>2. CASE a # Main
    BY <1>19, <2>2 DEF StopClose, ConsumerInv, LoopInv, Actors
  <2>3. QED
    BY <2>1, <2>2
<1>20. ASSUME NEW a \in Actors, NEW cb \in Callbacks, Register(a, cb) PROVE ConsumerInv'
  BY <1>20, BoundsAssumption DEF Register, ConsumerInv, LoopInv, FlagsOK, FieldsOK, OpsOK,
     LoopsOK, StartStates, StopStates, Actors,
     fields, ops, loops, kafka, marks, delivery
<1>21. ASSUME NEW t \in Loops, LoopStep(t) \/ CallbackEnds(t) PROVE ConsumerInv'
  BY <1>21, LoopStepFrame DEF ConsumerInv, fields, ops, marks
<1>22. CASE UNCHANGED vars
  BY <1>22, BoundsAssumption DEF vars, ConsumerInv, LoopInv, FlagsOK, FieldsOK, OpsOK,
     LoopsOK, StartStates, StopStates, Actors,
     fields, ops, loops, kafka, marks, delivery
<1>23. QED
  BY <1>1, <1>2, <1>3, <1>4, <1>5, <1>6, <1>7, <1>8, <1>9, <1>10, <1>11, <1>12, <1>13, <1>14,
     <1>15, <1>16, <1>17, <1>18, <1>19, <1>20, <1>21, <1>22 DEF Next, StartStep, StopStep

\* A step that moves no offset and takes no message out of a batch.
LEMMA DeliveryFrame ==
  ASSUME TypeOK, DeliveryInv,
         UNCHANGED <<committed, position, baseline, handled>>,
         logEnd' \in Nat, logEnd <= logEnd',
         abandoned \subseteq abandoned',
         \A t \in Loops : abandoned = {} /\ pc[t] \in {"batch", "fan", "callback"} =>
           /\ pc'[t] \in {"batch", "fan", "callback"}
           /\ cur'[t] = cur[t] /\ last'[t] = last[t]
  PROVE  DeliveryInv'
<1>1. \A c \in Loops : position'[c] <= logEnd'
  BY BoundsAssumption DEF DeliveryInv, TypeOK, KafkaOK
<1>2. abandoned' = {} => abandoned = {}
  OBVIOUS
<1>3. \A o \in Offsets : abandoned = {} /\ InBatch(o) => InBatch(o)'
  BY DEF InBatch
<1>4. QED
  BY <1>1, <1>2, <1>3 DEF DeliveryInv, CommitBehindDelivery

\* A step that ends the current message of loop t.
LEMMA DeliveryMessageOver ==
  ASSUME TypeOK, DeliveryInv, NEW t \in Loops,
         MessageOver(t), UNCHANGED <<last, committed, position, logEnd, baseline, abandoned>>
  PROVE  DeliveryInv'
<1> LoopsOK
  BY DEF TypeOK
<1>1. \A o \in Offsets : InBatch(o) => o \in handled' \/ InBatch(o)'
  <2> SUFFICES ASSUME NEW o \in Offsets, InBatch(o), o # cur[t] PROVE InBatch(o)'
    BY DEF MessageOver
  <2>1. PICK u \in Loops : pc[u] \in {"batch", "fan", "callback"} /\ cur[u] <= o /\ o <= last[u]
    BY DEF InBatch
  <2>2. CASE u = t
    <3>1. pc'[t] = "batch" /\ cur'[t] = cur[t] + 1
      BY DEF MessageOver, At, AfterMessage, LoopsOK
    <3>2. cur[t] + 1 <= o
      BY <2>1, <2>2, BoundsAssumption DEF LoopsOK, Offsets
    <3>3. QED
      BY <2>1, <2>2, <3>1, <3>2 DEF InBatch
  <2>3. CASE u # t
    <3>1. pc'[u] = pc[u] /\ cur'[u] = cur[u]
      BY <2>3 DEF MessageOver, At, AfterMessage, LoopsOK
    <3>2. QED
      BY <2>1, <3>1 DEF InBatch
  <2>4. QED
    BY <2>2, <2>3
<1>2. handled \subseteq handled'
  BY DEF MessageOver
<1>3. QED
  BY <1>1, <1>2 DEF DeliveryInv, CommitBehindDelivery

\* Every step keeps the delivery invariant: only a poll moves a position, and
\* only while no loop holds a batch.
LEMMA DeliveryNext == TypeOK /\ LoopInv /\ DeliveryInv /\ [Next]_vars => DeliveryInv'
<1> SUFFICES ASSUME TypeOK, LoopInv, DeliveryInv, [Next]_vars PROVE DeliveryInv'
  OBVIOUS
<1> FlagsOK /\ FieldsOK /\ OpsOK /\ LoopsOK /\ KafkaOK /\ HistoryOK
  BY DEF TypeOK
<1>1. CASE StartCall
  BY <1>1, DeliveryFrame DEF StartCall, KafkaOK, fields, ops, loops, kafka, marks, delivery
<1>2. CASE StartCreateFails
  BY <1>2, DeliveryFrame DEF StartCreateFails, StartRaises, KafkaOK, fields, ops, loops,
     kafka, marks, delivery
<1>3. CASE StartCreate
  BY <1>3, DeliveryFrame DEF StartCreate, KafkaOK, fields, ops, loops, kafka, marks, delivery
<1>4. CASE StartSubscribeFails
  BY <1>4, DeliveryFrame DEF StartSubscribeFails, StartRaises, KafkaOK, fields, ops, loops,
     kafka, marks, delivery
<1>5. CASE StartSubscribe
  BY <1>5, DeliveryFrame DEF StartSubscribe, KafkaOK, fields, ops, loops, kafka, marks, delivery
<1>6. CASE StartRun
  BY <1>6, DeliveryFrame DEF StartRun, KafkaOK, fields, ops, loops, kafka, marks, delivery
<1>7. CASE StartThread
  <2>1. op[Main] = "start_thread" /\ (abandoned = {} => NoLoop)
    BY <1>7 DEF StartThread, LoopInv, StartStates
  <2>2. UNCHANGED <<committed, position, baseline, handled, logEnd, abandoned>>
    BY <1>7 DEF StartThread, kafka, marks, delivery
  <2>3. QED
    BY <2>1, <2>2, DeliveryFrame DEF NoLoop, Live, KafkaOK
<1>8. CASE StartLaunchFails
  BY <1>8, DeliveryFrame DEF StartLaunchFails, StartRaises, KafkaOK, fields, ops, loops,
     kafka, marks, delivery
<1>9. CASE StartLaunch
  <2>1. op[Main] = "start_launch" /\ (abandoned = {} => NoLoop)
    BY <1>9 DEF StartLaunch, LoopInv, StartStates
  <2>2. UNCHANGED <<committed, position, baseline, handled, logEnd, abandoned>>
    BY <1>9 DEF StartLaunch, kafka, marks, delivery
  <2>3. QED
    BY <2>1, <2>2, DeliveryFrame DEF NoLoop, Live, KafkaOK
<1>10. CASE Publish
  BY <1>10, BoundsAssumption, DeliveryFrame DEF Publish, KafkaOK, loops, marks, delivery
<1>11. CASE Crash
  BY <1>11, BoundsAssumption DEF Crash, DeliveryInv, CommitBehindDelivery, KafkaOK, HistoryOK,
     Offsets, delivery
<1>12. ASSUME NEW a \in Actors, StopCall(a) PROVE DeliveryInv'
  BY <1>12, DeliveryFrame DEF StopCall, KafkaOK, fields, ops, loops, kafka, marks, delivery
<1>13. ASSUME NEW a \in Actors, StopCallIgnored(a) PROVE DeliveryInv'
  BY <1>13, DeliveryFrame DEF StopCallIgnored, KafkaOK, fields, ops, loops, kafka, marks,
     delivery
<1>14. ASSUME NEW a \in Actors, StopFlag(a) PROVE DeliveryInv'
  BY <1>14, DeliveryFrame DEF StopFlag, KafkaOK, fields, ops, loops, kafka, marks, delivery
<1>15. ASSUME NEW a \in Actors, StopNoThread(a) PROVE DeliveryInv'
  BY <1>15, DeliveryFrame DEF StopNoThread, KafkaOK, fields, ops, loops, kafka, marks, delivery
<1>16. ASSUME NEW a \in Actors, StopJoinRaises(a) PROVE DeliveryInv'
  BY <1>16, DeliveryFrame DEF StopJoinRaises, KafkaOK, fields, ops, loops, kafka, marks,
     delivery
<1>17. ASSUME NEW a \in Actors, StopJoin(a) PROVE DeliveryInv'
  BY <1>17, DeliveryFrame DEF StopJoin, KafkaOK, fields, ops, loops, kafka, marks, delivery
<1>18. ASSUME NEW a \in Actors, StopJoined(a) PROVE DeliveryInv'
  BY <1>18, DeliveryFrame DEF StopJoined, KafkaOK, fields, ops, loops, kafka, marks, delivery
<1>19. ASSUME NEW a \in Actors, StopClose(a) PROVE DeliveryInv'
  <2>1. UNCHANGED <<pc, cur, last, logEnd, baseline, handled, abandoned>>
    BY <1>19 DEF StopClose, loops, delivery
  <2>2. CASE consumer = None
    BY <1>19, <2>1, <2>2, DeliveryFrame DEF StopClose, KafkaOK
  <2>3. CASE consumer # None
    <3>1. consumer \in Loops /\ position' = [position EXCEPT ![consumer] = Unset]
      BY <1>19, <2>3 DEF StopClose, FieldsOK
    <3>2. committed' = committed \/ committed' = position[consumer]
      BY <1>19, <2>3 DEF StopClose
    <3>3. abandoned = {} => NoLoop
      BY <1>19 DEF StopClose, LoopInv, Actors
    <3>4. \A o \in Offsets : abandoned = {} => ~InBatch(o)
      BY <3>3 DEF NoLoop, Live, InBatch
    <3>5. abandoned = {} => CommitBehindDelivery'
      BY <2>1, <3>1, <3>2, <3>4 DEF DeliveryInv, CommitBehindDelivery
    <3>6. \A c \in Loops : position'[c] = position[c] \/ position'[c] = Unset
      BY <3>1 DEF KafkaOK
    <3>7. \A c \in Loops : position'[c] <= logEnd
      BY <3>6, BoundsAssumption DEF DeliveryInv, KafkaOK
    <3>8. \A c \in Loops, o \in Offsets : o <= position'[c] => o <= position[c]
      BY <3>6, BoundsAssumption DEF Offsets, KafkaOK
    <3>9. QED
      BY <2>1, <3>4, <3>5, <3>7, <3>8 DEF DeliveryInv, CommitBehindDelivery
  <2>4. QED
    BY <2>2, <2>3
<1>20. ASSUME NEW t \in Loops, LoopCheck(t) PROVE DeliveryInv'
  BY <1>20, DeliveryFrame DEF LoopCheck, At, LoopsOK, KafkaOK, kafka, marks, delivery
<1>21. ASSUME NEW t \in Loops, PollRaises(t) PROVE DeliveryInv'
  BY <1>21, DeliveryFrame DEF PollRaises, At, AfterPollError, LoopsOK, KafkaOK, kafka, marks,
     delivery
<1>22. ASSUME NEW t \in Loops, BatchDone(t) PROVE DeliveryInv'
  <2>1. UNCHANGED <<committed, position, baseline, handled, logEnd, abandoned>>
    BY <1>22 DEF BatchDone, kafka, marks, delivery
  <2>2. \A o \in Offsets : InBatch(o) => InBatch(o)'
    <3> SUFFICES ASSUME NEW o \in Offsets, InBatch(o) PROVE InBatch(o)'
      OBVIOUS
    <3>1. PICK u \in Loops : pc[u] \in {"batch", "fan", "callback"} /\ cur[u] <= o /\ o <= last[u]
      BY DEF InBatch
    <3>2. u # t
      BY <1>22, <3>1, BoundsAssumption DEF BatchDone, LoopsOK, Offsets
    <3>3. pc'[u] = pc[u] /\ cur'[u] = cur[u] /\ last'[u] = last[u]
      BY <1>22, <3>2 DEF BatchDone, At, LoopsOK
    <3>4. QED
      BY <3>1, <3>3 DEF InBatch
  <2>3. QED
    BY <2>1, <2>2 DEF DeliveryInv, CommitBehindDelivery
<1>23. ASSUME NEW t \in Loops, DropMessage(t) PROVE DeliveryInv'
  BY <1>23, DeliveryMessageOver DEF DropMessage, kafka, marks
<1>24. ASSUME NEW t \in Loops, TakeMessage(t) PROVE DeliveryInv'
  BY <1>24, DeliveryFrame DEF TakeMessage, At, LoopsOK, KafkaOK, kafka, marks, delivery
<1>25. ASSUME NEW t \in Loops, FanoutDone(t) PROVE DeliveryInv'
  BY <1>25, DeliveryMessageOver DEF FanoutDone, kafka, marks
<1>26. ASSUME NEW t \in Loops, Invoke(t) PROVE DeliveryInv'
  BY <1>26, DeliveryFrame DEF Invoke, At, LoopsOK, KafkaOK, kafka, marks, delivery
<1>27. ASSUME NEW t \in Loops, CallbackReturns(t) PROVE DeliveryInv'
  BY <1>27, DeliveryFrame DEF CallbackReturns, At, LoopsOK, KafkaOK, kafka, marks, delivery
<1>28. ASSUME NEW t \in Loops, CallbackRaises(t) PROVE DeliveryInv'
  BY <1>28, DeliveryMessageOver DEF CallbackRaises, kafka, marks
<1>29. ASSUME NEW t \in Loops, NEW n \in 0..MaxBatch, Poll(t, n) PROVE DeliveryInv'
  <2> DEFINE p == Position(consumer)
  <2>1. /\ consumer \in Loops /\ n \in Nat
        /\ p \in Nat /\ p + n <= logEnd
    BY <1>29, BoundsAssumption DEF Poll, Position, KafkaOK, FieldsOK, Loops
  <2>2. position' = [position EXCEPT ![consumer] = p + n]
    BY <1>29 DEF Poll
  <2>3. UNCHANGED <<logEnd, abandoned, handled>>
    BY <1>29 DEF Poll, marks
  <2>4. \A c \in Loops : position'[c] <= logEnd'
    BY <2>1, <2>2, <2>3, BoundsAssumption DEF DeliveryInv, KafkaOK
  <2>5. pc[t] = "poll"
    BY <1>29 DEF Poll
  <2>6. \A o \in Offsets : abandoned = {} => ~InBatch(o)
    BY <2>5 DEF LoopInv, Live, InBatch
  <2>7. \A o \in Offsets, c \in Loops :
          abandoned = {} /\ baseline < o /\ o <= position[c] => o \in handled
    BY <2>6 DEF DeliveryInv
  <2>8. baseline' = baseline
        \/ (baseline' = logEnd /\ position[consumer] = Unset /\ committed = Unset /\ p = logEnd)
    BY <1>29 DEF Poll, Position
  <2>9. \A o \in Offsets : abandoned = {} /\ baseline < o /\ o <= p => o \in handled \/ baseline' = logEnd
    <3>1. p = position[consumer] \/ p = committed \/ baseline' = logEnd
      BY <1>29 DEF Poll, Position
    <3>2. QED
      BY <2>1, <2>7, <3>1 DEF DeliveryInv, CommitBehindDelivery
  <2>10. abandoned = {} => CommitBehindDelivery'
    <3>1. committed' = committed \/ committed' = position[consumer]
      BY <1>29 DEF Poll, AutoCommit
    <3>2. CASE baseline' = baseline
      BY <2>1, <2>3, <2>7, <3>1, <3>2 DEF DeliveryInv, CommitBehindDelivery
    <3>3. CASE baseline' # baseline
      <4>1. committed' = -1 /\ baseline' \in Nat
        BY <2>8, <3>1, <3>3, BoundsAssumption DEF KafkaOK
      <4>2. QED
        BY <4>1, BoundsAssumption DEF CommitBehindDelivery, Offsets
    <3>4. QED
      BY <3>2, <3>3
  <2>11. \A o \in Offsets : p < o /\ o <= p + n => InBatch(o)'
    <3> SUFFICES ASSUME NEW o \in Offsets, p < o, o <= p + n PROVE InBatch(o)'
      OBVIOUS
    <3>1. n # 0
      BY <2>1, BoundsAssumption DEF Offsets
    <3>2. pc'[t] = "batch" /\ cur'[t] = p + 1 /\ last'[t] = p + n
      BY <1>29, <3>1 DEF Poll, At, LoopsOK
    <3>3. p + 1 <= o
      BY <2>1, BoundsAssumption DEF Offsets
    <3>4. QED
      BY <3>2, <3>3 DEF InBatch
  <2>12. ASSUME abandoned = {}, NEW c \in Loops, NEW o \in Offsets, baseline' < o, o <= position'[c]
         PROVE  o \in handled' \/ InBatch(o)'
    <3>1. o \in Nat /\ baseline \in Nat /\ logEnd \in Nat /\ position[c] \in Int
      BY BoundsAssumption DEF Offsets, HistoryOK, KafkaOK
    <3>2. CASE baseline' = baseline /\ c # consumer
      BY <2>2, <2>3, <2>7, <2>12, <3>2 DEF KafkaOK
    <3>3. CASE baseline' = logEnd /\ c # consumer
      <4>1. position'[c] = position[c] /\ position[c] <= logEnd
        BY <2>2, <3>3 DEF DeliveryInv, KafkaOK
      <4>2. QED
        BY <2>12, <3>1, <3>3, <4>1
    <3>4. CASE c = consumer
      <4>1. o <= p + n
        BY <2>2, <2>12, <3>4 DEF KafkaOK
      <4>2. CASE o <= p
        <5>1. CASE baseline' = baseline /\ baseline' # logEnd
          BY <2>3, <2>9, <2>12, <4>2, <5>1
        <5>2. CASE baseline' = logEnd
          BY <2>1, <2>12, <3>1, <4>2, <5>2
        <5>3. QED
          BY <2>8, <5>1, <5>2
      <4>3. CASE p < o
        BY <2>11, <4>1, <4>3
      <4>4. QED
        BY <2>1, <3>1, <4>2, <4>3
    <3>5. QED
      BY <2>8, <3>2, <3>3, <3>4
  <2>13. QED
    BY <2>3, <2>4, <2>10, <2>12 DEF DeliveryInv
<1>30. ASSUME NEW a \in Actors, NEW cb \in Callbacks, Register(a, cb) PROVE DeliveryInv'
  BY <1>30, DeliveryFrame DEF Register, KafkaOK, loops, kafka, marks, delivery
<1>31. CASE UNCHANGED vars
  BY <1>31, DeliveryFrame DEF vars, fields, ops, loops, kafka, marks, delivery, KafkaOK
<1>32. QED
  BY <1>1, <1>2, <1>3, <1>4, <1>5, <1>6, <1>7, <1>8, <1>9, <1>10, <1>11, <1>12, <1>13, <1>14,
     <1>15, <1>16, <1>17, <1>18, <1>19, <1>20, <1>21, <1>22, <1>23, <1>24, <1>25, <1>26,
     <1>27, <1>28, <1>29, <1>30, <1>31, BoundsAssumption DEF Next, StartStep, StopStep,
     LoopStep, PollBatch, CallbackEnds

-----------------------------------------------------------------------------

IInv == TypeOK /\ ControlInv /\ LoopInv /\ ConsumerInv /\ DeliveryInv

\* The inductive invariant holds at the start.
LEMMA IInvInit == Init => IInv
<1> SUFFICES ASSUME Init PROVE IInv
  OBVIOUS
<1>1. TypeOK /\ ControlInv
  BY TypeInit
<1>2. LoopInv
  BY DEF Init, LoopInv, NoLoop, Live, Actors, StartStates
<1>3. ConsumerInv
  <2>1. 1..0 = {} /\ starts = 0 /\ closed = {} /\ consumer = None /\ op[Main] = "idle"
    BY DEF Init, Actors
  <2>2. ~running /\ ~stopReturned /\ \A t \in Loops : pc[t] = "unborn"
    BY DEF Init
  <2>3. QED
    BY <2>1, <2>2 DEF ConsumerInv, StartStates, StopStates
<1>4. DeliveryInv
  BY BoundsAssumption DEF Init, DeliveryInv, CommitBehindDelivery, Offsets
<1>5. QED
  BY <1>1, <1>2, <1>3, <1>4 DEF IInv

\* The inductive invariant holds in every reachable state.
LEMMA Invariance == Spec => []IInv
<1>1. IInv /\ [Next]_vars => IInv'
  BY TypeNext, ControlNext, LoopNext, ConsumerNext, DeliveryNext DEF IInv
<1>2. QED
  BY IInvInit, <1>1, PTL DEF Spec

\* Every variable of the feed keeps to its type.
THEOREM TypeCorrect == Spec => []TypeOK
<1>1. IInv => TypeOK
  BY DEF IInv
<1>2. QED
  BY Invariance, <1>1, PTL

\* live.py runs at most one consume loop as long as no stop() gives up on a
\* thread, for any number of restarts and any callbacks.
THEOREM AtMostOneLoop == Spec => []SingleLoop
<1>1. IInv => SingleLoop
  BY DEF IInv, LoopInv, SingleLoop
<1>2. QED
  BY Invariance, <1>1, PTL

\* A stop() that returns leaves no loop and no open consumer behind, unless it
\* gave up on its thread or a start() had raised.
THEOREM StopIsClean == Spec => []CleanStop
<1>1. IInv => CleanStop
  BY DEF IInv, LoopInv, ConsumerInv, CleanStop, NoLoop
<1>2. QED
  BY Invariance, <1>1, PTL

\* The committed offset covers handled messages only: at-least-once delivery
\* across crashes and restarts, for any log and any batch size.
THEOREM CommittedIsHandled == Spec => []CommitBehindDelivery
<1>1. IInv => (abandoned = {} => CommitBehindDelivery)
  BY DEF IInv, DeliveryInv
<1>2. IInv => CommitBehindDelivery
  BY <1>1 DEF CommitBehindDelivery
<1>3. QED
  BY Invariance, <1>2, PTL

-----------------------------------------------------------------------------
(***************************************************************************)
(* LiveFeed implements Feed, for any bounds, messages and callbacks.        *)
(***************************************************************************)

\* A step of a loop thread that moves no position.
LEMMA ReaderFrame ==
  ASSUME TypeOK, ReaderInv,
         UNCHANGED <<consumer, running, thread, op, starts, abandoned, position>>,
         \A u \in Loops : pc'[u] = "new" => pc[u] = "new",
         \A u \in Loops : InHand(u)' =>
           /\ InHand(u) /\ source'[u] = source[u] /\ last'[u] = last[u]
           /\ cur'[u] <= last[u] + 1 \/ cur'[u] = cur[u]
  PROVE  ReaderInv'
<1>1. Reader' = Reader /\ Fresh' = Fresh
  BY DEF Reader, Fresh
<1>2. thread \in {None} \cup Loops
  BY DEF TypeOK, FieldsOK
<1>3. ASSUME abandoned = {}, NEW u \in Loops, InHand(u)'
      PROVE  /\ Reader # None /\ source'[u] = Reader
             /\ last'[u] = position[Reader] /\ cur'[u] <= last'[u] + 1
  BY <1>3 DEF ReaderInv
<1>4. QED
  BY <1>1, <1>2, <1>3 DEF ReaderInv

\* Every step keeps the reader's part of the invariant.
LEMMA ReaderNext ==
  TypeOK /\ ControlInv /\ LoopInv /\ ReaderInv /\ [Next]_vars => ReaderInv'
<1> SUFFICES ASSUME TypeOK, ControlInv, LoopInv, ReaderInv, [Next]_vars PROVE ReaderInv'
  OBVIOUS
<1> FlagsOK /\ FieldsOK /\ OpsOK /\ LoopsOK /\ KafkaOK
  BY DEF TypeOK
<1>1. CASE StartCall
  <2>1. /\ op[Main] = "idle" /\ ~running
        /\ starts' = starts + 1 /\ \A a \in Actors : op'[a] = IF a = Main THEN "start_create" ELSE op[a]
        /\ UNCHANGED <<running, thread, consumer, position, pc, cur, last, source, abandoned>>
    BY <1>1 DEF StartCall, StartAllowed, Goto, OpsOK, fields, loops
  <2>2. abandoned = {} => Fresh
    BY <2>1 DEF ReaderInv
  <2>3. consumer \in Int /\ starts \in Int
    BY BoundsAssumption DEF FieldsOK, KafkaOK, Loops
  <2>4. QED
    BY <2>1, <2>2, <2>3 DEF ReaderInv, Fresh, InHand, Reader, Actors
<1>2. CASE StartCreateFails
  BY <1>2, BoundsAssumption DEF StartCreateFails, Goto, StartRaises, ControlInv,
     Fresh, InHand, Reader, ReaderInv, LoopInv, NoLoop, Live,
     FlagsOK, FieldsOK, OpsOK, LoopsOK, KafkaOK, StartStates, Actors, Loops, Offsets,
     fields, ops, loops, kafka, marks, delivery
<1>3. CASE StartCreate
  BY <1>3, BoundsAssumption DEF StartCreate, Goto, ControlInv,
     Fresh, InHand, Reader, ReaderInv, LoopInv, NoLoop, Live,
     FlagsOK, FieldsOK, OpsOK, LoopsOK, KafkaOK, StartStates, Actors, Loops, Offsets,
     fields, ops, loops, kafka, marks, delivery
<1>4. CASE StartSubscribeFails
  BY <1>4, BoundsAssumption DEF StartSubscribeFails, Goto, StartRaises, ControlInv,
     Fresh, InHand, Reader, ReaderInv, LoopInv, NoLoop, Live,
     FlagsOK, FieldsOK, OpsOK, LoopsOK, KafkaOK, StartStates, Actors, Loops, Offsets,
     fields, ops, loops, kafka, marks, delivery
<1>5. CASE StartSubscribe
  BY <1>5, BoundsAssumption DEF StartSubscribe, Goto, ControlInv,
     Fresh, InHand, Reader, ReaderInv, LoopInv, NoLoop, Live,
     FlagsOK, FieldsOK, OpsOK, LoopsOK, KafkaOK, StartStates, Actors, Loops, Offsets,
     fields, ops, loops, kafka, marks, delivery
<1>6. CASE StartRun
  BY <1>6, BoundsAssumption DEF StartRun, Goto, ControlInv,
     Fresh, InHand, Reader, ReaderInv, LoopInv, NoLoop, Live,
     FlagsOK, FieldsOK, OpsOK, LoopsOK, KafkaOK, StartStates, Actors, Loops, Offsets,
     fields, ops, loops, kafka, marks, delivery
<1>7. CASE StartThread
  BY <1>7, BoundsAssumption DEF StartThread, Goto, ControlInv,
     Fresh, InHand, Reader, ReaderInv, LoopInv, NoLoop, Live,
     FlagsOK, FieldsOK, OpsOK, LoopsOK, KafkaOK, StartStates, Actors, Loops, Offsets,
     fields, ops, loops, kafka, marks, delivery
<1>8. CASE StartLaunchFails
  BY <1>8, BoundsAssumption DEF StartLaunchFails, Goto, StartRaises, ControlInv,
     Fresh, InHand, Reader, ReaderInv, LoopInv, NoLoop, Live,
     FlagsOK, FieldsOK, OpsOK, LoopsOK, KafkaOK, StartStates, Actors, Loops, Offsets,
     fields, ops, loops, kafka, marks, delivery
<1>9. CASE StartLaunch
  BY <1>9, BoundsAssumption DEF StartLaunch, Goto, ControlInv,
     Fresh, InHand, Reader, ReaderInv, LoopInv, NoLoop, Live,
     FlagsOK, FieldsOK, OpsOK, LoopsOK, KafkaOK, StartStates, Actors, Loops, Offsets,
     fields, ops, loops, kafka, marks, delivery
<1>10. CASE Publish
  BY <1>10, BoundsAssumption DEF Publish, Goto, ControlInv,
     Fresh, InHand, Reader, ReaderInv, LoopInv, NoLoop, Live,
     FlagsOK, FieldsOK, OpsOK, LoopsOK, KafkaOK, StartStates, Actors, Loops, Offsets,
     fields, ops, loops, kafka, marks, delivery
<1>11. CASE Crash
  BY <1>11, BoundsAssumption DEF Crash, Goto, ControlInv,
     Fresh, InHand, Reader, ReaderInv, LoopInv, NoLoop, Live,
     FlagsOK, FieldsOK, OpsOK, LoopsOK, KafkaOK, StartStates, Actors, Loops, Offsets,
     fields, ops, loops, kafka, marks, delivery
<1>12. ASSUME NEW a \in Actors, StopCall(a) PROVE ReaderInv'
  BY <1>12, BoundsAssumption DEF StopCall, Goto, MayStop, MayCall, ControlInv,
     Fresh, InHand, Reader, ReaderInv, LoopInv, NoLoop, Live,
     FlagsOK, FieldsOK, OpsOK, LoopsOK, KafkaOK, StartStates, Actors, Loops, Offsets,
     fields, ops, loops, kafka, marks, delivery
<1>13. ASSUME NEW a \in Actors, StopCallIgnored(a) PROVE ReaderInv'
  BY <1>13, BoundsAssumption DEF StopCallIgnored, Goto, MayStop, MayCall, ReturnsFromStop, ControlInv,
     Fresh, InHand, Reader, ReaderInv, LoopInv, NoLoop, Live,
     FlagsOK, FieldsOK, OpsOK, LoopsOK, KafkaOK, StartStates, Actors, Loops, Offsets,
     fields, ops, loops, kafka, marks, delivery
<1>14. ASSUME NEW a \in Actors, StopFlag(a) PROVE ReaderInv'
  BY <1>14, BoundsAssumption DEF StopFlag, Goto, ControlInv,
     Fresh, InHand, Reader, ReaderInv, LoopInv, NoLoop, Live,
     FlagsOK, FieldsOK, OpsOK, LoopsOK, KafkaOK, StartStates, Actors, Loops, Offsets,
     fields, ops, loops, kafka, marks, delivery
<1>15. ASSUME NEW a \in Actors, StopNoThread(a) PROVE ReaderInv'
  BY <1>15, BoundsAssumption DEF StopNoThread, Goto, NothingToJoin, ControlInv,
     Fresh, InHand, Reader, ReaderInv, LoopInv, NoLoop, Live,
     FlagsOK, FieldsOK, OpsOK, LoopsOK, KafkaOK, StartStates, Actors, Loops, Offsets,
     fields, ops, loops, kafka, marks, delivery
<1>16. ASSUME NEW a \in Actors, StopJoinRaises(a) PROVE ReaderInv'
  BY <1>16, BoundsAssumption DEF StopJoinRaises, Goto, JoinRaises, ControlInv,
     Fresh, InHand, Reader, ReaderInv, LoopInv, NoLoop, Live,
     FlagsOK, FieldsOK, OpsOK, LoopsOK, KafkaOK, StartStates, Actors, Loops, Offsets,
     fields, ops, loops, kafka, marks, delivery
<1>17. ASSUME NEW a \in Actors, StopJoin(a) PROVE ReaderInv'
  BY <1>17, BoundsAssumption DEF StopJoin, Goto, ControlInv,
     Fresh, InHand, Reader, ReaderInv, LoopInv, NoLoop, Live,
     FlagsOK, FieldsOK, OpsOK, LoopsOK, KafkaOK, StartStates, Actors, Loops, Offsets,
     fields, ops, loops, kafka, marks, delivery
<1>18. ASSUME NEW a \in Actors, StopJoined(a) PROVE ReaderInv'
  BY <1>18, BoundsAssumption DEF StopJoined, Goto, ControlInv,
     Fresh, InHand, Reader, ReaderInv, LoopInv, NoLoop, Live,
     FlagsOK, FieldsOK, OpsOK, LoopsOK, KafkaOK, StartStates, Actors, Loops, Offsets,
     fields, ops, loops, kafka, marks, delivery
<1>19. ASSUME NEW a \in Actors, StopClose(a) PROVE ReaderInv'
  <2>1. op[a] = "stop_close" /\ (abandoned = {} => a = Main /\ NoLoop)
    BY <1>19 DEF StopClose, LoopInv, Actors
  <2>2. /\ consumer' = None
        /\ UNCHANGED <<starts, running, thread, pc, cur, last, source, abandoned>>
        /\ \A c \in Loops : position'[c] = IF c = consumer THEN Unset ELSE position[c]
    <3>1. /\ consumer' = None
          /\ UNCHANGED <<starts, running, thread, pc, cur, last, source, abandoned>>
      BY <1>19 DEF StopClose, loops
    <3>2. CASE consumer = None
      BY <1>19, <3>1, <3>2 DEF StopClose, Loops
    <3>3. CASE consumer # None
      <4>1. position' = [position EXCEPT ![consumer] = Unset]
        BY <1>19, <3>3 DEF StopClose
      <4>2. QED
        BY <3>1, <4>1 DEF KafkaOK
    <3>4. QED
      BY <3>2, <3>3
  <2>3. abandoned = {} => \A c \in Loops : position'[c] = Unset
    BY <2>2 DEF ReaderInv
  <2>4. abandoned = {} => \A t \in Loops : ~InHand(t)'
    BY <2>1, <2>2 DEF NoLoop, Live, InHand
  <2>5. starts \in Nat
    BY DEF KafkaOK
  <2>6. QED
    BY <2>2, <2>3, <2>4, <2>5 DEF ReaderInv, Fresh
<1>20. ASSUME NEW t \in Loops, LoopCheck(t) PROVE ReaderInv'
  BY <1>20, BoundsAssumption DEF LoopCheck, At, ControlInv,
     Fresh, InHand, Reader, ReaderInv, LoopInv, NoLoop, Live,
     FlagsOK, FieldsOK, OpsOK, LoopsOK, KafkaOK, StartStates, Actors, Loops, Offsets,
     fields, ops, loops, kafka, marks, delivery
<1>21. ASSUME NEW t \in Loops, PollRaises(t) PROVE ReaderInv'
  BY <1>21, BoundsAssumption DEF PollRaises, At, AfterPollError, ControlInv,
     Fresh, InHand, Reader, ReaderInv, LoopInv, NoLoop, Live,
     FlagsOK, FieldsOK, OpsOK, LoopsOK, KafkaOK, StartStates, Actors, Loops, Offsets,
     fields, ops, loops, kafka, marks, delivery
<1>22. ASSUME NEW t \in Loops, BatchDone(t) PROVE ReaderInv'
  <2>1. UNCHANGED <<consumer, running, thread, op, starts, abandoned, position>>
    BY <1>22 DEF BatchDone, LoopsOK, fields, ops, kafka, marks
  <2>2. /\ pc' = [pc EXCEPT ![t] = "loop"] /\ pc[t] = "batch"
        /\ \A u \in Loops \ {t} : cur'[u] = cur[u] /\ last'[u] = last[u] /\ source'[u] = source[u]
    BY <1>22 DEF BatchDone, At, LoopsOK
  <2>3. \A u \in Loops : InHand(u)' =>
          /\ InHand(u) /\ source'[u] = source[u] /\ last'[u] = last[u]
          /\ cur'[u] <= last[u] + 1 \/ cur'[u] = cur[u]
    BY <2>2 DEF InHand, LoopsOK
  <2>4. \A u \in Loops : pc'[u] = "new" => pc[u] = "new"
    BY <2>2 DEF LoopsOK
  <2>5. QED
    BY <2>1, <2>3, <2>4, ReaderFrame
<1>23. ASSUME NEW t \in Loops, DropMessage(t) PROVE ReaderInv'
  <2>1. UNCHANGED <<consumer, running, thread, op, starts, abandoned, position>>
    BY <1>23 DEF DropMessage, MessageOver, AfterMessage, ControlInv, fields, ops, kafka, marks
  <2>2. /\ pc' = [pc EXCEPT ![t] = "batch"] /\ pc[t] = "batch"
        /\ cur' = [cur EXCEPT ![t] = cur[t] + 1] /\ UNCHANGED <<last, source>> /\ cur[t] <= last[t]
    BY <1>23 DEF DropMessage, At, MessageOver, AfterMessage, ControlInv
  <2>3. \A u \in Loops : InHand(u)' =>
          /\ InHand(u) /\ source'[u] = source[u] /\ last'[u] = last[u]
          /\ cur'[u] <= last[u] + 1 \/ cur'[u] = cur[u]
    BY <2>2, BoundsAssumption DEF InHand, LoopsOK
  <2>4. \A u \in Loops : pc'[u] = "new" => pc[u] = "new"
    BY <2>2 DEF LoopsOK
  <2>5. QED
    BY <2>1, <2>3, <2>4, ReaderFrame
<1>24. ASSUME NEW t \in Loops, TakeMessage(t) PROVE ReaderInv'
  <2>1. UNCHANGED <<consumer, running, thread, op, starts, abandoned, position>>
    BY <1>24 DEF TakeMessage, fields, ops, kafka, marks
  <2>2. /\ pc' = [pc EXCEPT ![t] = "fan"] /\ pc[t] = "batch"
        /\ UNCHANGED <<cur, last, source>>
    BY <1>24 DEF TakeMessage, At
  <2>3. \A u \in Loops : InHand(u)' =>
          /\ InHand(u) /\ source'[u] = source[u] /\ last'[u] = last[u]
          /\ cur'[u] <= last[u] + 1 \/ cur'[u] = cur[u]
    BY <2>2 DEF InHand, LoopsOK
  <2>4. \A u \in Loops : pc'[u] = "new" => pc[u] = "new"
    BY <2>2 DEF LoopsOK
  <2>5. QED
    BY <2>1, <2>3, <2>4, ReaderFrame
<1>25. ASSUME NEW t \in Loops, FanoutDone(t) PROVE ReaderInv'
  <2>1. UNCHANGED <<consumer, running, thread, op, starts, abandoned, position>>
    BY <1>25 DEF FanoutDone, MessageOver, AfterMessage, ControlInv, fields, ops, kafka, marks
  <2>2. /\ pc' = [pc EXCEPT ![t] = "batch"] /\ pc[t] = "fan"
        /\ cur' = [cur EXCEPT ![t] = cur[t] + 1] /\ UNCHANGED <<last, source>> /\ cur[t] <= last[t]
    BY <1>25 DEF FanoutDone, At, MessageOver, AfterMessage, ControlInv
  <2>3. \A u \in Loops : InHand(u)' =>
          /\ InHand(u) /\ source'[u] = source[u] /\ last'[u] = last[u]
          /\ cur'[u] <= last[u] + 1 \/ cur'[u] = cur[u]
    BY <2>2, BoundsAssumption DEF InHand, LoopsOK
  <2>4. \A u \in Loops : pc'[u] = "new" => pc[u] = "new"
    BY <2>2 DEF LoopsOK
  <2>5. QED
    BY <2>1, <2>3, <2>4, ReaderFrame
<1>26. ASSUME NEW t \in Loops, Invoke(t) PROVE ReaderInv'
  <2>1. UNCHANGED <<consumer, running, thread, op, starts, abandoned, position>>
    BY <1>26 DEF Invoke, fields, ops, kafka, marks
  <2>2. /\ pc' = [pc EXCEPT ![t] = "callback"] /\ pc[t] = "fan"
        /\ UNCHANGED <<cur, last, source>>
    BY <1>26 DEF Invoke, At
  <2>3. \A u \in Loops : InHand(u)' =>
          /\ InHand(u) /\ source'[u] = source[u] /\ last'[u] = last[u]
          /\ cur'[u] <= last[u] + 1 \/ cur'[u] = cur[u]
    BY <2>2 DEF InHand, LoopsOK
  <2>4. \A u \in Loops : pc'[u] = "new" => pc[u] = "new"
    BY <2>2 DEF LoopsOK
  <2>5. QED
    BY <2>1, <2>3, <2>4, ReaderFrame
<1>27. ASSUME NEW t \in Loops, CallbackReturns(t) PROVE ReaderInv'
  BY <1>27, BoundsAssumption DEF CallbackReturns, At, ControlInv,
     Fresh, InHand, Reader, ReaderInv, LoopInv, NoLoop, Live,
     FlagsOK, FieldsOK, OpsOK, LoopsOK, KafkaOK, StartStates, Actors, Loops, Offsets,
     fields, ops, loops, kafka, marks, delivery
<1>28. ASSUME NEW t \in Loops, CallbackRaises(t) PROVE ReaderInv'
  <2>1. UNCHANGED <<consumer, running, thread, op, starts, abandoned, position>>
    BY <1>28 DEF CallbackRaises, MessageOver, AfterMessage, ControlInv, fields, ops, kafka, marks
  <2>2. /\ pc' = [pc EXCEPT ![t] = "batch"] /\ pc[t] = "callback"
        /\ cur' = [cur EXCEPT ![t] = cur[t] + 1] /\ UNCHANGED <<last, source>> /\ cur[t] <= last[t]
    BY <1>28 DEF CallbackRaises, At, MessageOver, AfterMessage, ControlInv
  <2>3. \A u \in Loops : InHand(u)' =>
          /\ InHand(u) /\ source'[u] = source[u] /\ last'[u] = last[u]
          /\ cur'[u] <= last[u] + 1 \/ cur'[u] = cur[u]
    BY <2>2, BoundsAssumption DEF InHand, LoopsOK
  <2>4. \A u \in Loops : pc'[u] = "new" => pc[u] = "new"
    BY <2>2 DEF LoopsOK
  <2>5. QED
    BY <2>1, <2>3, <2>4, ReaderFrame
<1>29. ASSUME NEW t \in Loops, NEW n \in 0..MaxBatch, Poll(t, n) PROVE ReaderInv'
  <2> DEFINE p == Position(consumer)
  <2>1. /\ consumer \in Loops /\ n \in Nat /\ p \in Nat
    BY <1>29, BoundsAssumption DEF Poll, Position, KafkaOK, FieldsOK, Loops
  <2>2. /\ pc[t] = "poll" /\ position' = [position EXCEPT ![consumer] = p + n]
        /\ UNCHANGED <<consumer, running, thread, op, starts, abandoned>>
    BY <1>29 DEF Poll, fields, ops, marks
  <2>3. ASSUME abandoned = {}
        PROVE  /\ thread = t /\ \A u \in Loops \ {t} : ~Live(u)
               /\ ~(op[Main] \in StartStates) /\ ~(op[Main] = "idle" /\ ~running)
    BY <2>2, <2>3 DEF LoopInv, Live, NoLoop
  <2>4. pc'[t] \in {"loop", "batch"} /\ \A u \in Loops \ {t} : pc'[u] = pc[u]
    BY <1>29 DEF Poll, At, LoopsOK
  <2>5. /\ position'[consumer] = p + n /\ p + n # Unset
        /\ \A c \in Loops \ {consumer} : position'[c] = position[c]
    BY <2>1, <2>2 DEF KafkaOK
  <2>6. pc'[t] = "batch" =>
          /\ source'[t] = consumer /\ last'[t] = p + n /\ cur'[t] = p + 1 /\ n # 0
    BY <1>29 DEF Poll, At, LoopsOK
  <2>7. Reader' = consumer /\ consumer # None
    BY <2>1, <2>2, <2>5 DEF Reader, Loops
  <2>8. ASSUME abandoned = {}, NEW u \in Loops, InHand(u)'
        PROVE  /\ source'[u] = Reader' /\ last'[u] = position'[Reader'] /\ cur'[u] <= last'[u] + 1
    <3>1. u = t /\ pc'[t] = "batch"
      BY <2>3, <2>4, <2>8 DEF InHand, Live
    <3>2. QED
      BY <2>1, <2>5, <2>6, <2>7, <3>1
  <2>9. abandoned = {} => (thread # None /\ pc'[thread] # "new")
    BY <2>3, <2>4 DEF Loops
  <2>10. QED
    BY <2>2, <2>3, <2>5, <2>7, <2>8, <2>9 DEF ReaderInv
<1>30. ASSUME NEW a \in Actors, NEW cb \in Callbacks, Register(a, cb) PROVE ReaderInv'
  BY <1>30, BoundsAssumption DEF Register, ControlInv,
     Fresh, InHand, Reader, ReaderInv, LoopInv, NoLoop, Live,
     FlagsOK, FieldsOK, OpsOK, LoopsOK, KafkaOK, StartStates, Actors, Loops, Offsets,
     fields, ops, loops, kafka, marks, delivery
<1>31. CASE UNCHANGED vars
  BY <1>31, BoundsAssumption DEF vars, ControlInv,
     Fresh, InHand, Reader, ReaderInv, LoopInv, NoLoop, Live,
     FlagsOK, FieldsOK, OpsOK, LoopsOK, KafkaOK, StartStates, Actors, Loops, Offsets,
     fields, ops, loops, kafka, marks, delivery
<1>32. QED
  BY <1>1, <1>2, <1>3, <1>4, <1>5, <1>6, <1>7, <1>8, <1>9, <1>10, <1>11, <1>12, <1>13, <1>14,
     <1>15, <1>16, <1>17, <1>18, <1>19, <1>20, <1>21, <1>22, <1>23, <1>24, <1>25, <1>26, <1>27,
     <1>28, <1>29, <1>30, <1>31, BoundsAssumption
     DEF Next, StartStep, StopStep, LoopStep, PollBatch, CallbackEnds

-----------------------------------------------------------------------------
(* Where the loop is in the log, and the callback it is in.                 *)

HandView == abandoned = {} => \A t \in Loops : InHand(t) =>
  /\ Past = cur[t] - 1
  /\ Calling = IF pc[t] = "callback" THEN {Fanout(t)[idx[t]]} ELSE {}
  /\ \A u \in Loops : InHand(u) => u = t
RestView == (\A t \in Loops : ~InHand(t)) =>
  Past = (IF Reader = None THEN 0 ELSE position[Reader]) /\ Calling = {}
View == HandView /\ RestView

\* One loop at most has a batch, of the reader.
LEMMA ViewIs == LoopInv /\ ReaderInv => View
<1> SUFFICES ASSUME LoopInv, ReaderInv PROVE View
  OBVIOUS
<1>1. ASSUME abandoned = {}, NEW t \in Loops, InHand(t)
      PROVE  /\ Past = cur[t] - 1
             /\ Calling = IF pc[t] = "callback" THEN {Fanout(t)[idx[t]]} ELSE {}
             /\ \A u \in Loops : InHand(u) => u = t
  <2>1. \A u \in Loops : InHand(u) => u = t
    BY <1>1 DEF LoopInv, Live, InHand
  <2>2. (CHOOSE u \in Loops : InHand(u)) = t
    BY <1>1, <2>1
  <2>3. Reader # None
    BY <1>1 DEF ReaderInv
  <2>4. Past = cur[t] - 1
    BY <1>1, <2>2, <2>3 DEF Past
  <2>5. \A u \in Loops : pc[u] = "callback" => u = t
    BY <2>1 DEF InHand
  <2>6. Calling = IF pc[t] = "callback" THEN {Fanout(t)[idx[t]]} ELSE {}
    BY <2>5 DEF Calling
  <2>7. QED
    BY <2>1, <2>4, <2>6
<1>2. RestView
  BY DEF RestView, Past, Calling, InHand
<1>3. QED
  BY <1>1, <1>2 DEF View, HandView

\* A step in which the loop stays where it is.
LEMMA ViewFrame ==
  ASSUME View, View', abandoned = {}, abandoned' = {},
         Reader' = Reader, UNCHANGED position,
         \A t \in Loops : InHand(t)' <=> InHand(t),
         \A t \in Loops : InHand(t) =>
           /\ cur'[t] = cur[t] /\ (pc'[t] = "callback" <=> pc[t] = "callback")
           /\ pc[t] = "callback" => (Fanout(t)[idx[t]])' = Fanout(t)[idx[t]]
  PROVE  Past' = Past /\ Calling' = Calling
<1>1. CASE \E t \in Loops : InHand(t)
  <2>1. PICK t \in Loops : InHand(t)
    BY <1>1
  <2>2. /\ Past = cur[t] - 1 /\ Past' = cur'[t] - 1
        /\ Calling = IF pc[t] = "callback" THEN {Fanout(t)[idx[t]]} ELSE {}
        /\ Calling' = IF pc'[t] = "callback" THEN {(Fanout(t)[idx[t]])'} ELSE {}
    BY <2>1 DEF View, HandView
  <2>3. QED
    BY <2>1, <2>2
<1>2. CASE \A t \in Loops : ~InHand(t)
  BY <1>2 DEF View, RestView
<1>3. QED
  BY <1>1, <1>2

\* What the loop has in hand, and whom it has called with it, stays.
HandStays == abandoned = {} => \A t \in Loops :
  /\ InHand(t)' <=> InHand(t)
  /\ InHand(t) => cur'[t] = cur[t] /\ (pc'[t] = "callback" <=> pc[t] = "callback")
  /\ pc[t] = "callback" => (Fanout(t)[idx[t]])' = Fanout(t)[idx[t]]
  /\ \A cb \in Callbacks : Passed(t, cb) => Passed(t, cb)'
  /\ pc'[t] = "callback" => idx'[t] <= Len(Fanout(t)')
QuietStep ==
  /\ UNCHANGED <<logEnd, committed, position, lastSeen>>
  /\ abandoned \subseteq abandoned'
  /\ abandoned = {} => Reader' = Reader
  /\ HandStays

\* A step that leaves lists and places in them alone.
LEMMA QuietFrame ==
  ASSUME SeenInv,
         UNCHANGED <<logEnd, committed, position, lastSeen, callbacks, cur, idx>>,
         abandoned \subseteq abandoned', abandoned = {} => Reader' = Reader,
         abandoned = {} => \A t \in Loops : InHand(t) \/ InHand(t)' => pc'[t] = pc[t]
  PROVE  QuietStep
<1>1. \A t \in Loops : Fanout(t)' = Fanout(t)
  BY DEF Fanout
<1>2. ASSUME abandoned = {}, NEW t \in Loops
      PROVE  /\ InHand(t)' <=> InHand(t)
             /\ pc[t] = "callback" => pc'[t] = "callback"
             /\ pc'[t] = "callback" => pc[t] = "callback"
             /\ pc[t] \in {"fan", "callback"} => pc'[t] = pc[t]
  BY <1>2 DEF InHand
<1>3. abandoned = {} => \A t \in Loops : pc[t] = "callback" => idx[t] <= Len(Fanout(t))
  BY DEF SeenInv
<1>4. ASSUME abandoned = {}, NEW t \in Loops, NEW cb \in Callbacks, Passed(t, cb)
      PROVE  Passed(t, cb)'
  <2>1. pc'[t] = pc[t] /\ idx'[t] = idx[t] /\ Fanout(t)' = Fanout(t)
    BY <1>1, <1>2, <1>4 DEF Passed
  <2>2. QED
    BY <1>4, <2>1 DEF Passed
<1>5. QED
  BY <1>1, <1>2, <1>3, <1>4, Zenon DEF QuietStep, HandStays

\* start(), and stop() up to its close, are quiet.
LEMMA ControlQuiet ==
  ASSUME TypeOK, ControlInv, LoopInv, ReaderInv, SeenInv,
         \/ StartCall \/ StartStep
         \/ \E a \in Actors : \/ StopCall(a) \/ StopCallIgnored(a) \/ StopFlag(a)
                             \/ StopNoThread(a) \/ StopJoinRaises(a) \/ StopJoin(a)
                             \/ StopJoined(a)
  PROVE  QuietStep
<1> DEFINE Rest == UNCHANGED <<logEnd, committed, position, lastSeen, callbacks, cur, idx>>
<1>1. CASE StartCall
  BY <1>1, QuietFrame DEF StartCall, Reader, fields, ops, loops, kafka, marks, delivery
<1>2. CASE StartCreateFails
  BY <1>2, QuietFrame DEF StartCreateFails, StartRaises, Reader, fields, ops, loops, kafka, marks, delivery
<1>3. CASE StartCreate
  <2>1. Rest /\ UNCHANGED <<pc, abandoned>> /\ op[Main] = "start_create"
    BY <1>3 DEF StartCreate, loops, kafka, marks, delivery
  <2>2. CASE abandoned = {}
    <3>1. Fresh /\ \A c \in Loops : position[c] = Unset
      BY <2>1, <2>2 DEF ReaderInv, Fresh, StartStates
    <3>2. consumer \in {None} \cup Loops /\ consumer' \in {None} \cup Loops
      BY <1>3, BoundsAssumption DEF StartCreate, TypeOK, FieldsOK, KafkaOK, ControlInv, StartStates
    <3>3. QED
      BY <2>1, <3>1, <3>2, QuietFrame DEF Reader
  <2>3. CASE abandoned # {}
    BY <2>1, <2>3, QuietFrame
  <2>4. QED
    BY <2>2, <2>3
<1>4. CASE StartSubscribeFails
  BY <1>4, QuietFrame DEF StartSubscribeFails, StartRaises, Reader, fields, ops, loops, kafka, marks, delivery
<1>5. CASE StartSubscribe
  BY <1>5, QuietFrame DEF StartSubscribe, Reader, fields, ops, loops, kafka, marks, delivery
<1>6. CASE StartRun
  BY <1>6, QuietFrame DEF StartRun, Reader, fields, ops, loops, kafka, marks, delivery
<1>7. CASE StartThread
  <2>1. op[Main] = "start_thread" /\ pc' = [pc EXCEPT ![starts] = "new"]
    BY <1>7 DEF StartThread
  <2>2. abandoned = {} => \A t \in Loops : ~InHand(t)
    BY <2>1 DEF LoopInv, NoLoop, Live, InHand, StartStates
  <2>3. \A t \in Loops : InHand(t)' => InHand(t)
    BY <2>1 DEF InHand, TypeOK, LoopsOK
  <2>4. Rest /\ Reader' = Reader /\ abandoned' = abandoned
    BY <1>7 DEF StartThread, Reader, fields, ops, kafka, marks, delivery
  <2>5. QED
    BY <2>2, <2>3, <2>4, QuietFrame
<1>8. CASE StartLaunchFails
  BY <1>8, QuietFrame DEF StartLaunchFails, StartRaises, Reader, fields, ops, loops, kafka, marks, delivery
<1>9. CASE StartLaunch
  <2>1. op[Main] = "start_launch" /\ pc' = [pc EXCEPT ![thread] = "loop"]
    BY <1>9 DEF StartLaunch
  <2>2. abandoned = {} => \A t \in Loops : ~InHand(t)
    BY <2>1 DEF LoopInv, NoLoop, Live, InHand, StartStates
  <2>3. \A t \in Loops : InHand(t)' => InHand(t)
    BY <2>1 DEF InHand, TypeOK, LoopsOK
  <2>4. Rest /\ Reader' = Reader /\ abandoned' = abandoned
    BY <1>9 DEF StartLaunch, Reader, fields, ops, kafka, marks, delivery
  <2>5. QED
    BY <2>2, <2>3, <2>4, QuietFrame
<1>10. ASSUME NEW a \in Actors, StopCall(a) PROVE QuietStep
  BY <1>10, QuietFrame DEF StopCall, Reader, fields, ops, loops, kafka, marks, delivery
<1>11. ASSUME NEW a \in Actors, StopCallIgnored(a) PROVE QuietStep
  BY <1>11, QuietFrame DEF StopCallIgnored, Reader, fields, ops, loops, kafka, marks, delivery
<1>12. ASSUME NEW a \in Actors, StopFlag(a) PROVE QuietStep
  BY <1>12, QuietFrame DEF StopFlag, Reader, fields, ops, loops, kafka, marks, delivery
<1>13. ASSUME NEW a \in Actors, StopNoThread(a) PROVE QuietStep
  BY <1>13, QuietFrame DEF StopNoThread, Reader, fields, ops, loops, kafka, marks, delivery
<1>14. ASSUME NEW a \in Actors, StopJoinRaises(a) PROVE QuietStep
  BY <1>14, QuietFrame DEF StopJoinRaises, Reader, fields, ops, loops, kafka, marks, delivery
<1>15. ASSUME NEW a \in Actors, StopJoin(a) PROVE QuietStep
  BY <1>15, QuietFrame DEF StopJoin, Reader, fields, ops, loops, kafka, marks, delivery
<1>16. ASSUME NEW a \in Actors, StopJoined(a) PROVE QuietStep
  BY <1>16, QuietFrame DEF StopJoined, Reader, fields, ops, loops, kafka, marks, delivery
<1>17. QED
  BY <1>1, <1>2, <1>3, <1>4, <1>5, <1>6, <1>7, <1>8, <1>9, <1>10, <1>11, <1>12, <1>13, <1>14, <1>15, <1>16
     DEF StartStep

\* Appending keeps what a sequence has, in its place.
LEMMA AppendKeeps ==
  ASSUME NEW S, NEW s \in Seq(S), NEW e \in S, NEW r, r = s \/ r = Append(s, e)
  PROVE  /\ DOMAIN s \subseteq DOMAIN r /\ Len(s) <= Len(r)
         /\ \A i \in DOMAIN s : r[i] = s[i]
  OBVIOUS

\* Appending a callback moves none that the loop has been at.
LEMMA RegisterQuiet ==
  ASSUME TypeOK, ControlInv, SeenInv,
         NEW a \in Actors, NEW c \in Callbacks, Register(a, c)
  PROVE  QuietStep
<1>1. /\ UNCHANGED <<logEnd, committed, position, lastSeen, consumer, abandoned, pc, cur, idx>>
      /\ Wants[c] \in Kinds
      /\ callbacks' = [callbacks EXCEPT ![Wants[c]] = Append(@, c)]
  BY MessageAssumption DEF Register, WithCallback, loops, kafka, marks, delivery
<1>2. ASSUME NEW t \in Loops, pc[t] \in {"fan", "callback"}
      PROVE  /\ DOMAIN Fanout(t) \subseteq DOMAIN Fanout(t)'
             /\ Len(Fanout(t)) <= Len(Fanout(t)')
             /\ \A i \in DOMAIN Fanout(t) : Fanout(t)'[i] = Fanout(t)[i]
  <2> DEFINE k == KindOf[cur[t]]
  <2>1. k \in Kinds /\ Fanout(t) = callbacks[k] /\ Fanout(t)' = callbacks'[k]
    BY <1>1, <1>2 DEF ControlInv, Fanout
  <2>2. callbacks[k] \in Seq(Callbacks) /\ callbacks \in [Kinds -> Seq(Callbacks)]
    BY <2>1 DEF TypeOK, FieldsOK
  <2>3. callbacks'[k] = callbacks[k] \/ callbacks'[k] = Append(callbacks[k], c)
    BY <1>1, <2>1, <2>2
  <2>4. QED
    BY <2>1, <2>2, <2>3, AppendKeeps
<1>3. ASSUME abandoned = {}, NEW t \in Loops, pc[t] = "callback"
      PROVE  (Fanout(t)[idx[t]])' = Fanout(t)[idx[t]] /\ idx'[t] <= Len(Fanout(t)')
  <2>1. idx[t] <= Len(Fanout(t)) /\ idx[t] \in Nat \ {0} /\ Fanout(t) \in Seq(Callbacks)
    BY <1>3 DEF SeenInv, TypeOK, LoopsOK, FieldsOK, Fanout, ControlInv
  <2>2. idx[t] \in DOMAIN Fanout(t)
    BY <2>1
  <2>3. (Fanout(t)')[idx[t]] = Fanout(t)[idx[t]]
    BY <1>2, <1>3, <2>2
  <2>4. Len(Fanout(t)) <= Len(Fanout(t)')
    BY <1>2, <1>3
  <2>5. Len(Fanout(t)) \in Nat /\ Len(Fanout(t)') \in Nat
    <3>1. callbacks' \in [Kinds -> Seq(Callbacks)]
      BY <1>1 DEF TypeOK, FieldsOK
    <3>2. Fanout(t)' \in Seq(Callbacks)
      BY <1>1, <1>3, <3>1 DEF ControlInv, Fanout
    <3>3. QED
      BY <2>1, <3>2
  <2>6. QED
    BY <1>1, <2>1, <2>3, <2>4, <2>5
<1>4. ASSUME NEW t \in Loops, NEW cb \in Callbacks, Passed(t, cb) PROVE Passed(t, cb)'
  <2>1. pc[t] \in {"fan", "callback"} /\ pc'[t] = pc[t] /\ idx'[t] = idx[t]
    BY <1>1, <1>4 DEF Passed
  <2>2. PICK i \in DOMAIN Fanout(t) :
          (i < idx[t] \/ (i = idx[t] /\ pc[t] = "callback")) /\ Fanout(t)[i] = cb
    BY <1>4 DEF Passed
  <2>3. i \in DOMAIN Fanout(t)' /\ Fanout(t)'[i] = cb
    BY <1>2, <2>1, <2>2
  <2>4. QED
    BY <2>1, <2>2, <2>3 DEF Passed
<1>5. HandStays
  BY <1>1, <1>3, <1>4, Zenon DEF HandStays, InHand
<1>6. QED
  BY <1>1, <1>5 DEF QuietStep, Reader

\* So are the steps of a loop that has no batch, and the start of a fan-out.
LEMMA LoopQuiet ==
  ASSUME TypeOK, SeenInv, NEW t \in Loops, LoopCheck(t) \/ PollRaises(t) \/ TakeMessage(t)
  PROVE  QuietStep
<1> LoopsOK
  BY DEF TypeOK
<1>1. /\ UNCHANGED <<logEnd, committed, position, lastSeen, callbacks, cur, idx, abandoned>>
      /\ Reader' = Reader
  BY DEF LoopCheck, PollRaises, TakeMessage, Reader, fields, kafka, marks, delivery
<1>2. CASE LoopCheck(t) \/ PollRaises(t)
  <2>1. \A u \in Loops : InHand(u) \/ InHand(u)' => pc'[u] = pc[u]
    BY <1>2 DEF LoopCheck, PollRaises, AfterPollError, At, InHand, LoopsOK
  <2>2. QED
    BY <1>1, <2>1, QuietFrame
<1>3. CASE TakeMessage(t)
  <2>1. pc[t] = "batch" /\ pc'[t] = "fan" /\ \A u \in Loops \ {t} : pc'[u] = pc[u]
    BY <1>3 DEF TakeMessage, At, LoopsOK
  <2>2. \A u \in Loops : Fanout(u)' = Fanout(u)
    BY <1>1 DEF Fanout
  <2>3. \A u \in Loops :
          /\ InHand(u)' <=> InHand(u)
          /\ pc'[u] = "callback" <=> pc[u] = "callback"
    BY <2>1 DEF InHand
  <2>4. ASSUME NEW u \in Loops, NEW cb \in Callbacks, Passed(u, cb) PROVE Passed(u, cb)'
    <3>1. u # t
      BY <2>1, <2>4 DEF Passed
    <3>2. QED
      BY <1>1, <2>1, <2>2, <2>4, <3>1 DEF Passed
  <2>5. abandoned = {} => \A u \in Loops : pc[u] = "callback" => idx[u] <= Len(Fanout(u))
    BY DEF SeenInv
  <2>6. ASSUME abandoned = {}, NEW u \in Loops
        PROVE  /\ InHand(u) => cur'[u] = cur[u] /\ (pc'[u] = "callback" <=> pc[u] = "callback")
               /\ pc[u] = "callback" => (Fanout(u)[idx[u]])' = Fanout(u)[idx[u]]
               /\ pc'[u] = "callback" => idx'[u] <= Len(Fanout(u)')
    <3>1. (Fanout(u)[idx[u]])' = Fanout(u)[idx[u]] /\ Len(Fanout(u)') = Len(Fanout(u))
      BY <1>1, <2>2
    <3>2. cur'[u] = cur[u] /\ idx'[u] = idx[u] /\ (pc'[u] = "callback" <=> pc[u] = "callback")
      BY <1>1, <2>3
    <3>3. QED
      BY <2>5, <2>6, <3>1, <3>2
  <2>7. HandStays
    BY <2>3, <2>4, <2>6, Zenon DEF HandStays
  <2>8. QED
    BY <1>1, <2>7 DEF QuietStep
<1>4. QED
  BY <1>2, <1>3

-----------------------------------------------------------------------------
(* What the other steps do to the view, as long as no thread was given up.  *)

Known ==
  TypeOK /\ ControlInv /\ LoopInv /\ DeliveryInv /\ ReaderInv /\ View
  /\ abandoned = {}

\* Where the loop is, is a number.
LEMMA PastIsInt == Known => Past \in Int
<1> SUFFICES ASSUME Known PROVE Past \in Int
  OBVIOUS
<1> LoopsOK /\ KafkaOK /\ FieldsOK
  BY DEF Known, TypeOK
<1>1. CASE \E t \in Loops : InHand(t)
  <2>1. PICK t \in Loops : InHand(t)
    BY <1>1
  <2>2. Past = cur[t] - 1 /\ cur[t] \in Int
    BY <2>1, BoundsAssumption DEF Known, View, HandView, LoopsOK
  <2>3. QED
    BY <2>2
<1>2. CASE \A t \in Loops : ~InHand(t)
  <2>1. Past = IF Reader = None THEN 0 ELSE position[Reader]
    BY <1>2 DEF Known, View, RestView
  <2>2. Reader # None => Reader \in Loops
    BY DEF Reader, FieldsOK
  <2>3. QED
    BY <2>1, <2>2, BoundsAssumption DEF KafkaOK
<1>3. QED
  BY <1>1, <1>2

\* A poll opens a reader where the group's offset is, or the end of the log; or
\* it finds the reader there is where it was, and may commit that.
LEMMA PollView ==
  ASSUME Known, View', NEW t \in Loops, NEW n \in 0..MaxBatch, Poll(t, n)
  PROVE  /\ Reader' = consumer /\ consumer \in Loops /\ Calling = {} /\ Calling' = {}
         /\ \A u \in Loops : ~InHand(u) /\ pc'[u] \notin {"fan", "callback"}
         /\ UNCHANGED <<logEnd, lastSeen, abandoned, callbacks, consumer, op, starts>>
         /\ Reader = None => /\ committed' = committed
                             /\ Past' = IF committed = Unset THEN logEnd ELSE committed
         /\ Reader # None => /\ Reader = consumer /\ Past' = Past
                             /\ committed' \in {committed, Past}
<1> LoopsOK /\ KafkaOK /\ FieldsOK /\ LoopInv /\ abandoned = {}
  BY DEF Known, TypeOK
<1> DEFINE p == Position(consumer)
<1>1. /\ consumer \in Loops /\ n \in Nat /\ p \in Nat
  BY BoundsAssumption DEF Poll, Position, KafkaOK, FieldsOK, Loops
<1>2. /\ position' = [position EXCEPT ![consumer] = p + n] /\ pc[t] = "poll"
      /\ committed' \in AutoCommit(consumer, n)
      /\ UNCHANGED <<logEnd, lastSeen, abandoned, callbacks, consumer, op, starts>>
  BY DEF Poll, fields, ops, marks
<1>3. \A u \in Loops \ {t} : ~Live(u)
  BY <1>2 DEF LoopInv, Live
<1>4. pc'[t] \in {"loop", "batch"} /\ \A u \in Loops \ {t} : pc'[u] = pc[u]
  BY DEF Poll, At, LoopsOK
<1>5. \A u \in Loops : ~InHand(u) /\ pc'[u] \notin {"fan", "callback"}
  BY <1>2, <1>3, <1>4 DEF InHand, Live
<1>6. position'[consumer] = p + n /\ p + n # Unset
  BY <1>1, <1>2 DEF KafkaOK
<1>7. Reader' = consumer /\ consumer # None
  BY <1>1, <1>2, <1>6 DEF Reader, Loops
<1>8. Past = (IF Reader = None THEN 0 ELSE position[Reader]) /\ Calling = {}
  BY <1>5 DEF Known, View, RestView
<1>9. Past' = p /\ Calling' = {}
  <2>1. CASE pc'[t] = "batch"
    <3>1. cur'[t] = p + 1
      BY <2>1 DEF Poll, At, LoopsOK
    <3>2. /\ Past' = cur'[t] - 1
          /\ Calling' = IF pc'[t] = "callback" THEN {(Fanout(t)[idx[t]])'} ELSE {}
      BY <1>2, <2>1 DEF View, HandView, InHand
    <3>3. QED
      BY <1>1, <2>1, <3>1, <3>2
  <2>2. CASE pc'[t] = "loop"
    <3>1. n = 0
      BY <2>2 DEF Poll, At, LoopsOK
    <3>2. \A u \in Loops : ~InHand(u)'
      BY <1>3, <1>4, <2>2 DEF InHand, Live
    <3>3. Past' = (IF Reader' = None THEN 0 ELSE position'[Reader']) /\ Calling' = {}
      BY <3>2 DEF View, RestView
    <3>4. QED
      BY <1>1, <1>6, <1>7, <3>1, <3>3
  <2>3. QED
    BY <1>4, <2>1, <2>2
<1>10. CASE position[consumer] = Unset
  <2>1. Reader = None /\ committed' = committed
    BY <1>2, <1>10 DEF Reader, AutoCommit
  <2>2. p = IF committed = Unset THEN logEnd ELSE committed
    BY <1>10 DEF Position
  <2>3. QED
    BY <1>1, <1>2, <1>5, <1>7, <1>8, <1>9, <2>1, <2>2
<1>11. CASE position[consumer] # Unset
  <2>1. Reader = consumer /\ p = position[consumer]
    BY <1>7, <1>11 DEF Reader, Position
  <2>2. Past = p /\ committed' \in {committed, p}
    BY <1>2, <1>7, <1>8, <2>1 DEF AutoCommit
  <2>3. QED
    BY <1>1, <1>2, <1>5, <1>7, <1>8, <1>9, <2>1, <2>2
<1>12. QED
  BY <1>10, <1>11

\* A batch ends where the position of its consumer is.
LEMMA BatchDoneView ==
  ASSUME Known, View', NEW t \in Loops, BatchDone(t)
  PROVE  /\ Reader' = Reader /\ Past' = Past /\ Calling = {} /\ Calling' = {}
         /\ UNCHANGED <<logEnd, lastSeen, committed, abandoned, callbacks>>
         /\ \A u \in Loops : pc[u] \notin {"fan", "callback"} /\ pc'[u] \notin {"fan", "callback"}
<1> LoopsOK /\ KafkaOK /\ FieldsOK /\ abandoned = {}
  BY DEF Known, TypeOK
<1>1. /\ pc[t] = "batch" /\ pc' = [pc EXCEPT ![t] = "loop"] /\ cur[t] > last[t]
      /\ UNCHANGED <<consumer, position, logEnd, lastSeen, committed, abandoned, callbacks>>
  BY DEF BatchDone, At, fields, kafka, marks, delivery
<1>2. InHand(t)
  BY <1>1 DEF InHand
<1>3. Past = cur[t] - 1 /\ Calling = {} /\ \A u \in Loops : InHand(u) => u = t
  BY <1>1, <1>2 DEF Known, View, HandView
<1>4. Reader # None /\ last[t] = position[Reader] /\ cur[t] <= last[t] + 1
  BY <1>2 DEF Known, ReaderInv
<1>5. Reader' = Reader
  BY <1>1 DEF Reader
<1>6. \A u \in Loops : ~InHand(u)'
  BY <1>1, <1>3 DEF InHand, LoopsOK
<1>7. Past' = position[Reader] /\ Calling' = {}
  BY <1>1, <1>4, <1>5, <1>6 DEF View, RestView
<1>8. Past = position[Reader]
  BY <1>1, <1>3, <1>4, BoundsAssumption DEF LoopsOK
<1>9. QED
  BY <1>1, <1>3, <1>5, <1>6, <1>7, <1>8 DEF InHand

\* The loop is done with a message, dropped or given to callbacks.
LEMMA PassOnView ==
  ASSUME Known, View', NEW t \in Loops, InHand(t), cur[t] <= last[t], MessageOver(t),
         UNCHANGED <<consumer, position, logEnd, abandoned>>
  PROVE  /\ Reader # None /\ Reader' = Reader /\ Past < logEnd /\ Past' = Past + 1
         /\ Past' = cur[t] /\ Calling' = {}
         /\ \A u \in Loops : InHand(u) => u = t
         /\ \A u \in Loops : pc'[u] \notin {"fan", "callback"}
<1> LoopsOK /\ KafkaOK /\ FieldsOK /\ abandoned = {}
  BY DEF Known, TypeOK
<1>1. pc' = [pc EXCEPT ![t] = "batch"] /\ cur' = [cur EXCEPT ![t] = cur[t] + 1]
  BY DEF MessageOver, At, AfterMessage
<1>2. Past = cur[t] - 1 /\ \A u \in Loops : InHand(u) => u = t
  BY DEF Known, View, HandView
<1>3. Reader # None /\ last[t] = position[Reader]
  BY DEF Known, ReaderInv
<1>4. Reader' = Reader /\ Reader \in Loops
  BY <1>3 DEF Reader, FieldsOK
<1>5. InHand(t)' /\ pc'[t] = "batch" /\ cur'[t] = cur[t] + 1
  BY <1>1 DEF InHand, LoopsOK
<1>6. Past' = cur'[t] - 1 /\ Calling' = {}
  BY <1>5 DEF View, HandView
<1>7. cur[t] \in Nat /\ position[Reader] <= logEnd /\ position[Reader] \in Int /\ logEnd \in Nat
  BY <1>4, BoundsAssumption DEF Known, DeliveryInv, LoopsOK, KafkaOK
<1>8. \A u \in Loops : pc'[u] \notin {"fan", "callback"}
  BY <1>1, <1>2 DEF InHand, LoopsOK
<1>9. QED
  BY <1>2, <1>3, <1>4, <1>5, <1>6, <1>7, <1>8

\* A callback is called with the message in hand.
LEMMA InvokeView ==
  ASSUME Known, View', NEW t \in Loops, Invoke(t)
  PROVE  LET cb == Fanout(t)[idx[t]]
         IN  /\ Reader # None /\ Reader' = Reader /\ Past' = Past /\ Past < logEnd
             /\ cur[t] = Past + 1 /\ cb \in Callbacks /\ idx[t] \in DOMAIN Fanout(t)
             /\ Calling = {} /\ Calling' = {cb}
             /\ lastSeen' = [lastSeen EXCEPT ![cb] = <<Reader, Past + 1>>]
             /\ UNCHANGED <<logEnd, committed, abandoned, consumer, callbacks, op, starts, cur, idx>>
             /\ pc[t] = "fan" /\ pc' = [pc EXCEPT ![t] = "callback"]
             /\ \A u \in Loops : InHand(u) => u = t
<1> LoopsOK /\ KafkaOK /\ FieldsOK /\ abandoned = {}
  BY DEF Known, TypeOK
<1> DEFINE cb == Fanout(t)[idx[t]]
<1>1. /\ pc[t] = "fan" /\ pc' = [pc EXCEPT ![t] = "callback"]
      /\ idx[t] <= Len(Fanout(t)) /\ lastSeen' = [lastSeen EXCEPT ![cb] = <<source[t], cur[t]>>]
      /\ UNCHANGED <<logEnd, committed, position, abandoned, consumer, callbacks, op, starts>>
      /\ UNCHANGED <<cur, idx>>
  BY DEF Invoke, At, fields, ops, kafka, marks
<1>2. InHand(t) /\ cur[t] <= last[t] /\ Fanout(t) \in Seq(Callbacks)
  BY <1>1 DEF InHand, Known, ControlInv, Fanout, FieldsOK
<1>3. idx[t] \in DOMAIN Fanout(t) /\ cb \in Callbacks
  <2>1. idx[t] \in Nat \ {0}
    BY DEF LoopsOK
  <2>2. QED
    BY <1>1, <1>2, <2>1
<1>4. /\ Past = cur[t] - 1 /\ \A u \in Loops : InHand(u) => u = t
      /\ Calling = {}
  BY <1>1, <1>2 DEF Known, View, HandView
<1>5. Reader # None /\ source[t] = Reader /\ last[t] = position[Reader]
  BY <1>2 DEF Known, ReaderInv
<1>6. Reader' = Reader /\ Reader \in Loops
  BY <1>1, <1>5 DEF Reader, FieldsOK
<1>7. InHand(t)' /\ pc'[t] = "callback"
  BY <1>1 DEF InHand, LoopsOK
<1>8. Past' = cur[t] - 1 /\ Calling' = {(Fanout(t)[idx[t]])'}
  BY <1>1, <1>7 DEF View, HandView
<1>9. (Fanout(t)[idx[t]])' = cb
  BY <1>1 DEF Fanout
<1>10. cur[t] \in Nat /\ position[Reader] <= logEnd /\ position[Reader] \in Int /\ logEnd \in Nat
  BY <1>6, BoundsAssumption DEF Known, DeliveryInv, LoopsOK, KafkaOK
<1>11. cur[t] = Past + 1 /\ Past < logEnd
  BY <1>2, <1>4, <1>5, <1>10
<1> HIDE DEF cb
<1>12. lastSeen' = [lastSeen EXCEPT ![cb] = <<Reader, Past + 1>>]
  BY <1>1, <1>5, <1>11
<1>13. QED
  BY <1>1, <1>3, <1>4, <1>5, <1>6, <1>8, <1>9, <1>11, <1>12 DEF cb

\* A callback returns: the loop stays at its message.
LEMMA ReturnView ==
  ASSUME Known, View', NEW t \in Loops, CallbackReturns(t)
  PROVE  /\ Reader' = Reader /\ Past' = Past /\ Calling # {} /\ Calling' = {}
         /\ UNCHANGED <<logEnd, lastSeen, committed, abandoned, callbacks, cur>>
         /\ pc[t] = "callback" /\ pc' = [pc EXCEPT ![t] = "fan"]
         /\ idx' = [idx EXCEPT ![t] = @ + 1]
         /\ \A u \in Loops : InHand(u) => u = t
<1> LoopsOK /\ abandoned = {}
  BY DEF Known, TypeOK
<1>1. /\ pc[t] = "callback" /\ pc' = [pc EXCEPT ![t] = "fan"] /\ idx' = [idx EXCEPT ![t] = @ + 1]
      /\ UNCHANGED <<logEnd, lastSeen, committed, position, consumer, abandoned, callbacks, cur>>
  BY DEF CallbackReturns, At, fields, kafka, marks, delivery
<1>2. InHand(t) /\ InHand(t)' /\ pc'[t] = "fan"
  BY <1>1 DEF InHand, LoopsOK
<1>3. Past = cur[t] - 1 /\ Calling # {} /\ \A u \in Loops : InHand(u) => u = t
  BY <1>1, <1>2 DEF Known, View, HandView
<1>4. Past' = cur'[t] - 1 /\ Calling' = {}
  BY <1>1, <1>2 DEF View, HandView
<1>5. Reader' = Reader
  BY <1>1 DEF Reader
<1>6. QED
  BY <1>1, <1>3, <1>4, <1>5

\* stop() closes the reader, when no loop has a batch, and may commit.
LEMMA CloseView ==
  ASSUME Known, View', NEW a \in Actors, StopClose(a)
  PROVE  /\ Reader' = None /\ Past' = 0 /\ Calling = {} /\ Calling' = {}
         /\ \A u \in Loops : pc'[u] \notin {"fan", "callback"}
         /\ UNCHANGED <<logEnd, lastSeen, abandoned, callbacks, starts>>
         /\ consumer' = None /\ op'[Main] = "idle"
         /\ IF Reader = None THEN committed' = committed /\ Past = 0
            ELSE committed' \in {committed, Past}
<1> LoopsOK /\ KafkaOK /\ FieldsOK /\ OpsOK /\ LoopInv /\ abandoned = {}
  BY DEF Known, TypeOK
<1>1. op[a] = "stop_close" /\ a = Main /\ NoLoop
  BY DEF StopClose, LoopInv, Actors
<1>2. /\ consumer' = None /\ op' = [op EXCEPT ![a] = "idle"]
      /\ UNCHANGED <<logEnd, lastSeen, abandoned, callbacks, starts, pc>>
      /\ IF consumer = None THEN committed' = committed
         ELSE committed' \in {committed} \cup ({position[consumer]} \ {Unset})
  BY DEF StopClose, Goto, loops, delivery
<1>3. \A u \in Loops : ~InHand(u) /\ ~InHand(u)'
  BY <1>1, <1>2 DEF NoLoop, Live, InHand
<1>4. Reader' = None
  BY <1>2 DEF Reader
<1>5. Past' = 0 /\ Calling' = {}
  BY <1>3, <1>4 DEF View, RestView
<1>6. Past = (IF Reader = None THEN 0 ELSE position[Reader]) /\ Calling = {}
  BY <1>3 DEF Known, View, RestView
<1>7. IF Reader = None THEN committed' = committed ELSE committed' \in {committed, position[Reader]}
  BY <1>2 DEF Reader
<1>8. op'[Main] = "idle"
  BY <1>1, <1>2 DEF OpsOK
<1>9. QED
  BY <1>2, <1>3, <1>4, <1>5, <1>6, <1>7, <1>8 DEF InHand

-----------------------------------------------------------------------------
(* What callbacks have seen.                                                *)

\* A step that opens no consumer and gives nothing to a callback.
LEMMA NewerFrame ==
  ASSUME NewerInv, abandoned \subseteq abandoned', UNCHANGED lastSeen,
         abandoned = {} =>
           /\ starts' = starts
           /\ consumer' = None \/ (consumer' = consumer /\ Reader' = Reader)
           /\ op'[Main] = "start_create" => op[Main] = "start_create"
  PROVE  NewerInv'
BY DEF NewerInv

\* Every step keeps it.
LEMMA NewerNext ==
  ASSUME Known, View', NewerInv, [Next]_vars PROVE NewerInv'
<1> /\ TypeOK /\ ControlInv /\ LoopInv /\ ReaderInv /\ abandoned = {}
    /\ FieldsOK /\ OpsOK /\ KafkaOK /\ HistoryOK
  BY DEF Known, TypeOK
<1>0. \A cb \in Callbacks : lastSeen[cb][1] \in Int /\ lastSeen[cb][1] <= starts
  BY BoundsAssumption DEF NewerInv, HistoryOK, Loops
<1>1. CASE StartCall
  <2>1. /\ starts' = starts + 1 /\ UNCHANGED <<consumer, position, lastSeen>>
        /\ op[Main] = "idle" /\ ~running
    BY <1>1 DEF StartCall, StartAllowed, fields, delivery
  <2>2. Reader' = Reader /\ starts \in Int
    BY <2>1 DEF Reader, KafkaOK
  <2>3. QED
    BY <1>0, <2>1, <2>2 DEF NewerInv
<1>2. CASE StartCreate
  <2>1. /\ consumer' = starts /\ UNCHANGED <<starts, lastSeen, position>>
        /\ op[Main] = "start_create" /\ op' = [op EXCEPT ![Main] = "start_subscribe"]
    BY <1>2 DEF StartCreate, Goto, kafka, delivery
  <2>2. op'[Main] = "start_subscribe"
    BY <2>1 DEF OpsOK, Actors
  <2>3. \A cb \in Callbacks : lastSeen[cb][1] < starts
    BY <2>1 DEF NewerInv
  <2>4. QED
    BY <1>0, <2>1, <2>2, <2>3 DEF NewerInv
<1>3. CASE StartStep /\ ~StartCreate
  <2>1. UNCHANGED <<starts, lastSeen, consumer, position, abandoned>>
    BY <1>3 DEF StartStep, StartCreateFails, StartSubscribeFails, StartSubscribe, StartRun,
       StartThread, StartLaunchFails, StartLaunch, StartRaises, fields, kafka, marks, delivery
  <2>2. \E s \in OpStates \ {"start_create"} : op' = [op EXCEPT ![Main] = s]
    BY <1>3 DEF StartStep, StartCreateFails, StartSubscribeFails, StartSubscribe, StartRun,
       StartThread, StartLaunchFails, StartLaunch, StartRaises, Goto, OpStates
  <2>3. op'[Main] # "start_create"
    BY <2>2 DEF OpsOK, Actors
  <2>4. QED
    BY <2>1, <2>3, NewerFrame DEF Reader
<1>4. ASSUME NEW a \in Actors,
             StopCall(a) \/ StopCallIgnored(a) \/ (StopStep(a) /\ ~StopClose(a))
      PROVE  NewerInv'
  <2>1. UNCHANGED <<starts, lastSeen, consumer, position>> /\ abandoned \subseteq abandoned'
    BY <1>4 DEF StopCall, StopCallIgnored, StopStep, StopFlag, StopNoThread, StopJoinRaises,
       StopJoin, StopJoined, fields, kafka, marks, delivery
  <2>2. op' = op \/ \E s \in OpStates \ {"start_create"} : op' = [op EXCEPT ![a] = s]
    BY <1>4 DEF StopCall, StopCallIgnored, StopStep, StopFlag, StopNoThread, StopJoinRaises,
       StopJoin, StopJoined, Goto, OpStates, ops
  <2>3. op'[Main] = "start_create" => op[Main] = "start_create"
    BY <2>2 DEF OpsOK, Actors
  <2>4. QED
    BY <2>1, <2>3, NewerFrame DEF Reader
<1>5. ASSUME NEW a \in Actors, StopClose(a) PROVE NewerInv'
  BY <1>5, CloseView, NewerFrame
<1>6. ASSUME NEW t \in Loops, NEW n \in 0..MaxBatch, Poll(t, n) PROVE NewerInv'
  <2>1. /\ UNCHANGED <<lastSeen, abandoned, consumer, op, starts>>
        /\ Reader' = consumer /\ consumer \in Loops
    BY <1>6, PollView
  <2>2. QED
    BY <2>1 DEF NewerInv, Loops
<1>7. ASSUME NEW t \in Loops, Invoke(t) PROVE NewerInv'
  <2> DEFINE cb == Fanout(t)[idx[t]]
  <2>1. /\ Reader # None /\ Reader' = Reader
        /\ lastSeen' = [lastSeen EXCEPT ![cb] = <<Reader, Past + 1>>]
        /\ UNCHANGED <<abandoned, consumer, op, starts>>
        /\ pc[t] = "fan"
    BY <1>7, InvokeView
  <2>2. Reader = consumer /\ consumer <= starts
    BY <2>1 DEF Reader, ReaderInv
  <2>3. op[Main] # "start_create"
    BY <2>1 DEF LoopInv, Live, NoLoop, StartStates
  <2> HIDE DEF cb
  <2>4. \A c \in Callbacks : lastSeen'[c] = lastSeen[c] \/ lastSeen'[c] = <<consumer, Past + 1>>
    BY <2>1, <2>2 DEF HistoryOK
  <2>5. \A c \in Callbacks : lastSeen'[c][1] = lastSeen[c][1] \/ lastSeen'[c][1] = consumer
    BY <2>4
  <2>6. consumer \in Int
    BY BoundsAssumption DEF FieldsOK, Loops
  <2>7. QED
    BY <1>0, <2>1, <2>2, <2>3, <2>5, <2>6 DEF NewerInv
<1>8. ASSUME NEW t \in Loops, LoopStep(t) \/ CallbackEnds(t),
             ~Invoke(t), \A n \in 0..MaxBatch : ~Poll(t, n)
      PROVE  NewerInv'
  <2>1. UNCHANGED <<fields, ops, starts, marks>>
    BY <1>8, LoopStepFrame
  <2>2. UNCHANGED <<lastSeen, position>>
    <3>1. ~Poll(t, 0) /\ ~PollBatch(t)
      BY <1>8, BoundsAssumption DEF PollBatch
    <3>2. QED
      BY <1>8, <3>1 DEF LoopStep, CallbackEnds, LoopCheck, PollRaises, BatchDone, DropMessage,
         TakeMessage, FanoutDone, CallbackReturns, CallbackRaises, MessageOver,
         kafka, delivery
  <2>3. QED
    BY <2>1, <2>2, NewerFrame DEF Reader, fields, ops, marks
<1>9. CASE Crash
  <2>1. /\ consumer' = None /\ UNCHANGED <<lastSeen, starts, abandoned>>
        /\ op' = [a \in Actors |-> "idle"]
    BY <1>9 DEF Crash, delivery
  <2>2. op'[Main] = "idle"
    BY <2>1 DEF Actors
  <2>3. QED
    BY <2>1, <2>2, NewerFrame
<1>10. CASE Publish \/ (\E a \in Actors, c \in Callbacks : Register(a, c)) \/ UNCHANGED vars
  <2>1. UNCHANGED <<lastSeen, starts, abandoned, consumer, position, op>>
    BY <1>10 DEF Publish, Register, vars, fields, ops, kafka, marks, delivery
  <2>2. QED
    BY <2>1, NewerFrame DEF Reader
<1>11. QED
  BY <1>1, <1>2, <1>3, <1>4, <1>5, <1>6, <1>7, <1>8, <1>9, <1>10 DEF Next

\* Lists without a callback twice stay so.
LEMMA DistinctNext ==
  TypeOK /\ (\A k \in Kinds : Distinct(callbacks[k])) /\ [Next]_vars
    => \A k \in Kinds : Distinct(callbacks[k])'
<1> SUFFICES ASSUME TypeOK, \A k \in Kinds : Distinct(callbacks[k]), [Next]_vars,
                    NEW k \in Kinds
             PROVE  Distinct(callbacks[k])'
  OBVIOUS
<1>1. CASE callbacks' = callbacks
  BY <1>1
<1>2. CASE Crash
  BY <1>2 DEF Crash, Distinct
<1>3. ASSUME NEW a \in Actors, NEW c \in Callbacks, Register(a, c)
      PROVE  Distinct(callbacks[k])'
  <2>1. callbacks \in [Kinds -> Seq(Callbacks)]
    BY DEF TypeOK, FieldsOK
  <2>2. /\ callbacks' = [callbacks EXCEPT ![Wants[c]] = Append(@, c)]
        /\ \A i \in DOMAIN callbacks[Wants[c]] : callbacks[Wants[c]][i] # c
    BY <1>3 DEF Register, Registered, WithCallback
  <2>3. CASE k = Wants[c]
    <3> DEFINE s == callbacks[k]
    <3>1. /\ s \in Seq(Callbacks) /\ callbacks'[k] = Append(s, c)
          /\ Distinct(s) /\ \A i \in DOMAIN s : s[i] # c
      BY <2>1, <2>2, <2>3
    <3> HIDE DEF s
    <3>2. Distinct(Append(s, c))
      BY <3>1 DEF Distinct
    <3>3. QED
      BY <3>1, <3>2
  <2>4. CASE k # Wants[c]
    BY <2>1, <2>2, <2>4
  <2>5. QED
    BY <2>3, <2>4
<1>4. callbacks' = callbacks \/ Crash \/ \E a \in Actors, c \in Callbacks : Register(a, c)
  BY LoopStepFrame DEF Next, StartCall, StartStep, StartCreateFails, StartCreate,
     StartSubscribeFails, StartSubscribe, StartRun, StartThread, StartLaunchFails, StartLaunch,
     StopCall, StopCallIgnored, StopStep, StopFlag, StopNoThread, StopJoinRaises, StopJoin,
     StopJoined, StopClose, Publish, vars, fields
<1>5. QED
  BY <1>1, <1>2, <1>3, <1>4

\* A step that gives nothing to a callback, moves the loop on if at all, and
\* leaves what was passed with the message in hand.
LEMMA SeenFrame ==
  ASSUME Known, SeenInv, Past' \in Int, UNCHANGED lastSeen,
         Reader' # None => Reader' = Reader /\ Past <= Past',
         \A t \in Loops, cb \in Callbacks : Reader' # None /\ Passed(t, cb) =>
           cur[t] <= Past' \/ (Passed(t, cb)' /\ cur'[t] = cur[t]),
         \A k \in Kinds : Distinct(callbacks[k])',
         \A t \in Loops : pc'[t] = "callback" => idx'[t] <= Len(Fanout(t)')
  PROVE  SeenInv'
<1>1. Past \in Int
  BY PastIsInt
<1>2. ASSUME NEW cb \in Callbacks, Reader' # None, lastSeen[cb][1] = Reader'
      PROVE  \/ lastSeen[cb][2] <= Past'
             \/ \E t \in Loops : Passed(t, cb)' /\ lastSeen[cb][2] = cur'[t]
  <2>1. lastSeen[cb][2] \in Int
    BY BoundsAssumption DEF Known, TypeOK, HistoryOK
  <2>2. CASE lastSeen[cb][2] <= Past
    BY <1>1, <1>2, <2>1, <2>2
  <2>3. CASE \E t \in Loops : Passed(t, cb) /\ lastSeen[cb][2] = cur[t]
    BY <1>2, <2>3
  <2>4. QED
    BY <1>2, <2>2, <2>3 DEF SeenInv, Known
<1>3. QED
  BY <1>2 DEF SeenInv

\* A quiet step keeps what was seen.
LEMMA SeenQuiet ==
  ASSUME Known, View', SeenInv, QuietStep, abandoned' = {},
         \A k \in Kinds : Distinct(callbacks[k])'
  PROVE  SeenInv'
<1>1. Past' = Past /\ Reader' = Reader
  BY ViewFrame DEF Known, QuietStep, HandStays
<1>2. Past \in Int
  BY PastIsInt
<1>3. \A t \in Loops, cb \in Callbacks : Passed(t, cb) => Passed(t, cb)' /\ cur'[t] = cur[t]
  BY DEF Known, QuietStep, HandStays, Passed, InHand
<1>4. \A t \in Loops : pc'[t] = "callback" => idx'[t] <= Len(Fanout(t)')
  BY DEF Known, QuietStep, HandStays
<1>5. QED
  BY <1>1, <1>2, <1>3, <1>4, SeenFrame DEF QuietStep

\* A callback that is called has seen the message in hand; the others have
\* seen what they had.
LEMMA SeenInvoke ==
  ASSUME Known, View', SeenInv, NEW t \in Loops, Invoke(t) PROVE SeenInv'
<1> DEFINE cb == Fanout(t)[idx[t]]
<1>1. /\ Reader # None /\ Reader' = Reader /\ Past' = Past
      /\ cur[t] = Past + 1 /\ cb \in Callbacks /\ idx[t] \in DOMAIN Fanout(t)
      /\ lastSeen' = [lastSeen EXCEPT ![cb] = <<Reader, Past + 1>>]
      /\ UNCHANGED <<callbacks, cur, idx>>
      /\ pc[t] = "fan" /\ pc' = [pc EXCEPT ![t] = "callback"]
      /\ \A u \in Loops : InHand(u) => u = t
  BY InvokeView
<1>2. \A u \in Loops : Fanout(u)' = Fanout(u)
  BY <1>1 DEF Fanout
<1>3. pc'[t] = "callback" /\ \A u \in Loops \ {t} : pc'[u] = pc[u]
  BY <1>1 DEF Known, TypeOK, LoopsOK
<1>4. ASSUME NEW u \in Loops, NEW c \in Callbacks, Passed(u, c) PROVE Passed(u, c)' /\ u = t
  <2>1. u = t
    BY <1>1, <1>4 DEF Passed, InHand
  <2>2. PICK i \in DOMAIN Fanout(t) : i < idx[t] /\ Fanout(t)[i] = c
    BY <1>1, <1>4, <2>1 DEF Passed
  <2>3. QED
    BY <1>1, <1>2, <1>3, <2>1, <2>2 DEF Passed
<1>5. \A c \in Callbacks : c = cb => Passed(t, c)'
  BY <1>1, <1>2, <1>3 DEF Passed
<1> HIDE DEF cb
<1>6. lastSeen'[cb] = <<Reader, Past + 1>> /\ \A c \in Callbacks \ {cb} : lastSeen'[c] = lastSeen[c]
  BY <1>1 DEF Known, TypeOK, HistoryOK
<1>7. ASSUME NEW c \in Callbacks, lastSeen'[c][1] = Reader
      PROVE  \/ lastSeen'[c][2] <= Past
             \/ \E u \in Loops : Passed(u, c)' /\ lastSeen'[c][2] = cur[u]
  <2>1. CASE c = cb
    BY <1>1, <1>5, <1>6, <2>1
  <2>2. CASE c # cb
    BY <1>1, <1>4, <1>6, <1>7, <2>2 DEF SeenInv, Known
  <2>3. QED
    BY <2>1, <2>2
<1>8. \A u \in Loops : pc'[u] = "callback" => idx'[u] <= Len(Fanout(u)')
  <2>1. \A u \in Loops \ {t} : pc[u] # "callback"
    BY <1>1 DEF InHand
  <2>2. idx[t] <= Len(Fanout(t))
    <3>1. Fanout(t) \in Seq(Callbacks)
      BY <1>1 DEF Known, ControlInv, Fanout, TypeOK, FieldsOK
    <3>2. QED
      BY <1>1, <3>1
  <2>3. QED
    BY <1>1, <1>2, <1>3, <2>1, <2>2
<1>9. \A k \in Kinds : Distinct(callbacks[k])'
  BY <1>1 DEF SeenInv, Known
<1>10. QED
  BY <1>1, <1>7, <1>8, <1>9 DEF SeenInv

\* Every step keeps what callbacks have seen in bounds.
LEMMA SeenNext ==
  ASSUME Known, View', NewerInv, SeenInv, [Next]_vars, abandoned' = {} PROVE SeenInv'
<1> /\ TypeOK /\ ControlInv /\ LoopInv /\ ReaderInv /\ View /\ abandoned = {}
    /\ LoopsOK /\ HistoryOK
  BY DEF Known, TypeOK
<1>0. \A k \in Kinds : Distinct(callbacks[k])'
  BY DistinctNext DEF SeenInv
<1>1. Past \in Int
  BY PastIsInt
<1>2. ASSUME QuietStep PROVE SeenInv'
  BY <1>0, <1>2, SeenQuiet
<1>3. CASE StartCall \/ StartStep
  BY <1>2, <1>3, ControlQuiet
<1>4. ASSUME NEW a \in Actors, StopCall(a) \/ StopCallIgnored(a) \/ StopStep(a)
      PROVE  SeenInv'
  <2>1. CASE StopClose(a)
    <3>1. Reader' = None /\ Past' = 0 /\ UNCHANGED lastSeen /\ \A u \in Loops : pc'[u] # "callback"
      BY <2>1, CloseView
    <3>2. QED
      BY <1>0, <3>1, SeenFrame
  <2>2. CASE ~StopClose(a)
    BY <1>2, <1>4, <2>2, ControlQuiet DEF StopStep
  <2>3. QED
    BY <2>1, <2>2
<1>5. ASSUME NEW t \in Loops, LoopCheck(t) \/ PollRaises(t) \/ TakeMessage(t) PROVE SeenInv'
  BY <1>2, <1>5, LoopQuiet
<1>6. ASSUME NEW t \in Loops, NEW n \in 0..MaxBatch, Poll(t, n) PROVE SeenInv'
  <2>1. /\ Reader' = consumer /\ UNCHANGED lastSeen /\ consumer \in Loops
        /\ \A u \in Loops : ~InHand(u) /\ pc'[u] \notin {"fan", "callback"}
        /\ Reader # None => Reader = consumer /\ Past' = Past
    BY <1>6, PollView
  <2>2. CASE Reader = None
    <3>1. \A cb \in Callbacks : lastSeen[cb][1] < consumer /\ lastSeen[cb][1] \in Int
      BY <2>1, <2>2, BoundsAssumption DEF NewerInv, Loops, HistoryOK
    <3>2. consumer \in Int
      BY <2>1, BoundsAssumption DEF Loops
    <3>3. QED
      BY <1>0, <2>1, <3>1, <3>2 DEF SeenInv
  <2>3. CASE Reader # None
    <3>1. \A u \in Loops, cb \in Callbacks : ~Passed(u, cb)
      BY <2>1 DEF Passed, InHand
    <3>2. \A u \in Loops : pc'[u] # "callback"
      BY <2>1
    <3>3. QED
      BY <1>0, <1>1, <2>1, <2>3, <3>1, <3>2, SeenFrame
  <2>4. QED
    BY <2>2, <2>3
<1>7. ASSUME NEW t \in Loops, BatchDone(t) PROVE SeenInv'
  <2>1. /\ Reader' = Reader /\ Past' = Past /\ UNCHANGED lastSeen
        /\ \A u \in Loops : pc[u] \notin {"fan", "callback"} /\ pc'[u] # "callback"
    BY <1>7, BatchDoneView
  <2>2. \A u \in Loops, cb \in Callbacks : ~Passed(u, cb)
    BY <2>1 DEF Passed
  <2>3. QED
    BY <1>0, <1>1, <2>1, <2>2, SeenFrame
<1>8. ASSUME NEW t \in Loops, DropMessage(t) \/ FanoutDone(t) \/ CallbackRaises(t)
      PROVE  SeenInv'
  <2>1. /\ InHand(t) /\ cur[t] <= last[t] /\ MessageOver(t)
        /\ UNCHANGED <<consumer, position, logEnd, abandoned, lastSeen>>
    BY <1>8 DEF DropMessage, FanoutDone, CallbackRaises, InHand, ControlInv, fields, kafka, marks
  <2>2. /\ Reader' = Reader /\ Past' = Past + 1 /\ Past' = cur[t]
        /\ \A u \in Loops : InHand(u) => u = t
        /\ \A u \in Loops : pc'[u] \notin {"fan", "callback"}
    BY <2>1, PassOnView
  <2>3. \A u \in Loops, cb \in Callbacks : Passed(u, cb) => cur[u] <= Past'
    BY <1>1, <2>2 DEF Passed, InHand
  <2>4. Past' \in Int /\ Past <= Past'
    BY <1>1, <2>2
  <2>5. \A u \in Loops : pc'[u] # "callback"
    BY <2>2
  <2>6. QED
    BY <1>0, <2>1, <2>2, <2>3, <2>4, <2>5, SeenFrame
<1>9. ASSUME NEW t \in Loops, Invoke(t) PROVE SeenInv'
  BY <1>9, SeenInvoke
<1>10. ASSUME NEW t \in Loops, CallbackReturns(t) PROVE SeenInv'
  <2>1. /\ Reader' = Reader /\ Past' = Past /\ UNCHANGED <<lastSeen, callbacks, cur>>
        /\ pc[t] = "callback" /\ pc' = [pc EXCEPT ![t] = "fan"] /\ idx' = [idx EXCEPT ![t] = @ + 1]
        /\ \A u \in Loops : InHand(u) => u = t
    BY <1>10, ReturnView
  <2>2. /\ pc'[t] = "fan" /\ idx'[t] = idx[t] + 1 /\ idx[t] \in Nat
        /\ \A u \in Loops \ {t} : pc'[u] = pc[u]
    BY <2>1 DEF LoopsOK
  <2>3. \A u \in Loops : Fanout(u)' = Fanout(u)
    BY <2>1 DEF Fanout
  <2>4. ASSUME NEW u \in Loops, NEW cb \in Callbacks, Passed(u, cb)
        PROVE  Passed(u, cb)' /\ cur'[u] = cur[u]
    <3>1. u = t
      BY <2>1, <2>4 DEF Passed, InHand
    <3>2. PICK i \in DOMAIN Fanout(t) : (i < idx[t] \/ i = idx[t]) /\ Fanout(t)[i] = cb
      BY <2>4, <3>1 DEF Passed
    <3>3. i < idx'[t]
      <4>1. i \in Nat
        <5>1. Fanout(t) \in Seq(Callbacks)
          BY <2>1 DEF ControlInv, Fanout, TypeOK, FieldsOK
        <5>2. QED
          BY <5>1
      <4>2. QED
        BY <2>2, <3>2, <4>1
    <3>4. i \in DOMAIN Fanout(t)' /\ Fanout(t)'[i] = cb
      BY <2>3, <3>2
    <3>5. Passed(u, cb)'
      BY <2>2, <3>1, <3>3, <3>4 DEF Passed
    <3>6. QED
      BY <2>1, <3>5
  <2>5. \A u \in Loops : pc'[u] # "callback"
    BY <2>1, <2>2 DEF InHand
  <2>6. QED
    BY <1>0, <1>1, <2>1, <2>4, <2>5, SeenFrame
<1>11. CASE Publish \/ UNCHANGED vars
  <2>1. UNCHANGED <<lastSeen, consumer, position, callbacks, pc, cur, idx>>
    BY <1>11 DEF Publish, vars, fields, loops, kafka, delivery
  <2>2. /\ Reader' = Reader /\ \A u \in Loops : Fanout(u)' = Fanout(u)
        /\ \A u \in Loops : InHand(u)' <=> InHand(u)
    BY <2>1 DEF Reader, Fanout, InHand
  <2>3. Past' = Past
    BY <2>1, <2>2, ViewFrame
  <2>4. \A u \in Loops, cb \in Callbacks : Passed(u, cb) => Passed(u, cb)'
    BY <2>1, <2>2 DEF Passed
  <2>5. \A u \in Loops : pc'[u] = "callback" => idx'[u] <= Len(Fanout(u)')
    BY <2>1, <2>2 DEF SeenInv
  <2>6. QED
    BY <1>0, <1>1, <2>1, <2>2, <2>3, <2>4, <2>5, SeenFrame
<1>12. CASE Crash
  <2>1. /\ consumer' = None /\ UNCHANGED lastSeen
        /\ \A u \in Loops : pc'[u] \in {"exited", "unborn"}
    BY <1>12 DEF Crash, delivery
  <2>2. Reader' = None /\ \A u \in Loops : ~InHand(u)' /\ pc'[u] # "callback"
    BY <2>1 DEF Reader, InHand
  <2>3. Past' = 0
    BY <2>2 DEF View, RestView
  <2>4. QED
    BY <1>0, <2>1, <2>2, <2>3, SeenFrame
<1>13. ASSUME NEW a \in Actors, NEW c \in Callbacks, Register(a, c) PROVE SeenInv'
  BY <1>2, <1>13, RegisterQuiet
<1>14. QED
  BY <1>3, <1>4, <1>5, <1>6, <1>7, <1>8, <1>9, <1>10, <1>11, <1>12, <1>13, BoundsAssumption
     DEF Next, LoopStep, CallbackEnds, PollBatch

-----------------------------------------------------------------------------
(* Every step of the feed is a step of Feed, or none.                       *)

\* A step that keeps the view and what Feed has in common with LiveFeed.
LEMMA Stutter ==
  ASSUME abandoned = {}, abandoned' = {}, UNCHANGED <<logEnd, committed, lastSeen>>,
         Reader' = Reader, Past' = Past, Calling' = Calling
  PROVE  UNCHANGED Promised!vars
BY DEF Promised!vars

\* A quiet step is none.
LEMMA QuietStutters ==
  ASSUME Known, View', QuietStep, abandoned' = {} PROVE UNCHANGED Promised!vars
<1>1. Past' = Past /\ Calling' = Calling /\ Reader' = Reader
  BY ViewFrame DEF Known, QuietStep, HandStays
<1>2. QED
  BY <1>1, Stutter DEF Known, QuietStep

\* A poll opens a reader, or commits what it is done with, or changes nothing.
LEMMA PollKeeps ==
  ASSUME Known, View', NewerInv, NEW t \in Loops, NEW n \in 0..MaxBatch, Poll(t, n)
  PROVE  Promised!Next \/ UNCHANGED Promised!vars
<1>1. /\ Reader' = consumer /\ consumer \in Loops /\ Calling = {} /\ Calling' = {}
      /\ UNCHANGED <<logEnd, lastSeen, abandoned>>
      /\ Reader = None => /\ committed' = committed
                          /\ Past' = IF committed = Unset THEN logEnd ELSE committed
      /\ Reader # None => /\ Reader = consumer /\ Past' = Past
                          /\ committed' \in {committed, Past}
  BY PollView
<1> HIDE DEF Known
<1>2. CASE Reader = None
  <2>1. \A cb \in Callbacks : lastSeen[cb][1] < consumer
    BY <1>1, <1>2 DEF NewerInv, Known, Loops
  <2>2. Promised!Open(consumer)
    BY <1>1, <1>2, <2>1 DEF Promised!Open
  <2>3. QED
    BY <1>1, <2>2 DEF Promised!Next, Promised!Keeps
<1>3. CASE Reader # None /\ committed' = Past
  <2>1. Promised!Commit
    BY <1>1, <1>3 DEF Promised!Commit
  <2>2. QED
    BY <2>1 DEF Promised!Next, Promised!Keeps
<1>4. CASE Reader # None /\ committed' = committed
  BY <1>1, <1>4, Stutter DEF Known
<1>5. QED
  BY <1>1, <1>2, <1>3, <1>4

\* stop() closes the reader if there is one.
LEMMA CloseKeeps ==
  ASSUME Known, View', NEW a \in Actors, StopClose(a)
  PROVE  Promised!Next \/ UNCHANGED Promised!vars
<1>1. /\ Reader' = None /\ Past' = 0 /\ Calling = {} /\ Calling' = {}
      /\ UNCHANGED <<logEnd, lastSeen, abandoned>>
      /\ IF Reader = None THEN committed' = committed /\ Past = 0
         ELSE committed' \in {committed, Past}
  BY CloseView
<1>2. CASE Reader = None
  BY <1>1, <1>2, Stutter DEF Known
<1>3. CASE Reader # None
  <2>1. Promised!Close
    BY <1>1, <1>3 DEF Promised!Close
  <2>2. QED
    BY <2>1 DEF Promised!Next, Promised!Keeps
<1>4. QED
  BY <1>2, <1>3

\* So does the end of the process, which commits nothing.
LEMMA CrashKeeps ==
  ASSUME Known, View', Crash PROVE Promised!Next \/ UNCHANGED Promised!vars
<1>1. /\ consumer' = None /\ UNCHANGED <<committed, logEnd, abandoned, lastSeen>>
      /\ \A u \in Loops : pc'[u] \in {"exited", "unborn"}
  BY DEF Crash, delivery
<1>2. Reader' = None /\ \A u \in Loops : ~InHand(u)'
  BY <1>1 DEF Reader, InHand
<1>3. Past' = 0 /\ Calling' = {}
  BY <1>2 DEF View, RestView
<1>4. CASE Reader = None
  <2>1. \A u \in Loops : ~InHand(u)
    BY <1>4 DEF Known, ReaderInv
  <2>2. Past = 0 /\ Calling = {}
    BY <1>4, <2>1 DEF Known, View, RestView
  <2>3. QED
    BY <1>1, <1>2, <1>3, <1>4, <2>2, Stutter DEF Known
<1>5. CASE Reader # None
  <2>1. Promised!Close
    BY <1>1, <1>2, <1>3, <1>5 DEF Promised!Close
  <2>2. QED
    BY <2>1 DEF Promised!Next, Promised!Keeps
<1>6. QED
  BY <1>4, <1>5

\* A callback that is called has not had the message from this reader: it is not
\* one that was passed, for no list has a callback twice.
LEMMA InvokeKeeps ==
  ASSUME Known, View', SeenInv, NEW t \in Loops, Invoke(t) PROVE Promised!Next
<1> DEFINE cb == Fanout(t)[idx[t]]
<1>1. /\ Reader # None /\ Reader' = Reader /\ Past' = Past /\ Past < logEnd
      /\ cur[t] = Past + 1 /\ cb \in Callbacks /\ idx[t] \in DOMAIN Fanout(t)
      /\ Calling = {} /\ Calling' = {cb}
      /\ lastSeen' = [lastSeen EXCEPT ![cb] = <<Reader, Past + 1>>]
      /\ UNCHANGED <<logEnd, committed, abandoned>>
      /\ pc[t] = "fan" /\ \A u \in Loops : InHand(u) => u = t
  BY InvokeView
<1>2. Past \in Int
  BY PastIsInt
<1>3. \A c \in Callbacks : c = cb => ~Passed(t, c)
  <2>1. Distinct(Fanout(t))
    BY <1>1 DEF SeenInv, Known, ControlInv, Fanout
  <2>2. Fanout(t) \in Seq(Callbacks)
    BY <1>1 DEF Known, ControlInv, Fanout, TypeOK, FieldsOK
  <2>3. \A i \in DOMAIN Fanout(t) : i < idx[t] => Fanout(t)[i] # cb
    BY <1>1, <2>1, <2>2 DEF Distinct
  <2>4. QED
    BY <1>1, <2>3 DEF Passed
<1>4. \A u \in Loops, c \in Callbacks : Passed(u, c) => u = t
  BY <1>1 DEF Passed, InHand
<1> HIDE DEF cb
<1>5. lastSeen[cb] # <<Reader, Past + 1>>
  BY <1>1, <1>2, <1>3, <1>4 DEF SeenInv, Known
<1>6. Promised!Give(cb)
  BY <1>1, <1>5 DEF Promised!Give, Promised!Reads, Known
<1>7. QED
  BY <1>1, <1>6 DEF Promised!Next, Promised!Keeps

\* One case for each thing an actor, the log or the process may do.
LEMMA StepKeeps ==
  ASSUME Known, View', NewerInv, SeenInv, [Next]_vars, abandoned' = {}
  PROVE  Promised!Next \/ UNCHANGED Promised!vars
<1> TypeOK /\ ControlInv /\ LoopInv /\ ReaderInv /\ abandoned = {}
  BY DEF Known
<1>1. ASSUME QuietStep PROVE UNCHANGED Promised!vars
  BY <1>1, QuietStutters
<1>2. CASE StartCall \/ StartStep
  BY <1>1, <1>2, ControlQuiet
<1>3. ASSUME NEW a \in Actors, StopCall(a) \/ StopCallIgnored(a) \/ StopStep(a)
      PROVE  Promised!Next \/ UNCHANGED Promised!vars
  <2>1. CASE StopClose(a)
    BY <2>1, CloseKeeps
  <2>2. CASE ~StopClose(a)
    BY <1>1, <1>3, <2>2, ControlQuiet DEF StopStep
  <2>3. QED
    BY <2>1, <2>2
<1>4. ASSUME NEW t \in Loops, LoopCheck(t) \/ PollRaises(t) \/ TakeMessage(t)
      PROVE  UNCHANGED Promised!vars
  BY <1>1, <1>4, LoopQuiet
<1>5. ASSUME NEW t \in Loops, NEW n \in 0..MaxBatch, Poll(t, n)
      PROVE  Promised!Next \/ UNCHANGED Promised!vars
  BY <1>5, PollKeeps
<1>6. ASSUME NEW t \in Loops, BatchDone(t) PROVE UNCHANGED Promised!vars
  BY <1>6, BatchDoneView, Stutter
<1>7. ASSUME NEW t \in Loops, DropMessage(t) \/ FanoutDone(t) \/ CallbackRaises(t)
      PROVE  Promised!Next
  <2>1. /\ InHand(t) /\ cur[t] <= last[t] /\ MessageOver(t)
        /\ UNCHANGED <<consumer, position, logEnd, abandoned, lastSeen, committed>>
    BY <1>7 DEF DropMessage, FanoutDone, CallbackRaises, InHand, ControlInv, fields, kafka, marks
  <2>2. Reader # None /\ Reader' = Reader /\ Past < logEnd /\ Past' = Past + 1 /\ Calling' = {}
    BY <2>1, PassOnView
  <2>3. Promised!PassOn
    BY <2>1, <2>2 DEF Promised!PassOn, Promised!Reads
  <2>4. QED
    BY <2>3 DEF Promised!Next, Promised!Keeps
<1>8. ASSUME NEW t \in Loops, Invoke(t) PROVE Promised!Next
  BY <1>8, InvokeKeeps
<1>9. ASSUME NEW t \in Loops, CallbackReturns(t) PROVE Promised!Next
  <2>1. /\ Reader' = Reader /\ Past' = Past /\ Calling # {} /\ Calling' = {}
        /\ UNCHANGED <<logEnd, lastSeen, committed, abandoned>>
    BY <1>9, ReturnView
  <2>2. Promised!Return
    BY <2>1 DEF Promised!Return
  <2>3. QED
    BY <2>2 DEF Promised!Next, Promised!Keeps
<1>10. CASE Publish \/ UNCHANGED vars
  <2>1. /\ UNCHANGED <<lastSeen, committed, consumer, position, callbacks, pc, cur, idx>>
        /\ logEnd' = logEnd + 1 \/ logEnd' = logEnd
    BY <1>10 DEF Publish, vars, fields, loops, kafka, delivery
  <2>2. /\ Reader' = Reader /\ \A u \in Loops : Fanout(u)' = Fanout(u)
        /\ \A u \in Loops : InHand(u)' <=> InHand(u)
    BY <2>1 DEF Reader, Fanout, InHand
  <2>3. Past' = Past /\ Calling' = Calling
    BY <2>1, <2>2, ViewFrame DEF Known
  <2>4. CASE logEnd' = logEnd
    BY <2>1, <2>2, <2>3, <2>4, Stutter
  <2>5. CASE logEnd' = logEnd + 1
    <3>1. Promised!Publish
      BY <2>1, <2>2, <2>3, <2>5 DEF Promised!Publish
    <3>2. QED
      BY <3>1 DEF Promised!Next, Promised!Keeps
  <2>6. QED
    BY <2>1, <2>4, <2>5
<1>11. CASE Crash
  BY <1>11, CrashKeeps
<1>12. ASSUME NEW a \in Actors, NEW c \in Callbacks, Register(a, c)
       PROVE  UNCHANGED Promised!vars
  BY <1>1, <1>12, RegisterQuiet
<1>13. QED
  BY <1>2, <1>3, <1>4, <1>5, <1>6, <1>7, <1>8, <1>9, <1>10, <1>11, <1>12, BoundsAssumption
     DEF Next, LoopStep, CallbackEnds, PollBatch

-----------------------------------------------------------------------------
(* The invariant these facts rest on, and the theorem.                      *)

FInv == ReaderInv /\ NewerInv /\ SeenInv

\* The view after a step.
LEMMA ViewNext == LoopInv' /\ ReaderInv' => View'
BY ViewIs, PTL

\* A thread that stop() gave up on stays so.
LEMMA AbandonedGrows == TypeOK /\ [Next]_vars => abandoned \subseteq abandoned'
<1> SUFFICES ASSUME TypeOK, [Next]_vars PROVE abandoned \subseteq abandoned'
  OBVIOUS
<1>1. CASE StartCall \/ StartStep
  BY <1>1 DEF StartCall, StartStep, StartCreateFails, StartCreate, StartSubscribeFails,
     StartSubscribe, StartRun, StartThread, StartLaunchFails, StartLaunch, StartRaises, marks
<1>2. ASSUME NEW a \in Actors, StopCall(a) \/ StopCallIgnored(a) \/ StopStep(a)
      PROVE  abandoned \subseteq abandoned'
  <2>1. CASE StopFlag(a)
    BY <2>1 DEF StopFlag
  <2>2. CASE StopJoined(a)
    BY <2>2 DEF StopJoined
  <2>3. CASE StopNoThread(a) \/ StopJoinRaises(a) \/ StopJoin(a)
    BY <2>3 DEF StopNoThread, StopJoinRaises, StopJoin, marks
  <2>4. CASE StopClose(a)
    <3>1. UNCHANGED <<lastSeen, abandoned>>
      BY <2>4 DEF StopClose, Goto, loops, delivery
    <3>2. QED
      BY <3>1
  <2>5. CASE StopCall(a) \/ StopCallIgnored(a)
    BY <2>5 DEF StopCall, StopCallIgnored, marks
  <2>6. QED
    BY <1>2, <2>1, <2>2, <2>3, <2>4, <2>5 DEF StopStep
<1>3. ASSUME NEW t \in Loops, LoopStep(t) \/ CallbackEnds(t) PROVE UNCHANGED abandoned
  BY <1>3, LoopStepFrame DEF marks
<1>4. ASSUME NEW a \in Actors, NEW c \in Callbacks, Register(a, c) PROVE UNCHANGED abandoned
  BY <1>4 DEF Register, marks
<1>5. CASE Publish \/ Crash \/ UNCHANGED vars
  BY <1>5 DEF Publish, Crash, vars, marks
<1>6. QED
  BY <1>1, <1>2, <1>3, <1>4, <1>5 DEF Next

\* The invariant holds at the start.
LEMMA FInvInit == Init => FInv
<1> SUFFICES ASSUME Init PROVE FInv
  OBVIOUS
<1>1. /\ \A c \in Loops : position[c] = Unset
      /\ consumer = None /\ thread = None /\ starts = 0
      /\ \A t \in Loops : pc[t] = "unborn"
      /\ \A cb \in Callbacks : lastSeen[cb] = <<0, 0>>
      /\ op[Main] = "idle" /\ \A k \in Kinds : callbacks[k] = <<>>
  BY DEF Init, Actors
<1>2. ReaderInv
  BY <1>1 DEF ReaderInv, Fresh, InHand
<1>3. NewerInv
  BY <1>1 DEF NewerInv
<1>4. Reader = None
  BY <1>1 DEF Reader
<1>5. \A k \in Kinds : Distinct(callbacks[k])
  BY <1>1 DEF Distinct
<1>6. SeenInv
  BY <1>1, <1>4, <1>5 DEF SeenInv
<1>7. QED
  BY <1>2, <1>3, <1>6 DEF FInv

\* Every step keeps it: once a thread was given up it says nothing.
LEMMA FInvNext == IInv /\ IInv' /\ FInv /\ [Next]_vars => FInv'
<1> SUFFICES ASSUME IInv, IInv', FInv, [Next]_vars PROVE FInv'
  OBVIOUS
<1> TypeOK /\ ControlInv /\ LoopInv /\ DeliveryInv /\ ReaderInv /\ NewerInv /\ SeenInv
  BY DEF IInv, FInv
<1>1. ReaderInv'
  BY ReaderNext
<1>2. View /\ View'
  BY <1>1, ViewIs, ViewNext DEF IInv
<1>3. CASE abandoned' # {}
  BY <1>1, <1>3 DEF FInv, NewerInv, SeenInv
<1>4. CASE abandoned' = {}
  <2>1. Known
    BY <1>2, <1>4, AbandonedGrows DEF Known
  <2>2. NewerInv' /\ SeenInv'
    BY <1>2, <1>4, <2>1, NewerNext, SeenNext
  <2>3. QED
    BY <1>1, <2>2 DEF FInv
<1>5. QED
  BY <1>3, <1>4

\* An initial state is one of Feed's.
LEMMA StartsAsPromised == Init => Promised!Init
<1> SUFFICES ASSUME Init PROVE Promised!Init
  OBVIOUS
<1>1. Reader = None /\ \A t \in Loops : pc[t] = "unborn"
  BY DEF Init, Reader
<1>2. Past = 0 /\ Calling = {}
  BY <1>1 DEF Past, Calling
<1>3. QED
  BY <1>1, <1>2 DEF Init, Promised!Init

\* A step is one of Feed's, or none.
LEMMA StepAsPromised ==
  IInv /\ IInv' /\ FInv /\ FInv' /\ [Next]_vars => [Promised!Next]_(Promised!vars)
<1> SUFFICES ASSUME IInv, IInv', FInv, FInv', [Next]_vars
             PROVE  Promised!Next \/ UNCHANGED Promised!vars
  OBVIOUS
<1>1. CASE abandoned' # {}
  BY <1>1 DEF Promised!Next
<1>2. CASE abandoned' = {}
  <2>1. View /\ View'
    BY ViewIs, ViewNext DEF IInv, FInv
  <2>2. Known
    BY <1>2, <2>1, AbandonedGrows DEF Known, IInv, FInv
  <2>3. QED
    BY <1>2, <2>1, <2>2, StepKeeps DEF FInv
<1>3. QED
  BY <1>1, <1>2

\* live.py's feed implements Feed: one reader at a time, which commits only what
\* it is done with, and gives a callback a message once and in order, through any
\* starts, stops, failures and crashes, until a stop() gives up on a thread.
THEOREM FeedImplemented == Spec => KeepsPromises
<1>1. Spec => []FInv
  BY FInvInit, FInvNext, Invariance, PTL DEF Spec
<1>2. QED
  BY <1>1, StartsAsPromised, StepAsPromised, Invariance, PTL
     DEF Spec, KeepsPromises, Promised!Spec

-----------------------------------------------------------------------------
(* The walk along the callbacks of a message.                               *)

Walking(t) == pc[t] \in {"fan", "callback"}

\* A step that leaves every walk where it is.
LEMMA WalkStays ==
  ASSUME WalkInv, abandoned \subseteq abandoned',
         UNCHANGED <<callbacks, cur, source, idx, lastSeen>>,
         abandoned = {} => \A t \in Loops : Walking(t) \/ Walking(t)' => pc'[t] = pc[t]
  PROVE  WalkInv'
<1>1. \A t \in Loops : Fanout(t)' = Fanout(t)
  BY DEF Fanout
<1>2. ASSUME abandoned' = {}, NEW t \in Loops, pc'[t] \in {"fan", "callback"}, NEW i \in Walked(t)'
      PROVE  i \in DOMAIN Fanout(t)' /\ lastSeen'[Fanout(t)'[i]] = <<source'[t], cur'[t]>>
  <2>1. pc[t] = pc'[t] /\ Walked(t)' = Walked(t) /\ abandoned = {}
    BY <1>2 DEF Walking, Walked
  <2>2. i \in DOMAIN Fanout(t) /\ lastSeen[Fanout(t)[i]] = <<source[t], cur[t]>>
    BY <1>2, <2>1 DEF WalkInv
  <2>3. QED
    BY <1>1, <2>2
<1>3. ASSUME abandoned' = {}, NEW t \in Loops, pc'[t] \notin {"fan", "callback"}
      PROVE  idx'[t] = 1
  BY <1>3 DEF WalkInv, Walking
<1>4. QED
  BY <1>2, <1>3 DEF WalkInv

\* A step after which no loop walks.
LEMMA WalkOver ==
  ASSUME \A t \in Loops : pc'[t] \notin {"fan", "callback"} /\ idx'[t] = 1 PROVE WalkInv'
BY DEF WalkInv

\* A callback is called next, or returns; nobody else walks.
LEMMA WalkMoves ==
  ASSUME TypeOK, ControlInv, WalkInv, abandoned = {}, NEW t \in Loops,
         Invoke(t) \/ CallbackReturns(t), \A u \in Loops \ {t} : ~Walking(u)
  PROVE  WalkInv'
<1> LoopsOK /\ FieldsOK /\ HistoryOK
  BY DEF TypeOK
<1>1. /\ UNCHANGED <<callbacks, cur, source, abandoned>>
      /\ Walking(t) /\ \A u \in Loops \ {t} : pc'[u] = pc[u] /\ idx'[u] = idx[u]
  BY DEF Invoke, CallbackReturns, At, Walking, fields, marks, LoopsOK
<1>2. Fanout(t)' = Fanout(t) /\ Fanout(t) \in Seq(Callbacks) /\ idx[t] \in Nat \ {0}
  BY <1>1 DEF Fanout, Walking, ControlInv, FieldsOK, LoopsOK
<1>3. \A u \in Loops \ {t} : pc'[u] \notin {"fan", "callback"} /\ idx'[u] = 1
  BY <1>1 DEF WalkInv, Walking
<1>4. \A i \in Walked(t) : i \in DOMAIN Fanout(t) /\ lastSeen[Fanout(t)[i]] = <<source[t], cur[t]>>
  BY <1>1 DEF WalkInv, Walking
<1>5. CASE Invoke(t)
  <2>1. /\ pc[t] = "fan" /\ pc'[t] = "callback" /\ idx'[t] = idx[t] /\ idx[t] <= Len(Fanout(t))
        /\ lastSeen' = [lastSeen EXCEPT ![Fanout(t)[idx[t]]] = <<source[t], cur[t]>>]
    BY <1>5 DEF Invoke, At, LoopsOK
  <2>2. idx[t] \in DOMAIN Fanout(t)
    BY <1>2, <2>1
  <2>3. ASSUME NEW i \in 1..idx[t]
        PROVE  i \in DOMAIN Fanout(t) /\ lastSeen'[Fanout(t)[i]] = <<source[t], cur[t]>>
    <3>1. i \in DOMAIN Fanout(t)
      BY <1>2, <2>1
    <3>2. Fanout(t)[i] \in Callbacks /\ Fanout(t)[idx[t]] \in Callbacks
      BY <1>2, <2>2, <3>1
    <3>3. ASSUME i # idx[t] PROVE lastSeen[Fanout(t)[i]] = <<source[t], cur[t]>>
      <4>1. i \in Walked(t)
        BY <1>2, <2>1, <3>3 DEF Walked
      <4>2. QED
        BY <1>4, <4>1
    <3> DEFINE v == <<source[t], cur[t]>>
               d == Fanout(t)[idx[t]]
               c == Fanout(t)[i]
    <3>4. lastSeen' = [lastSeen EXCEPT ![d] = v] /\ c \in Callbacks /\ d \in Callbacks
      BY <2>1, <3>2
    <3>5. c # d => lastSeen[c] = v
      BY <3>3
    <3> HIDE DEF v, d, c
    <3>6. DOMAIN lastSeen = Callbacks
      BY DEF HistoryOK
    <3>7. lastSeen'[c] = v
      BY <3>4, <3>5, <3>6
    <3>8. QED
      BY <3>1, <3>7 DEF v, c
  <2>4. Walked(t)' = 1..idx[t]
    BY <2>1 DEF Walked
  <2>5. \A i \in Walked(t)' :
          i \in DOMAIN Fanout(t)' /\ lastSeen'[Fanout(t)'[i]] = <<source'[t], cur'[t]>>
    BY <1>1, <1>2, <2>3, <2>4
  <2>6. QED
    BY <1>3, <2>1, <2>5 DEF WalkInv
<1>6. CASE CallbackReturns(t)
  <2>1. /\ pc[t] = "callback" /\ pc'[t] = "fan" /\ idx'[t] = idx[t] + 1 /\ UNCHANGED lastSeen
    BY <1>6 DEF CallbackReturns, At, LoopsOK, delivery
  <2>2. Walked(t) = 1..idx[t] /\ Walked(t)' = 1..(idx'[t] - 1)
    BY <2>1 DEF Walked
  <2>3. Walked(t)' = Walked(t)
    BY <1>2, <2>1, <2>2
  <2>4. QED
    BY <1>1, <1>2, <1>3, <1>4, <2>1, <2>3 DEF WalkInv
<1>7. QED
  BY <1>5, <1>6

\* A callback that is registered comes after those that were called.
LEMMA WalkRegister ==
  ASSUME TypeOK, ControlInv, WalkInv, NEW a \in Actors, NEW c \in Callbacks, Register(a, c)
  PROVE  WalkInv'
<1>1. /\ UNCHANGED <<lastSeen, abandoned, pc, cur, source, idx>> /\ Wants[c] \in Kinds
      /\ callbacks' = [callbacks EXCEPT ![Wants[c]] = Append(@, c)]
  BY MessageAssumption DEF Register, WithCallback, loops, marks, delivery
<1>2. ASSUME NEW t \in Loops, pc[t] \in {"fan", "callback"}
      PROVE  /\ DOMAIN Fanout(t) \subseteq DOMAIN Fanout(t)'
             /\ \A i \in DOMAIN Fanout(t) : Fanout(t)'[i] = Fanout(t)[i]
  <2> DEFINE k == KindOf[cur[t]]
  <2>1. k \in Kinds /\ Fanout(t) = callbacks[k] /\ Fanout(t)' = callbacks'[k]
    BY <1>1, <1>2 DEF ControlInv, Fanout
  <2>2. callbacks[k] \in Seq(Callbacks) /\ callbacks \in [Kinds -> Seq(Callbacks)]
    BY <2>1 DEF TypeOK, FieldsOK
  <2>3. callbacks'[k] = callbacks[k] \/ callbacks'[k] = Append(callbacks[k], c)
    BY <1>1, <2>1, <2>2
  <2>4. QED
    BY <2>1, <2>2, <2>3, AppendKeeps
<1>3. \A t \in Loops : Walked(t)' = Walked(t)
  BY <1>1 DEF Walked
<1>4. ASSUME abandoned = {}, NEW t \in Loops, pc[t] \in {"fan", "callback"}, NEW i \in Walked(t)
      PROVE  i \in DOMAIN Fanout(t)' /\ lastSeen'[Fanout(t)'[i]] = <<source'[t], cur'[t]>>
  <2>1. i \in DOMAIN Fanout(t) /\ lastSeen[Fanout(t)[i]] = <<source[t], cur[t]>>
    BY <1>4 DEF WalkInv
  <2>2. QED
    BY <1>1, <1>2, <1>4, <2>1
<1>5. QED
  BY <1>1, <1>3, <1>4 DEF WalkInv

\* Every step keeps the part of the walks.
LEMMA WalkNext == TypeOK /\ ControlInv /\ LoopInv /\ WalkInv /\ [Next]_vars => WalkInv'
<1> SUFFICES ASSUME TypeOK, ControlInv, LoopInv, WalkInv, [Next]_vars PROVE WalkInv'
  OBVIOUS
<1> LoopsOK /\ OpsOK
  BY DEF TypeOK
<1>0. abandoned \subseteq abandoned'
  BY AbandonedGrows
<1>1. CASE StartThread \/ StartLaunch
  <2>1. UNCHANGED <<callbacks, cur, source, idx, lastSeen>>
    BY <1>1 DEF StartThread, StartLaunch, fields, delivery
  <2>2. abandoned = {} => \A t \in Loops : ~Walking(t)
    BY <1>1 DEF StartThread, StartLaunch, LoopInv, NoLoop, Live, StartStates, Walking
  <2>3. \A t \in Loops : Walking(t)' => Walking(t)
    BY <1>1 DEF StartThread, StartLaunch, Walking, LoopsOK
  <2>4. QED
    BY <1>0, <2>1, <2>2, <2>3, WalkStays
<1>2. CASE StartCall \/ (StartStep /\ ~StartThread /\ ~StartLaunch)
  <2>1. UNCHANGED <<callbacks, cur, source, idx, lastSeen, pc>>
    BY <1>2 DEF StartCall, StartStep, StartCreateFails, StartCreate, StartSubscribeFails,
       StartSubscribe, StartRun, StartLaunchFails, fields, loops, delivery
  <2>2. QED
    BY <1>0, <2>1, WalkStays
<1>3. ASSUME NEW a \in Actors, StopCall(a) \/ StopCallIgnored(a) \/ StopStep(a) PROVE WalkInv'
  <2>1. CASE StopFlag(a) \/ StopJoined(a) \/ StopClose(a)
    <3>1. UNCHANGED <<callbacks, cur, source, idx, lastSeen, pc>>
      BY <2>1 DEF StopFlag, StopJoined, StopClose, loops, delivery
    <3>2. QED
      BY <1>0, <3>1, WalkStays
  <2>2. CASE StopCall(a) \/ StopCallIgnored(a) \/ StopNoThread(a) \/ StopJoinRaises(a) \/ StopJoin(a)
    <3>1. UNCHANGED <<callbacks, cur, source, idx, lastSeen, pc>>
      BY <2>2 DEF StopCall, StopCallIgnored, StopNoThread, StopJoinRaises, StopJoin,
         fields, loops, delivery
    <3>2. QED
      BY <1>0, <3>1, WalkStays
  <2>3. QED
    BY <1>3, <2>1, <2>2 DEF StopStep
<1>4. ASSUME NEW t \in Loops, LoopStep(t) \/ CallbackEnds(t) PROVE WalkInv'
  <2>1. CASE abandoned # {}
    BY <1>0, <2>1 DEF WalkInv
  <2>2. CASE abandoned = {}
    <3>1. Live(t) /\ \A u \in Loops \ {t} : ~Walking(u)
      <4>1. Live(t)
        BY <1>4 DEF LoopStep, CallbackEnds, LoopCheck, PollRaises, Poll, PollBatch, BatchDone,
           DropMessage, TakeMessage, FanoutDone, Invoke, CallbackReturns, CallbackRaises, Live
      <4>2. QED
        BY <2>2, <4>1 DEF LoopInv, Live, Walking
    <3>2. CASE Invoke(t) \/ CallbackReturns(t)
      BY <2>2, <3>1, <3>2, WalkMoves
    <3>3. CASE LoopCheck(t) \/ PollRaises(t)
      <4>1. /\ UNCHANGED <<callbacks, cur, source, idx, lastSeen>>
            /\ pc[t] \in {"loop", "poll"} /\ pc'[t] \in {"loop", "poll", "exited"}
            /\ \A u \in Loops \ {t} : pc'[u] = pc[u]
        BY <3>3 DEF LoopCheck, PollRaises, At, AfterPollError, fields, delivery, LoopsOK
      <4>2. QED
        BY <1>0, <4>1, WalkStays DEF Walking
    <3>4. CASE TakeMessage(t)
      <4>1. /\ UNCHANGED <<callbacks, cur, source, idx, lastSeen>>
            /\ pc[t] = "batch" /\ pc'[t] = "fan"
            /\ \A u \in Loops \ {t} : pc'[u] = pc[u]
        BY <3>4 DEF TakeMessage, At, fields, delivery, LoopsOK
      <4>2. idx[t] = 1 /\ \A u \in Loops \ {t} : idx[u] = 1 /\ pc[u] \notin {"fan", "callback"}
        BY <2>2, <3>1, <4>1 DEF WalkInv, Walking
      <4>3. Walked(t)' = {}
        BY <4>1, <4>2 DEF Walked
      <4>4. QED
        BY <4>1, <4>2, <4>3 DEF WalkInv
    <3>5. CASE DropMessage(t) \/ FanoutDone(t) \/ CallbackRaises(t)
      <4>1. /\ pc'[t] = "batch" /\ idx'[t] = 1
            /\ \A u \in Loops \ {t} : pc'[u] = pc[u] /\ idx'[u] = idx[u]
        BY <3>5 DEF DropMessage, FanoutDone, CallbackRaises, MessageOver, At, LoopsOK
      <4>2. QED
        BY <2>2, <3>1, <4>1, WalkOver DEF WalkInv, Walking
    <3>6. CASE BatchDone(t) \/ Poll(t, 0) \/ PollBatch(t)
      <4>1. /\ pc[t] \in {"poll", "batch"} /\ pc'[t] \in {"loop", "batch"} /\ UNCHANGED idx
            /\ \A u \in Loops \ {t} : pc'[u] = pc[u]
        BY <3>6 DEF BatchDone, Poll, PollBatch, At, LoopsOK
      <4>2. QED
        BY <2>2, <3>1, <4>1, WalkOver DEF WalkInv, Walking
    <3>7. QED
      BY <1>4, <3>2, <3>3, <3>4, <3>5, <3>6 DEF LoopStep, CallbackEnds
  <2>3. QED
    BY <2>1, <2>2
<1>5. CASE Publish \/ UNCHANGED vars
  <2>1. UNCHANGED <<callbacks, cur, source, idx, lastSeen, pc>>
    BY <1>5 DEF Publish, vars, fields, loops, delivery
  <2>2. QED
    BY <1>0, <2>1, WalkStays
<1>6. CASE Crash
  BY <1>6, WalkOver DEF Crash
<1>7. ASSUME NEW a \in Actors, NEW c \in Callbacks, Register(a, c) PROVE WalkInv'
  BY <1>7, WalkRegister
<1>8. QED
  BY <1>1, <1>2, <1>3, <1>4, <1>5, <1>6, <1>7 DEF Next

\* While live.py walks the callbacks of a message, those before the one it is at
\* were called with it, whatever is registered on the way.
THEOREM WalkIsComplete == Spec => []FanoutComplete
<1>1. Init => WalkInv
  BY DEF Init, WalkInv
<1>2. IInv /\ WalkInv /\ [Next]_vars => WalkInv'
  BY WalkNext DEF IInv
<1>3. IInv /\ WalkInv => FanoutComplete
  <2> SUFFICES ASSUME TypeOK, WalkInv, abandoned = {}, NEW t \in Loops,
                      pc[t] \in {"fan", "callback"}, NEW i \in 1..(idx[t] - 1)
               PROVE  lastSeen[Fanout(t)[i]] = <<source[t], cur[t]>>
    BY DEF FanoutComplete, IInv
  <2>1. i \in Walked(t)
    BY DEF Walked, TypeOK, LoopsOK
  <2>2. QED
    BY <2>1 DEF WalkInv
<1>4. QED
  BY <1>1, <1>2, <1>3, Invariance, PTL DEF Spec
=============================================================================

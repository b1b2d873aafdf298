-------------------------- MODULE LogPipeline_proof --------------------------
(***************************************************************************)
(* Theorems about LogPipeline, for any threads, bounds and capacity: its    *)
(* safety, that its Kafka backend implements LossyQueue, and the order of   *)
(* what Kafka gets.                                                         *)
(***************************************************************************)
EXTENDS LogPipeline, TLAPS

\* The initial state is well typed, and nothing is made, held or owed.
LEMMA InitInv ==
  Init => /\ TypeOK /\ MakersInv /\ LockInv /\ OwedInv /\ FiledInv
          /\ NoLeak /\ NothingLeftBehind /\ FileFirst
<1> SUFFICES ASSUME Init
             PROVE /\ TypeOK /\ MakersInv /\ LockInv /\ OwedInv /\ FiledInv
                   /\ NoLeak /\ NothingLeftBehind /\ FileFirst
  OBVIOUS
<1> USE DEF Init
<1>1. FlagsOK
  BY Zenon DEF FlagsOK
<1>2. FilesOK /\ BackendOK /\ ControlOK /\ WritingOK /\ GlobalOK /\ HistoryOK
  BY LogBounds DEF FilesOK, BackendOK, ControlOK, WritingOK, GlobalOK, HistoryOK
<1>3. MakersInv
  BY DEF MakersInv, Loggers
<1>4. LockInv
  BY DEF LockInv, Closing
<1>5. OwedInv /\ FiledInv
  BY DEF OwedInv, FiledInv
<1>6. NoLeak /\ NothingLeftBehind /\ FileFirst
  BY DEF NoLeak, InTheMaking, NothingLeftBehind, FileFirst
<1>7. QED
  BY <1>1, <1>2, <1>3, <1>4, <1>5, <1>6 DEF TypeOK

\* A writer in the middle of a call has a proper entry.
LEMMA EntryTyped ==
  ASSUME WritingOK, OwedInv, NEW w \in Writers, wpc[w] # "idle"
  PROVE  Entry(w) \in Entries
<1>1. calls[w] \in 0..MaxCalls /\ calls[w] > 0
  BY DEF WritingOK, OwedInv
<1>2. calls[w] \in 1..MaxCalls
  BY <1>1, LogBounds
<1>3. QED
  BY <1>2 DEF Entry, Entries

\* Every step keeps every variable in its type.
LEMMA TypeNext == TypeOK /\ MakersInv /\ LockInv /\ OwedInv /\ [Next]_vars => TypeOK'
<1> SUFFICES ASSUME TypeOK, MakersInv, LockInv, OwedInv, [Next]_vars PROVE TypeOK'
  OBVIOUS
<1> FilesOK /\ BackendOK /\ FlagsOK /\ ControlOK /\ WritingOK /\ GlobalOK /\ HistoryOK
  BY DEF TypeOK
<1>1. ASSUME NEW c \in Controllers, InitCall(c) PROVE TypeOK'
  <2>1. ControlOK'
    BY <1>1, LogBounds, GlobalOK DEF InitCall, NewLogger, Goto, ControlOK, GlobalOK, Loggers
  <2>2. GlobalOK'
    BY <1>1, LogBounds DEF InitCall, NewLogger, Goto, GlobalOK
  <2>3. QED
    BY <1>1, <2>1, <2>2 DEF InitCall, NewLogger, TypeOK, FilesOK, BackendOK, FlagsOK,
       WritingOK, HistoryOK, global, backend, control, writing
<1>2. ASSUME NEW c \in Controllers, InitBackend(c) PROVE TypeOK'
  <2>1. BackendOK'
    BY <1>2, LogBounds DEF InitBackend, NewLogger, Goto, BackendOK
  <2>2. FlagsOK'
    BY <1>2, Zenon DEF InitBackend, NewLogger, FlagsOK, backend, global
  <2>3. ControlOK'
    BY <1>2, LogBounds, GlobalOK DEF InitBackend, NewLogger, Goto, ControlOK, GlobalOK,
       Loggers
  <2>4. GlobalOK'
    BY <1>2, LogBounds DEF InitBackend, NewLogger, Goto, GlobalOK
  <2>5. QED
    BY <1>2, <2>1, <2>2, <2>3, <2>4 DEF InitBackend, NewLogger, TypeOK, FilesOK, WritingOK,
       HistoryOK, global, backend, control, writing
<1>3. ASSUME NEW c \in Controllers, InitBackendRaises(c) PROVE TypeOK'
  <2>1. FlagsOK'
    BY <1>3, Zenon DEF InitBackendRaises, NewLogger, FlagsOK, backend, global
  <2>2. GlobalOK'
    BY <1>3, LogBounds DEF InitBackendRaises, NewLogger, GlobalOK
  <2>3. QED
    BY <1>3, <2>1, <2>2 DEF InitBackendRaises, NewLogger, TypeOK, FilesOK, BackendOK,
       ControlOK, WritingOK, HistoryOK, global, backend, control, writing
<1>4. ASSUME NEW c \in Controllers, InitMake(c) PROVE TypeOK'
  <2>1. FilesOK'
    BY <1>4 DEF InitMake, FilesOK
  <2>2. ControlOK'
    BY <1>4 DEF InitMake, Goto, ControlOK
  <2>3. GlobalOK'
    BY <1>4, ControlOK DEF InitMake, Goto, GlobalOK, ControlOK
  <2>4. QED
    BY <1>4, <2>1, <2>2, <2>3 DEF InitMake, TypeOK, BackendOK, FlagsOK, WritingOK,
       HistoryOK, global, backend, control, writing
<1>5. ASSUME NEW c \in Controllers, InitMakeRaises(c) PROVE TypeOK'
  <2>1. ControlOK'
    BY <1>5 DEF InitMakeRaises, Goto, ControlOK
  <2>2. GlobalOK'
    <3>1. mine[c] \in Loggers
      BY <1>5, LogBounds DEF InitMakeRaises, GlobalOK, MakersInv, Loggers
    <3>2. QED
      BY <1>5, <3>1 DEF InitMakeRaises, GlobalOK
  <2>3. QED
    BY <1>5, <2>1, <2>2 DEF InitMakeRaises, TypeOK, FilesOK, BackendOK, FlagsOK, WritingOK,
       HistoryOK, global, backend, control, writing
<1>6. ASSUME NEW c \in Controllers, InitReturns(c) PROVE TypeOK'
  <2>1. ControlOK'
    BY <1>6 DEF InitReturns, Goto, ControlOK
  <2>2. QED
    BY <1>6, <2>1 DEF InitReturns, TypeOK, FilesOK, BackendOK, FlagsOK, WritingOK, GlobalOK,
       HistoryOK, global, backend, control, writing
<1>7. ASSUME NEW c \in Controllers, CloseCall(c) PROVE TypeOK'
  <2>1. ControlOK'
    BY <1>7 DEF CloseCall, Goto, ControlOK
  <2>2. QED
    BY <1>7, <2>1 DEF CloseCall, TypeOK, FilesOK, BackendOK, FlagsOK, WritingOK, GlobalOK,
       HistoryOK, global, backend, control, writing
<1>8. ASSUME NEW c \in Controllers, CloseNothing(c) PROVE TypeOK'
  <2>1. FlagsOK'
    BY <1>8, Zenon DEF CloseNothing, FlagsOK, backend, global
  <2>2. ControlOK'
    BY <1>8 DEF CloseNothing, Goto, ControlOK
  <2>3. QED
    BY <1>8, <2>1, <2>2 DEF CloseNothing, TypeOK, FilesOK, BackendOK, WritingOK, GlobalOK,
       HistoryOK, global, backend, control, writing
<1>9. ASSUME NEW c \in Controllers, CloseLocked(c) PROVE TypeOK'
  <2>1. ControlOK'
    BY <1>9, GlobalOK DEF CloseLocked, Goto, ControlOK, GlobalOK
  <2>2. GlobalOK'
    BY <1>9 DEF CloseLocked, Goto, GlobalOK
  <2>3. QED
    BY <1>9, <2>1, <2>2 DEF CloseLocked, TypeOK, FilesOK, BackendOK, FlagsOK, WritingOK,
       HistoryOK, global, backend, control, writing
<1>10. ASSUME NEW c \in Controllers, NEW l \in Loggers, CloseDirectly(c, l) PROVE TypeOK'
  <2>1. ControlOK'
    BY <1>10 DEF CloseDirectly, Goto, ControlOK
  <2>2. QED
    BY <1>10, <2>1 DEF CloseDirectly, TypeOK, FilesOK, BackendOK, FlagsOK, WritingOK,
       GlobalOK, HistoryOK, global, backend, control, writing
<1>11. ASSUME NEW c \in Controllers, CloseFiles(c) PROVE TypeOK'
  <2>1. FilesOK'
    BY <1>11 DEF CloseFiles, FilesOK
  <2>2. ControlOK'
    BY <1>11 DEF CloseFiles, Goto, ControlOK
  <2>3. QED
    BY <1>11, <2>1, <2>2 DEF CloseFiles, TypeOK, BackendOK, FlagsOK, WritingOK, GlobalOK,
       HistoryOK, global, backend, control, writing
<1>12. ASSUME NEW c \in Controllers, SetDone(c) PROVE TypeOK'
  <2>1. FlagsOK'
    BY <1>12, Zenon DEF SetDone, FlagsOK, backend, global
  <2>2. ControlOK'
    BY <1>12 DEF SetDone, Goto, ControlOK
  <2>3. QED
    BY <1>12, <2>1, <2>2 DEF SetDone, TypeOK, FilesOK, BackendOK, WritingOK, GlobalOK,
       HistoryOK, global, backend, control, writing
<1>13. ASSUME NEW c \in Controllers, Joined(c) PROVE TypeOK'
  <2>1. ControlOK'
    BY <1>13 DEF Joined, Goto, ControlOK
  <2>2. QED
    BY <1>13, <2>1 DEF Joined, TypeOK, FilesOK, BackendOK, FlagsOK, WritingOK, GlobalOK,
       HistoryOK, global, backend, control, writing
<1>14. ASSUME NEW c \in Controllers, CloseDone(c) PROVE TypeOK'
  <2>1. FlagsOK'
    BY <1>14, Zenon DEF CloseDone, FlagsOK, backend, global
  <2>2. ControlOK'
    BY <1>14 DEF CloseDone, Release, Goto, ControlOK
  <2>3. GlobalOK'
    BY <1>14 DEF CloseDone, Release, Goto, GlobalOK
  <2>4. QED
    BY <1>14, <2>1, <2>2, <2>3 DEF CloseDone, TypeOK, FilesOK, BackendOK, WritingOK,
       HistoryOK, global, backend, control, writing
<1>14a. ASSUME NEW c \in Controllers, FlushRaises(c) PROVE TypeOK'
  <2>1. ControlOK'
    BY <1>14a DEF FlushRaises, Release, Goto, ControlOK
  <2>2. GlobalOK'
    <3>1. mine[c] \in Loggers
      BY <1>14a DEF FlushRaises, LockInv, Closing
    <3>2. QED
      BY <1>14a, <3>1 DEF FlushRaises, Release, Goto, GlobalOK
  <2>3. QED
    BY <1>14a, <2>1, <2>2 DEF FlushRaises, TypeOK, FilesOK, BackendOK, FlagsOK, WritingOK,
       HistoryOK, global, backend, control, writing
<1>15. ASSUME NEW w \in Writers, LogCall(w) PROVE TypeOK'
  <2>1. WritingOK'
    BY <1>15, LogBounds DEF LogCall, At, WritingOK
  <2>2. QED
    BY <1>15, <2>1 DEF LogCall, TypeOK, FilesOK, BackendOK, FlagsOK, ControlOK, GlobalOK,
       HistoryOK, global, backend, control, writing
<1>16. ASSUME NEW w \in Writers, LogUse(w) PROVE TypeOK'
  <2>1. WritingOK'
    BY <1>16, GlobalOK DEF LogUse, At, WritingOK, GlobalOK
  <2>2. QED
    BY <1>16, <2>1 DEF LogUse, TypeOK, FilesOK, BackendOK, FlagsOK, ControlOK, GlobalOK,
       HistoryOK, global, backend, control, writing
<1>17. ASSUME NEW w \in Writers, WriteFile(w) PROVE TypeOK'
  <2>1. WritingOK'
    BY <1>17 DEF WriteFile, At, WritingOK
  <2>2. HistoryOK'
    <3>1. Entry(w) \in Entries
      BY <1>17, EntryTyped DEF WriteFile
    <3>2. QED
      BY <1>17, <3>1 DEF WriteFile, HasFile, HistoryOK, backend
  <2>3. QED
    BY <1>17, <2>1, <2>2 DEF WriteFile, TypeOK, FilesOK, BackendOK, FlagsOK, ControlOK,
       GlobalOK, global, backend, control, writing
<1>18. ASSUME NEW w \in Writers, WriteFileRaises(w) PROVE TypeOK'
  <2>1. WritingOK'
    BY <1>18 DEF WriteFileRaises, At, AfterFileError, WritingOK
  <2>2. QED
    BY <1>18, <2>1 DEF WriteFileRaises, TypeOK, FilesOK, BackendOK, FlagsOK, ControlOK,
       GlobalOK, HistoryOK, global, backend, control, writing
<1>19. ASSUME NEW w \in Writers, Put(w) PROVE TypeOK'
  <2>1. BackendOK'
    <3>1. Entry(w) \in Entries
      BY <1>19, EntryTyped DEF Put
    <3>2. queue' = [queue EXCEPT ![target[w]] = Append(queue[target[w]], Entry(w))]
      BY <1>19 DEF Put
    <3>3. ASSUME NEW l \in Loggers
          PROVE  queue'[l] \in Seq(Entries) /\ Len(queue'[l]) <= Capacity
      BY <1>19, <3>1, <3>2, LogBounds DEF Put, HasRoom, BackendOK
    <3>4. queue' \in [Loggers -> Seq(Entries)]
      BY <3>2, <3>3 DEF BackendOK
    <3>5. QED
      BY <1>19, <3>3, <3>4 DEF Put, BackendOK
  <2>2. WritingOK'
    BY <1>19 DEF Put, At, WritingOK
  <2>3. HistoryOK'
    BY <1>19, EntryTyped DEF Put, At, HistoryOK
  <2>4. QED
    BY <1>19, <2>1, <2>2, <2>3 DEF Put, TypeOK, FilesOK, FlagsOK, ControlOK, GlobalOK,
       global, backend, control, writing
<1>20. ASSUME NEW w \in Writers, PutFull(w) PROVE TypeOK'
  <2>1. WritingOK'
    BY <1>20 DEF PutFull, At, WritingOK
  <2>2. QED
    BY <1>20, <2>1 DEF PutFull, TypeOK, FilesOK, BackendOK, FlagsOK, ControlOK, GlobalOK,
       HistoryOK, global, backend, control, writing
<1>21. ASSUME NEW l \in Loggers, WorkerCheck(l) PROVE TypeOK'
  <2>1. BackendOK'
    BY <1>21 DEF WorkerCheck, WorkerAt, BackendOK
  <2>2. QED
    BY <1>21, <2>1 DEF WorkerCheck, TypeOK, FilesOK, FlagsOK, ControlOK, WritingOK,
       GlobalOK, HistoryOK, global, backend, control, writing
<1>22. ASSUME NEW l \in Loggers, WorkerGet(l) PROVE TypeOK'
  <2>1. BackendOK'
    <3>1. /\ queue' = [queue EXCEPT ![l] = Tail(queue[l])]
          /\ hand' = [hand EXCEPT ![l] = <<Head(queue[l])>>]
      BY <1>22 DEF WorkerGet
    <3>2. queue[l] \in Seq(Entries) /\ queue[l] # <<>> /\ Len(queue[l]) <= Capacity
      BY <1>22 DEF WorkerGet, BackendOK
    <3>3. Tail(queue[l]) \in Seq(Entries) /\ Len(Tail(queue[l])) <= Capacity
      BY <3>2, LogBounds
    <3>4. <<Head(queue[l])>> \in Seq(Entries) /\ Len(<<Head(queue[l])>>) <= 1
      BY <3>2
    <3>5. queue' \in [Loggers -> Seq(Entries)] /\ \A k \in Loggers : Len(queue'[k]) <= Capacity
      BY <3>1, <3>3 DEF BackendOK
    <3>6. hand' \in [Loggers -> Seq(Entries)] /\ \A k \in Loggers : Len(hand'[k]) <= 1
      BY <3>1, <3>4 DEF BackendOK
    <3>7. QED
      BY <1>22, <3>5, <3>6 DEF WorkerGet, WorkerAt, BackendOK
  <2>2. QED
    BY <1>22, <2>1 DEF WorkerGet, TypeOK, FilesOK, FlagsOK, ControlOK, WritingOK, GlobalOK,
       HistoryOK, global, backend, control, writing
<1>23. ASSUME NEW l \in Loggers, WorkerEmpty(l) PROVE TypeOK'
  <2>1. BackendOK'
    BY <1>23 DEF WorkerEmpty, WorkerAt, AfterEmpty, BackendOK
  <2>2. QED
    BY <1>23, <2>1 DEF WorkerEmpty, TypeOK, FilesOK, FlagsOK, ControlOK, WritingOK,
       GlobalOK, HistoryOK, global, backend, control, writing
<1>24. ASSUME NEW l \in Loggers, WorkerSend(l) PROVE TypeOK'
  <2>1. BackendOK'
    BY <1>24 DEF WorkerSend, WorkerAt, BackendOK
  <2>2. QED
    BY <1>24, <2>1 DEF WorkerSend, TypeOK, FilesOK, FlagsOK, ControlOK, WritingOK, GlobalOK,
       HistoryOK, global, backend, control, writing
<1>25. ASSUME NEW l \in Loggers, WorkerSendRaises(l) PROVE TypeOK'
  <2>1. BackendOK'
    BY <1>25 DEF WorkerSendRaises, WorkerAt, AfterSendError, BackendOK
  <2>2. QED
    BY <1>25, <2>1 DEF WorkerSendRaises, TypeOK, FilesOK, FlagsOK, ControlOK, WritingOK,
       GlobalOK, HistoryOK, global, backend, control, writing
<1>26. CASE UNCHANGED vars
  BY <1>26 DEF TypeOK, FilesOK, BackendOK, FlagsOK, ControlOK, WritingOK, GlobalOK,
     HistoryOK, vars, global, backend, control, writing
<1>27. QED
  BY <1>1, <1>2, <1>3, <1>4, <1>5, <1>6, <1>7, <1>8, <1>9, <1>10, <1>11, <1>12, <1>13,
     <1>14, <1>14a, <1>15, <1>16, <1>17, <1>18, <1>19, <1>20, <1>21, <1>22, <1>23, <1>24,
     <1>25, <1>26 DEF Next, ControlCall, InitStep, CloseStep, WriteStep, WorkerStep

\* What the steps of a controller leave alone, and how they change the rest.
LEMMA ControlFrame ==
  ASSUME TypeOK, NEW c \in Controllers, ControlCall(c) \/ InitStep(c) \/ CloseStep(c)
  PROVE  /\ UNCHANGED <<queue, hand, sent, filed, owed, writing>>
         /\ \A k \in Loggers :
              /\ files[k] # "none" => files'[k] # "none"
              /\ files'[k] = "open" => files[k] = "open" \/ InitMake(c)
              /\ done[k] => done'[k]
              /\ worker'[k] = "exited" => worker[k] = "exited"
<1> FilesOK /\ BackendOK /\ FlagsOK
  BY DEF TypeOK
<1>1. CASE ControlCall(c)
  BY <1>1 DEF ControlCall, InitCall, InitBackend, InitBackendRaises, CloseCall, CloseDirectly,
     NewLogger, backend, writing, BackendOK
<1>2. CASE InitStep(c)
  BY <1>2 DEF InitStep, InitMake, InitMakeRaises, InitReturns, backend, writing, FilesOK
<1>3. CASE CloseNothing(c) \/ CloseLocked(c) \/ Joined(c) \/ CloseDone(c)
             \/ FlushRaises(c)
  BY <1>3 DEF CloseNothing, CloseLocked, Joined, CloseDone, FlushRaises, backend, writing
<1>4. CASE CloseFiles(c)
  BY <1>4 DEF CloseFiles, backend, writing, FilesOK
<1>5. CASE SetDone(c)
  BY <1>5 DEF SetDone, writing, FlagsOK
<1>6. QED
  BY <1>1, <1>2, <1>3, <1>4, <1>5 DEF CloseStep

\* Writers reach the queue and the file, and nothing else of a logger.
LEMMA WriterFrame ==
  ASSUME NEW w \in Writers, LogCall(w) \/ WriteStep(w)
  PROVE  UNCHANGED <<global, control, files, done, worker, hand, producing, sent>>
  BY DEF WriteStep, LogCall, LogUse, WriteFile, WriteFileRaises, Put, PutFull, backend

\* Workers move entries on, and stay workers.
LEMMA WorkerFrame ==
  ASSUME TypeOK, NEW l \in Loggers, WorkerStep(l)
  PROVE  /\ UNCHANGED <<global, files, filed, done, producing, owed, control, writing>>
         /\ \A k \in Loggers : worker'[k] = "none" <=> worker[k] = "none"
<1> BackendOK
  BY DEF TypeOK
<1>1. QED
  BY DEF WorkerStep, WorkerCheck, WorkerGet, WorkerEmpty, WorkerSend, WorkerSendRaises,
     WorkerAt, AfterEmpty, BackendOK

\* A logger that is being made stays its maker's.
LEMMA MakersNext ==
  TypeOK /\ MakersInv /\ LockInv /\ [Next]_vars => MakersInv'
<1> SUFFICES ASSUME TypeOK, MakersInv, LockInv, [Next]_vars PROVE MakersInv'
  OBVIOUS
<1> FilesOK /\ BackendOK /\ FlagsOK /\ ControlOK /\ GlobalOK
  BY DEF TypeOK
<1>1. ASSUME NEW c \in Controllers, InitCall(c) PROVE MakersInv'
  <2> USE <1>1 DEF InitCall, NewLogger
  <2>1. made \in Nat /\ made' = made + 1 /\ made < MaxLoggers /\ made + 1 \in Loggers
    BY LogBounds DEF GlobalOK, Loggers
  <2>2. files[made + 1] = "none"
    BY <2>1 DEF MakersInv
  <2>3. \A d \in Controllers : cpc[d] = "make" => mine[d] # made + 1
    BY <2>1 DEF MakersInv
  <2>4. ASSUME NEW d \in Controllers, cpc'[d] = "make"
        PROVE  mine'[d] \in 1..made' /\ files'[mine'[d]] = "none"
    BY <2>1, <2>2, <2>4 DEF MakersInv, Goto, ControlOK
  <2>5. ASSUME NEW d \in Controllers, NEW e \in Controllers,
               cpc'[d] = "make", cpc'[e] = "make", mine'[d] = mine'[e]
        PROVE  d = e
    BY <2>3, <2>5 DEF MakersInv, Goto, ControlOK
  <2>6. ASSUME NEW l \in Loggers, l > made'
        PROVE  files'[l] = "none" /\ worker'[l] = "none" /\ ~producing'[l]
    BY <2>1, <2>6 DEF MakersInv, backend, BackendOK, FlagsOK, Loggers
  <2>7. ASSUME NEW l \in Loggers, worker'[l] = "none"
        PROVE  ~producing'[l]
    BY <2>7 DEF MakersInv, backend, BackendOK, FlagsOK
  <2>8. QED
    BY <2>4, <2>5, <2>6, <2>7 DEF MakersInv
<1>2. ASSUME NEW c \in Controllers, InitBackend(c) PROVE MakersInv'
  <2> USE <1>2 DEF InitBackend, NewLogger
  <2>1. made \in Nat /\ made' = made + 1 /\ made < MaxLoggers /\ made + 1 \in Loggers
    BY LogBounds DEF GlobalOK, Loggers
  <2>2. files[made + 1] = "none"
    BY <2>1 DEF MakersInv
  <2>3. \A d \in Controllers : cpc[d] = "make" => mine[d] # made + 1
    BY <2>1 DEF MakersInv
  <2>4. ASSUME NEW d \in Controllers, cpc'[d] = "make"
        PROVE  mine'[d] \in 1..made' /\ files'[mine'[d]] = "none"
    BY <2>1, <2>2, <2>4 DEF MakersInv, Goto, ControlOK
  <2>5. ASSUME NEW d \in Controllers, NEW e \in Controllers,
               cpc'[d] = "make", cpc'[e] = "make", mine'[d] = mine'[e]
        PROVE  d = e
    BY <2>3, <2>5 DEF MakersInv, Goto, ControlOK
  <2>6. ASSUME NEW l \in Loggers, l > made'
        PROVE  files'[l] = "none" /\ worker'[l] = "none" /\ ~producing'[l]
    BY <2>1, <2>6 DEF MakersInv,  BackendOK, FlagsOK, Loggers
  <2>7. ASSUME NEW l \in Loggers, worker'[l] = "none"
        PROVE  ~producing'[l]
    BY <2>7 DEF MakersInv,  BackendOK, FlagsOK
  <2>8. QED
    BY <2>4, <2>5, <2>6, <2>7 DEF MakersInv
<1>3. ASSUME NEW c \in Controllers, InitBackendRaises(c) PROVE MakersInv'
  <2> USE <1>3 DEF InitBackendRaises, NewLogger
  <2>1. made \in Nat /\ made' = made + 1 /\ made < MaxLoggers /\ made + 1 \in Loggers
    BY LogBounds DEF GlobalOK, Loggers
  <2>2. files[made + 1] = "none"
    BY <2>1 DEF MakersInv
  <2>3. \A d \in Controllers : cpc[d] = "make" => mine[d] # made + 1
    BY <2>1 DEF MakersInv
  <2>4. ASSUME NEW d \in Controllers, cpc'[d] = "make"
        PROVE  mine'[d] \in 1..made' /\ files'[mine'[d]] = "none"
    BY <2>1, <2>2, <2>4 DEF MakersInv, Goto, ControlOK, control
  <2>5. ASSUME NEW d \in Controllers, NEW e \in Controllers,
               cpc'[d] = "make", cpc'[e] = "make", mine'[d] = mine'[e]
        PROVE  d = e
    BY <2>3, <2>5 DEF MakersInv, Goto, ControlOK, control
  <2>6. ASSUME NEW l \in Loggers, l > made'
        PROVE  files'[l] = "none" /\ worker'[l] = "none" /\ ~producing'[l]
    BY <2>1, <2>6 DEF MakersInv, backend, BackendOK, FlagsOK, Loggers
  <2>7. ASSUME NEW l \in Loggers, worker'[l] = "none"
        PROVE  ~producing'[l]
    BY <2>7 DEF MakersInv, backend, BackendOK, FlagsOK
  <2>8. QED
    BY <2>4, <2>5, <2>6, <2>7 DEF MakersInv
<1>4. ASSUME NEW c \in Controllers, InitMake(c) PROVE MakersInv'
  BY <1>4 DEF InitMake, Goto, MakersInv, FilesOK, BackendOK, FlagsOK, ControlOK, GlobalOK,
     global, backend, control, writing
<1>5. ASSUME NEW c \in Controllers, InitMakeRaises(c) PROVE MakersInv'
  BY <1>5 DEF InitMakeRaises, Goto, MakersInv, FilesOK, BackendOK, FlagsOK, ControlOK,
     GlobalOK, global, backend, control, writing
<1>6. ASSUME NEW c \in Controllers, InitReturns(c) PROVE MakersInv'
  BY <1>6 DEF InitReturns, Goto, MakersInv, FilesOK, BackendOK, FlagsOK, ControlOK,
     GlobalOK, global, backend, control, writing
<1>7. ASSUME NEW c \in Controllers, CloseCall(c) PROVE MakersInv'
  BY <1>7 DEF CloseCall, Goto, MakersInv, FilesOK, BackendOK, FlagsOK, ControlOK, GlobalOK,
     global, backend, control, writing
<1>8. ASSUME NEW c \in Controllers, CloseNothing(c) PROVE MakersInv'
  BY <1>8 DEF CloseNothing, Goto, MakersInv, FilesOK, BackendOK, FlagsOK, ControlOK,
     GlobalOK, global, backend, control, writing
<1>9. ASSUME NEW c \in Controllers, CloseLocked(c) PROVE MakersInv'
  BY <1>9 DEF CloseLocked, Goto, MakersInv, FilesOK, BackendOK, FlagsOK, ControlOK,
     GlobalOK, global, backend, control, writing
<1>10. ASSUME NEW c \in Controllers, NEW l \in Loggers, CloseDirectly(c, l) PROVE MakersInv'
  BY <1>10 DEF CloseDirectly, Goto, MakersInv, FilesOK, BackendOK, FlagsOK, ControlOK,
     GlobalOK, global, backend, control, writing
<1>11. ASSUME NEW c \in Controllers, CloseFiles(c) PROVE MakersInv'
  <2>1. ASSUME NEW d \in Controllers, cpc[d] = "make"
        PROVE  mine[d] # mine[c]
    BY <1>11, <2>1 DEF CloseFiles, LockInv, Closing, MakersInv
  <2>2. mine[c] \in Loggers /\ files[mine[c]] # "none"
    BY <1>11 DEF CloseFiles, LockInv, Closing
  <2>3. \A l \in Loggers : files[l] = "none" => files'[l] = "none"
    BY <1>11, <2>2 DEF CloseFiles, FilesOK
  <2>4. ASSUME NEW d \in Controllers, cpc'[d] = "make"
        PROVE  cpc[d] = "make" /\ mine'[d] = mine[d] /\ files'[mine[d]] = files[mine[d]]
    BY <1>11, <2>1, <2>4 DEF CloseFiles, Goto, ControlOK, FilesOK
  <2>5. QED
    BY <1>11, <2>3, <2>4 DEF CloseFiles, MakersInv, global, backend
<1>12. ASSUME NEW c \in Controllers, SetDone(c) PROVE MakersInv'
  BY <1>12 DEF SetDone, Goto, MakersInv, FilesOK, BackendOK, FlagsOK, ControlOK, GlobalOK,
     global, backend, control, writing
<1>13. ASSUME NEW c \in Controllers, Joined(c) PROVE MakersInv'
  BY <1>13 DEF Joined, Goto, MakersInv, FilesOK, BackendOK, FlagsOK, ControlOK, GlobalOK,
     global, backend, control, writing
<1>14. ASSUME NEW c \in Controllers, CloseDone(c) PROVE MakersInv'
  BY <1>14 DEF CloseDone, Release, Goto, MakersInv, FilesOK, BackendOK, FlagsOK, ControlOK, GlobalOK,
     global, backend, control, writing
<1>14a. ASSUME NEW c \in Controllers, FlushRaises(c) PROVE MakersInv'
  BY <1>14a DEF FlushRaises, Release, Goto, MakersInv, FilesOK, BackendOK, FlagsOK, ControlOK, GlobalOK,
     global, backend, control, writing
<1>15. ASSUME NEW w \in Writers, LogCall(w) \/ WriteStep(w) PROVE MakersInv'
  BY <1>15, WriterFrame DEF MakersInv, global, control
<1>16. ASSUME NEW l \in Loggers, WorkerStep(l) PROVE MakersInv'
  BY <1>16, WorkerFrame DEF MakersInv, global, control
<1>17. CASE UNCHANGED vars
  BY <1>17 DEF MakersInv, vars, global, backend, control, writing
<1>18. QED
  BY <1>1, <1>2, <1>3, <1>4, <1>5, <1>6, <1>7, <1>8, <1>9, <1>10, <1>11, <1>12, <1>13,
     <1>14, <1>14a, <1>15, <1>16, <1>17 DEF Next, ControlCall, InitStep, CloseStep

\* The holder of the lock closes the global logger, whose files exist.
LEMMA LockNext ==
  TypeOK /\ MakersInv /\ LockInv /\ [Next]_vars => LockInv'
<1> SUFFICES ASSUME TypeOK, MakersInv, LockInv, [Next]_vars PROVE LockInv'
  OBVIOUS
<1> FilesOK /\ BackendOK /\ ControlOK /\ GlobalOK
  BY DEF TypeOK
<1>1. ASSUME NEW c \in Controllers, InitCall(c) PROVE LockInv'
  BY <1>1, NoneAssumption DEF InitCall, NewLogger, Goto, LockInv, Closing, MakersInv,
     FilesOK, BackendOK, ControlOK, GlobalOK, global, backend, control, writing
<1>2. ASSUME NEW c \in Controllers, InitBackend(c) PROVE LockInv'
  BY <1>2, NoneAssumption DEF InitBackend, NewLogger, Goto, LockInv, Closing, MakersInv,
     FilesOK, BackendOK, ControlOK, GlobalOK, global, backend, control, writing
<1>3. ASSUME NEW c \in Controllers, InitBackendRaises(c) PROVE LockInv'
  BY <1>3, NoneAssumption DEF InitBackendRaises, NewLogger, LockInv, Closing, MakersInv,
     FilesOK, BackendOK, ControlOK, GlobalOK, global, backend, control, writing
<1>4. ASSUME NEW c \in Controllers, InitMake(c) PROVE LockInv'
  <2>1. mine[c] \in Loggers /\ mine[c] # None /\ files[mine[c]] = "none"
    BY <1>4, LogBounds DEF InitMake, MakersInv, GlobalOK, Loggers, None
  <2>2. files'[mine[c]] = "open" /\ \A l \in Loggers \ {mine[c]} : files'[l] = files[l]
    BY <1>4, <2>1 DEF InitMake, FilesOK
  <2>3. ASSUME NEW d \in Controllers, Closing(d)'
        PROVE  Closing(d) /\ cpc'[d] = cpc[d] /\ mine'[d] = mine[d] /\ mine[d] # mine[c]
    BY <1>4, <2>1, <2>3 DEF InitMake, Goto, Closing, LockInv, ControlOK
  <2>4. logger' = mine[c] /\ lock' = None
    BY <1>4, NoneAssumption DEF InitMake, LockFree
  <2>5. QED
    BY <2>1, <2>2, <2>3, <2>4 DEF LockInv, Closing
<1>5. ASSUME NEW c \in Controllers, InitMakeRaises(c) PROVE LockInv'
  BY <1>5, NoneAssumption DEF InitMakeRaises, Goto, LockInv, Closing, MakersInv, FilesOK,
     BackendOK, ControlOK, GlobalOK, global, backend, control, writing
<1>6. ASSUME NEW c \in Controllers, InitReturns(c) PROVE LockInv'
  BY <1>6, NoneAssumption DEF InitReturns, Goto, LockInv, Closing, MakersInv, FilesOK,
     BackendOK, ControlOK, GlobalOK, global, backend, control, writing
<1>7. ASSUME NEW c \in Controllers, CloseCall(c) PROVE LockInv'
  BY <1>7, NoneAssumption DEF CloseCall, Goto, LockInv, Closing, MakersInv, FilesOK,
     BackendOK, ControlOK, GlobalOK, global, backend, control, writing
<1>8. ASSUME NEW c \in Controllers, CloseNothing(c) PROVE LockInv'
  BY <1>8, NoneAssumption DEF CloseNothing, Goto, LockInv, Closing, MakersInv, FilesOK,
     BackendOK, ControlOK, GlobalOK, global, backend, control, writing
<1>9. ASSUME NEW c \in Controllers, CloseLocked(c) PROVE LockInv'
  BY <1>9, NoneAssumption DEF CloseLocked, Goto, LockInv, Closing, MakersInv, FilesOK,
     BackendOK, ControlOK, GlobalOK, global, backend, control, writing
<1>10. ASSUME NEW c \in Controllers, NEW l \in Loggers, CloseDirectly(c, l) PROVE LockInv'
  BY <1>10, NoneAssumption DEF CloseDirectly, Goto, LockInv, Closing, MakersInv, FilesOK,
     BackendOK, ControlOK, GlobalOK, global, backend, control, writing
<1>11. ASSUME NEW c \in Controllers, CloseFiles(c) PROVE LockInv'
  BY <1>11, NoneAssumption DEF CloseFiles, Goto, LockInv, Closing, MakersInv, FilesOK,
     BackendOK, ControlOK, GlobalOK, global, backend, control, writing
<1>12. ASSUME NEW c \in Controllers, SetDone(c) PROVE LockInv'
  BY <1>12, NoneAssumption DEF SetDone, Goto, LockInv, Closing, MakersInv, FilesOK,
     BackendOK, ControlOK, GlobalOK, global, backend, control, writing
<1>13. ASSUME NEW c \in Controllers, Joined(c) PROVE LockInv'
  BY <1>13, NoneAssumption DEF Joined, Goto, LockInv, Closing, MakersInv, FilesOK,
     BackendOK, ControlOK, GlobalOK, global, backend, control, writing
<1>14. ASSUME NEW c \in Controllers, CloseDone(c) PROVE LockInv'
  BY <1>14, NoneAssumption DEF CloseDone, Release, Goto, LockInv, Closing, MakersInv, FilesOK,
     BackendOK, ControlOK, GlobalOK, global, backend, control, writing
<1>14a. ASSUME NEW c \in Controllers, FlushRaises(c) PROVE LockInv'
  BY <1>14a, NoneAssumption DEF FlushRaises, Release, Goto, LockInv, Closing, MakersInv, FilesOK,
     BackendOK, ControlOK, GlobalOK, global, backend, control, writing
<1>15. ASSUME NEW w \in Writers, LogCall(w) \/ WriteStep(w) PROVE LockInv'
  BY <1>15, WriterFrame DEF LockInv, Closing, global, control
<1>16. ASSUME NEW l \in Loggers, WorkerStep(l) PROVE LockInv'
  BY <1>16, WorkerFrame DEF LockInv, Closing, global, control
<1>17. CASE UNCHANGED vars
  BY <1>17 DEF LockInv, Closing, vars, global, backend, control, writing
<1>18. QED
  BY <1>1, <1>2, <1>3, <1>4, <1>5, <1>6, <1>7, <1>8, <1>9, <1>10, <1>11, <1>12, <1>13,
     <1>14, <1>14a, <1>15, <1>16, <1>17 DEF Next, ControlCall, InitStep, CloseStep

\* No step loses a logger.
LEMMA NoLeakNext ==
  TypeOK /\ MakersInv /\ LockInv /\ NoLeak /\ [Next]_vars => NoLeak'
<1> SUFFICES ASSUME TypeOK, MakersInv, LockInv, NoLeak, [Next]_vars PROVE NoLeak'
  OBVIOUS
<1> FilesOK /\ BackendOK /\ FlagsOK /\ ControlOK /\ GlobalOK
  BY DEF TypeOK
<1>1. ASSUME NEW c \in Controllers, InitCall(c) PROVE NoLeak'
  BY <1>1 DEF InitCall, NewLogger, Goto, NoLeak, InTheMaking, LockInv, Closing, MakersInv, FilesOK,
     BackendOK, FlagsOK, ControlOK, GlobalOK, global, backend, control, writing
<1>2. ASSUME NEW c \in Controllers, InitBackend(c) PROVE NoLeak'
  BY <1>2 DEF InitBackend, NewLogger, Goto, NoLeak, InTheMaking, LockInv, Closing, MakersInv, FilesOK,
     BackendOK, FlagsOK, ControlOK, GlobalOK, global, backend, control, writing
<1>3. ASSUME NEW c \in Controllers, InitBackendRaises(c) PROVE NoLeak'
  BY <1>3 DEF InitBackendRaises, NewLogger, NoLeak, InTheMaking, LockInv, Closing, MakersInv, FilesOK,
     BackendOK, FlagsOK, ControlOK, GlobalOK, global, backend, control, writing
<1>4. ASSUME NEW c \in Controllers, InitMake(c) PROVE NoLeak'
  <2>1. mine[c] \in Loggers /\ mine[c] # None /\ files[mine[c]] = "none"
    BY <1>4, LogBounds DEF InitMake, MakersInv, GlobalOK, Loggers, None
  <2>2. files'[mine[c]] = "open" /\ \A l \in Loggers \ {mine[c]} : files'[l] = files[l]
    BY <1>4, <2>1 DEF InitMake, FilesOK
  <2>3. ASSUME NEW l \in Loggers, l # mine[c]
        PROVE  /\ files'[l] = "open" => l \in replaced'
               /\ producing'[l] => l \in replaced' \cup orphans' \/ InTheMaking(l)'
    <3>1. files'[l] = files[l] /\ producing'[l] = producing[l]
      BY <1>4, <2>2, <2>3 DEF InitMake, backend
    <3>2. l = logger \/ l \in replaced => l \in replaced'
      BY <1>4, <2>1 DEF InitMake, None, Loggers
    <3>3. l \in orphans => l \in orphans'
      BY <1>4 DEF InitMake
    <3>4. InTheMaking(l) => InTheMaking(l)'
      BY <1>4, <2>3 DEF InitMake, Goto, ControlOK, InTheMaking
    <3>5. QED
      BY <3>1, <3>2, <3>3, <3>4 DEF NoLeak
  <2>4. logger' = mine[c]
    BY <1>4 DEF InitMake
  <2>5. QED
    BY <2>3, <2>4 DEF NoLeak
<1>5. ASSUME NEW c \in Controllers, InitMakeRaises(c) PROVE NoLeak'
  BY <1>5 DEF InitMakeRaises, Goto, NoLeak, InTheMaking, LockInv, Closing, MakersInv, FilesOK, BackendOK,
     FlagsOK, ControlOK, GlobalOK, global, backend, control, writing
<1>6. ASSUME NEW c \in Controllers, InitReturns(c) PROVE NoLeak'
  BY <1>6 DEF InitReturns, Goto, NoLeak, InTheMaking, LockInv, Closing, MakersInv, FilesOK, BackendOK,
     FlagsOK, ControlOK, GlobalOK, global, backend, control, writing
<1>7. ASSUME NEW c \in Controllers, CloseCall(c) PROVE NoLeak'
  BY <1>7 DEF CloseCall, Goto, NoLeak, InTheMaking, LockInv, Closing, MakersInv, FilesOK, BackendOK,
     FlagsOK, ControlOK, GlobalOK, global, backend, control, writing
<1>8. ASSUME NEW c \in Controllers, CloseNothing(c) PROVE NoLeak'
  BY <1>8 DEF CloseNothing, Goto, NoLeak, InTheMaking, LockInv, Closing, MakersInv, FilesOK, BackendOK,
     FlagsOK, ControlOK, GlobalOK, global, backend, control, writing
<1>9. ASSUME NEW c \in Controllers, CloseLocked(c) PROVE NoLeak'
  BY <1>9 DEF CloseLocked, Goto, NoLeak, InTheMaking, LockInv, Closing, MakersInv, FilesOK, BackendOK,
     FlagsOK, ControlOK, GlobalOK, global, backend, control, writing
<1>10. ASSUME NEW c \in Controllers, NEW l \in Loggers, CloseDirectly(c, l) PROVE NoLeak'
  BY <1>10 DEF CloseDirectly, Goto, NoLeak, InTheMaking, LockInv, Closing, MakersInv, FilesOK, BackendOK,
     FlagsOK, ControlOK, GlobalOK, global, backend, control, writing
<1>11. ASSUME NEW c \in Controllers, CloseFiles(c) PROVE NoLeak'
  BY <1>11 DEF CloseFiles, Goto, NoLeak, InTheMaking, LockInv, Closing, MakersInv, FilesOK, BackendOK,
     FlagsOK, ControlOK, GlobalOK, global, backend, control, writing
<1>12. ASSUME NEW c \in Controllers, SetDone(c) PROVE NoLeak'
  BY <1>12 DEF SetDone, Goto, NoLeak, InTheMaking, LockInv, Closing, MakersInv, FilesOK, BackendOK,
     FlagsOK, ControlOK, GlobalOK, global, backend, control, writing
<1>13. ASSUME NEW c \in Controllers, Joined(c) PROVE NoLeak'
  BY <1>13 DEF Joined, Goto, NoLeak, InTheMaking, LockInv, Closing, MakersInv, FilesOK, BackendOK,
     FlagsOK, ControlOK, GlobalOK, global, backend, control, writing
<1>14. ASSUME NEW c \in Controllers, CloseDone(c) \/ FlushRaises(c) PROVE NoLeak'
  <2>1. mine[c] \in Loggers /\ files[mine[c]] # "open" /\ UNCHANGED <<files, replaced>>
    BY <1>14 DEF CloseDone, FlushRaises, LockInv, Closing
  <2>2. /\ producing'[mine[c]] => mine[c] \in orphans'
        /\ \A l \in Loggers \ {mine[c]} : producing'[l] = producing[l]
        /\ orphans \subseteq orphans'
    BY <1>14, <2>1 DEF CloseDone, FlushRaises, FlagsOK, backend
  <2>3. logger' = logger \/ (logger' = None /\ logger = mine[c])
    BY <1>14, NoneAssumption DEF CloseDone, FlushRaises, Release, LockInv
  <2>4. \A l \in Loggers : InTheMaking(l) => InTheMaking(l)'
    BY <1>14 DEF CloseDone, FlushRaises, Release, Goto, ControlOK, InTheMaking
  <2>5. ASSUME NEW l \in Loggers, l # mine[c]
        PROVE  /\ files'[l] = "open" => l = logger' \/ l \in replaced'
               /\ producing'[l] => l = logger' \/ l \in replaced' \cup orphans' \/ InTheMaking(l)'
    BY <2>1, <2>2, <2>3, <2>4, <2>5 DEF NoLeak
  <2>6. QED
    BY <2>1, <2>2, <2>5 DEF NoLeak
<1>15. ASSUME NEW w \in Writers, LogCall(w) \/ WriteStep(w) PROVE NoLeak'
  BY <1>15, WriterFrame DEF NoLeak, InTheMaking, global, control
<1>16. ASSUME NEW l \in Loggers, WorkerStep(l) PROVE NoLeak'
  BY <1>16, WorkerFrame DEF NoLeak, InTheMaking, global, control
<1>17. CASE UNCHANGED vars
  BY <1>17 DEF NoLeak, InTheMaking, vars, global, backend, control, writing
<1>18. QED
  BY <1>1, <1>2, <1>3, <1>4, <1>5, <1>6, <1>7, <1>8, <1>9, <1>10, <1>11, <1>12, <1>13,
     <1>14, <1>15, <1>16, <1>17 DEF Next, ControlCall, InitStep, CloseStep

\* An append adds one element.
LEMMA AppendElements ==
  ASSUME NEW S, NEW s \in Seq(S), NEW e \in S
  PROVE  ToSet(Append(s, e)) = ToSet(s) \cup {e}
<1>1. DOMAIN Append(s, e) = 1..(Len(s) + 1) /\ DOMAIN s = 1..Len(s) /\ Len(s) \in Nat
  OBVIOUS
<1>2. Append(s, e)[Len(s) + 1] = e /\ \A i \in 1..Len(s) : Append(s, e)[i] = s[i]
  OBVIOUS
<1>3. \A i \in 1..(Len(s) + 1) : i \in 1..Len(s) \/ i = Len(s) + 1
  BY <1>1
<1>4. 1..Len(s) \subseteq 1..(Len(s) + 1) /\ Len(s) + 1 \in 1..(Len(s) + 1)
  BY <1>1
<1>5. QED
  BY <1>1, <1>2, <1>3, <1>4, Zenon DEF ToSet

\* The elements of a concatenation are those of its parts.
LEMMA ConcatElements ==
  ASSUME NEW S, NEW s \in Seq(S), NEW t \in Seq(S)
  PROVE  ToSet(s \o t) = ToSet(s) \cup ToSet(t)
<1>1. /\ DOMAIN (s \o t) = 1..(Len(s) + Len(t)) /\ DOMAIN s = 1..Len(s)
      /\ DOMAIN t = 1..Len(t) /\ Len(s) \in Nat /\ Len(t) \in Nat
  OBVIOUS
<1>2. \A i \in 1..Len(s) : i \in DOMAIN (s \o t) /\ (s \o t)[i] = s[i]
  OBVIOUS
<1>3. \A i \in 1..Len(t) : Len(s) + i \in DOMAIN (s \o t) /\ (s \o t)[Len(s) + i] = t[i]
  OBVIOUS
<1>4. ASSUME NEW i \in DOMAIN (s \o t)
      PROVE  i \in 1..Len(s) \/ \E j \in 1..Len(t) : i = Len(s) + j
  <2>1. CASE i > Len(s)
    <3>1. i - Len(s) \in 1..Len(t) /\ i = Len(s) + (i - Len(s))
      BY <1>1, <2>1
    <3>2. QED
      BY <3>1
  <2>2. CASE ~(i > Len(s))
    BY <1>1, <2>2
  <2>3. QED
    BY <2>1, <2>2
<1>5. ToSet(s \o t) \subseteq ToSet(s) \cup ToSet(t)
  <2>1. SUFFICES ASSUME NEW i \in DOMAIN (s \o t)
                 PROVE  (s \o t)[i] \in ToSet(s) \cup ToSet(t)
    BY Zenon DEF ToSet
  <2>2. CASE i \in 1..Len(s)
    BY <1>1, <1>2, <2>2, Zenon DEF ToSet
  <2>3. CASE \E j \in 1..Len(t) : i = Len(s) + j
    BY <1>1, <1>3, <2>3, Zenon DEF ToSet
  <2>4. QED
    BY <1>4, <2>2, <2>3
<1>6. ToSet(s) \subseteq ToSet(s \o t) /\ ToSet(t) \subseteq ToSet(s \o t)
  BY <1>1, <1>2, <1>3, Zenon DEF ToSet
<1>7. QED
  BY <1>5, <1>6

\* Taking the head off adds no element.
LEMMA HeadTailElements ==
  ASSUME NEW S, NEW s \in Seq(S), s # <<>>
  PROVE  ToSet(<<Head(s)>>) \subseteq ToSet(s) /\ ToSet(Tail(s)) \subseteq ToSet(s)
  BY DEF ToSet

\* Done comes before the worker's end, and owed entries are those of calls that put them.
LEMMA OwedNext ==
  TypeOK /\ MakersInv /\ LockInv /\ OwedInv /\ [Next]_vars => OwedInv'
<1> SUFFICES ASSUME TypeOK, MakersInv, LockInv, OwedInv, [Next]_vars PROVE OwedInv'
  OBVIOUS
<1> BackendOK /\ FlagsOK /\ FilesOK /\ WritingOK /\ HistoryOK /\ GlobalOK
  BY DEF TypeOK
<1>1. ASSUME NEW c \in Controllers, ControlCall(c) \/ InitStep(c) \/ CloseStep(c)
      PROVE  OwedInv'
  BY <1>1, ControlFrame DEF OwedInv, writing
<1>2. ASSUME NEW w \in Writers, LogCall(w) PROVE OwedInv'
  <2>1. \A v \in Writers : calls'[v] = IF v = w THEN calls[v] + 1 ELSE calls[v]
    BY <1>2 DEF LogCall, WritingOK
  <2>2. \A v \in Writers : wpc'[v] = IF v = w THEN wpc'[w] ELSE wpc[v]
    BY <1>2 DEF LogCall, At, WritingOK
  <2>3. ASSUME NEW l \in Loggers, NEW e \in Entries, e \in owed'[l]
        PROVE  e[2] <= calls'[e[1]] /\ (wpc'[e[1]] # "idle" => e[2] < calls'[e[1]])
    <3>1. e \in owed[l] /\ e[1] \in Writers /\ e[2] \in Int /\ calls[e[1]] \in Int
      BY <1>2, <2>3 DEF LogCall, backend, Entries, WritingOK
    <3>2. e[2] <= calls[e[1]] /\ (wpc[e[1]] # "idle" => e[2] < calls[e[1]])
      BY <3>1 DEF OwedInv
    <3>3. QED
      BY <2>1, <2>2, <3>1, <3>2
  <2>4. \A v \in Writers : wpc'[v] \in {"file", "put"} => wpc[v] \in {"file", "put"}
    BY <1>2 DEF LogCall, At, WritingOK
  <2>5. \A v \in Writers : wpc'[v] # "idle" => calls'[v] > 0
    BY <2>1, <2>2 DEF OwedInv, WritingOK
  <2>6. QED
    BY <1>2, <2>3, <2>4, <2>5 DEF LogCall, OwedInv, backend
<1>3. ASSUME NEW w \in Writers, LogUse(w) PROVE OwedInv'
  BY <1>3 DEF LogUse, At, OwedInv, LockInv, BackendOK, FlagsOK, FilesOK, WritingOK,
     HistoryOK, GlobalOK, global, backend, control, writing
<1>4. ASSUME NEW w \in Writers, WriteFile(w) PROVE OwedInv'
  BY <1>4 DEF WriteFile, At, OwedInv, LockInv, BackendOK, FlagsOK, FilesOK, WritingOK,
     HistoryOK, GlobalOK, global, backend, control, writing
<1>5. ASSUME NEW w \in Writers, WriteFileRaises(w) PROVE OwedInv'
  BY <1>5 DEF WriteFileRaises, At, AfterFileError, OwedInv, LockInv, BackendOK, FlagsOK,
     FilesOK, WritingOK, HistoryOK, GlobalOK, global, backend, control, writing
<1>6. ASSUME NEW w \in Writers, Put(w) PROVE OwedInv'
  <2>1. \A v \in Writers : wpc'[v] = IF v = w THEN "idle" ELSE wpc[v]
    BY <1>6 DEF Put, At, WritingOK
  <2>2. ASSUME NEW l \in Loggers, NEW e \in Entries, e \in owed'[l]
        PROVE  e[2] <= calls'[e[1]] /\ (wpc'[e[1]] # "idle" => e[2] < calls'[e[1]])
    <3>1. e[1] \in Writers /\ calls' = calls
      BY <1>6 DEF Put, Entries
    <3>2. CASE e \in owed[l]
      BY <2>1, <3>1, <3>2 DEF OwedInv
    <3>3. CASE e = Entry(w)
      <4>1. e[1] = w /\ e[2] = calls[w] /\ calls[w] \in Int
        BY <3>3 DEF Entry, WritingOK
      <4>2. QED
        BY <2>1, <3>1, <4>1
    <3>4. QED
      BY <1>6, <2>2, <3>2, <3>3 DEF Put, HistoryOK
  <2>3. QED
    BY <1>6, <2>1, <2>2 DEF Put, OwedInv
<1>7. ASSUME NEW w \in Writers, PutFull(w) PROVE OwedInv'
  BY <1>7 DEF PutFull, At, OwedInv, LockInv, BackendOK, FlagsOK, FilesOK, WritingOK,
     HistoryOK, GlobalOK, global, backend, control, writing
<1>8. ASSUME NEW l \in Loggers, WorkerCheck(l) PROVE OwedInv'
  <2>1. \A k \in Loggers : worker'[k] = "exited" => worker[k] = "exited" \/ (k = l /\ done[l])
    BY <1>8 DEF WorkerCheck, WorkerAt, GoesOn, BackendOK
  <2>2. QED
    BY <1>8, <2>1 DEF WorkerCheck, OwedInv, writing
<1>9. ASSUME NEW l \in Loggers, WorkerGet(l) PROVE OwedInv'
  BY <1>9 DEF WorkerGet, WorkerAt, OwedInv, LockInv, BackendOK, FlagsOK, FilesOK, WritingOK,
     HistoryOK, GlobalOK, global, backend, control, writing
<1>10. ASSUME NEW l \in Loggers, WorkerEmpty(l) PROVE OwedInv'
  BY <1>10 DEF WorkerEmpty, WorkerAt, AfterEmpty, OwedInv, LockInv, BackendOK, FlagsOK,
     FilesOK, WritingOK, HistoryOK, GlobalOK, global, backend, control, writing
<1>11. ASSUME NEW l \in Loggers, WorkerSend(l) PROVE OwedInv'
  BY <1>11 DEF WorkerSend, WorkerAt, OwedInv, LockInv, BackendOK, FlagsOK, FilesOK,
     WritingOK, HistoryOK, GlobalOK, global, backend, control, writing
<1>12. ASSUME NEW l \in Loggers, WorkerSendRaises(l) PROVE OwedInv'
  BY <1>12 DEF WorkerSendRaises, WorkerAt, AfterSendError, OwedInv, LockInv, BackendOK,
     FlagsOK, FilesOK, WritingOK, HistoryOK, GlobalOK, global, backend, control, writing
<1>13. CASE UNCHANGED vars
  BY <1>13 DEF OwedInv, vars, global, backend, control, writing
<1>14. QED
  BY <1>1, <1>2, <1>3, <1>4, <1>5, <1>6, <1>7, <1>8, <1>9, <1>10, <1>11, <1>12, <1>13 DEF
     Next, WriteStep, WorkerStep

\* Entries come to a logger that has files, and after them.
LEMMA FiledNext ==
  TypeOK /\ MakersInv /\ LockInv /\ OwedInv /\ FiledInv /\ [Next]_vars => FiledInv'
<1> SUFFICES ASSUME TypeOK, MakersInv, LockInv, OwedInv, FiledInv, [Next]_vars PROVE FiledInv'
  OBVIOUS
<1> BackendOK /\ FilesOK /\ WritingOK /\ HistoryOK /\ GlobalOK
  BY DEF TypeOK
<1>1. ASSUME NEW c \in Controllers, ControlCall(c) \/ InitStep(c) \/ CloseStep(c)
      PROVE  FiledInv'
  <2>1. CASE InitMake(c)
    <3>1. mine[c] \in Loggers /\ mine[c] # None /\ files[mine[c]] = "none"
      BY <2>1, LogBounds DEF InitMake, MakersInv, GlobalOK, Loggers, None
    <3>2. files'[mine[c]] = "open" /\ \A l \in Loggers \ {mine[c]} : files'[l] = files[l]
      BY <2>1, <3>1 DEF InitMake, FilesOK
    <3>3. \A w \in Writers : wpc[w] = "put" => target[w] # mine[c] /\ target[w] \in Loggers
      BY <3>1 DEF OwedInv
    <3>4. QED
      BY <2>1, <3>1, <3>2, <3>3 DEF InitMake, FiledInv, Entry, backend, writing
  <2>2. CASE ~InitMake(c)
    BY <1>1, <2>2, ControlFrame DEF FiledInv, OwedInv, Entry, writing
  <2>3. QED
    BY <2>1, <2>2
<1>2. ASSUME NEW w \in Writers, LogCall(w) PROVE FiledInv'
  BY <1>2 DEF LogCall, At, FiledInv, OwedInv, Entry, BackendOK, FilesOK, WritingOK,
     HistoryOK, GlobalOK, global, backend, control, writing
<1>3. ASSUME NEW w \in Writers, LogUse(w) PROVE FiledInv'
  BY <1>3 DEF LogUse, At, FiledInv, OwedInv, Entry, BackendOK, FilesOK, WritingOK,
     HistoryOK, GlobalOK, global, backend, control, writing
<1>4. ASSUME NEW w \in Writers, WriteFile(w) PROVE FiledInv'
  BY <1>4 DEF WriteFile, HasFile, At, FiledInv, OwedInv, Entry, BackendOK, FilesOK, WritingOK,
     HistoryOK, GlobalOK, global, backend, control, writing
<1>5. ASSUME NEW w \in Writers, WriteFileRaises(w) PROVE FiledInv'
  BY <1>5 DEF WriteFileRaises, At, AfterFileError, FiledInv, OwedInv, Entry, BackendOK,
     FilesOK, WritingOK, HistoryOK, GlobalOK, global, backend, control, writing
<1>6. ASSUME NEW w \in Writers, Put(w) PROVE FiledInv'
  BY <1>6 DEF Put, At, FiledInv, OwedInv, Entry, BackendOK, FilesOK, WritingOK, HistoryOK,
     GlobalOK, global, backend, control, writing
<1>7. ASSUME NEW w \in Writers, PutFull(w) PROVE FiledInv'
  BY <1>7 DEF PutFull, At, FiledInv, OwedInv, Entry, BackendOK, FilesOK, WritingOK,
     HistoryOK, GlobalOK, global, backend, control, writing
<1>8. ASSUME NEW l \in Loggers, WorkerCheck(l) PROVE FiledInv'
  BY <1>8 DEF WorkerCheck, WorkerAt, FiledInv, OwedInv, Entry, BackendOK, FilesOK,
     WritingOK, HistoryOK, GlobalOK, global, backend, control, writing
<1>9. ASSUME NEW l \in Loggers, WorkerGet(l) PROVE FiledInv'
  BY <1>9 DEF WorkerGet, WorkerAt, FiledInv, OwedInv, Entry, BackendOK, FilesOK, WritingOK,
     HistoryOK, GlobalOK, global, backend, control, writing
<1>10. ASSUME NEW l \in Loggers, WorkerEmpty(l) PROVE FiledInv'
  BY <1>10 DEF WorkerEmpty, WorkerAt, AfterEmpty, FiledInv, OwedInv, Entry, BackendOK,
     FilesOK, WritingOK, HistoryOK, GlobalOK, global, backend, control, writing
<1>11. ASSUME NEW l \in Loggers, WorkerSend(l) PROVE FiledInv'
  BY <1>11 DEF WorkerSend, WorkerAt, FiledInv, OwedInv, Entry, BackendOK, FilesOK,
     WritingOK, HistoryOK, GlobalOK, global, backend, control, writing
<1>12. ASSUME NEW l \in Loggers, WorkerSendRaises(l) PROVE FiledInv'
  BY <1>12 DEF WorkerSendRaises, WorkerAt, AfterSendError, FiledInv, OwedInv, Entry,
     BackendOK, FilesOK, WritingOK, HistoryOK, GlobalOK, global, backend, control, writing
<1>13. CASE UNCHANGED vars
  BY <1>13 DEF FiledInv, Entry, vars, global, backend, control, writing
<1>14. QED
  BY <1>1, <1>2, <1>3, <1>4, <1>5, <1>6, <1>7, <1>8, <1>9, <1>10, <1>11, <1>12, <1>13 DEF
     Next, WriteStep, WorkerStep

\* A worker that ended leaves nothing owed.
LEMMA BehindNext ==
  TypeOK /\ OwedInv /\ NothingLeftBehind /\ [Next]_vars => NothingLeftBehind'
<1> SUFFICES ASSUME TypeOK, OwedInv, NothingLeftBehind, [Next]_vars PROVE NothingLeftBehind'
  OBVIOUS
<1> BackendOK /\ FlagsOK /\ WritingOK /\ HistoryOK
  BY DEF TypeOK
<1>1. ASSUME NEW c \in Controllers, ControlCall(c) \/ InitStep(c) \/ CloseStep(c)
      PROVE  NothingLeftBehind'
  BY <1>1, ControlFrame DEF NothingLeftBehind
<1>2. ASSUME NEW w \in Writers, LogCall(w) PROVE NothingLeftBehind'
  BY <1>2 DEF LogCall, At, NothingLeftBehind, OwedInv, BackendOK, FlagsOK, WritingOK,
     HistoryOK, global, backend, control, writing
<1>3. ASSUME NEW w \in Writers, LogUse(w) PROVE NothingLeftBehind'
  BY <1>3 DEF LogUse, At, NothingLeftBehind, OwedInv, BackendOK, FlagsOK, WritingOK,
     HistoryOK, global, backend, control, writing
<1>4. ASSUME NEW w \in Writers, WriteFile(w) PROVE NothingLeftBehind'
  BY <1>4 DEF WriteFile, At, NothingLeftBehind, OwedInv, BackendOK, FlagsOK, WritingOK,
     HistoryOK, global, backend, control, writing
<1>5. ASSUME NEW w \in Writers, WriteFileRaises(w) PROVE NothingLeftBehind'
  BY <1>5 DEF WriteFileRaises, At, AfterFileError, NothingLeftBehind, OwedInv, BackendOK,
     FlagsOK, WritingOK, HistoryOK, global, backend, control, writing
<1>6. ASSUME NEW w \in Writers, Put(w) PROVE NothingLeftBehind'
  <2>1. ASSUME NEW l \in Loggers, worker'[l] = "exited", l = target[w]
        PROVE  ToSet(queue'[l]) \cap owed'[l] = {}
    <3>1. worker[l] = "exited" /\ done[l]
      BY <1>6, <2>1 DEF Put, OwedInv
    <3>2. Entry(w) \in Entries /\ Entry(w) \notin owed[l]
      <4>1. Entry(w) \in Entries
        BY <1>6, EntryTyped DEF Put
      <4>2. Entry(w)[1] = w /\ Entry(w)[2] = calls[w] /\ calls[w] \in Int
        BY DEF Entry, WritingOK
      <4>3. QED
        BY <1>6, <4>1, <4>2 DEF Put, OwedInv
    <3>3. queue[l] \in Seq(Entries) /\ queue'[l] = Append(queue[l], Entry(w)) /\ owed'[l] = owed[l]
      BY <1>6, <2>1, <3>1 DEF Put, BackendOK
    <3>4. ToSet(queue'[l]) = ToSet(queue[l]) \cup {Entry(w)}
      BY <3>2, <3>3, AppendElements
    <3>5. QED
      BY <3>1, <3>2, <3>3, <3>4 DEF NothingLeftBehind
  <2>2. ASSUME NEW l \in Loggers, l # target[w]
        PROVE  worker'[l] = worker[l] /\ queue'[l] = queue[l] /\ owed'[l] = owed[l]
    BY <1>6, <2>2 DEF Put, BackendOK, HistoryOK
  <2>3. QED
    BY <2>1, <2>2 DEF NothingLeftBehind
<1>7. ASSUME NEW w \in Writers, PutFull(w) PROVE NothingLeftBehind'
  BY <1>7 DEF PutFull, At, NothingLeftBehind, OwedInv, BackendOK, FlagsOK, WritingOK,
     HistoryOK, global, backend, control, writing
<1>8. ASSUME NEW l \in Loggers, WorkerCheck(l) PROVE NothingLeftBehind'
  <2>1. ASSUME NEW k \in Loggers, worker'[k] = "exited"
        PROVE  worker[k] = "exited" \/ ToSet(queue[k]) = {}
    BY <1>8, <2>1 DEF WorkerCheck, WorkerAt, GoesOn, BackendOK, ToSet
  <2>2. QED
    BY <1>8, <2>1 DEF WorkerCheck, NothingLeftBehind
<1>9. ASSUME NEW l \in Loggers, WorkerGet(l) PROVE NothingLeftBehind'
  BY <1>9 DEF WorkerGet, WorkerAt, NothingLeftBehind, OwedInv, BackendOK, FlagsOK,
     WritingOK, HistoryOK, global, backend, control, writing
<1>10. ASSUME NEW l \in Loggers, WorkerEmpty(l) PROVE NothingLeftBehind'
  BY <1>10 DEF WorkerEmpty, WorkerAt, AfterEmpty, NothingLeftBehind, OwedInv, BackendOK,
     FlagsOK, WritingOK, HistoryOK, global, backend, control, writing
<1>11. ASSUME NEW l \in Loggers, WorkerSend(l) PROVE NothingLeftBehind'
  BY <1>11 DEF WorkerSend, WorkerAt, NothingLeftBehind, OwedInv, BackendOK, FlagsOK,
     WritingOK, HistoryOK, global, backend, control, writing
<1>12. ASSUME NEW l \in Loggers, WorkerSendRaises(l) PROVE NothingLeftBehind'
  BY <1>12 DEF WorkerSendRaises, WorkerAt, AfterSendError, NothingLeftBehind, OwedInv,
     BackendOK, FlagsOK, WritingOK, HistoryOK, global, backend, control, writing
<1>13. CASE UNCHANGED vars
  BY <1>13 DEF NothingLeftBehind, vars, global, backend, control, writing
<1>14. QED
  BY <1>1, <1>2, <1>3, <1>4, <1>5, <1>6, <1>7, <1>8, <1>9, <1>10, <1>11, <1>12, <1>13 DEF
     Next, WriteStep, WorkerStep

\* While its files are open, a logger's file has all that is on its way to Kafka.
LEMMA FileFirstNext ==
  TypeOK /\ MakersInv /\ OwedInv /\ FiledInv /\ FileFirst /\ [Next]_vars => FileFirst'
<1> SUFFICES ASSUME TypeOK, MakersInv, OwedInv, FiledInv, FileFirst, [Next]_vars PROVE FileFirst'
  OBVIOUS
<1> BackendOK /\ FilesOK /\ WritingOK /\ HistoryOK /\ GlobalOK
  BY DEF TypeOK
<1>1. ASSUME NEW c \in Controllers, ControlCall(c) \/ InitStep(c) \/ CloseStep(c)
      PROVE  FileFirst'
  <2>1. CASE InitMake(c)
    <3>1. mine[c] \in Loggers /\ mine[c] # None /\ files[mine[c]] = "none"
      BY <2>1, LogBounds DEF InitMake, MakersInv, GlobalOK, Loggers, None
    <3>2. files'[mine[c]] = "open" /\ \A l \in Loggers \ {mine[c]} : files'[l] = files[l]
      BY <2>1, <3>1 DEF InitMake, FilesOK
    <3>3. ToSet(queue[mine[c]]) = {} /\ ToSet(hand[mine[c]]) = {} /\ ToSet(sent[mine[c]]) = {}
      BY <3>1 DEF FiledInv, ToSet
    <3>4. ASSUME NEW l \in Loggers, files'[l] = "open"
          PROVE  ToSet(queue[l]) \cup ToSet(hand[l]) \cup ToSet(sent[l])
                   \subseteq filed[l] \cup WithoutFile(l)
      BY <3>2, <3>3, <3>4 DEF FileFirst
    <3>5. QED
      BY <2>1, <3>4 DEF InitMake, FileFirst, backend
  <2>2. CASE ~InitMake(c)
    BY <1>1, <2>2, ControlFrame DEF FileFirst
  <2>3. QED
    BY <2>1, <2>2
<1>2. ASSUME NEW w \in Writers, LogCall(w) PROVE FileFirst'
  BY <1>2 DEF LogCall, At, FileFirst, FiledInv, BackendOK, FilesOK, WritingOK, HistoryOK,
     GlobalOK, global, backend, control, writing
<1>3. ASSUME NEW w \in Writers, LogUse(w) PROVE FileFirst'
  BY <1>3 DEF LogUse, At, FileFirst, FiledInv, BackendOK, FilesOK, WritingOK, HistoryOK,
     GlobalOK, global, backend, control, writing
<1>4. ASSUME NEW w \in Writers, WriteFile(w) PROVE FileFirst'
  BY <1>4 DEF WriteFile, HasFile, At, FileFirst, WithoutFile, FiledInv, BackendOK, FilesOK, WritingOK, HistoryOK,
     GlobalOK, global, backend, control, writing
<1>5. ASSUME NEW w \in Writers, WriteFileRaises(w) PROVE FileFirst'
  BY <1>5 DEF WriteFileRaises, At, AfterFileError, FileFirst, FiledInv, BackendOK, FilesOK,
     WritingOK, HistoryOK, GlobalOK, global, backend, control, writing
<1>6. ASSUME NEW w \in Writers, Put(w) PROVE FileFirst'
  <2>1. ASSUME NEW l \in Loggers, l = target[w], files[l] = "open"
        PROVE  ToSet(queue'[l]) \subseteq filed[l] \cup WithoutFile(l)
    <3>1. Entry(w) \in Entries /\ Entry(w) \in filed[l] \cup WithoutFile(l)
      BY <1>6, <2>1, EntryTyped DEF Put, FiledInv, WithoutFile
    <3>2. queue[l] \in Seq(Entries) /\ queue'[l] = Append(queue[l], Entry(w))
      BY <1>6, <2>1 DEF Put, BackendOK
    <3>3. QED
      BY <2>1, <3>1, <3>2, AppendElements DEF FileFirst
  <2>2. ASSUME NEW l \in Loggers, l # target[w]
        PROVE  queue'[l] = queue[l]
    BY <1>6, <2>2 DEF Put, BackendOK
  <2>3. QED
    BY <1>6, <2>1, <2>2 DEF Put, FileFirst
<1>7. ASSUME NEW w \in Writers, PutFull(w) PROVE FileFirst'
  BY <1>7 DEF PutFull, At, FileFirst, FiledInv, BackendOK, FilesOK, WritingOK, HistoryOK,
     GlobalOK, global, backend, control, writing
<1>8. ASSUME NEW l \in Loggers, WorkerCheck(l) PROVE FileFirst'
  BY <1>8 DEF WorkerCheck, WorkerAt, FileFirst, FiledInv, BackendOK, FilesOK, WritingOK,
     HistoryOK, GlobalOK, global, backend, control, writing
<1>9. ASSUME NEW l \in Loggers, WorkerGet(l) PROVE FileFirst'
  <2> USE <1>9 DEF WorkerGet
  <2>1. queue[l] \in Seq(Entries) /\ hand[l] \in Seq(Entries) /\ sent[l] \in Seq(Entries)
    BY DEF BackendOK
  <2>2. queue'[l] = Tail(queue[l]) /\ hand'[l] = <<Head(queue[l])>> /\ sent'[l] = sent[l]
    BY DEF BackendOK
  <2>3. ToSet(queue'[l]) \subseteq ToSet(queue[l]) /\ ToSet(hand'[l]) \subseteq ToSet(queue[l])
    BY <2>1, <2>2, HeadTailElements
  <2>4. ASSUME NEW k \in Loggers, files'[k] = "open"
        PROVE  ToSet(queue'[k]) \cup ToSet(hand'[k]) \cup ToSet(sent'[k])
                 \subseteq filed'[k] \cup WithoutFile(k)
    <3>1. CASE k = l
      BY <2>2, <2>3, <2>4, <3>1 DEF FileFirst
    <3>2. CASE k # l
      BY <2>4, <3>2 DEF FileFirst, BackendOK
    <3>3. QED
      BY <3>1, <3>2
  <2>5. QED
    BY <2>4 DEF FileFirst, WithoutFile
<1>10. ASSUME NEW l \in Loggers, WorkerEmpty(l) PROVE FileFirst'
  BY <1>10 DEF WorkerEmpty, WorkerAt, AfterEmpty, FileFirst, FiledInv, BackendOK, FilesOK,
     WritingOK, HistoryOK, GlobalOK, global, backend, control, writing
<1>11. ASSUME NEW l \in Loggers, WorkerSend(l) PROVE FileFirst'
  <2> USE <1>11 DEF WorkerSend
  <2>1. queue[l] \in Seq(Entries) /\ hand[l] \in Seq(Entries) /\ sent[l] \in Seq(Entries)
    BY DEF BackendOK
  <2>2. queue'[l] = queue[l] /\ hand'[l] = <<>> /\ sent'[l] = sent[l] \o hand[l]
    BY DEF BackendOK
  <2>3. ToSet(hand'[l]) = {} /\ ToSet(sent'[l]) = ToSet(sent[l]) \cup ToSet(hand[l])
    <3>1. ToSet(hand'[l]) = {}
      BY <2>2 DEF ToSet
    <3>2. \A s, t \in Seq(Entries) : ToSet(s \o t) = ToSet(s) \cup ToSet(t)
      BY ConcatElements
    <3>3. QED
      BY <2>1, <2>2, <3>1, <3>2
  <2>4. ASSUME NEW k \in Loggers, files'[k] = "open"
        PROVE  ToSet(queue'[k]) \cup ToSet(hand'[k]) \cup ToSet(sent'[k])
                 \subseteq filed'[k] \cup WithoutFile(k)
    <3>1. CASE k = l
      BY <2>2, <2>3, <2>4, <3>1 DEF FileFirst
    <3>2. CASE k # l
      BY <2>4, <3>2 DEF FileFirst, BackendOK
    <3>3. QED
      BY <3>1, <3>2
  <2>5. QED
    BY <2>4 DEF FileFirst, WithoutFile
<1>12. ASSUME NEW l \in Loggers, WorkerSendRaises(l) PROVE FileFirst'
  <2> USE <1>12 DEF WorkerSendRaises
  <2>1. queue[l] \in Seq(Entries) /\ hand[l] \in Seq(Entries) /\ sent[l] \in Seq(Entries)
    BY DEF BackendOK
  <2>2. queue'[l] = queue[l] /\ hand'[l] = <<>> /\ sent'[l] = sent[l]
    BY DEF BackendOK, AfterSendError
  <2>3. ToSet(hand'[l]) = {}
    BY <2>2 DEF ToSet
  <2>4. ASSUME NEW k \in Loggers, files'[k] = "open"
        PROVE  ToSet(queue'[k]) \cup ToSet(hand'[k]) \cup ToSet(sent'[k])
                 \subseteq filed'[k] \cup WithoutFile(k)
    <3>1. CASE k = l
      BY <2>2, <2>3, <2>4, <3>1 DEF FileFirst
    <3>2. CASE k # l
      BY <2>4, <3>2 DEF FileFirst, BackendOK, AfterSendError
    <3>3. QED
      BY <3>1, <3>2
  <2>5. QED
    BY <2>4 DEF FileFirst, WithoutFile
<1>13. CASE UNCHANGED vars
  BY <1>13 DEF FileFirst, vars, global, backend, control, writing
<1>14. QED
  BY <1>1, <1>2, <1>3, <1>4, <1>5, <1>6, <1>7, <1>8, <1>9, <1>10, <1>11, <1>12, <1>13 DEF
     Next, WriteStep, WorkerStep

\* The invariant the four theorems are read off.
LEMMA Invariance == Spec => []IInv
<1>1. Init => IInv
  BY InitInv DEF IInv
<1>2. IInv /\ [Next]_vars => IInv'
  BY TypeNext, MakersNext, LockNext, OwedNext, FiledNext, NoLeakNext, BehindNext, FileFirstNext
     DEF IInv
<1>3. QED
  BY <1>1, <1>2, PTL DEF Spec

\* Every variable keeps its type; the queue its bound.
THEOREM TypeCorrect == Spec => []TypeOK
<1>1. IInv => TypeOK
  BY DEF IInv
<1>2. QED
  BY <1>1, Invariance, PTL

\* However init and close calls race, a logger with open files is the global
\* one or a replaced one; one whose producer alone is open may also be in the
\* making, given up by its maker, or closed with a flush() that raised.
THEOREM LoggersAreKept == Spec => []NoLeak
<1>1. IInv => NoLeak
  BY DEF IInv
<1>2. QED
  BY <1>1, Invariance, PTL

\* A worker that ended left nothing that was put before done was set.
THEOREM QueueIsEmptied == Spec => []NothingLeftBehind
<1>1. IInv => NothingLeftBehind
  BY DEF IInv
<1>2. QED
  BY <1>1, Invariance, PTL

\* While a logger's files are open, Kafka is given nothing that they lack but
\* what the logger has no file for.
THEOREM FileComesFirst == Spec => []FileFirst
<1>1. IInv => FileFirst
  BY DEF IInv
<1>2. QED
  BY <1>1, Invariance, PTL

-----------------------------------------------------------------------------
(***************************************************************************)
(* The Kafka backend of LogPipeline implements LossyQueue and keeps the     *)
(* order of each writer's entries, for any threads, bounds and capacity.    *)
(***************************************************************************)

\* The worker has an entry in hand only between get() and the end of send().
HandInv == \A l \in Loggers : hand[l] = <<>> <=> worker[l] # "send"

LEMMA HandNext == TypeOK /\ MakersInv /\ HandInv /\ [Next]_vars => HandInv'
<1> SUFFICES ASSUME TypeOK, MakersInv, HandInv, [Next]_vars PROVE HandInv'
  OBVIOUS
<1> BackendOK /\ GlobalOK
  BY DEF TypeOK
<1>1. ASSUME NEW c \in Controllers, InitBackend(c) PROVE HandInv'
  <2>1. made + 1 \in Loggers /\ made + 1 > made
    BY <1>1, LogBounds DEF InitBackend, NewLogger, GlobalOK, Loggers
  <2>2. worker[made + 1] = "none"
    BY <2>1 DEF MakersInv
  <2>3. QED
    BY <1>1, <2>1, <2>2 DEF InitBackend, HandInv, BackendOK
<1>2. ASSUME NEW c \in Controllers, ControlCall(c) \/ InitStep(c) \/ CloseStep(c),
             ~InitBackend(c)
      PROVE  HandInv'
  BY <1>2 DEF ControlCall, InitCall, InitBackendRaises, CloseCall, CloseDirectly, NewLogger,
     InitStep, InitMake, InitMakeRaises, InitReturns, CloseStep, CloseNothing, CloseLocked,
     CloseFiles, SetDone, Joined, CloseDone, FlushRaises, HandInv, backend
<1>3. ASSUME NEW w \in Writers, LogCall(w) \/ WriteStep(w) PROVE HandInv'
  BY <1>3, WriterFrame DEF HandInv
<1>4. ASSUME NEW l \in Loggers, WorkerCheck(l) PROVE HandInv'
  BY <1>4 DEF WorkerCheck, WorkerAt, HandInv, BackendOK
<1>5. ASSUME NEW l \in Loggers, WorkerGet(l) PROVE HandInv'
  BY <1>5 DEF WorkerGet, WorkerAt, HandInv, BackendOK
<1>6. ASSUME NEW l \in Loggers, WorkerEmpty(l) PROVE HandInv'
  BY <1>6 DEF WorkerEmpty, WorkerAt, AfterEmpty, HandInv, BackendOK
<1>7. ASSUME NEW l \in Loggers, WorkerSend(l) \/ WorkerSendRaises(l) PROVE HandInv'
  BY <1>7 DEF WorkerSend, WorkerSendRaises, WorkerAt, HandInv, BackendOK
<1>8. CASE UNCHANGED vars
  BY <1>8 DEF HandInv, vars, backend
<1>9. QED
  BY <1>1, <1>2, <1>3, <1>4, <1>5, <1>6, <1>7, <1>8 DEF Next, WorkerStep

LEMMA HandInvariance == Spec => []HandInv
<1>1. Init => HandInv
  BY DEF Init, HandInv
<1>2. IInv /\ HandInv /\ [Next]_vars => HandInv'
  BY HandNext DEF IInv
<1>3. QED
  BY <1>1, <1>2, Invariance, PTL DEF Spec

-----------------------------------------------------------------------------
(* What the steps of the worker do to the entries in transit.               *)

\* The head, and then the rest, is the sequence.
LEMMA HeadThenTail ==
  ASSUME NEW S, NEW s \in Seq(S), s # <<>>
  PROVE  <<Head(s)>> \o Tail(s) = s
<1>1. Len(s) \in Nat /\ Len(s) > 0 /\ Tail(s) \in Seq(S) /\ Len(Tail(s)) = Len(s) - 1
  OBVIOUS
<1>2. <<Head(s)>> \in Seq(S) /\ Len(<<Head(s)>>) = 1
  OBVIOUS
<1>3. Len(<<Head(s)>> \o Tail(s)) = Len(s)
  BY <1>1, <1>2
<1>4. \A i \in 1..Len(s) : (<<Head(s)>> \o Tail(s))[i] = s[i]
  BY <1>1, <1>2
<1>5. <<Head(s)>> \o Tail(s) \in Seq(S)
  BY <1>1, <1>2
<1>6. QED
  BY <1>3, <1>4, <1>5

\* Concatenation adds the lengths.
LEMMA ConcatLen ==
  ASSUME NEW S, NEW s \in Seq(S), NEW t \in Seq(S)
  PROVE  /\ s \o t \in Seq(S) /\ Len(s \o t) = Len(s) + Len(t)
         /\ Len(s) \in Nat /\ Len(t) \in Nat
<1>1. Len(s) \in Nat /\ Len(t) \in Nat /\ s \o t \in Seq(S)
  OBVIOUS
<1>2. Len(s \o t) = Len(s) + Len(t)
  OBVIOUS
<1>3. QED
  BY <1>1, <1>2

\* A hand of one entry is the head of what is in transit.
LEMMA OneInHand ==
  ASSUME NEW S, NEW a \in S, NEW q \in Seq(S)
  PROVE  <<a>> \o q # <<>> /\ Head(<<a>> \o q) = a /\ Tail(<<a>> \o q) = q
<1>1. <<a>> \in Seq(S) /\ Len(<<a>>) = 1
  OBVIOUS
<1>2. Len(q) \in Nat /\ <<a>> \o q \in Seq(S) /\ Len(<<a>> \o q) = Len(q) + 1
  BY <1>1
<1>3. <<a>> \o q # <<>> /\ Head(<<a>> \o q) = a
  BY <1>2
<1>4. Len(Tail(<<a>> \o q)) = Len(q) /\ Tail(<<a>> \o q) \in Seq(S)
  BY <1>2, <1>3
<1>5. \A i \in 1..Len(q) : Tail(<<a>> \o q)[i] = q[i]
  BY <1>2, <1>3
<1>6. QED
  BY <1>2, <1>3, <1>4, <1>5

\* A sequence of one element is that element.
LEMMA Single ==
  ASSUME NEW S, NEW h \in Seq(S), Len(h) <= 1, h # <<>>
  PROVE  \E a \in S : h = <<a>>
<1>1. Len(h) \in Nat /\ (Len(h) = 0 => h = <<>>)
  OBVIOUS
<1>2. Len(h) = 1
  BY <1>1
<1>3. h[1] \in S /\ h = <<h[1]>>
  BY <1>2
<1>4. QED
  BY <1>3

\* An entry put in the queue is last in transit.
LEMMA ConcatAppend ==
  \A h, q \in Seq(Entries) : \A a \in Entries : h \o Append(q, a) = Append(h \o q, a)
  OBVIOUS

-----------------------------------------------------------------------------
(* The step simulation.                                                     *)

\* Nothing in hand: what is in transit is the queue.
LEMMA NothingInHand ==
  ASSUME NEW S, NEW q \in Seq(S)
  PROVE  <<>> \o q = q
<1>1. Len(q) \in Nat /\ Len(<<>> \o q) = Len(q) /\ <<>> \o q \in Seq(S)
  OBVIOUS
<1>2. \A i \in 1..Len(q) : (<<>> \o q)[i] = q[i]
  OBVIOUS
<1>3. QED
  BY <1>1, <1>2

\* A queue and a hand that stay the same leave what is in transit the same.
LEMMA StepStutters ==
  ASSUME UNCHANGED <<queue, hand, sent>>
  PROVE  UNCHANGED Backend!vars
  BY DEF Backend!vars, InTransit

LEMMA StepSimulation ==
  TypeOK /\ MakersInv /\ OwedInv /\ HandInv /\ [Next]_vars => [Backend!Next]_(Backend!vars)
<1> SUFFICES ASSUME TypeOK, MakersInv, OwedInv, HandInv, [Next]_vars
             PROVE  [Backend!Next]_(Backend!vars)
  OBVIOUS
<1> BackendOK /\ WritingOK
  BY DEF TypeOK
<1> DEFINE T == InTransit
<1>1. ASSUME NEW c \in Controllers, ControlCall(c) \/ InitStep(c) \/ CloseStep(c)
      PROVE  UNCHANGED Backend!vars
  BY <1>1, ControlFrame, StepStutters
<1>2. ASSUME NEW w \in Writers,
             LogCall(w) \/ LogUse(w) \/ WriteFile(w) \/ WriteFileRaises(w) \/ PutFull(w)
      PROVE  UNCHANGED Backend!vars
  BY <1>2, StepStutters DEF LogCall, LogUse, WriteFile, WriteFileRaises, PutFull, backend
<1>3. ASSUME NEW w \in Writers, Put(w) PROVE Backend!Next
  <2> DEFINE l == target[w]  e == Entry(w)
  <2>1. l \in Loggers /\ e \in Entries
    BY <1>3, EntryTyped DEF Put, OwedInv
  <2>2. hand[l] \in Seq(Entries) /\ queue[l] \in Seq(Entries)
    BY <2>1 DEF BackendOK
  <2>3. Len(T[l]) <= Capacity
    <3>1. Len(T[l]) = Len(hand[l]) + Len(queue[l])
      BY <2>1, <2>2, ConcatLen DEF InTransit
    <3>2. Len(hand[l]) \in Nat /\ Len(queue[l]) \in Nat
      BY <2>2
    <3>3. Len(hand[l]) <= 1 /\ Len(queue[l]) < Capacity
      BY <1>3, <2>1 DEF BackendOK, Put, HasRoom
    <3>4. \A a, b \in Nat : a <= 1 /\ b < Capacity => a + b <= Capacity
      BY LogBounds
    <3>5. Len(hand[l]) + Len(queue[l]) <= Capacity
      BY <3>2, <3>3, <3>4, Zenon
    <3>6. QED
      BY <3>1, <3>5, Zenon
  <2>4. T' = [T EXCEPT ![l] = Append(@, e)]
    <3>1. queue' = [queue EXCEPT ![l] = Append(queue[l], e)] /\ hand' = hand
      BY <1>3 DEF Put
    <3>2. T'[l] = Append(T[l], e)
      <4>1. T'[l] = hand[l] \o Append(queue[l], e)
        BY <2>1, <3>1 DEF InTransit, BackendOK
      <4>2. QED
        <5>1. T[l] = hand[l] \o queue[l]
          BY <2>1 DEF InTransit
        <5>2. hand[l] \o Append(queue[l], e) = Append(hand[l] \o queue[l], e)
          BY <2>1, <2>2, ConcatAppend, Zenon
        <5>3. QED
          BY <4>1, <5>1, <5>2
    <3>3. \A k \in Loggers \ {l} : T'[k] = T[k]
      BY <2>1, <3>1 DEF InTransit, BackendOK
    <3>4. QED
      BY <2>1, <3>2, <3>3 DEF InTransit
  <2>5. UNCHANGED sent
    BY <1>3 DEF Put
  <2>6. QED
    BY <2>1, <2>3, <2>4, <2>5 DEF Backend!Next, Backend!Accept
<1>4. ASSUME NEW l \in Loggers, WorkerCheck(l) \/ WorkerEmpty(l)
      PROVE  UNCHANGED Backend!vars
  BY <1>4, StepStutters DEF WorkerCheck, WorkerEmpty
\* get() moves the head from the queue to the hand, which was empty.
<1>5. ASSUME NEW l \in Loggers, WorkerGet(l) PROVE UNCHANGED Backend!vars
  <2>1. queue[l] \in Seq(Entries) /\ queue[l] # <<>> /\ hand[l] = <<>>
    BY <1>5 DEF WorkerGet, BackendOK, HandInv
  <2>2. T[l] = queue[l]
    BY <2>1, NothingInHand DEF InTransit
  <2>3. T'[l] = <<Head(queue[l])>> \o Tail(queue[l])
    BY <1>5 DEF WorkerGet, InTransit, BackendOK
  <2>4. T'[l] = T[l]
    BY <2>1, <2>2, <2>3, HeadThenTail
  <2>5. \A k \in Loggers \ {l} : T'[k] = T[k]
    BY <1>5 DEF WorkerGet, InTransit, BackendOK
  <2>6. T' = T
    BY <2>4, <2>5 DEF InTransit
  <2>7. QED
    BY <1>5, <2>6 DEF WorkerGet, Backend!vars
\* send() takes the hand, which is the head of what is in transit, whether it
\* returns or raises.
<1>6. ASSUME NEW l \in Loggers, WorkerSend(l) \/ WorkerSendRaises(l)
      PROVE  /\ \E a \in Entries : hand[l] = <<a>> /\ Head(T[l]) = a
             /\ Backend!Remove(l)
  <2>1. hand[l] \in Seq(Entries) /\ queue[l] \in Seq(Entries) /\ Len(hand[l]) <= 1
    BY DEF BackendOK
  <2>2. hand[l] # <<>>
    BY <1>6 DEF WorkerSend, WorkerSendRaises, HandInv
  <2>3. PICK a \in Entries : hand[l] = <<a>>
    BY <2>1, <2>2, Single
  <2>4. T[l] = <<a>> \o queue[l]
    BY <2>3 DEF InTransit
  <2>5. T[l] # <<>> /\ Head(T[l]) = a /\ Tail(T[l]) = queue[l]
    BY <2>1, <2>4, OneInHand
  <2>6. T'[l] = queue[l] /\ \A k \in Loggers \ {l} : T'[k] = T[k]
    <3>1. queue' = queue /\ hand' = [hand EXCEPT ![l] = <<>>]
      BY <1>6 DEF WorkerSend, WorkerSendRaises, AfterSendError, BackendOK
    <3>2. T'[l] = <<>> \o queue[l] /\ \A k \in Loggers \ {l} : T'[k] = T[k]
      BY <3>1 DEF InTransit, BackendOK
    <3>3. QED
      BY <2>1, <3>2, NothingInHand
  <2>7. T' = [T EXCEPT ![l] = Tail(@)]
    BY <2>5, <2>6 DEF InTransit
  <2>8. QED
    BY <2>3, <2>5, <2>7 DEF Backend!Remove
<1>7. ASSUME NEW l \in Loggers, WorkerSend(l) PROVE Backend!Next
  <2>1. PICK a \in Entries : hand[l] = <<a>> /\ Head(T[l]) = a
    BY <1>6, <1>7
  <2>2. sent[l] \in Seq(Entries) /\ sent[l] \o <<a>> = Append(sent[l], a)
    BY DEF BackendOK
  <2>3. sent' = [sent EXCEPT ![l] = Append(@, Head(T[l]))]
    BY <1>7, <2>1, <2>2 DEF WorkerSend
  <2>4. Backend!Deliver(l)
    BY <1>6, <1>7, <2>3 DEF Backend!Deliver
  <2>5. QED
    BY <2>4 DEF Backend!Next
<1>8. ASSUME NEW l \in Loggers, WorkerSendRaises(l) PROVE Backend!Next
  <2>1. Backend!Lose(l)
    BY <1>6, <1>8 DEF WorkerSendRaises, Backend!Lose
  <2>2. QED
    BY <2>1 DEF Backend!Next
<1>9. CASE UNCHANGED vars
  BY <1>9, StepStutters DEF vars, backend
<1>10. QED
  BY <1>1, <1>2, <1>3, <1>4, <1>5, <1>7, <1>8, <1>9 DEF Next, WriteStep, WorkerStep

\* Each backend is a lossy queue: what it takes reaches Kafka in its turn and
\* once, or is lost, however init, close, hung joins and failing sends mix.
THEOREM ImplementsLossyQueue == Spec => BackendIsLossyQueue
<1>1. Init => Backend!Init
  BY DEF Init, Backend!Init, InTransit
<1>2. IInv /\ HandInv /\ [Next]_vars => [Backend!Next]_(Backend!vars)
  BY StepSimulation DEF IInv
<1>3. QED
  BY <1>1, <1>2, Invariance, HandInvariance, PTL DEF Spec, BackendIsLossyQueue, Backend!Spec

-----------------------------------------------------------------------------
(* The order of what Kafka gets.  Entries of one writer are numbered as it  *)
(* logs them: sent, hand and queue, one after the other, have them in that  *)
(* order, and the call a writer is in comes after all of them.              *)

Earlier(d, e) == d[1] = e[1] => d[2] < e[2]
Ordered(s) == \A i, j \in DOMAIN s : i < j => Earlier(s[i], s[j])
Before(s, t) == \A i \in DOMAIN s, j \in DOMAIN t : Earlier(s[i], t[j])
Logged(e) == e[2] <= calls[e[1]] /\ (wpc[e[1]] # "idle" => e[2] < calls[e[1]])
AllLogged(s) == \A i \in DOMAIN s : Logged(s[i])

OrderInv == \A l \in Loggers :
  /\ Ordered(sent[l]) /\ Ordered(queue[l])
  /\ Before(sent[l], hand[l]) /\ Before(sent[l], queue[l]) /\ Before(hand[l], queue[l])
LoggedInv == \A l \in Loggers :
  AllLogged(sent[l]) /\ AllLogged(hand[l]) /\ AllLogged(queue[l])

\* What an append does to the order.
LEMMA AppendInOrder ==
  ASSUME NEW s \in Seq(Entries), NEW t \in Seq(Entries), NEW e \in Entries
  PROVE  /\ Ordered(s) /\ (\A i \in DOMAIN s : Earlier(s[i], e)) => Ordered(Append(s, e))
         /\ Before(t, s) /\ (\A i \in DOMAIN t : Earlier(t[i], e)) => Before(t, Append(s, e))
         /\ Before(s, t) /\ Before(<<e>>, t) => Before(Append(s, e), t)
         /\ AllLogged(s) /\ Logged(e) => AllLogged(Append(s, e))
<1>1. /\ DOMAIN s = 1..Len(s) /\ Len(s) \in Nat
      /\ DOMAIN Append(s, e) = 1..(Len(s) + 1)
  OBVIOUS
<1>2. Append(s, e)[Len(s) + 1] = e /\ \A i \in 1..Len(s) : Append(s, e)[i] = s[i]
  OBVIOUS
<1>3. \A i \in DOMAIN Append(s, e) : i \in DOMAIN s \/ i = Len(s) + 1
  BY <1>1
<1>4. \A i, j \in DOMAIN Append(s, e) : i < j => i \in DOMAIN s
  BY <1>1
<1>5. ASSUME Ordered(s), \A i \in DOMAIN s : Earlier(s[i], e) PROVE Ordered(Append(s, e))
  BY <1>1, <1>2, <1>3, <1>4, <1>5, Zenon DEF Ordered
<1>6. ASSUME Before(t, s), \A i \in DOMAIN t : Earlier(t[i], e) PROVE Before(t, Append(s, e))
  BY <1>1, <1>2, <1>3, <1>6, Zenon DEF Before
<1>7. ASSUME Before(s, t), Before(<<e>>, t) PROVE Before(Append(s, e), t)
  <2>1. \A j \in DOMAIN t : Earlier(e, t[j])
    <3>1. 1 \in DOMAIN <<e>> /\ <<e>>[1] = e
      OBVIOUS
    <3>2. QED
      BY <1>7, <3>1, Zenon DEF Before
  <2>2. QED
    BY <1>1, <1>2, <1>3, <1>7, <2>1, Zenon DEF Before
<1>8. ASSUME AllLogged(s), Logged(e) PROVE AllLogged(Append(s, e))
  BY <1>1, <1>2, <1>3, <1>8, Zenon DEF AllLogged
<1>9. QED
  BY <1>5, <1>6, <1>7, <1>8

\* What taking the head does to it.
LEMMA TakenInOrder ==
  ASSUME NEW s \in Seq(Entries), NEW t \in Seq(Entries), t # <<>>
  PROVE  /\ Ordered(t) => Ordered(Tail(t)) /\ Before(<<Head(t)>>, Tail(t))
         /\ Before(s, t) => Before(s, Tail(t)) /\ Before(s, <<Head(t)>>)
         /\ AllLogged(t) => AllLogged(Tail(t)) /\ AllLogged(<<Head(t)>>)
<1>1. /\ DOMAIN t = 1..Len(t) /\ Len(t) \in Nat /\ Len(t) > 0
      /\ DOMAIN Tail(t) = 1..(Len(t) - 1) /\ Head(t) = t[1]
  OBVIOUS
<1>2. \A i \in DOMAIN Tail(t) : i + 1 \in DOMAIN t /\ Tail(t)[i] = t[i + 1] /\ 1 < i + 1
  BY <1>1
<1>3. DOMAIN <<Head(t)>> = {1} /\ <<Head(t)>>[1] = t[1] /\ 1 \in DOMAIN t
  BY <1>1
<1>4. \A i, j \in DOMAIN Tail(t) : i < j => i + 1 < j + 1
  BY <1>1
<1>5. ASSUME Ordered(t) PROVE Ordered(Tail(t)) /\ Before(<<Head(t)>>, Tail(t))
  BY <1>2, <1>3, <1>4, <1>5, Zenon DEF Ordered, Before
<1>6. ASSUME Before(s, t) PROVE Before(s, Tail(t)) /\ Before(s, <<Head(t)>>)
  BY <1>2, <1>3, <1>6, Zenon DEF Before
<1>7. ASSUME AllLogged(t) PROVE AllLogged(Tail(t)) /\ AllLogged(<<Head(t)>>)
  BY <1>2, <1>3, <1>7, Zenon DEF AllLogged
<1>8. QED
  BY <1>5, <1>6, <1>7

\* The call a writer is in, in words of the queue: a step of the writer that
\* leaves the backend alone keeps what is logged.
LEMMA LoggedFrame ==
  ASSUME WritingOK, LoggedInv, BackendOK, UNCHANGED <<sent, hand, queue>>,
         \A w \in Writers :
           \/ calls'[w] = calls[w] /\ (wpc'[w] # "idle" => wpc[w] # "idle")
           \/ calls'[w] = calls[w] + 1
  PROVE  LoggedInv'
<1>1. ASSUME NEW e \in Entries, Logged(e) PROVE Logged(e)'
  <2>1. e[1] \in Writers /\ e[2] \in Nat /\ calls[e[1]] \in Nat
    BY LogBounds DEF Entries, WritingOK
  <2>2. QED
    BY <1>1, <2>1 DEF Logged
<1>2. ASSUME NEW s \in Seq(Entries), AllLogged(s)
      PROVE  \A i \in DOMAIN s : Logged(s[i])'
  <2>1. \A i \in DOMAIN s : s[i] \in Entries
    OBVIOUS
  <2>2. QED
    BY <1>1, <1>2, <2>1, Zenon DEF AllLogged
<1>3. \A l \in Loggers :
        sent[l] \in Seq(Entries) /\ hand[l] \in Seq(Entries) /\ queue[l] \in Seq(Entries)
  BY DEF BackendOK
<1>4. QED
  BY <1>2, <1>3, Zenon DEF LoggedInv, AllLogged

\* Every step keeps the order, and the numbers of logged entries behind the
\* calls of their writers.
LEMMA OrderNext ==
  TypeOK /\ OwedInv /\ HandInv /\ OrderInv /\ LoggedInv /\ [Next]_vars
    => OrderInv' /\ LoggedInv'
<1> SUFFICES ASSUME TypeOK, OwedInv, HandInv, OrderInv, LoggedInv, [Next]_vars
             PROVE  OrderInv' /\ LoggedInv'
  OBVIOUS
<1> BackendOK /\ WritingOK
  BY DEF TypeOK
<1>0. \A l \in Loggers :
        sent[l] \in Seq(Entries) /\ hand[l] \in Seq(Entries) /\ queue[l] \in Seq(Entries)
  BY DEF BackendOK
<1>1. ASSUME NEW c \in Controllers, ControlCall(c) \/ InitStep(c) \/ CloseStep(c)
      PROVE  OrderInv' /\ LoggedInv'
  <2>1. UNCHANGED <<queue, hand, sent, wpc, calls>>
    BY <1>1, ControlFrame DEF writing
  <2>2. QED
    BY <2>1, Zenon DEF OrderInv, LoggedInv, AllLogged, Logged
<1>2. ASSUME NEW w \in Writers,
             LogCall(w) \/ LogUse(w) \/ WriteFile(w) \/ WriteFileRaises(w) \/ PutFull(w)
      PROVE  OrderInv' /\ LoggedInv'
  <2>1. UNCHANGED <<queue, hand, sent>>
    BY <1>2 DEF LogCall, LogUse, WriteFile, WriteFileRaises, PutFull, backend
  <2>2. ASSUME NEW v \in Writers
        PROVE  \/ calls'[v] = calls[v] /\ (wpc'[v] # "idle" => wpc[v] # "idle")
               \/ calls'[v] = calls[v] + 1
    <3>1. CASE LogCall(w)
      BY <3>1 DEF LogCall, At, WritingOK
    <3>2. CASE LogUse(w) \/ WriteFile(w) \/ WriteFileRaises(w) \/ PutFull(w)
      BY <3>2 DEF LogUse, WriteFile, WriteFileRaises, PutFull, At, WritingOK
    <3>3. QED
      BY <1>2, <3>1, <3>2
  <2>3. OrderInv'
    BY <2>1, Zenon DEF OrderInv
  <2>4. QED
    BY <2>1, <2>2, <2>3, LoggedFrame
\* The entry a writer puts comes after all of its that are on their way.
<1>3. ASSUME NEW w \in Writers, Put(w) PROVE OrderInv' /\ LoggedInv'
  <2>0. target[w] \in Loggers /\ Entry(w) \in Entries
    BY <1>3, EntryTyped DEF Put, OwedInv
  <2>1. PICK l \in Loggers, e \in Entries : l = target[w] /\ e = Entry(w)
    BY <2>0
  <2>2. queue' = [queue EXCEPT ![l] = Append(queue[l], e)] /\ UNCHANGED <<sent, hand, calls>>
    BY <1>3, <2>1 DEF Put
  <2>3. \A s \in Seq(Entries) : AllLogged(s) => \A i \in DOMAIN s : Earlier(s[i], e)
    <3>1. wpc[w] # "idle" /\ e[1] = w /\ e[2] = calls[w]
      BY <1>3, <2>1 DEF Put, Entry
    <3>2. QED
      BY <3>1, Zenon DEF AllLogged, Logged, Earlier
  <2>4. queue'[l] = Append(queue[l], e) /\ \A k \in Loggers \ {l} : queue'[k] = queue[k]
    BY <2>1, <2>2 DEF BackendOK
  <2>5. /\ Ordered(Append(queue[l], e))
        /\ Before(sent[l], Append(queue[l], e)) /\ Before(hand[l], Append(queue[l], e))
    BY <1>0, <2>1, <2>3, AppendInOrder DEF OrderInv, LoggedInv
  <2>6. OrderInv'
    BY <2>2, <2>4, <2>5 DEF OrderInv
  <2>7. \A d \in Entries : Logged(d) => Logged(d)'
    <3>1. wpc' = [wpc EXCEPT ![w] = "idle"] /\ wpc \in [Writers -> {"idle", "use", "file", "put"}]
      BY <1>3 DEF Put, At, WritingOK
    <3>2. \A d \in Entries : d[1] \in Writers
      BY DEF Entries
    <3>3. QED
      BY <2>2, <3>1, <3>2 DEF Logged
  <2>8. Logged(e)'
    <3>1. wpc'[w] = "idle" /\ e[1] = w /\ e[2] = calls[w] /\ calls[w] \in Nat
      BY <1>3, <2>1, LogBounds DEF Put, At, Entry, WritingOK
    <3>2. QED
      BY <2>2, <3>1 DEF Logged
  <2>9. ASSUME NEW k \in Loggers
        PROVE  (AllLogged(sent[k]) /\ AllLogged(hand[k]) /\ AllLogged(queue[k]))'
    <3>1. \A s \in Seq(Entries) : AllLogged(s) => \A i \in DOMAIN s : Logged(s[i])'
      <4>1. \A s \in Seq(Entries) : \A i \in DOMAIN s : s[i] \in Entries
        OBVIOUS
      <4>2. QED
        BY <2>7, <4>1, Zenon DEF AllLogged
    <3>2. AllLogged(sent[k])' /\ AllLogged(hand[k])'
      BY <1>0, <2>2, <3>1, Zenon DEF LoggedInv, AllLogged
    <3>3. PICK q, r \in Seq(Entries) : q = queue[l] /\ r = Append(q, e)
      <4>1. queue[l] \in Seq(Entries) /\ Append(queue[l], e) \in Seq(Entries)
        BY <1>0
      <4>2. QED
        BY <4>1, Zenon
    <3>4. \A i \in DOMAIN r : Logged(r[i])'
      <4>1. \A i \in DOMAIN r : (i \in DOMAIN q /\ r[i] = q[i]) \/ r[i] = e
        BY <3>3
      <4>2. AllLogged(q)
        BY <3>3 DEF LoggedInv
      <4>3. \A i \in DOMAIN q : Logged(q[i])'
        BY <3>1, <4>2, Zenon
      <4>4. QED
        BY <2>8, <4>1, <4>3, Zenon
    <3>5. AllLogged(queue[k])'
      <4>1. CASE k = l
        <5>1. queue'[k] = r
          BY <2>4, <3>3, <4>1
        <5>2. QED
          BY <3>4, <5>1, Zenon DEF AllLogged
      <4>2. CASE k # l
        BY <1>0, <2>4, <3>1, <4>2 DEF LoggedInv, AllLogged
      <4>3. QED
        BY <4>1, <4>2
    <3>6. QED
      BY <3>2, <3>5
  <2>10. QED
    BY <2>6, <2>9 DEF LoggedInv
<1>4. ASSUME NEW l \in Loggers, WorkerStep(l), OrderInv',
             (\A k \in Loggers : AllLogged(sent'[k]) /\ AllLogged(hand'[k]) /\ AllLogged(queue'[k]))
      PROVE  OrderInv' /\ LoggedInv'
  <2>1. UNCHANGED <<calls, wpc>>
    BY <1>4, WorkerFrame DEF writing
  <2>2. QED
    BY <1>4, <2>1, Zenon DEF LoggedInv, AllLogged, Logged
<1>5. ASSUME NEW l \in Loggers, WorkerCheck(l) \/ WorkerEmpty(l) PROVE OrderInv' /\ LoggedInv'
  <2>1. UNCHANGED <<queue, hand, sent>>
    BY <1>5 DEF WorkerCheck, WorkerEmpty
  <2>2. QED
    BY <1>4, <1>5, <2>1, Zenon DEF WorkerStep, OrderInv, LoggedInv
<1>6. ASSUME NEW l \in Loggers, WorkerGet(l) PROVE OrderInv' /\ LoggedInv'
  <2>1. /\ hand' = [hand EXCEPT ![l] = <<Head(queue[l])>>]
        /\ queue' = [queue EXCEPT ![l] = Tail(queue[l])] /\ UNCHANGED sent /\ queue[l] # <<>>
    BY <1>6 DEF WorkerGet
  <2>2. /\ hand'[l] = <<Head(queue[l])>> /\ queue'[l] = Tail(queue[l])
        /\ \A k \in Loggers \ {l} : hand'[k] = hand[k] /\ queue'[k] = queue[k]
    BY <2>1 DEF BackendOK
  <2>3. /\ Ordered(Tail(queue[l])) /\ Before(<<Head(queue[l])>>, Tail(queue[l]))
        /\ Before(sent[l], Tail(queue[l])) /\ Before(sent[l], <<Head(queue[l])>>)
        /\ AllLogged(Tail(queue[l])) /\ AllLogged(<<Head(queue[l])>>)
    BY <1>0, <2>1, TakenInOrder DEF OrderInv, LoggedInv
  <2>4. OrderInv'
    BY <2>1, <2>2, <2>3 DEF OrderInv
  <2>5. \A k \in Loggers : AllLogged(sent'[k]) /\ AllLogged(hand'[k]) /\ AllLogged(queue'[k])
    BY <2>1, <2>2, <2>3 DEF LoggedInv
  <2>6. QED
    BY <1>4, <1>6, <2>4, <2>5 DEF WorkerStep
<1>7. ASSUME NEW l \in Loggers, WorkerSend(l) PROVE OrderInv' /\ LoggedInv'
  <2>1. hand[l] # <<>> /\ Len(hand[l]) <= 1
    BY <1>7 DEF WorkerSend, HandInv, BackendOK
  <2>2. PICK a \in Entries : hand[l] = <<a>>
    BY <1>0, <2>1, Single
  <2>3. sent[l] \o <<a>> = Append(sent[l], a)
    BY <1>0
  <2>4. /\ sent'[l] = Append(sent[l], a) /\ hand'[l] = <<>> /\ UNCHANGED queue
        /\ \A k \in Loggers \ {l} : hand'[k] = hand[k] /\ sent'[k] = sent[k]
    BY <1>7, <2>2, <2>3 DEF WorkerSend, BackendOK
  <2>5. (\A i \in DOMAIN sent[l] : Earlier(sent[l][i], a)) /\ Logged(a)
    <3>1. 1 \in DOMAIN <<a>> /\ <<a>>[1] = a
      OBVIOUS
    <3>2. QED
      BY <2>2, <3>1, Zenon DEF OrderInv, LoggedInv, Before, AllLogged
  <2>6. /\ Ordered(Append(sent[l], a)) /\ Before(Append(sent[l], a), queue[l])
        /\ AllLogged(Append(sent[l], a))
    <3>1. /\ Ordered(sent[l]) /\ AllLogged(sent[l]) /\ Before(sent[l], queue[l])
          /\ Before(<<a>>, queue[l])
      BY <2>2, Zenon DEF OrderInv, LoggedInv
    <3>2. QED
      BY <1>0, <2>5, <3>1, AppendInOrder
  <2>7. \A t : Before(t, <<>>) /\ Before(<<>>, t) /\ AllLogged(<<>>)
    BY DEF Before, AllLogged
  <2>8. OrderInv'
    <3>1. ASSUME NEW k \in Loggers
          PROVE  /\ Ordered(sent'[k]) /\ Ordered(queue'[k]) /\ Before(sent'[k], hand'[k])
                 /\ Before(sent'[k], queue'[k]) /\ Before(hand'[k], queue'[k])
      <4>1. CASE k = l
        <5>1. /\ sent'[k] = Append(sent[l], a) /\ hand'[k] = <<>> /\ queue'[k] = queue[l]
              /\ Ordered(queue[l])
          BY <2>4, <4>1 DEF OrderInv
        <5>2. QED
          BY <2>6, <2>7, <5>1, Zenon
      <4>2. CASE k # l
        BY <2>4, <4>2 DEF OrderInv
      <4>3. QED
        BY <4>1, <4>2
    <3>2. QED
      BY <3>1, Zenon DEF OrderInv, Ordered, Before, Earlier
  <2>9. \A k \in Loggers : AllLogged(sent'[k]) /\ AllLogged(hand'[k]) /\ AllLogged(queue'[k])
    BY <1>0, <2>4, <2>6, <2>7 DEF LoggedInv
  <2>10. QED
    BY <1>4, <1>7, <2>8, <2>9 DEF WorkerStep
<1>8. ASSUME NEW l \in Loggers, WorkerSendRaises(l) PROVE OrderInv' /\ LoggedInv'
  <2>1. /\ UNCHANGED <<queue, sent>> /\ hand'[l] = <<>>
        /\ \A k \in Loggers \ {l} : hand'[k] = hand[k]
    BY <1>8 DEF WorkerSendRaises, AfterSendError, BackendOK
  <2>2. \A t : Before(t, <<>>) /\ Before(<<>>, t) /\ AllLogged(<<>>)
    BY DEF Before, AllLogged
  <2>3. OrderInv'
    BY <1>0, <2>1, <2>2 DEF OrderInv
  <2>4. \A k \in Loggers : AllLogged(sent'[k]) /\ AllLogged(hand'[k]) /\ AllLogged(queue'[k])
    BY <1>0, <2>1, <2>2 DEF LoggedInv
  <2>5. QED
    BY <1>4, <1>8, <2>3, <2>4 DEF WorkerStep
<1>9. CASE UNCHANGED vars
  <2>1. UNCHANGED <<queue, hand, sent, wpc, calls>>
    BY <1>9 DEF vars, backend, writing
  <2>2. QED
    BY <2>1, Zenon DEF OrderInv, LoggedInv, AllLogged, Logged
<1>10. QED
  BY <1>1, <1>2, <1>3, <1>5, <1>6, <1>7, <1>8, <1>9 DEF Next, WriteStep, WorkerStep

\* Kafka has the entries of one writer in the order they were logged, and none
\* twice, whichever were lost on the way.
THEOREM KafkaGetsInOrder == Spec => []SentInOrder
<1>1. Init => OrderInv /\ LoggedInv
  BY DEF Init, OrderInv, LoggedInv, Ordered, Before, AllLogged
<1>2. IInv /\ HandInv /\ OrderInv /\ LoggedInv /\ [Next]_vars => OrderInv' /\ LoggedInv'
  BY OrderNext DEF IInv
<1>3. OrderInv => SentInOrder
  BY Zenon DEF OrderInv, SentInOrder, Ordered, Earlier
<1>4. QED
  BY <1>1, <1>2, <1>3, Invariance, HandInvariance, PTL DEF Spec
=============================================================================

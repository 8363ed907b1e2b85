------------------------ MODULE WorkerRegistryProofs ------------------------
(***************************************************************************)
(* The safety properties of the code-generation pool, for any number of    *)
(* workers, any call graph and any set of failing instances and backends.  *)
(*                                                                         *)
(* Everything follows from the inductive invariant IInv of PoolInvariants. *)
(* Its parts are preserved one after the other: the types and the control  *)
(* of the threads; that an instance is in one place (Known and Unique);    *)
(* that task_count is exact, for which the places must be disjoint; that   *)
(* nothing is outstanding past the first wait, for which the count must be *)
(* exact; and the way a failure travels to the main thread.                *)
(***************************************************************************)
EXTENDS PoolInvariants, FiniteSetTheorems, TLAPS

-----------------------------------------------------------------------------
(* Types, control, and the places of an instance                           *)

\* Initially the invariant holds: only the root exists, nobody has counted it.
LEMMA IInvInit == Init => IInv
<1>. SUFFICES ASSUME Init PROVE IInv
  OBVIOUS
<1>. USE PoolAssumption DEF Init, Threads
<1>1. Typed
  <2>1. /\ channel \in Seq(Instances \cup {Stop})
        /\ buffers \in Seq([by : Threads, has : SUBSET Instances])
    OBVIOUS
  <2>2. pc \in [Threads -> Labels]
    BY DEF Labels
  <2>3. /\ task \in [Threads -> Instances \cup {NoTask}]
        /\ callee \in [Threads -> Instances \cup {NoTask}]
    OBVIOUS
  <2>4. to_call \in [Threads -> SUBSET Instances]
    OBVIOUS
  <2>5. \A t \in Threads : pc[t] \in {"write", "count", "send"} => callee[t] \in Instances
    OBVIOUS
  <2>. QED
    BY <2>1, <2>2, <2>3, <2>4, <2>5 DEF Typed
<1>2. Control
  BY DEF Control, WorkerLabels, BusyLabels, IdleLabels, MainLabels, StartLabels, FirstWait
<1>3. Known
  BY DEF Known, Creating
<1>4. Unique
  <2>1. OneInQueue /\ QueuedIsNew
    BY DEF OneInQueue, QueuedIsNew
  <2>2. OneCreator /\ OneGenerator /\ OneModule /\ CreatedIsNew /\ GeneratedHere
    BY DEF OneCreator, OneGenerator, OneModule, CreatedIsNew, GeneratedHere, Creating
  <2>. QED
    BY <2>1, <2>2 DEF Unique
<1>5. Outstanding = {} /\ Finished = {}
  <2>1. QueuedTasks = {} /\ Finished = {}
    BY DEF QueuedTasks, Finished
  <2>2. \A w \in Workers : task[w] = NoTask
    OBVIOUS
  <2>3. \A t \in Threads : pc[t] # "send"
    OBVIOUS
  <2>. QED
    BY <2>1, <2>2, <2>3 DEF Outstanding
<1>6. CountExact
  BY <1>5, FS_EmptySet DEF CountExact
<1>7. Quiet
  BY <1>5 DEF Quiet
<1>8. Reported
  BY DEF Reported
<1>. QED
  BY <1>1, <1>2, <1>3, <1>4, <1>6, <1>7, <1>8 DEF IInv

\* A step keeps the types; a generated instance is a worker's task, which Control says it has.
LEMMA TypedStep == ASSUME Typed, Control, [Next]_vars PROVE Typed'
<1>. USE PoolAssumption DEF Typed, Threads, Labels, Goto, NotifyAll,
                            poolVars, tableVars, genVars, outVars
<1>1. ASSUME NEW t \in Threads, NEW k \in Instances, CallHit(t, k) PROVE Typed'
  BY <1>1 DEF CallHit
<1>2. ASSUME NEW t \in Threads, NEW k \in Instances, CallMiss(t, k) PROVE Typed'
  BY <1>2 DEF CallMiss
<1>3. ASSUME NEW t \in Threads, InstanceExists(t) PROVE Typed'
  BY <1>3 DEF InstanceExists
<1>4. ASSUME NEW t \in Threads, NewInstance(t) PROVE Typed'
  BY <1>4 DEF NewInstance
<1>5. ASSUME NEW t \in Threads, AddTaskCount(t) PROVE Typed'
  BY <1>5 DEF AddTaskCount
<1>6. ASSUME NEW t \in Threads, AddTaskSend(t) PROVE Typed'
  BY <1>6 DEF AddTaskSend
<1>7. ASSUME NEW w \in Workers, RecvTask(w) PROVE Typed'
  BY <1>7 DEF RecvTask
<1>8. ASSUME NEW w \in Workers, RecvStop(w) PROVE Typed'
  BY <1>8 DEF RecvStop
<1>9. ASSUME NEW w \in Workers, GenOk(w) PROVE Typed'
  BY <1>9 DEF GenOk, Control, BusyLabels
<1>10. ASSUME NEW w \in Workers, GenErr(w) PROVE Typed'
  BY <1>10 DEF GenErr
<1>11. ASSUME NEW w \in Workers, GenPanic(w) PROVE Typed'
  BY <1>11 DEF GenPanic
<1>12. ASSUME NEW w \in Workers, DecrCount(w) PROVE Typed'
  BY <1>12 DEF DecrCount
<1>13. ASSUME NEW w \in Workers, NotifyTask(w) PROVE Typed'
  BY <1>13 DEF NotifyTask
<1>14. ASSUME NEW w \in Workers, FinishPanic(w) PROVE Typed'
  BY <1>14 DEF FinishPanic
<1>15. ASSUME NEW w \in Workers, Deliver(w) PROVE Typed'
  BY <1>15 DEF Deliver, Buffer
<1>16. ASSUME NEW w \in Workers, IncrCount(w) PROVE Typed'
  BY <1>16 DEF IncrCount
<1>17. ASSUME NEW w \in Workers, NotifyEnd(w) PROVE Typed'
  BY <1>17 DEF NotifyEnd
<1>18. ASSUME NEW w \in Workers, MonitorJoin(w) PROVE Typed'
  BY <1>18 DEF MonitorJoin
<1>19. ASSUME NEW w \in Workers, MonitorPanic(w) PROVE Typed'
  BY <1>19 DEF MonitorPanic
<1>20. ASSUME NEW w \in Workers, MonitorNotify(w) PROVE Typed'
  BY <1>20 DEF MonitorNotify
<1>21. ASSUME MainGenOk PROVE Typed'
  BY <1>21 DEF MainGenOk
<1>22. ASSUME MainGenFail PROVE Typed'
  BY <1>22 DEF MainGenFail
<1>23. ASSUME MainLock PROVE Typed'
  BY <1>23 DEF MainLock, Phase, Label
<1>24. ASSUME MainLeave PROVE Typed'
  BY <1>24 DEF MainLeave, Phase, Label
<1>25. ASSUME MainDecideToWait PROVE Typed'
  BY <1>25 DEF MainDecideToWait, Phase, Label
<1>26. ASSUME MainWait PROVE Typed'
  BY <1>26 DEF MainWait, Phase, Label
<1>27. ASSUME MainWake PROVE Typed'
  BY <1>27 DEF MainWake, Phase, Label
<1>28. ASSUME MainSendStop PROVE Typed'
  BY <1>28 DEF MainSendStop
<1>29. ASSUME MainSentStops PROVE Typed'
  BY <1>29 DEF MainSentStops
<1>30. ASSUME MainJoin PROVE Typed'
  BY <1>30 DEF MainJoin
<1>31. ASSUME MainPush PROVE Typed'
  BY <1>31 DEF MainPush, Buffer
<1>32. ASSUME MainWritebackFail PROVE Typed'
  BY <1>32 DEF MainWritebackFail
<1>33. ASSUME UNCHANGED vars PROVE Typed'
  BY <1>33 DEF vars, poolVars, tableVars, genVars, outVars
<1>. QED
  BY <1>1, <1>2, <1>3, <1>4, <1>5, <1>6, <1>7, <1>8, <1>9, <1>10, <1>11, <1>12, <1>13, <1>14,
     <1>15, <1>16, <1>17, <1>18, <1>19, <1>20, <1>21, <1>22, <1>23, <1>24, <1>25, <1>26, <1>27,
     <1>28, <1>29, <1>30, <1>31, <1>32, <1>33 DEF Next, Calling, Working, Monitoring, Waiting,
     Terminated

\* A step keeps the threads where they belong, with the tasks they must have there.
LEMMA ControlStep == ASSUME Typed, Control, [Next]_vars PROVE Control'
<1>. USE PoolAssumption DEF Typed, Control, Threads, Labels, BusyLabels, IdleLabels,
                            WorkerLabels, StartLabels, FirstWait, Closing, MainLabels,
                            Goto, NotifyAll, poolVars, tableVars, genVars, outVars
<1>1. ASSUME NEW t \in Threads, NEW k \in Instances, CallHit(t, k) PROVE Control'
  BY <1>1 DEF CallHit
<1>2. ASSUME NEW t \in Threads, NEW k \in Instances, CallMiss(t, k) PROVE Control'
  BY <1>2 DEF CallMiss
<1>3. ASSUME NEW t \in Threads, InstanceExists(t) PROVE Control'
  BY <1>3 DEF InstanceExists
<1>4. ASSUME NEW t \in Threads, NewInstance(t) PROVE Control'
  BY <1>4 DEF NewInstance
<1>5. ASSUME NEW t \in Threads, AddTaskCount(t) PROVE Control'
  BY <1>5 DEF AddTaskCount
<1>6. ASSUME NEW t \in Threads, AddTaskSend(t) PROVE Control'
  BY <1>6 DEF AddTaskSend
<1>7. ASSUME NEW w \in Workers, RecvTask(w) PROVE Control'
  BY <1>7 DEF RecvTask
<1>8. ASSUME NEW w \in Workers, RecvStop(w) PROVE Control'
  BY <1>8 DEF RecvStop
<1>9. ASSUME NEW w \in Workers, GenOk(w) PROVE Control'
  BY <1>9 DEF GenOk
<1>10. ASSUME NEW w \in Workers, GenErr(w) PROVE Control'
  BY <1>10 DEF GenErr
<1>11. ASSUME NEW w \in Workers, GenPanic(w) PROVE Control'
  BY <1>11 DEF GenPanic
<1>12. ASSUME NEW w \in Workers, DecrCount(w) PROVE Control'
  BY <1>12 DEF DecrCount
<1>13. ASSUME NEW w \in Workers, NotifyTask(w) PROVE Control'
  BY <1>13 DEF NotifyTask
<1>14. ASSUME NEW w \in Workers, FinishPanic(w) PROVE Control'
  BY <1>14 DEF FinishPanic
<1>15. ASSUME NEW w \in Workers, Deliver(w) PROVE Control'
  BY <1>15 DEF Deliver, Buffer
<1>16. ASSUME NEW w \in Workers, IncrCount(w) PROVE Control'
  BY <1>16 DEF IncrCount
<1>17. ASSUME NEW w \in Workers, NotifyEnd(w) PROVE Control'
  BY <1>17 DEF NotifyEnd
<1>18. ASSUME NEW w \in Workers, MonitorJoin(w) PROVE Control'
  BY <1>18 DEF MonitorJoin
<1>19. ASSUME NEW w \in Workers, MonitorPanic(w) PROVE Control'
  BY <1>19 DEF MonitorPanic
<1>20. ASSUME NEW w \in Workers, MonitorNotify(w) PROVE Control'
  BY <1>20 DEF MonitorNotify
<1>21. ASSUME MainGenOk PROVE Control'
  BY <1>21 DEF MainGenOk
<1>22. ASSUME MainGenFail PROVE Control'
  BY <1>22 DEF MainGenFail
<1>23. ASSUME MainLock PROVE Control'
  BY <1>23 DEF MainLock, Phase, Label
<1>24. ASSUME MainLeave PROVE Control'
  BY <1>24 DEF MainLeave, Phase, Label
<1>25. ASSUME MainDecideToWait PROVE Control'
  BY <1>25 DEF MainDecideToWait, Phase, Label
<1>26. ASSUME MainWait PROVE Control'
  BY <1>26 DEF MainWait, Phase, Label
<1>27. ASSUME MainWake PROVE Control'
  BY <1>27 DEF MainWake, Phase, Label
<1>28. ASSUME MainSendStop PROVE Control'
  BY <1>28 DEF MainSendStop
<1>29. ASSUME MainSentStops PROVE Control'
  BY <1>29 DEF MainSentStops
<1>30. ASSUME MainJoin PROVE Control'
  BY <1>30 DEF MainJoin
<1>31. ASSUME MainPush PROVE Control'
  BY <1>31 DEF MainPush, Buffer
<1>32. ASSUME MainWritebackFail PROVE Control'
  BY <1>32 DEF MainWritebackFail
<1>33. ASSUME UNCHANGED vars PROVE Control'
  BY <1>33 DEF vars, poolVars, tableVars, genVars, outVars
<1>. QED
  BY <1>1, <1>2, <1>3, <1>4, <1>5, <1>6, <1>7, <1>8, <1>9, <1>10, <1>11, <1>12, <1>13, <1>14,
     <1>15, <1>16, <1>17, <1>18, <1>19, <1>20, <1>21, <1>22, <1>23, <1>24, <1>25, <1>26, <1>27,
     <1>28, <1>29, <1>30, <1>31, <1>32, <1>33 DEF Next, Calling, Working, Monitoring, Waiting,
     Terminated

\* Only NewInstance makes a new instance, and it inserts the symbol in the same step.
LEMMA KnownStep == ASSUME Typed, Control, Known, [Next]_vars PROVE Known'
<1>. USE PoolAssumption DEF Typed, Known, Threads, Goto, NotifyAll, Creating,
                            poolVars, tableVars, genVars, outVars
<1>1. ASSUME NEW t \in Threads, NEW k \in Instances, CallHit(t, k) PROVE Known'
  BY <1>1 DEF CallHit
<1>2. ASSUME NEW t \in Threads, NEW k \in Instances, CallMiss(t, k) PROVE Known'
  BY <1>2 DEF CallMiss
<1>3. ASSUME NEW t \in Threads, InstanceExists(t) PROVE Known'
  BY <1>3 DEF InstanceExists
<1>4. ASSUME NEW t \in Threads, NewInstance(t) PROVE Known'
  BY <1>4 DEF NewInstance
<1>5. ASSUME NEW t \in Threads, AddTaskCount(t) PROVE Known'
  BY <1>5 DEF AddTaskCount
<1>6. ASSUME NEW t \in Threads, AddTaskSend(t) PROVE Known'
  BY <1>6 DEF AddTaskSend
<1>7. ASSUME NEW w \in Workers, RecvTask(w) PROVE Known'
  BY <1>7 DEF RecvTask
<1>8. ASSUME NEW w \in Workers, RecvStop(w) PROVE Known'
  BY <1>8 DEF RecvStop
<1>9. ASSUME NEW w \in Workers, GenOk(w) PROVE Known'
  BY <1>9 DEF GenOk, Control, BusyLabels
<1>10. ASSUME NEW w \in Workers, GenErr(w) PROVE Known'
  BY <1>10 DEF GenErr
<1>11. ASSUME NEW w \in Workers, GenPanic(w) PROVE Known'
  BY <1>11 DEF GenPanic
<1>12. ASSUME NEW w \in Workers, DecrCount(w) PROVE Known'
  BY <1>12 DEF DecrCount
<1>13. ASSUME NEW w \in Workers, NotifyTask(w) PROVE Known'
  BY <1>13 DEF NotifyTask
<1>14. ASSUME NEW w \in Workers, FinishPanic(w) PROVE Known'
  BY <1>14 DEF FinishPanic
<1>15. ASSUME NEW w \in Workers, Deliver(w) PROVE Known'
  BY <1>15 DEF Deliver, Buffer
<1>16. ASSUME NEW w \in Workers, IncrCount(w) PROVE Known'
  BY <1>16 DEF IncrCount
<1>17. ASSUME NEW w \in Workers, NotifyEnd(w) PROVE Known'
  BY <1>17 DEF NotifyEnd
<1>18. ASSUME NEW w \in Workers, MonitorJoin(w) PROVE Known'
  BY <1>18 DEF MonitorJoin
<1>19. ASSUME NEW w \in Workers, MonitorPanic(w) PROVE Known'
  BY <1>19 DEF MonitorPanic
<1>20. ASSUME NEW w \in Workers, MonitorNotify(w) PROVE Known'
  BY <1>20 DEF MonitorNotify
<1>21. ASSUME MainGenOk PROVE Known'
  BY <1>21 DEF MainGenOk
<1>22. ASSUME MainGenFail PROVE Known'
  BY <1>22 DEF MainGenFail
<1>23. ASSUME MainLock PROVE Known'
  BY <1>23 DEF MainLock, Phase, Label
<1>24. ASSUME MainLeave PROVE Known'
  BY <1>24 DEF MainLeave, Phase, Label
<1>25. ASSUME MainDecideToWait PROVE Known'
  BY <1>25 DEF MainDecideToWait, Phase, Label
<1>26. ASSUME MainWait PROVE Known'
  BY <1>26 DEF MainWait, Phase, Label
<1>27. ASSUME MainWake PROVE Known'
  BY <1>27 DEF MainWake, Phase, Label
<1>28. ASSUME MainSendStop PROVE Known'
  BY <1>28 DEF MainSendStop
<1>29. ASSUME MainSentStops PROVE Known'
  BY <1>29 DEF MainSentStops
<1>30. ASSUME MainJoin PROVE Known'
  BY <1>30 DEF MainJoin
<1>31. ASSUME MainPush PROVE Known'
  BY <1>31 DEF MainPush, Buffer
<1>32. ASSUME MainWritebackFail PROVE Known'
  BY <1>32 DEF MainWritebackFail
<1>33. ASSUME UNCHANGED vars PROVE Known'
  BY <1>33 DEF vars, poolVars, tableVars, genVars, outVars
<1>. QED
  BY <1>1, <1>2, <1>3, <1>4, <1>5, <1>6, <1>7, <1>8, <1>9, <1>10, <1>11, <1>12, <1>13, <1>14,
     <1>15, <1>16, <1>17, <1>18, <1>19, <1>20, <1>21, <1>22, <1>23, <1>24, <1>25, <1>26, <1>27,
     <1>28, <1>29, <1>30, <1>31, <1>32, <1>33 DEF Next, Calling, Working, Monitoring, Waiting,
     Terminated

\* An instance moves from place to place.  NewInstance finds it nowhere, because everything
\* that is somewhere has a symbol.
LEMMA UniqueStep == ASSUME Typed, Control, Known, Unique, [Next]_vars PROVE Unique'
<1>. USE PoolAssumption DEF Typed, Unique, OneCreator, OneInQueue, OneGenerator, OneModule,
                            CreatedIsNew, QueuedIsNew, GeneratedHere, Threads, Goto,
                            NotifyAll, Creating, poolVars, tableVars, genVars, outVars
<1>1. ASSUME NEW t \in Threads, NEW k \in Instances, CallHit(t, k) PROVE Unique'
  BY <1>1 DEF CallHit
<1>2. ASSUME NEW t \in Threads, NEW k \in Instances, CallMiss(t, k) PROVE Unique'
  BY <1>2 DEF CallMiss
<1>3. ASSUME NEW t \in Threads, InstanceExists(t) PROVE Unique'
  BY <1>3 DEF InstanceExists
<1>4. ASSUME NEW t \in Threads, NewInstance(t) PROVE Unique'
  BY <1>4 DEF NewInstance, Known
<1>5. ASSUME NEW t \in Threads, AddTaskCount(t) PROVE Unique'
  BY <1>5 DEF AddTaskCount
<1>6. ASSUME NEW t \in Threads, AddTaskSend(t) PROVE Unique'
  BY <1>6 DEF AddTaskSend
<1>7. ASSUME NEW w \in Workers, RecvTask(w) PROVE Unique'
  BY <1>7 DEF RecvTask
<1>8. ASSUME NEW w \in Workers, RecvStop(w) PROVE Unique'
  BY <1>8 DEF RecvStop
<1>9. ASSUME NEW w \in Workers, GenOk(w) PROVE Unique'
  BY <1>9 DEF GenOk, Control, BusyLabels
<1>10. ASSUME NEW w \in Workers, GenErr(w) PROVE Unique'
  BY <1>10 DEF GenErr
<1>11. ASSUME NEW w \in Workers, GenPanic(w) PROVE Unique'
  BY <1>11 DEF GenPanic
<1>12. ASSUME NEW w \in Workers, DecrCount(w) PROVE Unique'
  BY <1>12 DEF DecrCount
<1>13. ASSUME NEW w \in Workers, NotifyTask(w) PROVE Unique'
  BY <1>13 DEF NotifyTask
<1>14. ASSUME NEW w \in Workers, FinishPanic(w) PROVE Unique'
  BY <1>14 DEF FinishPanic
<1>15. ASSUME NEW w \in Workers, Deliver(w) PROVE Unique'
  BY <1>15 DEF Deliver, Buffer
<1>16. ASSUME NEW w \in Workers, IncrCount(w) PROVE Unique'
  BY <1>16 DEF IncrCount
<1>17. ASSUME NEW w \in Workers, NotifyEnd(w) PROVE Unique'
  BY <1>17 DEF NotifyEnd
<1>18. ASSUME NEW w \in Workers, MonitorJoin(w) PROVE Unique'
  BY <1>18 DEF MonitorJoin
<1>19. ASSUME NEW w \in Workers, MonitorPanic(w) PROVE Unique'
  BY <1>19 DEF MonitorPanic
<1>20. ASSUME NEW w \in Workers, MonitorNotify(w) PROVE Unique'
  BY <1>20 DEF MonitorNotify
<1>21. ASSUME MainGenOk PROVE Unique'
  BY <1>21 DEF MainGenOk
<1>22. ASSUME MainGenFail PROVE Unique'
  BY <1>22 DEF MainGenFail
<1>23. ASSUME MainLock PROVE Unique'
  BY <1>23 DEF MainLock, Phase, Label
<1>24. ASSUME MainLeave PROVE Unique'
  BY <1>24 DEF MainLeave, Phase, Label
<1>25. ASSUME MainDecideToWait PROVE Unique'
  BY <1>25 DEF MainDecideToWait, Phase, Label
<1>26. ASSUME MainWait PROVE Unique'
  BY <1>26 DEF MainWait, Phase, Label
<1>27. ASSUME MainWake PROVE Unique'
  BY <1>27 DEF MainWake, Phase, Label
<1>28. ASSUME MainSendStop PROVE Unique'
  BY <1>28 DEF MainSendStop
<1>29. ASSUME MainSentStops PROVE Unique'
  BY <1>29 DEF MainSentStops
<1>30. ASSUME MainJoin PROVE Unique'
  BY <1>30 DEF MainJoin
<1>31. ASSUME MainPush PROVE Unique'
  BY <1>31 DEF MainPush, Buffer
<1>32. ASSUME MainWritebackFail PROVE Unique'
  BY <1>32 DEF MainWritebackFail
<1>33. ASSUME UNCHANGED vars PROVE Unique'
  BY <1>33 DEF vars, poolVars, tableVars, genVars, outVars
<1>. QED
  BY <1>1, <1>2, <1>3, <1>4, <1>5, <1>6, <1>7, <1>8, <1>9, <1>10, <1>11, <1>12, <1>13, <1>14,
     <1>15, <1>16, <1>17, <1>18, <1>19, <1>20, <1>21, <1>22, <1>23, <1>24, <1>25, <1>26, <1>27,
     <1>28, <1>29, <1>30, <1>31, <1>32, <1>33 DEF Next, Calling, Working, Monitoring, Waiting,
     Terminated

-----------------------------------------------------------------------------
(* The count                                                               *)

Generated == {task[w] : w \in {v \in Workers : task[v] # NoTask}}
Sending == {callee[t] : t \in {u \in Threads : pc[u] = "send"}}

\* The outstanding instances and the finished workers are finite sets.
LEMMA CountedFinite ==
  ASSUME Typed
  PROVE  /\ Outstanding \subseteq Instances /\ IsFiniteSet(Outstanding)
         /\ Finished \subseteq Workers /\ IsFiniteSet(Finished)
<1>1. Outstanding \subseteq Instances
  BY PoolAssumption DEF Typed, Outstanding, QueuedTasks, Threads
<1>2. Finished \subseteq Workers
  BY DEF Finished
<1>. QED
  BY <1>1, <1>2, FS_Subset, PoolAssumption

\* Sending on the channel adds the element to the queued tasks, unless it is the None.
LEMMA QueueAppend ==
  ASSUME Typed, NEW e \in Instances \cup {Stop}, channel' = Append(channel, e)
  PROVE  QueuedTasks' = QueuedTasks \cup ({e} \ {Stop})
<1>. DEFINE n == Len(channel)
<1>1. /\ n \in Nat /\ DOMAIN channel = 1..n /\ DOMAIN channel' = 1..(n + 1)
      /\ channel'[n + 1] = e /\ \A i \in 1..n : channel'[i] = channel[i]
  BY DEF Typed
<1>2. {channel'[i] : i \in 1..(n + 1)} = {channel[i] : i \in 1..n} \cup {e}
  BY <1>1
<1>. QED
  BY <1>1, <1>2 DEF QueuedTasks

\* Receiving takes the head away from the queued tasks.
LEMMA QueueTail ==
  ASSUME Typed, channel # <<>>, channel' = Tail(channel)
  PROVE  QueuedTasks = QueuedTasks' \cup ({Head(channel)} \ {Stop})
<1>. DEFINE n == Len(channel)
<1>1. /\ n \in Nat \ {0} /\ DOMAIN channel = 1..n /\ DOMAIN channel' = 1..(n - 1)
      /\ channel[1] = Head(channel) /\ \A i \in 1..(n - 1) : channel'[i] = channel[i + 1]
  BY DEF Typed
<1>2. {channel[i] : i \in 1..n} = {channel'[i] : i \in 1..(n - 1)} \cup {channel[1]}
  <2>1. ASSUME NEW i \in 1..n PROVE i = 1 \/ \E j \in 1..(n - 1) : channel'[j] = channel[i]
    <3>1. CASE i # 1
      <4>1. i - 1 \in 1..(n - 1) /\ channel'[i - 1] = channel[i]
        BY <1>1, <2>1, <3>1
      <4>. QED
        BY <4>1
    <3>. QED
      BY <3>1
  <2>2. ASSUME NEW i \in 1..(n - 1) PROVE \E j \in 1..n : channel[j] = channel'[i]
    BY <1>1
  <2>3. {channel[i] : i \in 1..n} \subseteq {channel'[i] : i \in 1..(n - 1)} \cup {channel[1]}
    BY <2>1
  <2>4. {channel'[i] : i \in 1..(n - 1)} \subseteq {channel[i] : i \in 1..n}
    BY <2>2
  <2>5. channel[1] \in {channel[i] : i \in 1..n}
    BY <1>1
  <2>. QED
    BY <2>3, <2>4, <2>5
<1>. QED
  BY <1>1, <1>2 DEF QueuedTasks

\* The second statement of add_task moves the instance from the sender to the queue.
LEMMA SendKeepsOutstanding ==
  ASSUME Typed, NEW t \in Threads, AddTaskSend(t)
  PROVE  Outstanding' = Outstanding
<1>1. QueuedTasks' = QueuedTasks \cup {callee[t]}
  BY QueueAppend, PoolAssumption DEF AddTaskSend, Typed
<1>2. Generated' = Generated
  BY DEF AddTaskSend, Generated
<1>3. Sending = Sending' \cup {callee[t]}
  BY PoolAssumption DEF AddTaskSend, Sending, Typed, Goto, Threads
<1>. QED
  BY <1>1, <1>2, <1>3 DEF Outstanding, Generated, Sending

\* recv moves it from the queue to a worker that had no task.
LEMMA RecvKeepsOutstanding ==
  ASSUME Typed, Control, NEW w \in Workers, RecvTask(w)
  PROVE  Outstanding' = Outstanding
<1>1. QueuedTasks = QueuedTasks' \cup {Head(channel)}
  BY QueueTail, PoolAssumption DEF RecvTask, Typed
<1>2. Generated' = Generated \cup {Head(channel)}
  BY PoolAssumption DEF RecvTask, Generated, Typed, Control, Threads, IdleLabels
<1>3. Sending = Sending'
  BY PoolAssumption DEF RecvTask, Sending, Typed, Goto, Threads
<1>. QED
  BY <1>1, <1>2, <1>3 DEF Outstanding, Generated, Sending

\* The None is never outstanding, sent or received.
LEMMA StopKeepsOutstanding ==
  ASSUME Typed, MainSendStop \/ \E w \in Workers : RecvStop(w)
  PROVE  Outstanding' = Outstanding
<1>1. CASE MainSendStop
  <2>1. QueuedTasks' = QueuedTasks
    BY <1>1, QueueAppend DEF MainSendStop
  <2>. QED
    BY <1>1, <2>1 DEF MainSendStop, genVars, Outstanding
<1>2. ASSUME NEW w \in Workers, RecvStop(w) PROVE Outstanding' = Outstanding
  <2>1. QueuedTasks' = QueuedTasks
    BY <1>2, QueueTail DEF RecvStop
  <2>2. Generated' = Generated
    BY <1>2 DEF RecvStop, genVars, Generated
  <2>3. Sending' = Sending
    BY <1>2 DEF RecvStop, genVars, Sending, Typed, Goto, Threads
  <2>. QED
    BY <2>1, <2>2, <2>3 DEF Outstanding, Generated, Sending
<1>. QED
  BY <1>1, <1>2

Uncounted == Outstanding' = Outstanding /\ Finished' = Finished /\ task_count' = task_count

\* Only the three steps that change task_count change what it counts.
LEMMA UncountedStep ==
  ASSUME Typed, Control, [Next]_vars
  PROVE  \/ Uncounted
         \/ \E t \in Threads : AddTaskCount(t)
         \/ \E w \in Workers : DecrCount(w) \/ IncrCount(w)
<1>. DEFINE Counted ==
       (\E t \in Threads : AddTaskCount(t)) \/ (\E w \in Workers : DecrCount(w) \/ IncrCount(w))
<1>. USE PoolAssumption DEF Typed, Control, Uncounted, Outstanding, QueuedTasks, Finished, Threads,
                            BusyLabels, IdleLabels, WorkerLabels, StartLabels, FirstWait,
                            Closing, MainLabels, Goto, NotifyAll,
                            poolVars, tableVars, genVars, outVars
<1>1. ASSUME NEW t \in Threads, NEW k \in Instances, CallHit(t, k) PROVE Uncounted
  BY <1>1 DEF CallHit
<1>2. ASSUME NEW t \in Threads, NEW k \in Instances, CallMiss(t, k) PROVE Uncounted
  BY <1>2 DEF CallMiss
<1>3. ASSUME NEW t \in Threads, InstanceExists(t) PROVE Uncounted
  BY <1>3 DEF InstanceExists
<1>4. ASSUME NEW t \in Threads, NewInstance(t) PROVE Uncounted
  BY <1>4 DEF NewInstance
<1>5. ASSUME NEW t \in Threads, AddTaskCount(t) PROVE Counted
  BY <1>5
<1>6. ASSUME NEW t \in Threads, AddTaskSend(t) PROVE Uncounted
  <2>1. Outstanding' = Outstanding
    BY <1>6, SendKeepsOutstanding
  <2>2. Finished' = Finished /\ task_count' = task_count
    BY <1>6 DEF AddTaskSend
  <2>. QED
    BY <2>1, <2>2
<1>7. ASSUME NEW w \in Workers, RecvTask(w) PROVE Uncounted
  <2>1. Outstanding' = Outstanding
    BY <1>7, RecvKeepsOutstanding
  <2>2. Finished' = Finished /\ task_count' = task_count
    BY <1>7 DEF RecvTask
  <2>. QED
    BY <2>1, <2>2
<1>8. ASSUME NEW w \in Workers, RecvStop(w) PROVE Uncounted
  <2>1. Outstanding' = Outstanding
    BY <1>8, StopKeepsOutstanding
  <2>2. Finished' = Finished /\ task_count' = task_count
    BY <1>8 DEF RecvStop
  <2>. QED
    BY <2>1, <2>2
<1>9. ASSUME NEW w \in Workers, GenOk(w) PROVE Uncounted
  BY <1>9 DEF GenOk
<1>10. ASSUME NEW w \in Workers, GenErr(w) PROVE Uncounted
  BY <1>10 DEF GenErr
<1>11. ASSUME NEW w \in Workers, GenPanic(w) PROVE Uncounted
  BY <1>11 DEF GenPanic
<1>12. ASSUME NEW w \in Workers, DecrCount(w) PROVE Counted
  BY <1>12
<1>13. ASSUME NEW w \in Workers, NotifyTask(w) PROVE Uncounted
  BY <1>13 DEF NotifyTask
<1>14. ASSUME NEW w \in Workers, FinishPanic(w) PROVE Uncounted
  BY <1>14 DEF FinishPanic
<1>15. ASSUME NEW w \in Workers, Deliver(w) PROVE Uncounted
  BY <1>15 DEF Deliver, Buffer
<1>16. ASSUME NEW w \in Workers, IncrCount(w) PROVE Counted
  BY <1>16
<1>17. ASSUME NEW w \in Workers, NotifyEnd(w) PROVE Uncounted
  BY <1>17 DEF NotifyEnd
<1>18. ASSUME NEW w \in Workers, MonitorJoin(w) PROVE Uncounted
  BY <1>18 DEF MonitorJoin
<1>19. ASSUME NEW w \in Workers, MonitorPanic(w) PROVE Uncounted
  BY <1>19 DEF MonitorPanic
<1>20. ASSUME NEW w \in Workers, MonitorNotify(w) PROVE Uncounted
  BY <1>20 DEF MonitorNotify
<1>21. ASSUME MainGenOk PROVE Uncounted
  BY <1>21 DEF MainGenOk
<1>22. ASSUME MainGenFail PROVE Uncounted
  BY <1>22 DEF MainGenFail
<1>23. ASSUME MainLock PROVE Uncounted
  BY <1>23 DEF MainLock, Phase, Label
<1>24. ASSUME MainLeave PROVE Uncounted
  BY <1>24 DEF MainLeave, Phase, Label
<1>25. ASSUME MainDecideToWait PROVE Uncounted
  BY <1>25 DEF MainDecideToWait, Phase, Label
<1>26. ASSUME MainWait PROVE Uncounted
  BY <1>26 DEF MainWait, Phase, Label
<1>27. ASSUME MainWake PROVE Uncounted
  BY <1>27 DEF MainWake, Phase, Label
<1>28. ASSUME MainSendStop PROVE Uncounted
  <2>1. Outstanding' = Outstanding
    BY <1>28, StopKeepsOutstanding
  <2>2. Finished' = Finished /\ task_count' = task_count
    BY <1>28 DEF MainSendStop
  <2>. QED
    BY <2>1, <2>2
<1>29. ASSUME MainSentStops PROVE Uncounted
  BY <1>29 DEF MainSentStops
<1>30. ASSUME MainJoin PROVE Uncounted
  BY <1>30 DEF MainJoin
<1>31. ASSUME MainPush PROVE Uncounted
  BY <1>31 DEF MainPush, Buffer
<1>32. ASSUME MainWritebackFail PROVE Uncounted
  BY <1>32 DEF MainWritebackFail
<1>33. ASSUME UNCHANGED vars PROVE Uncounted
  BY <1>33 DEF vars, poolVars, tableVars, genVars, outVars
<1>. QED
  BY <1>1, <1>2, <1>3, <1>4, <1>5, <1>6, <1>7, <1>8, <1>9, <1>10, <1>11, <1>12, <1>13, <1>14,
     <1>15, <1>16, <1>17, <1>18, <1>19, <1>20, <1>21, <1>22, <1>23, <1>24, <1>25, <1>26, <1>27,
     <1>28, <1>29, <1>30, <1>31, <1>32, <1>33 DEF Next, Calling, Working, Monitoring, Waiting,
     Terminated

\* The count stays exact: each of its three steps adds or removes one element of a set that
\* did not, or did, contain it, because an instance is in one place.
LEMMA CountStep ==
  ASSUME Typed, Control, Unique, CountExact, [Next]_vars
  PROVE  CountExact'
<1>1. CASE Uncounted
  BY <1>1 DEF Uncounted, CountExact
<1>2. ASSUME NEW t \in Threads, AddTaskCount(t) PROVE CountExact'
  <2>1. callee[t] \notin Outstanding
    BY <1>2, PoolAssumption DEF AddTaskCount, Unique, CreatedIsNew, OneCreator, Creating,
       Outstanding, QueuedTasks, Threads
  <2>2. Outstanding' = Outstanding \cup {callee[t]}
    BY <1>2 DEF AddTaskCount, Typed, Goto, genVars, Outstanding, QueuedTasks
  <2>3. Finished' = Finished
    BY <1>2 DEF AddTaskCount, Typed, Goto, Finished, Threads
  <2>4. Cardinality(Outstanding') = Cardinality(Outstanding) + 1
    BY <2>1, <2>2, CountedFinite, FS_AddElement
  <2>5. task_count' = task_count + 1
    BY <1>2 DEF AddTaskCount
  <2>. QED
    BY <2>3, <2>4, <2>5, CountedFinite, FS_CardinalityType DEF CountExact
<1>3. ASSUME NEW w \in Workers, DecrCount(w) PROVE CountExact'
  <2>1. task[w] \in Outstanding
    BY <1>3, PoolAssumption DEF DecrCount, Control, BusyLabels, Outstanding
  <2>2. Outstanding' = Outstanding \ {task[w]}
    BY <1>3, PoolAssumption DEF DecrCount, Typed, Control, BusyLabels, Unique, OneGenerator,
       QueuedIsNew, CreatedIsNew, Creating, Goto, Outstanding, QueuedTasks, Threads
  <2>3. Finished' = Finished
    BY <1>3 DEF DecrCount, Typed, Goto, Finished, Threads
  <2>4. Cardinality(Outstanding') = Cardinality(Outstanding) - 1
    BY <2>1, <2>2, CountedFinite, FS_RemoveElement
  <2>5. task_count' = task_count - 1
    BY <1>3 DEF DecrCount
  <2>. QED
    BY <2>3, <2>4, <2>5, CountedFinite, FS_CardinalityType DEF CountExact
<1>4. ASSUME NEW w \in Workers, IncrCount(w) PROVE CountExact'
  <2>1. w \notin Finished
    BY <1>4 DEF IncrCount, Finished
  <2>2. Finished' = Finished \cup {w}
    BY <1>4 DEF IncrCount, Typed, Goto, Finished, Threads
  <2>3. Outstanding' = Outstanding
    BY <1>4 DEF IncrCount, Typed, Goto, genVars, Outstanding, QueuedTasks, Threads
  <2>4. Cardinality(Finished') = Cardinality(Finished) + 1
    BY <2>1, <2>2, CountedFinite, FS_AddElement
  <2>5. task_count' = task_count + 1
    BY <1>4 DEF IncrCount
  <2>. QED
    BY <2>3, <2>4, <2>5, CountedFinite, FS_CardinalityType DEF CountExact
<1>. QED
  BY <1>1, <1>2, <1>3, <1>4, UncountedStep

-----------------------------------------------------------------------------
(* The end of the compilation                                              *)

Closed == stops > 0 \/ pc[Main] \in Closing

\* The first wait is left with a count of zero, which is exact, or because of the flag, which
\* stays up.
LEMMA ClosedStep ==
  ASSUME Typed, Control, CountExact, [Next]_vars, Closed', ~panicked'
  PROVE  ~panicked /\ (Closed \/ (Outstanding = {} /\ Outstanding' = {}))
<1>. DEFINE Goal == ~panicked /\ (Closed \/ (Outstanding = {} /\ Outstanding' = {}))
<1>. USE PoolAssumption DEF Typed, Control, Closed, Threads, StartLabels, FirstWait, Closing,
                            MainLabels, Goto, NotifyAll, poolVars, tableVars, genVars, outVars
<1>1. ASSUME NEW t \in Threads, NEW k \in Instances, CallHit(t, k) PROVE Goal
  BY <1>1 DEF CallHit
<1>2. ASSUME NEW t \in Threads, NEW k \in Instances, CallMiss(t, k) PROVE Goal
  BY <1>2 DEF CallMiss
<1>3. ASSUME NEW t \in Threads, InstanceExists(t) PROVE Goal
  BY <1>3 DEF InstanceExists
<1>4. ASSUME NEW t \in Threads, NewInstance(t) PROVE Goal
  BY <1>4 DEF NewInstance
<1>5. ASSUME NEW t \in Threads, AddTaskCount(t) PROVE Goal
  BY <1>5 DEF AddTaskCount
<1>6. ASSUME NEW t \in Threads, AddTaskSend(t) PROVE Goal
  BY <1>6 DEF AddTaskSend
<1>7. ASSUME NEW w \in Workers, RecvTask(w) PROVE Goal
  BY <1>7 DEF RecvTask
<1>8. ASSUME NEW w \in Workers, RecvStop(w) PROVE Goal
  BY <1>8 DEF RecvStop
<1>9. ASSUME NEW w \in Workers, GenOk(w) PROVE Goal
  BY <1>9 DEF GenOk
<1>10. ASSUME NEW w \in Workers, GenErr(w) PROVE Goal
  BY <1>10 DEF GenErr
<1>11. ASSUME NEW w \in Workers, GenPanic(w) PROVE Goal
  BY <1>11 DEF GenPanic
<1>12. ASSUME NEW w \in Workers, DecrCount(w) PROVE Goal
  BY <1>12 DEF DecrCount
<1>13. ASSUME NEW w \in Workers, NotifyTask(w) PROVE Goal
  BY <1>13 DEF NotifyTask
<1>14. ASSUME NEW w \in Workers, FinishPanic(w) PROVE Goal
  BY <1>14 DEF FinishPanic
<1>15. ASSUME NEW w \in Workers, Deliver(w) PROVE Goal
  BY <1>15 DEF Deliver, Buffer
<1>16. ASSUME NEW w \in Workers, IncrCount(w) PROVE Goal
  BY <1>16 DEF IncrCount
<1>17. ASSUME NEW w \in Workers, NotifyEnd(w) PROVE Goal
  BY <1>17 DEF NotifyEnd
<1>18. ASSUME NEW w \in Workers, MonitorJoin(w) PROVE Goal
  BY <1>18 DEF MonitorJoin
<1>19. ASSUME NEW w \in Workers, MonitorPanic(w) PROVE Goal
  BY <1>19 DEF MonitorPanic
<1>20. ASSUME NEW w \in Workers, MonitorNotify(w) PROVE Goal
  BY <1>20 DEF MonitorNotify
<1>21. ASSUME MainGenOk PROVE Goal
  BY <1>21 DEF MainGenOk
<1>22. ASSUME MainGenFail PROVE Goal
  BY <1>22 DEF MainGenFail
<1>23. ASSUME MainLock PROVE Goal
  BY <1>23 DEF MainLock, Phase, Label
<1>24. ASSUME MainLeave PROVE Goal
  <2>1. CASE pc[Main] = "check2"
    BY <1>24, <2>1 DEF MainLeave
  <2>2. CASE pc[Main] = "check1"
    <3>1. task_count = 0
      BY <1>24, <2>2 DEF MainLeave, Phase, Target
    <3>2. Cardinality(Outstanding) = 0
      BY <3>1, CountedFinite, FS_CardinalityType DEF CountExact
    <3>3. Outstanding = {}
      BY <3>2, CountedFinite, FS_EmptySet
    <3>4. Outstanding' = Outstanding
      BY <1>24, <2>2 DEF MainLeave, Label, Outstanding, QueuedTasks
    <3>. QED
      BY <1>24, <3>3, <3>4 DEF MainLeave
  <2>. QED
    BY <1>24, <2>1, <2>2 DEF MainLeave
<1>25. ASSUME MainDecideToWait PROVE Goal
  BY <1>25 DEF MainDecideToWait, Phase, Label
<1>26. ASSUME MainWait PROVE Goal
  BY <1>26 DEF MainWait, Phase, Label
<1>27. ASSUME MainWake PROVE Goal
  BY <1>27 DEF MainWake, Phase, Label
<1>28. ASSUME MainSendStop PROVE Goal
  BY <1>28 DEF MainSendStop
<1>29. ASSUME MainSentStops PROVE Goal
  BY <1>29 DEF MainSentStops
<1>30. ASSUME MainJoin PROVE Goal
  BY <1>30 DEF MainJoin
<1>31. ASSUME MainPush PROVE Goal
  BY <1>31 DEF MainPush, Buffer
<1>32. ASSUME MainWritebackFail PROVE Goal
  BY <1>32 DEF MainWritebackFail
<1>33. ASSUME UNCHANGED vars PROVE Goal
  BY <1>33 DEF vars, poolVars, tableVars, genVars, outVars
<1>. QED
  BY <1>1, <1>2, <1>3, <1>4, <1>5, <1>6, <1>7, <1>8, <1>9, <1>10, <1>11, <1>12, <1>13, <1>14,
     <1>15, <1>16, <1>17, <1>18, <1>19, <1>20, <1>21, <1>22, <1>23, <1>24, <1>25, <1>26, <1>27,
     <1>28, <1>29, <1>30, <1>31, <1>32, <1>33 DEF Next, Calling, Working, Monitoring, Waiting,
     Terminated

\* With nothing outstanding no worker has a task, so no step can make one outstanding.
LEMMA QuietStep ==
  ASSUME Typed, Control, CountExact, Quiet, [Next]_vars
  PROVE  Quiet'
<1>. SUFFICES ASSUME Closed', ~panicked' PROVE Outstanding' = {}
  BY DEF Quiet, Closed
<1>1. CASE Outstanding = {} /\ Outstanding' = {}
  BY <1>1
<1>2. CASE ~panicked /\ Closed
  <2>1. Outstanding = {}
    BY <1>2 DEF Quiet, Closed
  <2>2. \A t \in Threads : ~AddTaskCount(t)
    <3>1. \A w \in Workers : task[w] = NoTask
      BY <2>1 DEF Outstanding
    <3>2. \A w \in Workers : ~AddTaskCount(w)
      BY <3>1, PoolAssumption DEF AddTaskCount, Control, BusyLabels
    <3>3. ~AddTaskCount(Main)
      BY <1>2 DEF AddTaskCount, Control, Closed, Closing, StartLabels, FirstWait, Typed
    <3>. QED
      BY <3>2, <3>3 DEF Threads
  <2>3. \A w \in Workers : ~DecrCount(w)
    BY <2>1, PoolAssumption DEF Outstanding, DecrCount, Control, BusyLabels
  <2>4. ASSUME NEW w \in Workers, IncrCount(w) PROVE Outstanding' = Outstanding
    BY <2>4 DEF IncrCount, Typed, Goto, genVars, Outstanding, QueuedTasks, Threads
  <2>. QED
    BY <2>1, <2>2, <2>3, <2>4, UncountedStep DEF Uncounted
<1>. QED
  BY <1>1, <1>2, ClosedStep

\* A failed worker never delivers, and its monitor raises the flag before the join ends.
LEMMA ReportedStep == ASSUME Typed, Control, Reported, [Next]_vars PROVE Reported'
<1>. USE PoolAssumption DEF Typed, Control, Reported, Threads, BusyLabels, IdleLabels,
                            WorkerLabels, StartLabels, FirstWait, Closing, MainLabels,
                            Goto, NotifyAll, poolVars, tableVars, genVars, outVars
<1>1. ASSUME NEW t \in Threads, NEW k \in Instances, CallHit(t, k) PROVE Reported'
  BY <1>1 DEF CallHit
<1>2. ASSUME NEW t \in Threads, NEW k \in Instances, CallMiss(t, k) PROVE Reported'
  BY <1>2 DEF CallMiss
<1>3. ASSUME NEW t \in Threads, InstanceExists(t) PROVE Reported'
  BY <1>3 DEF InstanceExists
<1>4. ASSUME NEW t \in Threads, NewInstance(t) PROVE Reported'
  BY <1>4 DEF NewInstance
<1>5. ASSUME NEW t \in Threads, AddTaskCount(t) PROVE Reported'
  BY <1>5 DEF AddTaskCount
<1>6. ASSUME NEW t \in Threads, AddTaskSend(t) PROVE Reported'
  BY <1>6 DEF AddTaskSend
<1>7. ASSUME NEW w \in Workers, RecvTask(w) PROVE Reported'
  BY <1>7 DEF RecvTask
<1>8. ASSUME NEW w \in Workers, RecvStop(w) PROVE Reported'
  BY <1>8 DEF RecvStop
<1>9. ASSUME NEW w \in Workers, GenOk(w) PROVE Reported'
  BY <1>9 DEF GenOk
<1>10. ASSUME NEW w \in Workers, GenErr(w) PROVE Reported'
  BY <1>10 DEF GenErr
<1>11. ASSUME NEW w \in Workers, GenPanic(w) PROVE Reported'
  BY <1>11 DEF GenPanic
<1>12. ASSUME NEW w \in Workers, DecrCount(w) PROVE Reported'
  BY <1>12 DEF DecrCount
<1>13. ASSUME NEW w \in Workers, NotifyTask(w) PROVE Reported'
  BY <1>13 DEF NotifyTask
<1>14. ASSUME NEW w \in Workers, FinishPanic(w) PROVE Reported'
  BY <1>14 DEF FinishPanic
<1>15. ASSUME NEW w \in Workers, Deliver(w) PROVE Reported'
  BY <1>15 DEF Deliver, Buffer
<1>16. ASSUME NEW w \in Workers, IncrCount(w) PROVE Reported'
  BY <1>16 DEF IncrCount
<1>17. ASSUME NEW w \in Workers, NotifyEnd(w) PROVE Reported'
  BY <1>17 DEF NotifyEnd
<1>18. ASSUME NEW w \in Workers, MonitorJoin(w) PROVE Reported'
  BY <1>18 DEF MonitorJoin
<1>19. ASSUME NEW w \in Workers, MonitorPanic(w) PROVE Reported'
  BY <1>19 DEF MonitorPanic
<1>20. ASSUME NEW w \in Workers, MonitorNotify(w) PROVE Reported'
  BY <1>20 DEF MonitorNotify
<1>21. ASSUME MainGenOk PROVE Reported'
  BY <1>21 DEF MainGenOk
<1>22. ASSUME MainGenFail PROVE Reported'
  BY <1>22 DEF MainGenFail
<1>23. ASSUME MainLock PROVE Reported'
  BY <1>23 DEF MainLock, Phase, Label
<1>24. ASSUME MainLeave PROVE Reported'
  BY <1>24 DEF MainLeave, Phase, Label
<1>25. ASSUME MainDecideToWait PROVE Reported'
  BY <1>25 DEF MainDecideToWait, Phase, Label
<1>26. ASSUME MainWait PROVE Reported'
  BY <1>26 DEF MainWait, Phase, Label
<1>27. ASSUME MainWake PROVE Reported'
  BY <1>27 DEF MainWake, Phase, Label
<1>28. ASSUME MainSendStop PROVE Reported'
  BY <1>28 DEF MainSendStop
<1>29. ASSUME MainSentStops PROVE Reported'
  BY <1>29 DEF MainSentStops
<1>30. ASSUME MainJoin PROVE Reported'
  BY <1>30 DEF MainJoin
<1>31. ASSUME MainPush PROVE Reported'
  BY <1>31 DEF MainPush, Buffer
<1>32. ASSUME MainWritebackFail PROVE Reported'
  BY <1>32 DEF MainWritebackFail
<1>33. ASSUME UNCHANGED vars PROVE Reported'
  BY <1>33 DEF vars, poolVars, tableVars, genVars, outVars
<1>. QED
  BY <1>1, <1>2, <1>3, <1>4, <1>5, <1>6, <1>7, <1>8, <1>9, <1>10, <1>11, <1>12, <1>13, <1>14,
     <1>15, <1>16, <1>17, <1>18, <1>19, <1>20, <1>21, <1>22, <1>23, <1>24, <1>25, <1>26, <1>27,
     <1>28, <1>29, <1>30, <1>31, <1>32, <1>33 DEF Next, Calling, Working, Monitoring, Waiting,
     Terminated

-----------------------------------------------------------------------------
(* The theorems                                                            *)

\* IInv is an inductive invariant of the pool.
THEOREM Invariance == Spec => []IInv
<1>1. IInv /\ [Next]_vars => IInv'
  <2>. SUFFICES ASSUME IInv, [Next]_vars PROVE IInv'
    OBVIOUS
  <2>1. Typed' /\ Control'
    BY TypedStep, ControlStep DEF IInv
  <2>2. Known' /\ Unique'
    BY KnownStep, UniqueStep DEF IInv
  <2>3. CountExact'
    BY CountStep DEF IInv
  <2>4. task_count' \in Int
    BY <2>1, <2>3, CountedFinite, FS_CardinalityType DEF CountExact
  <2>5. Quiet' /\ Reported'
    BY QuietStep, ReportedStep DEF IInv
  <2>. QED
    BY <2>1, <2>2, <2>3, <2>4, <2>5 DEF IInv
<1>. QED
  BY IInvInit, <1>1, PTL DEF Spec

\* The variables keep their types, and the usize task_count never goes below zero: the
\* subtraction in worker_thread cannot panic or wrap.
THEOREM TypeCorrect == Spec => []TypeOK
<1>1. IInv => TypeOK
  BY CountedFinite, FS_CardinalityType DEF IInv, TypeOK, CountExact
<1>. QED
  BY Invariance, <1>1, PTL

\* task_count is exactly the number of tasks not yet generated plus the finished workers.
THEOREM CountCorrect == Spec => []CountExact
<1>1. IInv => CountExact
  BY DEF IInv
<1>. QED
  BY Invariance, <1>1, PTL

\* No instance is ever in two places: no symbol is generated twice.
THEOREM NoDuplicateInstance == Spec => []InstanceOnce
<1>1. IInv => InstanceOnce
  <2>. SUFFICES ASSUME IInv, NEW k \in Instances, NEW p \in Places(k), NEW q \in Places(k)
               PROVE p = q
    BY DEF InstanceOnce
  <2>. DEFINE Queue == {<<"queue", i>> : i \in {j \in DOMAIN channel : channel[j] = k}}
              Task == {<<"thread", t>> : t \in {u \in Threads : task[u] = k}}
              Module == {<<"module", w>> :
                            w \in {v \in Workers : k \in module[v] /\ task[v] # k}}
  <2>1. p \in Queue \cup Task \cup Module /\ q \in Queue \cup Task \cup Module
    BY DEF Places
  <2>. USE PoolAssumption DEF IInv, Unique
  <2>2. \A i, j \in DOMAIN channel : channel[i] = k /\ channel[j] = k => i = j
    BY DEF OneInQueue
  <2>3. \A t, u \in Threads : task[t] = k /\ task[u] = k => t = u
    BY DEF OneGenerator
  <2>4. \A v, w \in Workers : k \in module[v] /\ k \in module[w] => v = w
    BY DEF OneModule
  <2>5. \A i \in DOMAIN channel : channel[i] = k =>
           (\A u \in Threads : task[u] # k) /\ (\A w \in Workers : k \notin module[w])
    BY DEF QueuedIsNew
  <2>6. \A t \in Threads, w \in Workers : task[t] = k /\ k \in module[w] => t = w
    BY DEF GeneratedHere
  <2>7. CASE p \in Queue
    BY <2>1, <2>2, <2>5, <2>7
  <2>8. CASE p \in Task
    BY <2>1, <2>3, <2>5, <2>6, <2>8
  <2>9. CASE p \in Module
    BY <2>1, <2>4, <2>5, <2>6, <2>9
  <2>. QED
    BY <2>1, <2>7, <2>8, <2>9
<1>. QED
  BY Invariance, <1>1, PTL

\* No task is ever queued behind a None while no worker panicked.
THEOREM StopIsLast == Spec => []NothingBehindStop
<1>1. IInv => NothingBehindStop
  BY DEF IInv, Quiet, NothingBehindStop
<1>. QED
  BY Invariance, <1>1, PTL

\* No failure of a worker ends as a success, and no success is reported as a failure.
THEOREM FailuresReported == Spec => []FailureReported
<1>1. IInv => FailureReported
  BY PoolAssumption DEF IInv, Reported, FailureReported, Control, WorkerLabels, BusyLabels,
     IdleLabels
<1>. QED
  BY Invariance, <1>1, PTL

\* Once the None are being sent, no instance is created any more.
THEOREM NoLateRequest == Spec => RequestsClosed
<1>1. IInv /\ [Next]_vars => [stops > 0 /\ ~panicked => UNCHANGED instance_to_symbol]_vars
  <2>. SUFFICES ASSUME IInv, [Next]_vars, stops > 0, ~panicked
               PROVE UNCHANGED instance_to_symbol
    OBVIOUS
  <2>1. \A w \in Workers : task[w] = NoTask
    BY DEF IInv, Quiet, Outstanding
  <2>2. \A w \in Workers : ~NewInstance(w)
    BY <2>1, PoolAssumption DEF NewInstance, IInv, Control, BusyLabels
  <2>3. ~NewInstance(Main)
    BY DEF NewInstance, IInv, Control, StartLabels, Typed
  <2>4. \A t \in Threads : ~NewInstance(t)
    BY <2>2, <2>3 DEF Threads
  <2>. QED
    BY <2>4 DEF Next, Calling, Working, Monitoring, Waiting, Terminated, vars, tableVars,
       CallHit, CallMiss, InstanceExists, AddTaskCount, AddTaskSend, RecvTask, RecvStop,
       GenOk, GenErr, GenPanic, DecrCount, NotifyTask, FinishPanic, Deliver, IncrCount,
       NotifyEnd, MonitorJoin, MonitorPanic, MonitorNotify, MainGenOk, MainGenFail, MainLock,
       MainLeave, MainDecideToWait, MainWait, MainWake, MainSendStop, MainSentStops,
       MainJoin, MainPush, MainWritebackFail
<1>. QED
  BY Invariance, <1>1, PTL DEF Spec, RequestsClosed

-----------------------------------------------------------------------------
(* What the pool delivers.  The invariant so far says where an instance    *)
(* may be.  The parts added here say that it is somewhere until something  *)
(* fails, that what it calls has a symbol once its body was generated, and *)
(* which buffer carries it.  From them follow that the linker gets the     *)
(* whole program, and that the pool implements Compilation.                *)

\* Calls are looked up only in the body of the task of the thread that looks.
LEMMA BodyStep == ASSUME Typed, Control, BodyOfTask, [Next]_vars PROVE BodyOfTask'
<1>. USE PoolAssumption DEF Typed, Control, Threads, BusyLabels, IdleLabels, WorkerLabels, Goto,
                            NotifyAll, poolVars, tableVars, genVars, outVars, BodyOfTask, RootBuilt
<1>1. ASSUME NEW t \in Threads, NEW k \in Instances, CallHit(t, k) PROVE BodyOfTask'
  BY <1>1 DEF CallHit
<1>2. ASSUME NEW t \in Threads, NEW k \in Instances, CallMiss(t, k) PROVE BodyOfTask'
  BY <1>2 DEF CallMiss
<1>3. ASSUME NEW t \in Threads, InstanceExists(t) PROVE BodyOfTask'
  BY <1>3 DEF InstanceExists
<1>4. ASSUME NEW t \in Threads, NewInstance(t) PROVE BodyOfTask'
  BY <1>4 DEF NewInstance
<1>5. ASSUME NEW t \in Threads, AddTaskCount(t) PROVE BodyOfTask'
  BY <1>5 DEF AddTaskCount
<1>6. ASSUME NEW t \in Threads, AddTaskSend(t) PROVE BodyOfTask'
  BY <1>6 DEF AddTaskSend
<1>7. ASSUME NEW w \in Workers, RecvTask(w) PROVE BodyOfTask'
  BY <1>7 DEF RecvTask
<1>8. ASSUME NEW w \in Workers, RecvStop(w) PROVE BodyOfTask'
  BY <1>8 DEF RecvStop
<1>9. ASSUME NEW w \in Workers, GenOk(w) PROVE BodyOfTask'
  BY <1>9 DEF GenOk
<1>10. ASSUME NEW w \in Workers, GenErr(w) PROVE BodyOfTask'
  BY <1>10 DEF GenErr
<1>11. ASSUME NEW w \in Workers, GenPanic(w) PROVE BodyOfTask'
  BY <1>11 DEF GenPanic
<1>12. ASSUME NEW w \in Workers, DecrCount(w) PROVE BodyOfTask'
  BY <1>12 DEF DecrCount
<1>13. ASSUME NEW w \in Workers, NotifyTask(w) PROVE BodyOfTask'
  BY <1>13 DEF NotifyTask
<1>14. ASSUME NEW w \in Workers, FinishPanic(w) PROVE BodyOfTask'
  BY <1>14 DEF FinishPanic
<1>15. ASSUME NEW w \in Workers, Deliver(w) PROVE BodyOfTask'
  BY <1>15 DEF Deliver, Buffer
<1>16. ASSUME NEW w \in Workers, IncrCount(w) PROVE BodyOfTask'
  BY <1>16 DEF IncrCount
<1>17. ASSUME NEW w \in Workers, NotifyEnd(w) PROVE BodyOfTask'
  BY <1>17 DEF NotifyEnd
<1>18. ASSUME NEW w \in Workers, MonitorJoin(w) PROVE BodyOfTask'
  BY <1>18 DEF MonitorJoin
<1>19. ASSUME NEW w \in Workers, MonitorPanic(w) PROVE BodyOfTask'
  BY <1>19 DEF MonitorPanic
<1>20. ASSUME NEW w \in Workers, MonitorNotify(w) PROVE BodyOfTask'
  BY <1>20 DEF MonitorNotify
<1>21. ASSUME MainGenOk PROVE BodyOfTask'
  BY <1>21 DEF MainGenOk
<1>22. ASSUME MainGenFail PROVE BodyOfTask'
  BY <1>22 DEF MainGenFail
<1>23. ASSUME MainLock PROVE BodyOfTask'
  BY <1>23 DEF MainLock, Phase, Label
<1>24. ASSUME MainLeave PROVE BodyOfTask'
  BY <1>24 DEF MainLeave, Phase, Label
<1>25. ASSUME MainDecideToWait PROVE BodyOfTask'
  BY <1>25 DEF MainDecideToWait, Phase, Label
<1>26. ASSUME MainWait PROVE BodyOfTask'
  BY <1>26 DEF MainWait, Phase, Label
<1>27. ASSUME MainWake PROVE BodyOfTask'
  BY <1>27 DEF MainWake, Phase, Label
<1>28. ASSUME MainSendStop PROVE BodyOfTask'
  BY <1>28 DEF MainSendStop
<1>29. ASSUME MainSentStops PROVE BodyOfTask'
  BY <1>29 DEF MainSentStops
<1>30. ASSUME MainJoin PROVE BodyOfTask'
  BY <1>30 DEF MainJoin
<1>31. ASSUME MainPush PROVE BodyOfTask'
  BY <1>31 DEF MainPush, Buffer
<1>32. ASSUME MainWritebackFail PROVE BodyOfTask'
  BY <1>32 DEF MainWritebackFail
<1>33. ASSUME UNCHANGED vars PROVE BodyOfTask'
  BY <1>33 DEF vars, poolVars, tableVars, genVars, outVars
<1>. QED
  BY <1>1, <1>2, <1>3, <1>4, <1>5, <1>6, <1>7, <1>8, <1>9, <1>10, <1>11, <1>12, <1>13, <1>14,
     <1>15, <1>16, <1>17, <1>18, <1>19, <1>20, <1>21, <1>22, <1>23, <1>24, <1>25, <1>26, <1>27,
     <1>28, <1>29, <1>30, <1>31, <1>32, <1>33 DEF Next, Calling, Working, Monitoring, Waiting,
     Terminated

\* A call leaves Unresolved when its instance has a symbol; a body is generated when none is left.
LEMMA CallsKnownStep ==
  ASSUME Typed, Control, BodyOfTask, CallsKnown, [Next]_vars PROVE CallsKnown'
<1>. USE PoolAssumption DEF Typed, Control, Threads, BusyLabels, IdleLabels, WorkerLabels, Goto,
                            NotifyAll, poolVars, tableVars, genVars, outVars, CallsKnown, Unresolved
<1>1. ASSUME NEW t \in Threads, NEW k \in Instances, CallHit(t, k) PROVE CallsKnown'
  BY <1>1 DEF CallHit
<1>2. ASSUME NEW t \in Threads, NEW k \in Instances, CallMiss(t, k) PROVE CallsKnown'
  BY <1>2 DEF CallMiss
<1>3. ASSUME NEW t \in Threads, InstanceExists(t) PROVE CallsKnown'
  BY <1>3 DEF InstanceExists
<1>4. ASSUME NEW t \in Threads, NewInstance(t) PROVE CallsKnown'
  BY <1>4 DEF NewInstance
<1>5. ASSUME NEW t \in Threads, AddTaskCount(t) PROVE CallsKnown'
  BY <1>5 DEF AddTaskCount
<1>6. ASSUME NEW t \in Threads, AddTaskSend(t) PROVE CallsKnown'
  BY <1>6 DEF AddTaskSend
<1>7. ASSUME NEW w \in Workers, RecvTask(w) PROVE CallsKnown'
  BY <1>7 DEF RecvTask
<1>8. ASSUME NEW w \in Workers, RecvStop(w) PROVE CallsKnown'
  BY <1>8 DEF RecvStop
<1>9. ASSUME NEW w \in Workers, GenOk(w) PROVE CallsKnown'
  BY <1>9 DEF GenOk
<1>10. ASSUME NEW w \in Workers, GenErr(w) PROVE CallsKnown'
  BY <1>10 DEF GenErr
<1>11. ASSUME NEW w \in Workers, GenPanic(w) PROVE CallsKnown'
  BY <1>11 DEF GenPanic
<1>12. ASSUME NEW w \in Workers, DecrCount(w) PROVE CallsKnown'
  BY <1>12 DEF DecrCount
<1>13. ASSUME NEW w \in Workers, NotifyTask(w) PROVE CallsKnown'
  BY <1>13 DEF NotifyTask
<1>14. ASSUME NEW w \in Workers, FinishPanic(w) PROVE CallsKnown'
  BY <1>14 DEF FinishPanic
<1>15. ASSUME NEW w \in Workers, Deliver(w) PROVE CallsKnown'
  BY <1>15 DEF Deliver, Buffer
<1>16. ASSUME NEW w \in Workers, IncrCount(w) PROVE CallsKnown'
  BY <1>16 DEF IncrCount
<1>17. ASSUME NEW w \in Workers, NotifyEnd(w) PROVE CallsKnown'
  BY <1>17 DEF NotifyEnd
<1>18. ASSUME NEW w \in Workers, MonitorJoin(w) PROVE CallsKnown'
  BY <1>18 DEF MonitorJoin
<1>19. ASSUME NEW w \in Workers, MonitorPanic(w) PROVE CallsKnown'
  BY <1>19 DEF MonitorPanic
<1>20. ASSUME NEW w \in Workers, MonitorNotify(w) PROVE CallsKnown'
  BY <1>20 DEF MonitorNotify
<1>21. ASSUME MainGenOk PROVE CallsKnown'
  BY <1>21 DEF MainGenOk
<1>22. ASSUME MainGenFail PROVE CallsKnown'
  BY <1>22 DEF MainGenFail
<1>23. ASSUME MainLock PROVE CallsKnown'
  BY <1>23 DEF MainLock, Phase, Label
<1>24. ASSUME MainLeave PROVE CallsKnown'
  BY <1>24 DEF MainLeave, Phase, Label
<1>25. ASSUME MainDecideToWait PROVE CallsKnown'
  BY <1>25 DEF MainDecideToWait, Phase, Label
<1>26. ASSUME MainWait PROVE CallsKnown'
  BY <1>26 DEF MainWait, Phase, Label
<1>27. ASSUME MainWake PROVE CallsKnown'
  BY <1>27 DEF MainWake, Phase, Label
<1>28. ASSUME MainSendStop PROVE CallsKnown'
  BY <1>28 DEF MainSendStop
<1>29. ASSUME MainSentStops PROVE CallsKnown'
  BY <1>29 DEF MainSentStops
<1>30. ASSUME MainJoin PROVE CallsKnown'
  BY <1>30 DEF MainJoin
<1>31. ASSUME MainPush PROVE CallsKnown'
  BY <1>31 DEF MainPush, Buffer
<1>32. ASSUME MainWritebackFail PROVE CallsKnown'
  BY <1>32 DEF MainWritebackFail
<1>33. ASSUME UNCHANGED vars PROVE CallsKnown'
  BY <1>33 DEF vars, poolVars, tableVars, genVars, outVars
<1>. QED
  BY <1>1, <1>2, <1>3, <1>4, <1>5, <1>6, <1>7, <1>8, <1>9, <1>10, <1>11, <1>12, <1>13, <1>14,
     <1>15, <1>16, <1>17, <1>18, <1>19, <1>20, <1>21, <1>22, <1>23, <1>24, <1>25, <1>26, <1>27,
     <1>28, <1>29, <1>30, <1>31, <1>32, <1>33 DEF Next, Calling, Working, Monitoring, Waiting,
     Terminated

\* GenOk puts the task into the module, and GenErr, which empties it, sets errors.
LEMMA TaskInModuleStep ==
  ASSUME Typed, Control, TaskInModule, [Next]_vars PROVE TaskInModule'
<1>. USE PoolAssumption DEF Typed, Control, Threads, BusyLabels, IdleLabels, WorkerLabels, Goto,
                            NotifyAll, poolVars, tableVars, genVars, outVars, TaskInModule
<1>1. ASSUME NEW t \in Threads, NEW k \in Instances, CallHit(t, k) PROVE TaskInModule'
  BY <1>1 DEF CallHit
<1>2. ASSUME NEW t \in Threads, NEW k \in Instances, CallMiss(t, k) PROVE TaskInModule'
  BY <1>2 DEF CallMiss
<1>3. ASSUME NEW t \in Threads, InstanceExists(t) PROVE TaskInModule'
  BY <1>3 DEF InstanceExists
<1>4. ASSUME NEW t \in Threads, NewInstance(t) PROVE TaskInModule'
  BY <1>4 DEF NewInstance
<1>5. ASSUME NEW t \in Threads, AddTaskCount(t) PROVE TaskInModule'
  BY <1>5 DEF AddTaskCount
<1>6. ASSUME NEW t \in Threads, AddTaskSend(t) PROVE TaskInModule'
  BY <1>6 DEF AddTaskSend
<1>7. ASSUME NEW w \in Workers, RecvTask(w) PROVE TaskInModule'
  BY <1>7 DEF RecvTask
<1>8. ASSUME NEW w \in Workers, RecvStop(w) PROVE TaskInModule'
  BY <1>8 DEF RecvStop
<1>9. ASSUME NEW w \in Workers, GenOk(w) PROVE TaskInModule'
  BY <1>9 DEF GenOk
<1>10. ASSUME NEW w \in Workers, GenErr(w) PROVE TaskInModule'
  BY <1>10 DEF GenErr
<1>11. ASSUME NEW w \in Workers, GenPanic(w) PROVE TaskInModule'
  BY <1>11 DEF GenPanic
<1>12. ASSUME NEW w \in Workers, DecrCount(w) PROVE TaskInModule'
  BY <1>12 DEF DecrCount
<1>13. ASSUME NEW w \in Workers, NotifyTask(w) PROVE TaskInModule'
  BY <1>13 DEF NotifyTask
<1>14. ASSUME NEW w \in Workers, FinishPanic(w) PROVE TaskInModule'
  BY <1>14 DEF FinishPanic
<1>15. ASSUME NEW w \in Workers, Deliver(w) PROVE TaskInModule'
  BY <1>15 DEF Deliver, Buffer
<1>16. ASSUME NEW w \in Workers, IncrCount(w) PROVE TaskInModule'
  BY <1>16 DEF IncrCount
<1>17. ASSUME NEW w \in Workers, NotifyEnd(w) PROVE TaskInModule'
  BY <1>17 DEF NotifyEnd
<1>18. ASSUME NEW w \in Workers, MonitorJoin(w) PROVE TaskInModule'
  BY <1>18 DEF MonitorJoin
<1>19. ASSUME NEW w \in Workers, MonitorPanic(w) PROVE TaskInModule'
  BY <1>19 DEF MonitorPanic
<1>20. ASSUME NEW w \in Workers, MonitorNotify(w) PROVE TaskInModule'
  BY <1>20 DEF MonitorNotify
<1>21. ASSUME MainGenOk PROVE TaskInModule'
  BY <1>21 DEF MainGenOk
<1>22. ASSUME MainGenFail PROVE TaskInModule'
  BY <1>22 DEF MainGenFail
<1>23. ASSUME MainLock PROVE TaskInModule'
  BY <1>23 DEF MainLock, Phase, Label
<1>24. ASSUME MainLeave PROVE TaskInModule'
  BY <1>24 DEF MainLeave, Phase, Label
<1>25. ASSUME MainDecideToWait PROVE TaskInModule'
  BY <1>25 DEF MainDecideToWait, Phase, Label
<1>26. ASSUME MainWait PROVE TaskInModule'
  BY <1>26 DEF MainWait, Phase, Label
<1>27. ASSUME MainWake PROVE TaskInModule'
  BY <1>27 DEF MainWake, Phase, Label
<1>28. ASSUME MainSendStop PROVE TaskInModule'
  BY <1>28 DEF MainSendStop
<1>29. ASSUME MainSentStops PROVE TaskInModule'
  BY <1>29 DEF MainSentStops
<1>30. ASSUME MainJoin PROVE TaskInModule'
  BY <1>30 DEF MainJoin
<1>31. ASSUME MainPush PROVE TaskInModule'
  BY <1>31 DEF MainPush, Buffer
<1>32. ASSUME MainWritebackFail PROVE TaskInModule'
  BY <1>32 DEF MainWritebackFail
<1>33. ASSUME UNCHANGED vars PROVE TaskInModule'
  BY <1>33 DEF vars, poolVars, tableVars, genVars, outVars
<1>. QED
  BY <1>1, <1>2, <1>3, <1>4, <1>5, <1>6, <1>7, <1>8, <1>9, <1>10, <1>11, <1>12, <1>13, <1>14,
     <1>15, <1>16, <1>17, <1>18, <1>19, <1>20, <1>21, <1>22, <1>23, <1>24, <1>25, <1>26, <1>27,
     <1>28, <1>29, <1>30, <1>31, <1>32, <1>33 DEF Next, Calling, Working, Monitoring, Waiting,
     Terminated

\* A failure is never forgotten.
LEMMA FailingStep == ASSUME Typed, Control, Failing, [Next]_vars PROVE Failing'
<1>. USE PoolAssumption DEF Typed, Control, Threads, BusyLabels, IdleLabels, WorkerLabels, Goto,
                            NotifyAll, poolVars, tableVars, genVars, outVars, Failing
<1>1. ASSUME NEW t \in Threads, NEW k \in Instances, CallHit(t, k) PROVE Failing'
  BY <1>1 DEF CallHit
<1>2. ASSUME NEW t \in Threads, NEW k \in Instances, CallMiss(t, k) PROVE Failing'
  BY <1>2 DEF CallMiss
<1>3. ASSUME NEW t \in Threads, InstanceExists(t) PROVE Failing'
  BY <1>3 DEF InstanceExists
<1>4. ASSUME NEW t \in Threads, NewInstance(t) PROVE Failing'
  BY <1>4 DEF NewInstance
<1>5. ASSUME NEW t \in Threads, AddTaskCount(t) PROVE Failing'
  BY <1>5 DEF AddTaskCount
<1>6. ASSUME NEW t \in Threads, AddTaskSend(t) PROVE Failing'
  BY <1>6 DEF AddTaskSend
<1>7. ASSUME NEW w \in Workers, RecvTask(w) PROVE Failing'
  BY <1>7 DEF RecvTask
<1>8. ASSUME NEW w \in Workers, RecvStop(w) PROVE Failing'
  BY <1>8 DEF RecvStop
<1>9. ASSUME NEW w \in Workers, GenOk(w) PROVE Failing'
  BY <1>9 DEF GenOk
<1>10. ASSUME NEW w \in Workers, GenErr(w) PROVE Failing'
  BY <1>10 DEF GenErr
<1>11. ASSUME NEW w \in Workers, GenPanic(w) PROVE Failing'
  BY <1>11 DEF GenPanic
<1>12. ASSUME NEW w \in Workers, DecrCount(w) PROVE Failing'
  BY <1>12 DEF DecrCount
<1>13. ASSUME NEW w \in Workers, NotifyTask(w) PROVE Failing'
  BY <1>13 DEF NotifyTask
<1>14. ASSUME NEW w \in Workers, FinishPanic(w) PROVE Failing'
  BY <1>14 DEF FinishPanic
<1>15. ASSUME NEW w \in Workers, Deliver(w) PROVE Failing'
  BY <1>15 DEF Deliver, Buffer
<1>16. ASSUME NEW w \in Workers, IncrCount(w) PROVE Failing'
  BY <1>16 DEF IncrCount
<1>17. ASSUME NEW w \in Workers, NotifyEnd(w) PROVE Failing'
  BY <1>17 DEF NotifyEnd
<1>18. ASSUME NEW w \in Workers, MonitorJoin(w) PROVE Failing'
  BY <1>18 DEF MonitorJoin
<1>19. ASSUME NEW w \in Workers, MonitorPanic(w) PROVE Failing'
  BY <1>19 DEF MonitorPanic
<1>20. ASSUME NEW w \in Workers, MonitorNotify(w) PROVE Failing'
  BY <1>20 DEF MonitorNotify
<1>21. ASSUME MainGenOk PROVE Failing'
  BY <1>21 DEF MainGenOk
<1>22. ASSUME MainGenFail PROVE Failing'
  BY <1>22 DEF MainGenFail
<1>23. ASSUME MainLock PROVE Failing'
  BY <1>23 DEF MainLock, Phase, Label
<1>24. ASSUME MainLeave PROVE Failing'
  BY <1>24 DEF MainLeave, Phase, Label
<1>25. ASSUME MainDecideToWait PROVE Failing'
  BY <1>25 DEF MainDecideToWait, Phase, Label
<1>26. ASSUME MainWait PROVE Failing'
  BY <1>26 DEF MainWait, Phase, Label
<1>27. ASSUME MainWake PROVE Failing'
  BY <1>27 DEF MainWake, Phase, Label
<1>28. ASSUME MainSendStop PROVE Failing'
  BY <1>28 DEF MainSendStop
<1>29. ASSUME MainSentStops PROVE Failing'
  BY <1>29 DEF MainSentStops
<1>30. ASSUME MainJoin PROVE Failing'
  BY <1>30 DEF MainJoin
<1>31. ASSUME MainPush PROVE Failing'
  BY <1>31 DEF MainPush, Buffer
<1>32. ASSUME MainWritebackFail PROVE Failing'
  BY <1>32 DEF MainWritebackFail
<1>33. ASSUME UNCHANGED vars PROVE Failing'
  BY <1>33 DEF vars, poolVars, tableVars, genVars, outVars
<1>. QED
  BY <1>1, <1>2, <1>3, <1>4, <1>5, <1>6, <1>7, <1>8, <1>9, <1>10, <1>11, <1>12, <1>13, <1>14,
     <1>15, <1>16, <1>17, <1>18, <1>19, <1>20, <1>21, <1>22, <1>23, <1>24, <1>25, <1>26, <1>27,
     <1>28, <1>29, <1>30, <1>31, <1>32, <1>33 DEF Next, Calling, Working, Monitoring, Waiting,
     Terminated

\* An instance moves on from place to place; it disappears only with a failure.
LEMMA LocatedStep ==
  ASSUME Typed, Control, TaskInModule, [Next]_vars, ~Failing', NEW j \in Instances, Located(j)
  PROVE  Located(j)'
<1>. USE PoolAssumption DEF Typed, Control, Threads, BusyLabels, IdleLabels, WorkerLabels, Goto,
                            NotifyAll, poolVars, tableVars, genVars, outVars,
                            Located, Failing, Creating, TaskInModule
<1>1. ASSUME NEW t \in Threads, NEW k \in Instances, CallHit(t, k) PROVE Located(j)'
  BY <1>1 DEF CallHit, QueuedTasks
<1>2. ASSUME NEW t \in Threads, NEW k \in Instances, CallMiss(t, k) PROVE Located(j)'
  BY <1>2 DEF CallMiss, QueuedTasks
<1>3. ASSUME NEW t \in Threads, InstanceExists(t) PROVE Located(j)'
  BY <1>3 DEF InstanceExists, QueuedTasks
<1>4. ASSUME NEW t \in Threads, NewInstance(t) PROVE Located(j)'
  BY <1>4 DEF NewInstance, QueuedTasks
<1>5. ASSUME NEW t \in Threads, AddTaskCount(t) PROVE Located(j)'
  BY <1>5 DEF AddTaskCount, QueuedTasks
<1>6. ASSUME NEW t \in Threads, AddTaskSend(t) PROVE Located(j)'
  <2>1. j \in QueuedTasks => j \in QueuedTasks'
    BY <1>6, QueueAppend DEF AddTaskSend
  <2>2. ASSUME NEW u \in Threads, Creating(u), callee[u] = j, j \notin QueuedTasks'
        PROVE  Creating(u)' /\ callee'[u] = j
    <3>1. QueuedTasks' = QueuedTasks \cup {callee[t]}
      BY <1>6, QueueAppend DEF AddTaskSend
    <3>. QED
      BY <1>6, <2>2, <3>1 DEF AddTaskSend
  <2>3. task' = task /\ module' = module
    BY <1>6 DEF AddTaskSend
  <2>. QED
    BY <2>1, <2>2, <2>3
<1>7. ASSUME NEW w \in Workers, RecvTask(w) PROVE Located(j)'
  <2>1. j \in QueuedTasks => j \in QueuedTasks' \/ task'[w] = j
    BY <1>7, QueueTail DEF RecvTask
  <2>2. \A u \in Threads : task[u] = j => task'[u] = j
    BY <1>7 DEF RecvTask
  <2>3. \A u \in Threads : Creating(u) => Creating(u)' /\ callee'[u] = callee[u]
    BY <1>7 DEF RecvTask
  <2>4. module' = module
    BY <1>7 DEF RecvTask
  <2>. QED
    BY <2>1, <2>2, <2>3, <2>4
<1>8. ASSUME NEW w \in Workers, RecvStop(w) PROVE Located(j)'
  <2>1. QueuedTasks' = QueuedTasks
    BY <1>8, QueueTail DEF RecvStop
  <2>. QED
    BY <1>8, <2>1 DEF RecvStop
<1>9. ASSUME NEW w \in Workers, GenOk(w) PROVE Located(j)'
  BY <1>9 DEF GenOk, QueuedTasks
<1>10. ASSUME NEW w \in Workers, GenErr(w) PROVE Located(j)'
  BY <1>10 DEF GenErr, QueuedTasks
<1>11. ASSUME NEW w \in Workers, GenPanic(w) PROVE Located(j)'
  BY <1>11 DEF GenPanic, QueuedTasks
<1>12. ASSUME NEW w \in Workers, DecrCount(w) PROVE Located(j)'
  BY <1>12 DEF DecrCount, QueuedTasks
<1>13. ASSUME NEW w \in Workers, NotifyTask(w) PROVE Located(j)'
  BY <1>13 DEF NotifyTask, QueuedTasks
<1>14. ASSUME NEW w \in Workers, FinishPanic(w) PROVE Located(j)'
  BY <1>14 DEF FinishPanic, QueuedTasks
<1>15. ASSUME NEW w \in Workers, Deliver(w) PROVE Located(j)'
  BY <1>15 DEF Deliver, Buffer, QueuedTasks
<1>16. ASSUME NEW w \in Workers, IncrCount(w) PROVE Located(j)'
  BY <1>16 DEF IncrCount, QueuedTasks
<1>17. ASSUME NEW w \in Workers, NotifyEnd(w) PROVE Located(j)'
  BY <1>17 DEF NotifyEnd, QueuedTasks
<1>18. ASSUME NEW w \in Workers, MonitorJoin(w) PROVE Located(j)'
  BY <1>18 DEF MonitorJoin, QueuedTasks
<1>19. ASSUME NEW w \in Workers, MonitorPanic(w) PROVE Located(j)'
  BY <1>19 DEF MonitorPanic, QueuedTasks
<1>20. ASSUME NEW w \in Workers, MonitorNotify(w) PROVE Located(j)'
  BY <1>20 DEF MonitorNotify, QueuedTasks
<1>21. ASSUME MainGenOk PROVE Located(j)'
  BY <1>21 DEF MainGenOk, QueuedTasks
<1>22. ASSUME MainGenFail PROVE Located(j)'
  BY <1>22 DEF MainGenFail, QueuedTasks
<1>23. ASSUME MainLock PROVE Located(j)'
  BY <1>23 DEF MainLock, Phase, Label, QueuedTasks
<1>24. ASSUME MainLeave PROVE Located(j)'
  BY <1>24 DEF MainLeave, Phase, Label, QueuedTasks
<1>25. ASSUME MainDecideToWait PROVE Located(j)'
  BY <1>25 DEF MainDecideToWait, Phase, Label, QueuedTasks
<1>26. ASSUME MainWait PROVE Located(j)'
  BY <1>26 DEF MainWait, Phase, Label, QueuedTasks
<1>27. ASSUME MainWake PROVE Located(j)'
  BY <1>27 DEF MainWake, Phase, Label, QueuedTasks
<1>28. ASSUME MainSendStop PROVE Located(j)'
  <2>1. QueuedTasks' = QueuedTasks
    <3>1. QueuedTasks' = QueuedTasks \cup ({Stop} \ {Stop})
      BY <1>28, QueueAppend DEF MainSendStop
    <3>. QED
      BY <3>1
  <2>2. task' = task /\ callee' = callee /\ pc' = pc /\ module' = module
    BY <1>28 DEF MainSendStop
  <2>. QED
    BY <2>1, <2>2
<1>29. ASSUME MainSentStops PROVE Located(j)'
  BY <1>29 DEF MainSentStops, QueuedTasks
<1>30. ASSUME MainJoin PROVE Located(j)'
  BY <1>30 DEF MainJoin, QueuedTasks
<1>31. ASSUME MainPush PROVE Located(j)'
  BY <1>31 DEF MainPush, Buffer, QueuedTasks
<1>32. ASSUME MainWritebackFail PROVE Located(j)'
  BY <1>32 DEF MainWritebackFail, QueuedTasks
<1>33. ASSUME UNCHANGED vars PROVE Located(j)'
  BY <1>33 DEF vars, poolVars, tableVars, genVars, outVars, QueuedTasks
<1>. QED
  BY <1>1, <1>2, <1>3, <1>4, <1>5, <1>6, <1>7, <1>8, <1>9, <1>10, <1>11, <1>12, <1>13, <1>14,
     <1>15, <1>16, <1>17, <1>18, <1>19, <1>20, <1>21, <1>22, <1>23, <1>24, <1>25, <1>26, <1>27,
     <1>28, <1>29, <1>30, <1>31, <1>32, <1>33 DEF Next, Calling, Working, Monitoring, Waiting,
     Terminated

\* Only NewInstance gives an instance a symbol.
LEMMA RequestStep ==
  ASSUME [Next]_vars
  PROVE  \/ instance_to_symbol' = instance_to_symbol
         \/ \E t \in Threads : NewInstance(t)
BY DEF Next, Calling, Working, Monitoring, Waiting, Terminated, vars, tableVars, CallHit,
       CallMiss, InstanceExists, AddTaskCount, AddTaskSend, RecvTask, RecvStop, GenOk, GenErr,
       GenPanic, DecrCount, NotifyTask, FinishPanic, Deliver, IncrCount, NotifyEnd,
       MonitorJoin, MonitorPanic, MonitorNotify, MainGenOk, MainGenFail, MainLock, MainLeave,
       MainDecideToWait, MainWait, MainWake, MainSendStop, MainSentStops, MainJoin, MainPush,
       MainWritebackFail

\* The new instance is located at the thread that creates it.
LEMMA NothingLostStep ==
  ASSUME Typed, Control, TaskInModule, NothingLost, [Next]_vars
  PROVE  NothingLost'
<1>. SUFFICES ASSUME ~Failing', NEW j \in instance_to_symbol' PROVE Located(j)'
  BY DEF NothingLost
<1>1. j \in Instances
  BY TypedStep DEF Typed
<1>2. CASE j \in instance_to_symbol
  BY <1>1, <1>2, FailingStep, LocatedStep DEF NothingLost
<1>3. ASSUME NEW t \in Threads, NewInstance(t), j \notin instance_to_symbol
      PROVE  Located(j)'
  BY <1>3 DEF NewInstance, Located, Creating, Goto, Typed
<1>. QED
  BY <1>2, <1>3, RequestStep

\* Needed is the least set that holds the root and what its members call.
LEMMA NeededClosed ==
  /\ Root \in Needed
  /\ \A k \in Needed : Calls[k] \subseteq Needed
<1>. USE PoolAssumption
<1>1. Root \in Needed
  BY DEF Needed
<1>2. ASSUME NEW k \in Needed, NEW j \in Calls[k] PROVE j \in Needed
  BY <1>2 DEF Needed
<1>. QED
  BY <1>1, <1>2

\* ... and is contained in every such set.
LEMMA NeededLeast ==
  ASSUME NEW S \in SUBSET Instances, Root \in S, \A j \in S : Calls[j] \subseteq S
  PROVE  Needed \subseteq S
BY DEF Needed

\* An instance is requested because a needed instance calls it.
LEMMA AllNeededStep ==
  ASSUME Typed, Known, BodyOfTask, AllNeeded, [Next]_vars
  PROVE  AllNeeded'
<1>1. Needed' = Needed
  BY DEF Needed
<1>2. ASSUME NEW t \in Threads, NewInstance(t) PROVE instance_to_symbol' \subseteq Needed
  <2>1. task[t] \in Needed /\ callee[t] \in Calls[task[t]]
    BY <1>2 DEF NewInstance, BodyOfTask, Known, AllNeeded
  <2>. QED
    BY <1>2, <2>1, NeededClosed DEF NewInstance, AllNeeded
<1>. QED
  BY <1>1, <1>2, RequestStep DEF AllNeeded

NotDelivering ==
    /\ buffers' = buffers
    /\ \A t \in Threads :
          /\ Delivered(t)' <=> Delivered(t)
          /\ Delivered(t) => ModuleOf(t)' = ModuleOf(t)

\* Only two steps deliver, and a module does not change once it was delivered.
LEMMA NotDeliveringStep ==
  ASSUME Typed, Control, [Next]_vars, ~MainPush, \A w \in Workers : ~Deliver(w)
  PROVE  NotDelivering
<1>. USE PoolAssumption DEF Typed, Control, Threads, BusyLabels, IdleLabels, WorkerLabels, Goto,
                            NotifyAll, poolVars, tableVars, genVars, outVars,
                            NotDelivering, Delivered, ModuleOf, BodyOfTask
<1>1. ASSUME NEW t \in Threads, NEW k \in Instances, CallHit(t, k) PROVE NotDelivering
  BY <1>1 DEF CallHit
<1>2. ASSUME NEW t \in Threads, NEW k \in Instances, CallMiss(t, k) PROVE NotDelivering
  BY <1>2 DEF CallMiss
<1>3. ASSUME NEW t \in Threads, InstanceExists(t) PROVE NotDelivering
  BY <1>3 DEF InstanceExists
<1>4. ASSUME NEW t \in Threads, NewInstance(t) PROVE NotDelivering
  BY <1>4 DEF NewInstance
<1>5. ASSUME NEW t \in Threads, AddTaskCount(t) PROVE NotDelivering
  BY <1>5 DEF AddTaskCount
<1>6. ASSUME NEW t \in Threads, AddTaskSend(t) PROVE NotDelivering
  BY <1>6 DEF AddTaskSend
<1>7. ASSUME NEW w \in Workers, RecvTask(w) PROVE NotDelivering
  BY <1>7 DEF RecvTask
<1>8. ASSUME NEW w \in Workers, RecvStop(w) PROVE NotDelivering
  BY <1>8 DEF RecvStop
<1>9. ASSUME NEW w \in Workers, GenOk(w) PROVE NotDelivering
  BY <1>9 DEF GenOk
<1>10. ASSUME NEW w \in Workers, GenErr(w) PROVE NotDelivering
  BY <1>10 DEF GenErr
<1>11. ASSUME NEW w \in Workers, GenPanic(w) PROVE NotDelivering
  BY <1>11 DEF GenPanic
<1>12. ASSUME NEW w \in Workers, DecrCount(w) PROVE NotDelivering
  BY <1>12 DEF DecrCount
<1>13. ASSUME NEW w \in Workers, NotifyTask(w) PROVE NotDelivering
  BY <1>13 DEF NotifyTask
<1>14. ASSUME NEW w \in Workers, FinishPanic(w) PROVE NotDelivering
  BY <1>14 DEF FinishPanic
<1>15. ASSUME NEW w \in Workers, Deliver(w) PROVE NotDelivering
  BY <1>15 DEF Deliver, Buffer
<1>16. ASSUME NEW w \in Workers, IncrCount(w) PROVE NotDelivering
  BY <1>16 DEF IncrCount
<1>17. ASSUME NEW w \in Workers, NotifyEnd(w) PROVE NotDelivering
  BY <1>17 DEF NotifyEnd
<1>18. ASSUME NEW w \in Workers, MonitorJoin(w) PROVE NotDelivering
  BY <1>18 DEF MonitorJoin
<1>19. ASSUME NEW w \in Workers, MonitorPanic(w) PROVE NotDelivering
  BY <1>19 DEF MonitorPanic
<1>20. ASSUME NEW w \in Workers, MonitorNotify(w) PROVE NotDelivering
  BY <1>20 DEF MonitorNotify
<1>21. ASSUME MainGenOk PROVE NotDelivering
  BY <1>21 DEF MainGenOk
<1>22. ASSUME MainGenFail PROVE NotDelivering
  BY <1>22 DEF MainGenFail
<1>23. ASSUME MainLock PROVE NotDelivering
  BY <1>23 DEF MainLock, Phase, Label
<1>24. ASSUME MainLeave PROVE NotDelivering
  BY <1>24 DEF MainLeave, Phase, Label
<1>25. ASSUME MainDecideToWait PROVE NotDelivering
  BY <1>25 DEF MainDecideToWait, Phase, Label
<1>26. ASSUME MainWait PROVE NotDelivering
  BY <1>26 DEF MainWait, Phase, Label
<1>27. ASSUME MainWake PROVE NotDelivering
  BY <1>27 DEF MainWake, Phase, Label
<1>28. ASSUME MainSendStop PROVE NotDelivering
  BY <1>28 DEF MainSendStop
<1>29. ASSUME MainSentStops PROVE NotDelivering
  BY <1>29 DEF MainSentStops
<1>30. ASSUME MainJoin PROVE NotDelivering
  BY <1>30 DEF MainJoin
<1>31. ASSUME MainPush PROVE NotDelivering
  BY <1>31 DEF MainPush, Buffer
<1>32. ASSUME MainWritebackFail PROVE NotDelivering
  BY <1>32 DEF MainWritebackFail
<1>33. ASSUME UNCHANGED vars PROVE NotDelivering
  BY <1>33 DEF vars, poolVars, tableVars, genVars, outVars
<1>. QED
  BY <1>1, <1>2, <1>3, <1>4, <1>5, <1>6, <1>7, <1>8, <1>9, <1>10, <1>11, <1>12, <1>13, <1>14,
     <1>15, <1>16, <1>17, <1>18, <1>19, <1>20, <1>21, <1>22, <1>23, <1>24, <1>25, <1>26, <1>27,
     <1>28, <1>29, <1>30, <1>31, <1>32, <1>33 DEF Next, Calling, Working, Monitoring, Waiting,
     Terminated

\* A buffer comes from a thread.
LEMMA BufferTyped ==
  ASSUME Typed, NEW i \in DOMAIN buffers
  PROVE  buffers[i] \in [by : Threads, has : SUBSET Instances]
<1>. DEFINE S == [by : Threads, has : SUBSET Instances]
<1>1. buffers \in Seq(S)
  BY DEF Typed
<1>. HIDE DEF S
<1>2. buffers[i] \in S
  BY <1>1
<1>. QED
  BY <1>2 DEF S

\* A delivery appends the thread's module behind the others'.
LEMMA DeliverStep ==
  ASSUME Typed, BuffersExact, NEW t \in Threads, ~Delivered(t), Delivered(t)',
         buffers' = Append(buffers, Buffer(t, ModuleOf(t))), 
         \A u \in Threads : ModuleOf(u)' = ModuleOf(u),
         \A u \in Threads \ {t} : Delivered(u)' <=> Delivered(u),
         Delivered(Main) => t = Main
  PROVE  BuffersExact'
<1>. DEFINE n == Len(buffers)
<1>1. /\ n \in Nat /\ DOMAIN buffers = 1..n /\ DOMAIN buffers' = 1..(n + 1) /\ Len(buffers') = n + 1
      /\ buffers'[n + 1] = Buffer(t, ModuleOf(t)) /\ \A i \in 1..n : buffers'[i] = buffers[i]
  BY DEF Typed, Buffer
<1>2. ASSUME NEW i \in 1..n PROVE buffers[i].by \in Threads /\ buffers[i].by # t
  <2>1. buffers[i] \in [by : Threads, has : SUBSET Instances]
    BY <1>1, BufferTyped
  <2>2. Delivered(buffers[i].by)
    BY <1>1 DEF BuffersExact
  <2>. QED
    BY <2>1, <2>2
<1>. QED
  BY <1>1, <1>2 DEF BuffersExact, Buffer

\* A step either delivers the module of one thread or leaves what was delivered alone.
LEMMA BuffersStep ==
  ASSUME Typed, Control, Reported, BodyOfTask, BuffersExact, [Next]_vars
  PROVE  BuffersExact'
<1>. USE PoolAssumption DEF Threads
<1>1. CASE NotDelivering
  <2>1. \A i \in DOMAIN buffers : buffers[i].by \in Threads
    BY BufferTyped
  <2>. QED
    BY <1>1, <2>1 DEF NotDelivering, BuffersExact
<1>2. ASSUME NEW w \in Workers, Deliver(w) PROVE BuffersExact'
  <2>1. w \in Threads /\ w # Main
    OBVIOUS
  <2>2. ~Delivered(w) /\ Delivered(w)' /\ \A u \in Threads \ {w} : Delivered(u)' <=> Delivered(u)
    BY <1>2 DEF Deliver, Delivered, Goto, Typed
  <2>3. ~Delivered(Main)
    BY <1>2 DEF Deliver, Delivered, Reported
  <2>4. \A u \in Threads : ModuleOf(u)' = ModuleOf(u)
    BY <1>2 DEF Deliver, ModuleOf
  <2>5. buffers' = Append(buffers, Buffer(w, ModuleOf(w)))
    BY <1>2 DEF Deliver, ModuleOf
  <2>. QED
    BY <2>1, <2>2, <2>3, <2>4, <2>5, DeliverStep
<1>3. CASE MainPush
  <2>1. ~Delivered(Main) /\ Delivered(Main)'
    BY <1>3 DEF MainPush, Delivered, Goto, Typed, BodyOfTask
  <2>2. Main \in Threads /\ \A u \in Threads : ModuleOf(u)' = ModuleOf(u)
    BY <1>3 DEF MainPush, ModuleOf
  <2>3. \A u \in Threads \ {Main} : Delivered(u)' <=> Delivered(u)
    BY <1>3 DEF MainPush, Delivered, Goto, Typed
  <2>4. buffers' = Append(buffers, Buffer(Main, ModuleOf(Main)))
    BY <1>3 DEF MainPush, ModuleOf
  <2>. QED
    BY <2>1, <2>2, <2>3, <2>4, DeliverStep
<1>. QED
  BY <1>1, <1>2, <1>3, NotDeliveringStep

\* Initially only the root has a symbol, and the main thread has it or is about to queue it.
LEMMA DeliveryInit == Init => DeliveryInv
<1>. SUFFICES ASSUME Init PROVE DeliveryInv
  OBVIOUS
<1>. USE PoolAssumption DEF Init, Threads
<1>1. BodyOfTask
  BY DEF BodyOfTask, RootBuilt
<1>2. CallsKnown
  BY DEF CallsKnown, Unresolved
<1>3. AllNeeded
  BY NeededClosed DEF AllNeeded
<1>4. TaskInModule
  BY DEF TaskInModule
<1>5. NothingLost
  BY DEF NothingLost, Located, Creating
<1>6. BuffersExact
  <2>1. DOMAIN buffers = {}
    OBVIOUS
  <2>2. \A t \in Threads : ~Delivered(t)
    BY DEF Delivered
  <2>. QED
    BY <2>1, <2>2 DEF BuffersExact
<1>. QED
  BY <1>1, <1>2, <1>3, <1>4, <1>5, <1>6 DEF DeliveryInv

\* The invariant of the pool, with what reaches the linker, is inductive.
THEOREM DeliveryInvariance == Spec => []PoolInv
<1>1. PoolInv /\ [Next]_vars => DeliveryInv'
  <2>. SUFFICES ASSUME IInv, DeliveryInv, [Next]_vars PROVE DeliveryInv'
    BY DEF PoolInv
  <2>1. BodyOfTask' /\ CallsKnown' /\ AllNeeded'
    BY BodyStep, CallsKnownStep, AllNeededStep DEF IInv, DeliveryInv
  <2>2. TaskInModule' /\ NothingLost' /\ BuffersExact'
    BY TaskInModuleStep, NothingLostStep, BuffersStep DEF IInv, DeliveryInv
  <2>. QED
    BY <2>1, <2>2 DEF DeliveryInv
<1>2. Spec => [](IInv /\ DeliveryInv)
  BY <1>1, Invariance, DeliveryInit, PTL DEF Spec, PoolInv
<1>. QED
  BY <1>2, PTL DEF PoolInv

-----------------------------------------------------------------------------
(* What the linker gets                                                    *)

\* Once every worker is done and the flag is down, every instance with a symbol was built.
LEMMA AllBuilt ==
  ASSUME PoolInv, \A w \in Workers : pc[w] = "done", ~panicked,
         pc[Main] \in {"join", "push", "ok"}
  PROVE  Built = instance_to_symbol
<1>. USE PoolAssumption DEF PoolInv, IInv, DeliveryInv, Threads
<1>1. ~Failing
  BY DEF Failing, Reported
<1>2. Outstanding = {}
  BY DEF Quiet, Closing
<1>3. RootBuilt <=> RootOnMain
  BY DEF RootBuilt
<1>4. ASSUME NEW k \in instance_to_symbol PROVE k \in Built
  <2>1. Located(k)
    BY <1>1 DEF NothingLost
  <2>2. k \notin QueuedTasks
    BY <1>2 DEF Outstanding
  <2>3. \A t \in Threads : ~Creating(t)
    BY DEF Creating
  <2>4. \A t \in Threads : task[t] = k => RootBuilt /\ k = Root
    BY <1>3 DEF Control, IdleLabels, Typed
  <2>. QED
    BY <2>1, <2>2, <2>3, <2>4 DEF Located, Built
<1>5. Built \subseteq instance_to_symbol
  BY DEF Built, Known
<1>. QED
  BY <1>4, <1>5

\* The main thread returns normally only after every worker.
LEMMA OkIsLast ==
  ASSUME IInv, pc[Main] \in {"push", "ok"}
  PROVE  ~panicked /\ \A w \in Workers : pc[w] = "done"
BY DEF IInv, Reported

\* The instances with a symbol are then those the program needs.
LEMMA AllNeededBuilt ==
  ASSUME PoolInv, pc[Main] = "ok"
  PROVE  Built = Needed
<1>. USE PoolAssumption DEF PoolInv, IInv, DeliveryInv, Threads
<1>1. Built = instance_to_symbol
  BY AllBuilt, OkIsLast
<1>2. ASSUME NEW j \in Built PROVE Calls[j] \subseteq instance_to_symbol
  <2>1. CASE \E w \in Workers : j \in module[w]
    BY <2>1 DEF CallsKnown
  <2>2. CASE RootBuilt /\ j = Root
    <3>1. task[Main] = Root /\ Root # NoTask
      BY <2>2 DEF Control, RootBuilt
    <3>2. Unresolved(Main) = {}
      BY <2>2 DEF BodyOfTask, Unresolved
    <3>. QED
      BY <2>2, <3>1, <3>2 DEF CallsKnown
  <2>. QED
    BY <2>1, <2>2 DEF Built
<1>3. Needed \subseteq instance_to_symbol
  BY <1>1, <1>2, NeededLeast DEF Known, Typed
<1>. QED
  BY <1>1, <1>3 DEF AllNeeded

\* When the compilation returns, each needed instance is in exactly one of the buffers the
\* linker gets, and no other instance is in any.
THEOREM LinksWholeProgram == Spec => []WholeProgram
<1>1. PoolInv => WholeProgram
  <2>. SUFFICES ASSUME PoolInv, pc[Main] = "ok", NEW k \in Instances
               PROVE  Cardinality({i \in DOMAIN buffers : k \in buffers[i].has})
                        = IF k \in Needed THEN 1 ELSE 0
    BY DEF WholeProgram
  <2>. USE PoolAssumption DEF PoolInv, IInv, DeliveryInv, Threads
  <2>. DEFINE Carriers == {i \in DOMAIN buffers : k \in buffers[i].has}
  <2>1. \A i \in DOMAIN buffers : buffers[i].by \in Threads
    BY BufferTyped
  <2>2. \A w \in Workers : pc[w] = "done"
    BY OkIsLast
  <2>3. \A t \in Threads : Delivered(t) <=> (t = Main => RootOnMain)
    BY <2>2 DEF Delivered
  <2>4. k \in Needed <=> \E t \in Threads : Delivered(t) /\ k \in ModuleOf(t)
    BY <2>3, AllNeededBuilt DEF Built, RootBuilt, ModuleOf
  <2>5. \A t, u \in Threads :
           Delivered(t) /\ Delivered(u) /\ k \in ModuleOf(t) /\ k \in ModuleOf(u) => t = u
    BY <2>3 DEF ModuleOf, Unique, OneModule, GeneratedHere, Control
  <2>6. CASE k \in Needed
    <3>1. PICK t \in Threads : Delivered(t) /\ k \in ModuleOf(t)
      BY <2>4, <2>6
    <3>2. PICK i \in DOMAIN buffers : buffers[i].by = t
      BY <3>1 DEF BuffersExact
    <3>3. Carriers = {i}
      BY <2>1, <2>5, <3>1, <3>2 DEF BuffersExact
    <3>. QED
      BY <2>6, <3>3, FS_Singleton
  <2>7. CASE k \notin Needed
    <3>1. Carriers = {}
      BY <2>1, <2>4, <2>7 DEF BuffersExact
    <3>. QED
      BY <2>7, <3>1, FS_EmptySet
  <2>. QED
    BY <2>6, <2>7
<1>. QED
  BY DeliveryInvariance, <1>1, PTL

\* nac3artiq's main module is the last buffer, behind one of every worker.
THEOREM LinksMainModuleLast == Spec => []MainModuleLast
<1>1. PoolInv => MainModuleLast
  <2>. SUFFICES ASSUME PoolInv, pc[Main] = "ok", RootOnMain
               PROVE  /\ buffers # <<>> /\ buffers[Len(buffers)].by = Main
                      /\ \A w \in Workers : \E i \in DOMAIN buffers : buffers[i].by = w
    BY DEF MainModuleLast
  <2>. USE PoolAssumption DEF PoolInv, IInv, DeliveryInv, Threads
  <2>1. PICK i \in DOMAIN buffers : buffers[i].by = Main
    BY DEF BuffersExact, Delivered
  <2>2. i = Len(buffers) /\ buffers # <<>>
    BY <2>1 DEF BuffersExact
  <2>3. \A w \in Workers : Delivered(w)
    BY OkIsLast DEF Delivered
  <2>. QED
    BY <2>1, <2>2, <2>3 DEF BuffersExact
<1>. QED
  BY DeliveryInvariance, <1>1, PTL

-----------------------------------------------------------------------------
(* The pool implements Compilation.  Which abstract step an action takes,  *)
(* or that it takes none, depends on four things: what has a symbol, what  *)
(* was built, whether something failed, and where the main thread is.      *)

\* After ok every worker is done, so no worker takes another step of its own.
LEMMA BusyBeforeOk ==
  ASSUME PoolInv, NEW t \in Threads, pc[t] \notin {"done", "ok"}
  PROVE  pc[Main] # "ok"
BY OkIsLast DEF PoolInv, Threads

\* What the abstract program does not see.
Unseen == instance_to_symbol' = instance_to_symbol /\ Built' = Built /\ Outcome' = Outcome

\* A request: the instance is called by one that has a symbol.
LEMMA RequestRefines ==
  ASSUME PoolInv, NEW t \in Threads, NewInstance(t)
  PROVE  Compiles!Request(callee[t])
<1>. USE PoolAssumption DEF PoolInv, IInv, DeliveryInv
<1>1. Outcome # "ok"
  BY BusyBeforeOk DEF NewInstance, Outcome
<1>2. task[t] \in instance_to_symbol /\ callee[t] \in Calls[task[t]]
  BY DEF NewInstance, BodyOfTask, Known
<1>3. /\ callee[t] \notin instance_to_symbol
      /\ instance_to_symbol' = instance_to_symbol \cup {callee[t]}
  BY DEF NewInstance
<1>4. Built' = Built
  BY DEF NewInstance, Built, RootBuilt, Goto, Typed, outVars, BodyOfTask
<1>5. Outcome' = Outcome
  BY DEF NewInstance, Outcome, Failing, Goto, Typed, outVars, Threads
<1>. QED
  BY <1>1, <1>2, <1>3, <1>4, <1>5 DEF Compiles!Request

\* A worker builds its task, unless it had built it already.
LEMMA BuildRefines ==
  ASSUME PoolInv, NEW w \in Workers, GenOk(w)
  PROVE  (\E k \in Instances : Compiles!Build(k)) \/ Unseen
<1>. USE PoolAssumption DEF PoolInv, IInv, DeliveryInv, Threads
<1>0. task[w] \in Instances /\ task[w] # NoTask
  BY DEF GenOk, Control, BusyLabels
<1>1. Outcome # "ok"
  BY BusyBeforeOk DEF GenOk, Outcome
<1>2. task[w] \in instance_to_symbol /\ Calls[task[w]] \subseteq instance_to_symbol
  <2>1. task[w] \in Instances /\ task[w] # NoTask
    BY <1>0
  <2>2. Unresolved(w) = {}
    BY DEF GenOk, Unresolved
  <2>. QED
    BY <2>1, <2>2 DEF GenOk, CallsKnown, Known
<1>3. Built' = Built \cup {task[w]}
  <2>1. RootBuilt' <=> RootBuilt
    BY DEF GenOk, RootBuilt, Goto, Typed
  <2>2. module' = [module EXCEPT ![w] = @ \cup {task[w]}]
    BY DEF GenOk
  <2>3. UNION {module'[v] : v \in Workers} = (UNION {module[v] : v \in Workers}) \cup {task[w]}
    BY <2>2 DEF Typed
  <2>. QED
    BY <2>1, <2>3 DEF Built
<1>4. Outcome' = Outcome
  BY DEF GenOk, Outcome, Failing, Goto, Typed
<1>5. instance_to_symbol' = instance_to_symbol
  BY DEF GenOk, tableVars
<1>. QED
  BY <1>0, <1>1, <1>2, <1>3, <1>4, <1>5 DEF Compiles!Build, Unseen

\* nac3artiq's main thread builds the root.
LEMMA RootRefines ==
  ASSUME PoolInv, MainGenOk
  PROVE  Compiles!Build(Root)
<1>. USE PoolAssumption DEF PoolInv, IInv, DeliveryInv, Threads
<1>0. RootOnMain /\ task[Main] = Root
  BY DEF MainGenOk, BodyOfTask, Control
<1>1. Outcome # "ok"
  BY BusyBeforeOk DEF MainGenOk, Outcome
<1>2. Root \in instance_to_symbol /\ Calls[Root] \subseteq instance_to_symbol
  <2>1. Unresolved(Main) = {}
    BY DEF MainGenOk, Unresolved
  <2>. QED
    BY <1>0, <2>1 DEF MainGenOk, CallsKnown, Known
<1>3. Root \notin Built
  BY <1>0 DEF MainGenOk, Built, RootBuilt, Unique, GeneratedHere
<1>4. Built' = Built \cup {Root}
  BY <1>0 DEF MainGenOk, Built, RootBuilt, Goto, Typed, outVars
<1>5. Outcome' = Outcome
  BY DEF MainGenOk, Outcome, Failing, Goto, Typed, outVars
<1>. QED
  BY <1>1, <1>2, <1>3, <1>4, <1>5 DEF Compiles!Build, MainGenOk, tableVars

\* Every step that leaves with a failure keeps what it does not lose, and stays failed.
LEMMA FailRefines ==
  ASSUME Outcome # "ok", Built' \subseteq Built, instance_to_symbol' = instance_to_symbol,
         Outcome' \in {"failing", "failed"}, Outcome = "failed" => Outcome' = "failed"
  PROVE  Compiles!Fail
BY DEF Compiles!Fail

\* A worker fails with its task or at the end: GenErr empties its module, the others do not.
LEMMA WorkerFailRefines ==
  ASSUME PoolInv, NEW w \in Workers, GenErr(w) \/ GenPanic(w) \/ FinishPanic(w)
  PROVE  Compiles!Fail
<1>. USE PoolAssumption DEF PoolInv, IInv, DeliveryInv, Threads
<1>1. pc[Main] # "ok" /\ pc'[Main] = pc[Main]
  BY BusyBeforeOk DEF GenErr, GenPanic, FinishPanic, Goto, Typed
<1>2. Failing'
  BY DEF GenErr, GenPanic, FinishPanic, Failing, Goto, Typed
<1>3. instance_to_symbol' = instance_to_symbol
  BY DEF GenErr, GenPanic, FinishPanic, tableVars
<1>4. \A v \in Workers : module'[v] \subseteq module[v]
  BY DEF GenErr, GenPanic, FinishPanic, outVars, Typed
<1>5. Built' \subseteq Built
  BY <1>1, <1>4 DEF Built, RootBuilt
<1>. QED
  BY <1>1, <1>2, <1>3, <1>5, FailRefines DEF Outcome

\* The main thread fails with its own body, at the assert on the flag, or at the write-back.
LEMMA MainFailRefines ==
  ASSUME PoolInv, MainGenFail \/ MainWritebackFail \/ (MainJoin /\ panicked)
  PROVE  Compiles!Fail
<1>. USE PoolAssumption DEF PoolInv, IInv, DeliveryInv, Threads
<1>1. pc[Main] \in {"gen", "push", "join"} /\ pc'[Main] \in {"failed", "aborted"}
  BY DEF MainGenFail, MainWritebackFail, MainJoin, Goto, Typed
<1>2. UNCHANGED <<instance_to_symbol, module>>
  BY DEF MainGenFail, MainWritebackFail, MainJoin, tableVars, outVars
<1>3. RootBuilt' => RootBuilt
  BY <1>1 DEF MainGenFail, MainWritebackFail, MainJoin, RootBuilt, Goto, Typed
<1>4. Built' \subseteq Built
  BY <1>2, <1>3 DEF Built
<1>. QED
  BY <1>1, <1>2, <1>4, FailRefines DEF Outcome

\* The compilation succeeds when all is built and nothing failed.
LEMMA SuccessRefines ==
  ASSUME PoolInv, MainPush \/ (MainJoin /\ ~panicked /\ ~RootOnMain)
  PROVE  Compiles!Succeed
<1>. USE PoolAssumption DEF PoolInv, IInv, DeliveryInv, Threads
<1>1. pc[Main] \in {"push", "join"} /\ pc'[Main] = "ok"
  BY DEF MainPush, MainJoin, Goto, Typed
<1>2. ~panicked /\ \A w \in Workers : pc[w] = "done"
  BY DEF MainPush, MainJoin, Reported, Control, WorkerLabels
<1>3. ~Failing
  BY <1>2 DEF Failing, Reported
<1>4. Built = instance_to_symbol
  BY <1>1, <1>2, AllBuilt
<1>5. UNCHANGED <<instance_to_symbol, module>>
  BY DEF MainPush, MainJoin, tableVars, outVars
<1>6. Built' = Built
  BY <1>1, <1>5 DEF Built, RootBuilt
<1>. QED
  BY <1>1, <1>3, <1>4, <1>5, <1>6 DEF Compiles!Succeed, Outcome

\* Every step is one of those, or is not seen.
LEMMA StepRefines == ASSUME PoolInv, [Next]_vars PROVE Compiles!Next \/ Unseen
<1>. USE PoolAssumption DEF Typed, Threads, Goto, NotifyAll, poolVars, tableVars, genVars,
                            outVars, PoolInv, IInv, Unseen, Built, RootBuilt, Outcome, Failing
<1>1. ASSUME NEW t \in Threads, NEW k \in Instances, CallHit(t, k) PROVE Compiles!Next \/ Unseen
  BY <1>1 DEF CallHit
<1>2. ASSUME NEW t \in Threads, NEW k \in Instances, CallMiss(t, k) PROVE Compiles!Next \/ Unseen
  BY <1>2 DEF CallMiss
<1>3. ASSUME NEW t \in Threads, InstanceExists(t) PROVE Compiles!Next \/ Unseen
  BY <1>3 DEF InstanceExists
<1>4. ASSUME NEW t \in Threads, NewInstance(t) PROVE Compiles!Next \/ Unseen
  BY <1>4, RequestRefines DEF DeliveryInv, BodyOfTask, NewInstance, Compiles!Next
<1>5. ASSUME NEW t \in Threads, AddTaskCount(t) PROVE Compiles!Next \/ Unseen
  BY <1>5 DEF AddTaskCount
<1>6. ASSUME NEW t \in Threads, AddTaskSend(t) PROVE Compiles!Next \/ Unseen
  BY <1>6 DEF AddTaskSend, Control
<1>7. ASSUME NEW w \in Workers, RecvTask(w) PROVE Compiles!Next \/ Unseen
  BY <1>7 DEF RecvTask
<1>8. ASSUME NEW w \in Workers, RecvStop(w) PROVE Compiles!Next \/ Unseen
  BY <1>8 DEF RecvStop
<1>9. ASSUME NEW w \in Workers, GenOk(w) PROVE Compiles!Next \/ Unseen
  BY <1>9, BuildRefines DEF Compiles!Next
<1>10. ASSUME NEW w \in Workers, GenErr(w) PROVE Compiles!Next \/ Unseen
  BY <1>10, WorkerFailRefines DEF Compiles!Next
<1>11. ASSUME NEW w \in Workers, GenPanic(w) PROVE Compiles!Next \/ Unseen
  BY <1>11, WorkerFailRefines DEF Compiles!Next
<1>12. ASSUME NEW w \in Workers, DecrCount(w) PROVE Compiles!Next \/ Unseen
  BY <1>12 DEF DecrCount
<1>13. ASSUME NEW w \in Workers, NotifyTask(w) PROVE Compiles!Next \/ Unseen
  BY <1>13 DEF NotifyTask
<1>14. ASSUME NEW w \in Workers, FinishPanic(w) PROVE Compiles!Next \/ Unseen
  BY <1>14, WorkerFailRefines DEF Compiles!Next
<1>15. ASSUME NEW w \in Workers, Deliver(w) PROVE Compiles!Next \/ Unseen
  BY <1>15 DEF Deliver, Buffer
<1>16. ASSUME NEW w \in Workers, IncrCount(w) PROVE Compiles!Next \/ Unseen
  BY <1>16 DEF IncrCount
<1>17. ASSUME NEW w \in Workers, NotifyEnd(w) PROVE Compiles!Next \/ Unseen
  BY <1>17 DEF NotifyEnd
<1>18. ASSUME NEW w \in Workers, MonitorJoin(w) PROVE Compiles!Next \/ Unseen
  BY <1>18 DEF MonitorJoin
<1>19. ASSUME NEW w \in Workers, MonitorPanic(w) PROVE Compiles!Next \/ Unseen
  BY <1>19 DEF MonitorPanic
<1>20. ASSUME NEW w \in Workers, MonitorNotify(w) PROVE Compiles!Next \/ Unseen
  BY <1>20 DEF MonitorNotify
<1>21. ASSUME MainGenOk PROVE Compiles!Next \/ Unseen
  BY <1>21, RootRefines DEF Compiles!Next
<1>22. ASSUME MainGenFail PROVE Compiles!Next \/ Unseen
  BY <1>22, MainFailRefines DEF Compiles!Next
<1>23. ASSUME MainLock PROVE Compiles!Next \/ Unseen
  BY <1>23 DEF MainLock, Phase, Label
<1>24. ASSUME MainLeave PROVE Compiles!Next \/ Unseen
  BY <1>24 DEF MainLeave, Phase, Label
<1>25. ASSUME MainDecideToWait PROVE Compiles!Next \/ Unseen
  BY <1>25 DEF MainDecideToWait, Phase, Label
<1>26. ASSUME MainWait PROVE Compiles!Next \/ Unseen
  BY <1>26 DEF MainWait, Phase, Label
<1>27. ASSUME MainWake PROVE Compiles!Next \/ Unseen
  BY <1>27 DEF MainWake, Phase, Label
<1>28. ASSUME MainSendStop PROVE Compiles!Next \/ Unseen
  BY <1>28 DEF MainSendStop
<1>29. ASSUME MainSentStops PROVE Compiles!Next \/ Unseen
  BY <1>29 DEF MainSentStops
<1>30. ASSUME MainJoin PROVE Compiles!Next \/ Unseen
  <2>1. CASE panicked
    BY <1>30, <2>1, MainFailRefines DEF Compiles!Next
  <2>2. CASE ~panicked /\ ~RootOnMain
    BY <1>30, <2>2, SuccessRefines DEF Compiles!Next
  <2>3. CASE ~panicked /\ RootOnMain
    BY <1>30, <2>3 DEF MainJoin
  <2>. QED
    BY <2>1, <2>2, <2>3
<1>31. ASSUME MainPush PROVE Compiles!Next \/ Unseen
  BY <1>31, SuccessRefines DEF Compiles!Next
<1>32. ASSUME MainWritebackFail PROVE Compiles!Next \/ Unseen
  BY <1>32, MainFailRefines DEF Compiles!Next
<1>33. ASSUME UNCHANGED vars PROVE Compiles!Next \/ Unseen
  BY <1>33 DEF vars, poolVars, tableVars, genVars, outVars
<1>. QED
  BY <1>1, <1>2, <1>3, <1>4, <1>5, <1>6, <1>7, <1>8, <1>9, <1>10, <1>11, <1>12, <1>13, <1>14,
     <1>15, <1>16, <1>17, <1>18, <1>19, <1>20, <1>21, <1>22, <1>23, <1>24, <1>25, <1>26, <1>27,
     <1>28, <1>29, <1>30, <1>31, <1>32, <1>33 DEF Next, Calling, Working, Monitoring, Waiting,
     Terminated

\* Every run of the pool is a run of the compilation it stands for, under any schedule.
THEOREM PoolImplementsCompilation == Spec => ImplementsCompilation
<1>1. Init => Compiles!Init
  BY PoolAssumption DEF Init, Compiles!Init, Built, RootBuilt, Outcome, Failing, Threads
<1>2. PoolInv /\ [Next]_vars => [Compiles!Next]_Compiles!vars
  BY StepRefines DEF Unseen, Compiles!vars
<1>. QED
  BY DeliveryInvariance, <1>1, <1>2, PTL DEF Spec, ImplementsCompilation, Compiles!Spec
=============================================================================

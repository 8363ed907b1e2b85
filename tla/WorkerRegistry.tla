--------------------------- MODULE WorkerRegistry ---------------------------
(***************************************************************************)
(* The code-generation thread pool of nac3core (codegen/mod.rs), together  *)
(* with the monomorphisation protocol that feeds it (codegen/expr.rs).     *)
(*                                                                         *)
(* Worker threads take CodeGenTasks from one unbounded channel.  A task is *)
(* one function instance; generating its body meets calls, and a call to   *)
(* an instance nobody asked for yet queues a new task.  The main thread    *)
(* sleeps on a condition variable until the count of outstanding tasks is  *)
(* zero, sends one None (Stop) per worker, sleeps again until every worker *)
(* delivered its module, and joins the monitor threads, one per worker,    *)
(* which report the panics.                                                *)
(*                                                                         *)
(* A step of the model is the longest piece of a thread's code that        *)
(* touches shared state once: a critical section of the task_count mutex,  *)
(* a channel operation, an access to the panicked flag, a notify_all.      *)
(***************************************************************************)
EXTENDS Integers, Sequences, FiniteSets

CONSTANTS
    Workers,    \* the worker threads, one per CodeGenerator
    Main,       \* the thread that waits for them
    Instances,  \* function instances: a definition, its static ids, its substitution
    Root,       \* the instance of the entry point ("run" or "__modinit__")
    Calls,      \* Calls[k]: the instances the body of k calls
    Defs,       \* top-level function definitions, each behind a RwLock
    DefOf,      \* DefOf[k]: the definition k is an instance of
    RootOnMain, \* nac3artiq generates the root in the main thread, nac3standalone queues it
    MayErr,     \* the instances whose gen_func may return Err
    MayPanic,   \* the instances whose gen_func may panic
    BadBackend, \* the workers whose verify, run_passes or callback may panic
    Stop,       \* the None of the channel
    NoTask,     \* "no instance"
    NoThread    \* "no thread"

Threads == Workers \cup {Main}

ASSUME PoolAssumption ==
    /\ IsFiniteSet(Workers) /\ Main \notin Workers
    /\ IsFiniteSet(Instances) /\ Root \in Instances
    /\ Calls \in [Instances -> SUBSET Instances]
    /\ DefOf \in [Instances -> Defs]
    /\ RootOnMain \in BOOLEAN
    /\ MayErr \subseteq Instances /\ MayPanic \subseteq Instances
    /\ BadBackend \subseteq Workers
    /\ Stop \notin Instances /\ NoTask \notin Instances
    /\ NoThread \notin Threads

VARIABLES
    channel,            \* the unbounded FIFO of Option<CodeGenTask>
    task_count,         \* outstanding tasks, later the finished workers
    count_lock,         \* the thread that keeps the task_count mutex across steps
    panicked,           \* the AtomicBool
    waiting,            \* the main thread is parked on wait_condvar
    instance_to_symbol, \* the instances that have a symbol
    def_lock,           \* def_lock[d]: the thread holding the write lock of d
    pc,                 \* where each thread is
    task,               \* task[t]: the instance t generates
    to_call,            \* to_call[t]: calls of task[t] not yet generated
    callee,             \* callee[t]: the instance t is about to create
    module,             \* module[w]: the instances in w's current ModuleContext
    errors,             \* errors[w]: w collected a codegen error
    monitor,            \* the monitor thread of each worker
    stops,              \* how many None the main thread has sent
    buffers             \* the bitcode buffers, in the order they were pushed

vars == <<channel, task_count, count_lock, panicked, waiting, instance_to_symbol,
          def_lock, pc, task, to_call, callee, module, errors, monitor, stops, buffers>>

poolVars  == <<channel, task_count, count_lock, panicked, waiting>>
tableVars == <<instance_to_symbol, def_lock>>
genVars   == <<task, to_call, callee>>
outVars   == <<module, errors, monitor, stops, buffers>>

Buffer(t, m) == [by |-> t, has |-> m]

Init ==
    /\ channel = <<>> /\ task_count = 0 /\ count_lock = NoThread
    /\ panicked = FALSE /\ waiting = FALSE
    /\ instance_to_symbol = {Root}   \* both entry points insert the root themselves
    /\ def_lock = [d \in Defs |-> NoThread]
    /\ pc = [t \in Threads |->
               IF t # Main THEN "recv" ELSE IF RootOnMain THEN "gen" ELSE "count"]
    /\ task = [t \in Threads |-> IF t = Main /\ RootOnMain THEN Root ELSE NoTask]
    /\ to_call = [t \in Threads |-> IF t = Main /\ RootOnMain THEN Calls[Root] ELSE {}]
    /\ callee = [t \in Threads |-> IF t = Main /\ ~RootOnMain THEN Root ELSE NoTask]
    /\ module = [w \in Workers |-> {}]
    /\ errors = [w \in Workers |-> FALSE]
    /\ monitor = [w \in Workers |-> "join"]
    /\ stops = 0
    /\ buffers = <<>>

Goto(t, label) == pc' = [pc EXCEPT ![t] = label]
CountFree == count_lock = NoThread
NotifyAll == waiting' = FALSE

-----------------------------------------------------------------------------
(* Calls: gen_call looks the instance up under the definition's read lock, *)
(* drops it, and on a miss takes the write lock and looks again.           *)

\* Mutant: any symbol of the definition is taken for the instance's
CallHit_AnyInstance(t, k) ==
    /\ pc[t] = "gen" /\ k \in to_call[t]
    /\ def_lock[DefOf[k]] = NoThread
    /\ \E j \in instance_to_symbol : DefOf[j] = DefOf[k]
    /\ to_call' = [to_call EXCEPT ![t] = @ \ {k}]
    /\ UNCHANGED <<poolVars, tableVars, pc, task, callee, outVars>>

CallHit(t, k) ==
    /\ pc[t] = "gen" /\ k \in to_call[t]
    /\ def_lock[DefOf[k]] = NoThread
    /\ k \in instance_to_symbol
    /\ to_call' = [to_call EXCEPT ![t] = @ \ {k}]
    /\ UNCHANGED <<poolVars, tableVars, pc, task, callee, outVars>>

CallMiss(t, k) ==
    /\ pc[t] = "gen" /\ k \in to_call[t]
    /\ def_lock[DefOf[k]] = NoThread
    /\ k \notin instance_to_symbol
    /\ callee' = [callee EXCEPT ![t] = k]
    /\ to_call' = [to_call EXCEPT ![t] = @ \ {k}]
    /\ Goto(t, "write")
    /\ UNCHANGED <<poolVars, tableVars, task, outVars>>

\* gen_func_instance, under the write lock: another thread was first
InstanceExists(t) ==
    /\ pc[t] = "write"
    /\ def_lock[DefOf[callee[t]]] = NoThread
    /\ callee[t] \in instance_to_symbol
    /\ callee' = [callee EXCEPT ![t] = NoTask]
    /\ Goto(t, "gen")
    /\ UNCHANGED <<poolVars, tableVars, task, to_call, outVars>>

\* Mutant: the second look-up, under the write lock, is missing
NewInstance_NoRecheck(t) ==
    /\ pc[t] = "write"
    /\ def_lock[DefOf[callee[t]]] = NoThread
    /\ instance_to_symbol' = instance_to_symbol \cup {callee[t]}
    /\ def_lock' = [def_lock EXCEPT ![DefOf[callee[t]]] = t]
    /\ Goto(t, "count")
    /\ UNCHANGED <<poolVars, task, to_call, callee, outVars>>

\* gen_func_instance, under the write lock, which add_task still runs under
NewInstance(t) ==
    /\ pc[t] = "write"
    /\ def_lock[DefOf[callee[t]]] = NoThread
    /\ callee[t] \notin instance_to_symbol
    /\ instance_to_symbol' = instance_to_symbol \cup {callee[t]}
    /\ def_lock' = [def_lock EXCEPT ![DefOf[callee[t]]] = t]
    /\ Goto(t, "count")
    /\ UNCHANGED <<poolVars, task, to_call, callee, outVars>>

\* add_task, first statement
AddTaskCount(t) ==
    /\ pc[t] = "count" /\ CountFree
    /\ task_count' = task_count + 1
    /\ Goto(t, "send")
    /\ UNCHANGED <<channel, count_lock, panicked, waiting, tableVars, genVars, outVars>>

\* Mutant: the task is sent twice
AddTaskSend_Twice(t) ==
    /\ pc[t] = "send"
    /\ channel' = channel \o <<callee[t], callee[t]>>
    /\ callee' = [callee EXCEPT ![t] = NoTask]
    /\ def_lock' = [d \in Defs |-> IF def_lock[d] = t THEN NoThread ELSE def_lock[d]]
    /\ Goto(t, IF task[t] = NoTask THEN "lock1" ELSE "gen")
    /\ UNCHANGED <<task_count, count_lock, panicked, waiting, instance_to_symbol,
                   task, to_call, outVars>>

\* add_task, second statement; its caller's write guard is dropped with it
AddTaskSend(t) ==
    /\ pc[t] = "send"
    /\ channel' = Append(channel, callee[t])
    /\ callee' = [callee EXCEPT ![t] = NoTask]
    /\ def_lock' = [d \in Defs |-> IF def_lock[d] = t THEN NoThread ELSE def_lock[d]]
    /\ Goto(t, IF task[t] = NoTask THEN "lock1" ELSE "gen")
    /\ UNCHANGED <<task_count, count_lock, panicked, waiting, instance_to_symbol,
                   task, to_call, outVars>>

-----------------------------------------------------------------------------
(* worker_thread *)

RecvTask(w) ==
    /\ pc[w] = "recv" /\ channel # <<>> /\ Head(channel) # Stop
    /\ channel' = Tail(channel)
    /\ task' = [task EXCEPT ![w] = Head(channel)]
    /\ to_call' = [to_call EXCEPT ![w] = Calls[Head(channel)]]
    /\ Goto(w, "gen")
    /\ UNCHANGED <<task_count, count_lock, panicked, waiting, tableVars, callee, outVars>>

RecvStop(w) ==
    /\ pc[w] = "recv" /\ channel # <<>> /\ Head(channel) = Stop
    /\ channel' = Tail(channel)
    /\ Goto(w, "finish")
    /\ UNCHANGED <<task_count, count_lock, panicked, waiting, tableVars, genVars, outVars>>

\* Mutant: every task starts a fresh module
GenOk_FreshModule(w) ==
    /\ pc[w] = "gen" /\ to_call[w] = {}
    /\ module' = [module EXCEPT ![w] = {task[w]}]
    /\ Goto(w, "decr")
    /\ UNCHANGED <<poolVars, tableVars, genVars, errors, monitor, stops, buffers>>

GenOk(w) ==
    /\ pc[w] = "gen" /\ to_call[w] = {}
    /\ module' = [module EXCEPT ![w] = @ \cup {task[w]}]
    /\ Goto(w, "decr")
    /\ UNCHANGED <<poolVars, tableVars, genVars, errors, monitor, stops, buffers>>

\* Mutant: the error path skips the decrement
GenErr_Uncounted(w) ==
    /\ pc[w] = "gen" /\ task[w] \in MayErr
    /\ errors' = [errors EXCEPT ![w] = TRUE]
    /\ module' = [module EXCEPT ![w] = {}]
    /\ to_call' = [to_call EXCEPT ![w] = {}]
    /\ task' = [task EXCEPT ![w] = NoTask]
    /\ Goto(w, "notify")
    /\ UNCHANGED <<poolVars, tableVars, callee, monitor, stops, buffers>>

\* Err: the broken module is replaced by an empty one
GenErr(w) ==
    /\ pc[w] = "gen" /\ task[w] \in MayErr
    /\ errors' = [errors EXCEPT ![w] = TRUE]
    /\ module' = [module EXCEPT ![w] = {}]
    /\ to_call' = [to_call EXCEPT ![w] = {}]
    /\ Goto(w, "decr")
    /\ UNCHANGED <<poolVars, tableVars, task, callee, monitor, stops, buffers>>

\* A panic unwinds through the write guard, also between the insertion and add_task
GenPanic(w) ==
    /\ pc[w] \in {"gen", "count"} /\ task[w] \in MayPanic
    /\ def_lock' = [d \in Defs |-> IF def_lock[d] = w THEN NoThread ELSE def_lock[d]]
    /\ Goto(w, "panicked")
    /\ UNCHANGED <<poolVars, instance_to_symbol, genVars, outVars>>

DecrCount(w) ==
    /\ pc[w] = "decr" /\ CountFree
    /\ task_count' = task_count - 1
    /\ task' = [task EXCEPT ![w] = NoTask]
    /\ Goto(w, "notify")
    /\ UNCHANGED <<channel, count_lock, panicked, waiting, tableVars, to_call, callee, outVars>>

\* Mutant: no notify_all after a task
NotifyTask_Missing(w) ==
    /\ pc[w] = "notify"
    /\ Goto(w, "recv")
    /\ UNCHANGED <<poolVars, tableVars, genVars, outVars>>

NotifyTask(w) ==
    /\ pc[w] = "notify"
    /\ NotifyAll
    /\ Goto(w, "recv")
    /\ UNCHANGED <<channel, task_count, count_lock, panicked, tableVars, genVars, outVars>>

\* the assert on errors, module.verify(), run_passes and f.run: each may panic
FinishPanic(w) ==
    /\ pc[w] = "finish" /\ (errors[w] \/ w \in BadBackend)
    /\ Goto(w, "panicked")
    /\ UNCHANGED <<poolVars, tableVars, genVars, outVars>>

\* Mutant: the assert on errors is missing
Deliver_DespiteErrors(w) ==
    /\ pc[w] = "finish"
    /\ buffers' = Append(buffers, Buffer(w, module[w]))
    /\ Goto(w, "incr")
    /\ UNCHANGED <<poolVars, tableVars, genVars, module, errors, monitor, stops>>

\* f.run pushes the module's bitcode under the buffers' own mutex
Deliver(w) ==
    /\ pc[w] = "finish" /\ ~errors[w]
    /\ buffers' = Append(buffers, Buffer(w, module[w]))
    /\ Goto(w, "incr")
    /\ UNCHANGED <<poolVars, tableVars, genVars, module, errors, monitor, stops>>

IncrCount(w) ==
    /\ pc[w] = "incr" /\ CountFree
    /\ task_count' = task_count + 1
    /\ Goto(w, "notifyEnd")
    /\ UNCHANGED <<channel, count_lock, panicked, waiting, tableVars, genVars, outVars>>

NotifyEnd(w) ==
    /\ pc[w] = "notifyEnd"
    /\ NotifyAll
    /\ Goto(w, "done")
    /\ UNCHANGED <<channel, task_count, count_lock, panicked, tableVars, genVars, outVars>>

-----------------------------------------------------------------------------
(* The monitor of a worker joins it; after a panic it sets the flag and    *)
(* notifies, without the task_count mutex.                                 *)

MonitorJoin(w) ==
    /\ monitor[w] = "join" /\ pc[w] = "done"
    /\ monitor' = [monitor EXCEPT ![w] = "done"]
    /\ UNCHANGED <<poolVars, tableVars, pc, genVars, module, errors, stops, buffers>>

MonitorPanic(w) ==
    /\ monitor[w] = "join" /\ pc[w] = "panicked"
    /\ panicked' = TRUE
    /\ monitor' = [monitor EXCEPT ![w] = "notify"]
    /\ UNCHANGED <<channel, task_count, count_lock, waiting, tableVars, pc, genVars,
                   module, errors, stops, buffers>>

MonitorNotify(w) ==
    /\ monitor[w] = "notify"
    /\ NotifyAll
    /\ monitor' = [monitor EXCEPT ![w] = "done"]
    /\ UNCHANGED <<channel, task_count, count_lock, panicked, tableVars, pc, genVars,
                   module, errors, stops, buffers>>

-----------------------------------------------------------------------------
(* The main thread.  Phase 1 waits for task_count = 0, phase 2 for         *)
(* task_count = thread_count; each step is taken in either phase.          *)

Phase(one, two) == IF pc[Main] = one THEN 1 ELSE 2
Target(phase) == IF phase = 1 THEN 0 ELSE Cardinality(Workers)
Label(phase, one, two) == IF phase = 1 THEN one ELSE two

\* nac3artiq: the root's body is generated here; an Err or a panic skips the wait
MainGenOk ==
    /\ pc[Main] = "gen" /\ to_call[Main] = {}
    /\ Goto(Main, "lock1")
    /\ UNCHANGED <<poolVars, tableVars, genVars, outVars>>

MainGenFail ==
    /\ pc[Main] = "gen" /\ Root \in MayErr \cup MayPanic
    /\ Goto(Main, "failed")
    /\ UNCHANGED <<poolVars, tableVars, genVars, outVars>>

MainLock ==
    /\ pc[Main] \in {"lock1", "lock2"} /\ CountFree
    /\ count_lock' = Main
    /\ Goto(Main, Label(Phase("lock1", "lock2"), "check1", "check2"))
    /\ UNCHANGED <<channel, task_count, panicked, waiting, tableVars, genVars, outVars>>

\* Mutant: phase 1 ends when the channel is empty, whatever the workers are doing
MainLeave_EmptyChannel ==
    /\ pc[Main] \in {"check1", "check2"}
    /\ \/ pc[Main] = "check1" /\ channel = <<>>
       \/ pc[Main] = "check2" /\ task_count = Target(2)
       \/ panicked
    /\ count_lock' = NoThread
    /\ Goto(Main, Label(Phase("check1", "check2"), "stop", "join"))
    /\ UNCHANGED <<channel, task_count, panicked, waiting, tableVars, genVars, outVars>>

\* the loop condition fails, or the flag is up: leave the phase, drop the guard
MainLeave ==
    /\ pc[Main] \in {"check1", "check2"}
    /\ \/ task_count = Target(Phase("check1", "check2"))
       \/ panicked
    /\ count_lock' = NoThread
    /\ Goto(Main, Label(Phase("check1", "check2"), "stop", "join"))
    /\ UNCHANGED <<channel, task_count, panicked, waiting, tableVars, genVars, outVars>>

\* both tests are done, wait() is not yet called; the guard is still held
MainDecideToWait ==
    /\ pc[Main] \in {"check1", "check2"}
    /\ task_count # Target(Phase("check1", "check2"))
    /\ ~panicked
    /\ Goto(Main, Label(Phase("check1", "check2"), "wait1", "wait2"))
    /\ UNCHANGED <<poolVars, tableVars, genVars, outVars>>

\* Condvar::wait parks the thread and releases the mutex in one step
MainWait ==
    /\ pc[Main] \in {"wait1", "wait2"}
    /\ waiting' = TRUE
    /\ count_lock' = NoThread
    /\ Goto(Main, Label(Phase("wait1", "wait2"), "parked1", "parked2"))
    /\ UNCHANGED <<channel, task_count, panicked, tableVars, genVars, outVars>>

MainWake ==
    /\ pc[Main] \in {"parked1", "parked2"} /\ ~waiting /\ CountFree
    /\ count_lock' = Main
    /\ Goto(Main, Label(Phase("parked1", "parked2"), "check1", "check2"))
    /\ UNCHANGED <<channel, task_count, panicked, waiting, tableVars, genVars, outVars>>

MainSendStop ==
    /\ pc[Main] = "stop" /\ stops < Cardinality(Workers)
    /\ channel' = Append(channel, Stop)
    /\ stops' = stops + 1
    /\ UNCHANGED <<task_count, count_lock, panicked, waiting, tableVars, pc, genVars,
                   module, errors, monitor, buffers>>

MainSentStops ==
    /\ pc[Main] = "stop" /\ stops = Cardinality(Workers)
    /\ Goto(Main, "lock2")
    /\ UNCHANGED <<poolVars, tableVars, genVars, outVars>>

\* Mutant: the main module is not pushed after the workers'
MainJoin_NoPush ==
    /\ pc[Main] = "join"
    /\ \A w \in Workers : monitor[w] = "done"
    /\ Goto(Main, IF panicked THEN "aborted" ELSE "ok")
    /\ UNCHANGED <<poolVars, tableVars, genVars, outVars>>

MainJoin ==
    /\ pc[Main] = "join"
    /\ \A w \in Workers : monitor[w] = "done"
    /\ Goto(Main, IF panicked THEN "aborted" ELSE IF RootOnMain THEN "push" ELSE "ok")
    /\ UNCHANGED <<poolVars, tableVars, genVars, outVars>>

\* nac3artiq: the main module is pushed last
MainPush ==
    /\ pc[Main] = "push"
    /\ buffers' = Append(buffers, Buffer(Main, {Root}))
    /\ Goto(Main, "ok")
    /\ UNCHANGED <<poolVars, tableVars, genVars, module, errors, monitor, stops>>

\* ... unless the write-back of the host attributes, generated after the wait, fails
MainWritebackFail ==
    /\ pc[Main] = "push" /\ Root \in MayErr
    /\ Goto(Main, "failed")
    /\ UNCHANGED <<poolVars, tableVars, genVars, outVars>>

-----------------------------------------------------------------------------

Calling(t) ==
    \/ \E k \in Instances : CallHit(t, k) \/ CallMiss(t, k)
    \/ InstanceExists(t) \/ NewInstance(t) \/ AddTaskCount(t) \/ AddTaskSend(t)

Working(w) ==
    \/ RecvTask(w) \/ RecvStop(w) \/ GenOk(w) \/ GenErr(w) \/ GenPanic(w)
    \/ DecrCount(w) \/ NotifyTask(w) \/ FinishPanic(w) \/ Deliver(w)
    \/ IncrCount(w) \/ NotifyEnd(w)

Monitoring(w) == MonitorJoin(w) \/ MonitorPanic(w) \/ MonitorNotify(w)

Waiting ==
    \/ MainGenOk \/ MainGenFail \/ MainLock \/ MainLeave \/ MainDecideToWait
    \/ MainWait \/ MainWake \/ MainSendStop \/ MainSentStops \/ MainJoin \/ MainPush
    \/ MainWritebackFail

\* The program has returned from, or unwound out of, the compilation
Ended == pc[Main] \in {"ok", "aborted", "failed"}

Terminated ==
    /\ Ended
    /\ UNCHANGED vars

Next ==
    \/ \E t \in Threads : Calling(t)
    \/ \E w \in Workers : Working(w) \/ Monitoring(w)
    \/ Waiting
    \/ Terminated

Spec == Init /\ [][Next]_vars

\* The operating system keeps running every thread that can run
FairSpec ==
    /\ Spec
    /\ \A t \in Threads : WF_vars(Calling(t))
    /\ \A w \in Workers : WF_vars(Working(w)) /\ WF_vars(Monitoring(w))
    /\ WF_vars(Waiting)
-----------------------------------------------------------------------------
(* Properties *)

QueuedTasks == {channel[i] : i \in DOMAIN channel} \ {Stop}

\* queued, or received and not yet accounted for, or counted and about to be queued
Outstanding ==
    QueuedTasks
        \cup {task[w] : w \in {v \in Workers : task[v] # NoTask}}
        \cup {callee[t] : t \in {u \in Threads : pc[u] = "send"}}

Finished == {w \in Workers : pc[w] \in {"notifyEnd", "done"}}

Labels == {"recv", "gen", "write", "count", "send", "decr", "notify", "finish", "incr",
           "notifyEnd", "done", "panicked", "lock1", "check1", "wait1", "parked1", "stop",
           "lock2", "check2", "wait2", "parked2", "join", "push", "ok", "aborted", "failed"}

Typed ==
    /\ channel \in Seq(Instances \cup {Stop})
    /\ count_lock \in {Main, NoThread}
    /\ panicked \in BOOLEAN /\ waiting \in BOOLEAN
    /\ instance_to_symbol \subseteq Instances
    /\ def_lock \in [Defs -> Threads \cup {NoThread}]
    /\ pc \in [Threads -> Labels]
    /\ task \in [Threads -> Instances \cup {NoTask}]
    /\ to_call \in [Threads -> SUBSET Instances]
    /\ callee \in [Threads -> Instances \cup {NoTask}]
    /\ \A t \in Threads : pc[t] \in {"write", "count", "send"} => callee[t] \in Instances
    /\ module \in [Workers -> SUBSET Instances]
    /\ errors \in [Workers -> BOOLEAN]
    /\ monitor \in [Workers -> {"join", "notify", "done"}]
    /\ stops \in Nat
    /\ buffers \in Seq([by : Threads, has : SUBSET Instances])

\* The variables have their types, and a thread has a callee exactly while it creates one;
\* the usize that counts the tasks never drops below zero.
TypeOK == Typed /\ task_count \in Nat

\* task_count is what its comment says, over every interleaving of the two statements of
\* add_task, of worker_thread's decrement and of its final increment: the tasks not yet
\* generated plus the workers that delivered.  wait_tasks_complete trusts it twice.
CountExact == task_count = Cardinality(Outstanding) + Cardinality(Finished)

Places(k) ==
    {<<"queue", i>> : i \in {j \in DOMAIN channel : channel[j] = k}}
        \cup {<<"thread", t>> : t \in {u \in Threads : task[u] = k}}
        \cup {<<"module", w>> : w \in {v \in Workers : k \in module[v] /\ task[v] # k}}

\* gen_call looks an instance up, drops the read lock and only then takes the write lock:
\* two threads that miss together still create one task, so that no symbol is defined by
\* two modules.
InstanceOnce == \A k \in Instances : \A p, q \in Places(k) : p = q

\* The main thread sends None only after the last task was generated, unless a worker
\* panicked: no task is ever queued behind a None, where nobody would take it.
NothingBehindStop == stops > 0 /\ ~panicked => Outstanding = {}

\* Every instance the program can reach from the root
Needed ==
    {k \in Instances : \A S \in SUBSET Instances :
        (Root \in S /\ \A j \in S : Calls[j] \subseteq S) => k \in S}

\* When the compilation returns, the linker gets every needed instance, each from exactly
\* one buffer, and nothing else: no module is lost, empty after a recovery, or pushed twice.
WholeProgram ==
    pc[Main] = "ok" =>
        \A k \in Instances :
            Cardinality({i \in DOMAIN buffers : k \in buffers[i].has})
                = IF k \in Needed THEN 1 ELSE 0

\* nac3artiq links the other modules into buffers.last() and expects the main module there:
\* by the time it is pushed every worker has delivered.
MainModuleLast ==
    pc[Main] = "ok" /\ RootOnMain =>
        /\ buffers # <<>> /\ buffers[Len(buffers)].by = Main
        /\ \A w \in Workers : \E i \in DOMAIN buffers : buffers[i].by = w

\* A failure anywhere is reported: if a worker met an error or panicked, the main thread
\* never returns normally, and while nothing failed it is never told so.
FailureReported ==
    /\ (\E w \in Workers : errors[w] \/ pc[w] = "panicked") => pc[Main] \notin {"push", "ok"}
    /\ pc[Main] = "aborted" => \E w \in Workers : pc[w] = "panicked"

\* Once the None are being sent and nobody panicked, no thread asks for another instance.
RequestsClosed == [][stops > 0 /\ ~panicked => UNCHANGED instance_to_symbol]_vars

\* The pool implements the compilation: what is requested is what has a symbol.
Failing == \E w \in Workers : errors[w] \/ pc[w] = "panicked"
RootBuilt == RootOnMain /\ pc[Main] \notin {"gen", "write", "count", "send", "failed"}

Built == (UNION {module[w] : w \in Workers}) \cup (IF RootBuilt THEN {Root} ELSE {})
Outcome ==
    CASE pc[Main] = "ok" -> "ok"
      [] pc[Main] \in {"aborted", "failed"} -> "failed"
      [] OTHER -> IF Failing THEN "failing" ELSE "running"

Compiles == INSTANCE Compilation WITH
    requested <- instance_to_symbol, built <- Built, outcome <- Outcome

\* Every run of the pool is a run of the compilation it stands for: instances are requested
\* only by instances, built only when their callees are requested, and it succeeds only
\* when all is built.
ImplementsCompilation == Compiles!Spec

\* Unless a worker panics, wait_tasks_complete returns: neither of its two waits misses the
\* task or the worker it counts on.
Completes == <>(Ended \/ \E w \in Workers : pc[w] = "panicked")

\* wait_tasks_complete ends, by returning or by its assert, whatever fails.
AlwaysEnds == <>Ended
=============================================================================

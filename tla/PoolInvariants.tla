--------------------------- MODULE PoolInvariants ---------------------------
(***************************************************************************)
(* Why the safety properties of WorkerRegistry hold: an inductive          *)
(* invariant, in named parts.  TLC checks it on the instances of the pool  *)
(* runs; WorkerRegistryProofs proves it for every instance.                *)
(***************************************************************************)
EXTENDS WorkerRegistry

BusyLabels == {"gen", "write", "count", "send", "decr"}
IdleLabels == {"recv", "notify", "finish", "incr", "notifyEnd", "done"}
WorkerLabels == BusyLabels \cup IdleLabels \cup {"panicked"}

\* the main thread before its first wait, and after the wait for task_count = 0
StartLabels == {"gen", "write", "count", "send"}
FirstWait == {"lock1", "check1", "wait1", "parked1"}
Closing == {"stop", "lock2", "check2", "wait2", "parked2", "join", "push", "ok", "aborted"}
MainLabels == StartLabels \cup FirstWait \cup Closing \cup {"failed"}

\* A worker has a task exactly while it is busy, or it panicked with one; the main thread
\* sends no None before it has waited.
Control ==
    /\ \A w \in Workers :
          /\ pc[w] \in WorkerLabels
          /\ pc[w] \in BusyLabels => task[w] \in Instances
          /\ pc[w] \in IdleLabels => task[w] = NoTask
    /\ pc[Main] \in MainLabels
    /\ task[Main] = IF RootOnMain THEN Root ELSE NoTask
    /\ pc[Main] \in StartLabels \cup FirstWait => stops = 0

\* t has inserted the symbol of callee[t] and not yet queued its task
Creating(t) == pc[t] \in {"count", "send"}

\* Whatever has a task, or is becoming one, or was generated, has a symbol.
Known ==
    /\ Root \in instance_to_symbol
    /\ \A i \in DOMAIN channel : channel[i] = Stop \/ channel[i] \in instance_to_symbol
    /\ \A t \in Threads : task[t] = NoTask \/ task[t] \in instance_to_symbol
    /\ \A t \in Threads : Creating(t) => callee[t] \in instance_to_symbol
    /\ \A w \in Workers : module[w] \subseteq instance_to_symbol

\* An instance is in one place: a creating thread, the queue, a thread's task, a module.
OneCreator == \A t, u \in Threads : Creating(t) /\ Creating(u) /\ callee[t] = callee[u] => t = u
OneInQueue ==
    \A i, j \in DOMAIN channel : channel[i] = channel[j] /\ channel[i] # Stop => i = j
OneGenerator == \A t, u \in Threads : task[t] = task[u] /\ task[t] # NoTask => t = u
OneModule == \A v, w \in Workers : module[v] \cap module[w] # {} => v = w
CreatedIsNew ==
    \A t \in Threads : Creating(t) =>
        /\ \A i \in DOMAIN channel : channel[i] # callee[t]
        /\ \A u \in Threads : task[u] # callee[t]
        /\ \A w \in Workers : callee[t] \notin module[w]
QueuedIsNew ==
    \A i \in DOMAIN channel : channel[i] # Stop =>
        /\ \A u \in Threads : task[u] # channel[i]
        /\ \A w \in Workers : channel[i] \notin module[w]
GeneratedHere == \A t \in Threads : \A w \in Workers : task[t] \in module[w] => t = w

Unique ==
    /\ OneCreator /\ OneInQueue /\ OneGenerator /\ OneModule
    /\ CreatedIsNew /\ QueuedIsNew /\ GeneratedHere

\* Past the first wait nothing is outstanding, unless the flag made the main thread leave.
Quiet == (stops > 0 \/ pc[Main] \in Closing) /\ ~panicked => Outstanding = {}

\* How a failure travels: errors stop the worker at its assert, a monitor raises the flag
\* before it is done, the main thread succeeds only after all monitors and without the flag.
Reported ==
    /\ \A w \in Workers : errors[w] => pc[w] \notin {"incr", "notifyEnd", "done"}
    /\ \A w \in Workers :
          /\ monitor[w] # "join" => pc[w] \in {"done", "panicked"}
          /\ monitor[w] # "join" /\ pc[w] = "panicked" => panicked
    /\ panicked => \E w \in Workers : pc[w] = "panicked"
    /\ pc[Main] \in {"push", "ok"} => ~panicked /\ \A w \in Workers : monitor[w] = "done"
    /\ pc[Main] = "aborted" => panicked

\* The inductive invariant: an instance is in one place at a time, which makes the count
\* exact, which makes the first wait right.
IInv ==
    /\ Typed /\ task_count \in Int
    /\ Control /\ Known /\ Unique /\ CountExact /\ Quiet /\ Reported

-----------------------------------------------------------------------------
(* What reaches the linker *)

\* Only a body being generated looks up calls, and only nac3artiq's main thread has a body
\* to generate and a module to push.
BodyOfTask ==
    /\ pc[Main] \in {"gen", "write", "push"} => RootOnMain
    /\ RootBuilt => to_call[Main] = {}
    /\ \A t \in Threads : task[t] # NoTask => to_call[t] \subseteq Calls[task[t]]
    /\ \A t \in Threads : pc[t] = "write" => task[t] # NoTask /\ callee[t] \in Calls[task[t]]

\* A call of t's body that has no symbol is still to be looked up, or just missed.
Unresolved(t) == to_call[t] \cup {k \in {callee[t]} : pc[t] = "write"}

\* What was generated, in a worker or by the main thread, calls only what has a symbol.
CallsKnown ==
    /\ \A t \in Threads : task[t] # NoTask /\ pc[t] # "decr" =>
          Calls[task[t]] \subseteq instance_to_symbol \cup Unresolved(t)
    /\ \A w \in Workers : \A k \in module[w] : Calls[k] \subseteq instance_to_symbol

AllNeeded == instance_to_symbol \subseteq Needed

\* Where an instance that has a symbol can be
Located(k) ==
    \/ k \in QueuedTasks
    \/ \E t \in Threads : task[t] = k \/ (Creating(t) /\ callee[t] = k)
    \/ \E w \in Workers : k \in module[w]

\* A task is in the module before it stops being counted ...
TaskInModule == \A w \in Workers : pc[w] = "decr" => task[w] \in module[w] \/ errors[w]

\* ... so that, until something fails, no instance with a symbol disappears.
NothingLost == ~Failing => \A k \in instance_to_symbol : Located(k)

Delivered(t) ==
    IF t = Main THEN RootOnMain /\ pc[Main] = "ok" ELSE pc[t] \in {"incr", "notifyEnd", "done"}
ModuleOf(t) == IF t = Main THEN {Root} ELSE module[t]

\* Each thread that delivered has one buffer, with its module; the main thread's is last.
BuffersExact ==
    /\ \A i \in DOMAIN buffers :
          Delivered(buffers[i].by) /\ buffers[i].has = ModuleOf(buffers[i].by)
    /\ \A t \in Threads : Delivered(t) => \E i \in DOMAIN buffers : buffers[i].by = t
    /\ \A i, j \in DOMAIN buffers : buffers[i].by = buffers[j].by => i = j
    /\ \A i \in DOMAIN buffers : buffers[i].by = Main => i = Len(buffers)

DeliveryInv ==
    /\ BodyOfTask /\ CallsKnown /\ AllNeeded /\ TaskInModule /\ NothingLost
    /\ BuffersExact

PoolInv == IInv /\ DeliveryInv
=============================================================================

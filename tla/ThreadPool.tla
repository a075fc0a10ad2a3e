----------------------------- MODULE ThreadPool -----------------------------
(***************************************************************************)
(* The thread pool of 07_projects/02_ThreadPool: threadpool.cpp, driven by *)
(* main.cpp, which builds a pool, posts its tasks and destroys the pool.   *)
(*                                                                         *)
(* One process is the main thread (constructor, addTask, destructor), the  *)
(* others are the workers of startThreadPool.  They share the queue        *)
(* "tasks" and the flag "isRun" under task_mutex ("lock") and meet on the  *)
(* condition variable task_cv, whose waiters are the workers at "blocked". *)
(* A critical section is two steps, taking the mutex and doing the work up *)
(* to its release: nobody can observe what lies between.                   *)
(***************************************************************************)
EXTENDS Naturals, Sequences, FiniteSets

CONSTANTS
    Workers,        \* the worker threads, ThreadSize of them
    NumTasks,       \* how many tasks main posts (20 in main.cpp)
    MaxSpurious,    \* bound on the spurious wakeups of one behaviour
    Main, NoOne     \* the main thread, and the owner of a free mutex

ASSUME ThreadPoolAssumption ==
    /\ IsFiniteSet(Workers) /\ Workers # {}
    /\ NumTasks \in Nat
    /\ MaxSpurious \in Nat
    /\ Main \notin Workers /\ NoOne \notin Workers /\ Main # NoOne

VARIABLES
    tasks,      \* the queue of tasks not yet taken by a worker
    isRun,      \* FALSE once the destructor has stopped the pool
    lock,       \* the owner of task_mutex
    mpc,        \* where the main thread is
    next,       \* the task main posts next
    wpc,        \* where each worker is
    wtask,      \* the task each worker runs, 0 when it holds none
    finished,   \* history: the tasks whose function has returned
    spurious    \* history: how many waits ended without a notification

mainVars == <<mpc, next>>
workerVars == <<wpc, wtask, finished>>
vars == <<tasks, isRun, lock, mainVars, workerVars, spurious>>

\* threadpool::threadpool: the flag is set before any thread exists.
Init ==
    /\ tasks = <<>>
    /\ isRun = TRUE
    /\ lock = NoOne
    /\ mpc = "spawn"
    /\ next = 1
    /\ wpc = [w \in Workers |-> "unborn"]
    /\ wtask = [w \in Workers |-> 0]
    /\ finished = {}
    /\ spurious = 0

-----------------------------------------------------------------------------
(* The main thread *)

\* One round of the constructor's loop; after the last one the pool is built.
Spawn(w) ==
    /\ mpc = "spawn"
    /\ wpc[w] = "unborn"
    /\ wpc' = [wpc EXCEPT ![w] = "lock"]
    /\ mpc' = IF \E v \in Workers \ {w} : wpc[v] = "unborn" THEN "spawn" ELSE "ready"
    /\ UNCHANGED <<tasks, isRun, lock, next, wtask, finished, spurious>>

\* Slip: the client's loop runs once too often.
OneMoreToPost == next <= NumTasks + 1

MoreToPost == next <= NumTasks

\* addTask takes the mutex ...
AddLock ==
    /\ mpc = "ready"
    /\ MoreToPost
    /\ lock = NoOne
    /\ lock' = Main
    /\ mpc' = "add_push"
    /\ UNCHANGED <<tasks, isRun, next, workerVars, spurious>>

\* ... enqueues the task and leaves the block that owns the mutex ...
AddPush ==
    /\ mpc = "add_push"
    /\ tasks' = Append(tasks, next)
    /\ next' = next + 1
    /\ lock' = NoOne
    /\ mpc' = "add_notify"
    /\ UNCHANGED <<isRun, workerVars, spurious>>

\* Slip: addTask notifies only when the queue was empty before.
NotifyIfFirst ==
    \/ \E w \in Workers : wpc[w] = "blocked" /\ Len(tasks) = 1 /\ wpc' = [wpc EXCEPT ![w] = "lock"]
    \/ (Len(tasks) # 1 \/ \A w \in Workers : wpc[w] # "blocked") /\ wpc' = wpc

\* notify_one wakes any one waiter, or nobody when there is none.
NotifyOne ==
    \/ \E w \in Workers : wpc[w] = "blocked" /\ wpc' = [wpc EXCEPT ![w] = "lock"]
    \/ (\A w \in Workers : wpc[w] # "blocked") /\ wpc' = wpc

\* ... then notifies, without the mutex.
AddNotify ==
    /\ mpc = "add_notify"
    /\ mpc' = "ready"
    /\ NotifyOne
    /\ UNCHANGED <<tasks, isRun, lock, next, wtask, finished, spurious>>

\* The destructor takes the mutex ...
DtorLock ==
    /\ mpc = "ready"
    /\ ~MoreToPost
    /\ lock = NoOne
    /\ lock' = Main
    /\ mpc' = "dtor_stop"
    /\ UNCHANGED <<tasks, isRun, next, workerVars, spurious>>

\* ... stops the pool and leaves the block ...
DtorStop ==
    /\ mpc = "dtor_stop"
    /\ isRun' = FALSE
    /\ lock' = NoOne
    /\ mpc' = "dtor_notify"
    /\ UNCHANGED <<tasks, next, workerVars, spurious>>

NotifyAll == wpc' = [w \in Workers |-> IF wpc[w] = "blocked" THEN "lock" ELSE wpc[w]]

\* ... wakes every waiter ...
DtorNotify ==
    /\ mpc = "dtor_notify"
    /\ NotifyAll
    /\ mpc' = "join"
    /\ UNCHANGED <<tasks, isRun, lock, next, wtask, finished, spurious>>

\* Slip: the workers are detached, not joined.
Detached == TRUE

AllExited == \A w \in Workers : wpc[w] = "exited"

\* ... and joins the workers, so it returns when the last of them has ended.
Join ==
    /\ mpc = "join"
    /\ AllExited
    /\ mpc' = "done"
    /\ UNCHANGED <<tasks, isRun, lock, next, workerVars, spurious>>

-----------------------------------------------------------------------------
(* The workers: the body of the while loop in startThreadPool *)

\* Takes task_mutex: at the top of the loop, or inside wait after a wakeup.
WLock(w) ==
    /\ wpc[w] = "lock"
    /\ lock = NoOne
    /\ lock' = w
    /\ wpc' = [wpc EXCEPT ![w] = "test"]
    /\ UNCHANGED <<tasks, isRun, mainVars, wtask, finished, spurious>>

\* The predicate of task_cv.wait.
MayProceed == ~isRun \/ tasks # <<>>

\* The predicate is false: wait releases the mutex and blocks, in one step.
WWait(w) ==
    /\ wpc[w] = "test"
    /\ ~MayProceed
    /\ lock' = NoOne
    /\ wpc' = [wpc EXCEPT ![w] = "blocked"]
    /\ UNCHANGED <<tasks, isRun, mainVars, wtask, finished, spurious>>

\* Slip: a stopped pool is left at once, whatever is still queued.
LeavesAtOnce == ~isRun

Leaves == ~isRun /\ tasks = <<>>

\* The pool is stopped and the queue is empty: the thread function returns.
WExit(w) ==
    /\ wpc[w] = "test"
    /\ MayProceed
    /\ Leaves
    /\ lock' = NoOne
    /\ wpc' = [wpc EXCEPT ![w] = "exited"]
    /\ UNCHANGED <<tasks, isRun, mainVars, wtask, finished, spurious>>

\* Slip: the front task is read and not popped.
NotPopped == tasks

Popped == Tail(tasks)

\* Otherwise it pops the front task and leaves the block that owns the mutex.
WTake(w) ==
    /\ wpc[w] = "test"
    /\ MayProceed
    /\ ~Leaves
    /\ wtask' = [wtask EXCEPT ![w] = Head(tasks)]
    /\ tasks' = Popped
    /\ lock' = NoOne
    /\ wpc' = [wpc EXCEPT ![w] = "run"]
    /\ UNCHANGED <<isRun, mainVars, finished, spurious>>

\* The task runs outside the mutex; "task" dies at the end of the round.
WRun(w) ==
    /\ wpc[w] = "run"
    /\ finished' = finished \union {wtask[w]}
    /\ wtask' = [wtask EXCEPT ![w] = 0]
    /\ wpc' = [wpc EXCEPT ![w] = "lock"]
    /\ UNCHANGED <<tasks, isRun, lock, mainVars, spurious>>

\* A condition variable may wake a waiter that nobody notified.
Spurious(w) ==
    /\ spurious < MaxSpurious
    /\ wpc[w] = "blocked"
    /\ wpc' = [wpc EXCEPT ![w] = "lock"]
    /\ spurious' = spurious + 1
    /\ UNCHANGED <<tasks, isRun, lock, mainVars, wtask, finished>>

-----------------------------------------------------------------------------
MainStep ==
    \/ \E w \in Workers : Spawn(w)
    \/ AddLock \/ AddPush \/ AddNotify
    \/ DtorLock \/ DtorStop \/ DtorNotify \/ Join

WorkerStep(w) == WLock(w) \/ WWait(w) \/ WExit(w) \/ WTake(w) \/ WRun(w)

\* The destructor has returned: nothing is left to do.
Terminated == mpc = "done" /\ UNCHANGED vars

Next ==
    \/ MainStep
    \/ \E w \in Workers : WorkerStep(w) \/ Spurious(w)
    \/ Terminated

Spec == Init /\ [][Next]_vars

\* A thread that can take a step takes one; spurious wakeups owe us nothing.
FairSpec == Spec /\ WF_vars(MainStep) /\ \A w \in Workers : WF_vars(WorkerStep(w))

-----------------------------------------------------------------------------
(* Properties *)

\* Every variable has the values the program can give it.
TypeOK ==
    /\ tasks \in Seq(1 .. NumTasks)
    /\ isRun \in BOOLEAN
    /\ lock \in Workers \union {Main, NoOne}
    /\ mpc \in {"spawn", "ready", "add_push", "add_notify",
                "dtor_stop", "dtor_notify", "join", "done"}
    /\ next \in 1 .. NumTasks + 1
    /\ wpc \in [Workers -> {"unborn", "lock", "test", "blocked", "run", "exited"}]
    /\ wtask \in [Workers -> 0 .. NumTasks]
    /\ finished \subseteq 1 .. NumTasks
    /\ spurious \in 0 .. MaxSpurious

Running == {w \in Workers : wpc[w] = "run"}

\* The tasks some worker has popped: posted ones, minus those still queued.
Taken == 1 .. next - 1 - Len(tasks)

\* Each posted task is in exactly one place.  The queue holds the newest ones
\* in the order of posting; an older one is held by exactly one worker or has
\* been run, never both: no task is lost by addTask, taken twice or run twice.
ExactlyOnce ==
    /\ \A i \in 1 .. Len(tasks) : tasks[i] = next - 1 - Len(tasks) + i
    /\ \A w \in Running : wtask[w] \in Taken \ finished
    /\ \A v, w \in Running : wtask[v] = wtask[w] => v = w
    /\ Taken = finished \union {wtask[w] : w \in Running}

\* Workers that will look at the queue before they may block again.
Awake == {w \in Workers : wpc[w] \in {"lock", "test"}}

\* No lost wakeup.  notify_one is called after the mutex is released and may
\* meet no waiter, or a waiter while another worker is already on its way; yet
\* while a worker sleeps on task_cv there are always enough others awake (or
\* about to be woken) to take every queued task.
WorkConserving ==
    (\E w \in Workers : wpc[w] = "blocked") =>
        Len(tasks) <= Cardinality(Awake) + (IF mpc = "add_notify" THEN 1 ELSE 0)

\* No worker sleeps through the shutdown: once the destructor's notify_all is
\* over nobody waits on task_cv, and a worker that has left did so because the
\* pool was stopped with an empty queue.  A waiter here would block join forever.
NobodySleepsThroughStop ==
    /\ mpc \in {"join", "done"} => \A w \in Workers : wpc[w] # "blocked"
    /\ (\E w \in Workers : wpc[w] = "exited") => ~isRun /\ tasks = <<>>

\* The destructor never abandons work: when it returns, every task posted in
\* the life of the pool has been run.
DestructorDrains ==
    mpc = "done" => finished = 1 .. NumTasks /\ tasks = <<>>

\* The pool keeps the promises of TaskPool, liveness included: tasks start in
\* the order of posting, all of them run, and the destructor returns.
Pool == INSTANCE TaskPool WITH
    Tasks <- NumTasks,
    Width <- Cardinality(Workers),
    posted <- next - 1,
    pending <- tasks,
    running <- {wtask[w] : w \in Running},
    open <- isRun,
    returned <- (mpc = "done")

\* ThreadPool implements TaskPool under the fairness of FairSpec.
ImplementsTaskPool == Pool!PoolSpec
=============================================================================

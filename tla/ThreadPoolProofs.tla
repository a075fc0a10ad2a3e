-------------------------- MODULE ThreadPoolProofs --------------------------
(***************************************************************************)
(* Theorems about ThreadPool, for any number of workers, tasks and         *)
(* spurious wakeups.  The argument is one inductive invariant, IInv: who   *)
(* owns the mutex, where the tasks are, and what the shutdown has done so  *)
(* far.  Each part is shown to be preserved by every step in a lemma.      *)
(*                                                                         *)
(* The pool then implements the safety part of TaskPool under the mapping  *)
(* Pool of ThreadPool: pushing is Post, popping is Start, returning from a *)
(* task is Finish, falling of the flag is Close, the end of the joins is   *)
(* Return, and all else stutters.                                          *)
(***************************************************************************)
EXTENDS ThreadPool, SequenceTheorems, FiniteSetTheorems, TLAPS

\* The mutex is owned by whoever is between taking and releasing it.
MutexInv ==
    /\ \A w \in Workers : lock = w <=> wpc[w] = "test"
    /\ lock = Main <=> mpc \in {"add_push", "dtor_stop"}

\* The flag falls in the destructor, after the last task was posted; when the
\* destructor has returned, every worker has left its loop.
StopInv ==
    /\ isRun <=> mpc \notin {"dtor_notify", "join", "done"}
    /\ mpc = "add_push" => next <= NumTasks
    /\ mpc \in {"dtor_stop", "dtor_notify", "join", "done"} => next = NumTasks + 1
    /\ mpc = "done" => \A w \in Workers : wpc[w] = "exited"

\* At any time no more tasks are queued than were posted.
QueueInv == Len(tasks) <= next - 1

\* The inductive invariant.
IInv ==
    /\ TypeOK
    /\ MutexInv
    /\ StopInv
    /\ QueueInv
    /\ ExactlyOnce
    /\ NobodySleepsThroughStop

\* A nonempty queue of tasks: its head, its tail and their lengths.
LEMMA QueueFront ==
    ASSUME TypeOK, tasks # <<>>
    PROVE  /\ Len(tasks) \in Nat \ {0}
           /\ Head(tasks) = tasks[1]
           /\ Tail(tasks) \in Seq(1 .. NumTasks)
           /\ Len(Tail(tasks)) = Len(tasks) - 1
           /\ \A i \in 1 .. Len(tasks) - 1 : Tail(tasks)[i] = tasks[i + 1]
           /\ tasks[1] \in 1 .. NumTasks
<1>1. tasks \in Seq(1 .. NumTasks)
  BY DEF TypeOK
<1>2. Len(tasks) \in Nat \ {0}
  BY <1>1, EmptySeq
<1>3. /\ Tail(tasks) \in Seq(1 .. NumTasks)
      /\ Len(Tail(tasks)) = Len(tasks) - 1
      /\ \A i \in 1 .. Len(Tail(tasks)) : Tail(tasks)[i] = tasks[i + 1]
  BY <1>1, HeadTailProperties
<1>4. tasks[1] \in 1 .. NumTasks
  <2>1. 1 \in 1 .. Len(tasks)
    BY <1>2
  <2> QED BY <1>1, <2>1, ElementOfSeq
<1>5. Head(tasks) = tasks[1]
  BY <1>1, <1>2
<1> QED BY <1>2, <1>3, <1>4, <1>5

\* A worker with the mutex may always proceed when the pool has stopped or has
\* work; when it may proceed and does not leave, the queue is not empty.
LEMMA TakeFindsTask ==
    ASSUME NEW w \in Workers, WTake(w)
    PROVE  tasks # <<>>
  BY DEF WTake, Leaves, Popped, MayProceed

\* Every step keeps the types.
LEMMA TypeStep == IInv /\ [Next]_vars => TypeOK'
<1> SUFFICES ASSUME IInv, [Next]_vars PROVE TypeOK'
  OBVIOUS
<1> USE ThreadPoolAssumption DEF TypeOK, IInv
<1>1. ASSUME NEW w \in Workers, Spawn(w) PROVE TypeOK'
  BY <1>1 DEF Spawn
<1>2. CASE AddLock
  BY <1>2 DEF AddLock, MoreToPost, workerVars
<1>3. CASE AddPush
  <2>1. next \in 1 .. NumTasks
    BY <1>3 DEF AddPush, StopInv
  <2>2. Append(tasks, next) \in Seq(1 .. NumTasks)
    BY <2>1, AppendProperties
  <2> QED BY <1>3, <2>1, <2>2 DEF AddPush, workerVars
<1>4. CASE AddNotify
  BY <1>4 DEF AddNotify, NotifyOne
<1>5. CASE DtorLock
  BY <1>5 DEF DtorLock, MoreToPost, workerVars
<1>6. CASE DtorStop
  BY <1>6 DEF DtorStop, workerVars
<1>7. CASE DtorNotify
  BY <1>7 DEF DtorNotify, NotifyAll
<1>8. CASE Join
  BY <1>8 DEF Join, AllExited, workerVars
<1>9. ASSUME NEW w \in Workers, WLock(w) PROVE TypeOK'
  BY <1>9 DEF WLock, mainVars
<1>10. ASSUME NEW w \in Workers, WWait(w) PROVE TypeOK'
  BY <1>10 DEF WWait, mainVars
<1>11. ASSUME NEW w \in Workers, WExit(w) PROVE TypeOK'
  BY <1>11 DEF WExit, Leaves, mainVars
<1>12. ASSUME NEW w \in Workers, WTake(w) PROVE TypeOK'
  <2>1. /\ Tail(tasks) \in Seq(1 .. NumTasks)
        /\ Head(tasks) \in 1 .. NumTasks
    BY <1>12, TakeFindsTask, QueueFront
  <2> QED BY <1>12, <2>1 DEF WTake, Leaves, Popped, mainVars
<1>13. ASSUME NEW w \in Workers, WRun(w) PROVE TypeOK'
  <2>1. wtask[w] \in 1 .. NumTasks
    <3>1. w \in Running
      BY <1>13 DEF WRun, Running
    <3>2. wtask[w] \in 1 .. next - 1 - Len(tasks)
      BY <3>1 DEF ExactlyOnce, Taken
    <3> QED BY <3>2, LenProperties
  <2>2. finished' \subseteq 1 .. NumTasks
    BY <1>13, <2>1 DEF WRun
  <2>3. wtask' \in [Workers -> 0 .. NumTasks]
    BY <1>13 DEF WRun
  <2>4. wpc' \in [Workers -> {"unborn", "lock", "test", "blocked", "run", "exited"}]
    BY <1>13 DEF WRun
  <2> QED BY <1>13, <2>2, <2>3, <2>4 DEF WRun, mainVars
<1>14. ASSUME NEW w \in Workers, Spurious(w) PROVE TypeOK'
  BY <1>14 DEF Spurious, mainVars
<1>15. CASE UNCHANGED vars
  BY <1>15 DEF vars, mainVars, workerVars
<1> QED
  BY <1>1, <1>2, <1>3, <1>4, <1>5, <1>6, <1>7, <1>8, <1>9, <1>10, <1>11, <1>12,
     <1>13, <1>14, <1>15 DEF Next, MainStep, WorkerStep, Terminated

\* Every step keeps the mutex with the one thread that is between lock and unlock.
LEMMA MutexStep == IInv /\ [Next]_vars => MutexInv'
<1> SUFFICES ASSUME IInv, [Next]_vars PROVE MutexInv'
  OBVIOUS
<1> USE ThreadPoolAssumption DEF TypeOK, IInv, MutexInv
<1>1. ASSUME NEW w \in Workers, Spawn(w) PROVE MutexInv'
  BY <1>1 DEF Spawn
<1>2. CASE AddLock
  BY <1>2 DEF AddLock, MoreToPost, workerVars
<1>3. CASE AddPush
  BY <1>3 DEF AddPush, workerVars
<1>4. CASE AddNotify
  BY <1>4 DEF AddNotify, NotifyOne
<1>5. CASE DtorLock
  BY <1>5 DEF DtorLock, MoreToPost, workerVars
<1>6. CASE DtorStop
  BY <1>6 DEF DtorStop, workerVars
<1>7. CASE DtorNotify
  BY <1>7 DEF DtorNotify, NotifyAll
<1>8. CASE Join
  BY <1>8 DEF Join, AllExited, workerVars
<1>9. ASSUME NEW w \in Workers, WLock(w) PROVE MutexInv'
  BY <1>9 DEF WLock, mainVars
<1>10. ASSUME NEW w \in Workers, WWait(w) PROVE MutexInv'
  BY <1>10 DEF WWait, mainVars
<1>11. ASSUME NEW w \in Workers, WExit(w) PROVE MutexInv'
  BY <1>11 DEF WExit, Leaves, mainVars
<1>12. ASSUME NEW w \in Workers, WTake(w) PROVE MutexInv'
  BY <1>12 DEF WTake, Leaves, Popped, mainVars
<1>13. ASSUME NEW w \in Workers, WRun(w) PROVE MutexInv'
  BY <1>13 DEF WRun, mainVars
<1>14. ASSUME NEW w \in Workers, Spurious(w) PROVE MutexInv'
  BY <1>14 DEF Spurious, mainVars
<1>15. CASE UNCHANGED vars
  BY <1>15 DEF vars, mainVars, workerVars
<1> QED
  BY <1>1, <1>2, <1>3, <1>4, <1>5, <1>6, <1>7, <1>8, <1>9, <1>10, <1>11, <1>12,
     <1>13, <1>14, <1>15 DEF Next, MainStep, WorkerStep, Terminated

\* The shutdown.  A worker blocks only while the pool runs (WWait), so notify_all
\* leaves no waiter and none comes later; a worker leaves only once the pool is
\* stopped with an empty queue (WExit), and nothing is posted any more then.
LEMMA StopStep == IInv /\ [Next]_vars => StopInv' /\ NobodySleepsThroughStop'
<1> SUFFICES ASSUME IInv, [Next]_vars PROVE StopInv' /\ NobodySleepsThroughStop'
  OBVIOUS
<1> USE ThreadPoolAssumption DEF TypeOK, IInv, StopInv, NobodySleepsThroughStop
<1>1. ASSUME NEW w \in Workers, Spawn(w) PROVE StopInv' /\ NobodySleepsThroughStop'
  BY <1>1 DEF Spawn
<1>2. CASE AddLock
  BY <1>2 DEF AddLock, MoreToPost, workerVars
<1>3. CASE AddPush
  BY <1>3 DEF AddPush, workerVars
<1>4. CASE AddNotify
  BY <1>4 DEF AddNotify, NotifyOne
<1>5. CASE DtorLock
  BY <1>5 DEF DtorLock, MoreToPost, workerVars
<1>6. CASE DtorStop
  BY <1>6 DEF DtorStop, workerVars
<1>7. CASE DtorNotify
  BY <1>7 DEF DtorNotify, NotifyAll
<1>8. CASE Join
  BY <1>8 DEF Join, AllExited, workerVars
<1>9. ASSUME NEW w \in Workers, WLock(w) PROVE StopInv' /\ NobodySleepsThroughStop'
  BY <1>9 DEF WLock, mainVars
<1>10. ASSUME NEW w \in Workers, WWait(w) PROVE StopInv' /\ NobodySleepsThroughStop'
  BY <1>10 DEF WWait, MayProceed, mainVars
<1>11. ASSUME NEW w \in Workers, WExit(w) PROVE StopInv' /\ NobodySleepsThroughStop'
  BY <1>11 DEF WExit, Leaves, mainVars
<1>12. ASSUME NEW w \in Workers, WTake(w) PROVE StopInv' /\ NobodySleepsThroughStop'
  <2>1. tasks # <<>>
    BY <1>12, TakeFindsTask
  <2>2. \A v \in Workers : wpc[v] # "exited" /\ wpc'[v] # "exited"
    BY <1>12, <2>1 DEF WTake, Leaves, Popped
  <2> QED BY <1>12, <2>2 DEF WTake, Leaves, Popped, mainVars
<1>13. ASSUME NEW w \in Workers, WRun(w) PROVE StopInv' /\ NobodySleepsThroughStop'
  BY <1>13 DEF WRun, mainVars
<1>14. ASSUME NEW w \in Workers, Spurious(w) PROVE StopInv' /\ NobodySleepsThroughStop'
  BY <1>14 DEF Spurious, mainVars
<1>15. CASE UNCHANGED vars
  BY <1>15 DEF vars, mainVars, workerVars
<1> QED
  BY <1>1, <1>2, <1>3, <1>4, <1>5, <1>6, <1>7, <1>8, <1>9, <1>10, <1>11, <1>12,
     <1>13, <1>14, <1>15 DEF Next, MainStep, WorkerStep, Terminated

\* Where the tasks are depends on four variables only.
LEMMA OnceUnchanged ==
    ASSUME QueueInv /\ ExactlyOnce,
           UNCHANGED <<tasks, next, finished>>,
           Running' = Running,
           \A w \in Running : wtask'[w] = wtask[w]
    PROVE  QueueInv' /\ ExactlyOnce'
<1>1. Taken' = Taken
  BY DEF Taken
<1>2. {wtask'[w] : w \in Running} = {wtask[w] : w \in Running}
  OBVIOUS
<1> QED BY <1>1, <1>2 DEF QueueInv, ExactlyOnce

\* Where the tasks are, step by step: only AddPush, WTake and WRun move one.
LEMMA OnceStep == IInv /\ [Next]_vars => QueueInv' /\ ExactlyOnce'
<1> SUFFICES ASSUME IInv, [Next]_vars PROVE QueueInv' /\ ExactlyOnce'
  OBVIOUS
<1>0. TypeOK /\ QueueInv /\ ExactlyOnce /\ StopInv
  BY DEF IInv
<1>L. Len(tasks) \in Nat /\ next \in Nat \ {0}
  BY <1>0, ThreadPoolAssumption, LenProperties DEF TypeOK
<1>1. ASSUME NEW w \in Workers, Spawn(w) PROVE QueueInv' /\ ExactlyOnce'
  <2>1. Running' = Running
    BY <1>0, <1>1 DEF Spawn, Running, TypeOK
  <2> QED BY <1>0, <1>1, <2>1, OnceUnchanged DEF Spawn
<1>2. CASE AddLock
  <2>1. Running' = Running
    BY <1>2 DEF AddLock, MoreToPost, workerVars, Running
  <2> QED BY <1>0, <1>2, <2>1, OnceUnchanged DEF AddLock, MoreToPost, workerVars
<1>3. CASE AddPush
  <2>1. Running' = Running /\ wtask' = wtask /\ finished' = finished
    BY <1>3 DEF AddPush, workerVars, Running
  <2>2. /\ Len(tasks') = Len(tasks) + 1
        /\ \A i \in 1 .. Len(tasks) : tasks'[i] = tasks[i]
        /\ tasks'[Len(tasks) + 1] = next
    <3>1. tasks \in Seq(Nat) /\ next \in Nat
      BY <1>0, <1>L, SeqMonotonic, ThreadPoolAssumption DEF TypeOK
    <3> QED BY <1>3, <3>1, AppendProperties DEF AddPush
  <2>3. next' = next + 1
    BY <1>3 DEF AddPush
  <2>4. Taken' = Taken
    BY <1>L, <2>2, <2>3 DEF Taken
  <2>5. QueueInv'
    BY <1>0, <1>L, <2>2, <2>3 DEF QueueInv
  <2>6. ASSUME NEW i \in 1 .. Len(tasks') PROVE tasks'[i] = next' - 1 - Len(tasks') + i
    <3>1. CASE i \in 1 .. Len(tasks)
      BY <1>0, <1>L, <2>2, <2>3, <3>1 DEF ExactlyOnce
    <3>2. CASE i = Len(tasks) + 1
      BY <1>L, <2>2, <2>3, <3>2
    <3> QED BY <1>L, <2>2, <3>1, <3>2
  <2> QED BY <1>0, <2>1, <2>4, <2>5, <2>6 DEF ExactlyOnce
<1>4. CASE AddNotify
  <2>1. Running' = Running
    BY <1>0, <1>4 DEF AddNotify, NotifyOne, Running, TypeOK
  <2> QED BY <1>0, <1>4, <2>1, OnceUnchanged DEF AddNotify, NotifyOne
<1>5. CASE DtorLock
  <2>1. Running' = Running
    BY <1>5 DEF DtorLock, MoreToPost, workerVars, Running
  <2> QED BY <1>0, <1>5, <2>1, OnceUnchanged DEF DtorLock, MoreToPost, workerVars
<1>6. CASE DtorStop
  <2>1. Running' = Running
    BY <1>6 DEF DtorStop, workerVars, Running
  <2> QED BY <1>0, <1>6, <2>1, OnceUnchanged DEF DtorStop, workerVars
<1>7. CASE DtorNotify
  <2>1. Running' = Running
    BY <1>0, <1>7 DEF DtorNotify, NotifyAll, Running, TypeOK
  <2> QED BY <1>0, <1>7, <2>1, OnceUnchanged DEF DtorNotify, NotifyAll
<1>8. CASE Join
  <2>1. Running' = Running
    BY <1>8 DEF Join, AllExited, workerVars, Running
  <2> QED BY <1>0, <1>8, <2>1, OnceUnchanged DEF Join, AllExited, workerVars
<1>9. ASSUME NEW w \in Workers, WLock(w) PROVE QueueInv' /\ ExactlyOnce'
  <2>1. Running' = Running
    BY <1>0, <1>9 DEF WLock, Running, TypeOK
  <2> QED BY <1>0, <1>9, <2>1, OnceUnchanged DEF WLock, mainVars
<1>10. ASSUME NEW w \in Workers, WWait(w) PROVE QueueInv' /\ ExactlyOnce'
  <2>1. Running' = Running
    BY <1>0, <1>10 DEF WWait, Running, TypeOK
  <2> QED BY <1>0, <1>10, <2>1, OnceUnchanged DEF WWait, mainVars
<1>11. ASSUME NEW w \in Workers, WExit(w) PROVE QueueInv' /\ ExactlyOnce'
  <2>1. Running' = Running
    BY <1>0, <1>11 DEF WExit, Leaves, Running, TypeOK
  <2> QED BY <1>0, <1>11, <2>1, OnceUnchanged DEF WExit, Leaves, mainVars
<1>12. ASSUME NEW w \in Workers, WTake(w) PROVE QueueInv' /\ ExactlyOnce'
  <2> DEFINE t == next - Len(tasks)
  <2>1. tasks # <<>>
    BY <1>12, TakeFindsTask
  <2>2. /\ Len(tasks) \in Nat \ {0}
        /\ Head(tasks) = tasks[1]
        /\ Len(Tail(tasks)) = Len(tasks) - 1
        /\ \A i \in 1 .. Len(tasks) - 1 : Tail(tasks)[i] = tasks[i + 1]
    BY <1>0, <2>1, QueueFront
  <2>3. /\ tasks' = Tail(tasks)
        /\ next' = next
        /\ finished' = finished
        /\ wtask' = [wtask EXCEPT ![w] = Head(tasks)]
        /\ wpc[w] = "test"
        /\ wpc' = [wpc EXCEPT ![w] = "run"]
    BY <1>12 DEF WTake, Leaves, Popped, mainVars
  <2>4. Head(tasks) = t
    <3>1. 1 \in 1 .. Len(tasks)
      BY <2>2
    <3> QED BY <1>0, <1>L, <2>2, <3>1 DEF ExactlyOnce
  <2>5. Running' = Running \union {w} /\ w \notin Running
    BY <1>0, <2>3 DEF Running, TypeOK
  <2>6. /\ wtask'[w] = t
        /\ \A v \in Running : wtask'[v] = wtask[v]
    BY <1>0, <2>3, <2>4, <2>5 DEF TypeOK, Running
  <2>7. Taken' = Taken \union {t} /\ t \notin Taken
    BY <1>0, <1>L, <2>2, <2>3 DEF Taken, QueueInv
  <2>8. QueueInv'
    BY <1>0, <1>L, <2>2, <2>3 DEF QueueInv
  <2>9. ASSUME NEW i \in 1 .. Len(tasks') PROVE tasks'[i] = next' - 1 - Len(tasks') + i
    <3>1. i + 1 \in 1 .. Len(tasks) /\ i \in 1 .. Len(tasks) - 1
      BY <2>2, <2>3
    <3>2. tasks'[i] = tasks[i + 1]
      BY <2>2, <2>3, <3>1
    <3>3. tasks[i + 1] = next - 1 - Len(tasks) + (i + 1)
      BY <1>0, <3>1 DEF ExactlyOnce
    <3> QED BY <1>L, <2>2, <2>3, <3>2, <3>3
  <2>10. ASSUME NEW v \in Running' PROVE wtask'[v] \in Taken' \ finished'
    <3>1. CASE v = w
      BY <1>0, <2>3, <2>6, <2>7, <3>1 DEF ExactlyOnce
    <3>2. CASE v \in Running
      BY <1>0, <2>3, <2>6, <2>7, <3>2 DEF ExactlyOnce
    <3> QED BY <2>5, <3>1, <3>2
  <2>11. ASSUME NEW v \in Running', NEW x \in Running', wtask'[v] = wtask'[x] PROVE v = x
    <3> HIDE DEF t
    <3>1. \A y \in Running : wtask[y] # t
      BY <1>0, <2>7 DEF ExactlyOnce
    <3> QED BY <1>0, <2>5, <2>6, <2>11, <3>1 DEF ExactlyOnce
  <2>12. {wtask'[v] : v \in Running'} = {wtask[v] : v \in Running} \union {t}
    BY <2>5, <2>6
  <2>13. Taken' = finished' \union {wtask'[v] : v \in Running'}
    BY <1>0, <2>3, <2>7, <2>12 DEF ExactlyOnce
  <2> QED BY <2>8, <2>9, <2>10, <2>11, <2>13 DEF ExactlyOnce
<1>13. ASSUME NEW w \in Workers, WRun(w) PROVE QueueInv' /\ ExactlyOnce'
  <2>1. /\ UNCHANGED <<tasks, next>>
        /\ finished' = finished \union {wtask[w]}
        /\ wpc[w] = "run"
        /\ wpc' = [wpc EXCEPT ![w] = "lock"]
        /\ wtask' = [wtask EXCEPT ![w] = 0]
    BY <1>13 DEF WRun, mainVars
  <2>2. w \in Running /\ Running' = Running \ {w}
    BY <1>0, <2>1 DEF Running, TypeOK
  <2>3. \A v \in Running' : wtask'[v] = wtask[v]
    BY <1>0, <2>1, <2>2 DEF TypeOK, Running
  <2>4. Taken' = Taken
    BY <2>1 DEF Taken
  <2>5. \A v \in Running' : wtask'[v] \in Taken' \ finished'
    BY <1>0, <2>1, <2>2, <2>3, <2>4 DEF ExactlyOnce
  <2>6. {wtask'[v] : v \in Running'} \union {wtask[w]} = {wtask[v] : v \in Running}
    BY <2>2, <2>3
  <2>7. Taken' = finished' \union {wtask'[v] : v \in Running'}
    BY <1>0, <2>1, <2>4, <2>6 DEF ExactlyOnce
  <2> QED BY <1>0, <2>1, <2>2, <2>3, <2>5, <2>7 DEF ExactlyOnce, QueueInv
<1>14. ASSUME NEW w \in Workers, Spurious(w) PROVE QueueInv' /\ ExactlyOnce'
  <2>1. Running' = Running
    BY <1>0, <1>14 DEF Spurious, Running, TypeOK
  <2> QED BY <1>0, <1>14, <2>1, OnceUnchanged DEF Spurious, mainVars
<1>15. CASE UNCHANGED vars
  <2>1. Running' = Running
    BY <1>15 DEF vars, workerVars, Running
  <2> QED BY <1>0, <1>15, <2>1, OnceUnchanged DEF vars, mainVars, workerVars
<1> QED
  BY <1>1, <1>2, <1>3, <1>4, <1>5, <1>6, <1>7, <1>8, <1>9, <1>10, <1>11, <1>12,
     <1>13, <1>14, <1>15 DEF Next, MainStep, WorkerStep, Terminated

-----------------------------------------------------------------------------
\* The inductive invariant holds at the start.
LEMMA InitIInv == Init => IInv
<1> SUFFICES ASSUME Init PROVE IInv
  OBVIOUS
<1>1. tasks \in Seq(1 .. NumTasks) /\ Len(tasks) = 0
  BY EmptySeq DEF Init
<1>2. Running = {} /\ Taken = {}
  BY <1>1 DEF Init, Running, Taken
<1>3. TypeOK
  BY <1>1, ThreadPoolAssumption DEF Init, TypeOK
<1>4. MutexInv /\ StopInv /\ NobodySleepsThroughStop
  BY ThreadPoolAssumption DEF Init, MutexInv, StopInv, NobodySleepsThroughStop
<1>5. QueueInv /\ ExactlyOnce
  BY <1>1, <1>2 DEF Init, QueueInv, ExactlyOnce
<1> QED BY <1>3, <1>4, <1>5 DEF IInv

\* Every step keeps the inductive invariant.
LEMMA StepIInv == IInv /\ [Next]_vars => IInv'
  BY TypeStep, MutexStep, StopStep, OnceStep DEF IInv

\* Every behaviour of the pool satisfies the inductive invariant.
THEOREM Invariance == Spec => []IInv
  BY InitIInv, StepIInv, PTL DEF Spec

\* The variables keep their types: in particular a worker holds a task that was
\* posted, and no task is posted beyond the last.
THEOREM TypeCorrect == Spec => []TypeOK
  BY Invariance, PTL DEF IInv

\* addTask and the worker loop lose no task, hand none to two workers and run
\* none twice, and the queue keeps the order of posting.
THEOREM NoTaskLostOrDuplicated == Spec => []ExactlyOnce
  BY Invariance, PTL DEF IInv

\* No worker is left waiting on task_cv after the destructor's notify_all, so
\* join cannot block on a sleeping worker.
THEOREM StopWakesEverybody == Spec => []NobodySleepsThroughStop
  BY Invariance, PTL DEF IInv

\* When the destructor returns, every posted task has been run.
THEOREM DestructorIsComplete == Spec => []DestructorDrains
<1>1. IInv => DestructorDrains
  <2> SUFFICES ASSUME IInv, mpc = "done" PROVE finished = 1 .. NumTasks /\ tasks = <<>>
    BY DEF DestructorDrains
  <2>1. next = NumTasks + 1 /\ \A w \in Workers : wpc[w] = "exited"
    BY DEF IInv, StopInv
  <2>2. tasks = <<>>
    BY <2>1, ThreadPoolAssumption DEF IInv, NobodySleepsThroughStop
  <2>3. Running = {}
    BY <2>1 DEF Running
  <2>4. Taken = 1 .. NumTasks
    BY <2>1, <2>2, ThreadPoolAssumption, EmptySeq DEF Taken
  <2> QED BY <2>2, <2>3, <2>4 DEF IInv, ExactlyOnce
<1> QED BY <1>1, Invariance, PTL

-----------------------------------------------------------------------------
(* No wakeup is lost *)

\* The workers awake are finitely many, and one more or less of them counts.
LEMMA AwakeCounts ==
    /\ IsFiniteSet(Awake) /\ Cardinality(Awake) \in Nat
    /\ \A w \in Workers : Cardinality(Awake \union {w}) =
            IF w \in Awake THEN Cardinality(Awake) ELSE Cardinality(Awake) + 1
    /\ \A w \in Awake : Cardinality(Awake \ {w}) = Cardinality(Awake) - 1
<1>1. IsFiniteSet(Awake)
  BY ThreadPoolAssumption, FS_Subset DEF Awake
<1> QED BY <1>1, FS_CardinalityType, FS_AddElement, FS_RemoveElement

\* A worker that wakes up adds one to those awake.
LEMMA WakeCounts ==
    ASSUME TypeOK, NEW w \in Workers, w \notin Awake, wpc' = [wpc EXCEPT ![w] = "lock"]
    PROVE  Cardinality(Awake') = Cardinality(Awake) + 1
<1>1. Awake' = Awake \union {w}
  BY DEF TypeOK, Awake
<1> QED BY <1>1, AwakeCounts

\* A worker that goes on without changing its mind leaves them the same.
LEMMA SameAwake ==
    ASSUME TypeOK, NEW w \in Awake, wpc' = [wpc EXCEPT ![w] = "test"]
    PROVE  Awake' = Awake
  BY DEF TypeOK, Awake

\* Every step keeps a worker awake, or about to be woken, for each queued task while others sleep.
LEMMA WorkStep == IInv /\ WorkConserving /\ [Next]_vars => WorkConserving'
<1> SUFFICES ASSUME IInv, WorkConserving, [Next]_vars PROVE WorkConserving'
  OBVIOUS
<1> USE ThreadPoolAssumption DEF IInv
<1>0. Len(tasks) \in Nat /\ Cardinality(Awake) \in Nat
  BY AwakeCounts, LenProperties DEF TypeOK
\* Steps after which the same workers are blocked, or fewer, and awake.
<1>a. ASSUME NEW w \in Workers, wpc[w] \notin {"lock", "test"}, wpc' = [wpc EXCEPT ![w] = "lock"],
             Len(tasks') = Len(tasks), mpc # "add_notify" \/ mpc' = "add_notify" \/ wpc[w] = "blocked"
      PROVE  WorkConserving'
  <2>1. Cardinality(Awake') = Cardinality(Awake) + 1
    BY <1>a, WakeCounts DEF Awake
  <2>2. (\E v \in Workers : wpc'[v] = "blocked") => \E v \in Workers : wpc[v] = "blocked"
    BY <1>a DEF TypeOK
  <2> QED BY <1>a, <1>0, <2>1, <2>2 DEF WorkConserving
<1>b. ASSUME UNCHANGED wpc, Len(tasks') = Len(tasks), mpc # "add_notify" PROVE WorkConserving'
  BY <1>b, <1>0 DEF WorkConserving, Awake
<1>c. ASSUME tasks' = <<>> PROVE WorkConserving'
  <2>1. Cardinality(Awake') \in Nat
    BY ThreadPoolAssumption, FS_Subset, FS_CardinalityType DEF Awake
  <2>2. Len(tasks') = 0
    BY <1>c
  <2> QED BY <2>1, <2>2 DEF WorkConserving
<1>1. ASSUME NEW w \in Workers, Spawn(w) PROVE WorkConserving'
  BY <1>1, <1>a DEF Spawn
<1>2. CASE AddLock
  BY <1>2, <1>b DEF AddLock, workerVars
<1>3. CASE AddPush
  <2>1. Len(tasks') = Len(tasks) + 1
    BY <1>3 DEF AddPush, TypeOK
  <2>2. Awake' = Awake
    BY <1>3 DEF AddPush, workerVars, Awake
  <2> QED BY <1>3, <1>0, <2>1, <2>2 DEF AddPush, workerVars, WorkConserving
<1>4. CASE AddNotify
  <2>1. CASE \E w \in Workers : wpc[w] = "blocked" /\ wpc' = [wpc EXCEPT ![w] = "lock"]
    BY <1>4, <2>1, <1>a DEF AddNotify
  <2>2. CASE (\A w \in Workers : wpc[w] # "blocked") /\ wpc' = wpc
    BY <2>2 DEF WorkConserving
  <2> QED BY <1>4, <2>1, <2>2 DEF AddNotify, NotifyOne
<1>5. CASE DtorLock
  BY <1>5, <1>b DEF DtorLock, workerVars
<1>6. CASE DtorStop
  BY <1>6, <1>b DEF DtorStop, workerVars
<1>7. CASE DtorNotify
  BY <1>7 DEF DtorNotify, NotifyAll, WorkConserving
<1>8. CASE Join
  BY <1>8, <1>b DEF Join, workerVars
<1>9. ASSUME NEW w \in Workers, WLock(w) PROVE WorkConserving'
  <2>1. Awake' = Awake
    BY <1>9, SameAwake DEF WLock, Awake
  <2>2. (\E v \in Workers : wpc'[v] = "blocked") => \E v \in Workers : wpc[v] = "blocked"
    BY <1>9 DEF WLock, TypeOK
  <2> QED BY <1>9, <2>1, <2>2 DEF WLock, mainVars, WorkConserving
<1>10. ASSUME NEW w \in Workers, WWait(w) PROVE WorkConserving'
  BY <1>10, <1>c DEF WWait, MayProceed
<1>11. ASSUME NEW w \in Workers, WExit(w) PROVE WorkConserving'
  BY <1>11, <1>c DEF WExit, Leaves
<1>12. ASSUME NEW w \in Workers, WTake(w) PROVE WorkConserving'
  <2>1. Awake' = Awake \ {w} /\ w \in Awake
    BY <1>12 DEF WTake, TypeOK, Awake
  <2>2. Cardinality(Awake') = Cardinality(Awake) - 1
    BY <2>1, AwakeCounts
  <2>3. Len(tasks') = Len(tasks) - 1
    BY <1>12, TakeFindsTask, QueueFront DEF WTake, Popped
  <2>4. (\E v \in Workers : wpc'[v] = "blocked") => \E v \in Workers : wpc[v] = "blocked"
    BY <1>12 DEF WTake, TypeOK
  <2> QED BY <1>12, <1>0, <2>2, <2>3, <2>4 DEF WTake, mainVars, WorkConserving
<1>13. ASSUME NEW w \in Workers, WRun(w) PROVE WorkConserving'
  BY <1>13, <1>a DEF WRun, mainVars
<1>14. ASSUME NEW w \in Workers, Spurious(w) PROVE WorkConserving'
  BY <1>14, <1>a DEF Spurious
<1>15. CASE UNCHANGED vars
  BY <1>15 DEF vars, mainVars, workerVars, WorkConserving, Awake
<1> QED
  BY <1>1, <1>2, <1>3, <1>4, <1>5, <1>6, <1>7, <1>8, <1>9, <1>10, <1>11, <1>12,
     <1>13, <1>14, <1>15 DEF Next, MainStep, WorkerStep, Terminated

\* addTask releases the mutex before it notifies, and notify_one may meet no
\* waiter; still no wakeup is ever lost, however many workers and tasks.
THEOREM NoLostWakeup == Spec => []WorkConserving
<1>1. Init => WorkConserving
  BY DEF Init, WorkConserving
<1> QED BY <1>1, InitIInv, StepIInv, WorkStep, PTL DEF Spec

-----------------------------------------------------------------------------
(* The abstract pool *)

\* The tasks that the workers hold.
Held == {wtask[w] : w \in Running}

\* The initial states are those of the abstract pool.
LEMMA RefineInit == Init => Pool!PoolInit
<1> SUFFICES ASSUME Init PROVE Pool!PoolInit
  OBVIOUS
<1>1. {wtask[w] : w \in Running} = {}
  BY DEF Init, Running
<1>2. (mpc = "done") = FALSE /\ next - 1 = 0
  BY DEF Init
<1> QED BY <1>1, <1>2 DEF Init, Pool!PoolInit

\* The steps that change nothing a client of the pool can see.
LEMMA Stutters ==
    ASSUME UNCHANGED <<next, tasks, finished, isRun, wtask>>,
           Running' = Running, mpc' = "done" <=> mpc = "done"
    PROVE  UNCHANGED Pool!poolVars
<1>1. {wtask[w] : w \in Running}' = {wtask[w] : w \in Running}
  OBVIOUS
<1>2. (mpc = "done")' = (mpc = "done")
  OBVIOUS
<1> QED BY <1>1, <1>2 DEF Pool!poolVars

\* addTask posts the next task.
LEMMA PushPosts == ASSUME IInv, AddPush PROVE Pool!Post
<1> USE ThreadPoolAssumption DEF IInv, AddPush, workerVars
<1>1. Held' = Held /\ (mpc = "done")' = (mpc = "done")
  BY DEF Held, Running
<1>2. isRun /\ next - 1 < NumTasks /\ (next - 1)' = (next - 1) + 1
  BY DEF TypeOK, StopInv
<1>3. tasks' = Append(tasks, (next - 1) + 1)
  BY DEF TypeOK
<1> QED BY <1>1, <1>2, <1>3 DEF Pool!Post, Held

\* While a worker runs nothing, fewer tasks run than there are workers.
LEMMA RoomToRun ==
    ASSUME NEW w \in Workers, w \notin Running
    PROVE  Cardinality(Held) < Cardinality(Workers)
<1> DEFINE f == [v \in Running |-> wtask[v]]
<1>1. IsFiniteSet(Workers \ {w}) /\ Cardinality(Workers \ {w}) = Cardinality(Workers) - 1
  BY ThreadPoolAssumption, FS_RemoveElement
<1>2. Running \in SUBSET (Workers \ {w})
  BY DEF Running
<1>3. IsFiniteSet(Running) /\ Cardinality(Running) <= Cardinality(Workers) - 1
  BY <1>1, <1>2, FS_Subset
<1>4. f \in Surjection(Running, Held)
  BY DEF Surjection, Held
<1>5. IsFiniteSet(Held) /\ Cardinality(Held) <= Cardinality(Running)
  BY <1>3, <1>4, FS_Surjection
<1> QED BY <1>3, <1>5, ThreadPoolAssumption, FS_CardinalityType

\* The instance and this module count alike.
LEMMA SameCardinality == \A S : Pool!Cardinality(S) = Cardinality(S)
  BY DEF Pool!Cardinality, Cardinality

\* A worker that pops a task starts it.
LEMMA TakeStarts == ASSUME IInv, NEW w \in Workers, WTake(w) PROVE Pool!Start
<1> USE DEF WTake, Popped, mainVars
<1>1. Running' = Running \union {w} /\ w \notin Running
  BY DEF IInv, TypeOK, Running
<1>2. Held' = Held \union {Head(tasks)}
  <2>1. \A v \in Running : wtask'[v] = wtask[v]
    BY <1>1 DEF IInv, TypeOK, Running
  <2>2. wtask'[w] = Head(tasks)
    BY DEF IInv, TypeOK
  <2> QED BY <1>1, <2>1, <2>2 DEF Held
<1>3. tasks # <<>> /\ Cardinality(Held) < Cardinality(Workers)
  BY <1>1, TakeFindsTask, RoomToRun
<1>4. /\ (next - 1)' = next - 1 /\ (mpc = "done")' = (mpc = "done")
      /\ tasks' = Tail(tasks) /\ UNCHANGED <<finished, isRun>>
  OBVIOUS
<1>5. Pool!Cardinality({wtask[v] : v \in Running}) < Cardinality(Workers)
  BY <1>3, SameCardinality DEF Held
<1>6. {wtask[v] : v \in Running}' = {wtask[v] : v \in Running} \union {Head(tasks)}
  BY <1>2 DEF Held
<1> QED BY <1>3, <1>4, <1>5, <1>6 DEF Pool!Start

\* A worker that has run its task finishes it: nobody else holds the same one.
LEMMA RunFinishes == ASSUME IInv, NEW w \in Workers, WRun(w), NEW t, t = wtask[w] PROVE Pool!Finish(t)
<1> USE DEF WRun, mainVars
<1>1. w \in Running /\ Running' = Running \ {w}
  BY DEF IInv, TypeOK, Running
<1>2. Held' = Held \ {t}
  <2>1. \A v \in Running \ {w} : wtask'[v] = wtask[v] /\ wtask[v] # t
    BY <1>1 DEF IInv, TypeOK, ExactlyOnce, Running
  <2> QED BY <1>1, <2>1 DEF Held
<1> QED BY <1>1, <1>2 DEF Pool!Finish, Held

\* The destructor closes the pool when all tasks are posted.
LEMMA StopCloses == ASSUME IInv, DtorStop PROVE Pool!Close
<1> USE ThreadPoolAssumption DEF IInv, DtorStop, workerVars
<1>1. Held' = Held /\ (mpc = "done")' = (mpc = "done")
  BY DEF Held, Running
<1>2. isRun /\ next - 1 = NumTasks
  BY DEF TypeOK, StopInv
<1> QED BY <1>1, <1>2 DEF Pool!Close, Held

\* The last join returns when nothing is queued or running.
LEMMA JoinReturns == ASSUME IInv, Join PROVE Pool!Return
<1> USE ThreadPoolAssumption DEF IInv, Join, AllExited, workerVars
<1>1. Held = {} /\ Held' = {}
  BY DEF Held, Running
<1>2. ~isRun /\ tasks = <<>>
  BY DEF NobodySleepsThroughStop
<1> QED BY <1>1, <1>2 DEF Pool!Return, Held

\* Every step is one of the abstract pool, or none at all there.
LEMMA RefineStep == IInv /\ [Next]_vars => [Pool!PoolNext]_(Pool!poolVars)
<1> SUFFICES ASSUME IInv, [Next]_vars PROVE [Pool!PoolNext]_(Pool!poolVars)
  OBVIOUS
<1> USE DEF IInv
<1>1. ASSUME NEW w \in Workers, Spawn(w) PROVE UNCHANGED Pool!poolVars
  BY <1>1, Stutters DEF Spawn, TypeOK, Running
<1>2. CASE AddLock
  BY <1>2, Stutters DEF AddLock, workerVars, Running
<1>3. CASE AddPush
  BY <1>3, PushPosts DEF Pool!PoolNext
<1>4. CASE AddNotify
  BY <1>4, Stutters DEF AddNotify, NotifyOne, TypeOK, Running
<1>5. CASE DtorLock
  BY <1>5, Stutters DEF DtorLock, workerVars, Running
<1>6. CASE DtorStop
  BY <1>6, StopCloses DEF Pool!PoolNext
<1>7. CASE DtorNotify
  BY <1>7, Stutters DEF DtorNotify, NotifyAll, TypeOK, Running
<1>8. CASE Join
  BY <1>8, JoinReturns DEF Pool!PoolNext
<1>9. ASSUME NEW w \in Workers, WLock(w) PROVE UNCHANGED Pool!poolVars
  BY <1>9, Stutters DEF WLock, mainVars, TypeOK, Running
<1>10. ASSUME NEW w \in Workers, WWait(w) PROVE UNCHANGED Pool!poolVars
  BY <1>10, Stutters DEF WWait, mainVars, TypeOK, Running
<1>11. ASSUME NEW w \in Workers, WExit(w) PROVE UNCHANGED Pool!poolVars
  BY <1>11, Stutters DEF WExit, mainVars, TypeOK, Running
<1>12. ASSUME NEW w \in Workers, WTake(w) PROVE Pool!PoolNext
  BY <1>12, TakeStarts DEF Pool!PoolNext
<1>13. ASSUME NEW w \in Workers, WRun(w) PROVE Pool!PoolNext
  <2>1. wtask[w] \in 1 .. NumTasks
    <3>1. w \in Running
      BY <1>13 DEF WRun, Running
    <3>2. wtask[w] \in 1 .. next - 1 - Len(tasks)
      BY <3>1 DEF ExactlyOnce, Taken
    <3> QED BY <3>2, LenProperties, ThreadPoolAssumption DEF TypeOK
  <2>2. PICK t \in 1 .. NumTasks : t = wtask[w]
    BY <2>1
  <2>3. Pool!Finish(t)
    BY <1>13, <2>2, RunFinishes
  <2> QED BY <2>3 DEF Pool!PoolNext
<1>14. ASSUME NEW w \in Workers, Spurious(w) PROVE UNCHANGED Pool!poolVars
  BY <1>14, Stutters DEF Spurious, mainVars, TypeOK, Running
<1>15. CASE UNCHANGED vars
  BY <1>15, Stutters DEF vars, mainVars, workerVars, Running
<1> QED
  BY <1>1, <1>2, <1>3, <1>4, <1>5, <1>6, <1>7, <1>8, <1>9, <1>10, <1>11, <1>12,
     <1>13, <1>14, <1>15 DEF Next, MainStep, WorkerStep, Terminated

\* Seen through the mapping, every behaviour of the thread pool is one that
\* TaskPool allows: tasks start once, in the order of posting, at most as many
\* at a time as there are workers, and the destructor returns after all of them.
THEOREM ImplementsTaskPoolSafely == Spec => Pool!PoolSafety
  BY RefineInit, RefineStep, Invariance, PTL DEF Spec, Pool!PoolSafety
=============================================================================

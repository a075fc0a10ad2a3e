------------------------------- MODULE Wakeups -------------------------------
(***************************************************************************)
(* The programs of 04_Pthread and 03_Process in which one thread or        *)
(* process waits until another one tells it something:                     *)
(*   post       04_Pthread/06_sem.cpp               an unnamed semaphore   *)
(*   signal     04_Pthread/07_cond.cpp              pthread_cond_signal    *)
(*   broadcast  04_Pthread/07_cond2.cpp             and broadcast          *)
(*   detached   04_Pthread/12_thread_condition.cpp  notify_one             *)
(*   shared     04_Pthread/05_pthread_mutex.cpp     a counter and a mutex, *)
(*   whole      04_Pthread/11_thread_mutex.cpp      and printed inside it  *)
(*   reap       03_Process/14_signal_defunt.cpp     SIGCHLD, one wait each *)
(*   usr1       03_Process/15_kill_raise.cpp        SIGUSR1, then SIGKILL  *)
(*   mask       03_Process/16_sigprocmask.cpp       SIGCHLD, blocked first *)
(* The kind is chosen in Init.  A token reaches a semaphore or a pending   *)
(* signal whether or not anybody waits for it; a condition variable only   *)
(* knows who waits now, and none of the programs tests a condition.        *)
(***************************************************************************)
EXTENDS Integers, Sequences, FiniteSets

CONSTANTS
    Workers,        \* the consumers, counting threads or children of a program
    Kinds,          \* the programs to choose from
    MaxRounds,      \* bound: increments of one counting thread
    MaxSpurious     \* bound: wakeups of a condition variable that nobody caused

Conds == {"signal", "broadcast", "detached"}
Counters == {"shared", "whole"}
Signals == {"reap", "usr1", "mask"}
AllKinds == {"post"} \union Conds \union Counters \union Signals

N == Cardinality(Workers)
Free == "free"

ASSUME WakeupAssumption ==
    /\ IsFiniteSet(Workers) /\ Workers # {}
    /\ Free \notin Workers
    /\ Kinds \subseteq AllKinds
    /\ MaxRounds \in Nat /\ MaxSpurious \in Nat

VARIABLES
    kind,
    main,       \* what the main thread, or the parent, is about to do
    ws,         \* where each worker is
    done,       \* items each worker has consumed, or increments it has made
    \* producer and consumers
    left,       \* items the producer has still to produce
    avail,      \* the semaphore
    lost,       \* history: notifications that found nobody waiting
    spurious,   \* wakeups that nobody caused
    \* the mutex and what it guards
    holder, num, reg,
    shown,      \* history: the numbers printed
    \* signals
    pending,    \* the signal is pending: one bit
    handling,   \* the handler is running, and the parent is not
    pid,        \* the child the handler has reported; 0 if none
    coalesced   \* history: signals that found one pending already

itemVars == <<left, avail, lost, spurious>>
countVars == <<num, reg, shown>>
sigVars == <<pending, handling, pid, coalesced>>
vars == <<kind, main, ws, done, itemVars, holder, countVars, sigVars>>

\* 06 has one consumer for all items; 15 has one child.
Chosen == CHOOSE w \in Workers : TRUE
Team == IF kind \in {"post", "usr1"} THEN {Chosen} ELSE Workers

Init ==
    /\ kind \in Kinds
    /\ main = (IF kind = "mask" THEN "block" ELSE IF kind \in Signals THEN "fork" ELSE "join")
    /\ ws = [w \in Workers |-> IF kind \in Signals THEN "unborn" ELSE "start"]
    /\ done = [w \in Workers |-> 0]
    /\ left = (IF kind \in Conds \union {"post"} THEN N ELSE 0)
    /\ avail = 0 /\ lost = 0 /\ spurious = 0
    /\ holder = Free
    /\ num = 0 /\ reg = [w \in Workers |-> 0] /\ shown = <<>>
    /\ pending = FALSE /\ handling = FALSE /\ pid = 0 /\ coalesced = 0

Running == main # "exit"
Goes(w, from, to) == ws[w] = from /\ ws' = [ws EXCEPT ![w] = to]
Waiting == {w \in Workers : ws[w] = "wait"}

-----------------------------------------------------------------------------
(* A semaphore *)

SemPost ==
    /\ kind = "post" /\ left > 0
    /\ left' = left - 1
    /\ avail' = avail + 1
    /\ UNCHANGED <<kind, main, ws, done, lost, spurious, holder, countVars, sigVars>>

SemWait(w) ==
    /\ kind = "post" /\ w \in Team /\ done[w] < N
    /\ avail > 0
    /\ avail' = avail - 1
    /\ done' = [done EXCEPT ![w] = @ + 1]
    /\ UNCHANGED <<kind, main, ws, left, lost, spurious, holder, countVars, sigVars>>

-----------------------------------------------------------------------------
(* A condition variable *)

\* The producer holds no lock: it may come before anybody waits.
Notify ==
    /\ kind \in {"signal", "detached"} /\ Running /\ left > 0
    /\ left' = left - 1
    /\ IF Waiting = {}
       THEN lost' = lost + 1 /\ UNCHANGED ws
       ELSE (\E w \in Waiting : Goes(w, "wait", "woken")) /\ UNCHANGED lost
    /\ UNCHANGED <<kind, main, done, avail, spurious, holder, countVars, sigVars>>

\* Slip: signal instead of broadcast.
SignalOnce ==
    /\ kind = "broadcast" /\ left > 0
    /\ left' = 0
    /\ lost' = lost + Cardinality(Workers \ Waiting)
    /\ IF Waiting = {} THEN UNCHANGED ws ELSE \E w \in Waiting : Goes(w, "wait", "woken")
    /\ UNCHANGED <<kind, main, done, avail, spurious, holder, countVars, sigVars>>

\* One broadcast for all the items.
Broadcast ==
    /\ kind = "broadcast" /\ left > 0
    /\ left' = 0
    /\ lost' = lost + Cardinality(Workers \ Waiting)
    /\ ws' = [w \in Workers |-> IF w \in Waiting THEN "woken" ELSE ws[w]]
    /\ UNCHANGED <<kind, main, done, avail, spurious, holder, countVars, sigVars>>

\* Slip: the mutex is not taken.
NoLock(w) ==
    /\ kind \in Conds \union Counters /\ Running
    /\ kind \in Counters => done[w] < MaxRounds
    /\ Goes(w, "start", "locked")
    /\ UNCHANGED <<kind, main, done, itemVars, holder, countVars, sigVars>>

Lock(w) ==
    /\ kind \in Conds \union Counters /\ Running
    /\ kind \in Counters => done[w] < MaxRounds
    /\ holder = Free
    /\ holder' = w
    /\ Goes(w, "start", "locked")
    /\ UNCHANGED <<kind, main, done, itemVars, countVars, sigVars>>

\* Slip: the thread does not wait.
CondPass(w) ==
    /\ kind \in Conds /\ Running
    /\ Goes(w, "locked", "woken")
    /\ holder' = Free
    /\ UNCHANGED <<kind, main, done, itemVars, countVars, sigVars>>

\* The mutex is given up and the thread waits: one step.
CondWait(w) ==
    /\ kind \in Conds /\ Running
    /\ Goes(w, "locked", "wait")
    /\ holder' = Free
    /\ UNCHANGED <<kind, main, done, itemVars, countVars, sigVars>>

Spurious(w) ==
    /\ Running /\ spurious < MaxSpurious
    /\ Goes(w, "wait", "woken")
    /\ spurious' = spurious + 1
    /\ UNCHANGED <<kind, main, done, left, avail, lost, holder, countVars, sigVars>>

\* The mutex again, "cost an item", unlock.
Consume(w) ==
    /\ Running
    /\ holder = Free
    /\ Goes(w, "woken", "done")
    /\ done' = [done EXCEPT ![w] = @ + 1]
    /\ UNCHANGED <<kind, main, itemVars, holder, countVars, sigVars>>

-----------------------------------------------------------------------------
(* A counter: ++num loads and stores *)

Load(w) ==
    /\ kind \in Counters /\ Running
    /\ Goes(w, "locked", "loaded")
    /\ reg' = [reg EXCEPT ![w] = num]
    /\ UNCHANGED <<kind, main, done, itemVars, holder, num, shown, sigVars>>

\* 05 unlocks and prints, 11 prints and unlocks.
Store(w) ==
    /\ Running
    /\ Goes(w, "loaded", "stored")
    /\ num' = reg[w] + 1
    /\ done' = [done EXCEPT ![w] = @ + 1]
    /\ holder' = IF kind = "shared" THEN Free ELSE holder
    /\ UNCHANGED <<kind, main, itemVars, reg, shown, sigVars>>

Show(w) ==
    /\ Running
    /\ Goes(w, "stored", "start")
    /\ shown' = Append(shown, num)
    /\ holder' = IF kind = "whole" THEN Free ELSE holder
    /\ UNCHANGED <<kind, main, done, itemVars, num, reg, sigVars>>

\* main returns: when it has joined the producer and the consumers; in 12 it
\* joins only the producer, and in 11 nobody; what is still running is ended.
Joined ==
    CASE kind = "post" -> left = 0 /\ \A w \in Team : done[w] = N
      [] kind = "detached" -> left = 0
      [] kind = "whole" -> TRUE
      [] kind = "shared" -> FALSE
      [] OTHER -> left = 0 /\ \A w \in Team : ws[w] = "done"

Return ==
    /\ main = "join"
    /\ Joined
    /\ main' = "exit"
    /\ UNCHANGED <<kind, ws, done, itemVars, holder, countVars, sigVars>>

-----------------------------------------------------------------------------
(* Signals *)

\* Slip: nothing is blocked.
NeverMasked == FALSE

Masked == main \in {"fork", "reset", "unblock"} /\ kind = "mask"

Parent(from, to) == main = from /\ ~handling /\ main' = to
Unborn == {w \in Team : ws[w] = "unborn"}

\* sigprocmask(SIG_BLOCK) before a child is born.
Block ==
    /\ Unborn # {}
    /\ Parent("block", "fork")
    /\ UNCHANGED <<kind, ws, done, itemVars, holder, countVars, sigVars>>

\* 14 and 15 fork all their children, then loop for ever; 16 one in a round.
Fork ==
    /\ \E w \in Unborn : Goes(w, "unborn", "running")
    /\ Parent("fork", IF kind = "mask" THEN "reset"
                      ELSE IF Cardinality(Unborn) > 1 THEN "fork" ELSE "loop")
    /\ UNCHANGED <<kind, done, itemVars, holder, countVars, sigVars>>

\* pid=0.
Forget ==
    /\ Parent("reset", "unblock")
    /\ pid' = 0
    /\ UNCHANGED <<kind, ws, done, itemVars, holder, countVars, pending, handling, coalesced>>

Unblock ==
    /\ Parent("unblock", "spin")
    /\ UNCHANGED <<kind, ws, done, itemVars, holder, countVars, sigVars>>

\* while(!pid);
SpinOut ==
    /\ pid # 0
    /\ Parent("spin", "block")
    /\ UNCHANGED <<kind, ws, done, itemVars, holder, countVars, sigVars>>

Raise ==
    /\ coalesced' = IF pending THEN coalesced + 1 ELSE coalesced
    /\ pending' = TRUE
    /\ UNCHANGED <<handling, pid>>

\* A child ends, and its parent gets SIGCHLD; in 15 it sends SIGUSR1 before.
ChildExits(w) ==
    /\ main # "killed"
    /\ \/ kind # "usr1" /\ Goes(w, "running", "zombie") /\ Raise
       \/ kind = "usr1" /\ Goes(w, "running", "called") /\ Raise
       \/ Goes(w, "called", "zombie") /\ UNCHANGED sigVars
    /\ UNCHANGED <<kind, main, done, itemVars, holder, countVars>>

\* The handler starts between any two steps of the parent, unless blocked.
Deliver ==
    /\ pending /\ ~handling /\ ~Masked
    /\ pending' = FALSE /\ handling' = TRUE
    /\ UNCHANGED <<kind, main, ws, done, itemVars, holder, countVars, pid, coalesced>>

Zombies == {w \in Workers : ws[w] = "zombie"}

\* Slip: the handler collects all that have ended.
ReapAll ==
    /\ handling
    /\ Zombies # {}
    /\ ws' = [w \in Workers |-> IF ws[w] = "zombie" THEN "reaped" ELSE ws[w]]
    /\ pid' = 1 /\ handling' = FALSE
    /\ main' = IF kind = "usr1" THEN "killed" ELSE main
    /\ UNCHANGED <<kind, done, itemVars, holder, countVars, pending, coalesced>>

\* wait for one child; 15 kills itself after it.
Reap ==
    /\ handling
    /\ \E w \in Zombies : Goes(w, "zombie", "reaped")
    /\ pid' = 1 /\ handling' = FALSE
    /\ main' = IF kind = "usr1" THEN "killed" ELSE main
    /\ UNCHANGED <<kind, done, itemVars, holder, countVars, pending, coalesced>>

-----------------------------------------------------------------------------
Producer == SemPost \/ Notify \/ Broadcast
Worker(w) == SemWait(w) \/ Lock(w) \/ CondWait(w) \/ Consume(w)
             \/ Load(w) \/ Store(w) \/ Show(w) \/ ChildExits(w)
Main == Return \/ Block \/ Fork \/ Forget \/ Unblock \/ SpinOut
Handler == Deliver \/ Reap

Next ==
    \/ Producer \/ Main \/ Handler
    \/ \E w \in Workers : Worker(w) \/ Spurious(w)

Spec == Init /\ [][Next]_vars

\* Threads and processes are scheduled; every mutex is free for ever in the end,
\* so that nothing stronger is needed of it.
FairSpec ==
    /\ Spec
    /\ WF_vars(Producer) /\ WF_vars(Main) /\ WF_vars(Handler)
    /\ \A w \in Workers : WF_vars(Worker(w))

-----------------------------------------------------------------------------
(* Properties *)

\* What each worker has consumed, or incremented, one by one; and all together.
Doings == UNION {{<<w, i>> : i \in 1 .. done[w]} : w \in Workers}
Total == Cardinality(Doings)
Bit(b) == IF b THEN 1 ELSE 0

TypeOK ==
    /\ kind \in Kinds
    /\ main \in {"join", "exit", "block", "fork", "reset", "unblock", "spin", "loop", "killed"}
    /\ ws \in [Workers -> {"start", "locked", "wait", "woken", "done", "loaded", "stored",
                           "unborn", "running", "called", "zombie", "reaped"}]
    /\ done \in [Workers -> Nat]
    /\ left \in 0 .. N /\ avail \in 0 .. N /\ lost \in 0 .. N /\ spurious \in 0 .. MaxSpurious
    /\ holder \in Workers \union {Free}
    /\ num \in Nat /\ reg \in [Workers -> Nat] /\ shown \in Seq(Nat)
    /\ pending \in BOOLEAN /\ handling \in BOOLEAN /\ pid \in {0, 1} /\ coalesced \in 0 .. N

\* Nobody consumes what was not produced, but for spurious wakeups (06, 07, 12):
\* produced items are consumed, on their way, or were notified to nobody.
NothingFromNothing ==
    /\ kind = "post" => Total + avail = N - left
    /\ kind \in Conds =>
          Total + Cardinality({w \in Workers : ws[w] = "woken"}) + lost = N - left + spurious

\* The mutex loses no increment; where printing is inside it every number is
\* printed once and in order (11), outside of it (05) not even that.
CountedUp ==
    kind \in Counters =>
        /\ num = Total
        /\ kind = "whole" => \A i \in DOMAIN shown : shown[i] = i

\* One child is reaped for each delivered SIGCHLD, so the zombies that stay are
\* as many as signals were merged (14); with the signal blocked around fork (16)
\* none is.
ZombiesWereMerged ==
    kind \in {"reap", "mask"} =>
        /\ Cardinality(Zombies) = coalesced + Bit(pending) + Bit(handling)
        /\ kind = "mask" => coalesced = 0

\* A program comes to its end: with a semaphore always, with a condition variable
\* if every notification found somebody waiting, with detached threads whether or
\* not; the parent that waits for SIGUSR1 reaps its child before it dies; and no
\* parent spins for ever: the end of its child is not reported before it starts to
\* look (16).
ComesToItsEnd ==
    /\ (kind \in {"post", "usr1"} \union Conds) ~>
          \/ main = "exit"
          \/ main = "killed" /\ ws[Chosen] = "reaped"
          \/ kind \in {"signal", "broadcast"} /\ lost > 0
    /\ main = "spin" ~> main # "spin"
=============================================================================

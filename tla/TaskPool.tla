------------------------------ MODULE TaskPool ------------------------------
(***************************************************************************)
(* What a pool of worker threads promises to its only client, the thread   *)
(* that constructs it, posts tasks to it and destroys it                   *)
(* (07_projects/02_ThreadPool/threadpool.h, main.cpp):                     *)
(*   - tasks are numbered in the order addTask posts them, they start in   *)
(*     that order, each of them once;                                      *)
(*   - at most Width of them run at a time;                                *)
(*   - the destructor closes the pool and returns only when every posted   *)
(*     task has been run.                                                  *)
(* Threads, the mutex and the condition variable are left to ThreadPool.   *)
(***************************************************************************)
EXTENDS Naturals, Sequences, FiniteSets

CONSTANTS
    Tasks,      \* how many tasks the client posts
    Width       \* how many tasks may run at the same time

VARIABLES
    posted,     \* tasks 1..posted have been handed to addTask
    pending,    \* posted tasks that no thread has started, oldest first
    running,    \* tasks being run
    finished,   \* tasks that have been run
    open,       \* FALSE once the destructor has closed the pool
    returned    \* the destructor has returned

poolVars == <<posted, pending, running, finished, open, returned>>

PoolInit ==
    /\ posted = 0
    /\ pending = <<>>
    /\ running = {}
    /\ finished = {}
    /\ open = TRUE
    /\ returned = FALSE

\* addTask: the task joins the tail of the queue.
Post ==
    /\ open
    /\ posted < Tasks
    /\ posted' = posted + 1
    /\ pending' = Append(pending, posted + 1)
    /\ UNCHANGED <<running, finished, open, returned>>

\* Some worker starts the oldest queued task.
Start ==
    /\ pending # <<>>
    /\ Cardinality(running) < Width
    /\ running' = running \union {Head(pending)}
    /\ pending' = Tail(pending)
    /\ UNCHANGED <<posted, finished, open, returned>>

\* A running task comes to its end.
Finish(t) ==
    /\ t \in running
    /\ running' = running \ {t}
    /\ finished' = finished \union {t}
    /\ UNCHANGED <<posted, pending, open, returned>>

\* The destructor closes the pool once everything has been posted ...
Close ==
    /\ open
    /\ posted = Tasks
    /\ open' = FALSE
    /\ UNCHANGED <<posted, pending, running, finished, returned>>

\* ... and returns when nothing is queued or running any more.
Return ==
    /\ ~open
    /\ ~returned
    /\ pending = <<>>
    /\ running = {}
    /\ returned' = TRUE
    /\ UNCHANGED <<posted, pending, running, finished, open>>

PoolNext == Post \/ Start \/ (\E t \in 1 .. Tasks : Finish(t)) \/ Close \/ Return

PoolSafety == PoolInit /\ [][PoolNext]_poolVars

PoolSpec ==
    /\ PoolSafety
    /\ WF_poolVars(Post) /\ WF_poolVars(Close) /\ WF_poolVars(Return)
    /\ WF_poolVars(Start)
    /\ \A t \in 1 .. Tasks : WF_poolVars(Finish(t))

=============================================================================

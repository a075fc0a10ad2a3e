------------------------------- MODULE SemSet -------------------------------
(***************************************************************************)
(* The semaphore sets of sem.cpp (03_Process/20_sem and 21_sem_pratice,    *)
(* the same file): create_sem, P, V and delete_sem on the one System V set *)
(* that all processes find under the key ftok("/",'k').                    *)
(*                                                                         *)
(* The set belongs to the kernel and outlives its processes.  Whoever      *)
(* creates it fills it in afterwards, one semaphore after the other, with  *)
(* values typed by the user; a process that finds it does not wait for     *)
(* that.  A set deleted and created again has a new id.                    *)
(***************************************************************************)
EXTENDS Integers

CONSTANTS
    Procs,
    NumSems,        \* semcount, positive
    InitVal         \* the values the user types, natural numbers

Sems == 0 .. NumSems - 1

VARIABLES
    alive,      \* is there a set under the key?
    gen,        \* the id of the latest one
    val,        \* its semaphores
    semid,      \* the id that each process works with
    ini         \* the semaphore its create_sem initialises next

semVars == <<alive, gen, val, semid, ini>>

SemInit ==
    /\ alive = FALSE
    /\ gen = 0
    /\ val = [s \in Sems |-> 0]
    /\ semid = [p \in Procs |-> 0]
    /\ ini = [p \in Procs |-> NumSems]

\* The semget calls of create_sem: a new set, all zero, or the existing one.
CreateSem(p) ==
    IF alive
    THEN /\ semid' = [semid EXCEPT ![p] = gen]
         /\ UNCHANGED <<alive, gen, val, ini>>
    ELSE /\ alive' = TRUE
         /\ gen' = gen + 1
         /\ val' = [s \in Sems |-> 0]
         /\ semid' = [semid EXCEPT ![p] = gen + 1]
         /\ ini' = [ini EXCEPT ![p] = 0]

Valid(p) == alive /\ semid[p] = gen
Created(p) == ini[p] = NumSems

\* One init_sem: the value is read, then set, whatever it has become meanwhile.
InitSem(p) ==
    /\ ~Created(p)
    /\ ini' = [ini EXCEPT ![p] = @ + 1]
    /\ val' = IF Valid(p) THEN [val EXCEPT ![ini[p]] = InitVal[ini[p]]] ELSE val
    /\ UNCHANGED <<alive, gen, semid>>

\* P blocks at zero; without a set it fails at once, and no caller looks.
P(p, s) ==
    /\ Valid(p) => val[s] > 0
    /\ val' = IF Valid(p) THEN [val EXCEPT ![s] = @ - 1] ELSE val
    /\ UNCHANGED <<alive, gen, semid, ini>>

V(p, s) ==
    /\ val' = IF Valid(p) THEN [val EXCEPT ![s] = @ + 1] ELSE val
    /\ UNCHANGED <<alive, gen, semid, ini>>

\* delete_sem: the set is gone, and whoever waits in P returns with an error.
Delete(p) ==
    /\ alive' = (alive /\ ~Valid(p))
    /\ UNCHANGED <<gen, val, semid, ini>>

\* A killed process leaves the set as it is: no operation has SEM_UNDO.
Abandon(p) ==
    /\ ini' = [ini EXCEPT ![p] = NumSems]
    /\ UNCHANGED <<alive, gen, val, semid>>
=============================================================================

------------------------------- MODULE SemRing -------------------------------
(***************************************************************************)
(* The ring of 03_Process/21_sem_pratice (proc1, proc2 and proc3) and of   *)
(* 04_Pthread/09_sem_pratice.cpp: the members print their letters in    *)
(* turn.  Member i waits for semaphore i and releases the next one.        *)
(*                                                                         *)
(* The threads of 09_sem_pratice start on semaphores that are ready.  The  *)
(* processes of 21_sem_pratice share the set of sem.cpp (SemSet), which    *)
(* the first of them fills in while others may run; they never end, so     *)
(* they are stopped by killing them, and started again on the old set.     *)
(***************************************************************************)
EXTENDS Integers

CONSTANTS
    NumMembers,     \* the number of members, 3 in the code
    Orderly,        \* does nobody start before the semaphores are ready?
    MaxKills        \* bound on the kills of one behaviour

ASSUME SemRingAssumption ==
    /\ NumMembers \in Nat \ {0}
    /\ Orderly \in BOOLEAN
    /\ MaxKills \in Nat

Members == 0 .. NumMembers - 1
Succ(i) == (i + 1) % NumMembers

\* Slip: every semaphore starts with a token.
EveryToken == [s \in Members |-> 1]

\* One token, at member 0.
FirstToken == [s \in Members |-> IF s = 0 THEN 1 ELSE 0]

VARIABLES
    alive, gen, val, semid, ini,    \* the semaphore set
    pc,         \* where each member is
    last,       \* history: who has printed last
    kills       \* history: how many members have been killed

ringVars == <<alive, gen, val, semid, ini, pc, last, kills>>

Set == INSTANCE SemSet WITH Procs <- Members, NumSems <- NumMembers, InitVal <- FirstToken

RingInit ==
    /\ Set!SemInit
    /\ pc = [i \in Members |-> "start"]
    /\ last = NumMembers - 1
    /\ kills = 0

Create(i) ==
    /\ pc[i] = "start"
    /\ Set!CreateSem(i)
    /\ pc' = [pc EXCEPT ![i] = "init"]
    /\ UNCHANGED <<last, kills>>

Initialise(i) ==
    /\ pc[i] = "init"
    /\ Set!InitSem(i)
    /\ UNCHANGED <<pc, last, kills>>

Ready == \A j \in Members : Set!Created(j)

Enter(i) ==
    /\ pc[i] = "init"
    /\ Set!Created(i)
    /\ Orderly => Ready
    /\ pc' = [pc EXCEPT ![i] = "wait"]
    /\ UNCHANGED <<alive, gen, val, semid, ini, last, kills>>

\* Slip: the member waits for the semaphore that it releases.
ReleasedOne(i) == Succ(i)

Mine(i) == i

Wait(i) ==
    /\ pc[i] = "wait"
    /\ Set!P(i, Mine(i))
    /\ pc' = [pc EXCEPT ![i] = "print"]
    /\ UNCHANGED <<last, kills>>

Output(i) ==
    /\ pc[i] = "print"
    /\ last' = i
    /\ pc' = [pc EXCEPT ![i] = "release"]
    /\ UNCHANGED <<alive, gen, val, semid, ini, kills>>

Release(i) ==
    /\ pc[i] = "release"
    /\ Set!V(i, Succ(i))
    /\ pc' = [pc EXCEPT ![i] = "wait"]
    /\ UNCHANGED <<last, kills>>

\* A member is killed, wherever it is, and can be started again.
Kill(i) ==
    /\ kills < MaxKills
    /\ pc[i] # "start"
    /\ Set!Abandon(i)
    /\ pc' = [pc EXCEPT ![i] = "start"]
    /\ kills' = kills + 1
    /\ UNCHANGED last

Step(i) == Create(i) \/ Initialise(i) \/ Enter(i) \/ Wait(i) \/ Output(i) \/ Release(i)

RingNext == \E i \in Members : Step(i) \/ Kill(i)

RingSpec == RingInit /\ [][RingNext]_ringVars

\* Every member is started, its user answers the prompts, and it is scheduled.
FairRing == RingSpec /\ \A i \in Members : WF_ringVars(Step(i))

-----------------------------------------------------------------------------
(* Properties *)

\* The types of the variables; a semaphore never counts more than one token.
RingTypeOK ==
    /\ alive \in BOOLEAN
    /\ gen \in Nat
    /\ val \in [Members -> 0 .. 1]
    /\ semid \in [Members -> Nat]
    /\ ini \in [Members -> 0 .. NumMembers]
    /\ pc \in [Members -> {"start", "init", "wait", "print", "release"}]
    /\ last \in Members
    /\ kills \in 0 .. MaxKills

\* Only the member after the last printer may be about to print, so the output
\* is ABCABC... and no two members print at once; kills do not change that.
InTurn == \A i \in Members : pc[i] = "print" => i = Succ(last)

\* If no member is ever killed, everybody prints again and again.
EverybodyPrints == [](kills = 0) => \A i \in Members : []<>(last = i)
=============================================================================

----------------------------- MODULE MCProcess -----------------------------
(***************************************************************************)
(* The programs of 03_Process and 04_Pthread that share no state, in one   *)
(* state graph: those of Wakeups, the copies of FileCopies and the ring of *)
(* SemRing.  One of the three runs; the other two stand in a state they    *)
(* can reach and cannot leave.                                             *)
(***************************************************************************)
EXTENDS Wakeups, FileCopies, SemRing

\* 06_sem has produced and consumed everything.
NothingWaits ==
    /\ kind = "post" /\ main = "exit"
    /\ ws = [w \in Workers |-> "start"]
    /\ done = [w \in Workers |-> IF w = Chosen THEN N ELSE 0]
    /\ left = 0 /\ avail = 0 /\ lost = 0 /\ spurious = 0
    /\ holder = Free
    /\ num = 0 /\ reg = [w \in Workers |-> 0] /\ shown = <<>>
    /\ pending = FALSE /\ handling = FALSE /\ pid = 0 /\ coalesced = 0

\* Neither thread of 08_pthread_pratice could open its files.
NothingCopies ==
    /\ program = "threads" /\ size = 0
    /\ dest = FileOf(0, Old)
    /\ stage = [h \in Halves |-> "failed"]
    /\ off = [h \in Halves |-> 0]
    /\ ret = [h \in Halves |-> 0]

\* Member 0 has been killed with the token and waits, like all the others.
NobodyPrints ==
    /\ alive = TRUE /\ gen = 1
    /\ val = [s \in Members |-> 0]
    /\ semid = [i \in Members |-> 1]
    /\ ini = [i \in Members |-> NumMembers]
    /\ pc = [i \in Members |-> "wait"]
    /\ last = NumMembers - 1
    /\ kills = MaxKills

ProcessInit ==
    \/ Init /\ NothingCopies /\ NobodyPrints
    \/ CopyInit /\ NothingWaits /\ NobodyPrints
    \/ RingInit /\ NothingWaits /\ NothingCopies

ProcessNext ==
    \/ Next /\ UNCHANGED <<copyVars, ringVars>>
    \/ CopyNext /\ UNCHANGED <<vars, ringVars>>
    \/ RingNext /\ UNCHANGED <<vars, copyVars>>

\* The fairness of the three specifications.
ProcessSpec ==
    /\ ProcessInit /\ [][ProcessNext]_<<vars, copyVars, ringVars>>
    /\ WF_vars(Producer) /\ WF_vars(Main) /\ WF_vars(Handler)
    /\ \A w \in Workers : WF_vars(Worker(w))
    /\ WF_copyVars(CopyNext)
    /\ \A i \in Members : WF_ringVars(Step(i))
=============================================================================

------------------------------ MODULE Mailboxes ------------------------------
(***************************************************************************)
(* The programs of 03_Process that pass lines from one process to another: *)
(*   pipe    08_pipe.cpp         one write, one read                       *)
(*   drain   10_pipe_read.cpp    the reader never stops                    *)
(*   flood   11_pipe_write.cpp   the writer never stops                    *)
(*   fifo    12_fifo             lines until "quit"                        *)
(*   chat    12_fifo_pratice     the same in both directions               *)
(*   msgq    17_msgq             a queue of messages with types            *)
(*   talk    19_msgq_pratice     two conversations in one queue            *)
(*   shm     18_shmget           a buffer in shared memory                 *)
(*   sem     20_sem              the same with two semaphores              *)
(* The kind is chosen in Init.  Channel d leads from sender d to receiver  *)
(* d; in a message queue it is the type d, and any sender may write to it. *)
(*                                                                         *)
(* A line is its author and its number; the last number stands for "quit". *)
(* fgets writes into shared memory piece by piece and leaves a newline,    *)
(* which a further step removes; a reader may look at any time.            *)
(***************************************************************************)
EXTENDS Integers, Sequences, FiniteSets, FiniteSetsExt, SequencesExt

CONSTANTS
    Kinds,          \* the programs to choose from
    MaxLines,       \* bound: lines of one author before its quit
    Cap,            \* lines a pipe or a queue holds
    MaxKills        \* bound: kills of receivers

Channels == {1, 2}
AllKinds == {"pipe", "drain", "flood", "fifo", "chat", "msgq", "talk", "shm", "sem"}
Piped == {"pipe", "drain", "flood", "fifo", "chat"}
Fifos == {"fifo", "chat"}
Queues == {"msgq", "talk"}
Shared == {"shm", "sem"}

ASSUME MailboxAssumption ==
    /\ Kinds \subseteq AllKinds
    /\ MaxLines \in Nat \ {0} /\ Cap \in Nat \ {0} /\ MaxKills \in Nat

VARIABLES
    kind,
    spc, rpc,   \* where each sender and each receiver is
    sent,       \* history: the lines sent on each channel
    got,        \* history: what each receiver displayed; what goes on for ever once
    took,       \* history: how many of the lines it has taken
    typed,      \* how many lines each sender has typed
    pipe,       \* what each pipe holds
    mq,         \* the message queue
    mqUp,       \* whether it exists
    held,       \* the message that a receiver has taken and not displayed yet
    buf,        \* the shared memory
    paced,      \* history: pipes that were empty when "quit" was written
    kills,      \* how many receivers have been killed
    alive, gen, val, semid, ini     \* the semaphore set

semVars == <<alive, gen, val, semid, ini>>
recvVars == <<got, took, held>>
vars == <<kind, spc, rpc, sent, recvVars, typed, pipe, mq, mqUp, buf, paced, kills, semVars>>

\* Semaphore 0 starts with a token, semaphore 1 without: what has to be typed.
Set == INSTANCE SemSet WITH Procs <- {"sender", "receiver"}, NumSems <- 2,
                            InitVal <- [s \in 0 .. 1 |-> 1 - s]

QuitNo == MaxLines + 1
Line == Channels \X (1 .. QuitNo)
IsQuit(line) == line[2] = QuitNo
Blank == <<0, 0>>           \* fresh shared memory
Torn == <<0, -1>>           \* a line that is being written
Untrimmed(line) == <<line[1], -1 - line[2]>>    \* a line and its newline

BothWays == {"chat", "talk"}
Active == IF kind \in BothWays THEN Channels ELSE {1}
StartOf(ready) == CASE kind \in Fifos -> "open" [] kind = "sem" -> "create" [] OTHER -> ready

Init ==
    /\ kind \in Kinds
    /\ spc = [d \in Channels |-> IF d \in Active THEN StartOf("write") ELSE "done"]
    /\ rpc = [d \in Channels |-> IF d \in Active THEN StartOf("read") ELSE "done"]
    /\ sent = [d \in Channels |-> <<>>]
    /\ got = [d \in Channels |-> <<>>] /\ took = [d \in Channels |-> 0]
    /\ held = [d \in Channels |-> Blank]
    /\ typed = [d \in Channels |-> 0]
    /\ pipe = [d \in Channels |-> <<>>]
    /\ mq = <<>> /\ mqUp = TRUE
    /\ buf = Blank
    /\ paced = {}
    /\ kills = 0
    /\ Set!SemInit

\* The next line that is typed: another one, or quit.
Typed(s) == {<<s, n>> : n \in {typed[s] + 1, QuitNo} \intersect 1 .. QuitNo}
Counted(s) == typed' = [typed EXCEPT ![s] = @ + 1]

-----------------------------------------------------------------------------
(* Pipes and FIFOs *)

\* open of a FIFO waits for the other side.
Open(d) ==
    /\ spc[d] = "open" /\ rpc[d] = "open"
    /\ spc' = [spc EXCEPT ![d] = "write"]
    /\ rpc' = [rpc EXCEPT ![d] = "read"]
    /\ UNCHANGED <<kind, sent, recvVars, typed, pipe, mq, mqUp, buf, paced, kills, semVars>>

\* Slip: the writer keeps its own copy of the reading end open.
ReaderKept(d) == TRUE

ReaderThere(d) == rpc[d] \in {"open", "read"}

Put(d, lines) ==
    /\ ReaderThere(d)
    /\ Len(pipe[d]) + Len(lines) <= Cap
    /\ pipe' = [pipe EXCEPT ![d] = @ \o lines]
    /\ sent' = [sent EXCEPT ![d] = @ \o lines]

\* fgets, write; quit ends the loop.
WriteFifo(d) ==
    /\ kind \in Fifos
    /\ spc[d] = "write"
    /\ \E line \in Typed(d) :
          /\ Put(d, <<line>>)
          /\ spc' = [spc EXCEPT ![d] = IF IsQuit(line) THEN "done" ELSE "write"]
          /\ paced' = IF IsQuit(line) /\ pipe[d] = <<>> THEN paced \union {d} ELSE paced
    /\ Counted(d)
    /\ UNCHANGED <<kind, rpc, recvVars, mq, mqUp, buf, kills, semVars>>

\* One write, then close: a line (08), or its letters (10).
WriteOnce(d) ==
    /\ kind \in {"pipe", "drain"}
    /\ spc[d] = "write"
    /\ Put(d, [i \in 1 .. (IF kind = "pipe" THEN 1 ELSE MaxLines) |-> <<d, i>>])
    /\ spc' = [spc EXCEPT ![d] = "done"]
    /\ UNCHANGED <<kind, rpc, recvVars, typed, mq, mqUp, buf, paced, kills, semVars>>

\* 11 writes letter after letter; a full pipe blocks it.
WriteOn(d) ==
    /\ kind = "flood"
    /\ spc[d] = "write"
    /\ Put(d, <<<<d, 1>>>>)
    /\ UNCHANGED <<kind, spc, rpc, recvVars, typed, mq, mqUp, buf, paced, kills, semVars>>

\* write to a pipe that nobody reads: SIGPIPE.
BrokenPipe(d) ==
    /\ kind \in Piped
    /\ spc[d] = "write"
    /\ ~ReaderThere(d)
    /\ spc' = [spc EXCEPT ![d] = "killed"]
    /\ UNCHANGED <<kind, rpc, sent, recvVars, typed, pipe, mq, mqUp, buf, paced, kills, semVars>>

\* read returns all that is there, or one letter (10).
Portion(d) == IF kind = "drain" THEN <<Head(pipe[d])>> ELSE pipe[d]

ReadPipe(d) ==
    /\ kind \in Piped
    /\ rpc[d] = "read"
    /\ pipe[d] # <<>>
    /\ got' = [got EXCEPT ![d] = @ \o Portion(d)]
    /\ took' = [took EXCEPT ![d] = @ + Len(Portion(d))]
    /\ pipe' = [pipe EXCEPT ![d] = SubSeq(@, Len(Portion(d)) + 1, Len(@))]
    /\ rpc' = [rpc EXCEPT ![d] =
           CASE kind \in {"pipe", "flood"} -> "done"
             [] kind = "drain" -> "read"
             [] OTHER -> IF Len(pipe[d]) = 1 /\ IsQuit(pipe[d][1]) THEN "done" ELSE "read"]
    /\ UNCHANGED <<kind, spc, sent, held, typed, mq, mqUp, buf, paced, kills, semVars>>

\* read at the end of the pipe returns 0, which nobody looks at: for ever 10 prints
\* its last letter, and 12 the emptied buffer.
ReadNothing(d) ==
    /\ kind \in {"drain"} \union Fifos
    /\ rpc[d] = "read"
    /\ pipe[d] = <<>>
    /\ spc[d] \in {"done", "killed"}
    /\ got' = [got EXCEPT ![d] = Append(@, IF kind = "drain" THEN Last(@) ELSE Blank)]
    /\ rpc' = [rpc EXCEPT ![d] = "spin"]
    /\ UNCHANGED <<kind, spc, sent, took, held, typed, pipe, mq, mqUp, buf, paced, kills, semVars>>

-----------------------------------------------------------------------------
(* The message queue *)

Post(s) ==
    /\ kind \in Queues
    /\ spc[s] = "write"
    /\ mqUp
    /\ Len(mq) < Cap
    /\ \E type \in Channels, line \in Typed(s) :
          /\ mq' = Append(mq, [type |-> type, line |-> line])
          /\ sent' = [sent EXCEPT ![type] = Append(@, line)]
          /\ spc' = [spc EXCEPT ![s] = IF IsQuit(line) THEN "done" ELSE "write"]
    /\ Counted(s)
    /\ UNCHANGED <<kind, rpc, recvVars, pipe, mqUp, buf, paced, kills, semVars>>

OfType(t) == {i \in DOMAIN mq : mq[i].type = t}

\* msgrcv takes the first message of the type.
Receive(t) ==
    /\ kind \in Queues
    /\ rpc[t] = "read"
    /\ OfType(t) # {}
    /\ LET i == Min(OfType(t))
       IN  /\ held' = [held EXCEPT ![t] = mq[i].line]
           /\ mq' = RemoveAt(mq, i)
    /\ took' = [took EXCEPT ![t] = @ + 1]
    /\ rpc' = [rpc EXCEPT ![t] = "print"]
    /\ UNCHANGED <<kind, spc, sent, got, typed, pipe, mqUp, buf, paced, kills, semVars>>

\* printf and strcmp; the buffer is cleared for the next message.
Show(t) ==
    /\ rpc[t] = "print"
    /\ got' = [got EXCEPT ![t] = Append(@, held[t])]
    /\ held' = [held EXCEPT ![t] = Blank]
    /\ rpc' = [rpc EXCEPT ![t] = IF ~IsQuit(held[t]) THEN "read"
                                 ELSE IF kind = "msgq" THEN "remove" ELSE "done"]
    /\ UNCHANGED <<kind, spc, sent, took, typed, pipe, mq, mqUp, buf, paced, kills, semVars>>

\* After quit 17 removes the queue.
RemoveQueue(t) ==
    /\ rpc[t] = "remove"
    /\ mq' = <<>> /\ mqUp' = FALSE
    /\ rpc' = [rpc EXCEPT ![t] = "done"]
    /\ UNCHANGED <<kind, spc, sent, recvVars, typed, pipe, buf, paced, kills, semVars>>

-----------------------------------------------------------------------------
(* Shared memory *)

\* fgets begins to write, whatever the memory holds.
Begin ==
    /\ kind \in Shared
    /\ spc[1] = "write"
    /\ buf' = Torn
    /\ spc' = [spc EXCEPT ![1] = "copy"]
    /\ UNCHANGED <<kind, rpc, sent, recvVars, typed, pipe, mq, mqUp, paced, kills, semVars>>

Copy ==
    /\ spc[1] = "copy"
    /\ \E line \in Typed(1) : buf' = Untrimmed(line)
    /\ Counted(1)
    /\ spc' = [spc EXCEPT ![1] = "trim"]
    /\ UNCHANGED <<kind, rpc, sent, recvVars, pipe, mq, mqUp, paced, kills, semVars>>

\* Slip: the newline stays.
TrimNothing ==
    /\ spc[1] = "trim"
    /\ sent' = [sent EXCEPT ![1] = Append(@, <<buf[1], -1 - buf[2]>>)]
    /\ spc' = [spc EXCEPT ![1] = IF kind = "sem" THEN "release"
                                 ELSE IF -1 - buf[2] = QuitNo THEN "done" ELSE "write"]
    /\ UNCHANGED <<kind, rpc, recvVars, typed, pipe, mq, mqUp, buf, paced, kills, semVars>>

\* The newline is replaced; 18 tests for quit at once, 20 releases semaphore 1.
Trim ==
    /\ spc[1] = "trim"
    /\ LET line == <<buf[1], -1 - buf[2]>>
       IN  /\ buf' = line
           /\ sent' = [sent EXCEPT ![1] = Append(@, line)]
           /\ spc' = [spc EXCEPT ![1] = IF kind = "sem" THEN "release"
                                        ELSE IF IsQuit(line) THEN "done" ELSE "write"]
    /\ UNCHANGED <<kind, rpc, recvVars, typed, pipe, mq, mqUp, paced, kills, semVars>>

\* printf; 18 displays the same again and again, which is recorded once.
Display ==
    /\ kind \in Shared
    /\ rpc[1] = "read"
    /\ got' = IF kind = "shm" /\ got[1] # <<>> /\ Last(got[1]) = buf THEN got
              ELSE [got EXCEPT ![1] = Append(@, buf)]
    /\ took' = [took EXCEPT ![1] = Len(sent[1])]
    /\ rpc' = [rpc EXCEPT ![1] = "test"]
    /\ UNCHANGED <<kind, spc, sent, held, typed, pipe, mq, mqUp, buf, paced, kills, semVars>>

\* strcmp looks at the memory once more; after quit it is removed.
Test ==
    /\ rpc[1] = "test"
    /\ rpc' = [rpc EXCEPT ![1] = IF IsQuit(buf) THEN "done"
                                 ELSE IF kind = "sem" THEN "release" ELSE "read"]
    /\ UNCHANGED <<kind, spc, sent, recvVars, typed, pipe, mq, mqUp, buf, paced, kills, semVars>>

-----------------------------------------------------------------------------
(* Semaphores around the shared memory *)

\* create_sem: who finds the set goes on while its creator still fills it in.
Create ==
    \/ /\ spc[1] = "create"
       /\ Set!CreateSem("sender")
       /\ spc' = [spc EXCEPT ![1] = "wait"] /\ UNCHANGED rpc
    \/ /\ rpc[1] = "create"
       /\ Set!CreateSem("receiver")
       /\ rpc' = [rpc EXCEPT ![1] = "wait"] /\ UNCHANGED spc

Setup ==
    /\ Create \/ \E p \in {"sender", "receiver"} : Set!InitSem(p) /\ UNCHANGED <<spc, rpc>>
    /\ UNCHANGED <<kind, sent, recvVars, typed, pipe, mq, mqUp, buf, paced, kills>>

\* Slip: the line is typed without waiting for semaphore 0.
SenderRushes ==
    /\ spc[1] = "wait" /\ Set!Created("sender")
    /\ spc' = [spc EXCEPT ![1] = "write"]
    /\ UNCHANGED <<kind, rpc, sent, recvVars, typed, pipe, mq, mqUp, buf, paced, kills, semVars>>

\* P(semid, 0) before a line is typed.
SenderWaits ==
    /\ spc[1] = "wait" /\ Set!Created("sender")
    /\ Set!P("sender", 0)
    /\ spc' = [spc EXCEPT ![1] = "write"]
    /\ UNCHANGED <<kind, rpc, sent, recvVars, typed, pipe, mq, mqUp, buf, paced, kills>>

\* V(semid, 1) after it.
SenderReleases ==
    /\ spc[1] = "release"
    /\ Set!V("sender", 1)
    /\ spc' = [spc EXCEPT ![1] = IF IsQuit(buf) THEN "delete" ELSE "wait"]
    /\ UNCHANGED <<kind, rpc, sent, recvVars, typed, pipe, mq, mqUp, buf, paced, kills>>

\* delete_sem, at once after quit.
SenderDeletes ==
    /\ spc[1] = "delete"
    /\ Set!Delete("sender")
    /\ spc' = [spc EXCEPT ![1] = "done"]
    /\ UNCHANGED <<kind, rpc, sent, recvVars, typed, pipe, mq, mqUp, buf, paced, kills>>

\* P(semid, 1) before the memory is read; if it fails the reading goes on.
ReceiverWaits ==
    /\ rpc[1] = "wait" /\ Set!Created("receiver")
    /\ Set!P("receiver", 1)
    /\ rpc' = [rpc EXCEPT ![1] = "read"]
    /\ UNCHANGED <<kind, spc, sent, recvVars, typed, pipe, mq, mqUp, buf, paced, kills>>

\* V(semid, 0) after it.
ReceiverReleases ==
    /\ rpc[1] = "release"
    /\ Set!V("receiver", 0)
    /\ rpc' = [rpc EXCEPT ![1] = "wait"]
    /\ UNCHANGED <<kind, spc, sent, recvVars, typed, pipe, mq, mqUp, buf, paced, kills>>

-----------------------------------------------------------------------------
\* A receiver is killed; queues, memory and semaphores stay for its successor, but
\* not the message that it has taken.
Kill(d) ==
    /\ kills < MaxKills
    /\ rpc[d] # "done"
    /\ kind \in Fifos \union {"msgq", "sem"}
    /\ kills' = kills + 1
    /\ rpc' = [rpc EXCEPT ![d] =
           CASE kind \in Fifos -> "killed" [] kind = "sem" -> "create" [] OTHER -> "read"]
    /\ held' = [held EXCEPT ![d] = Blank]
    /\ IF kind = "sem" THEN Set!Abandon("receiver") ELSE UNCHANGED semVars
    /\ UNCHANGED <<kind, spc, sent, got, took, typed, pipe, mq, mqUp, buf, paced>>

Sender(d) == WriteFifo(d) \/ WriteOnce(d) \/ WriteOn(d) \/ BrokenPipe(d) \/ Post(d)
Receiver(d) ==
    Open(d) \/ ReadPipe(d) \/ ReadNothing(d) \/ Receive(d) \/ Show(d) \/ RemoveQueue(d)
SharedSender == Begin \/ Copy \/ Trim \/ SenderWaits \/ SenderReleases \/ SenderDeletes
SharedReceiver == Display \/ Test \/ ReceiverWaits \/ ReceiverReleases

Next ==
    \/ \E d \in Channels : Sender(d) \/ Receiver(d) \/ Kill(d)
    \/ SharedSender \/ SharedReceiver \/ Setup

Spec == Init /\ [][Next]_vars

\* Programs are scheduled; the user types until quit.
FairSpec ==
    /\ Spec
    /\ \A d \in Channels : WF_vars(Sender(d)) /\ WF_vars(Receiver(d))
    /\ WF_vars(SharedSender) /\ WF_vars(SharedReceiver) /\ WF_vars(Setup)

-----------------------------------------------------------------------------
(* Properties *)

TypeOK ==
    /\ kind \in Kinds
    /\ spc \in [Channels -> {"open", "create", "wait", "write", "copy", "trim",
                             "release", "delete", "done", "killed"}]
    /\ rpc \in [Channels -> {"open", "create", "wait", "read", "print", "remove", "test",
                             "release", "spin", "done", "killed"}]
    /\ sent \in [Channels -> Seq(Line)] /\ took \in [Channels -> Nat]
    /\ held \in [Channels -> Line \union {Blank}]
    /\ typed \in [Channels -> Nat]
    /\ pipe \in [Channels -> Seq(Line)]
    /\ mq \in Seq([type : Channels, line : Line]) /\ Len(mq) <= Cap /\ mqUp \in BOOLEAN
    /\ paced \subseteq Channels /\ kills \in 0 .. MaxKills
    /\ alive \in BOOLEAN /\ val \in [0 .. 1 -> 0 .. 1]

\* The lines that were displayed or lost; what the receivers display after the end;
\* and how the programs fall short of a channel.
Past(d) == took[d] - (IF rpc[d] = "print" THEN 1 ELSE 0)
Over(d) == Len(got[d]) > took[d]
Faults == CASE kind = "msgq" -> {"lose"}
            [] kind \in {"drain", "sem"} -> {"again"}
            [] kind \in Fifos -> {"blank"}
            [] OTHER -> {}
IfBare(bare, value) == IF kind = "shm" THEN [d \in Channels |-> bare] ELSE value

\* Except for the bare shared memory every medium is a channel: in every run the
\* lines displayed are those sent, in order, and none is left out but the one that
\* a receiver of 17 had taken when it was killed.  None is displayed twice but the
\* last one: by 10 at the end of the pipe, where 12 displays empty lines, and by a
\* receiver of 20 that is started again as the semaphores are deleted.
Promise == INSTANCE LineTransfer WITH
    MaxBurst <- MaxLines,
    sent <- IfBare(<<>>, sent),
    got <- IfBare(<<>>, got),
    next <- IfBare(0, [d \in Channels |-> Past(d)]),
    over <- IfBare(FALSE, [d \in Channels |-> Over(d)]),
    deaths <- kills,
    faults <- Faults
IsLineTransfer == Promise!Spec

\* The successor of a receiver that was killed when it had taken quit.
Orphan(d) == kind = "msgq" /\ rpc[d] = "read" /\ \E i \in 1 .. took[d] : IsQuit(sent[d][i])

\* Once quit was sent the receiver comes to its end: always with the memory and in
\* 19, with the queue of 17 unless a receiver was killed between taking quit and
\* removing the queue, in a FIFO if quit was not written behind another line, and
\* with semaphores if it came before they were deleted and nobody was killed.
EndsOnQuit ==
    \A d \in Channels :
        /\ \E i \in DOMAIN sent[d] : IsQuit(sent[d][i])
        /\ kind \in Fifos => d \in paced /\ rpc[d] # "killed"
        /\ kind = "sem" => kills = 0 /\ semid["receiver"] = semid["sender"]
        ~> rpc[d] \in {"done", "killed"} \/ (kind = "sem" /\ kills > 0) \/ Orphan(d)

\* A writer that never stops is stopped when the reader has gone.
FloodIsStopped == kind = "flood" ~> spc[1] = "killed"
=============================================================================

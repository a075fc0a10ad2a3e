----------------------------- MODULE ChatServer -----------------------------
(***************************************************************************)
(* The chat room server of 07_projects/03_ChatRoom and the clients that    *)
(* talk to it.                                                             *)
(*                                                                         *)
(* The main thread accepts connections and posts one task per connection   *)
(* to a thread pool; the pool itself is ThreadPool, and is used here with  *)
(* what TaskPool promises.  A task is handleClient: it reads messages from *)
(* one descriptor, keeps "clients" (who is in the room) and forwards.      *)
(*                                                                         *)
(* Descriptors matter here: close frees a number that the next accept      *)
(* hands out again, while "clients", queued tasks and running tasks keep   *)
(* naming it.  A connection is named by the client at its other end; "fds" *)
(* says which connection a descriptor denotes now.  A blocked recv goes on *)
(* reading the connection it was called on, whatever happens to the number.*)
(*                                                                         *)
(* TCP keeps no message boundaries: one recv returns any number of the     *)
(* messages sent, at most BUF_SIZE bytes of them.  Their concatenation     *)
(* parses as one protobuf message, in which the last occurrence of each    *)
(* field wins.  A text too long for one buffer is read as a head, which    *)
(* has a type and a name and parses as a CHAT, and a tail, which has no    *)
(* type.                                                                   *)
(***************************************************************************)
EXTENDS Integers, Sequences, FiniteSets, FiniteSetsExt, Functions, SequencesExt

CONSTANTS
    Clients,        \* client processes; each connects at most once
    Habits,         \* what its users may do: who comes, quits, vanishes, talks ...
    Workers,        \* threads of the pool (4 by default)
    Fds,            \* the descriptors accept can return
    MaxChats,       \* bound: texts written by one client
    MaxMerge,       \* bound: messages returned by one recv
    None            \* no client, no worker

ASSUME ChatAssumption ==
    /\ Fds \subseteq Nat /\ 0 \notin Fds /\ IsFiniteSet(Fds)
    /\ MaxChats \in Nat /\ MaxMerge \in Nat \ {0}
    /\ Habits \subseteq [{"coming", "quitting", "vanishing", "talking", "verbose"} -> SUBSET Clients]
    /\ \A h \in Habits : h.verbose \subseteq h.talking
    /\ None \notin Clients \union Workers

VARIABLES
    \* the clients and the network
    habit,      \* what they may do, chosen once: quitting is leaving with QUIT,
                \* vanishing without; the verbose write more than BUF_SIZE bytes
    cpc,        \* each client: "start", "online" or "gone"
    chats,      \* how many texts it has written
    inbox,      \* what it sent and the server has not read
    outbox,     \* history: the messages the server sent to it
    rst,        \* clients that answered a send with a reset
    backlog,    \* connections not accepted yet
    \* the server process
    crashed,    \* the process has been killed
    apc,        \* main thread: "accept", "closing" (destructor) or "stopped"
    fds,        \* which connection each descriptor denotes
    clients,    \* the map "clients": its keys
    mutex,      \* the owner of client_mutex
    tasks,      \* the pool's queue: handleClient(fd, cin)
    wpc,        \* where each worker is
    wfd,        \* its client_fd
    wcin,       \* its cin: the client that accept returned with client_fd
    wconn,      \* the connection its blocked recv reads
    wmsg,       \* its msg
    wpos        \* broadcast: the last key sent to

netVars == <<habit, cpc, chats, inbox, outbox, rst, backlog>>
poolVars == <<apc, tasks, wfd, wcin>>
vars == <<netVars, crashed, poolVars, fds, clients, mutex, wpc, wconn, wmsg, wpos>>

Msg(type, c, n) == [type |-> type, from |-> c, n |-> n]
NoMsg == Msg("NONE", None, 0)

Init ==
    /\ habit \in Habits
    /\ cpc = [c \in Clients |-> "start"]
    /\ chats = [c \in Clients |-> 0]
    /\ inbox = [c \in Clients |-> <<>>]
    /\ outbox = [c \in Clients |-> <<>>]
    /\ rst = {}
    /\ backlog = <<>>
    /\ crashed = FALSE
    /\ apc = "accept"
    /\ fds = [f \in Fds |-> None]
    /\ clients = {}
    /\ mutex = None
    /\ tasks = <<>>
    /\ wpc = [w \in Workers |-> "idle"]
    /\ wfd = [w \in Workers |-> 0]
    /\ wcin = [w \in Workers |-> None]
    /\ wconn = [w \in Workers |-> None]
    /\ wmsg = [w \in Workers |-> NoMsg]
    /\ wpos = [w \in Workers |-> 0]

-----------------------------------------------------------------------------
(* The clients *)

\* A process that has been killed or has returned does nothing more.
Up == ~crashed /\ apc # "stopped"

\* client::client connects and sends LOGIN.
Connect(c) ==
    /\ Up
    /\ c \in habit.coming
    /\ cpc[c] = "start"
    /\ cpc' = [cpc EXCEPT ![c] = "online"]
    /\ inbox' = [inbox EXCEPT ![c] = <<Msg("LOGIN", c, 0)>>]
    /\ backlog' = Append(backlog, c)
    /\ UNCHANGED <<habit, chats, outbox, rst, crashed, poolVars, fds, clients, mutex, wpc, wconn, wmsg, wpos>>

MayWrite(c) == c \in habit.talking /\ chats[c] < MaxChats

\* client::run sends a line read from the terminal.
Say(c) ==
    /\ Up
    /\ cpc[c] = "online"
    /\ MayWrite(c)
    /\ chats' = [chats EXCEPT ![c] = @ + 1]
    /\ \/ inbox' = [inbox EXCEPT ![c] = Append(@, Msg("CHAT", c, chats[c] + 1))]
       \/ c \in habit.verbose
          /\ inbox' = [inbox EXCEPT ![c] =
                 @ \o <<Msg("HEAD", c, chats[c] + 1), Msg("TAIL", c, chats[c] + 1)>>]
    /\ UNCHANGED <<habit, cpc, outbox, rst, backlog, crashed, poolVars, fds, clients, mutex, wpc, wconn, wmsg, wpos>>

\* client::~client sends QUIT and closes.
Quit(c) ==
    /\ Up
    /\ cpc[c] = "online"
    /\ c \in habit.quitting
    /\ cpc' = [cpc EXCEPT ![c] = "gone"]
    /\ inbox' = [inbox EXCEPT ![c] = Append(@, Msg("QUIT", c, 0))]
    /\ UNCHANGED <<habit, chats, outbox, rst, backlog, crashed, poolVars, fds, clients, mutex, wpc, wconn, wmsg, wpos>>

\* The client process is killed: its connection is closed, nothing is sent.
Vanish(c) ==
    /\ Up
    /\ cpc[c] = "online"
    /\ c \in habit.vanishing
    /\ cpc' = [cpc EXCEPT ![c] = "gone"]
    /\ UNCHANGED <<habit, chats, inbox, outbox, rst, backlog, crashed, poolVars, fds, clients, mutex, wpc, wconn, wmsg, wpos>>

-----------------------------------------------------------------------------
(* The main thread: server::run, addTask, server::~server *)

FreeFds == {f \in Fds : fds[f] = None}

\* accept returns the lowest free descriptor; the connection becomes a task.
Accept ==
    /\ Up
    /\ apc = "accept"
    /\ backlog # <<>>
    /\ FreeFds # {}
    /\ LET fd == Min(FreeFds)
           c == Head(backlog)
       IN  /\ fds' = [fds EXCEPT ![fd] = c]
           /\ tasks' = Append(tasks, [fd |-> fd, cin |-> c])
    /\ backlog' = Tail(backlog)
    /\ UNCHANGED <<habit, cpc, chats, inbox, outbox, rst, crashed, apc, clients, mutex, wpc, wfd, wcin, wconn, wmsg, wpos>>

\* accept fails for want of a descriptor: run returns and the server is destroyed.
AcceptError ==
    /\ Up
    /\ apc = "accept"
    /\ backlog # <<>>
    /\ FreeFds = {}
    /\ apc' = "closing"
    /\ UNCHANGED <<netVars, crashed, tasks, wfd, wcin, fds, clients, mutex, wpc, wconn, wmsg, wpos>>

PoolAtRest == tasks = <<>> /\ \A w \in Workers : wpc[w] = "idle"

\* The destructor's join returns when the pool has run every task.
Stop ==
    /\ Up
    /\ apc = "closing"
    /\ PoolAtRest
    /\ apc' = "stopped"
    /\ UNCHANGED <<netVars, crashed, tasks, wfd, wcin, fds, clients, mutex, wpc, wconn, wmsg, wpos>>

-----------------------------------------------------------------------------
(* The workers: server::handleClient and server::broadcast *)

\* An idle worker of the pool takes the oldest task.
TakeTask(w) ==
    /\ Up
    /\ wpc[w] = "idle"
    /\ tasks # <<>>
    /\ tasks' = Tail(tasks)
    /\ wfd' = [wfd EXCEPT ![w] = Head(tasks).fd]
    /\ wcin' = [wcin EXCEPT ![w] = Head(tasks).cin]
    /\ wpc' = [wpc EXCEPT ![w] = "recv"]
    /\ UNCHANGED <<netVars, crashed, apc, fds, clients, mutex, wconn, wmsg, wpos>>

\* recv is called: it fails at once on a closed descriptor, else it waits on the
\* connection the descriptor denotes now.
RecvCall(w) ==
    /\ Up
    /\ wpc[w] = "recv"
    /\ wconn' = [wconn EXCEPT ![w] = fds[wfd[w]]]
    /\ wpc' = [wpc EXCEPT ![w] = IF fds[wfd[w]] = None THEN "erase_gone" ELSE "waiting"]
    /\ UNCHANGED <<netVars, crashed, poolVars, fds, clients, mutex, wmsg, wpos>>

\* The amounts of messages one recv may return: a HEAD fills the buffer.
Readable(c) ==
    {k \in 1 .. Len(inbox[c]) :
        k <= MaxMerge /\ \A i \in 1 .. k - 1 : inbox[c][i].type # "HEAD"}

\* What the bytes of k messages parse to: the fields of the last message win,
\* but nothing after a TAIL can be parsed.
Parsed(c, k) == IF inbox[c][1].type = "TAIL" THEN inbox[c][1] ELSE inbox[c][k]

\* Where the switch on msg.type() leads.
Handler(type) ==
    CASE type = "LOGIN" -> "login"
      [] type \in {"CHAT", "HEAD"} -> "chat"
      [] type = "QUIT" -> "erase_quit"
      [] type = "TAIL" -> "invalid"

\* recv returns data.
RecvData(w) ==
    /\ Up
    /\ wpc[w] = "waiting"
    /\ LET c == wconn[w]
       IN  \E k \in Readable(c) :
              /\ inbox' = [inbox EXCEPT ![c] = SubSeq(@, k + 1, Len(@))]
              /\ wmsg' = [wmsg EXCEPT ![w] = Parsed(c, k)]
              /\ wpc' = [wpc EXCEPT ![w] = Handler(Parsed(c, k).type)]
    /\ wconn' = [wconn EXCEPT ![w] = None]
    /\ UNCHANGED <<habit, cpc, chats, outbox, rst, backlog, crashed, poolVars, fds, clients, mutex, wpos>>

\* Slip: only a negative result of recv ends the loop.
AgainAtEnd == "recv"

AtEnd == "erase_gone"

\* recv returns 0: the client has closed and everything it sent has been read.
RecvEnd(w) ==
    /\ Up
    /\ wpc[w] = "waiting"
    /\ cpc[wconn[w]] = "gone"
    /\ inbox[wconn[w]] = <<>>
    /\ wconn' = [wconn EXCEPT ![w] = None]
    /\ wpc' = [wpc EXCEPT ![w] = AtEnd]
    /\ UNCHANGED <<netVars, crashed, poolVars, fds, clients, mutex, wmsg, wpos>>

\* Threads between entering and leaving a loop over the map, or inserting in it.
InMap(w) == wpc[w] \in {"cast", "erase_gone", "erase_quit"}

\* Slip: only a QUIT takes the client out of the map.
ErasedOnQuit(w) == IF wpc[w] = "erase_quit" THEN clients \ {wfd[w]} ELSE clients

Erased(w) == clients \ {wfd[w]}

\* The loop that finds client_fd in the map and erases it takes no lock.  Next to
\* another thread's loop it is a data race: the process may die of it.
Erase(w) ==
    /\ Up
    /\ wpc[w] \in {"erase_gone", "erase_quit"}
    /\ clients' = Erased(w)
    /\ wpc' = [wpc EXCEPT ![w] = IF @ = "erase_gone" THEN "close_gone" ELSE "close_quit"]
    /\ \/ crashed' = crashed
       \/ (\E v \in Workers \ {w} : InMap(v)) /\ crashed' = TRUE
    /\ UNCHANGED <<netVars, poolVars, fds, mutex, wconn, wmsg, wpos>>

\* Slip: the descriptor is closed only if it is still in the room.
ClosedIfMember(w) == IF wfd[w] \in clients THEN [fds EXCEPT ![wfd[w]] = None] ELSE fds

Closed(w) == [fds EXCEPT ![wfd[w]] = None]

\* close(client_fd) closes whatever the number denotes now.  recv <= 0 and an
\* invalid message end the task; after a QUIT, "break" only leaves the switch
\* and the loop goes back to recv.
Close(w) ==
    /\ Up
    /\ wpc[w] \in {"close_gone", "close_quit", "invalid"}
    /\ fds' = Closed(w)
    /\ wpc' = [wpc EXCEPT ![w] = IF @ = "close_quit" THEN "recv" ELSE "idle"]
    /\ wmsg' = [wmsg EXCEPT ![w] = NoMsg]
    /\ IF wpc[w] = "close_quit" THEN UNCHANGED <<wfd, wcin>>
       ELSE wfd' = [wfd EXCEPT ![w] = 0] /\ wcin' = [wcin EXCEPT ![w] = None]
    /\ UNCHANGED <<netVars, crashed, apc, tasks, clients, mutex, wconn, wpos>>

\* Slip: only LOGIN waits for client_mutex.
EnterUnlocked(w) == wpc[w] = "chat" \/ mutex = None

MayEnter(w) == mutex = None

\* LOGIN and CHAT take client_mutex; LOGIN puts client_fd in the map; broadcast
\* starts.  A loop of Erase may be under way in another thread.
Lock(w) ==
    /\ Up
    /\ wpc[w] \in {"login", "chat"}
    /\ MayEnter(w)
    /\ mutex' = w
    /\ clients' = IF wpc[w] = "login" THEN clients \union {wfd[w]} ELSE clients
    /\ wpc' = [wpc EXCEPT ![w] = "cast"]
    /\ \/ crashed' = crashed
       \/ wpc[w] = "login" /\ (\E v \in Workers : InMap(v)) /\ crashed' = TRUE
    /\ UNCHANGED <<netVars, poolVars, fds, wconn, wmsg, wpos>>

\* Slip: broadcast forgets exclude_fd.
LeftWithSelf(w) == {f \in clients : f > wpos[w]}

\* Keys the broadcast has not come to; a CHAT leaves out its own descriptor.
Left(w) == {f \in clients : f > wpos[w] /\ (wmsg[w].type = "LOGIN" \/ f # wfd[w])}

\* The key broadcast sends to next.
IsNext(w, f) == f \in Left(w) /\ \A g \in Left(w) : f <= g

\* One round of broadcast.  A client that has gone answers the first send with a
\* reset; once it has arrived, send raises SIGPIPE, which nobody handles.
Send(w) ==
    /\ Up
    /\ wpc[w] = "cast"
    /\ \E f \in Fds : LET c == fds[f] IN
           /\ IsNext(w, f)
           /\ c # None
           /\ wpos' = [wpos EXCEPT ![w] = f]
           /\ \/ cpc[c] = "online"
                 /\ outbox' = [outbox EXCEPT ![c] = Append(@, wmsg[w])]
                 /\ UNCHANGED <<rst, crashed>>
              \/ cpc[c] = "gone"
                 /\ rst' = rst \union {c}
                 /\ crashed' \in BOOLEAN /\ (crashed' => c \in rst)
                 /\ UNCHANGED outbox
    /\ UNCHANGED <<habit, cpc, chats, inbox, backlog, poolVars, fds, clients, mutex, wpc, wconn, wmsg>>

\* broadcast ends after the last key, or at the first send that fails: that of a
\* closed descriptor, or of a connection whose client reset it when it left.  The
\* mutex is released and the loop goes back to recv.
EndCast(w) ==
    /\ Up
    /\ wpc[w] = "cast"
    /\ \/ /\ \A f \in Fds : IsNext(w, f) => fds[f] = None
          /\ UNCHANGED rst
       \/ \E f \in Fds : LET c == fds[f] IN
             /\ IsNext(w, f)
             /\ c # None /\ cpc[c] = "gone"
             /\ rst' = rst \union {c}
    /\ mutex' = None
    /\ wpc' = [wpc EXCEPT ![w] = "recv"]
    /\ wmsg' = [wmsg EXCEPT ![w] = NoMsg]
    /\ wpos' = [wpos EXCEPT ![w] = 0]
    /\ UNCHANGED <<habit, cpc, chats, inbox, outbox, backlog, crashed, poolVars, fds, clients, wconn>>

WorkerStep(w) ==
    \/ TakeTask(w)
    \/ RecvCall(w) \/ RecvData(w) \/ RecvEnd(w)
    \/ Erase(w) \/ Close(w)
    \/ Lock(w) \/ Send(w) \/ EndCast(w)

MainStep == Accept \/ AcceptError \/ Stop

Next ==
    \/ \E c \in Clients : Connect(c) \/ Say(c) \/ Quit(c) \/ Vanish(c)
    \/ MainStep
    \/ \E w \in Workers : WorkerStep(w)

Spec == Init /\ [][Next]_vars

\* The server's threads are scheduled; clients need not do anything.
ServerFairness ==
    /\ WF_vars(MainStep)
    /\ \A w \in Workers : WF_vars(WorkerStep(w))

FairSpec == Spec /\ ServerFairness

-----------------------------------------------------------------------------
(* Properties *)

Messages == [type : {"LOGIN", "CHAT", "QUIT", "HEAD", "TAIL", "NONE"},
             from : Clients \union {None}, n : 0 .. MaxChats]

\* Every variable has the values the program can give it.
TypeOK ==
    /\ habit \in Habits
    /\ cpc \in [Clients -> {"start", "online", "gone"}]
    /\ chats \in [Clients -> 0 .. MaxChats]
    /\ inbox \in [Clients -> Seq(Messages)] /\ outbox \in [Clients -> Seq(Messages)]
    /\ rst \subseteq Clients
    /\ backlog \in Seq(Clients)
    /\ crashed \in BOOLEAN
    /\ apc \in {"accept", "closing", "stopped"}
    /\ fds \in [Fds -> Clients \union {None}]
    /\ clients \subseteq Fds
    /\ mutex \in Workers \union {None}
    /\ tasks \in Seq([fd : Fds, cin : Clients])
    /\ wpc \in [Workers -> {"idle", "recv", "waiting", "login", "chat", "cast", "invalid",
                            "erase_gone", "erase_quit", "close_gone", "close_quit"}]
    /\ wfd \in [Workers -> Fds \union {0}]
    /\ wcin \in [Workers -> Clients \union {None}]
    /\ wconn \in [Workers -> Clients \union {None}]
    /\ wmsg \in [Workers -> Messages]
    /\ wpos \in [Workers -> Fds \union {0}]

\* client_mutex makes broadcasts atomic towards each other: two clients that both
\* receive two messages receive them in the same order, and nobody receives one
\* twice, even while descriptors are closed and handed out again mid-broadcast.
SameOrderForAll ==
    \A c, d \in Clients :
        \A i, j \in DOMAIN outbox[c], k, l \in DOMAIN outbox[d] :
            /\ outbox[c][i] = outbox[d][k]
            /\ outbox[c][j] = outbox[d][l]
            /\ i < j
            => k < l

\* broadcast(msg, client_fd) leaves out the descriptor, not the client; still no
\* client gets its own text back, also when its descriptor changes owner between
\* recv and broadcast.
NoEcho ==
    \A c \in Clients : \A i \in DOMAIN outbox[c] :
        outbox[c][i].type # "LOGIN" => outbox[c][i].from # c

\* No connection is leaked: whatever paths handleClient takes (recv failing, QUIT,
\* an invalid message, a descriptor closed by another thread), an open descriptor
\* is always in the care of a queued or running task, which will close it.
NoFdLeak ==
    \A f \in Fds : fds[f] # None =>
        \/ \E i \in DOMAIN tasks : tasks[i].fd = f
        \/ \E w \in Workers : wfd[w] = f

\* Everybody who left is out of the room when the pool is at rest, as long as no
\* message is invalid: the two erase loops together reach every key.
RestingRoomIsEmpty ==
    habit.verbose = {} /\ ~crashed /\ PoolAtRest => clients = {}

\* Once everybody has left, the pool comes to rest: no worker stays blocked in
\* recv, in client_mutex or in the loop, and no queued connection is forgotten.
EmptyRoomFreesPool ==
    (\A c \in habit.coming : cpc[c] = "gone") ~>
        \/ crashed
        \/ /\ backlog = <<>> \/ apc # "accept"
           /\ PoolAtRest

-----------------------------------------------------------------------------
(* What a comment of the program says and the code does not do, checked by a *)
(* run that expects it violated.                                            *)

\* "The client has gone offline: delete it and end the worker" (server.cpp): a run
\* of handleClient serves the connection it was started for and no other.
TaskServesItsClient ==
    \A w \in Workers : wpc[w] = "waiting" => wconn[w] = wcin[w]
=============================================================================

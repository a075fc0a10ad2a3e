----------------------------- MODULE EchoServers -----------------------------
(***************************************************************************)
(* The echo servers of 05_Socket and the clients that talk to them.        *)
(*                                                                         *)
(* All of them handle a client in the same way (clear the buffer, recv,    *)
(* send "*_*", leave when the buffer holds "quit"); they differ in who     *)
(* runs the handler and when:                                              *)
(*   once    04_TCP_CS/server.cpp           one client, then the end       *)
(*   local   18_zone_tcp/server.cpp         the same on a local socket      *)
(*   loop    06_tcp_loop_server.cpp         one client after the other     *)
(*   fork    07_tcp_loop_proc_server.cpp    a process for each client      *)
(*   thread  08_tcp_loop_thread_server.cpp  a thread for each client       *)
(*   hangup  09_select.cpp                  accepts and closes             *)
(*   select  10_, 11_select_poll/select_loop_server.cpp                    *)
(*   epoll   12_epoll_tcp_server.cpp        level-triggered events         *)
(*   small   13_epoll_LT.cpp                the same, four bytes a recv    *)
(*   edge    14_epoll_ET.cpp                the same, edge-triggered       *)
(*   reuse   15_sockopt.cpp                 the same, with SO_REUSEADDR    *)
(* The kind is chosen in Init.  A unit of data stands for two letters:     *)
(* "quit" is two units and so is the buffer of the last three.  A line is  *)
(* shorter than a segment, so one send arrives whole; lines that wait to   *)
(* be read run together.  A connection is named by its client.             *)
(***************************************************************************)
EXTENDS Integers, Sequences, FiniteSets, FiniteSetsExt

CONSTANTS
    Clients,
    Kinds,          \* the servers to choose from
    Polling,        \* clients of poll_loop_client.cpp: they do not wait for an answer
    Killable,       \* clients that may be killed
    Lengthy,        \* clients that may type long lines
    Blank,          \* clients that may type empty lines
    MaxLines,       \* bound: lines one client types
    MaxConsole,     \* bound: lines typed at the console of the server
    MaxBoots        \* bound: starts of the server

Single == {"once", "local"}
Blocking == Single \union {"loop", "thread"}
Selecting == {"hangup", "select"}
Edge == {"edge", "reuse"}
Small == {"small"} \union Edge
Polled == {"epoll"} \union Small
Events == Selecting \union Polled
AllKinds == Blocking \union Events \union {"fork"}

ASSUME EchoAssumption ==
    /\ IsFiniteSet(Clients)
    /\ Kinds \subseteq AllKinds
    /\ Polling \union Killable \union Lengthy \union Blank \subseteq Clients
    /\ MaxLines \in Nat /\ MaxConsole \in Nat /\ MaxBoots \in Nat
    /\ Clients \intersect {"listener", "stdin"} = {}

\* What a line consists of: "hi", "hello!", "quit", and the empty line.
Short == <<"x">>
Long == <<"x", "x", "x">>
Quit == <<"qu", "it">>
Empty == <<>>
Lines == {Short, Long, Quit, Empty}

VARIABLES
    kind,       \* which server is running
    up,         \* whether it is
    boots,      \* how often it was started
    \* the clients
    cpc,        \* "start", "type", "wait" (in recv) or "gone"
    wbuf,       \* the line last typed
    typed,      \* how many lines of at least one letter it has typed
    got,        \* how many answers it has read
    \* the connections
    in,         \* units the server has not read
    out,        \* answers the client has not read
    link,       \* what the server can learn of the client's end: "up", "fin"
                \* (closed), "late" (a reset is on its way) or "reset"
    queue,      \* the backlog of the listening socket
    srv,        \* the server's end: "none", "queued", "open" or "closed"
    lingering,  \* connections the server closed first: TIME_WAIT
    \* select and epoll
    ready,      \* descriptors reported and not looked at yet
    fresh,      \* edge-triggered: connections with something new
    fd,         \* select: the number of each open connection
    maxfd,
    console,    \* lines typed at the console so far
    \* fork
    chain,      \* clients in the order of acceptance
    ps,         \* the process that serves a client
    heir,       \* clients whose descriptor the next listener still holds
    \* history
    clean       \* nobody was killed or typed ahead, every line fitted the
                \* buffer, and nothing was typed at the console

cliVars == <<cpc, wbuf, typed, got>>
loopVars == <<fresh, fd, maxfd, console>>
forkVars == <<chain, ps, heir>>
vars == <<kind, up, boots, cliVars, in, out, link, queue, srv, lingering,
          ready, loopVars, forkVars, clean>>

Init ==
    /\ kind \in Kinds
    /\ up = FALSE /\ boots = 0
    /\ cpc = [c \in Clients |-> "start"]
    /\ wbuf = [c \in Clients |-> Empty]
    /\ typed = [c \in Clients |-> 0]
    /\ got = [c \in Clients |-> 0]
    /\ in = [c \in Clients |-> <<>>]
    /\ out = [c \in Clients |-> 0]
    /\ link = [c \in Clients |-> "up"]
    /\ queue = <<>>
    /\ srv = [c \in Clients |-> "none"]
    /\ lingering = {}
    /\ ready = {} /\ fresh = {}
    /\ fd = [c \in Clients |-> 0]
    /\ maxfd = 3
    /\ console = 0
    /\ chain = <<>>
    /\ ps = [c \in Clients |-> "none"]
    /\ heir = {}
    /\ clean = TRUE

OpenConns == {c \in Clients : srv[c] = "open"}
Room == IF kind \in Small THEN 2 ELSE MaxLines * Len(Long)

-----------------------------------------------------------------------------
(* The clients *)

\* A long line is like a short one to a server whose buffer holds it.
LinesOf(c) == {line \in Lines :
    /\ line = Long => c \in Lengthy /\ kind \in Small
    /\ line = Empty => c \in Blank}

\* connect is answered by the kernel as soon as the server listens.
Connect(c) ==
    /\ cpc[c] = "start"
    /\ up
    /\ cpc' = [cpc EXCEPT ![c] = "type"]
    /\ queue' = Append(queue, c)
    /\ srv' = [srv EXCEPT ![c] = "queued"]
    /\ UNCHANGED <<kind, up, boots, wbuf, typed, got, in, out, link, lingering, ready, loopVars, forkVars, clean>>

\* The poll client goes on typing while answers are outstanding.
MayType(c) == cpc[c] = "type" \/ (c \in Polling /\ cpc[c] = "wait")

Fits(line) == Len(line) <= Room

\* fgets and send.  On a connection the server has closed, the line is lost,
\* and SIGPIPE ends the client once its earlier line was answered by a reset, on
\* a local socket at once.
Type(c, line) ==
    /\ MayType(c)
    /\ typed[c] < MaxLines
    /\ wbuf' = [wbuf EXCEPT ![c] = line]
    /\ typed' = [typed EXCEPT ![c] = IF line = Empty THEN @ ELSE @ + 1]
    /\ clean' = (clean /\ Fits(line) /\ cpc[c] = "type")
    /\ IF srv[c] # "closed"
       THEN /\ cpc' = [cpc EXCEPT ![c] = "wait"]
            /\ in' = [in EXCEPT ![c] = @ \o line]
            /\ fresh' = IF kind \in Edge /\ line # Empty THEN fresh \union {c} ELSE fresh
       ELSE /\ \E next \in {"wait", "gone"} :
                   (kind = "local" => next = "gone") /\ cpc' = [cpc EXCEPT ![c] = next]
            /\ UNCHANGED <<in, fresh>>
    /\ UNCHANGED <<kind, up, boots, got, out, link, queue, srv, lingering, ready, fd, maxfd, console, forkVars>>

\* close; with unread answers the other side gets a reset instead of an end.
Hangs(c, unread) ==
    /\ cpc' = [cpc EXCEPT ![c] = "gone"]
    /\ link' = [link EXCEPT ![c] = IF unread > 0 THEN "reset" ELSE "fin"]
    /\ fresh' = IF kind \in Edge THEN fresh \union {c} ELSE fresh

SaidQuit(c) == wbuf[c] = Quit

\* recv returns some of the answers that have arrived, or nothing at the end
\* of the connection; whatever it returned, a client that typed quit leaves.
Take(c) ==
    /\ cpc[c] = "wait"
    /\ \E n \in 0 .. out[c] :
          /\ n = 0 => out[c] = 0 /\ srv[c] = "closed"
          /\ got' = [got EXCEPT ![c] = @ + n]
          /\ out' = [out EXCEPT ![c] = @ - n]
          /\ IF SaidQuit(c)
             THEN Hangs(c, out[c] - n)
             ELSE /\ cpc' = [cpc EXCEPT ![c] = "type"]
                  /\ UNCHANGED <<link, fresh>>
    /\ UNCHANGED <<kind, up, boots, wbuf, typed, in, queue, srv, lingering, ready, fd, maxfd, console, forkVars, clean>>

\* The client is killed.
Kill(c) ==
    /\ c \in Killable
    /\ cpc[c] \in {"type", "wait"}
    /\ Hangs(c, out[c])
    /\ clean' = FALSE
    /\ UNCHANGED <<kind, up, boots, wbuf, typed, got, in, out, queue, srv, lingering, ready, fd, maxfd, console, forkVars>>

\* The answer of a closed end to what was sent to it.
Reset(c) ==
    /\ link[c] = "late"
    /\ link' = [link EXCEPT ![c] = "reset"]
    /\ UNCHANGED <<kind, up, boots, cliVars, in, out, queue, srv, lingering, ready, loopVars, forkVars, clean>>

-----------------------------------------------------------------------------
(* Starting and stopping *)

\* bind fails while connections of an earlier run linger, unless the socket
\* says SO_REUSEADDR or is a file, which is removed before; the program ends and
\* may be started again.
Bindable == kind \in {"reuse", "local"} \/ lingering = {}

Boot ==
    /\ ~up
    /\ boots < MaxBoots
    /\ Bindable
    /\ up' = TRUE
    /\ boots' = boots + 1
    /\ chain' = <<>>
    /\ UNCHANGED <<kind, cliVars, in, out, link, queue, srv, lingering, ready, loopVars, ps, heir, clean>>

Expire(c) ==
    /\ c \in lingering
    /\ lingering' = lingering \ {c}
    /\ UNCHANGED <<kind, up, boots, cliVars, in, out, link, queue, srv, ready, loopVars, forkVars, clean>>

\* close before the client did, with nothing unread: that end lingers.
ClosedFirst(S) ==
    lingering \union {c \in S : kind # "local" /\ link[c] = "up" /\ in'[c] = <<>>}

\* The process ends, by return or by SIGPIPE, and with it every connection.
Ends ==
    /\ up' = FALSE
    /\ srv' = [c \in Clients |-> IF srv[c] \in {"queued", "open"} THEN "closed" ELSE srv[c]]
    /\ lingering' = ClosedFirst(OpenConns)
    /\ queue' = <<>>
    /\ ready' = {} /\ fresh' = {}
    /\ fd' = [c \in Clients |-> 0]
    /\ maxfd' = 3

-----------------------------------------------------------------------------
(* Accepting *)

\* accept returns the lowest free number.
LowestFree == Min({n \in 4 .. 4 + Cardinality(Clients) : \A c \in OpenConns : fd[c] # n})

Accepted(c) ==
    /\ up
    /\ queue # <<>> /\ c = Head(queue)
    /\ queue' = Tail(queue)
    /\ srv' = [srv EXCEPT ![c] = "open"]

\* accept of the sequential servers, and of the one with threads.
Vacant == kind = "thread" \/ (OpenConns = {} /\ (kind \in Single => chain = <<>>))

BlockingAccept(c) ==
    /\ kind \in Blocking
    /\ Vacant
    /\ Accepted(c)
    /\ chain' = IF kind \in Single THEN <<c>> ELSE chain
    /\ UNCHANGED <<kind, up, boots, cliVars, in, out, link, lingering, ready, loopVars, ps, heir, clean>>

\* The branches are swapped: the parent goes on with the client and the child
\* (the result of fork is 0) with the listening socket.
ForkAccept(c) ==
    /\ kind = "fork"
    /\ heir = {}
    /\ Accepted(c)
    /\ chain' = Append(chain, c)
    /\ ps' = [ps EXCEPT ![c] = "forked"]
    /\ heir' = {c}
    /\ UNCHANGED <<kind, up, boots, cliVars, in, out, link, lingering, ready, loopVars, clean>>

\* pid > 0: close(sockfd), then the handler.
ParentServes(c) ==
    /\ ps[c] = "forked"
    /\ ps' = [ps EXCEPT ![c] = "serve"]
    /\ UNCHANGED <<kind, up, boots, cliVars, in, out, link, queue, srv, lingering, ready, loopVars, chain, heir, clean>>

\* pid == 0: close(newfd), then accept.
ChildListens(c) ==
    /\ c \in heir
    /\ heir' = heir \ {c}
    /\ UNCHANGED in
    /\ IF ps[c] \in {"zombie", "gone"}
       THEN /\ srv' = [srv EXCEPT ![c] = "closed"]
            /\ lingering' = ClosedFirst({c})
       ELSE UNCHANGED <<srv, lingering>>
    /\ UNCHANGED <<kind, up, boots, cliVars, out, link, queue, ready, loopVars, chain, ps, clean>>

\* select: the number enters the set, and maxfd follows.
SelectAccept(c) ==
    /\ kind = "select"
    /\ "listener" \in ready
    /\ Accepted(c)
    /\ ready' = ready \ {"listener"}
    /\ fd' = [fd EXCEPT ![c] = LowestFree]
    /\ maxfd' = Max({maxfd, LowestFree})
    /\ UNCHANGED <<kind, up, boots, cliVars, in, out, link, lingering, fresh, console, forkVars, clean>>

\* 09_select.cpp accepts and closes.
Hangup(c) ==
    /\ kind = "hangup"
    /\ "listener" \in ready
    /\ up /\ queue # <<>> /\ c = Head(queue)
    /\ queue' = Tail(queue)
    /\ UNCHANGED in
    /\ srv' = [srv EXCEPT ![c] = "closed"]
    /\ lingering' = ClosedFirst({c})
    /\ ready' = ready \ {"listener"}
    /\ UNCHANGED <<kind, up, boots, cliVars, out, link, loopVars, forkVars, clean>>

\* Slip: the handler runs whether or not there is something to read.
AlwaysReadable(c) == TRUE

Readable(c) == in[c] # <<>> \/ link[c] # "up"

\* EPOLL_CTL_ADD reports what is there already, edge-triggered or not.
EpollAccept(c) ==
    /\ kind \in Polled
    /\ "listener" \in ready
    /\ Accepted(c)
    /\ ready' = ready \ {"listener"}
    /\ fresh' = IF kind \in Edge /\ Readable(c) THEN fresh \union {c} ELSE fresh
    /\ UNCHANGED <<kind, up, boots, cliVars, in, out, link, lingering, fd, maxfd, console, forkVars, clean>>

-----------------------------------------------------------------------------
(* Waiting for events *)

Listening == IF queue # <<>> THEN {"listener"} ELSE {}

\* A line typed at the console of a select server.
ConsoleReady == IF console < MaxConsole THEN {{}, {"stdin"}} ELSE {{}}

\* select looks at numbers up to maxfd only.
Watched(c) == Readable(c) /\ fd[c] <= maxfd

Select ==
    /\ kind \in Selecting
    /\ up /\ ready = {}
    /\ \E typing \in ConsoleReady :
          ready' = Listening \union typing \union {c \in OpenConns : Watched(c)}
    /\ ready' # {}
    /\ UNCHANGED <<kind, up, boots, cliVars, in, out, link, queue, srv, lingering, loopVars, forkVars, clean>>

\* Slip: events on clients are edge-triggered in every server.
ReportedEdge(c) == Readable(c) /\ c \in fresh

\* Level-triggered: whatever can be read; edge-triggered: what is new as well.
Reported(c) == Readable(c) /\ (kind \in Edge => c \in fresh)

EpollWait ==
    /\ kind \in Polled
    /\ up /\ ready = {}
    /\ ready' = Listening \union {c \in OpenConns : Reported(c)}
    /\ ready' # {}
    /\ fresh' = fresh \ OpenConns
    /\ UNCHANGED <<kind, up, boots, cliVars, in, out, link, queue, srv, lingering, fd, maxfd, console, forkVars, clean>>

\* Numbers up to maxfd that a broadcast fails on, and the first of them.
Bad == {n \in 4 .. maxfd : ~\E c \in OpenConns : fd[c] = n /\ link[c] # "reset"}
FirstBad == Min(Bad \union {maxfd + 1})

\* The console: 09 prints the line; 10 sends it to every number up to maxfd,
\* whoever has it, and the first failure ends the program.
Console ==
    /\ "stdin" \in ready
    /\ "listener" \notin ready
    /\ console' = console + 1
    /\ clean' = FALSE
    /\ UNCHANGED in
    /\ IF kind = "hangup"
       THEN /\ ready' = ready \ {"stdin"}
            /\ UNCHANGED <<up, out, link, queue, srv, lingering, fresh, fd, maxfd>>
       ELSE LET reached == {c \in OpenConns : fd[c] < FirstBad}
            IN  /\ out' = [c \in Clients |-> IF c \in reached /\ link[c] = "up" THEN out[c] + 1 ELSE out[c]]
                /\ link' = [c \in Clients |-> IF c \in reached /\ link[c] = "fin" THEN "late" ELSE link[c]]
                /\ IF Bad # {}
                   THEN Ends
                   ELSE /\ ready' = ready \ {"stdin"}
                        /\ UNCHANGED <<up, queue, srv, lingering, fresh, fd, maxfd>>
    /\ UNCHANGED <<kind, boots, cliVars, forkVars>>

-----------------------------------------------------------------------------
(* The handler *)

\* select looks at the numbers in ascending order, after the listener and the
\* console; epoll at its events in any order.
InOrder(c) ==
    kind = "select" =>
        ready \intersect {"listener", "stdin"} = {} /\ \A d \in ready : fd[c] <= fd[d]

Turn(c) ==
    /\ up
    /\ srv[c] = "open"
    /\ Readable(c)
    /\ kind \in Events => c \in ready /\ InOrder(c)
    /\ kind = "fork" => ps[c] = "serve"

\* Slip: one unit of what recv returned is not looked at.
BufferShort(c) == SubSeq(in[c], 1, Min({Room, Len(in[c])}) - 1)

\* What recv returns: the buffer was cleared and takes Room units.
Buffer(c) == SubSeq(in[c], 1, Min({Room, Len(in[c])}))

Rest(c) == SubSeq(in[c], Min({Room, Len(in[c])}) + 1, Len(in[c]))

\* Nobody is there to send to: known at once on a local socket, else when the
\* reset has arrived.
SendFails(c) == link[c] = "reset" \/ (kind = "local" /\ link[c] # "up")

\* send of "*_*": a client that has closed answers with a reset later.
Answer(c) ==
    /\ ~SendFails(c)
    /\ in' = [in EXCEPT ![c] = Rest(c)]
    /\ out' = IF link[c] = "up" THEN [out EXCEPT ![c] = @ + 1] ELSE out
    /\ link' = IF link[c] = "fin" THEN [link EXCEPT ![c] = "late"] ELSE link

Echo(c) ==
    /\ Turn(c)
    /\ Buffer(c) # Quit
    /\ Answer(c)
    /\ ready' = ready \ {c}
    /\ UNCHANGED <<kind, up, boots, cliVars, queue, srv, lingering, loopVars, forkVars, clean>>

\* exit or SIGPIPE in a server process: the descriptor is closed unless the
\* next listener holds it too; a parent that still serves has to reap.
ServerOf(c) == {d \in Clients : \E i \in 1 .. Len(chain) - 1 : chain[i] = d /\ chain[i + 1] = c}
Alive(p) == ps[p] \in {"forked", "serve"}
Orphans(c) == {d \in Clients : c \in ServerOf(d) /\ ps[d] = "zombie"}

ProcessExits(c) ==
    /\ ps' = [d \in Clients |->
                 IF d = c THEN (IF \E p \in ServerOf(c) : Alive(p) THEN "zombie" ELSE "gone")
                 ELSE IF d \in Orphans(c) THEN "gone" ELSE ps[d]]
    /\ IF c \in heir
       THEN UNCHANGED <<srv, lingering>>
       ELSE /\ srv' = [srv EXCEPT ![c] = "closed"]
            /\ lingering' = ClosedFirst({c})
    /\ UNCHANGED <<up, queue, ready, loopVars>>

\* Slip: the handler is not installed.
NeverReap(p) == FALSE

\* The handler of SIGCHLD collects every child that has ended.
Reap(p) ==
    /\ Alive(p)
    /\ \E c \in Clients : p \in ServerOf(c) /\ ps[c] = "zombie"
    /\ ps' = [c \in Clients |-> IF p \in ServerOf(c) /\ ps[c] = "zombie" THEN "gone" ELSE ps[c]]
    /\ UNCHANGED <<kind, up, boots, cliVars, in, out, link, queue, srv, lingering, ready, loopVars, chain, heir, clean>>

\* After FD_CLR: the highest number left in the set; unchanged if none is.
MaxfdWithout(c) ==
    LET left == {fd[d] : d \in OpenConns \ {c}}
    IN  IF left = {} THEN maxfd ELSE Max(left)

\* Slip: the descriptor is no longer watched and not closed either.
Unwatches(c) ==
    /\ fresh' = fresh \ {c}
    /\ ready' = ready \ {c}
    /\ UNCHANGED <<up, queue, srv, lingering, fd, maxfd, console>>

\* The descriptor leaves the set that is watched, and is closed.
Closes(c) ==
    /\ srv' = [srv EXCEPT ![c] = "closed"]
    /\ lingering' = ClosedFirst({c})
    /\ ready' = ready \ {c}
    /\ fresh' = fresh \ {c}
    /\ fd' = [fd EXCEPT ![c] = 0]
    /\ maxfd' = IF kind = "select" THEN MaxfdWithout(c) ELSE maxfd
    /\ UNCHANGED <<up, queue, console>>

\* The buffer holds "quit".
Farewell(c) ==
    /\ Turn(c)
    /\ Buffer(c) = Quit
    /\ Answer(c)
    /\ IF kind = "fork" THEN ProcessExits(c) /\ UNCHANGED <<chain, heir>>
       ELSE /\ IF kind \in Single THEN Ends /\ UNCHANGED console ELSE Closes(c)
            /\ UNCHANGED forkVars
    /\ UNCHANGED <<kind, boots, cliVars, clean>>

\* send to a client that is not there: nobody handles SIGPIPE, and the
\* process ends (select already returns because recv failed).
Broken(c) ==
    /\ Turn(c)
    /\ SendFails(c)
    /\ in' = [in EXCEPT ![c] = Rest(c)]
    /\ IF kind = "fork" THEN ProcessExits(c) /\ UNCHANGED <<chain, heir>>
       ELSE Ends /\ UNCHANGED <<console, forkVars>>
    /\ UNCHANGED <<kind, boots, cliVars, out, link, clean>>

-----------------------------------------------------------------------------
Accept(c) == BlockingAccept(c) \/ ForkAccept(c) \/ SelectAccept(c) \/ Hangup(c) \/ EpollAccept(c)
Handle(c) == Echo(c) \/ Farewell(c) \/ Broken(c)
Waits == Select \/ EpollWait
Processes(c) == ParentServes(c) \/ ChildListens(c) \/ Reap(c)

Next ==
    \/ \E c \in Clients :
          \/ Connect(c)
          \/ \E line \in LinesOf(c) : Type(c, line)
          \/ Take(c)
          \/ Kill(c)
          \/ Reset(c)
          \/ Expire(c)
          \/ Accept(c)
          \/ Handle(c)
          \/ Processes(c)
    \/ Boot
    \/ Waits
    \/ Console

Spec == Init /\ [][Next]_vars

\* The server's own steps and the network's; nobody has to type or to leave.
FairSpec ==
    /\ Spec
    /\ WF_vars(Waits)
    /\ WF_vars(Console)
    /\ \A c \in Clients :
          /\ WF_vars(Accept(c)) /\ WF_vars(Handle(c)) /\ WF_vars(Reset(c))
          /\ WF_vars(ParentServes(c)) /\ WF_vars(ChildListens(c)) /\ WF_vars(Reap(c))

-----------------------------------------------------------------------------
(* Properties *)

TypeOK ==
    /\ kind \in Kinds /\ up \in BOOLEAN /\ boots \in 0 .. MaxBoots
    /\ cpc \in [Clients -> {"start", "type", "wait", "gone"}]
    /\ wbuf \in [Clients -> Lines]
    /\ typed \in [Clients -> 0 .. MaxLines]
    /\ got \in [Clients -> Nat] /\ out \in [Clients -> Nat]
    /\ in \in [Clients -> Seq({"x", "qu", "it"})]
    /\ link \in [Clients -> {"up", "fin", "late", "reset"}]
    /\ queue \in Seq(Clients)
    /\ srv \in [Clients -> {"none", "queued", "open", "closed"}]
    /\ lingering \subseteq Clients
    /\ ready \subseteq OpenConns \union {"listener", "stdin"}
    /\ fresh \subseteq Clients
    /\ \A c \in Clients : fd[c] \in {0} \union 4 .. maxfd
    /\ console \in 0 .. MaxConsole
    /\ chain \in Seq(Clients)
    /\ ps \in [Clients -> {"none", "forked", "serve", "zombie", "gone"}]
    /\ heir \subseteq Clients
    /\ clean \in BOOLEAN

\* A server goes on as long as its clients wait for their answers, leave with
\* quit and keep to its buffer: nobody's connection ends before its own quit.
\* With a process for each client that holds whatever the others do.
DroppedOnlyByItself ==
    kind \notin Single \union {"hangup"} =>
        \A c \in Clients :
            /\ srv[c] = "closed"
            /\ clean \/ (kind = "fork" /\ c \notin Polling)
            => wbuf[c] = Quit \/ cpc[c] = "gone"

\* Such clients get one answer for each line: every line they typed has been
\* answered, or is the one the server has not read.
OneAnswerEach ==
    clean /\ kind # "hangup" =>
        \A c \in Clients : srv[c] # "closed" \/ (kind \notin Single /\ cpc[c] = "gone") =>
            got[c] + out[c] + (IF in[c] = <<>> THEN 0 ELSE 1) = typed[c]

\* Whatever an accepted client has sent is read at some time: an event for it
\* is never lost, although the edge-triggered servers read once for each event;
\* those only as long as everything fits their buffer.
AllIsRead ==
    \A c \in Clients :
        (in[c] # <<>> /\ srv[c] = "open" /\ (kind \in Edge => clean)) ~>
            (in[c] = <<>> \/ srv[c] = "closed" \/ (kind \in Edge /\ ~clean))

\* A client that says quit is let go: its descriptor is closed in every process
\* that holds it.
QuitIsHonoured ==
    \A c \in Clients :
        (srv[c] = "open" /\ wbuf[c] = Quit /\ clean) ~> (srv[c] = "closed" \/ ~clean)

\* No server process stays a zombie, whichever of parent and child ends first.
ZombiesAreReaped == \A c \in Clients : ps[c] = "zombie" ~> ps[c] = "gone"
=============================================================================

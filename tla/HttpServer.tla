----------------------------- MODULE HttpServer -----------------------------
(***************************************************************************)
(* The web server of 06_http: main.cpp accepts a connection, gives it to a *)
(* detached thread and goes on; the thread runs cli_handler of http.cpp    *)
(* and then closes the descriptor, which cli_handler has closed before.    *)
(*                                                                         *)
(* Threads share one thing, the table of descriptors of the process: a     *)
(* closed number is free, and the next accept or open gets the lowest free *)
(* one.  A blocked read goes on reading the socket it was called on, even  *)
(* when its number is closed meanwhile ("held").  A client connects once,  *)
(* so a client names its connection and its thread as well.                *)
(***************************************************************************)
EXTENDS Naturals, FiniteSets

CONSTANTS
    Clients,
    Kinds,          \* the requests sent, a subset of AllKinds
    NumFds,         \* the size of the table, standard streams and listener apart
    Chunks,         \* how many reads of BUF_SIZE bytes a whole request takes
    Manners         \* how clients may behave, a subset of {"polite", "rude"}

\* "page": GET of a file; "dynamic": POST, or GET with a query, of a file;
\* "missing": GET or POST of no file; "bad": any other method.
AllKinds == {"page", "dynamic", "missing", "bad"}

ASSUME HttpServerAssumption ==
    /\ IsFiniteSet(Clients)
    /\ Kinds \subseteq AllKinds
    /\ NumFds \in Nat /\ Chunks \in Nat
    /\ Manners \subseteq {"polite", "rude"}

Fds == 1 .. NumFds
Conn(c) == <<"connection", c>>
File(c) == <<"file", c>>        \* the file the thread of c answers with
Free == <<"free", 0>>
IsConn(x) == \E c \in Clients : x = Conn(c)
IsFile(x) == \E c \in Clients : x = File(c)
NoFd == 0

\* Polite clients connect one after the other, each when the thread of the one
\* before has ended, send their request line at once and stay until the server
\* closes.  Rude ones overlap, send in any pieces and leave whenever they like.
VARIABLES
    manners,    \* how the clients of this behaviour behave
    up,         \* FALSE once the process has exited
    table,      \* what every descriptor stands for
    peer,       \* what each client has done with its end of the connection
    kind,       \* what it requests
    sent,       \* how many chunks of the request it has sent
    unread,     \* how many of them the server has not read
    got,        \* what it has been sent, as <<request answered, what>>
    pc,         \* where each thread is
    fd,         \* its descriptor "fd"
    file,       \* its descriptor "file"
    req,        \* the request it has parsed
    held        \* what the read in progress is reading

clientVars == <<manners, peer, kind, sent>>
threadVars == <<pc, fd, file, req, held>>
vars == <<up, table, clientVars, unread, got, threadVars>>

Init ==
    /\ manners \in Manners
    /\ up = TRUE
    /\ table = [f \in Fds |-> Free]
    /\ peer = [c \in Clients |-> "away"]
    /\ kind \in [Clients -> Kinds]
    /\ sent = [c \in Clients |-> 0]
    /\ unread = [c \in Clients |-> 0]
    /\ got = [c \in Clients |-> {}]
    /\ pc = [c \in Clients |-> "unborn"]
    /\ fd = [c \in Clients |-> NoFd]
    /\ file = [c \in Clients |-> NoFd]
    /\ req = kind
    /\ held = [c \in Clients |-> Free]

-----------------------------------------------------------------------------
(* The clients *)

Listed(x) == \E f \in Fds : table[f] = x
Closed(c) == pc[c] # "unborn" /\ ~Listed(Conn(c))

Connect(c) ==
    /\ peer[c] = "away"
    /\ manners = "rude" \/ \A d \in Clients : peer[d] = "away" \/ pc[d] = "done"
    /\ peer' = [peer EXCEPT ![c] = "open"]
    /\ UNCHANGED <<up, table, manners, kind, sent, unread, got, threadVars>>

Send(c) ==
    /\ peer[c] = "open" /\ sent[c] < Chunks /\ ~Closed(c)
    /\ sent' = [sent EXCEPT ![c] = @ + 1]
    /\ unread' = [unread EXCEPT ![c] = @ + 1]
    /\ UNCHANGED <<up, table, manners, peer, kind, got, threadVars>>

\* It ends its output, but still reads, or it closes its socket.
End(c) ==
    /\ peer[c] \in {"open", "half"} /\ ~Closed(c)
    /\ \/ peer' = [peer EXCEPT ![c] = "half"]
       \/ manners = "rude" /\ peer' = [peer EXCEPT ![c] = "gone"]
    /\ UNCHANGED <<up, table, manners, kind, sent, unread, got, threadVars>>

Ended(c) == peer[c] \in {"half", "gone"}

-----------------------------------------------------------------------------
(* The table of descriptors *)

FreeFds == {f \in Fds : table[f] = Free}
Lowest(f) == f \in FreeFds /\ \A g \in FreeFds : f <= g
Designates(f) == IF f \in Fds THEN table[f] ELSE Free

\* close(f) frees whatever the number stands for by now; for a free one it fails.
Closing(f) == table' = [g \in Fds |-> IF g = f THEN Free ELSE table[g]]

Goto(c, where) == pc' = [pc EXCEPT ![c] = where]

-----------------------------------------------------------------------------
(* main *)

Accept(c) ==
    /\ up
    /\ peer[c] # "away" /\ pc[c] = "unborn"
    /\ \E f \in Fds :
        /\ Lowest(f)
        /\ table' = [table EXCEPT ![f] = Conn(c)]
        /\ fd' = [fd EXCEPT ![c] = f]
    /\ Goto(c, "recv")
    /\ UNCHANGED <<up, clientVars, unread, got, file, req, held>>

\* accept fails without a free number, main returns and the process exits.
AcceptFails(c) ==
    /\ up
    /\ peer[c] # "away" /\ pc[c] = "unborn"
    /\ FreeFds = {}
    /\ up' = FALSE
    /\ UNCHANGED <<table, clientVars, unread, got, threadVars>>

-----------------------------------------------------------------------------
(* cli_handler: reading the request *)

\* recv fails at once on a closed number and on a file.
Recv(c) ==
    /\ up /\ pc[c] = "recv"
    /\ held' = [held EXCEPT ![c] = Designates(fd[c])]
    /\ Goto(c, IF IsConn(Designates(fd[c])) THEN "in_recv" ELSE "work_close")
    /\ UNCHANGED <<up, table, clientVars, unread, got, fd, file, req>>

\* What sscanf makes of the first piece: the request, or anything at all if the
\* request line does not end in it.
Parsed(d) == IF manners = "polite" THEN {kind[d]} ELSE AllKinds

\* It returns with data, or with 0 at the end of the client's output: the
\* handler goes on with a buffer that was never written.
RecvReturns(c) ==
    /\ up /\ pc[c] = "in_recv"
    /\ \E d \in Clients :
        /\ held[c] = Conn(d)
        /\ \/ /\ unread[d] > 0
              /\ unread' = [unread EXCEPT ![d] = @ - 1]
              /\ \E k \in Parsed(d) : req' = [req EXCEPT ![c] = k]
           \/ /\ unread[d] = 0 /\ Ended(d)
              /\ \E k \in AllKinds : req' = [req EXCEPT ![c] = k]
              /\ UNCHANGED unread
    /\ held' = [held EXCEPT ![c] = Free]
    /\ Goto(c, "fdopen")
    /\ UNCHANGED <<up, table, clientVars, got, fd, file>>

\* fdopen, and GetRequest calls fgets on its result: NULL for a closed number.
Fdopen(c) ==
    /\ up /\ pc[c] = "fdopen"
    /\ held' = [held EXCEPT ![c] = Designates(fd[c])]
    /\ up' = (Designates(fd[c]) # Free)
    /\ Goto(c, "in_fgets")
    /\ UNCHANGED <<table, clientVars, unread, got, fd, file, req>>

\* Slip: what stat does not find is not answered.
NotFoundForgotten(c) == IF req[c] = "page" THEN "open" ELSE "close"

\* 405 answers nothing, and handle_request is empty.
AnswerAt(c) == IF req[c] \in {"page", "missing"} THEN "open" ELSE "close"

\* Slip: a read at the end of the input counts as one that got data.
LessOne(n) == n - 1

Less(n) == IF n > 0 THEN n - 1 ELSE 0

\* Slip: the end of the input is not noticed.
OnlyWithData(d) == unread[d] > 0

Returns(d) == unread[d] > 0 \/ Ended(d)

\* fgets waits for another line, although recv has consumed the request.
FgetsReturns(c) ==
    /\ up /\ pc[c] = "in_fgets"
    /\ \/ ~IsConn(held[c]) /\ UNCHANGED unread
       \/ \E d \in Clients :
            /\ held[c] = Conn(d)
            /\ Returns(d)
            /\ unread' = [unread EXCEPT ![d] = Less(@)]
    /\ held' = [held EXCEPT ![c] = Free]
    /\ Goto(c, AnswerAt(c))
    /\ UNCHANGED <<up, table, clientVars, got, fd, file, req>>

-----------------------------------------------------------------------------
(* cli_handler: the answer, echo_www or show_404 *)

Open(c) ==
    /\ up /\ pc[c] = "open"
    /\ \/ \E f \in Fds :
            /\ Lowest(f)
            /\ table' = [table EXCEPT ![f] = File(c)]
            /\ file' = [file EXCEPT ![c] = f]
            /\ Goto(c, "head")
       \/ FreeFds = {} /\ Goto(c, "close") /\ UNCHANGED <<table, file>>
    /\ UNCHANGED <<up, clientVars, unread, got, fd, req, held>>

\* Sending to a client that is gone looks like success the first time; after
\* that SIGPIPE may end the process.
Deliver(c, what) ==
    \/ \E d \in Clients :
        /\ Designates(fd[c]) = Conn(d)
        /\ got' = [got EXCEPT ![d] = @ \cup {what}]
        /\ UNCHANGED up
    \/ \E d \in Clients :
        /\ Designates(fd[c]) = Conn(d)
        /\ peer[d] = "gone" /\ got[d] # {}
        /\ up' = FALSE
        /\ UNCHANGED got
    \/ /\ ~IsConn(Designates(fd[c]))
       /\ UNCHANGED <<up, got>>

\* echo_www gives up when its header is not sent; show_404 does not look.
HeadFails(c) == req[c] = "page" /\ ~IsConn(Designates(fd[c]))

\* Slip: the return on that error leaves the file open.
AfterHeadLeaking(c) == IF HeadFails(c) THEN "close" ELSE "body"

AfterHead(c) == IF HeadFails(c) THEN "close_file" ELSE "body"

Header(k) == IF k = "page" THEN "200" ELSE "404"
Body(k) == IF k = "page" THEN "the page" ELSE "404.html"

Head(c) ==
    /\ up /\ pc[c] = "head"
    /\ Deliver(c, <<c, Header(req[c])>>)
    /\ Goto(c, AfterHead(c))
    /\ UNCHANGED <<table, clientVars, unread, fd, file, req, held>>

\* Slip: the end of the body ends the thread, and skips all that is left to close.
ThreadEnds == "done"

AfterBody == "close_file"

\* The sendfile loop: it stops at an error, and is over at once when the
\* number of the file no longer stands for a file.
SendBody(c) ==
    /\ up /\ pc[c] = "body"
    /\ \/ \E e \in Clients :
            Designates(file[c]) = File(e) /\ Deliver(c, <<e, Body(req[e])>>)
       \/ /\ ~IsFile(Designates(file[c]))
          /\ UNCHANGED <<up, got>>
    /\ Goto(c, AfterBody)
    /\ UNCHANGED <<table, clientVars, unread, fd, file, req, held>>

CloseFile(c) ==
    /\ up /\ pc[c] = "close_file"
    /\ Closing(file[c])
    /\ Goto(c, "close")
    /\ UNCHANGED <<up, clientVars, unread, got, fd, file, req, held>>

-----------------------------------------------------------------------------
(* The end of cli_handler, fclose or close, and of work, close again *)

Close(c) ==
    /\ up /\ pc[c] = "close"
    /\ Closing(fd[c])
    /\ Goto(c, "work_close")
    /\ UNCHANGED <<up, clientVars, unread, got, fd, file, req, held>>

WorkCloses(c) ==
    /\ up /\ pc[c] = "work_close"
    /\ Closing(fd[c])
    /\ Goto(c, "done")
    /\ fd' = [fd EXCEPT ![c] = NoFd]
    /\ file' = [file EXCEPT ![c] = NoFd]
    /\ UNCHANGED <<up, clientVars, unread, got, req, held>>

-----------------------------------------------------------------------------

Client(c) == Connect(c) \/ Send(c) \/ End(c)

Thread(c) ==
    \/ Recv(c) \/ RecvReturns(c) \/ Fdopen(c) \/ FgetsReturns(c)
    \/ Open(c) \/ Head(c) \/ SendBody(c) \/ CloseFile(c)
    \/ Close(c) \/ WorkCloses(c)

Next == \E c \in Clients : Client(c) \/ Accept(c) \/ AcceptFails(c) \/ Thread(c)

Spec == Init /\ [][Next]_vars

\* The scheduler runs every thread; clients may stop at any point.
Fairness == \A c \in Clients : WF_vars(Accept(c)) /\ WF_vars(Thread(c))

-----------------------------------------------------------------------------
(* Properties *)

Pcs == {"unborn", "recv", "in_recv", "fdopen", "in_fgets", "open", "head",
        "body", "close_file", "close", "work_close", "done"}
Things == {Conn(c) : c \in Clients} \cup {File(c) : c \in Clients} \cup {Free}
Parts == {"200", "404", "the page", "404.html"}

\* The types of the variables: what every number may stand for, and how much
\* of a request is unread.
TypeOK ==
    /\ manners \in Manners /\ up \in BOOLEAN
    /\ table \in [Fds -> Things]
    /\ peer \in [Clients -> {"away", "open", "half", "gone"}]
    /\ kind \in [Clients -> Kinds]
    /\ sent \in [Clients -> 0 .. Chunks]
    /\ unread \in [Clients -> 0 .. Chunks]
    /\ got \in [Clients -> SUBSET (Clients \X Parts)]
    /\ pc \in [Clients -> Pcs]
    /\ fd \in [Clients -> Fds \cup {NoFd}]
    /\ file \in [Clients -> Fds \cup {NoFd}]
    /\ req \in [Clients -> AllKinds]
    /\ held \in [Clients -> Things]

\* However the closes of the threads cut across each other, a thread that
\* ends leaves neither its connection nor its file in the table.
DoneMeansClosed ==
    \A c \in Clients : pc[c] = "done" => ~Listed(Conn(c)) /\ ~Listed(File(c))

\* A connection whose client has ended its output is closed in the end, as
\* long as the process lives: no thread waits for it for ever.
EndedIsClosed ==
    \A c \in Clients : (pc[c] # "unborn" /\ Ended(c)) ~> (~Listed(Conn(c)) \/ ~up)

Answer(c) == {<<c, Header(kind[c])>>, <<c, Body(kind[c])>>}
Served(c) == manners = "polite" /\ pc[c] = "done" /\ sent[c] > 0

\* A polite client that asks for a page, there or not, is sent the whole answer to
\* its request, in which nothing is of another one.
RightAnswer ==
    \A c \in Clients : Served(c) /\ kind[c] \in {"page", "missing"} => got[c] = Answer(c)

\* http.cpp:240 says that a client whose method is neither GET nor POST is answered
\* with an error page: it is not left without any answer.
BadMethodIsAnswered ==
    \A c \in Clients : Served(c) /\ kind[c] = "bad" => got[c] # {}

\* Polite clients never make the process exit: every descriptor comes back
\* before the next one needs it.
StaysUp == manners = "polite" => up

\* main.cpp:14 says of the second close that it closes the client: it closes
\* no other client's connection.
ClosesOnlyItsOwn ==
    [][\A c \in Clients : WorkCloses(c) =>
        \A d \in Clients \ {c} : Listed(Conn(d)) => Listed(Conn(d))']_vars
=============================================================================

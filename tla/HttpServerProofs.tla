-------------------------- MODULE HttpServerProofs --------------------------
(***************************************************************************)
(* A thread of the web server leaves nothing in the descriptor table, for  *)
(* any number of clients, descriptors and chunks, although other threads   *)
(* may close and reuse its numbers.  The reason: a connection or a file    *)
(* appears in the table only under the number its thread has kept for it,  *)
(* and only while the thread has not yet closed that number.               *)
(*                                                                         *)
(* Clients that come one after the other find every number back, so that   *)
(* the process never exits, and each gets its whole answer.  The reason:   *)
(* only one thread is under way, and it keeps its numbers until it closes  *)
(* them itself.                                                            *)
(***************************************************************************)
EXTENDS HttpServer, TLAPS

\* Where a thread has its connection, and its file, still to close.
Serving == Pcs \ {"unborn", "work_close", "done"}
Answering == {"head", "body", "close_file"}

\* What is in the table is under its own number, and will be closed.
OwnedInv ==
    \A f \in Fds, c \in Clients :
        /\ table[f] = Conn(c) => f = fd[c] /\ pc[c] \in Serving
        /\ table[f] = File(c) => f = file[c] /\ pc[c] \in Answering

\* No chunk is unread that has not been sent.
UnreadInv == \A c \in Clients : unread[c] <= sent[c]

IInv == TypeOK /\ OwnedInv /\ UnreadInv

\* Its client has connected and its thread has not ended.
Active(c) == peer[c] # "away" /\ pc[c] # "done"

\* What a thread that is alone has, and reads.
Alone(c) ==
    /\ peer[c] # "gone"
    /\ peer[c] = "away" => pc[c] = "unborn"
    /\ pc[c] \in Serving => fd[c] \in Fds /\ table[fd[c]] = Conn(c)
    /\ pc[c] \in Answering => file[c] \in Fds /\ table[file[c]] = File(c)
    /\ pc[c] \in {"in_recv", "in_fgets"} => held[c] = Conn(c)

\* Polite clients are alone, one after the other.
PoliteInv ==
    manners = "polite" =>
        /\ up
        /\ \A c \in Clients : Alone(c)
        /\ \A c, d \in Clients : Active(c) /\ Active(d) => c = d

\* Before and after the request was read.
Unasked == {"unborn", "recv", "in_recv"}

Answered == {"page", "missing"}

\* The thread reads the request its client sent, and answers that.
RequestInv(c) ==
    /\ pc[c] \in Unasked => unread[c] = sent[c]
    /\ pc[c] \notin Unasked => req[c] = kind[c] \/ (sent[c] = 0 /\ peer[c] = "half")
    /\ pc[c] \in {"open", "head", "body", "close_file"} => req[c] \in Answered

\* What its client has been sent when the thread is at this point.
GivenInv(c) ==
    /\ pc[c] \in Unasked \cup {"fdopen", "in_fgets", "open", "head"} => got[c] = {}
    /\ pc[c] = "body" => got[c] = {<<c, Header(req[c])>>}
    /\ pc[c] \in {"close_file", "close", "work_close", "done"} =>
           got[c] = IF req[c] \in Answered THEN {<<c, Header(req[c])>>, <<c, Body(req[c])>>} ELSE {}

AnswerInv == manners = "polite" => \A c \in Clients : RequestInv(c) /\ GivenInv(c)

\* The things in the table are different from each other.
LEMMA ThingsDiffer ==
    /\ Free \in Things
    /\ \A c, d \in Clients :
        /\ Conn(c) \in Things /\ File(c) \in Things
        /\ Conn(c) # File(d) /\ Conn(c) # Free /\ File(c) # Free
        /\ Conn(c) = Conn(d) => c = d
        /\ File(c) = File(d) => c = d
BY DEF Conn, File, Free, Things

\* What a number designates is one of them.
LEMMA Designated == ASSUME TypeOK, NEW f PROVE Designates(f) \in Things
BY ThingsDiffer DEF TypeOK, Designates, Things

\* At the start no thread runs and no descriptor beyond the listener is open.
LEMMA Initially == Init => IInv
<1> SUFFICES ASSUME Init PROVE IInv
    OBVIOUS
<1> USE HttpServerAssumption DEF HttpServerAssumption
<1>1. TypeOK
    <2>1. req \in [Clients -> AllKinds]
        BY DEF Init
    <2>2. table \in [Fds -> Things] /\ held \in [Clients -> Things]
        BY DEF Init, Things
    <2>3. sent \in [Clients -> 0 .. Chunks] /\ unread \in [Clients -> 0 .. Chunks]
        BY DEF Init
    <2> QED
        BY <2>1, <2>2, <2>3 DEF Init, TypeOK, Pcs
<1>2. OwnedInv /\ UnreadInv
    BY ThingsDiffer DEF Init, OwnedInv, UnreadInv
<1> QED
    BY <1>1, <1>2 DEF IInv

-----------------------------------------------------------------------------

\* Clients do not touch the table.
LEMMA ClientKeeps == ASSUME IInv, NEW c \in Clients, Client(c) PROVE IInv'
<1> USE HttpServerAssumption DEF HttpServerAssumption, IInv, Client, Connect, Send, End, threadVars
<1>1. TypeOK'
    BY DEF TypeOK, UnreadInv
<1>2. OwnedInv'
    BY DEF TypeOK, OwnedInv
<1>3. UnreadInv'
    BY DEF TypeOK, UnreadInv
<1> QED
    BY <1>1, <1>2, <1>3

\* accept takes a free number for a connection that has none.
LEMMA AcceptKeeps == ASSUME IInv, NEW c \in Clients, Accept(c) \/ AcceptFails(c) PROVE IInv'
<1> USE DEF IInv, Goto, clientVars, threadVars
<1>1. CASE Accept(c)
    <2> USE <1>1 DEF Accept
    <2>1. PICK f \in Fds :
            /\ table[f] = Free
            /\ table' = [table EXCEPT ![f] = Conn(c)]
            /\ fd' = [fd EXCEPT ![c] = f]
        BY DEF Lowest, FreeFds
    <2>2. TypeOK'
        BY <2>1, ThingsDiffer DEF TypeOK, Pcs
    <2>3. OwnedInv'
        BY <2>1, ThingsDiffer DEF TypeOK, OwnedInv, Serving, Answering, Pcs
    <2>4. UnreadInv'
        BY DEF UnreadInv
    <2> QED
        BY <2>2, <2>3, <2>4
<1>2. CASE AcceptFails(c)
    BY <1>2 DEF AcceptFails, TypeOK, OwnedInv, UnreadInv
<1> QED
    BY <1>1, <1>2

\* Closing a number takes its entry away, whatever it is, and no other.
LEMMA ClosingTakes ==
    ASSUME TypeOK, NEW f, Closing(f)
    PROVE  /\ table' \in [Fds -> Things]
           /\ \A g \in Fds : table'[g] = IF g = f THEN Free ELSE table[g]
BY ThingsDiffer DEF TypeOK, Closing

\* The reading steps leave the table alone.
LEMMA ReadingKeeps ==
    ASSUME IInv, NEW c \in Clients, Recv(c) \/ RecvReturns(c) \/ Fdopen(c) \/ FgetsReturns(c)
    PROVE  IInv'
<1> USE Designated, ThingsDiffer DEF IInv, Goto, clientVars, threadVars
<1>1. CASE Recv(c)
    <2> USE <1>1 DEF Recv
    <2>1. TypeOK'
        BY DEF TypeOK, Pcs
    <2>2. ~IsConn(Designates(fd[c])) => \A f \in Fds : table[f] # Conn(c)
        BY DEF OwnedInv, IsConn, Designates
    <2>3. OwnedInv'
        BY <2>2 DEF TypeOK, OwnedInv, Serving, Answering, Pcs
    <2> QED
        BY <2>1, <2>3 DEF UnreadInv
<1>2. CASE RecvReturns(c)
    <2> USE <1>2 DEF RecvReturns
    <2>a. unread' \in [Clients -> 0 .. Chunks] /\ req' \in [Clients -> AllKinds]
        BY HttpServerAssumption DEF HttpServerAssumption, TypeOK, Parsed
    <2>1. TypeOK'
        BY <2>a DEF TypeOK, Pcs
    <2>2. OwnedInv'
        BY DEF TypeOK, OwnedInv, Serving, Answering, Pcs
    <2>3. UnreadInv'
        BY DEF TypeOK, UnreadInv
    <2> QED
        BY <2>1, <2>2, <2>3
<1>3. CASE Fdopen(c)
    <2> USE <1>3 DEF Fdopen
    <2>1. TypeOK'
        BY DEF TypeOK, Pcs
    <2>2. OwnedInv'
        BY DEF TypeOK, OwnedInv, Serving, Answering, Pcs
    <2> QED
        BY <2>1, <2>2 DEF UnreadInv
<1>4. CASE FgetsReturns(c)
    <2> USE <1>4 DEF FgetsReturns, AnswerAt
    <2>a. unread' \in [Clients -> 0 .. Chunks]
        BY HttpServerAssumption DEF HttpServerAssumption, TypeOK, Less
    <2>1. TypeOK'
        BY <2>a DEF TypeOK, Pcs
    <2>2. OwnedInv'
        BY DEF TypeOK, OwnedInv, Serving, Answering, Pcs
    <2>3. UnreadInv'
        BY DEF TypeOK, UnreadInv, Less
    <2> QED
        BY <2>1, <2>2, <2>3
<1> QED
    BY <1>1, <1>2, <1>3, <1>4

\* Sending changes neither the table nor the thread.
LEMMA Delivery ==
    ASSUME TypeOK, NEW c, NEW what \in Clients \X Parts, Deliver(c, what)
    PROVE  up' \in BOOLEAN /\ got' \in [Clients -> SUBSET (Clients \X Parts)]
<1>1. CASE \E d \in Clients : got' = [got EXCEPT ![d] = @ \cup {what}] /\ UNCHANGED up
    BY <1>1 DEF TypeOK
<1>2. CASE up' = FALSE /\ UNCHANGED got
    BY <1>2 DEF TypeOK
<1>3. CASE UNCHANGED <<up, got>>
    BY <1>3 DEF TypeOK
<1> QED
    BY <1>1, <1>2, <1>3 DEF Deliver

\* The answer keeps its file in the table until it closes it.
LEMMA AnsweringKeeps ==
    ASSUME IInv, NEW c \in Clients, Open(c) \/ Head(c) \/ SendBody(c) \/ CloseFile(c)
    PROVE  IInv'
<1> USE DEF IInv, Goto, clientVars, threadVars
<1>1. CASE Open(c)
    <2> USE <1>1 DEF Open
    <2>1. CASE \E f \in Fds : table' = [table EXCEPT ![f] = File(c)]
                             /\ table[f] = Free /\ file' = [file EXCEPT ![c] = f] /\ Goto(c, "head")
        <3>1. PICK f \in Fds : table' = [table EXCEPT ![f] = File(c)]
                              /\ table[f] = Free /\ file' = [file EXCEPT ![c] = f] /\ Goto(c, "head")
            BY <2>1
        <3>2. TypeOK'
            BY <3>1, ThingsDiffer DEF TypeOK, Pcs
        <3>3. OwnedInv'
            BY <3>1, ThingsDiffer DEF TypeOK, OwnedInv, Serving, Answering, Pcs
        <3> QED
            BY <3>2, <3>3 DEF UnreadInv
    <2>2. CASE Goto(c, "close") /\ UNCHANGED <<table, file>>
        <3>1. TypeOK'
            BY <2>2 DEF TypeOK, Pcs
        <3>2. OwnedInv'
            BY <2>2 DEF TypeOK, OwnedInv, Serving, Answering, Pcs
        <3> QED
            BY <3>1, <3>2 DEF UnreadInv
    <2> QED
        BY <2>1, <2>2 DEF Lowest, FreeFds
<1>2. CASE Head(c)
    <2> USE <1>2 DEF Head
    <2>1. <<c, Header(req[c])>> \in Clients \X Parts
        BY DEF Header, Parts
    <2>2. up' \in BOOLEAN /\ got' \in [Clients -> SUBSET (Clients \X Parts)]
        BY <2>1, Delivery
    <2>3. TypeOK'
        BY <2>2 DEF TypeOK, AfterHead, Pcs
    <2>4. OwnedInv'
        BY DEF TypeOK, OwnedInv, AfterHead, Serving, Answering, Pcs
    <2> QED
        BY <2>3, <2>4 DEF UnreadInv
<1>3. CASE SendBody(c)
    <2> USE <1>3 DEF SendBody, AfterBody
    <2>1. up' \in BOOLEAN /\ got' \in [Clients -> SUBSET (Clients \X Parts)]
        <3>1. \A e \in Clients : <<e, Body(req[e])>> \in Clients \X Parts
            BY DEF Body, Parts
        <3> QED
            BY <3>1, Delivery DEF TypeOK
    <2>2. TypeOK'
        BY <2>1 DEF TypeOK, Pcs
    <2>3. OwnedInv'
        BY DEF TypeOK, OwnedInv, Serving, Answering, Pcs
    <2> QED
        BY <2>2, <2>3 DEF UnreadInv
<1>4. CASE CloseFile(c)
    <2> USE <1>4 DEF CloseFile
    <2>1. /\ table' \in [Fds -> Things]
          /\ \A g \in Fds : table'[g] = IF g = file[c] THEN Free ELSE table[g]
        BY ClosingTakes
    <2>2. TypeOK'
        BY <2>1 DEF TypeOK, Pcs
    <2>3. OwnedInv'
        BY <2>1, ThingsDiffer DEF TypeOK, OwnedInv, Serving, Answering, Pcs
    <2> QED
        BY <2>2, <2>3 DEF UnreadInv
<1> QED
    BY <1>1, <1>2, <1>3, <1>4

\* After the first close nothing of the thread is left, and the second one
\* cannot bring it back.
LEMMA ClosesKeep == ASSUME IInv, NEW c \in Clients, Close(c) \/ WorkCloses(c) PROVE IInv'
<1> USE DEF IInv, Goto, clientVars, threadVars, Close, WorkCloses
<1>1. /\ table' \in [Fds -> Things]
      /\ \A g \in Fds : table'[g] = IF g = fd[c] THEN Free ELSE table[g]
    BY ClosingTakes
<1>2. CASE Close(c)
    <2>1. TypeOK'
        BY <1>1, <1>2 DEF TypeOK, Pcs
    <2>2. OwnedInv'
        BY <1>1, <1>2, ThingsDiffer DEF TypeOK, OwnedInv, Serving, Answering, Pcs
    <2> QED
        BY <1>2, <2>1, <2>2 DEF UnreadInv
<1>3. CASE WorkCloses(c)
    <2>1. TypeOK'
        BY <1>1, <1>3 DEF TypeOK, Pcs
    <2>2. OwnedInv'
        BY <1>1, <1>3, ThingsDiffer DEF TypeOK, OwnedInv, Serving, Answering, Pcs
    <2> QED
        BY <1>3, <2>1, <2>2 DEF UnreadInv
<1> QED
    BY <1>2, <1>3

-----------------------------------------------------------------------------

\* The invariant holds in every reachable state.
THEOREM Invariance == Spec => []IInv
<1>1. IInv /\ [Next]_vars => IInv'
    <2> SUFFICES ASSUME IInv, [Next]_vars PROVE IInv'
        OBVIOUS
    <2>1. CASE Next
        BY <2>1, ClientKeeps, AcceptKeeps, ReadingKeeps, AnsweringKeeps, ClosesKeep DEF Next, Thread
    <2>2. CASE UNCHANGED vars
        BY <2>2 DEF vars, clientVars, threadVars, IInv, TypeOK, OwnedInv, UnreadInv
    <2> QED
        BY <2>1, <2>2
<1> QED
    BY <1>1, Initially, PTL DEF Spec

\* A thread that ends leaves neither its connection nor its file open, even if
\* other threads have closed or reused its numbers.
THEOREM NothingLeaks == Spec => []DoneMeansClosed
<1>1. IInv => DoneMeansClosed
    BY DEF IInv, OwnedInv, DoneMeansClosed, Listed, Serving, Answering
<1> QED
    BY <1>1, Invariance, PTL

\* The variables keep their types.
THEOREM TypeCorrect == Spec => []TypeOK
<1>1. IInv => TypeOK
    BY DEF IInv
<1> QED
    BY <1>1, Invariance, PTL

-----------------------------------------------------------------------------
(* Polite clients *)

\* While the thread of one client is under way the others have none.
LEMMA OthersRest ==
    ASSUME TypeOK, PoliteInv, manners = "polite", NEW c \in Clients, Active(c),
           NEW d \in Clients \ {c}
    PROVE  pc[d] \in {"unborn", "done"} /\ ~Active(d)
BY DEF PoliteInv, Active, Alone

\* Whoever is at rest and is not touched stays as it is.
LEMMA RestKept ==
    ASSUME NEW d \in Clients, Alone(d), pc[d] \in {"unborn", "done"},
           pc'[d] = pc[d], peer'[d] = peer[d]
    PROVE  Alone(d)'
BY DEF Alone, Serving, Answering, Pcs

\* The number that a thread on its own works on is its connection.
LEMMA OwnConnection ==
    ASSUME TypeOK, PoliteInv, manners = "polite", NEW c \in Clients, pc[c] \in Serving
    PROVE  /\ Active(c)
           /\ Designates(fd[c]) = Conn(c)
           /\ IsConn(Designates(fd[c]))
BY DEF PoliteInv, Alone, Active, Serving, Pcs, Designates, IsConn

\* What a client does.
LEMMA ClientPolite ==
    ASSUME IInv, PoliteInv, manners = "polite", NEW c \in Clients, Client(c)
    PROVE  PoliteInv'
<1> USE DEF PoliteInv
<1>1. CASE Connect(c)
    <2> USE <1>1 DEF Connect, threadVars
    <2>1. peer' = [peer EXCEPT ![c] = "open"] /\ pc[c] = "unborn"
        BY DEF Alone
    <2>2. \A d \in Clients : Active(d)' => d = c
        BY <2>1 DEF IInv, TypeOK, Active
    <2>3. \A d \in Clients : Alone(d)'
        BY <2>1 DEF IInv, TypeOK, Alone
    <2> QED
        BY <2>2, <2>3
<1>2. CASE Send(c)
    BY <1>2 DEF Send, threadVars, Alone, Active
<1>3. CASE End(c)
    <2>1. peer' = [peer EXCEPT ![c] = "half"] /\ peer[c] # "away"
        BY <1>3 DEF End
    <2>2. UNCHANGED <<up, table, manners, threadVars>>
        BY <1>3 DEF End
    <2>3. \A d \in Clients : Active(d)' => Active(d)
        BY <2>1, <2>2 DEF IInv, TypeOK, Active, threadVars
    <2>4. \A d \in Clients : Alone(d)'
        BY <2>1, <2>2 DEF IInv, TypeOK, Alone, threadVars
    <2> QED
        BY <2>2, <2>3, <2>4
<1> QED
    BY <1>1, <1>2, <1>3 DEF Client

\* accept finds a number: no thread is left that could have one.
LEMMA AcceptPolite ==
    ASSUME IInv, PoliteInv, manners = "polite", NumFds >= 1,
           NEW c \in Clients, Accept(c) \/ AcceptFails(c)
    PROVE  PoliteInv'
<1>1. peer[c] # "away" /\ pc[c] = "unborn"
    BY DEF Accept, AcceptFails
<1>2. Active(c)
    BY <1>1 DEF Active
<1>3. \A d \in Clients : pc[d] \in {"unborn", "done"} /\ (Active(d) => d = c) /\ Alone(d)
    BY <1>1, <1>2 DEF PoliteInv, Active, Alone
<1>4. FreeFds # {}
    <2>1. \A f \in Fds : table[f] = Free
        BY <1>3 DEF IInv, TypeOK, OwnedInv, Things, Serving, Answering, Pcs
    <2>2. 1 \in Fds
        BY HttpServerAssumption DEF Fds, HttpServerAssumption
    <2> QED
        BY <2>1, <2>2 DEF FreeFds
<1>5. Accept(c)
    BY <1>4 DEF AcceptFails
<1>6. PICK f \in Fds : table' = [table EXCEPT ![f] = Conn(c)] /\ fd' = [fd EXCEPT ![c] = f]
    BY <1>5 DEF Accept
<1>7. pc' = [pc EXCEPT ![c] = "recv"] /\ UNCHANGED <<up, manners, peer>>
    BY <1>5 DEF Accept, Goto, clientVars
<1>8. Alone(c)'
    BY <1>1, <1>3, <1>6, <1>7 DEF IInv, TypeOK, Alone, Serving, Answering, Pcs
<1>9. \A d \in Clients \ {c} : Alone(d)'
    <2> SUFFICES ASSUME NEW d \in Clients \ {c} PROVE Alone(d)'
        OBVIOUS
    <2>1. pc'[d] = pc[d] /\ peer'[d] = peer[d]
        BY <1>7 DEF IInv, TypeOK
    <2> QED
        BY <1>3, <2>1, RestKept
<1>10. \A d \in Clients : Active(d)' => d = c
    BY <1>3, <1>7 DEF IInv, TypeOK, Active
<1> QED
    BY <1>7, <1>8, <1>9, <1>10 DEF PoliteInv

\* What every step of the thread of c does, whatever it is.
LEMMA ThreadTouches ==
    ASSUME TypeOK, NEW c \in Clients, Thread(c)
    PROVE  /\ UNCHANGED <<manners, peer, kind, sent>>
           /\ pc[c] \in Pcs \ {"unborn", "done"}
           /\ \A d \in Clients \ {c} :
                  /\ pc'[d] = pc[d] /\ fd'[d] = fd[d] /\ file'[d] = file[d]
                  /\ req'[d] = req[d] /\ held'[d] = held[d]
BY DEF Thread, Recv, RecvReturns, Fdopen, FgetsReturns, Open, Head, SendBody, CloseFile, Close, WorkCloses,
       Goto, clientVars, TypeOK, Pcs

\* A thread that is on its own keeps what it has until it closes it.
LEMMA ThreadAlone ==
    ASSUME IInv, PoliteInv, manners = "polite", NEW c \in Clients, Thread(c)
    PROVE  up' /\ Alone(c)'
<1> USE DEF IInv
<1>1. /\ Alone(c) /\ up /\ peer[c] # "gone" /\ peer[c] # "away"
      /\ pc[c] \in Serving => Designates(fd[c]) = Conn(c) /\ IsConn(Designates(fd[c]))
    BY ThreadTouches, OwnConnection DEF PoliteInv, Alone, Active
<1>2. peer' = peer
    BY ThreadTouches
<1>3. CASE Recv(c)
    BY <1>1, <1>2, <1>3 DEF Recv, Goto, Alone, TypeOK, Serving, Answering, Pcs
<1>4. CASE RecvReturns(c) \/ FgetsReturns(c)
    BY <1>1, <1>2, <1>4 DEF RecvReturns, FgetsReturns, AnswerAt, Goto, Alone, TypeOK, Serving, Answering, Pcs
<1>5. CASE Fdopen(c)
    <2>1. Conn(c) # Free
        BY ThingsDiffer
    <2> QED
        BY <1>1, <1>2, <1>5, <2>1 DEF Fdopen, Goto, Alone, TypeOK, Serving, Answering, Pcs
<1>6. CASE Open(c)
    <2>1. UNCHANGED <<up, fd>>
        BY <1>6 DEF Open
    <2>2. CASE \E f \in Fds : /\ table[f] = Free /\ table' = [table EXCEPT ![f] = File(c)]
                             /\ file' = [file EXCEPT ![c] = f] /\ Goto(c, "head")
        <3>1. PICK f \in Fds : /\ table[f] = Free /\ table' = [table EXCEPT ![f] = File(c)]
                              /\ file' = [file EXCEPT ![c] = f] /\ Goto(c, "head")
            BY <2>2
        <3>2. f # fd[c]
            BY <1>1, <1>6, <3>1, ThingsDiffer DEF Open, Alone, Serving, Pcs
        <3> QED
            BY <1>1, <1>2, <1>6, <2>1, <3>1, <3>2 DEF Open, Goto, Alone, TypeOK, Serving, Answering, Pcs
    <2>3. CASE Goto(c, "close") /\ UNCHANGED <<table, file>>
        BY <1>1, <1>2, <1>6, <2>1, <2>3 DEF Open, Goto, Alone, TypeOK, Serving, Answering, Pcs
    <2> QED
        BY <1>6, <2>2, <2>3 DEF Open, Lowest, FreeFds
<1>7. CASE Head(c) \/ SendBody(c)
    <2>1. up'
        <3>1. ASSUME NEW what, Deliver(c, what) PROVE up'
            <4>1. ASSUME NEW d \in Clients, Designates(fd[c]) = Conn(d) PROVE peer[d] # "gone"
                BY DEF PoliteInv, Alone
            <4> QED
                BY <1>1, <3>1, <4>1 DEF Deliver
        <3> QED
            BY <1>1, <1>7, <3>1 DEF Head, SendBody
    <2>2. /\ UNCHANGED <<table, fd, file, held>>
          /\ pc[c] \in {"head", "body"}
          /\ pc' = [pc EXCEPT ![c] = "body"] \/ pc' = [pc EXCEPT ![c] = "close_file"]
        BY <1>7 DEF Head, AfterHead, SendBody, AfterBody, Goto
    <2> QED
        BY <1>1, <1>2, <2>1, <2>2 DEF Alone, TypeOK, Serving, Answering, Pcs
<1>8. CASE CloseFile(c)
    <2>1. file[c] # fd[c]
        BY <1>1, <1>8, ThingsDiffer DEF CloseFile, Alone, Serving, Answering, Pcs
    <2>2. \A g \in Fds : table'[g] = IF g = file[c] THEN Free ELSE table[g]
        BY <1>8, ClosingTakes DEF CloseFile
    <2> QED
        BY <1>1, <1>2, <1>8, <2>1, <2>2 DEF CloseFile, Goto, Alone, TypeOK, Serving, Answering, Pcs
<1>9. CASE Close(c) \/ WorkCloses(c)
    BY <1>1, <1>2, <1>9 DEF Close, WorkCloses, Goto, Alone, TypeOK, Serving, Answering, Pcs
<1> QED
    BY <1>3, <1>4, <1>5, <1>6, <1>7, <1>8, <1>9 DEF Thread

\* The thread of the one client that is there leaves the server up.
LEMMA ThreadPolite ==
    ASSUME IInv, PoliteInv, manners = "polite", NEW c \in Clients, Thread(c)
    PROVE  PoliteInv'
<1>1. /\ UNCHANGED <<manners, peer>>
      /\ pc[c] \in Pcs \ {"unborn", "done"}
      /\ \A d \in Clients \ {c} : pc'[d] = pc[d]
    BY ThreadTouches DEF IInv
<1>2. Active(c)
    BY <1>1 DEF PoliteInv, Alone, Active
<1>3. \A d \in Clients \ {c} : Alone(d)' /\ ~Active(d)'
    <2> SUFFICES ASSUME NEW d \in Clients \ {c} PROVE Alone(d)' /\ ~Active(d)'
        OBVIOUS
    <2>1. pc[d] \in {"unborn", "done"} /\ ~Active(d) /\ Alone(d)
        BY <1>2, OthersRest DEF IInv, PoliteInv
    <2>2. pc'[d] = pc[d] /\ peer'[d] = peer[d]
        BY <1>1
    <2> QED
        BY <2>1, <2>2, RestKept DEF Active
<1> QED
    BY <1>3, ThreadAlone DEF PoliteInv

\* Every step of a server whose clients come one at a time leaves it up.
LEMMA PoliteKept ==
    NumFds >= 1 /\ IInv /\ PoliteInv /\ [Next]_vars => PoliteInv'
<1> SUFFICES ASSUME NumFds >= 1, IInv, PoliteInv, [Next]_vars, manners' = "polite" PROVE PoliteInv'
    BY DEF PoliteInv
<1>1. manners = "polite"
    BY DEF Next, Client, Connect, Send, End, Accept, AcceptFails, Thread, Recv, RecvReturns, Fdopen,
           FgetsReturns, Open, Head, SendBody, CloseFile, Close, WorkCloses, clientVars, vars
<1>2. CASE UNCHANGED vars
    BY <1>2 DEF vars, clientVars, threadVars, PoliteInv, Alone, Active
<1> QED
    BY <1>1, <1>2, ClientPolite, AcceptPolite, ThreadPolite DEF Next

\* At the start nobody has come before another one had left.
LEMMA InitiallyPolite == Init => PoliteInv
BY DEF Init, PoliteInv, Alone, Active, Serving, Answering, Pcs

\* Polite clients never make the process exit, neither by a full table nor by a
\* request on a closed number, as long as there is a number for one connection.
THEOREM StaysUpInvariant == NumFds >= 1 => (Spec => []StaysUp)
<1> SUFFICES ASSUME NumFds >= 1 PROVE Spec => []StaysUp
    OBVIOUS
<1>1. PoliteInv => StaysUp
    BY DEF PoliteInv, StaysUp
<1>2. IInv /\ PoliteInv /\ [Next]_vars => PoliteInv'
    BY PoliteKept
<1> QED
    BY <1>1, <1>2, InitiallyPolite, Invariance, PTL DEF Spec

\* Where neither the thread nor its client does anything, the answer stands.
LEMMA AnswerStands ==
    ASSUME NEW d \in Clients, RequestInv(d), GivenInv(d),
           pc'[d] = pc[d], peer'[d] = peer[d], kind'[d] = kind[d], sent'[d] = sent[d],
           unread'[d] = unread[d], req'[d] = req[d], got'[d] = got[d]
    PROVE  RequestInv(d)' /\ GivenInv(d)'
BY DEF RequestInv, GivenInv

\* A client that has not been read sends more of the same request.
LEMMA ClientAnswer ==
    ASSUME IInv, PoliteInv, AnswerInv, manners = "polite", NEW c \in Clients, Client(c)
    PROVE  AnswerInv'
<1> USE DEF IInv
<1>1. UNCHANGED <<pc, req, got, kind, manners>>
    BY DEF Client, Connect, Send, End, threadVars
<1>2. \A d \in Clients : GivenInv(d)'
    BY <1>1 DEF AnswerInv, GivenInv
<1>3. ASSUME NEW d \in Clients PROVE RequestInv(d)'
    <2>0. RequestInv(d)
        BY DEF AnswerInv
    <2>1. CASE Connect(c) \/ End(c)
        <3>1. UNCHANGED <<sent, unread>>
            BY <2>1 DEF Connect, End
        <3>2. peer[d] = "half" => peer'[d] = "half"
            BY <2>1 DEF Connect, End, TypeOK
        <3> QED
            BY <1>1, <2>0, <3>1, <3>2 DEF RequestInv
    <2>2. CASE Send(c)
        <3>1. peer' = peer /\ (d # c => sent'[d] = sent[d] /\ unread'[d] = unread[d])
            BY <2>2 DEF Send, TypeOK
        <3>2. d = c => sent'[d] = sent[d] + 1 /\ unread'[d] = unread[d] + 1 /\ peer[d] = "open"
            BY <2>2 DEF Send, TypeOK
        <3> QED
            BY <1>1, <2>0, <3>1, <3>2 DEF RequestInv
    <2> QED
        BY <2>1, <2>2 DEF Client
<1> QED
    BY <1>2, <1>3 DEF AnswerInv

\* Sending goes to the client of the thread.
LEMMA DeliverOwn ==
    ASSUME IInv, PoliteInv, manners = "polite", NEW c \in Clients, pc[c] \in Serving,
           NEW what, Deliver(c, what)
    PROVE  got' = [got EXCEPT ![c] = @ \cup {what}]
<1>1. Designates(fd[c]) = Conn(c) /\ IsConn(Designates(fd[c]))
    BY OwnConnection DEF IInv
<1>2. \A d \in Clients : Conn(c) = Conn(d) => c = d
    BY ThingsDiffer
<1>3. \A d \in Clients : peer[d] # "gone"
    BY DEF PoliteInv, Alone
<1> QED
    BY <1>1, <1>2, <1>3 DEF Deliver

\* With a number left for its file the thread sends its own client the answer to the
\* request it has read.
LEMMA ThreadAnswer ==
    ASSUME NumFds >= 2, IInv, PoliteInv, AnswerInv, manners = "polite", NEW c \in Clients, Thread(c)
    PROVE  RequestInv(c)' /\ GivenInv(c)' /\ \A d \in Clients \ {c} : unread'[d] = unread[d] /\ got'[d] = got[d]
<1> USE DEF IInv
<1>1. /\ RequestInv(c) /\ GivenInv(c) /\ Alone(c)
      /\ pc[c] \in Serving => Designates(fd[c]) = Conn(c) /\ IsConn(Designates(fd[c]))
      /\ UNCHANGED <<peer, kind, sent>>
    BY ThreadTouches, OwnConnection DEF PoliteInv, AnswerInv
<1>2. CASE Recv(c)
    BY <1>1, <1>2 DEF Recv, Goto, RequestInv, GivenInv, Unasked, TypeOK, Serving, Pcs
<1>3. CASE RecvReturns(c)
    <2>1. held[c] = Conn(c) /\ \A d \in Clients : Conn(c) = Conn(d) => c = d
        BY <1>1, <1>3, ThingsDiffer DEF RecvReturns, Alone
    <2>2. unread[c] = sent[c] /\ unread[c] \in Nat
        BY <1>1, <1>3, HttpServerAssumption DEF RecvReturns, RequestInv, Unasked, TypeOK, HttpServerAssumption
    <2>3. pc' = [pc EXCEPT ![c] = "fdopen"] /\ got' = got /\ pc[c] = "in_recv"
        BY <1>3 DEF RecvReturns, Goto
    <2>4. \/ unread' = [unread EXCEPT ![c] = @ - 1] /\ req' = [req EXCEPT ![c] = kind[c]]
          \/ unread' = unread /\ unread[c] = 0 /\ Ended(c)
        BY <1>1, <1>3, <2>1 DEF RecvReturns, Parsed
    <2>5. req'[c] = kind[c] \/ (sent[c] = 0 /\ peer[c] = "half")
        BY <1>1, <2>2, <2>4 DEF Ended, Alone, TypeOK
    <2>6. RequestInv(c)' /\ GivenInv(c)'
        BY <1>1, <2>3, <2>5 DEF RequestInv, GivenInv, Unasked, TypeOK
    <2>7. \A d \in Clients \ {c} : unread'[d] = unread[d]
        BY <2>4 DEF TypeOK
    <2> QED
        BY <2>3, <2>6, <2>7
<1>4. CASE Fdopen(c)
    BY <1>1, <1>4 DEF Fdopen, Goto, RequestInv, GivenInv, Unasked, TypeOK
<1>5. CASE FgetsReturns(c)
    <2>1. held[c] = Conn(c) /\ \A d \in Clients : Conn(c) = Conn(d) => c = d
        BY <1>1, <1>5, ThingsDiffer DEF FgetsReturns, Alone
    <2>2. \/ unread' = unread
          \/ unread' = [unread EXCEPT ![c] = Less(@)]
        BY <1>5, <2>1 DEF FgetsReturns
    <2>3. /\ pc[c] = "in_fgets" /\ got' = got /\ req' = req
          /\ pc' = [pc EXCEPT ![c] = IF req[c] \in Answered THEN "open" ELSE "close"]
        BY <1>5 DEF FgetsReturns, AnswerAt, Goto, Answered
    <2>4. RequestInv(c)' /\ GivenInv(c)'
        BY <1>1, <2>3 DEF RequestInv, GivenInv, Unasked, TypeOK
    <2>5. \A d \in Clients \ {c} : unread'[d] = unread[d]
        BY <2>2 DEF TypeOK
    <2> QED
        BY <2>3, <2>4, <2>5
<1>6. CASE Open(c)
    <2>1. FreeFds # {}
        <3>1. pc[c] = "open" /\ Active(c)
            BY <1>6, OwnConnection DEF Open, Serving, Pcs
        <3>2. \A d \in Clients \ {c} : pc[d] \in {"unborn", "done"}
            BY <3>1, OthersRest
        <3>3. \A f \in Fds : table[f] # Free => f = fd[c]
            BY <3>1, <3>2 DEF TypeOK, OwnedInv, Things, Serving, Answering, Pcs
        <3>4. 1 \in Fds /\ 2 \in Fds /\ (fd[c] # 1 \/ fd[c] # 2)
            BY HttpServerAssumption DEF Fds, HttpServerAssumption
        <3> QED
            BY <3>3, <3>4 DEF FreeFds
    <2>2. pc[c] = "open" /\ pc' = [pc EXCEPT ![c] = "head"] /\ UNCHANGED <<unread, got, req>>
        BY <1>6, <2>1 DEF Open, Goto
    <2> QED
        BY <1>1, <2>2 DEF RequestInv, GivenInv, Unasked, TypeOK
<1>7. CASE Head(c)
    <2>1. /\ pc[c] = "head" /\ UNCHANGED <<unread, req>>
          /\ pc' = [pc EXCEPT ![c] = "body"]
          /\ Deliver(c, <<c, Header(req[c])>>)
        BY <1>1, <1>7 DEF Head, AfterHead, HeadFails, Goto, Serving, Pcs
    <2>2. got' = [got EXCEPT ![c] = @ \cup {<<c, Header(req[c])>>}]
        BY <2>1, DeliverOwn DEF Serving, Pcs
    <2>3. RequestInv(c)'
        BY <1>1, <2>1 DEF RequestInv, Unasked, TypeOK
    <2>4. GivenInv(c)'
        BY <1>1, <2>1, <2>2 DEF GivenInv, Unasked, TypeOK
    <2> QED
        BY <2>1, <2>2, <2>3, <2>4 DEF TypeOK
<1>8. CASE SendBody(c)
    <2>1. /\ pc[c] = "body" /\ UNCHANGED <<unread, req>>
          /\ pc' = [pc EXCEPT ![c] = "close_file"]
        BY <1>8 DEF SendBody, AfterBody, Goto
    <2>2. Designates(file[c]) = File(c) /\ \A e \in Clients : File(c) = File(e) => c = e
        BY <1>1, <2>1, ThingsDiffer DEF Designates, Alone, Answering
    <2>3. Deliver(c, <<c, Body(req[c])>>)
        BY <1>8, <2>2 DEF SendBody, IsFile
    <2>4. got' = [got EXCEPT ![c] = @ \cup {<<c, Body(req[c])>>}]
        BY <2>1, <2>3, DeliverOwn DEF Serving, Pcs
    <2>5. RequestInv(c)' /\ req[c] \in Answered
        BY <1>1, <2>1 DEF RequestInv, Unasked, TypeOK
    <2>6. GivenInv(c)'
        <3>1. got[c] = {<<c, Header(req[c])>>}
            BY <1>1, <2>1 DEF GivenInv
        <3>2. got'[c] = {<<c, Header(req[c])>>, <<c, Body(req[c])>>}
            BY <2>4, <3>1 DEF TypeOK
        <3> QED
            BY <2>1, <2>5, <3>2 DEF GivenInv, Unasked, TypeOK
    <2> QED
        BY <2>1, <2>4, <2>5, <2>6 DEF TypeOK
<1>9. CASE CloseFile(c) \/ Close(c) \/ WorkCloses(c)
    <2>1. /\ UNCHANGED <<unread, got, req>>
          /\ pc[c] \in {"close_file", "close", "work_close"}
          /\ \E where \in {"close", "work_close", "done"} : pc' = [pc EXCEPT ![c] = where]
        BY <1>9 DEF CloseFile, Close, WorkCloses, Goto
    <2> QED
        BY <1>1, <2>1 DEF RequestInv, GivenInv, Unasked, TypeOK
<1> QED
    BY <1>2, <1>3, <1>4, <1>5, <1>6, <1>7, <1>8, <1>9 DEF Thread

\* Every step leaves a client that is served alone with what belongs to its request.
LEMMA AnswerKept ==
    NumFds >= 2 /\ IInv /\ PoliteInv /\ AnswerInv /\ [Next]_vars => AnswerInv'
<1> SUFFICES ASSUME NumFds >= 2, IInv, PoliteInv, AnswerInv, [Next]_vars, manners' = "polite"
             PROVE  \A d \in Clients : RequestInv(d)' /\ GivenInv(d)'
    BY DEF AnswerInv
<1>1. manners = "polite"
    BY DEF Next, Client, Connect, Send, End, Accept, AcceptFails, Thread, Recv, RecvReturns, Fdopen,
           FgetsReturns, Open, Head, SendBody, CloseFile, Close, WorkCloses, clientVars, vars
<1>2. ASSUME NEW c \in Clients, Client(c) PROVE \A d \in Clients : RequestInv(d)' /\ GivenInv(d)'
    BY <1>1, <1>2, ClientAnswer DEF AnswerInv
<1>3. ASSUME NEW c \in Clients, Accept(c) \/ AcceptFails(c), NEW d \in Clients
      PROVE  RequestInv(d)' /\ GivenInv(d)'
    <2>1. /\ UNCHANGED <<peer, kind, sent, unread, req, got>>
          /\ pc' = pc \/ (pc[c] = "unborn" /\ pc' = [pc EXCEPT ![c] = "recv"])
        BY <1>3 DEF Accept, AcceptFails, Goto, clientVars, threadVars
    <2> QED
        BY <1>1, <2>1 DEF IInv, TypeOK, AnswerInv, RequestInv, GivenInv, Unasked
<1>4. ASSUME NEW c \in Clients, Thread(c), NEW d \in Clients PROVE RequestInv(d)' /\ GivenInv(d)'
    <2>1. CASE d = c
        BY <1>1, <1>4, <2>1, ThreadAnswer
    <2>2. CASE d # c
        <3>1. pc'[d] = pc[d] /\ req'[d] = req[d] /\ UNCHANGED <<peer, kind, sent>>
            BY <1>4, <2>2, ThreadTouches DEF IInv
        <3>2. unread'[d] = unread[d] /\ got'[d] = got[d]
            BY <1>1, <1>4, <2>2, ThreadAnswer
        <3>3. RequestInv(d) /\ GivenInv(d)
            BY <1>1 DEF AnswerInv
        <3> QED
            BY <3>1, <3>2, <3>3, AnswerStands
    <2> QED
        BY <2>1, <2>2
<1>5. CASE UNCHANGED vars
    BY <1>1, <1>5 DEF vars, clientVars, threadVars, AnswerInv, RequestInv, GivenInv
<1> QED
    BY <1>2, <1>3, <1>4, <1>5 DEF Next

\* A polite client that asks for a page, there or not, is sent the whole answer to its
\* request and nothing of another one, as long as there is a number for the file next to
\* the one of the connection.
THEOREM RightAnswerInvariant == NumFds >= 2 => (Spec => []RightAnswer)
<1> SUFFICES ASSUME NumFds >= 2 PROVE Spec => []RightAnswer
    OBVIOUS
<1>0. NumFds >= 1
    BY HttpServerAssumption DEF HttpServerAssumption
<1>1. Init => AnswerInv
    BY DEF Init, AnswerInv, RequestInv, GivenInv, Unasked
<1>2. IInv /\ AnswerInv => RightAnswer
    <2> SUFFICES ASSUME IInv, AnswerInv, NEW c \in Clients, manners = "polite", pc[c] = "done", sent[c] > 0,
                        kind[c] \in Answered
                 PROVE  got[c] = Answer(c)
        BY DEF RightAnswer, Served, Answered
    <2>1. req[c] = kind[c]
        BY DEF IInv, TypeOK, AnswerInv, RequestInv, Unasked
    <2> QED
        BY <2>1 DEF AnswerInv, GivenInv, Answer
<1>3. IInv /\ PoliteInv /\ [Next]_vars => PoliteInv'
    BY <1>0, PoliteKept
<1>4. IInv /\ PoliteInv /\ AnswerInv /\ [Next]_vars => AnswerInv'
    BY AnswerKept
<1> QED
    BY <1>1, <1>2, <1>3, <1>4, InitiallyPolite, Invariance, PTL DEF Spec
=============================================================================
